------------------------------ MODULE ShortLink ------------------------------
(***************************************************************************)
(* shortlink_packer.cpp: what mars sends to the server over HTTP for a     *)
(* task on the short link.  A request is GET if its URL has a ? and POST   *)
(* otherwise; the headers the caller gives come after the fixed ones and,  *)
(* in a POST, before the two that describe the body.                       *)
(***************************************************************************)
EXTENDS Naturals, Sequences

CONSTANTS
  HeaderNames, \* names the callers' headers have
  MaxHeaders,  \* bound: headers of one request
  MaxBody,     \* bound: bytes of one body
  LengthBits   \* width of unsigned int (32)

Given == MaxBody + 1    \* the value of a header that is the caller's

\* Names of headers are compared without regard to case (http::less).
Field(name) == IF name = "content-length" THEN "Content-Length" ELSE name

ASSUME ShortLinkAssumption ==
  /\ MaxHeaders \in Nat /\ MaxBody \in Nat /\ LengthBits \in Nat

\* http::HeaderFields (external): a map, in which the later value of a name
\* stands, or, the library not being here to tell, the earlier one.
HeaderFiled(fields, name, value, replaces) ==
  IF Field(name) \in DOMAIN fields /\ ~ replaces THEN fields
  ELSE [f \in DOMAIN fields \cup {Field(name)} |-> IF f = Field(name) THEN value ELSE fields[f]]

FixedFields ==
  [f \in {"Accept", "User-Agent", "Cache-Control", "Connection"} |-> "fixed"]

\* The loop over _headers.
Headers(given, replaces) ==
  LET set[k \in 0 .. Len(given)] ==
        IF k = 0 THEN FixedFields ELSE HeaderFiled(set[k - 1], given[k], Given, replaces)
  IN set[Len(given)]

\* "%u" of (unsigned int)_body.Length()
Printed(length) == length % 2 ^ LengthBits

\* Faulty: the caller's headers are set last.
FaultyPack(query, given, body, replaces) ==
  IF query THEN [method |-> "GET", fields |-> Headers(given, replaces), body |-> 0]
  ELSE LET typed == HeaderFiled(FixedFields, "Content-Type", "application/json", replaces)
           sized == HeaderFiled(typed, "Content-Length", Printed(body), replaces)
           set[k \in 0 .. Len(given)] ==
             IF k = 0 THEN sized ELSE HeaderFiled(set[k - 1], given[k], Given, replaces)
       IN [method |-> "POST", fields |-> set[Len(given)], body |-> body]

shortlink_pack(query, given, body, replaces) ==
  LET fields == Headers(given, replaces)
      typed  == HeaderFiled(fields, "Content-Type", "application/json", replaces)
      sized  == HeaderFiled(typed, "Content-Length", Printed(body), replaces)
  IN IF query THEN [method |-> "GET", fields |-> fields, body |-> 0]
     ELSE [method |-> "POST", fields |-> sized, body |-> body]

-----------------------------------------------------------------------------
(* A request and what became of it.                                         *)

VARIABLES
  request,    \* what the caller asks for, and how the library treats a name given twice
  packed      \* the message in _out_buff

shortVars == <<request, packed>>

Nothing == [method |-> "none", fields |-> << >>, body |-> 0]
ShortInit ==
  /\ request \in [query : BOOLEAN, body : 0 .. MaxBody, replaces : BOOLEAN,
                  given : UNION {[1 .. n -> HeaderNames] : n \in 0 .. MaxHeaders}]
  /\ packed = Nothing

PackRequest ==
  /\ packed = Nothing
  /\ packed' = shortlink_pack(request.query, request.given, request.body, request.replaces)
  /\ UNCHANGED request

-----------------------------------------------------------------------------
\* A server that reads as many bytes as Content-Length says, none without one,
\* reads what is there: in a POST whatever headers the caller gives, if the
\* library lets the later value stand, and unless the length does not fit
\* unsigned int; in a GET, or if the earlier value stands, unless the caller
\* gives a length.
GivesLength == \E k \in DOMAIN request.given : Field(request.given[k]) = "Content-Length"
LengthHonest ==
  LET declared ==
        IF "Content-Length" \in DOMAIN packed.fields THEN packed.fields["Content-Length"] ELSE 0
  IN packed # Nothing =>
       \/ declared = packed.body
       \/ request.body >= 2 ^ LengthBits
       \/ GivesLength /\ (packed.method = "GET" \/ ~ request.replaces)
=============================================================================
