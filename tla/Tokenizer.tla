------------------------------- MODULE Tokenizer -------------------------------
(***************************************************************************)
(* strutil.h: the Tokenizer class, whose caller may name other delimiters  *)
(* with every call, MergeToken, which joins what it found, and the boolean *)
(* number_cast of string_cast.h, which reads the first token of a text.    *)
(* A string is a sequence of symbols; the symbol "true" stands for a word. *)
(***************************************************************************)
EXTENDS Naturals, Sequences

CONSTANTS
  Symbols,      \* what strings are made of
  Delimiters,   \* the delimiters a call may name: sets of symbols
  MaxLength     \* bound: length of the string that is cut

ASSUME TokenizerAssumption ==
  /\ \A d \in Delimiters : d \subseteq Symbols
  /\ MaxLength \in Nat

VARIABLES
  tokenizer,   \* string_, offset_ and token_ of the object
  cuts         \* history since Reset: where each token was found, and the call

Strings == UNION {[1 .. n -> Symbols] : n \in 0 .. MaxLength}

\* find_first_of and find_first_not_of from a 0-based offset; length(): npos.
FindFirst(string, offset, symbols) ==
  LET hits == {k \in offset + 1 .. Len(string) : string[k] \in symbols}
  IN IF hits = {} THEN Len(string) ELSE (CHOOSE k \in hits : \A h \in hits : k <= h) - 1

-----------------------------------------------------------------------------
\* One call of NextToken on a string, from an offset; found is what it returns.
FaultyNextToken(string, offset, delimiters) ==
  LET i == FindFirst(string, offset, Symbols \ delimiters)
      j == FindFirst(string, i, delimiters)
  IN IF i = Len(string)
     THEN [found |-> FALSE, offset |-> i, token |-> << >>, from |-> i]
     ELSE [found |-> TRUE, offset |-> IF j < Len(string) THEN j + 1 ELSE j,
           token |-> SubSeq(string, i + 1, j), from |-> i]

NextToken(string, offset, delimiters) ==
  LET i == FindFirst(string, offset, Symbols \ delimiters)
      j == FindFirst(string, i, delimiters)
  IN IF i = Len(string)
     THEN [found |-> FALSE, offset |-> i, token |-> << >>, from |-> i]
     ELSE [found |-> TRUE, offset |-> j, token |-> SubSeq(string, i + 1, j), from |-> i]

\* The constructor; token_ is empty.
TokenInit ==
  /\ \E string \in Strings : tokenizer = [string |-> string, offset |-> 0, token |-> << >>]
  /\ cuts = << >>

\* A call that finds nothing leaves token_ as the last one left it.
Cut(delimiters) ==
  LET call == NextToken(tokenizer.string, tokenizer.offset, delimiters)
  IN /\ tokenizer' = [tokenizer EXCEPT
           !.offset = call.offset, !.token = IF call.found THEN call.token ELSE @]
     /\ cuts' = IF call.found
                THEN Append(cuts, [from |-> call.from, to |-> call.offset,
                                   before |-> tokenizer.offset, by |-> delimiters])
                ELSE cuts

Reset ==
  /\ cuts # << >>
  /\ tokenizer' = [tokenizer EXCEPT !.offset = 0]
  /\ cuts' = << >>

TokenNext == Reset \/ \E d \in Delimiters : Cut(d)

-----------------------------------------------------------------------------
\* All tokens of a string under the same delimiters (SplitToken).
Tokens(string, delimiters) ==
  LET rest[n \in 0 .. Len(string)] ==
        IF n = 0 THEN [offset |-> 0, tokens |-> << >>]
        ELSE LET before == rest[n - 1]
                 call   == NextToken(string, before.offset, delimiters)
             IN [offset |-> call.offset,
                 tokens |-> IF call.found THEN Append(before.tokens, call.token)
                            ELSE before.tokens]
  IN rest[Len(string)].tokens

\* MergeToken: nothing without tokens or without a delimiter; the delimiter
\* between two of them.
FaultyMergeToken(tokens, delimiter) ==
  LET merged[n \in 0 .. Len(tokens)] ==
        IF n = 0 THEN << >> ELSE merged[n - 1] \o tokens[n]
  IN merged[Len(tokens)]

MergeToken(tokens, delimiter) ==
  LET merged[n \in 0 .. Len(tokens)] ==
        IF n = 0 \/ delimiter = << >> THEN << >>
        ELSE merged[n - 1] \o tokens[n] \o (IF n = Len(tokens) THEN << >> ELSE delimiter)
  IN merged[Len(tokens)]

\* number_cast<bool>: the first token decides; anything else is not valid.
number_cast_bool(string, delimiters) ==
  LET tokens == Tokens(string, delimiters)
      First(word) == tokens # << >> /\ tokens[1] = <<word>>
  IN [value |-> First("1") \/ First("true"),
      valid |-> First("1") \/ First("true") \/ First("0") \/ First("false")]

-----------------------------------------------------------------------------
CutOut(cut) == SubSeq(tokenizer.string, cut.from + 1, cut.to)

\* However the delimiters change from call to call, the tokens are the string
\* without what delimits them: each begins where the last one ended or after
\* delimiters of its own call only, holds none of them, ends at one or at the
\* end of the string, and GetToken is the last one.
NothingSkipped ==
  LET string == tokenizer.string
  IN /\ \A k \in DOMAIN cuts :
          LET cut == cuts[k]
          IN /\ cut.before = (IF k = 1 THEN 0 ELSE cuts[k - 1].to)
             /\ cut.before <= cut.from /\ cut.from < cut.to
             /\ \A p \in cut.before + 1 .. cut.from : string[p] \in cut.by
             /\ \A p \in cut.from + 1 .. cut.to : string[p] \notin cut.by
             /\ cut.to < Len(string) => string[cut.to + 1] \in cut.by
     /\ cuts # << >> => tokenizer.token = CutOut(cuts[Len(cuts)])

\* Joining the tokens of a string with a delimiter and cutting the result gives
\* the same tokens, and the text says yes or no if its first word does.
MergeInverse ==
  \A d \in Delimiters : \A c \in d :
    LET tokens == Tokens(tokenizer.string, d)
        merged == MergeToken(tokens, <<c>>)
    IN /\ Tokens(merged, d) = tokens
       /\ number_cast_bool(merged, d) = number_cast_bool(tokenizer.string, d)
=============================================================================
