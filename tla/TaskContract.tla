---------------------------- MODULE TaskContract ----------------------------
(***************************************************************************)
(* What marsPlus::sendMessage promises about one request, without ids,     *)
(* maps, locks, tasks or retries.  The context and message it allocates    *)
(* are held until the listener has heard the outcome: a response and then  *)
(* success, or one error.  Then they are released, once.  A request made   *)
(* without a listener is only released.                                    *)
(***************************************************************************)
EXTENDS Sequences

CONSTANT Requests

VARIABLES
  storage,    \* "none" before the request is made, then "held", "released"
  listener,   \* whether the request was made with a ResponseListener
  heard       \* the calls its listener received

vars == <<storage, listener, heard>>

Init ==
  /\ storage = [r \in Requests |-> "none"]
  /\ listener = [r \in Requests |-> FALSE]
  /\ heard = [r \in Requests |-> <<>>]

Make(r, hasListener) ==
  /\ storage[r] = "none"
  /\ storage' = [storage EXCEPT ![r] = "held"]
  /\ listener' = [listener EXCEPT ![r] = hasListener]
  /\ UNCHANGED heard

Hear(r, callback) ==
  /\ storage[r] = "held" /\ listener[r]
  /\ heard' = [heard EXCEPT ![r] = Append(@, callback)]
  /\ UNCHANGED <<storage, listener>>

Answer(r) == heard[r] = <<>> /\ Hear(r, "response")

Finish(r) ==
  \/ heard[r] = <<>> /\ Hear(r, "error")
  \/ heard[r] = <<"response">> /\ Hear(r, "success")

Release(r) ==
  /\ storage[r] = "held"
  /\ listener[r] => heard[r] \in {<<"error">>, <<"response", "success">>}
  /\ storage' = [storage EXCEPT ![r] = "released"]
  /\ UNCHANGED <<listener, heard>>

Next == \E r \in Requests :
  (\E hasListener \in BOOLEAN : Make(r, hasListener)) \/ Answer(r) \/ Finish(r) \/ Release(r)

Spec == Init /\ [][Next]_vars

\* Every request is finished and released in the end.
FairSpec == Spec /\ \A r \in Requests : WF_vars(Finish(r)) /\ WF_vars(Release(r))
=============================================================================
