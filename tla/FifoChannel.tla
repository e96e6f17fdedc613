----------------------------- MODULE FifoChannel -----------------------------
(***************************************************************************)
(* What the long link promises between two disconnects: every packet that  *)
(* was sent is handled once, unchanged, in the order of sending.  A        *)
(* disconnect loses what is in flight.                                     *)
(***************************************************************************)
EXTENDS Sequences

CONSTANT Packets

VARIABLES
  inFlight,   \* sent on this connection, not handled yet
  handled     \* history: what was handled

vars == <<inFlight, handled>>

Init == inFlight = <<>> /\ handled = <<>>

Send ==
  /\ inFlight' # <<>>
  /\ LET packet == inFlight'[Len(inFlight')]
     IN packet \in Packets /\ inFlight' = Append(inFlight, packet)
  /\ UNCHANGED handled

Handle ==
  /\ inFlight # <<>>
  /\ handled' = Append(handled, Head(inFlight))
  /\ inFlight' = Tail(inFlight)

Lose == inFlight # <<>> /\ inFlight' = <<>> /\ UNCHANGED handled

Next == Send \/ Handle \/ Lose

Spec == Init /\ [][Next]_vars

\* What is in flight is handled in the end, unless it is lost.
FairSpec == Spec /\ WF_vars(Handle)
=============================================================================
