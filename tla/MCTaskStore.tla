---------------------------- MODULE MCTaskStore ----------------------------
(* Symmetry sets for the model-checking runs of TaskStore.  Requests are    *)
(* interchangeable, and so are application threads: every action treats the *)
(* members of both sets alike.  Runs that check liveness do without.        *)
EXTENDS TaskStore, TLC

Symmetry == Permutations(Ctx) \cup Permutations(AppThreads)
=============================================================================
