---------------------------- MODULE MCTransfers ----------------------------
(* Model-checking instances of Transfers. *)
EXTENDS Transfers, TLC

CONSTANTS w1, w2

OneProcess   == {w1}
TwoProcesses == {w1, w2}

\* Processes are interchangeable.  Only for runs without liveness.
Processes == Permutations(TwoProcesses)
=============================================================================
