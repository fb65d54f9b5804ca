--------------------------- MODULE TransferBatch ---------------------------
(***************************************************************************)
(* What a transfer promises the client that polls GET /transfers/:batchId: *)
(* playlists settle one by one, each once and for good; the batch closes   *)
(* once, after the last of them, with the verdict their outcomes add up    *)
(* to.  Nothing is said of queues, attempts or processes.                  *)
(***************************************************************************)
EXTENDS Naturals

CONSTANT N

Items == 1..N

VARIABLES
  phase,     \* of the batch
  outcome,   \* what became of each playlist
  verdict    \* the status of a closed batch

vars == <<phase, outcome, verdict>>

TypeOK ==
  /\ phase \in {"none", "open", "closed", "gone"}
  /\ outcome \in [Items -> {"pending", "completed", "failed"}]
  /\ verdict \in {"none", "completed", "partial", "failed"}

Init ==
  /\ phase = "none"
  /\ outcome = [i \in Items |-> "pending"]
  /\ verdict = "none"

Submit ==
  /\ phase = "none"
  /\ phase' = "open"
  /\ UNCHANGED <<outcome, verdict>>

Settle(i, o) ==
  /\ phase = "open" /\ outcome[i] = "pending"
  /\ outcome' = [outcome EXCEPT ![i] = o]
  /\ UNCHANGED <<phase, verdict>>

Verdict ==
  LET failures == {i \in Items : outcome[i] = "failed"}
  IN  IF failures = {} THEN "completed"
      ELSE IF failures = Items THEN "failed" ELSE "partial"

Close ==
  /\ phase = "open"
  /\ \A i \in Items : outcome[i] # "pending"
  /\ phase' = "closed"
  /\ verdict' = Verdict
  /\ UNCHANGED outcome

Delete ==
  /\ phase \in {"open", "closed"}
  /\ phase' = "gone"
  /\ UNCHANGED <<outcome, verdict>>

Next ==
  \/ Submit \/ Close \/ Delete
  \/ \E i \in Items, o \in {"completed", "failed"} : Settle(i, o)

Spec == Init /\ [][Next]_vars
=============================================================================
