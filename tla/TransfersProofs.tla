-------------------------- MODULE TransfersProofs --------------------------
(***************************************************************************)
(* Theorems about Transfers, for any number of playlists and processes and *)
(* any bounds on attempts, stalls and faults.                              *)
(***************************************************************************)
EXTENDS Transfers, TLAPS

USE DEF Items, ItemStatus, BatchStatus, JobStates

\* What type correctness rests on: the request queues items it has not queued
\* before, a job with attempts left is not failed, only an active job is
\* locked, and a process in the handler is there for an item.
QueueShape ==
  /\ route = "idle" => nextPos = 1
  /\ route = "enqueuing" => nextPos \in Items
  /\ route \in {"idle", "enqueuing"} => \A i \in Items : i >= nextPos => job[i] = "none"
  /\ \A i \in Items : job[i] # "failed" => attempts[i] < MaxAttempts
  /\ \A i \in Items : lock[i] # NoWorker => job[i] = "active"

HandlerShape == \A w \in Workers : pc[w] # "idle" => cur[w] \in Items

IInv == TypeOK /\ QueueShape /\ HandlerShape

\* The initial state satisfies the inductive invariant.
LEMMA InitIInv == Init => IInv
<1> SUFFICES ASSUME Init PROVE IInv
  OBVIOUS
<1> USE NAssumption, WorkersAssumption, BoundsAssumption DEF Init
<1>1. RequestType /\ RowsType
  BY DEF RequestType, RowsType, AllQueued
<1>2. QueueType
  BY DEF QueueType
<1>3. HandlerType /\ faults \in 0..MaxFaults
  BY DEF HandlerType, AllQueued, Labels
<1>4. QueueShape /\ HandlerShape
  BY DEF QueueShape, HandlerShape
<1> QED BY <1>1, <1>2, <1>3, <1>4 DEF IInv, TypeOK

\* A step that leaves a group of variables alone leaves its type alone.
LEMMA Frames ==
  ASSUME TypeOK
  PROVE  /\ UNCHANGED routeVars => RequestType'
         /\ UNCHANGED dbVars => RowsType'
         /\ UNCHANGED queueVars => QueueType'
         /\ UNCHANGED <<pc, localVars>> => HandlerType'
         /\ UNCHANGED faults => faults' \in 0..MaxFaults
<1>1. UNCHANGED routeVars => RequestType'
  BY DEF TypeOK, RequestType, routeVars
<1>2. UNCHANGED dbVars => RowsType'
  BY DEF TypeOK, RowsType, dbVars
<1>3. UNCHANGED queueVars => QueueType'
  BY DEF TypeOK, QueueType, queueVars
<1>4. UNCHANGED <<pc, localVars>> => HandlerType'
  BY DEF TypeOK, HandlerType, localVars
<1>5. UNCHANGED faults => faults' \in 0..MaxFaults
  BY DEF TypeOK
<1> QED BY <1>1, <1>2, <1>3, <1>4, <1>5

LEMMA ShapeFrames ==
  /\ QueueShape /\ UNCHANGED <<routeVars, queueVars>> => QueueShape'
  /\ HandlerShape /\ UNCHANGED <<pc, localVars>> => HandlerShape'
<1>1. QueueShape /\ UNCHANGED <<routeVars, queueVars>> => QueueShape'
  BY DEF QueueShape, routeVars, queueVars
<1>2. HandlerShape /\ UNCHANGED <<pc, localVars>> => HandlerShape'
  BY DEF HandlerShape, localVars
<1> QED BY <1>1, <1>2

\* The status refreshBatchStatus computes is a batch status.
LEMMA SummaryType == \A st : Summary(st) \in BatchStatus
  BY DEF Summary

\* A job that has attempts left can count one more.
LEMMA OneMore ==
  \A k \in 0..MaxAttempts : k < MaxAttempts => k + 1 \in 0..MaxAttempts
  BY BoundsAssumption

\* The faults counted stay within their bound.
LEMMA FaultType == faults \in 0..MaxFaults /\ Fault => faults' \in 0..MaxFaults
  BY BoundsAssumption DEF Fault

LEMMA NextNat == \A k \in Nat : k + 1 \in Nat
  OBVIOUS

-----------------------------------------------------------------------------
\* The steps of the POST /transfers request, and the end of the batch.
LEMMA RouteIInv ==
  ASSUME IInv, CreateBatch \/ Enqueue \/ EnqueueFails \/ DeleteBatch
  PROVE  IInv'
<1> USE DEF IInv
<1>1. CASE CreateBatch
  <2>1. UNCHANGED queueVars /\ UNCHANGED <<pc, localVars>> /\ UNCHANGED faults
    BY <1>1 DEF CreateBatch
  <2>2. RequestType'
    BY <1>1 DEF CreateBatch, TypeOK, RequestType
  <2>3. RowsType'
    BY <1>1 DEF CreateBatch, TypeOK, RowsType
  <2>4. TypeOK'
    BY <2>1, <2>2, <2>3, Frames DEF TypeOK
  <2>5. QueueShape'
    BY <1>1, NAssumption DEF CreateBatch, QueueShape, queueVars
  <2> QED BY <2>1, <2>4, <2>5, ShapeFrames
<1>2. CASE Enqueue \/ EnqueueFails
  <2>1. /\ UNCHANGED dbVars /\ UNCHANGED <<pc, localVars>> /\ UNCHANGED faults
        /\ UNCHANGED <<attempts, lock, stalls>>
        /\ route = "enqueuing"
        /\ AddJob(nextPos) \/ UNCHANGED job
    BY <1>2 DEF Enqueue, EnqueueFails
  <2>2. nextPos \in Items
    BY <2>1 DEF QueueShape
  <2>3. RequestType'
    BY <1>2, <2>2, NAssumption DEF Enqueue, EnqueueFails, TypeOK, RequestType
  <2>4. job' \in [Items -> JobStates]
    BY <2>1, <2>2 DEF AddJob, TypeOK, QueueType
  <2>5. QueueType'
    BY <2>1, <2>4 DEF TypeOK, QueueType
  <2>6. TypeOK'
    BY <2>1, <2>3, <2>5, Frames DEF TypeOK
  <2>7. \A i \in Items : job'[i] # job[i] =>
           i = nextPos /\ job[i] = "none" /\ job'[i] = "waiting"
    <3>1. nextPos >= nextPos
      BY <2>2, NAssumption
    <3>2. job[nextPos] = "none"
      BY <2>1, <2>2, <3>1 DEF QueueShape
    <3> QED BY <2>1, <2>2, <3>2 DEF AddJob, TypeOK, QueueType
  <2>8. /\ route' # "idle"
        /\ route' = "enqueuing" => nextPos' = nextPos + 1 /\ nextPos # N
    BY <1>2 DEF Enqueue, EnqueueFails
  <2>9. QueueShape'
    <3>1. route' = "enqueuing" => nextPos' \in Items
      BY <2>2, <2>8, NAssumption
    <3>2. route' = "enqueuing" => \A i \in Items : i >= nextPos' => job'[i] = "none"
      BY <2>1, <2>2, <2>7, <2>8 DEF QueueShape
    <3>3. \A i \in Items : job'[i] # "failed" => attempts'[i] < MaxAttempts
      BY <2>1, <2>7 DEF QueueShape
    <3>4. \A i \in Items : lock'[i] # NoWorker => job'[i] = "active"
      BY <2>1, <2>7 DEF QueueShape
    <3> QED BY <2>8, <3>1, <3>2, <3>3, <3>4 DEF QueueShape
  <2> QED BY <2>1, <2>6, <2>9, ShapeFrames
<1>3. CASE DeleteBatch
  <2>1. /\ UNCHANGED routeVars /\ UNCHANGED queueVars
        /\ UNCHANGED <<pc, localVars>> /\ UNCHANGED faults
    BY <1>3 DEF DeleteBatch
  <2>2. RowsType'
    BY <1>3 DEF DeleteBatch, TypeOK, RowsType
  <2>3. TypeOK'
    BY <2>1, <2>2, Frames DEF TypeOK
  <2> QED BY <2>1, <2>3, ShapeFrames
<1> QED BY <1>1, <1>2, <1>3

-----------------------------------------------------------------------------
\* The awaited calls of the handler, from findItem to the last refresh.
HandlerStep(w) ==
  \/ FindItem(w) \/ MarkBatchRunning(w) \/ MarkItemRunning(w)
  \/ ResolveSync(w) \/ LinkSync(w) \/ Import(w)
  \/ ReplaceTracks(w) \/ CompleteItem(w) \/ FailItem(w)
  \/ RefreshRead(w) \/ RefreshWrite(w)

\* None of them touches the request or the queue, or turns to another item.
LEMMA HandlerFrame ==
  ASSUME NEW w \in Workers, HandlerStep(w)
  PROVE  /\ pc[w] # "idle"
         /\ \E l \in Labels \ {"idle"} : Goto(w, l)
         /\ UNCHANGED routeVars /\ UNCHANGED queueVars
         /\ UNCHANGED cur /\ UNCHANGED att /\ UNCHANGED faults
<1> USE DEF Labels
<1>1. CASE FindItem(w)          BY <1>1 DEF FindItem
<1>2. CASE MarkBatchRunning(w)  BY <1>2 DEF MarkBatchRunning, localVars
<1>3. CASE MarkItemRunning(w)   BY <1>3 DEF MarkItemRunning, localVars
<1>4. CASE ResolveSync(w)       BY <1>4 DEF ResolveSync
<1>5. CASE LinkSync(w)          BY <1>5 DEF LinkSync, localVars
<1>6. CASE Import(w)            BY <1>6 DEF Import, localVars
<1>7. CASE ReplaceTracks(w)     BY <1>7 DEF ReplaceTracks, localVars
<1>8. CASE CompleteItem(w)      BY <1>8 DEF CompleteItem, localVars
<1>9. CASE FailItem(w)          BY <1>9 DEF FailItem
<1>10. CASE RefreshRead(w)      BY <1>10 DEF RefreshRead
<1>11. CASE RefreshWrite(w)     BY <1>11 DEF RefreshWrite, localVars
<1> QED BY <1>1, <1>2, <1>3, <1>4, <1>5, <1>6, <1>7, <1>8, <1>9, <1>10, <1>11
           DEF HandlerStep

\* What they store is well typed.
LEMMA HandlerRows ==
  ASSUME IInv, NEW w \in Workers, HandlerStep(w)
  PROVE  RowsType'
<1>1. cur[w] \in Items
  BY HandlerFrame DEF IInv, HandlerShape
<1>2. RowsType /\ using[w] \in Nat /\ syncs[cur[w]] + 1 \in Nat
  BY <1>1, NextNat DEF IInv, TypeOK, RowsType, HandlerType
<1>3. ASSUME UNCHANGED dbVars PROVE RowsType'
  BY <1>3, Frames DEF IInv
<1> USE DEF RowsType, SetStatus
<1>4. CASE MarkBatchRunning(w)  BY <1>2, <1>4 DEF MarkBatchRunning
<1>5. CASE MarkItemRunning(w)   BY <1>1, <1>2, <1>5 DEF MarkItemRunning
<1>6. CASE ResolveSync(w)       BY <1>1, <1>2, <1>6 DEF ResolveSync
<1>7. CASE LinkSync(w)          BY <1>1, <1>2, <1>7 DEF LinkSync
<1>8. CASE ReplaceTracks(w)     BY <1>1, <1>2, <1>8 DEF ReplaceTracks
<1>9. CASE CompleteItem(w)      BY <1>1, <1>2, <1>9 DEF CompleteItem
<1>10. CASE FailItem(w)         BY <1>1, <1>2, <1>10 DEF FailItem
<1>11. CASE RefreshWrite(w)     BY <1>2, <1>11, SummaryType DEF RefreshWrite
<1>12. CASE FindItem(w) \/ Import(w) \/ RefreshRead(w)
  <2>1. UNCHANGED dbVars
    BY <1>12 DEF FindItem, Import, RefreshRead
  <2> QED BY <1>3, <2>1
<1> QED BY <1>4, <1>5, <1>6, <1>7, <1>8, <1>9, <1>10, <1>11, <1>12 DEF HandlerStep

\* What they keep for themselves is well typed.
LEMMA HandlerCopies ==
  ASSUME IInv, NEW w \in Workers, HandlerStep(w)
  PROVE  /\ snap' \in [Workers -> Nat]
         /\ using' \in [Workers -> Nat]
         /\ throwing' \subseteq Workers
         /\ seen' \in [Workers -> [Items -> ItemStatus]]
<1>1. cur[w] \in Items
  BY HandlerFrame DEF IInv, HandlerShape
<1>2. /\ snap \in [Workers -> Nat] /\ using \in [Workers -> Nat]
      /\ throwing \subseteq Workers
      /\ seen \in [Workers -> [Items -> ItemStatus]]
      /\ status \in [Items -> ItemStatus]
      /\ itemSync[cur[w]] \in Nat /\ syncs[cur[w]] + 1 \in Nat
  BY <1>1, NextNat DEF IInv, TypeOK, RowsType, HandlerType
<1>3. CASE FindItem(w)          BY <1>2, <1>3 DEF FindItem
<1>4. CASE ResolveSync(w)       BY <1>2, <1>4 DEF ResolveSync
<1>5. CASE FailItem(w)          BY <1>2, <1>5 DEF FailItem
<1>6. CASE RefreshRead(w)       BY <1>2, <1>6 DEF RefreshRead
<1>7. ASSUME UNCHANGED localVars PROVE UNCHANGED <<snap, using, throwing, seen>>
  BY <1>7 DEF localVars
<1>8. CASE MarkBatchRunning(w) \/ MarkItemRunning(w) \/ LinkSync(w) \/ Import(w)
  <2>1. UNCHANGED localVars
    BY <1>8 DEF MarkBatchRunning, MarkItemRunning, LinkSync, Import
  <2> QED BY <1>2, <1>7, <2>1
<1>9. CASE ReplaceTracks(w) \/ CompleteItem(w) \/ RefreshWrite(w)
  <2>1. UNCHANGED localVars
    BY <1>9 DEF ReplaceTracks, CompleteItem, RefreshWrite
  <2> QED BY <1>2, <1>7, <2>1
<1> QED BY <1>3, <1>4, <1>5, <1>6, <1>8, <1>9 DEF HandlerStep

\* A process that moves within its handler keeps its label and its item.
LEMMA HandlerMoves ==
  ASSUME IInv, NEW w \in Workers, pc[w] # "idle", NEW l \in Labels, Goto(w, l),
         UNCHANGED cur
  PROVE  pc' \in [Workers -> Labels] /\ HandlerShape'
  BY DEF IInv, TypeOK, HandlerType, HandlerShape, Goto

LEMMA HandlerIInv ==
  ASSUME IInv, NEW w \in Workers, HandlerStep(w)
  PROVE  IInv'
<1>1. pc' \in [Workers -> Labels] /\ HandlerShape'
  BY HandlerFrame, HandlerMoves
<1>2. HandlerType'
  BY <1>1, HandlerFrame, HandlerCopies DEF IInv, TypeOK, HandlerType
<1>3. TypeOK'
  BY <1>2, HandlerFrame, HandlerRows, Frames DEF IInv, TypeOK
<1>4. QueueShape'
  BY HandlerFrame, ShapeFrames DEF IInv
<1> QED BY <1>1, <1>3, <1>4 DEF IInv

-----------------------------------------------------------------------------
\* A process that leaves its handler forgets it in a well-typed way.
LEMMA ForgetType ==
  ASSUME IInv, NEW w \in Workers, Forget(w)
  PROVE  HandlerType' /\ HandlerShape'
<1>1. HandlerType
  BY DEF IInv, TypeOK
<1>2. /\ pc' \in [Workers -> Labels]
      /\ cur' \in [Workers -> Items \cup {0}]
      /\ throwing' \subseteq Workers
  BY <1>1 DEF HandlerType, Forget, Goto, Labels
<1>3. /\ snap' \in [Workers -> Nat]
      /\ using' \in [Workers -> Nat]
      /\ att' \in [Workers -> 0..MaxAttempts]
  BY <1>1, BoundsAssumption DEF HandlerType, Forget
<1>4. seen' \in [Workers -> [Items -> ItemStatus]]
  BY <1>1 DEF HandlerType, Forget, AllQueued
<1>5. HandlerShape'
  BY <1>1 DEF IInv, HandlerShape, HandlerType, Forget, Goto
<1> QED BY <1>2, <1>3, <1>4, <1>5 DEF HandlerType

LEMMA TakeJobIInv ==
  ASSUME IInv, NEW w \in Workers, NEW i \in Items, TakeJob(w, i)
  PROVE  IInv'
<1>1. /\ UNCHANGED routeVars /\ UNCHANGED dbVars /\ UNCHANGED faults
      /\ UNCHANGED <<attempts, stalls, snap, using, throwing, seen>>
      /\ job[i] = "waiting"
      /\ job' = [job EXCEPT ![i] = "active"]
      /\ lock' = [lock EXCEPT ![i] = w]
      /\ pc' = [pc EXCEPT ![w] = "find"]
      /\ cur' = [cur EXCEPT ![w] = i]
      /\ att' = [att EXCEPT ![w] = attempts[i]]
  BY DEF TakeJob, Goto
<1>2. QueueType /\ HandlerType
  BY DEF IInv, TypeOK
<1>3. QueueType'
  BY <1>1, <1>2 DEF QueueType
<1>4. attempts[i] \in 0..MaxAttempts
  BY <1>2 DEF QueueType
<1>5. HandlerType'
  BY <1>1, <1>2, <1>4 DEF HandlerType, Labels
<1>6. TypeOK'
  BY <1>1, <1>3, <1>5, Frames DEF IInv, TypeOK
<1>7. HandlerShape'
  BY <1>1, <1>2 DEF IInv, HandlerShape, HandlerType
<1>8. QueueShape'
  <2>1. route' = route /\ nextPos' = nextPos
    BY <1>1 DEF routeVars
  <2>2. \A k \in Items : k # i => job'[k] = job[k] /\ lock'[k] = lock[k]
    BY <1>1, <1>2 DEF QueueType
  <2>3. job'[i] = "active" /\ job[i] = "waiting"
    BY <1>1, <1>2 DEF QueueType
  <2> QED BY <1>1, <2>1, <2>2, <2>3 DEF IInv, QueueShape
<1> QED BY <1>6, <1>7, <1>8 DEF IInv

\* A job that ends counts an attempt only while it has one left.
LEMMA EndJobIInv ==
  ASSUME IInv, NEW w \in Workers, EndJob(w)
  PROVE  IInv'
<1> DEFINE i == cur[w]
           tries == attempts[i] + 1
<1>1. /\ UNCHANGED routeVars /\ UNCHANGED dbVars /\ UNCHANGED faults
      /\ UNCHANGED stalls
      /\ Forget(w) /\ pc[w] = "end"
  BY DEF EndJob
<1>2. i \in Items
  BY <1>1 DEF IInv, HandlerShape
<1>3. QueueType
  BY DEF IInv, TypeOK
<1>4. \/ UNCHANGED <<job, attempts, lock>>
      \/ /\ lock[i] = w /\ lock' = [lock EXCEPT ![i] = NoWorker]
         /\ \/ /\ attempts' = [attempts EXCEPT ![i] = tries]
               /\ job' = [job EXCEPT ![i] = IF tries < MaxAttempts
                                            THEN "delayed" ELSE "failed"]
            \/ job' = [job EXCEPT ![i] = "done"] /\ UNCHANGED attempts
  BY DEF EndJob, AttemptsLeft
<1>5. lock[i] = w => job[i] = "active" /\ attempts[i] < MaxAttempts
  BY <1>2, WorkersAssumption DEF IInv, QueueShape
<1>6. attempts[i] < MaxAttempts => tries \in 0..MaxAttempts
  BY <1>2, <1>3, OneMore DEF QueueType
<1> HIDE DEF tries
<1>7. QueueType'
  BY <1>1, <1>2, <1>3, <1>4, <1>5, <1>6 DEF QueueType
<1>8. TypeOK'
  BY <1>1, <1>7, ForgetType, Frames DEF IInv, TypeOK
<1>9. QueueShape'
  <2>1. CASE UNCHANGED <<job, attempts, lock>>
    BY <1>1, <2>1, ShapeFrames DEF IInv, queueVars
  <2>2. CASE lock[i] = w /\ lock' = [lock EXCEPT ![i] = NoWorker]
    <3>1. route' = route /\ nextPos' = nextPos
      BY <1>1 DEF routeVars
    <3>2. \A k \in Items : k # i =>
            job'[k] = job[k] /\ lock'[k] = lock[k] /\ attempts'[k] = attempts[k]
      BY <1>2, <1>3, <1>4 DEF QueueType
    <3>3. /\ lock'[i] = NoWorker
          /\ job'[i] # "failed" => attempts'[i] < MaxAttempts
      BY <1>2, <1>3, <1>4, <1>5, <2>2 DEF QueueType
    <3>4. job[i] = "active"
      BY <1>5, <2>2
    <3> QED BY <3>1, <3>2, <3>3, <3>4 DEF IInv, QueueShape
  <2> QED BY <1>4, <2>1, <2>2
<1> QED BY <1>1, <1>8, <1>9, ForgetType DEF IInv

\* A crash and a failed database call.
LEMMA FaultIInv ==
  ASSUME IInv, NEW w \in Workers, Crash(w) \/ DatabaseFails(w)
  PROVE  IInv'
<1>1. /\ UNCHANGED routeVars /\ UNCHANGED dbVars /\ UNCHANGED queueVars
      /\ Fault
  BY DEF Crash, DatabaseFails
<1>2. QueueShape'
  BY <1>1, ShapeFrames DEF IInv
<1>3. HandlerType' /\ HandlerShape'
  <2>1. CASE Crash(w)
    BY <2>1, ForgetType DEF Crash
  <2>2. CASE DatabaseFails(w)
    <3>1. /\ pc[w] # "idle"
          /\ \E l \in Labels : Goto(w, l)
          /\ UNCHANGED <<cur, snap, using, att, seen>>
          /\ throwing' = throwing \/ throwing' = throwing \cup {w}
      BY <2>2 DEF DatabaseFails, Labels
    <3>2. pc' \in [Workers -> Labels] /\ HandlerShape'
      BY <3>1, HandlerMoves
    <3> QED BY <3>1, <3>2 DEF IInv, TypeOK, HandlerType
  <2> QED BY <2>1, <2>2
<1>4. TypeOK'
  BY <1>1, <1>3, Frames, FaultType DEF IInv, TypeOK
<1> QED BY <1>2, <1>3, <1>4 DEF IInv

\* What the queue does to a job by itself.
LEMMA QueueIInv ==
  ASSUME IInv, NEW i \in Items, BackoffElapsed(i) \/ JobStalls(i)
  PROVE  IInv'
<1>1. /\ UNCHANGED routeVars /\ UNCHANGED dbVars /\ UNCHANGED <<pc, localVars>>
      /\ UNCHANGED attempts
      /\ UNCHANGED faults \/ Fault
  BY DEF BackoffElapsed, JobStalls, Stall
<1>2. /\ job[i] \in {"delayed", "active"}
      /\ \/ job' = [job EXCEPT ![i] = "waiting"]
         \/ job' = [job EXCEPT ![i] = "failed"]
      /\ \/ job[i] = "delayed" /\ UNCHANGED <<lock, stalls>>
         \/ /\ lock' = [lock EXCEPT ![i] = NoWorker]
            /\ stalls' = [stalls EXCEPT ![i] = stalls[i] + 1]
  BY DEF BackoffElapsed, JobStalls, Stall
<1>3. QueueType
  BY DEF IInv, TypeOK
<1>4. stalls[i] + 1 \in Nat
  BY <1>3, NextNat DEF QueueType
<1>5. QueueType'
  BY <1>1, <1>2, <1>3, <1>4 DEF QueueType
<1>6. TypeOK'
  BY <1>1, <1>5, Frames, FaultType DEF IInv, TypeOK
<1>7. QueueShape'
  <2>1. route' = route /\ nextPos' = nextPos
    BY <1>1 DEF routeVars
  <2>2. \A k \in Items : k # i => job'[k] = job[k] /\ lock'[k] = lock[k]
    BY <1>2, <1>3 DEF QueueType
  <2>3. job'[i] \in {"waiting", "failed"}
    BY <1>2, <1>3 DEF QueueType
  <2>4. lock'[i] = NoWorker
    BY <1>2, <1>3 DEF IInv, QueueShape, QueueType
  <2> QED BY <1>1, <1>2, <2>1, <2>2, <2>3, <2>4 DEF IInv, QueueShape
<1> QED BY <1>1, <1>6, <1>7, ShapeFrames DEF IInv

\* Every step preserves the inductive invariant.
LEMMA NextIInv == IInv /\ [Next]_vars => IInv'
<1> SUFFICES ASSUME IInv, [Next]_vars PROVE IInv'
  OBVIOUS
<1>1. CASE UNCHANGED vars
  <2>1. /\ UNCHANGED routeVars /\ UNCHANGED dbVars /\ UNCHANGED queueVars
        /\ UNCHANGED <<pc, localVars>> /\ UNCHANGED faults
    BY <1>1 DEF vars
  <2> QED BY <2>1, Frames, ShapeFrames DEF IInv, TypeOK
<1>2. CASE CreateBatch \/ Enqueue \/ EnqueueFails \/ DeleteBatch
  BY <1>2, RouteIInv
<1>3. ASSUME NEW w \in Workers, WorkerStep(w) PROVE IInv'
  BY <1>3, TakeJobIInv, HandlerIInv, EndJobIInv DEF WorkerStep, HandlerStep
<1>4. ASSUME NEW w \in Workers, Crash(w) \/ DatabaseFails(w) PROVE IInv'
  BY <1>4, FaultIInv
<1>5. ASSUME NEW i \in Items, BackoffElapsed(i) \/ JobStalls(i) PROVE IInv'
  BY <1>5, QueueIInv
<1> QED BY <1>1, <1>2, <1>3, <1>4, <1>5 DEF Next

\* Type correctness: every variable keeps its type through every interleaving
\* of requests, processes and faults; attempts never exceed their limit.
THEOREM TypeCorrect == Spec => []TypeOK
<1>1. IInv => TypeOK
  BY DEF IInv
<1> QED BY InitIInv, NextIInv, <1>1, PTL DEF Spec

-----------------------------------------------------------------------------
\* What CompletedHasDetails rests on: every sync id that is stored, copied or in
\* use is that of a sync created for the item, and a process about to complete
\* an item has stored its rows.
Details ==
  /\ \A i \in Items : itemSync[i] <= syncs[i]
  /\ \A w \in Workers :
       /\ pc[w] \in {"markBatch", "markItem", "resolve"} => snap[w] <= syncs[cur[w]]
       /\ pc[w] \in {"link", "import", "tracks", "complete"} =>
            using[w] \in 1..syncs[cur[w]]
       /\ pc[w] = "complete" => cur[w] \in detailed
  /\ \A i \in Items : status[i] = "completed" => i \in detailed /\ itemSync[i] # 0

LEMMA InitDetails == Init => Details
  BY NAssumption DEF Init, Details, AllQueued

\* Every step preserves it: rows and syncs are never taken back, and only
\* CompleteItem completes an item.
LEMMA NextDetails == IInv /\ Details /\ [Next]_vars => Details'
<1> SUFFICES ASSUME IInv, Details, [Next]_vars PROVE Details'
  OBVIOUS
<1> USE DEF IInv, TypeOK, RowsType, HandlerType, HandlerShape, Details
<1>1. CASE UNCHANGED vars
  BY <1>1 DEF vars, routeVars, dbVars, queueVars, localVars
<1>2. CASE CreateBatch \/ Enqueue \/ EnqueueFails \/ DeleteBatch
  BY <1>2 DEF CreateBatch, Enqueue, EnqueueFails, DeleteBatch, dbVars, queueVars,
              localVars
<1>3. ASSUME NEW w \in Workers, NEW i \in Items, TakeJob(w, i) PROVE Details'
  BY <1>3 DEF TakeJob, Goto, dbVars
<1>4. ASSUME NEW w \in Workers, WorkerStep(w), \A i \in Items : ~TakeJob(w, i)
      PROVE Details'
  <2> USE DEF Goto, SetStatus, dbVars, queueVars, localVars
  <2>1. CASE FindItem(w)          BY <2>1 DEF FindItem, Finished
  <2>2. CASE MarkBatchRunning(w)  BY <2>2 DEF MarkBatchRunning
  <2>3. CASE MarkItemRunning(w)   BY <2>3 DEF MarkItemRunning
  <2>4. CASE ResolveSync(w)
    <3>1. cur[w] \in Items /\ snap[w] \in Nat /\ syncs[cur[w]] \in Nat
      BY <2>4 DEF ResolveSync
    <3>2. CASE ~Stored
      <4>1. /\ pc' = [pc EXCEPT ![w] = "fail"]
            /\ UNCHANGED <<status, itemSync, detailed, syncs, cur, snap, using>>
        BY <2>4, <3>2 DEF ResolveSync
      <4> QED BY <3>1, <4>1
    <3>3. CASE Stored /\ snap[w] # 0
      <4>1. /\ pc' = [pc EXCEPT ![w] = "import"]
            /\ using' = [using EXCEPT ![w] = snap[w]]
            /\ UNCHANGED <<status, itemSync, detailed, syncs, cur, snap>>
        BY <2>4, <3>3 DEF ResolveSync
      <4>2. snap[w] <= syncs[cur[w]]
        BY <2>4 DEF ResolveSync
      <4>3. snap[w] \in 1..syncs[cur[w]]
        BY <3>1, <3>3, <4>2
      <4> QED BY <3>1, <4>1, <4>3
    <3>4. CASE Stored /\ snap[w] = 0
      <4>1. /\ syncs' = [syncs EXCEPT ![cur[w]] = syncs[cur[w]] + 1]
            /\ using' = [using EXCEPT ![w] = syncs[cur[w]] + 1]
            /\ pc' = [pc EXCEPT ![w] = "link"]
            /\ UNCHANGED <<status, itemSync, detailed, cur, snap>>
        BY <2>4, <3>4 DEF ResolveSync
      <4>2. \A i \in Items : syncs[i] \in Nat /\ syncs'[i] \in Nat /\ syncs[i] <= syncs'[i]
        BY <3>1, <4>1
      <4>3. using'[w] = syncs'[cur[w]] /\ using'[w] \in 1..syncs'[cur[w]]
        BY <3>1, <4>1
      <4>4. \A i \in Items : itemSync'[i] <= syncs'[i]
        BY <4>1, <4>2
      <4>5. ASSUME NEW v \in Workers
            PROVE  /\ pc'[v] \in {"markBatch", "markItem", "resolve"} =>
                        snap'[v] <= syncs'[cur'[v]]
                   /\ pc'[v] \in {"link", "import", "tracks", "complete"} =>
                        using'[v] \in 1..syncs'[cur'[v]]
                   /\ pc'[v] = "complete" => cur'[v] \in detailed'
        <5>1. CASE v = w
          BY <4>1, <4>3, <5>1
        <5>2. CASE v # w
          BY <4>1, <4>2, <5>2
        <5> QED BY <5>1, <5>2
      <4> QED BY <4>1, <4>4, <4>5
    <3> QED BY <2>4, <3>2, <3>3, <3>4 DEF ResolveSync
  <2>5. CASE LinkSync(w)          BY <2>5 DEF LinkSync
  <2>6. CASE Import(w)            BY <2>6 DEF Import
  <2>7. CASE ReplaceTracks(w)     BY <2>7 DEF ReplaceTracks
  <2>8. CASE CompleteItem(w)      BY <2>8 DEF CompleteItem
  <2>9. CASE FailItem(w)          BY <2>9 DEF FailItem, LastAttempt
  <2>10. CASE RefreshRead(w)      BY <2>10 DEF RefreshRead
  <2>11. CASE RefreshWrite(w)     BY <2>11 DEF RefreshWrite
  <2>12. CASE EndJob(w)           BY <2>12 DEF EndJob, AttemptsLeft, Forget
  <2> QED BY <1>4, <2>1, <2>2, <2>3, <2>4, <2>5, <2>6, <2>7, <2>8, <2>9, <2>10,
             <2>11, <2>12 DEF WorkerStep
<1>5. ASSUME NEW w \in Workers, Crash(w) PROVE Details'
  BY <1>5 DEF Crash, Forget, Goto, dbVars
<1>6. ASSUME NEW w \in Workers, DatabaseFails(w) PROVE Details'
  BY <1>6 DEF DatabaseFails, Goto, dbVars
<1>7. ASSUME NEW i \in Items, BackoffElapsed(i) \/ JobStalls(i) PROVE Details'
  BY <1>7 DEF BackoffElapsed, JobStalls, Stall, dbVars, localVars
<1> QED BY <1>1, <1>2, <1>3, <1>4, <1>5, <1>6, <1>7 DEF Next, WorkerStep

\* Whatever fails and however many processes run the same job, a completed item
\* names one of its syncs and has its rows.
THEOREM CompletedDetails == Spec => []CompletedHasDetails
<1>1. IInv /\ Details => CompletedHasDetails
  <2> SUFFICES ASSUME IInv, Details, NEW i \in Items, status[i] = "completed"
               PROVE  i \in detailed /\ itemSync[i] \in 1..syncs[i]
    BY DEF CompletedHasDetails
  <2>1. itemSync[i] \in Nat /\ syncs[i] \in Nat
    BY DEF IInv, TypeOK, RowsType
  <2>2. itemSync[i] <= syncs[i] /\ itemSync[i] # 0 /\ i \in detailed
    BY DEF Details
  <2> QED BY <2>1, <2>2
<1> QED BY InitIInv, NextIInv, InitDetails, NextDetails, <1>1, PTL DEF Spec

-----------------------------------------------------------------------------
(***************************************************************************)
(* What a transfer guarantees while only providers fail: no process died,  *)
(* no job was declared stalled, no database call rejected.  And what it    *)
(* guarantees while a single API process runs the jobs, one at a time:     *)
(* completed items stay so under all faults, and while nothing but         *)
(* providers fails the batch keeps its promise to the client.              *)
(***************************************************************************)

\* The queue serializes the runs of a job: a process in the handler holds the
\* lock of its item's job and knows how many attempts were made, and an active
\* job has its holder in the handler.
Held ==
  /\ \A w \in Workers : pc[w] # "idle" =>
       job[cur[w]] = "active" /\ lock[cur[w]] = w /\ att[w] = attempts[cur[w]]
  /\ \A i \in Items : job[i] = "active" =>
       lock[i] \in Workers /\ pc[lock[i]] # "idle" /\ cur[lock[i]] = i
  /\ \A w \in throwing : pc[w] \in {"refresh", "write", "end"}

\* Before the request stored anything there is nothing; what it has been through
\* is in the queue or was.
Requested ==
  /\ route = "idle" => /\ batchRow = "absent" /\ status = AllQueued
                       /\ \A i \in Items : syncs[i] = 0
  /\ route \in {"enqueuing", "accepted"} =>
       \A i \in Items : i < nextPos => job[i] # "none"
  /\ route = "accepted" => nextPos = N + 1

\* The status of an item whose job a process runs, by where the process is.
RunningStatus(w) ==
  IF pc[w] \in {"find", "markBatch", "markItem"} THEN "queued"
  ELSE IF pc[w] \notin {"refresh", "write", "end"} THEN "running"
  ELSE IF w \notin throwing THEN "completed"
  ELSE IF LastAttempt(w) THEN "failed" ELSE "queued"

\* The status of an item whose job nobody runs.
RestingStatus(i) ==
  IF job[i] = "done" THEN "completed" ELSE IF job[i] = "failed" THEN "failed" ELSE "queued"

Agrees ==
  Stored =>
    /\ \A i \in Items : job[i] # "active" => status[i] = RestingStatus(i)
    /\ \A w \in Workers : pc[w] # "idle" => status[cur[w]] = RunningStatus(w)

\* A sync is created only for an item that has none, and is unknown to the item
\* only until the next step of the process that created it.
OneSync ==
  /\ \A i \in Items : syncs[i] <= 1
  /\ Stored =>
       /\ \A i \in Items : syncs[i] # 0 /\ itemSync[i] = 0 =>
            \E w \in Workers : cur[w] = i /\ pc[w] = "link"
       /\ \A w \in Workers : pc[w] \in {"markBatch", "markItem", "resolve"} =>
            snap[w] = itemSync[cur[w]]

CInv == Calm => Held /\ Requested /\ Agrees /\ OneSync

\* The initial state satisfies it.
LEMMA InitCalm == Init => CInv
<1> SUFFICES ASSUME Init PROVE CInv
  OBVIOUS
<1> USE DEF Init
<1>1. Held
  BY WorkersAssumption DEF Held
<1>2. Requested
  BY DEF Requested
<1>3. ~Stored
  BY DEF Stored
<1>4. Agrees
  BY <1>3 DEF Agrees
<1>5. OneSync
  BY <1>3 DEF OneSync
<1> QED BY <1>1, <1>2, <1>4, <1>5 DEF CInv

\* A calm step is no fault, and follows a calm state.
LEMMA CalmStep ==
  ASSUME IInv, CInv, [Next]_vars, Calm'
  PROVE  /\ Calm
         /\ \/ UNCHANGED vars
            \/ CreateBatch \/ Enqueue \/ EnqueueFails \/ DeleteBatch
            \/ \E w \in Workers, i \in Items : TakeJob(w, i)
            \/ \E w \in Workers : HandlerStep(w) \/ EndJob(w)
            \/ \E i \in Items : BackoffElapsed(i)
<1>1. faults \in Nat
  BY BoundsAssumption DEF IInv, TypeOK
<1>2. ~Fault
  BY <1>1 DEF Fault, Calm
<1>3. ASSUME NEW w \in Workers PROVE ~Crash(w) /\ ~DatabaseFails(w)
  BY <1>2 DEF Crash, DatabaseFails
<1>4. Calm
  <2>1. CASE UNCHANGED vars
    BY <2>1 DEF vars, Calm
  <2>2. CASE CreateBatch \/ Enqueue \/ EnqueueFails \/ DeleteBatch
    BY <2>2 DEF CreateBatch, Enqueue, EnqueueFails, DeleteBatch, Calm
  <2>3. ASSUME NEW w \in Workers, WorkerStep(w) PROVE Calm
    <3>1. ASSUME NEW i \in Items, TakeJob(w, i) PROVE Calm
      BY <3>1 DEF TakeJob, Calm
    <3>2. CASE HandlerStep(w)
      BY <3>2, HandlerFrame DEF Calm
    <3>3. CASE EndJob(w)
      BY <3>3 DEF EndJob, Calm
    <3> QED BY <2>3, <3>1, <3>2, <3>3 DEF WorkerStep, HandlerStep
  <2>4. ASSUME NEW i \in Items, BackoffElapsed(i) \/ JobStalls(i) PROVE Calm
    BY <1>2, <2>4 DEF BackoffElapsed, JobStalls, Calm
  <2> QED BY <1>3, <2>1, <2>2, <2>3, <2>4 DEF Next
<1>5. ASSUME NEW i \in Items PROVE ~JobStalls(i)
  BY <1>2, <1>4 DEF JobStalls, HolderDead, CInv, Held
<1> QED BY <1>3, <1>4, <1>5 DEF Next, WorkerStep, HandlerStep

\* A process in the handler is alone with its item.
LEMMA Alone ==
  ASSUME IInv, Held, NEW w \in Workers, pc[w] # "idle"
  PROVE  /\ cur[w] \in Items /\ job[cur[w]] = "active" /\ lock[cur[w]] = w
         /\ \A v \in Workers \ {w} : pc[v] # "idle" => cur[v] # cur[w]
  BY DEF IInv, HandlerShape, Held

-----------------------------------------------------------------------------
\* Only a process past its catch block is about to throw.
LEMMA HandlerThrows ==
  ASSUME IInv, Held, NEW w \in Workers, HandlerStep(w)
  PROVE  /\ \A v \in Workers \ {w} : pc'[v] = pc[v] /\ (v \in throwing' <=> v \in throwing)
         /\ w \in throwing' => pc'[w] \in {"refresh", "write", "end"}
<1>1. pc \in [Workers -> Labels] /\ throwing \subseteq Workers
  BY DEF IInv, TypeOK, HandlerType
<1>2. \A v \in Workers \ {w} : pc'[v] = pc[v]
  BY <1>1, HandlerFrame DEF Goto
<1>3. w \in throwing => pc[w] \in {"refresh", "write", "end"}
  BY DEF Held
<1>4. CASE FailItem(w)
  BY <1>1, <1>2, <1>4 DEF FailItem, Goto
<1>5. CASE RefreshRead(w)
  BY <1>1, <1>2, <1>5 DEF RefreshRead, Goto
<1>6. CASE RefreshWrite(w)
  BY <1>1, <1>2, <1>6 DEF RefreshWrite, Goto, localVars
<1>7. CASE FindItem(w) \/ MarkBatchRunning(w) \/ MarkItemRunning(w) \/ ResolveSync(w)
  <2>1. UNCHANGED throwing /\ pc[w] \in {"find", "markBatch", "markItem", "resolve"}
    BY <1>7 DEF FindItem, MarkBatchRunning, MarkItemRunning, ResolveSync, localVars
  <2> QED BY <1>2, <1>3, <2>1
<1>8. CASE LinkSync(w) \/ Import(w) \/ ReplaceTracks(w) \/ CompleteItem(w)
  <2>1. UNCHANGED throwing /\ pc[w] \in {"link", "import", "tracks", "complete"}
    BY <1>8 DEF LinkSync, Import, ReplaceTracks, CompleteItem, localVars
  <2> QED BY <1>2, <1>3, <2>1
<1> QED BY <1>4, <1>5, <1>6, <1>7, <1>8 DEF HandlerStep

LEMMA HeldRoute ==
  ASSUME IInv, Held, CreateBatch \/ Enqueue \/ EnqueueFails \/ DeleteBatch
  PROVE  Held'
<1>1. /\ UNCHANGED <<pc, localVars>> /\ UNCHANGED <<attempts, lock>>
      /\ UNCHANGED job \/ (route = "enqueuing" /\ AddJob(nextPos))
  BY DEF CreateBatch, Enqueue, EnqueueFails, DeleteBatch, queueVars
<1>2. \A i \in Items : job'[i] = "active" <=> job[i] = "active"
  <2>1. CASE UNCHANGED job
    BY <2>1
  <2>2. CASE route = "enqueuing" /\ AddJob(nextPos)
    <3>1. nextPos \in Items /\ nextPos >= nextPos
      BY <2>2, NAssumption DEF IInv, QueueShape, Items
    <3>2. job[nextPos] = "none" /\ job \in [Items -> JobStates]
      BY <2>2, <3>1 DEF IInv, QueueShape, TypeOK, QueueType
    <3> QED BY <2>2, <3>1, <3>2 DEF AddJob
  <2> QED BY <1>1, <2>1, <2>2
<1>3. /\ pc' = pc /\ cur' = cur /\ att' = att /\ throwing' = throwing
      /\ lock' = lock /\ attempts' = attempts
  BY <1>1 DEF localVars
<1> QED BY <1>2, <1>3 DEF IInv, HandlerShape, Held

LEMMA HeldTake ==
  ASSUME IInv, Held, NEW w \in Workers, NEW i \in Items, TakeJob(w, i)
  PROVE  Held'
<1>1. /\ pc[w] = "idle" /\ job[i] = "waiting"
      /\ job' = [job EXCEPT ![i] = "active"]
      /\ lock' = [lock EXCEPT ![i] = w]
      /\ pc' = [pc EXCEPT ![w] = "find"]
      /\ cur' = [cur EXCEPT ![w] = i]
      /\ att' = [att EXCEPT ![w] = attempts[i]]
      /\ attempts' = attempts /\ throwing' = throwing
  BY DEF TakeJob, Goto
<1>2. QueueType /\ HandlerType
  BY DEF IInv, TypeOK
<1>3. /\ job'[i] = "active" /\ lock'[i] = w /\ pc'[w] = "find" /\ cur'[w] = i
      /\ att'[w] = attempts'[i]
      /\ \A k \in Items \ {i} : job'[k] = job[k] /\ lock'[k] = lock[k]
      /\ \A v \in Workers \ {w} : pc'[v] = pc[v] /\ cur'[v] = cur[v] /\ att'[v] = att[v]
  BY <1>1, <1>2 DEF QueueType, HandlerType
<1>4. \A v \in Workers \ {w} : pc[v] # "idle" => cur[v] \in Items \ {i}
  BY <1>1 DEF IInv, HandlerShape, Held
<1>5. w \notin throwing
  BY <1>1 DEF Held
<1>6. \A k \in Items \ {i} : job[k] = "active" => lock[k] \in Workers \ {w}
  BY <1>1 DEF Held
<1> QED BY <1>1, <1>2, <1>3, <1>4, <1>5, <1>6 DEF Held, HandlerType

LEMMA HeldHandler ==
  ASSUME IInv, Held, NEW w \in Workers, HandlerStep(w)
  PROVE  Held'
<1>1. /\ pc[w] # "idle" /\ pc'[w] # "idle"
      /\ cur' = cur /\ att' = att
      /\ job' = job /\ lock' = lock /\ attempts' = attempts
  BY HandlerFrame DEF Goto, queueVars, IInv, TypeOK, HandlerType
<1>2. \A v \in Workers \ {w} : pc'[v] = pc[v] /\ (v \in throwing' <=> v \in throwing)
  BY HandlerThrows
<1>3. throwing' \subseteq Workers
  BY HandlerCopies
<1>4. \A v \in Workers : pc'[v] # "idle" <=> pc[v] # "idle"
  BY <1>1, <1>2
<1>5. \A v \in throwing' : pc'[v] \in {"refresh", "write", "end"}
  BY <1>2, <1>3, HandlerThrows DEF Held
<1> QED BY <1>1, <1>4, <1>5 DEF Held

\* What EndJob does while its process holds the lock.
LEMMA EndJobHeld ==
  ASSUME IInv, Held, NEW w \in Workers, EndJob(w)
  PROVE  /\ pc[w] = "end"
         /\ lock' = [lock EXCEPT ![cur[w]] = NoWorker]
         /\ w \in throwing /\ LastAttempt(w) => job'[cur[w]] = "failed"
         /\ w \in throwing /\ ~LastAttempt(w) => job'[cur[w]] = "delayed"
         /\ w \notin throwing => job'[cur[w]] = "done"
         /\ \A k \in Items \ {cur[w]} : job'[k] = job[k] /\ attempts'[k] = attempts[k]
<1>1. pc[w] = "end"
  BY DEF EndJob
<1>2. cur[w] \in Items /\ lock[cur[w]] = w /\ att[w] = attempts[cur[w]]
  BY <1>1, Alone DEF Held
<1>3. QueueType /\ att[w] \in 0..MaxAttempts
  BY DEF IInv, TypeOK, HandlerType
<1>4. LastAttempt(w) <=> ~AttemptsLeft(attempts[cur[w]] + 1)
  BY <1>2, <1>3, BoundsAssumption DEF LastAttempt, AttemptsLeft
<1> QED BY <1>1, <1>2, <1>3, <1>4 DEF EndJob, QueueType

LEMMA HeldEnd ==
  ASSUME IInv, Held, NEW w \in Workers, EndJob(w)
  PROVE  Held'
<1>1. cur[w] \in Items /\ \A v \in Workers \ {w} : pc[v] # "idle" => cur[v] # cur[w]
  BY EndJobHeld, Alone
<1>2. QueueType /\ HandlerType
  BY DEF IInv, TypeOK
<1>3. /\ pc'[w] = "idle" /\ throwing' = throwing \ {w}
      /\ \A v \in Workers \ {w} : pc'[v] = pc[v] /\ cur'[v] = cur[v] /\ att'[v] = att[v]
  BY <1>2 DEF EndJob, Forget, Goto, HandlerType
<1>4. job'[cur[w]] # "active"
  BY EndJobHeld
<1>5. \A k \in Items \ {cur[w]} :
        job'[k] = job[k] /\ attempts'[k] = attempts[k] /\ lock'[k] = lock[k]
  <2>1. lock' = [lock EXCEPT ![cur[w]] = NoWorker] /\ lock \in [Items -> Workers \cup {NoWorker}]
    BY <1>2, EndJobHeld DEF QueueType
  <2>2. \A k \in Items \ {cur[w]} : lock'[k] = lock[k]
    BY <2>1
  <2> QED BY <2>2, EndJobHeld
<1>6. \A v \in Workers \ {w} : pc[v] # "idle" => cur[v] \in Items \ {cur[w]}
  BY <1>1 DEF IInv, HandlerShape
<1>7. \A k \in Items \ {cur[w]} : job[k] = "active" => lock[k] \in Workers \ {w}
  BY EndJobHeld DEF Held
<1>8. ASSUME NEW v \in Workers, pc'[v] # "idle"
      PROVE  job'[cur'[v]] = "active" /\ lock'[cur'[v]] = v /\ att'[v] = attempts'[cur'[v]]
  <2>1. v # w /\ cur'[v] = cur[v] /\ cur[v] \in Items \ {cur[w]}
    BY <1>3, <1>6, <1>8
  <2> QED BY <1>3, <1>5, <1>8, <2>1 DEF Held
<1>9. ASSUME NEW k \in Items, job'[k] = "active"
      PROVE  lock'[k] \in Workers /\ pc'[lock'[k]] # "idle" /\ cur'[lock'[k]] = k
  <2>1. k # cur[w]
    BY <1>4, <1>9
  <2> QED BY <1>3, <1>5, <1>7, <1>9, <2>1 DEF Held
<1>10. \A v \in throwing' : pc'[v] \in {"refresh", "write", "end"}
  BY <1>2, <1>3 DEF Held, HandlerType
<1> QED BY <1>8, <1>9, <1>10 DEF Held

LEMMA HeldBackoff ==
  ASSUME IInv, Held, NEW i \in Items, BackoffElapsed(i)
  PROVE  Held'
<1>1. /\ job[i] = "delayed" /\ job' = [job EXCEPT ![i] = "waiting"]
      /\ attempts' = attempts /\ lock' = lock
      /\ pc' = pc /\ cur' = cur /\ att' = att /\ throwing' = throwing
  BY DEF BackoffElapsed, localVars
<1>2. \A k \in Items : job'[k] = "active" <=> job[k] = "active"
  BY <1>1 DEF IInv, TypeOK, QueueType
<1> QED BY <1>1, <1>2 DEF IInv, HandlerShape, Held

LEMMA NextHeld == ASSUME IInv, CInv, [Next]_vars, Calm' PROVE Held'
<1>1. Held
  BY CalmStep DEF CInv
<1>2. CASE UNCHANGED vars
  BY <1>1, <1>2 DEF Held, vars, queueVars, localVars
<1> QED BY <1>1, <1>2, CalmStep, HeldRoute, HeldTake, HeldHandler, HeldEnd, HeldBackoff

-----------------------------------------------------------------------------
\* The request stores its rows once, before any job runs.
LEMMA NextRequested == ASSUME IInv, CInv, [Next]_vars, Calm' PROVE Requested'
<1>1. Requested /\ QueueType /\ nextPos \in Nat /\ N \in Nat
  BY CalmStep, NAssumption DEF CInv, IInv, TypeOK, RequestType
<1> USE DEF Items
<1>2. CASE UNCHANGED vars
  BY <1>1, <1>2 DEF Requested, vars, routeVars, dbVars, queueVars
<1>3. CASE CreateBatch
  <2>1. nextPos = 1
    BY <1>3 DEF CreateBatch, IInv, QueueShape
  <2> QED BY <1>1, <1>3, <2>1 DEF CreateBatch, Requested
<1>4. CASE DeleteBatch
  <2>1. Stored => route # "idle"
    BY <1>1 DEF Stored, Requested
  <2>2. route' = route /\ nextPos' = nextPos /\ job' = job /\ route # "idle"
    BY <1>4, <2>1 DEF DeleteBatch, routeVars, queueVars
  <2> QED BY <1>1, <2>2 DEF Requested
<1>5. CASE Enqueue \/ EnqueueFails
  <2>1. /\ route = "enqueuing" /\ nextPos \in Items
        /\ route' \in {"enqueuing", "accepted"} =>
             nextPos' = nextPos + 1 /\ AddJob(nextPos)
        /\ route' = "accepted" => nextPos = N
        /\ route' # "idle"
    BY <1>5 DEF Enqueue, EnqueueFails, IInv, QueueShape
  <2>2. CASE route' \in {"enqueuing", "accepted"}
    <3>1. \A i \in Items : i < nextPos' => i < nextPos \/ i = nextPos
      BY <1>1, <2>1, <2>2
    <3>2. \A i \in Items : i < nextPos' => job'[i] # "none"
      BY <1>1, <2>1, <2>2, <3>1 DEF AddJob, QueueType, Requested
    <3>3. route' = "accepted" => nextPos' = N + 1
      BY <2>1
    <3> QED BY <2>1, <3>2, <3>3 DEF Requested
  <2> QED BY <2>1, <2>2 DEF Requested
<1>6. ASSUME UNCHANGED routeVars, route # "idle",
             \A i \in Items : job[i] # "none" => job'[i] # "none"
      PROVE  Requested'
  BY <1>1, <1>6 DEF Requested, routeVars
<1>7. route = "idle" => \A i \in Items : job[i] = "none"
  BY DEF IInv, QueueShape
<1>8. ASSUME NEW w \in Workers, NEW i \in Items, TakeJob(w, i) PROVE Requested'
  <2>1. UNCHANGED routeVars /\ job[i] = "waiting" /\ job' = [job EXCEPT ![i] = "active"]
    BY <1>8 DEF TakeJob
  <2> QED BY <1>1, <1>6, <1>7, <2>1 DEF QueueType
<1>9. ASSUME NEW w \in Workers, HandlerStep(w) PROVE Requested'
  <2>1. UNCHANGED routeVars /\ job' = job /\ pc[w] # "idle"
    BY <1>9, HandlerFrame DEF queueVars
  <2>2. cur[w] \in Items /\ job[cur[w]] = "active"
    BY <2>1, CalmStep, Alone DEF CInv
  <2> QED BY <1>6, <1>7, <2>1, <2>2
<1>10. ASSUME NEW w \in Workers, EndJob(w) PROVE Requested'
  <2>1. Held
    BY CalmStep DEF CInv
  <2>2. UNCHANGED routeVars
    BY <1>10 DEF EndJob
  <2>3. cur[w] \in Items /\ job[cur[w]] = "active"
    BY <1>10, <2>1, EndJobHeld, Alone
  <2>4. \A i \in Items : job[i] # "none" => job'[i] # "none"
    BY <1>10, <2>1, EndJobHeld
  <2> QED BY <1>6, <1>7, <2>2, <2>3, <2>4
<1>11. ASSUME NEW i \in Items, BackoffElapsed(i) PROVE Requested'
  <2>1. UNCHANGED routeVars /\ job[i] = "delayed" /\ job' = [job EXCEPT ![i] = "waiting"]
    BY <1>11 DEF BackoffElapsed
  <2> QED BY <1>1, <1>6, <1>7, <2>1 DEF QueueType
<1> QED BY CalmStep, <1>2, <1>3, <1>4, <1>5, <1>8, <1>9, <1>10, <1>11

-----------------------------------------------------------------------------
\* What a handler writes on its item is what its place in the handler says.
LEMMA HandlerStatus ==
  ASSUME IInv, Held, Agrees, Stored, NEW w \in Workers, HandlerStep(w)
  PROVE  /\ batchRow' = batchRow
         /\ \A i \in Items \ {cur[w]} : status'[i] = status[i]
         /\ status'[cur[w]] = RunningStatus(w)'
<1>1. /\ cur[w] \in Items /\ status \in [Items -> ItemStatus]
      /\ pc \in [Workers -> Labels] /\ throwing \subseteq Workers
  BY HandlerFrame, Alone DEF IInv, TypeOK, RowsType, HandlerType
<1>2. status[cur[w]] = RunningStatus(w) /\ pc[w] # "idle"
  BY HandlerFrame DEF Agrees
<1>3. w \in throwing => pc[w] \in {"refresh", "write", "end"}
  BY DEF Held
<1>4. att'[w] = att[w] /\ (LastAttempt(w)' <=> LastAttempt(w))
  BY HandlerFrame DEF LastAttempt
<1> USE <1>1, <1>2, <1>3 DEF RunningStatus, Goto, SetStatus
<1>5. CASE FindItem(w)
  BY <1>5 DEF FindItem, Finished, dbVars
<1>6. CASE MarkBatchRunning(w)
  BY <1>6 DEF MarkBatchRunning, localVars
<1>7. CASE MarkItemRunning(w)
  BY <1>7 DEF MarkItemRunning, localVars
<1>8. CASE ResolveSync(w)
  BY <1>8 DEF ResolveSync
<1>9. CASE LinkSync(w)
  BY <1>9 DEF LinkSync, localVars
<1>10. CASE Import(w)
  BY <1>10 DEF Import, dbVars, localVars
<1>11. CASE ReplaceTracks(w)
  BY <1>11 DEF ReplaceTracks, localVars
<1>12. CASE CompleteItem(w)
  BY <1>12 DEF CompleteItem, localVars
<1>13. CASE FailItem(w)
  BY <1>4, <1>13 DEF FailItem
<1>14. CASE RefreshRead(w)
  BY <1>4, <1>14 DEF RefreshRead, dbVars
<1>15. CASE RefreshWrite(w)
  BY <1>4, <1>15 DEF RefreshWrite, localVars
<1> QED BY <1>5, <1>6, <1>7, <1>8, <1>9, <1>10, <1>11, <1>12, <1>13, <1>14, <1>15
           DEF HandlerStep

LEMMA AgreesRoute ==
  ASSUME IInv, Held, Requested, Agrees,
         CreateBatch \/ Enqueue \/ EnqueueFails \/ DeleteBatch
  PROVE  Agrees'
<1> USE DEF Items
<1>1. UNCHANGED <<pc, localVars>> /\ UNCHANGED status
  BY DEF CreateBatch, Enqueue, EnqueueFails, DeleteBatch, dbVars
<1>2. \A w \in Workers : RunningStatus(w)' = RunningStatus(w)
  BY <1>1 DEF RunningStatus, LastAttempt, localVars
<1>3. CASE CreateBatch
  <2>1. \A i \in Items : job[i] = "none"
    BY <1>3 DEF CreateBatch, IInv, QueueShape
  <2>2. \A w \in Workers : pc[w] = "idle"
    BY <2>1, Alone
  <2>3. job' = job /\ pc' = pc /\ \A i \in Items : status'[i] = "queued"
    BY <1>1, <1>3 DEF CreateBatch, queueVars, Requested, AllQueued
  <2> QED BY <2>1, <2>2, <2>3 DEF Agrees, RestingStatus
<1>4. CASE Enqueue \/ EnqueueFails
  <2>1. /\ route = "enqueuing" /\ batchRow' = batchRow
        /\ AddJob(nextPos) \/ UNCHANGED job
    BY <1>4 DEF Enqueue, EnqueueFails, dbVars
  <2>2. nextPos \in Items
    BY <2>1 DEF IInv, QueueShape
  <2>3. nextPos >= nextPos
    BY <2>2, NAssumption
  <2>4. job[nextPos] = "none" /\ job \in [Items -> JobStates]
    BY <2>1, <2>2, <2>3 DEF IInv, QueueShape, TypeOK, QueueType
  <2>5. \A i \in Items : /\ RestingStatus(i)' = RestingStatus(i)
                         /\ job'[i] = "active" <=> job[i] = "active"
    BY <2>1, <2>2, <2>4 DEF AddJob, RestingStatus
  <2> QED BY <1>1, <1>2, <2>1, <2>5 DEF Agrees, Stored, localVars
<1>5. CASE DeleteBatch
  BY <1>5 DEF DeleteBatch, Agrees, Stored
<1> QED BY <1>3, <1>4, <1>5

LEMMA AgreesTake ==
  ASSUME IInv, Held, Agrees, NEW w \in Workers, NEW i \in Items, TakeJob(w, i)
  PROVE  Agrees'
<1>1. /\ job[i] = "waiting" /\ pc[w] = "idle"
      /\ job' = [job EXCEPT ![i] = "active"]
      /\ pc' = [pc EXCEPT ![w] = "find"]
      /\ cur' = [cur EXCEPT ![w] = i]
      /\ att' = [att EXCEPT ![w] = attempts[i]]
      /\ throwing' = throwing /\ status' = status /\ batchRow' = batchRow
  BY DEF TakeJob, Goto, dbVars
<1>2. QueueType /\ HandlerType
  BY DEF IInv, TypeOK
<1>3. /\ job'[i] = "active"
      /\ \A k \in Items \ {i} : RestingStatus(k)' = RestingStatus(k) /\ job'[k] = job[k]
  BY <1>1, <1>2 DEF QueueType, RestingStatus
<1>4. \A v \in Workers \ {w} :
        pc'[v] = pc[v] /\ cur'[v] = cur[v] /\ RunningStatus(v)' = RunningStatus(v)
  BY <1>1, <1>2 DEF HandlerType, RunningStatus, LastAttempt
<1>5. pc'[w] = "find" /\ cur'[w] = i /\ RunningStatus(w)' = "queued"
  BY <1>1, <1>2 DEF HandlerType, RunningStatus
<1>6. Stored => status[i] = "queued"
  BY <1>1 DEF Agrees, RestingStatus
<1> QED BY <1>1, <1>3, <1>4, <1>5, <1>6 DEF Agrees, Stored

LEMMA AgreesHandler ==
  ASSUME IInv, Held, Agrees, NEW w \in Workers, HandlerStep(w), Stored'
  PROVE  Agrees'
<1>1. Stored
  BY DEF HandlerStep, FindItem, MarkBatchRunning, MarkItemRunning, ResolveSync,
         LinkSync, Import, ReplaceTracks, CompleteItem, FailItem, RefreshRead,
         RefreshWrite, Stored, dbVars
<1>2. /\ cur' = cur /\ att' = att /\ job' = job /\ pc[w] # "idle"
      /\ cur[w] \in Items /\ job[cur[w]] = "active"
      /\ \A v \in Workers \ {w} : pc[v] # "idle" => cur[v] # cur[w] /\ cur[v] \in Items
  BY HandlerFrame, Alone DEF queueVars
<1>3. \A v \in Workers \ {w} : pc'[v] = pc[v] /\ RunningStatus(v)' = RunningStatus(v)
  BY <1>2, HandlerThrows DEF RunningStatus, LastAttempt
<1>4. \A i \in Items : RestingStatus(i)' = RestingStatus(i)
  BY <1>2 DEF RestingStatus
<1> QED BY <1>1, <1>2, <1>3, <1>4, HandlerStatus DEF Agrees

LEMMA AgreesEnd ==
  ASSUME IInv, Held, Agrees, NEW w \in Workers, EndJob(w)
  PROVE  Agrees'
<1>1. /\ cur[w] \in Items /\ pc[w] = "end"
      /\ \A v \in Workers \ {w} : pc[v] # "idle" => cur[v] # cur[w] /\ cur[v] \in Items
  BY EndJobHeld, Alone
<1>2. HandlerType
  BY DEF IInv, TypeOK
<1>3. /\ status' = status /\ batchRow' = batchRow
      /\ pc'[w] = "idle" /\ throwing' = throwing \ {w}
      /\ \A v \in Workers \ {w} : pc'[v] = pc[v] /\ cur'[v] = cur[v] /\ att'[v] = att[v]
  BY <1>2 DEF EndJob, Forget, Goto, HandlerType, dbVars
<1>4. \A v \in Workers \ {w} : RunningStatus(v)' = RunningStatus(v)
  BY <1>3 DEF RunningStatus, LastAttempt
<1>5. \A k \in Items \ {cur[w]} : RestingStatus(k)' = RestingStatus(k) /\ job'[k] = job[k]
  BY EndJobHeld DEF RestingStatus
<1>6. ASSUME NEW i \in Items, i = cur[w]
      PROVE  RestingStatus(i)' = RunningStatus(w)
  <2>1. CASE w \notin throwing
    BY <1>1, <1>6, <2>1, EndJobHeld DEF RunningStatus, RestingStatus
  <2>2. CASE w \in throwing /\ LastAttempt(w)
    BY <1>1, <1>6, <2>2, EndJobHeld DEF RunningStatus, RestingStatus
  <2>3. CASE w \in throwing /\ ~LastAttempt(w)
    BY <1>1, <1>6, <2>3, EndJobHeld DEF RunningStatus, RestingStatus
  <2> QED BY <2>1, <2>2, <2>3
<1> SUFFICES ASSUME Stored PROVE Agrees'
  BY <1>3 DEF Agrees, Stored
<1>7. status[cur[w]] = RunningStatus(w)
  BY <1>1 DEF Agrees
<1>8. ASSUME NEW i \in Items, job'[i] # "active"
      PROVE  status'[i] = RestingStatus(i)'
  <2>1. CASE i = cur[w]
    BY <1>3, <1>6, <1>7, <2>1
  <2>2. CASE i # cur[w]
    BY <1>3, <1>5, <1>8, <2>2 DEF Agrees
  <2> QED BY <2>1, <2>2
<1>9. ASSUME NEW v \in Workers, pc'[v] # "idle"
      PROVE  status'[cur'[v]] = RunningStatus(v)'
  <2>1. v # w
    BY <1>3, <1>9
  <2> QED BY <1>3, <1>4, <1>9, <2>1 DEF Agrees
<1> QED BY <1>8, <1>9 DEF Agrees

LEMMA AgreesBackoff ==
  ASSUME IInv, Agrees, NEW i \in Items, BackoffElapsed(i)
  PROVE  Agrees'
<1>1. /\ job[i] = "delayed" /\ job' = [job EXCEPT ![i] = "waiting"]
      /\ pc' = pc /\ cur' = cur /\ att' = att /\ throwing' = throwing
      /\ status' = status /\ batchRow' = batchRow
  BY DEF BackoffElapsed, localVars, dbVars
<1>2. \A k \in Items : /\ RestingStatus(k)' = RestingStatus(k)
                       /\ job'[k] = "active" <=> job[k] = "active"
  BY <1>1 DEF IInv, TypeOK, QueueType, RestingStatus
<1> QED BY <1>1, <1>2 DEF Agrees, Stored, RunningStatus, LastAttempt

LEMMA NextAgrees == ASSUME IInv, CInv, [Next]_vars, Calm' PROVE Agrees'
<1>1. Held /\ Requested /\ Agrees
  BY CalmStep DEF CInv
<1>2. CASE UNCHANGED vars
  BY <1>1, <1>2 DEF Agrees, Stored, RunningStatus, RestingStatus, LastAttempt, vars,
                    dbVars, queueVars, localVars
<1>3. ~Stored' => Agrees'
  BY DEF Agrees
<1> QED BY <1>1, <1>2, <1>3, CalmStep, AgreesRoute, AgreesTake, AgreesHandler, AgreesEnd,
           AgreesBackoff

-----------------------------------------------------------------------------
\* The sync a process is about to store for its item exists.
LEMMA UsingMade ==
  ASSUME IInv, Details, NEW w \in Workers, pc[w] \in {"link", "complete"}
  PROVE  using[w] # 0
  BY DEF Details

\* A step of the handler leaves the syncs of other items, and what other
\* processes know of them, alone.
LEMMA OthersSyncs ==
  ASSUME IInv, Held, NEW w \in Workers, HandlerStep(w)
  PROVE  /\ batchRow' = batchRow
         /\ \A v \in Workers \ {w} : snap'[v] = snap[v]
         /\ \A i \in Items \ {cur[w]} : itemSync'[i] = itemSync[i] /\ syncs'[i] = syncs[i]
<1>1. RowsType /\ HandlerType
  BY DEF IInv, TypeOK
<1> USE DEF HandlerStep, FindItem, MarkBatchRunning, MarkItemRunning, ResolveSync,
            LinkSync, Import, ReplaceTracks, CompleteItem, FailItem, RefreshRead,
            RefreshWrite
<1>2. batchRow' = batchRow
  BY DEF dbVars
<1>3. \A v \in Workers \ {w} : snap'[v] = snap[v]
  BY <1>1 DEF HandlerType, localVars
<1>4. \A i \in Items \ {cur[w]} : itemSync'[i] = itemSync[i] /\ syncs'[i] = syncs[i]
  BY <1>1 DEF RowsType, dbVars
<1> QED BY <1>2, <1>3, <1>4

\* What a step of the handler does for its own item: it creates a sync only for
\* an item without one, and stores it next.
LEMMA OwnSync ==
  ASSUME IInv, Details, Held, OneSync, NEW w \in Workers, HandlerStep(w)
  PROVE  /\ syncs'[cur[w]] <= 1
         /\ Stored => /\ syncs'[cur[w]] # 0 /\ itemSync'[cur[w]] = 0 => pc'[w] = "link"
                      /\ pc'[w] \in {"markBatch", "markItem", "resolve"} =>
                           snap'[w] = itemSync'[cur[w]]
<1>1. /\ cur[w] \in Items
      /\ \A v \in Workers \ {w} : pc[v] # "idle" => cur[v] # cur[w]
  BY HandlerFrame, Alone
<1>2. /\ syncs \in [Items -> Nat] /\ itemSync \in [Items -> Nat]
      /\ pc \in [Workers -> Labels]
      /\ snap \in [Workers -> Nat] /\ using \in [Workers -> Nat]
  BY DEF IInv, TypeOK, RowsType, HandlerType
<1>3. /\ syncs[cur[w]] <= 1
      /\ Stored /\ syncs[cur[w]] # 0 /\ itemSync[cur[w]] = 0 => pc[w] = "link"
      /\ Stored /\ pc[w] \in {"markBatch", "markItem", "resolve"} =>
           snap[w] = itemSync[cur[w]]
  BY <1>1 DEF OneSync
<1>4. pc[w] \in {"link", "complete"} => using[w] # 0
  BY UsingMade
<1> USE <1>1, <1>2, <1>3 DEF Goto
<1>5. CASE ResolveSync(w)
  <2>1. CASE ~Stored \/ snap[w] # 0
    BY <1>5, <2>1 DEF ResolveSync
  <2>2. CASE Stored /\ snap[w] = 0
    <3>1. syncs' = [syncs EXCEPT ![cur[w]] = syncs[cur[w]] + 1] /\ pc'[w] = "link"
      BY <1>5, <2>2 DEF ResolveSync
    <3>2. syncs[cur[w]] = 0
      BY <1>5, <2>2 DEF ResolveSync
    <3> QED BY <3>1, <3>2
  <2> QED BY <2>1, <2>2
<1>6. CASE LinkSync(w)
  BY <1>4, <1>6 DEF LinkSync
<1>7. CASE CompleteItem(w)
  BY <1>4, <1>7 DEF CompleteItem
<1>8. CASE FindItem(w)
  BY <1>8 DEF FindItem, dbVars
<1>9. CASE MarkBatchRunning(w)
  BY <1>9 DEF MarkBatchRunning, localVars
<1>10. CASE MarkItemRunning(w)
  BY <1>10 DEF MarkItemRunning, localVars
<1>11. CASE Import(w) \/ ReplaceTracks(w)
  BY <1>11 DEF Import, ReplaceTracks, dbVars
<1>12. CASE FailItem(w) \/ RefreshRead(w) \/ RefreshWrite(w)
  BY <1>12 DEF FailItem, RefreshRead, RefreshWrite, dbVars
<1> QED BY <1>5, <1>6, <1>7, <1>8, <1>9, <1>10, <1>11, <1>12 DEF HandlerStep

LEMMA OneSyncHandler ==
  ASSUME IInv, Details, Held, OneSync, NEW w \in Workers, HandlerStep(w)
  PROVE  OneSync'
<1>1. /\ cur[w] \in Items /\ cur' = cur /\ pc[w] # "idle"
      /\ \A v \in Workers \ {w} : pc[v] # "idle" => cur[v] # cur[w] /\ cur[v] \in Items
  BY HandlerFrame, Alone
<1>2. \A v \in Workers \ {w} : pc'[v] = pc[v]
  BY HandlerThrows
<1>3. ASSUME NEW i \in Items PROVE syncs'[i] <= 1
  BY <1>1, OwnSync, OthersSyncs DEF OneSync
<1> SUFFICES ASSUME Stored PROVE OneSync'
  BY <1>3, OthersSyncs DEF OneSync, Stored
<1>4. ASSUME NEW i \in Items, syncs'[i] # 0, itemSync'[i] = 0
      PROVE  \E v \in Workers : cur'[v] = i /\ pc'[v] = "link"
  <2>1. CASE i = cur[w]
    BY <1>1, <1>4, <2>1, OwnSync
  <2>2. CASE i # cur[w]
    <3>1. PICK v \in Workers : cur[v] = i /\ pc[v] = "link"
      BY <1>4, <2>2, OthersSyncs DEF OneSync
    <3> QED BY <1>1, <1>2, <2>2, <3>1
  <2> QED BY <2>1, <2>2
<1>5. ASSUME NEW v \in Workers, pc'[v] \in {"markBatch", "markItem", "resolve"}
      PROVE  snap'[v] = itemSync'[cur'[v]]
  <2>1. CASE v = w
    BY <1>1, <1>5, <2>1, OwnSync
  <2>2. CASE v # w
    BY <1>1, <1>2, <1>5, <2>2, OthersSyncs DEF OneSync
  <2> QED BY <2>1, <2>2
<1> QED BY <1>3, <1>4, <1>5 DEF OneSync

\* No other step touches a sync or a handler that knows of one.
LEMMA NextOneSync == ASSUME IInv, Details, CInv, [Next]_vars, Calm' PROVE OneSync'
<1>1. Held /\ Requested /\ OneSync
  BY CalmStep DEF CInv
<1>2. CASE UNCHANGED vars
  BY <1>1, <1>2 DEF OneSync, Stored, vars, dbVars, localVars
<1>3. CASE CreateBatch
  <2>1. syncs' = syncs /\ pc' = pc /\ \A i \in Items : syncs[i] = 0
    BY <1>1, <1>3 DEF CreateBatch, Requested
  <2>2. \A i \in Items : job[i] = "none"
    BY <1>3 DEF CreateBatch, IInv, QueueShape, Items
  <2>3. \A w \in Workers : pc[w] = "idle"
    BY <1>1, <2>2, Alone
  <2> QED BY <1>1, <2>1, <2>3 DEF OneSync
<1>4. CASE DeleteBatch
  BY <1>1, <1>4 DEF DeleteBatch, OneSync, Stored
<1>5. CASE Enqueue \/ EnqueueFails
  BY <1>1, <1>5 DEF Enqueue, EnqueueFails, OneSync, Stored, dbVars, localVars
<1>6. ASSUME NEW i \in Items, BackoffElapsed(i) PROVE OneSync'
  BY <1>1, <1>6 DEF BackoffElapsed, OneSync, Stored, dbVars, localVars
<1>7. ASSUME NEW w \in Workers, UNCHANGED dbVars, pc[w] \in {"idle", "end"},
             pc'[w] \in {"idle", "find"},
             \A v \in Workers \ {w} :
               pc'[v] = pc[v] /\ cur'[v] = cur[v] /\ snap'[v] = snap[v]
      PROVE  OneSync'
  BY <1>1, <1>7 DEF OneSync, Stored, dbVars
<1>8. HandlerType
  BY DEF IInv, TypeOK
<1>9. ASSUME NEW w \in Workers, NEW i \in Items, TakeJob(w, i) PROVE OneSync'
  BY <1>7, <1>8, <1>9 DEF TakeJob, Goto, HandlerType
<1>10. ASSUME NEW w \in Workers, EndJob(w) PROVE OneSync'
  BY <1>7, <1>8, <1>10 DEF EndJob, Forget, Goto, HandlerType
<1>11. ASSUME NEW w \in Workers, HandlerStep(w) PROVE OneSync'
  BY <1>1, <1>11, OneSyncHandler
<1> QED BY CalmStep, <1>2, <1>3, <1>4, <1>5, <1>6, <1>9, <1>10, <1>11

-----------------------------------------------------------------------------
\* Every step preserves the invariant of calm states.
LEMMA NextCalm == IInv /\ Details /\ CInv /\ [Next]_vars => CInv'
<1> SUFFICES ASSUME IInv, Details, CInv, [Next]_vars, Calm'
             PROVE  Held' /\ Requested' /\ Agrees' /\ OneSync'
  BY DEF CInv
<1> QED BY NextHeld, NextRequested, NextAgrees, NextOneSync

LEMMA CalmInvariant == Spec => []CInv
BY InitIInv, NextIInv, InitDetails, NextDetails, InitCalm, NextCalm, PTL DEF Spec

\* While nothing but providers fails, the queue and the items agree, however
\* many processes share the queue: a queued job stands for a queued item, and a
\* job that is over left its item settled the way it ended.
THEOREM QueueAgrees == Spec => []JobMatchesItem
<1>1. IInv /\ CInv => JobMatchesItem
  <2> SUFFICES ASSUME IInv, CInv, Stored, Calm, NEW i \in Items
               PROVE  /\ job[i] \in {"none", "waiting", "delayed"} => status[i] = "queued"
                      /\ job[i] = "done" => status[i] = "completed"
                      /\ job[i] = "failed" => status[i] = "failed"
                      /\ route = "accepted" => job[i] # "none"
    BY DEF JobMatchesItem
  <2>1. job[i] # "active" => status[i] = RestingStatus(i)
    BY DEF CInv, Agrees
  <2>2. route = "accepted" => job[i] # "none"
    BY NAssumption DEF CInv, Requested, Items
  <2> QED BY <2>1, <2>2 DEF RestingStatus
<1> QED BY InitIInv, NextIInv, CalmInvariant, <1>1, PTL DEF Spec

\* While nothing but providers fails, an item gets at most one sync, however
\* often it is tried and however many processes share the queue.
THEOREM AtMostOneSync == Spec => []OneSyncPerItem
<1>1. CInv => OneSyncPerItem
  BY DEF CInv, OneSync, OneSyncPerItem
<1> QED BY CalmInvariant, <1>1, PTL

-----------------------------------------------------------------------------
(* One API process runs the jobs, one at a time. *)

Lone == \E w : Workers = {w}

LEMMA OnlyOne == Lone => \A v, w \in Workers : v = w
  BY DEF Lone

-----------------------------------------------------------------------------
\* Until the job of an item is taken from a process as stalled, whoever is in
\* the handler for it holds its lock; so there is one at a time.
Serialized ==
  \A w \in Workers : pc[w] # "idle" /\ stalls[cur[w]] = 0 =>
    job[cur[w]] = "active" /\ lock[cur[w]] = w

\* A process works on an item only after it found it unfinished, and while one
\* at a time does nobody else can have finished it since.
Unfinished ==
  \A w \in Workers :
    /\ pc[w] \in {"markBatch", "markItem", "resolve", "link", "import", "tracks",
                  "complete", "fail"}
    /\ OneHandler(cur[w])
    => status[cur[w]] # "completed"

LEMMA InitUnfinished == Init => Serialized /\ Unfinished
  BY DEF Init, Serialized, Unfinished

\* Only the stalled check takes a job from a process.
LEMMA NextSerialized == IInv /\ Serialized /\ [Next]_vars => Serialized'
<1> SUFFICES ASSUME IInv, Serialized, [Next]_vars PROVE Serialized'
  OBVIOUS
<1>1. QueueType /\ HandlerType /\ \A w \in Workers : pc[w] # "idle" => cur[w] \in Items
  BY DEF IInv, TypeOK, HandlerShape
<1>2. ASSUME UNCHANGED <<stalls, lock>>, UNCHANGED <<pc, cur>>,
             \A i \in Items : job[i] = "active" => job'[i] = "active"
      PROVE  Serialized'
  BY <1>1, <1>2 DEF Serialized
<1>3. CASE UNCHANGED vars
  BY <1>2, <1>3 DEF vars, queueVars, localVars
<1>4. CASE CreateBatch \/ Enqueue \/ EnqueueFails \/ DeleteBatch
  <2>1. /\ UNCHANGED <<stalls, lock>> /\ UNCHANGED <<pc, cur>>
        /\ UNCHANGED job \/ (route = "enqueuing" /\ AddJob(nextPos))
    BY <1>4 DEF CreateBatch, Enqueue, EnqueueFails, DeleteBatch, queueVars, localVars
  <2>2. CASE UNCHANGED job
    BY <1>2, <2>1, <2>2
  <2>3. CASE route = "enqueuing" /\ AddJob(nextPos)
    <3>1. nextPos \in Items /\ nextPos >= nextPos
      BY <2>3, NAssumption DEF IInv, QueueShape, Items
    <3>2. job[nextPos] = "none"
      BY <2>3, <3>1 DEF IInv, QueueShape
    <3> QED BY <1>1, <1>2, <2>1, <2>3, <3>1, <3>2 DEF AddJob, QueueType
  <2> QED BY <2>1, <2>2, <2>3
<1>5. ASSUME NEW w \in Workers, NEW i \in Items, TakeJob(w, i) PROVE Serialized'
  <2>1. /\ pc[w] = "idle" /\ job[i] = "waiting" /\ UNCHANGED stalls
        /\ job' = [job EXCEPT ![i] = "active"]
        /\ lock' = [lock EXCEPT ![i] = w]
        /\ pc' = [pc EXCEPT ![w] = "find"]
        /\ cur' = [cur EXCEPT ![w] = i]
    BY <1>5 DEF TakeJob, Goto
  <2>2. ASSUME NEW v \in Workers, pc'[v] # "idle", stalls'[cur'[v]] = 0
        PROVE  job'[cur'[v]] = "active" /\ lock'[cur'[v]] = v
    <3>1. CASE v = w
      BY <1>1, <2>1, <3>1 DEF QueueType, HandlerType
    <3>2. CASE v # w
      <4>1. pc[v] # "idle" /\ cur'[v] = cur[v] /\ stalls[cur[v]] = 0
        BY <1>1, <2>1, <2>2, <3>2 DEF HandlerType
      <4>2. job[cur[v]] = "active" /\ lock[cur[v]] = v /\ cur[v] \in Items
        BY <1>1, <4>1 DEF Serialized
      <4> QED BY <1>1, <2>1, <4>1, <4>2 DEF QueueType
    <3> QED BY <3>1, <3>2
  <2> QED BY <2>2 DEF Serialized
<1>6. ASSUME NEW w \in Workers, HandlerStep(w) PROVE Serialized'
  <2>1. /\ pc[w] # "idle" /\ cur' = cur
        /\ job' = job /\ lock' = lock /\ stalls' = stalls
        /\ \A v \in Workers \ {w} : pc'[v] = pc[v]
    BY <1>1, <1>6, HandlerFrame DEF Goto, queueVars, HandlerType
  <2> QED BY <2>1 DEF Serialized
<1>7. ASSUME NEW w \in Workers, EndJob(w) PROVE Serialized'
  <2>1. /\ pc[w] = "end" /\ pc'[w] = "idle" /\ UNCHANGED stalls
        /\ \A v \in Workers \ {w} : pc'[v] = pc[v] /\ cur'[v] = cur[v]
    BY <1>1, <1>7 DEF EndJob, Forget, Goto, HandlerType
  <2>2. \A k \in Items : k # cur[w] \/ lock[k] # w => job'[k] = job[k] /\ lock'[k] = lock[k]
    <3>1. CASE lock[cur[w]] # w
      BY <1>7, <3>1 DEF EndJob
    <3>2. CASE lock[cur[w]] = w
      <4>1. /\ lock' = [lock EXCEPT ![cur[w]] = NoWorker]
            /\ \E s : job' = [job EXCEPT ![cur[w]] = s]
        BY <1>7, <3>2 DEF EndJob
      <4> QED BY <1>1, <3>2, <4>1 DEF QueueType
    <3> QED BY <3>1, <3>2
  <2>3. ASSUME NEW v \in Workers, pc'[v] # "idle", stalls'[cur'[v]] = 0
        PROVE  job'[cur'[v]] = "active" /\ lock'[cur'[v]] = v
    <3>1. v # w
      BY <2>1, <2>3
    <3>2. pc[v] # "idle" /\ cur'[v] = cur[v] /\ stalls[cur[v]] = 0
      BY <2>1, <2>3, <3>1
    <3>3. job[cur[v]] = "active" /\ lock[cur[v]] = v /\ cur[v] \in Items
      BY <1>1, <3>2 DEF Serialized
    <3> QED BY <2>2, <3>1, <3>2, <3>3
  <2> QED BY <2>3 DEF Serialized
<1>8. ASSUME NEW w \in Workers, Crash(w) PROVE Serialized'
  <2>1. /\ pc'[w] = "idle" /\ UNCHANGED queueVars
        /\ \A v \in Workers \ {w} : pc'[v] = pc[v] /\ cur'[v] = cur[v]
    BY <1>1, <1>8 DEF Crash, Forget, Goto, HandlerType
  <2> QED BY <2>1 DEF Serialized, queueVars
<1>9. ASSUME NEW w \in Workers, DatabaseFails(w) PROVE Serialized'
  <2>1. /\ pc[w] # "idle" /\ cur' = cur /\ UNCHANGED queueVars
        /\ \A v \in Workers \ {w} : pc'[v] = pc[v]
    BY <1>1, <1>9 DEF DatabaseFails, Goto, HandlerType
  <2> QED BY <2>1 DEF Serialized, queueVars
<1>10. ASSUME NEW i \in Items, BackoffElapsed(i) PROVE Serialized'
  BY <1>1, <1>2, <1>10 DEF BackoffElapsed, localVars, QueueType
<1>11. ASSUME NEW i \in Items, JobStalls(i) PROVE Serialized'
  <2>1. /\ stalls' = [stalls EXCEPT ![i] = @ + 1] /\ UNCHANGED <<pc, cur>>
        /\ \A k \in Items \ {i} : lock'[k] = lock[k] /\ job'[k] = job[k]
    BY <1>1, <1>11 DEF JobStalls, Stall, localVars, QueueType
  <2>2. stalls'[i] # 0 /\ \A k \in Items \ {i} : stalls'[k] = stalls[k]
    BY <1>1, <2>1, BoundsAssumption DEF QueueType
  <2>3. ASSUME NEW v \in Workers, pc'[v] # "idle", stalls'[cur'[v]] = 0
        PROVE  job'[cur'[v]] = "active" /\ lock'[cur'[v]] = v
    <3>1. pc[v] # "idle" /\ cur'[v] = cur[v] /\ cur[v] \in Items
      BY <1>1, <2>1, <2>3
    <3>2. cur[v] # i
      BY <2>2, <2>3, <3>1
    <3> QED BY <2>1, <2>2, <2>3, <3>1, <3>2 DEF Serialized
  <2> QED BY <2>3 DEF Serialized
<1> QED BY <1>3, <1>4, <1>5, <1>6, <1>7, <1>8, <1>9, <1>10, <1>11 DEF Next, WorkerStep, HandlerStep

\* While one process at a time works on an item, it is the only one there.
LEMMA OneAtWork ==
  ASSUME Serialized, NEW v \in Workers, NEW w \in Workers,
         pc[v] # "idle", pc[w] # "idle", cur[v] = cur[w], OneHandler(cur[w])
  PROVE  v = w
  BY DEF Serialized, OneHandler

LEMMA NextUnfinished == IInv /\ Serialized /\ Unfinished /\ [Next]_vars => Unfinished'
<1> SUFFICES ASSUME IInv, Serialized, Unfinished, [Next]_vars PROVE Unfinished'
  OBVIOUS
<1>1. HandlerType /\ QueueType /\ status \in [Items -> ItemStatus]
  BY DEF IInv, TypeOK, RowsType
<1>2. ASSUME status' = status, pc' = pc, cur' = cur, stalls' = stalls PROVE Unfinished'
  BY <1>2 DEF Unfinished, OneHandler
<1>3. ASSUME NEW w \in Workers, pc'[w] \in {"idle", "find", "refresh", "write", "end"},
             status' = status, stalls' = stalls,
             \A v \in Workers \ {w} : pc'[v] = pc[v] /\ cur'[v] = cur[v]
      PROVE  Unfinished'
  BY <1>3 DEF Unfinished, OneHandler
<1>4. CASE UNCHANGED vars
  BY <1>2, <1>4 DEF vars, dbVars, queueVars, localVars
<1>5. CASE CreateBatch \/ Enqueue \/ EnqueueFails \/ DeleteBatch
  BY <1>2, <1>5 DEF CreateBatch, Enqueue, EnqueueFails, DeleteBatch, dbVars, queueVars, localVars
<1>6. ASSUME NEW w \in Workers, NEW i \in Items, TakeJob(w, i) PROVE Unfinished'
  BY <1>1, <1>3, <1>6 DEF TakeJob, Goto, HandlerType, dbVars
<1>7. ASSUME NEW w \in Workers, HandlerStep(w) PROVE Unfinished'
  <2>1. /\ cur[w] \in Items /\ cur' = cur /\ stalls' = stalls /\ pc[w] # "idle"
        /\ \A v \in Workers \ {w} : pc'[v] = pc[v]
    BY <1>1, <1>7, HandlerFrame DEF IInv, HandlerShape, Goto, queueVars, HandlerType
  <2>2. \A k \in Items \ {cur[w]} : status'[k] = status[k]
    <3>1. status' = status \/ \E s : status' = [status EXCEPT ![cur[w]] = s]
      BY <1>7 DEF HandlerStep, FindItem, MarkBatchRunning, MarkItemRunning, ResolveSync, LinkSync,
             Import, ReplaceTracks, CompleteItem, FailItem, RefreshRead, RefreshWrite, SetStatus,
             dbVars
    <3> QED BY <1>1, <3>1
  <2>3. ASSUME \/ pc'[w] \in {"refresh", "write", "end"}
               \/ OneHandler(cur[w]) => status'[cur[w]] # "completed"
        PROVE  Unfinished'
    <3> SUFFICES ASSUME NEW v \in Workers, OneHandler(cur[v]),
                        pc'[v] \in {"markBatch", "markItem", "resolve", "link", "import", "tracks",
                                    "complete", "fail"}
                 PROVE  status'[cur[v]] # "completed"
      BY <2>1 DEF Unfinished, OneHandler
    <3>1. CASE v = w
      BY <2>3, <3>1
    <3>2. CASE v # w
      <4>1. pc[v] \in {"markBatch", "markItem", "resolve", "link", "import", "tracks",
                       "complete", "fail"}
        BY <2>1, <3>2
      <4>2. status[cur[v]] # "completed"
        BY <4>1 DEF Unfinished
      <4>3. cur[v] # cur[w]
        BY <2>1, <3>2, <4>1, OneAtWork
      <4>4. cur[v] \in Items
        BY <4>1 DEF IInv, HandlerShape
      <4> QED BY <2>2, <4>2, <4>3, <4>4
    <3> QED BY <3>1, <3>2
  <2> USE <1>1, <2>1 DEF Goto, SetStatus, HandlerType
  <2>4. pc[w] \in {"markBatch", "markItem", "resolve", "link", "import", "tracks",
                   "complete", "fail"} /\ OneHandler(cur[w]) => status[cur[w]] # "completed"
    BY DEF Unfinished
  <2>5. CASE FindItem(w)
    <3>1. CASE Finished(cur[w])
      BY <2>3, <2>5, <3>1 DEF FindItem
    <3>2. CASE ~Finished(cur[w])
      BY <2>3, <2>5, <3>2 DEF FindItem, Finished, dbVars
    <3> QED BY <3>1, <3>2
  <2>6. CASE MarkBatchRunning(w)  BY <2>3, <2>4, <2>6 DEF MarkBatchRunning
  <2>7. CASE MarkItemRunning(w)   BY <2>3, <2>4, <2>7 DEF MarkItemRunning
  <2>8. CASE ResolveSync(w)       BY <2>3, <2>4, <2>8 DEF ResolveSync
  <2>9. CASE LinkSync(w)          BY <2>3, <2>4, <2>9 DEF LinkSync
  <2>10. CASE Import(w)           BY <2>3, <2>4, <2>10 DEF Import, dbVars
  <2>11. CASE ReplaceTracks(w)    BY <2>3, <2>4, <2>11 DEF ReplaceTracks
  <2>12. CASE CompleteItem(w)     BY <2>3, <2>12 DEF CompleteItem
  <2>13. CASE FailItem(w)         BY <2>3, <2>13 DEF FailItem
  <2>14. CASE RefreshRead(w)      BY <2>3, <2>14 DEF RefreshRead
  <2>15. CASE RefreshWrite(w)     BY <2>3, <2>15 DEF RefreshWrite
  <2> QED BY <1>7, <2>5, <2>6, <2>7, <2>8, <2>9, <2>10, <2>11, <2>12, <2>13, <2>14, <2>15
             DEF HandlerStep
<1>8. ASSUME NEW w \in Workers, EndJob(w) \/ Crash(w) PROVE Unfinished'
  BY <1>1, <1>3, <1>8 DEF EndJob, Crash, Forget, Goto, HandlerType, dbVars, queueVars
<1>9. ASSUME NEW w \in Workers, DatabaseFails(w) PROVE Unfinished'
  <2>1. /\ status' = status /\ cur' = cur /\ stalls' = stalls
        /\ \A v \in Workers \ {w} : pc'[v] = pc[v]
    BY <1>1, <1>9 DEF DatabaseFails, dbVars, queueVars, Goto, HandlerType
  <2>2. \/ pc'[w] = "end"
        \/ pc'[w] = "fail" /\ pc[w] \in {"resolve", "link", "tracks", "complete"}
    BY <1>1, <1>9 DEF DatabaseFails, Goto, HandlerType
  <2>3. CASE pc'[w] = "fail" /\ pc[w] \in {"resolve", "link", "tracks", "complete"}
    BY <1>1, <2>1, <2>3 DEF Unfinished, OneHandler
  <2> QED BY <1>3, <2>1, <2>2, <2>3
<1>10. ASSUME NEW i \in Items, BackoffElapsed(i) PROVE Unfinished'
  BY <1>2, <1>10 DEF BackoffElapsed, dbVars, localVars
<1>11. ASSUME NEW i \in Items, JobStalls(i) PROVE Unfinished'
  <2>1. /\ UNCHANGED <<status, pc, cur>>
        /\ stalls' = [stalls EXCEPT ![i] = @ + 1]
    BY <1>11 DEF JobStalls, Stall, dbVars, localVars
  <2>2. \A k \in Items : stalls'[k] = 0 => stalls[k] = 0
    BY <1>1, <2>1, BoundsAssumption DEF QueueType
  <2>3. \A w \in Workers : pc[w] # "idle" => cur[w] \in Items
    BY DEF IInv, HandlerShape
  <2> QED BY <2>1, <2>2, <2>3 DEF Unfinished, OneHandler
<1> QED BY <1>4, <1>5, <1>6, <1>7, <1>8, <1>9, <1>10, <1>11 DEF Next, WorkerStep, HandlerStep

\* The items are written by the handler only, and there only at its own item.
LEMMA StatusWrites ==
  ASSUME IInv, [Next]_vars, NEW i \in Items, status'[i] # status[i]
  PROVE  \E w \in Workers : /\ HandlerStep(w) /\ cur[w] = i
                            /\ pc[w] \in {"markItem", "link", "complete", "fail"}
<1>1. status \in [Items -> ItemStatus]
  BY DEF IInv, TypeOK, RowsType
<1>2. ~UNCHANGED vars
  BY DEF vars, dbVars
<1>3. ~(CreateBatch \/ Enqueue \/ EnqueueFails \/ DeleteBatch)
  BY DEF CreateBatch, Enqueue, EnqueueFails, DeleteBatch, dbVars
<1>4. ASSUME NEW w \in Workers, NEW k \in Items PROVE ~TakeJob(w, k)
  BY DEF TakeJob, dbVars
<1>5. ASSUME NEW w \in Workers PROVE ~EndJob(w) /\ ~Crash(w) /\ ~DatabaseFails(w)
  BY DEF EndJob, Crash, DatabaseFails, dbVars
<1>6. ASSUME NEW k \in Items PROVE ~BackoffElapsed(k) /\ ~JobStalls(k)
  BY DEF BackoffElapsed, JobStalls, Stall, dbVars
<1>7. PICK w \in Workers : HandlerStep(w)
  BY <1>2, <1>3, <1>4, <1>5, <1>6 DEF Next, WorkerStep, HandlerStep
<1>8. cur[w] \in Items
  BY <1>7, HandlerFrame DEF IInv, HandlerShape
<1>9. ~FindItem(w) /\ ~Import(w) /\ ~RefreshRead(w)
  BY DEF FindItem, Import, RefreshRead, dbVars
<1>10. ~MarkBatchRunning(w) /\ ~ResolveSync(w) /\ ~ReplaceTracks(w) /\ ~RefreshWrite(w)
  BY DEF MarkBatchRunning, ResolveSync, ReplaceTracks, RefreshWrite
<1>11. CASE MarkItemRunning(w)
  BY <1>1, <1>7, <1>8, <1>11 DEF MarkItemRunning, SetStatus
<1>12. CASE LinkSync(w)
  BY <1>1, <1>7, <1>8, <1>12 DEF LinkSync, SetStatus
<1>13. CASE CompleteItem(w)
  BY <1>1, <1>7, <1>8, <1>13 DEF CompleteItem, SetStatus
<1>14. CASE FailItem(w)
  BY <1>1, <1>7, <1>8, <1>14 DEF FailItem, SetStatus
<1> QED BY <1>7, <1>9, <1>10, <1>11, <1>12, <1>13, <1>14 DEF HandlerStep

\* However many processes share the queue, and under all faults, no run of the
\* job of a completed item takes it back, unless the job was taken from a
\* process as stalled and another one has it: with one process, never.
THEOREM CompletedItemsStay == Spec => CompletedStays
<1>1. IInv /\ Unfinished /\ [Next]_vars =>
        [\A i \in Items : status[i] = "completed" /\ OneHandler(i) =>
           status'[i] = "completed" \/ batchRow' # "stored"]_vars
  <2> SUFFICES ASSUME IInv, Unfinished, [Next]_vars, NEW i \in Items, OneHandler(i),
                      status[i] = "completed", status'[i] # "completed"
               PROVE  FALSE
    OBVIOUS
  <2> QED BY StatusWrites DEF Unfinished
<1> QED BY InitIInv, NextIInv, InitUnfinished, NextSerialized, NextUnfinished, <1>1, PTL
           DEF Spec, CompletedStays

-----------------------------------------------------------------------------
\* What the batch row says while only providers fail: what the items say, except
\* while the process is between starting an item and writing its summary; then
\* the batch is open.
Rests ==
  /\ route = "idle" => batchStatus = "queued" /\ completedAt = "null"
  /\ Stored => \A w \in Workers :
       /\ pc[w] \in {"idle", "find", "markBatch", "end"} =>
            batchStatus = Summary(status) /\ (Closed <=> Settled(status))
       /\ pc[w] \notin {"idle", "find", "markBatch", "end"} => ~Closed
       /\ pc[w] = "write" => seen[w] = status

LInv == Calm => Rests

LEMMA InitLone == Init => LInv
  BY DEF Init, LInv, Rests, Stored

\* A new batch is queued, and open.
LEMMA QueuedSummary ==
  ASSUME \A i \in Items : status[i] = "queued"
  PROVE  Summary(status) = "queued" /\ ~Settled(status)
<1>1. 1 \in Items
  BY NAssumption DEF Items
<1> QED BY <1>1 DEF Summary, Settled

\* The calls of the handler of a lone process.
LEMMA RestsHandler ==
  ASSUME IInv, Held, Agrees, Rests, Stored, \A v, w \in Workers : v = w,
         NEW w \in Workers, HandlerStep(w)
  PROVE  Rests'
<1>1. /\ pc \in [Workers -> Labels] /\ seen \in [Workers -> [Items -> ItemStatus]]
      /\ cur[w] \in Items /\ pc[w] # "idle" /\ routeVars' = routeVars
  BY HandlerFrame, Alone DEF IInv, TypeOK, HandlerType
<1>2. status[cur[w]] = RunningStatus(w)
  BY <1>1 DEF Agrees
<1>3. Stored' /\ route # "idle" /\ route' # "idle"
  <2>1. batchRow' = batchRow
    BY HandlerStatus
  <2>2. route # "idle"
    BY <1>1, Alone DEF IInv, QueueShape, TypeOK, RequestType, Items
  <2> QED BY <1>1, <2>1, <2>2 DEF Stored, routeVars
<1>4. /\ pc[w] \in {"find", "markBatch", "end"} =>
           batchStatus = Summary(status) /\ (Closed <=> Settled(status))
      /\ pc[w] \notin {"find", "markBatch", "end"} => ~Closed
      /\ pc[w] = "write" => seen[w] = status
  BY <1>1 DEF Rests
<1>5. ASSUME pc'[w] \in {"find", "markBatch", "end"} =>
               batchStatus' = Summary(status') /\ (Closed' <=> Settled(status')),
             pc'[w] \notin {"find", "markBatch", "end"} => ~Closed',
             pc'[w] = "write" => seen'[w] = status',
             pc'[w] # "idle"
      PROVE  Rests'
  BY <1>3, <1>5 DEF Rests
<1>6. ASSUME completedAt' = completedAt, ~Closed,
             pc'[w] \notin {"idle", "find", "markBatch", "write", "end"}
      PROVE  Rests'
  BY <1>5, <1>6 DEF Closed
<1> USE DEF Goto
<1>7. CASE FindItem(w)
  <2>1. ~Finished(cur[w])
    BY <1>2, <1>7 DEF FindItem, Finished, RunningStatus
  <2> QED BY <1>1, <1>4, <1>5, <1>7, <2>1 DEF FindItem, dbVars, Closed
<1>8. CASE MarkBatchRunning(w)
  <2>1. ~Closed
    BY <1>1, <1>2, <1>4, <1>8 DEF MarkBatchRunning, RunningStatus, Settled
  <2> QED BY <1>1, <1>6, <1>8, <2>1 DEF MarkBatchRunning
<1>9. CASE MarkItemRunning(w)
  BY <1>1, <1>4, <1>6, <1>9 DEF MarkItemRunning
<1>10. CASE ResolveSync(w)
  BY <1>1, <1>4, <1>6, <1>10 DEF ResolveSync
<1>11. CASE LinkSync(w)
  BY <1>1, <1>4, <1>6, <1>11 DEF LinkSync
<1>12. CASE Import(w)
  BY <1>1, <1>4, <1>6, <1>12 DEF Import, dbVars
<1>13. CASE ReplaceTracks(w)
  BY <1>1, <1>4, <1>6, <1>13 DEF ReplaceTracks
<1>14. CASE CompleteItem(w)
  BY <1>1, <1>4, <1>6, <1>14 DEF CompleteItem
<1>15. CASE FailItem(w)
  BY <1>1, <1>4, <1>6, <1>15 DEF FailItem
<1>16. CASE RefreshRead(w)
  BY <1>1, <1>4, <1>5, <1>16 DEF RefreshRead, dbVars, Closed
<1>17. CASE RefreshWrite(w)
  BY <1>1, <1>4, <1>5, <1>17 DEF RefreshWrite, Closed, localVars
<1> QED BY <1>7, <1>8, <1>9, <1>10, <1>11, <1>12, <1>13, <1>14, <1>15, <1>16, <1>17
           DEF HandlerStep

LEMMA NextLone ==
  ASSUME Lone, IInv, CInv, LInv, [Next]_vars
  PROVE  LInv'
<1> SUFFICES ASSUME Calm' PROVE Rests'
  BY DEF LInv
<1>1. Rests /\ Held /\ Requested /\ Agrees
  BY CalmStep DEF CInv, LInv
<1>2. HandlerType /\ \A v, w \in Workers : v = w
  BY OnlyOne DEF IInv, TypeOK
<1>3. CASE UNCHANGED vars
  BY <1>1, <1>3 DEF Rests, Stored, Closed, vars, routeVars, dbVars, localVars
<1>4. CASE CreateBatch
  <2>1. \A i \in Items : job[i] = "none"
    BY <1>4 DEF CreateBatch, IInv, QueueShape, Items
  <2>2. \A w \in Workers : pc[w] = "idle"
    BY <1>1, <2>1, Alone
  <2>3. /\ pc' = pc /\ status' = status /\ \A i \in Items : status[i] = "queued"
        /\ batchStatus' = "queued" /\ completedAt' = "null" /\ route' # "idle"
    BY <1>1, <1>4 DEF CreateBatch, Requested, AllQueued, Rests
  <2>4. Summary(status') = "queued" /\ ~Settled(status')
    BY <2>3, QueuedSummary
  <2> QED BY <2>2, <2>3, <2>4 DEF Rests, Closed
<1>5. CASE DeleteBatch
  <2>1. ~Stored' /\ routeVars' = routeVars
    BY <1>5 DEF DeleteBatch, Stored
  <2> QED BY <1>1, <1>5, <2>1 DEF DeleteBatch, Rests, routeVars
<1>6. CASE Enqueue \/ EnqueueFails
  BY <1>1, <1>6 DEF Enqueue, EnqueueFails, Rests, Stored, Closed, dbVars, localVars
<1>7. ASSUME NEW i \in Items, BackoffElapsed(i) PROVE Rests'
  BY <1>1, <1>7 DEF BackoffElapsed, Rests, Stored, Closed, routeVars, dbVars, localVars
<1>8. ASSUME NEW w \in Workers, UNCHANGED routeVars, UNCHANGED dbVars,
             pc[w] \in {"idle", "end"}, pc'[w] \in {"idle", "find"}
      PROVE  Rests'
  BY <1>1, <1>2, <1>8 DEF Rests, Stored, Closed, routeVars, dbVars
<1>9. ASSUME NEW w \in Workers, NEW i \in Items, TakeJob(w, i) PROVE Rests'
  BY <1>2, <1>8, <1>9 DEF TakeJob, Goto, HandlerType
<1>10. ASSUME NEW w \in Workers, EndJob(w) PROVE Rests'
  BY <1>2, <1>8, <1>10 DEF EndJob, Forget, Goto, HandlerType
<1>11. ASSUME NEW w \in Workers, HandlerStep(w) PROVE Rests'
  <2>1. CASE Stored
    BY <1>1, <1>2, <1>11, <2>1, RestsHandler
  <2>2. CASE ~Stored
    <3>1. /\ batchRow' = batchRow /\ batchStatus' = batchStatus
          /\ completedAt' = completedAt
      BY <1>11, <2>2 DEF HandlerStep, FindItem, MarkBatchRunning, MarkItemRunning,
            ResolveSync, LinkSync, Import, ReplaceTracks, CompleteItem, FailItem,
            RefreshRead, RefreshWrite, dbVars
    <3>2. route' = route
      BY <1>11, HandlerFrame DEF routeVars
    <3> QED BY <1>1, <2>2, <3>1, <3>2 DEF Rests, Stored
  <2> QED BY <2>1, <2>2
<1> QED BY CalmStep, <1>3, <1>4, <1>5, <1>6, <1>7, <1>9, <1>10, <1>11

\* While nothing but providers fails, the batch of a lone process says what its
\* items say whenever the process is between two jobs.
THEOREM LoneRestingBatch == Lone => (Spec => []RestingBatchIsSummary)
<1> SUFFICES ASSUME Lone PROVE Spec => []RestingBatchIsSummary
  OBVIOUS
<1>1. IInv /\ CInv /\ LInv /\ [Next]_vars => LInv'
  BY NextLone
<1>2. LInv => RestingBatchIsSummary
  <2>1. Workers # {}
    BY DEF Lone
  <2> QED BY <2>1 DEF LInv, Rests, RestingBatchIsSummary
<1> QED BY InitIInv, NextIInv, CalmInvariant, InitLone, <1>1, <1>2, PTL DEF Spec

-----------------------------------------------------------------------------
\* A step that the client does not see.
LEMMA Unseen ==
  ASSUME route' = "idle" <=> route = "idle", batchRow' = batchRow,
         completedAt' = completedAt, Closed => batchStatus' = batchStatus,
         \A i \in Items : \/ status'[i] = status[i]
                          \/ /\ status[i] \notin {"completed", "failed"}
                             /\ status'[i] \notin {"completed", "failed"}
  PROVE  UNCHANGED Promise!vars
<1>1. Closed' <=> Closed
  BY DEF Closed
<1>2. Stored' <=> Stored
  BY DEF Stored
<1> QED BY <1>1, <1>2 DEF Promise!vars

\* An open batch.
Open == route # "idle" /\ Stored /\ ~Closed

\* The client sees an item settle.
LEMMA SettleSeen ==
  ASSUME Open, Open', NEW i \in Items, status[i] \notin {"completed", "failed"},
         NEW s \in {"completed", "failed"}, status \in [Items -> ItemStatus],
         status' = [status EXCEPT ![i] = s]
  PROVE  Promise!Settle(i, s)
  BY DEF Open, Promise!Settle

\* The client sees the batch close, with the verdict of its outcomes.
LEMMA VerdictSeen ==
  ASSUME Settled(status)
  PROVE  Promise!Verdict = Summary(status)
<1> DEFINE failures == {i \in Items : status[i] = "failed"}
<1>1. \A i \in Items : status[i] \in {"completed", "failed"}
  BY DEF Settled
<1>2. Promise!Verdict = IF failures = {} THEN "completed"
                        ELSE IF failures = Items THEN "failed" ELSE "partial"
  <2>1. \A i \in Items :
          [k \in Items |-> IF status[k] \in {"completed", "failed"}
                           THEN status[k] ELSE "pending"][i] = status[i]
    BY <1>1
  <2> QED BY <2>1 DEF Promise!Verdict, Promise!Items, Items
<1>3. failures = {} <=> ~\E i \in Items : status[i] = "failed"
  OBVIOUS
<1>4. failures = Items <=> \A i \in Items : status[i] = "failed"
  OBVIOUS
<1>5. 1 \in Items
  BY NAssumption DEF Items
<1> HIDE DEF failures
<1> QED BY <1>2, <1>3, <1>4, <1>5 DEF Summary

LEMMA CloseSeen ==
  ASSUME Open, Settled(status), route' = route, batchRow' = batchRow,
         status' = status, completedAt' = "set", batchStatus' = Summary(status)
  PROVE  Promise!Close
<1>1. Promise!Verdict = Summary(status)
  BY VerdictSeen
<1>2. Closed' /\ Stored' /\ route' # "idle"
  BY DEF Open, Closed, Stored
<1>3. \A i \in Items : status[i] \in {"completed", "failed"}
  BY DEF Settled
<1> QED BY <1>1, <1>2, <1>3 DEF Open, Promise!Close, Promise!Items, Items

\* What the client sees of the handler's calls.
LEMMA HandlerSeen ==
  ASSUME Lone, IInv, Held, Agrees, Rests, NEW w \in Workers, HandlerStep(w)
  PROVE  [Promise!Next]_(Promise!vars)
<1>1. /\ cur[w] \in Items /\ pc[w] # "idle" /\ status \in [Items -> ItemStatus]
      /\ completedAt \in {"null", "set"} /\ pc \in [Workers -> Labels]
      /\ \A v \in Workers : v = w
  BY HandlerFrame, Alone, OnlyOne DEF IInv, TypeOK, RowsType, HandlerType
<1>2. route' = route /\ route # "idle"
  BY <1>1, HandlerFrame, Alone DEF IInv, QueueShape, TypeOK, RequestType, Items, routeVars
<1>3. batchRow' = batchRow
  BY DEF HandlerStep, FindItem, MarkBatchRunning, MarkItemRunning, ResolveSync,
         LinkSync, Import, ReplaceTracks, CompleteItem, FailItem, RefreshRead,
         RefreshWrite, dbVars
<1>4. ASSUME completedAt' = completedAt, Closed => batchStatus' = batchStatus,
             status' = status
      PROVE  UNCHANGED Promise!vars
  BY <1>2, <1>3, <1>4, Unseen
<1>5. CASE ~Stored
  <2>1. UNCHANGED <<batchStatus, completedAt, status>>
    BY <1>5 DEF HandlerStep, FindItem, MarkBatchRunning, MarkItemRunning, ResolveSync,
         LinkSync, Import, ReplaceTracks, CompleteItem, FailItem, RefreshRead,
         RefreshWrite, SetStatus, dbVars
  <2> QED BY <1>4, <2>1
<1>6. CASE Stored
  <2>1. status[cur[w]] = RunningStatus(w)
    BY <1>1, <1>6 DEF Agrees
  <2>2. pc[w] \notin {"find", "markBatch", "end"} => Open
    BY <1>1, <1>2, <1>6 DEF Rests, Open
  <2>3. ASSUME UNCHANGED <<completedAt, batchStatus>>,
               NEW s \in {"queued", "running"}, status' = [status EXCEPT ![cur[w]] = s],
               status[cur[w]] \in {"queued", "running"}
        PROVE  UNCHANGED Promise!vars
    BY <1>1, <1>2, <1>3, <2>3, Unseen
  <2>4. ASSUME UNCHANGED completedAt, Open,
               NEW s \in {"completed", "failed"}, status' = [status EXCEPT ![cur[w]] = s],
               status[cur[w]] \in {"queued", "running"}
        PROVE  Promise!Next
    <3>1. Open'
      BY <1>2, <1>3, <2>4 DEF Open, Stored, Closed
    <3>2. Promise!Settle(cur[w], s)
      BY <1>1, <2>4, <3>1, SettleSeen
    <3> QED BY <1>1, <3>2 DEF Promise!Next, Promise!Items, Items
  <2>5. CASE FindItem(w) \/ ResolveSync(w) \/ Import(w) \/ ReplaceTracks(w) \/ RefreshRead(w)
    <3>1. UNCHANGED <<completedAt, batchStatus, status>>
      BY <2>5 DEF FindItem, ResolveSync, Import, ReplaceTracks, RefreshRead, dbVars
    <3> QED BY <1>4, <3>1
  <2>6. CASE MarkBatchRunning(w)
    <3>1. ~Closed
      BY <1>1, <1>6, <2>1, <2>6 DEF MarkBatchRunning, RunningStatus, Rests, Settled
    <3> QED BY <1>4, <2>6, <3>1 DEF MarkBatchRunning
  <2>7. CASE MarkItemRunning(w)
    BY <1>6, <2>1, <2>3, <2>7 DEF MarkItemRunning, SetStatus, RunningStatus
  <2>8. CASE LinkSync(w)
    BY <1>6, <2>1, <2>3, <2>8 DEF LinkSync, SetStatus, RunningStatus
  <2>9. CASE CompleteItem(w)
    BY <1>6, <2>1, <2>2, <2>4, <2>9 DEF CompleteItem, SetStatus, RunningStatus
  <2>10. CASE FailItem(w)
    <3>1. /\ UNCHANGED <<completedAt, batchStatus>> /\ Open
          /\ status[cur[w]] = "running"
      BY <2>1, <2>2, <2>10 DEF FailItem, RunningStatus
    <3>2. CASE LastAttempt(w)
      BY <1>6, <2>4, <2>10, <3>1, <3>2 DEF FailItem, SetStatus
    <3>3. CASE ~LastAttempt(w)
      BY <1>6, <2>3, <2>10, <3>1, <3>3 DEF FailItem, SetStatus
    <3> QED BY <3>2, <3>3
  <2>11. CASE RefreshWrite(w)
    <3>1. /\ Open /\ seen[w] = status /\ status' = status
          /\ batchStatus' = Summary(status)
          /\ completedAt' = IF Settled(status) THEN "set" ELSE "null"
      BY <1>6, <2>2, <2>11 DEF RefreshWrite, Rests
    <3>2. CASE Settled(status)
      BY <1>2, <1>3, <3>1, <3>2, CloseSeen DEF Promise!Next
    <3>3. CASE ~Settled(status)
      BY <1>1, <1>4, <3>1, <3>3 DEF Open, Closed
    <3> QED BY <3>2, <3>3
  <2> QED BY <2>5, <2>6, <2>7, <2>8, <2>9, <2>10, <2>11 DEF HandlerStep
<1> QED BY <1>5, <1>6

\* What the client sees of any calm step.
LEMMA StepSeen ==
  ASSUME Lone, IInv, CInv, LInv, [Next]_vars, Calm'
  PROVE  [Promise!Next]_(Promise!vars)
<1>1. Held /\ Requested /\ Agrees /\ Rests
  BY CalmStep DEF CInv, LInv
<1>2. ASSUME UNCHANGED dbVars, route' = "idle" <=> route = "idle"
      PROVE  UNCHANGED Promise!vars
  BY <1>2, Unseen DEF dbVars
<1>3. CASE UNCHANGED vars
  BY <1>2, <1>3 DEF vars, routeVars
<1>4. CASE CreateBatch
  <2>1. /\ route = "idle" /\ route' # "idle" /\ Stored'
        /\ ~Closed /\ ~Closed' /\ status' = status
    BY <1>1, <1>4 DEF CreateBatch, Stored, Closed, Rests
  <2>2. Promise!Submit
    BY <2>1 DEF Promise!Submit
  <2> QED BY <2>2 DEF Promise!Next
<1>5. CASE DeleteBatch
  <2>1. /\ route # "idle" /\ route' = route /\ Stored /\ ~Stored'
        /\ Closed' = Closed /\ UNCHANGED <<status, batchStatus>>
    BY <1>1, <1>5 DEF DeleteBatch, Stored, Closed, Requested, routeVars
  <2>2. Promise!Delete
    BY <2>1 DEF Promise!Delete
  <2> QED BY <2>2 DEF Promise!Next
<1>6. CASE Enqueue \/ EnqueueFails
  BY <1>2, <1>6 DEF Enqueue, EnqueueFails
<1>7. ASSUME NEW w \in Workers, NEW i \in Items, TakeJob(w, i)
      PROVE  UNCHANGED Promise!vars
  BY <1>2, <1>7 DEF TakeJob, routeVars
<1>8. ASSUME NEW w \in Workers, EndJob(w) PROVE UNCHANGED Promise!vars
  BY <1>2, <1>8 DEF EndJob, routeVars
<1>9. ASSUME NEW i \in Items, BackoffElapsed(i) PROVE UNCHANGED Promise!vars
  BY <1>2, <1>9 DEF BackoffElapsed, routeVars
<1>10. ASSUME NEW w \in Workers, HandlerStep(w) PROVE [Promise!Next]_(Promise!vars)
  BY <1>1, <1>10, HandlerSeen
<1> QED BY CalmStep, <1>3, <1>4, <1>5, <1>6, <1>7, <1>8, <1>9, <1>10

\* A transfer run by one process implements what the client is promised, while
\* nothing but providers fails: items settle once and for good, and the batch
\* closes once, after the last of them, with the right verdict.
THEOREM LoneKeepsPromise == Lone /\ MaxFaults = 0 => (Spec => KeepsPromise)
<1> SUFFICES ASSUME Lone, MaxFaults = 0 PROVE Spec => KeepsPromise
  OBVIOUS
<1>1. Init => Promise!Init
  BY DEF Init, Promise!Init, Promise!Items, Items, AllQueued, Closed
<1>2. IInv => Calm
  BY DEF IInv, TypeOK, Calm
<1>3. IInv /\ IInv' /\ CInv /\ LInv /\ [Next]_vars => [Promise!Next]_(Promise!vars)
  BY <1>2, StepSeen DEF IInv, TypeOK, Calm
<1>4. IInv /\ CInv /\ LInv /\ [Next]_vars => LInv'
  BY NextLone
<1> QED
  BY InitIInv, NextIInv, CalmInvariant, InitLone, <1>1, <1>3, <1>4, PTL
     DEF Spec, KeepsPromise, Promise!Spec
=============================================================================
