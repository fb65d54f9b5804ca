----------------------------- MODULE Transfers -----------------------------
(***************************************************************************)
(* A library transfer: the route that stores a batch and queues one job    *)
(* per playlist, the BullMQ queue, and the worker loop inside each API     *)
(* process that takes a job, imports the playlist and settles its item.    *)
(*                                                                         *)
(* One batch is modelled: batches share no row and no job id.  Every       *)
(* awaited database call of the job handler is an action of its own, so    *)
(* processes interleave between any two of them.  importSyncForRecipient   *)
(* is one step here, which returns or throws; ImportEngine opens it up.    *)
(***************************************************************************)
EXTENDS Naturals

CONSTANTS
  N,             \* playlists in the batch; an item is named by its position
  Workers,       \* API processes, each running one job at a time
  NoWorker,      \* nobody holds the lock of a job
  MaxAttempts,   \* TRANSFER_JOB_OPTIONS.attempts
  MaxStalls,     \* BullMQ's maxStalledCount
  MaxFaults      \* bound on crashes, stalls and failed database calls

ASSUME NAssumption       == N \in Nat \ {0}
ASSUME WorkersAssumption == NoWorker \notin Workers
ASSUME BoundsAssumption  == /\ MaxAttempts \in Nat \ {0}
                            /\ MaxStalls \in Nat
                            /\ MaxFaults \in Nat

Items       == 1..N
ItemStatus  == {"queued", "running", "completed", "failed"}
BatchStatus == {"queued", "running", "completed", "partial", "failed"}
JobStates   == {"none", "waiting", "active", "delayed", "done", "failed"}

VARIABLES
  route,        \* the POST /transfers request and what it answered
  nextPos,      \* the next item the request enqueues
  batchRow,     \* whether the batch and its items are stored
  batchStatus,  \* transfer_batches.status
  completedAt,  \* transfer_batches.completed_at
  status,       \* transfer_items.status
  itemSync,     \* transfer_items.sync_id; 0 is null
  detailed,     \* the items with transfer_item_tracks rows
  syncs,        \* syncs created for an item so far, numbered from 1
  job,          \* state of the item's BullMQ job
  attempts,     \* job.attemptsMade
  lock,         \* the process that holds the job's lock
  stalls,       \* how often the job was found stalled
  pc,           \* where a process is in runTransferPlaylistJob
  cur,          \* the item its job is for; 0 when idle
  snap,         \* item.syncId as findItem returned it
  using,        \* the sync it imports
  att,          \* job.attemptsMade when the job was taken
  throwing,     \* the processes whose handler ends by throwing
  seen,         \* the item statuses refreshBatchStatus has read
  faults        \* faults so far

dbVars     == <<batchRow, batchStatus, completedAt, status, itemSync, detailed, syncs>>
queueVars  == <<job, attempts, lock, stalls>>
routeVars  == <<route, nextPos>>
localVars  == <<cur, snap, using, att, throwing, seen>>
vars       == <<routeVars, dbVars, queueVars, pc, localVars, faults>>

-----------------------------------------------------------------------------
\* The batch's rows are there; they go when its user is deleted.
Stored == batchRow = "stored"

\* The status refreshBatchStatus gives a batch whose items have statuses st.
SettledUnlessQueuedAgain(st) == \A i \in Items : st[i] # "running"  \* mutant
SettledIfCompleted(st) == \A i \in Items : st[i] = "completed"      \* mutant
Settled(st) == \A i \in Items : st[i] \in {"completed", "failed"}

Summary(st) ==
  IF ~Settled(st)
  THEN IF \E i \in Items : st[i] # "queued" THEN "running" ELSE "queued"
  ELSE IF \A i \in Items : st[i] = "failed" THEN "failed"
  ELSE IF \E i \in Items : st[i] = "failed" THEN "partial"
  ELSE "completed"

AllQueued == [i \in Items |-> "queued"]

Init ==
  /\ route = "idle" /\ nextPos = 1
  /\ batchRow = "absent"
  /\ batchStatus = "queued" /\ completedAt = "null"
  /\ status = AllQueued
  /\ itemSync = [i \in Items |-> 0]
  /\ detailed = {}
  /\ syncs = [i \in Items |-> 0]
  /\ job = [i \in Items |-> "none"]
  /\ attempts = [i \in Items |-> 0]
  /\ lock = [i \in Items |-> NoWorker]
  /\ stalls = [i \in Items |-> 0]
  /\ pc = [w \in Workers |-> "idle"]
  /\ cur = [w \in Workers |-> 0]
  /\ snap = [w \in Workers |-> 0]
  /\ using = [w \in Workers |-> 0]
  /\ att = [w \in Workers |-> 0]
  /\ throwing = {}
  /\ seen = [w \in Workers |-> AllQueued]
  /\ faults = 0

-----------------------------------------------------------------------------
(***************************************************************************)
(* POST /transfers                                                         *)
(***************************************************************************)

\* createBatch: the batch and all its items, in one nested create.
CreateBatch ==
  /\ route = "idle"
  /\ route' = "enqueuing"
  /\ batchRow' = "stored"
  /\ UNCHANGED <<nextPos, batchStatus, completedAt, status, itemSync, detailed, syncs>>
  /\ UNCHANGED <<queueVars, pc, localVars, faults>>

AddJob(i) == job' = [job EXCEPT ![i] = "waiting"]

\* One turn of the enqueue loop; the answer is sent after the last item.
Enqueue ==
  /\ route = "enqueuing"
  /\ AddJob(nextPos)
  /\ nextPos' = nextPos + 1
  /\ route' = IF nextPos = N THEN "accepted" ELSE "enqueuing"
  /\ UNCHANGED <<attempts, lock, stalls, dbVars, pc, localVars, faults>>

\* The queue refuses an item, or took it and the answer was lost, or the process
\* dies here: what is stored and queued so far stays.
EnqueueFails ==
  /\ route = "enqueuing"
  /\ route' = "refused"
  /\ AddJob(nextPos) \/ UNCHANGED job
  /\ UNCHANGED <<nextPos, attempts, lock, stalls, dbVars, pc, localVars, faults>>

\* The user, and with the user the batch and its syncs, is deleted.
DeleteBatch ==
  /\ Stored
  /\ batchRow' = "deleted"
  /\ UNCHANGED <<batchStatus, completedAt, status, itemSync, detailed, syncs>>
  /\ UNCHANGED <<routeVars, queueVars, pc, localVars, faults>>

-----------------------------------------------------------------------------
(***************************************************************************)
(* The worker: runTransferPlaylistJob, one action per awaited call.        *)
(***************************************************************************)
Goto(w, label) == pc' = [pc EXCEPT ![w] = label]

\* updateMany on the item: nothing happens once the item is gone.
SetStatus(i, s) ==
  status' = IF Stored THEN [status EXCEPT ![i] = s] ELSE status

\* An idle process takes a waiting job and its lock.
TakeJob(w, i) ==
  /\ pc[w] = "idle" /\ job[i] = "waiting"
  /\ job' = [job EXCEPT ![i] = "active"]
  /\ lock' = [lock EXCEPT ![i] = w]
  /\ cur' = [cur EXCEPT ![w] = i]
  /\ att' = [att EXCEPT ![w] = attempts[i]]
  /\ Goto(w, "find")
  /\ UNCHANGED <<attempts, stalls, routeVars, dbVars>>
  /\ UNCHANGED <<snap, using, throwing, seen, faults>>

FinishedIfGone(i) == ~Stored  \* mutant
Finished(i) == ~Stored \/ status[i] = "completed"

\* findItem: a deleted or completed item ends the job; otherwise the handler
\* keeps this copy of the item.
FindItem(w) ==
  /\ pc[w] = "find"
  /\ IF Finished(cur[w])
     THEN /\ Goto(w, "end")
          /\ UNCHANGED snap
     ELSE /\ Goto(w, "markBatch")
          /\ snap' = [snap EXCEPT ![w] = itemSync[cur[w]]]
  /\ UNCHANGED <<routeVars, dbVars, queueVars, cur, using, att, throwing, seen, faults>>

MarkBatchRunning(w) ==
  /\ pc[w] = "markBatch"
  /\ batchStatus' = IF Stored /\ batchStatus = "queued" THEN "running" ELSE batchStatus
  /\ Goto(w, "markItem")
  /\ UNCHANGED <<batchRow, completedAt, status, itemSync, detailed, syncs>>
  /\ UNCHANGED <<routeVars, queueVars, localVars, faults>>

MarkItemRunning(w) ==
  /\ pc[w] = "markItem"
  /\ SetStatus(cur[w], "running")
  /\ Goto(w, "resolve")
  /\ UNCHANGED <<batchRow, batchStatus, completedAt, itemSync, detailed, syncs>>
  /\ UNCHANGED <<routeVars, queueVars, localVars, faults>>

\* findSyncById on the copied id, else createSync; its user gone, both fail.
ResolveSync(w) ==
  /\ pc[w] = "resolve"
  /\ LET i == cur[w] IN
     \/ /\ ~Stored
        /\ Goto(w, "fail")
        /\ UNCHANGED <<using, syncs>>
     \/ /\ Stored /\ snap[w] # 0
        /\ using' = [using EXCEPT ![w] = snap[w]]
        /\ Goto(w, "import")
        /\ UNCHANGED syncs
     \/ /\ Stored /\ snap[w] = 0
        /\ syncs' = [syncs EXCEPT ![i] = @ + 1]
        /\ using' = [using EXCEPT ![w] = syncs[i] + 1]
        /\ Goto(w, "link")
  /\ UNCHANGED <<batchRow, batchStatus, completedAt, status, itemSync, detailed>>
  /\ UNCHANGED <<routeVars, queueVars, cur, snap, att, throwing, seen, faults>>

LinkSyncInMemory(w) ==  \* mutant
  /\ pc[w] = "link"
  /\ SetStatus(cur[w], "running")
  /\ Goto(w, "import")
  /\ UNCHANGED <<batchRow, batchStatus, completedAt, itemSync, detailed, syncs>>
  /\ UNCHANGED <<routeVars, queueVars, localVars, faults>>

\* updateItem with the new sync's id, before anything reaches the provider.
LinkSync(w) ==
  /\ pc[w] = "link"
  /\ SetStatus(cur[w], "running")
  /\ itemSync' = IF Stored THEN [itemSync EXCEPT ![cur[w]] = using[w]] ELSE itemSync
  /\ Goto(w, "import")
  /\ UNCHANGED <<batchRow, batchStatus, completedAt, detailed, syncs>>
  /\ UNCHANGED <<routeVars, queueVars, localVars, faults>>

ImportOnly(w) ==  \* mutant
  /\ pc[w] = "import"
  /\ (Stored /\ Goto(w, "complete")) \/ Goto(w, "fail")
  /\ UNCHANGED <<routeVars, dbVars, queueVars, localVars, faults>>

\* importSyncForRecipient returns, or throws whatever the providers answered;
\* without the user its last upsert always throws.
Import(w) ==
  /\ pc[w] = "import"
  /\ (Stored /\ Goto(w, "tracks")) \/ Goto(w, "fail")
  /\ UNCHANGED <<routeVars, dbVars, queueVars, localVars, faults>>

\* replaceItemTracks: one transaction; the rows need their item.
ReplaceTracks(w) ==
  /\ pc[w] = "tracks"
  /\ detailed' = IF Stored THEN detailed \cup {cur[w]} ELSE detailed
  /\ Goto(w, IF Stored THEN "complete" ELSE "fail")
  /\ UNCHANGED <<batchRow, batchStatus, completedAt, status, itemSync, syncs>>
  /\ UNCHANGED <<routeVars, queueVars, localVars, faults>>

CompleteItem(w) ==
  /\ pc[w] = "complete"
  /\ SetStatus(cur[w], "completed")
  /\ itemSync' = IF Stored THEN [itemSync EXCEPT ![cur[w]] = using[w]] ELSE itemSync
  /\ Goto(w, "refresh")
  /\ UNCHANGED <<batchRow, batchStatus, completedAt, detailed, syncs>>
  /\ UNCHANGED <<routeVars, queueVars, localVars, faults>>

LastAttemptOffByOne(w) == att[w] >= MaxAttempts  \* mutant
LastAttempt(w) == att[w] + 1 >= MaxAttempts

FailItemOnly(w) ==  \* mutant
  /\ pc[w] = "fail"
  /\ SetStatus(cur[w], IF LastAttempt(w) THEN "failed" ELSE "queued")
  /\ throwing' = throwing \cup {w}
  /\ Goto(w, "end")
  /\ UNCHANGED <<batchRow, batchStatus, completedAt, itemSync, detailed, syncs>>
  /\ UNCHANGED <<routeVars, queueVars, cur, snap, using, att, seen, faults>>

\* The catch block: out of attempts, the item has failed; otherwise it goes
\* back to queued.  The error is rethrown after the refresh.
FailItem(w) ==
  /\ pc[w] = "fail"
  /\ SetStatus(cur[w], IF LastAttempt(w) THEN "failed" ELSE "queued")
  /\ throwing' = throwing \cup {w}
  /\ Goto(w, "refresh")
  /\ UNCHANGED <<batchRow, batchStatus, completedAt, itemSync, detailed, syncs>>
  /\ UNCHANGED <<routeVars, queueVars, cur, snap, using, att, seen, faults>>

\* refreshBatchStatus, first await: read the items.
RefreshRead(w) ==
  /\ pc[w] = "refresh"
  /\ seen' = IF Stored THEN [seen EXCEPT ![w] = status] ELSE seen
  /\ Goto(w, IF Stored THEN "write" ELSE "end")
  /\ UNCHANGED <<routeVars, dbVars, queueVars, cur, snap, using, att, throwing, faults>>

\* Second await: write what the statuses read amount to.
RefreshWrite(w) ==
  /\ pc[w] = "write"
  /\ IF Stored
     THEN /\ batchStatus' = Summary(seen[w])
          /\ completedAt' = IF Settled(seen[w]) THEN "set" ELSE "null"
     ELSE UNCHANGED <<batchStatus, completedAt>>
  /\ Goto(w, "end")
  /\ UNCHANGED <<batchRow, status, itemSync, detailed, syncs>>
  /\ UNCHANGED <<routeVars, queueVars, localVars, faults>>

Forget(w) ==
  /\ Goto(w, "idle")
  /\ cur' = [cur EXCEPT ![w] = 0]
  /\ snap' = [snap EXCEPT ![w] = 0]
  /\ using' = [using EXCEPT ![w] = 0]
  /\ att' = [att EXCEPT ![w] = 0]
  /\ throwing' = throwing \ {w}
  /\ seen' = [seen EXCEPT ![w] = AllQueued]

AttemptsLeftOffByOne(tries) == tries <= MaxAttempts  \* mutant
AttemptsLeft(tries) == tries < MaxAttempts

\* BullMQ settles the job, if this process still holds its lock: a job that
\* returned is removed, one that threw is retried after a delay or kept failed.
EndJob(w) ==
  /\ pc[w] = "end"
  /\ LET i     == cur[w]
         tries == attempts[i] + 1
     IN  IF lock[i] # w THEN UNCHANGED <<job, attempts, lock>>
         ELSE /\ lock' = [lock EXCEPT ![i] = NoWorker]
              /\ IF w \in throwing
                 THEN /\ attempts' = [attempts EXCEPT ![i] = tries]
                      /\ job' = [job EXCEPT ![i] = IF AttemptsLeft(tries)
                                                       THEN "delayed" ELSE "failed"]
                 ELSE /\ job' = [job EXCEPT ![i] = "done"]
                      /\ UNCHANGED attempts
  /\ Forget(w)
  /\ UNCHANGED <<stalls, routeVars, dbVars, faults>>

\* The exponential backoff of a failed attempt elapses.
BackoffElapsed(i) ==
  /\ job[i] = "delayed"
  /\ job' = [job EXCEPT ![i] = "waiting"]
  /\ UNCHANGED <<attempts, lock, stalls, routeVars, dbVars, pc, localVars, faults>>

-----------------------------------------------------------------------------
(***************************************************************************)
(* Faults                                                                  *)
(***************************************************************************)
Fault == faults < MaxFaults /\ faults' = faults + 1

\* A process dies in its handler and is started again; nothing is recovered at
\* start.  Its job stays active until the lock expires.
Crash(w) ==
  /\ Fault
  /\ pc[w] # "idle"
  /\ Forget(w)
  /\ UNCHANGED <<routeVars, dbVars, queueVars>>

\* A database call rejects.  Inside the try block that is a failed attempt;
\* anywhere else the handler throws with the item as it is.
DatabaseFails(w) ==
  /\ Fault
  /\ \/ /\ pc[w] \in {"resolve", "link", "tracks", "complete"}
        /\ Goto(w, "fail")
        /\ UNCHANGED throwing
     \/ /\ pc[w] \in {"find", "markBatch", "markItem", "fail", "refresh", "write"}
        /\ throwing' = throwing \cup {w}
        /\ Goto(w, "end")
  /\ UNCHANGED <<routeVars, dbVars, queueVars, cur, snap, using, att, seen>>

\* The lock of an active job is gone and the stalled check finds it: back to
\* waiting, or failed when that happened too often.
Stall(i) ==
  /\ job[i] = "active"
  /\ stalls' = [stalls EXCEPT ![i] = @ + 1]
  /\ lock' = [lock EXCEPT ![i] = NoWorker]
  /\ job' = [job EXCEPT ![i] = IF stalls[i] < MaxStalls THEN "waiting" ELSE "failed"]
  /\ UNCHANGED <<attempts, routeVars, dbVars, pc, localVars>>

\* The holder is dead, or its event loop was blocked for longer than the lock
\* lasts: then it still runs the handler and does not know.
HolderReleased(i) == job[i] = "active" /\ lock[i] = NoWorker  \* mutant
HolderDead(i) == job[i] = "active" /\ cur[lock[i]] # i

JobStalls(i) ==
  /\ Stall(i)
  /\ IF HolderDead(i) THEN UNCHANGED faults ELSE Fault

-----------------------------------------------------------------------------
WorkerStep(w) ==
  \/ \E i \in Items : TakeJob(w, i)
  \/ FindItem(w) \/ MarkBatchRunning(w) \/ MarkItemRunning(w)
  \/ ResolveSync(w) \/ LinkSync(w) \/ Import(w)
  \/ ReplaceTracks(w) \/ CompleteItem(w) \/ FailItem(w)
  \/ RefreshRead(w) \/ RefreshWrite(w) \/ EndJob(w)

Next ==
  \/ CreateBatch \/ Enqueue \/ EnqueueFails \/ DeleteBatch
  \/ \E w \in Workers : WorkerStep(w) \/ Crash(w) \/ DatabaseFails(w)
  \/ \E i \in Items : BackoffElapsed(i) \/ JobStalls(i)

Spec == Init /\ [][Next]_vars

(***************************************************************************)
(* Processes keep running, delays elapse, and the stalled check of every   *)
(* Worker (each 30 seconds) finds a job whose holder is dead.  The request *)
(* goes through its loop; no fault and no failure has to happen.           *)
(***************************************************************************)
Fairness ==
  /\ WF_vars(Enqueue)
  /\ \A w \in Workers : WF_vars(WorkerStep(w))
  /\ \A i \in Items : /\ WF_vars(BackoffElapsed(i))
                      /\ WF_vars(HolderDead(i) /\ JobStalls(i))

FairSpec == Spec /\ Fairness

-----------------------------------------------------------------------------
(***************************************************************************)
(* Properties                                                              *)
(***************************************************************************)
Labels == {"idle", "find", "markBatch", "markItem", "resolve", "link", "import",
           "tracks", "complete", "fail", "refresh", "write", "end"}

RequestType ==
  /\ route \in {"idle", "enqueuing", "accepted", "refused"}
  /\ nextPos \in 1..N + 1

RowsType ==
  /\ batchRow \in {"absent", "stored", "deleted"}
  /\ batchStatus \in BatchStatus
  /\ completedAt \in {"null", "set"}
  /\ status \in [Items -> ItemStatus]
  /\ itemSync \in [Items -> Nat]
  /\ detailed \subseteq Items
  /\ syncs \in [Items -> Nat]

QueueType ==
  /\ job \in [Items -> JobStates]
  /\ attempts \in [Items -> 0..MaxAttempts]
  /\ lock \in [Items -> Workers \cup {NoWorker}]
  /\ stalls \in [Items -> Nat]

HandlerType ==
  /\ pc \in [Workers -> Labels]
  /\ cur \in [Workers -> Items \cup {0}]
  /\ snap \in [Workers -> Nat]
  /\ using \in [Workers -> Nat]
  /\ att \in [Workers -> 0..MaxAttempts]
  /\ throwing \subseteq Workers
  /\ seen \in [Workers -> [Items -> ItemStatus]]

\* The types of the rows, the queue and the handlers; attempts and faults stay
\* within their bounds.
TypeOK ==
  RequestType /\ RowsType /\ QueueType /\ HandlerType /\ faults \in 0..MaxFaults

\* The batch is over for the client that polls it.
Closed == completedAt = "set"

\* No process died, no job was declared stalled and no database call rejected.
Calm == faults = 0

\* Whatever goes wrong, a completed item names the sync it went to, and its
\* per-track rows are stored: the details page of a finished transfer is never
\* empty.
CompletedHasDetails ==
  Stored => \A i \in Items :
    status[i] = "completed" => i \in detailed /\ itemSync[i] \in 1..syncs[i]

\* The queue and the items agree.  While nothing but providers fails, a job in
\* the queue belongs to a queued item, a removed job to a completed one and a
\* job kept as failed to a failed one.  So no item of an accepted batch is
\* unsettled without a job that will still run.
JobMatchesItem ==
  Stored /\ Calm => \A i \in Items :
    /\ job[i] \in {"none", "waiting", "delayed"} => status[i] = "queued"
    /\ job[i] = "done" => status[i] = "completed"
    /\ job[i] = "failed" => status[i] = "failed"
    /\ route = "accepted" => job[i] # "none"

\* A retry reuses the sync of the attempt before it, so an item has one sync,
\* and with it one destination playlist and one history entry, however many
\* attempts it takes.
OneSyncPerItem ==
  Calm => \A i \in Items : syncs[i] <= 1

\* No two handlers can be at work on the item at once: there is one process, or
\* the job has not been taken from any.
OneHandler(i) == stalls[i] = 0 \/ \A v, w \in Workers : v = w

\* A completed item stays completed: whichever run of its job comes after a
\* crash, a failed call or a retry, it does not take the item back.  It can only
\* once the job was taken from a process as stalled and another has it: the
\* handler that lost it goes on, and the later of two writes is the one kept.
CompletedStays ==
  [][\A i \in Items : status[i] = "completed" /\ OneHandler(i) =>
       status'[i] = "completed" \/ batchRow' # "stored"]_vars

\* Between two jobs of a lone process the batch says what its items say, and
\* it is closed exactly when all of them have settled.
RestingBatchIsSummary ==
  Stored /\ Calm /\ (\A w \in Workers : pc[w] = "idle")
    => batchStatus = Summary(status) /\ (Closed <=> Settled(status))

\* When every item has settled and no job is left to run, the batch is closed.
SettledBatchIsClosed ==
  /\ Stored /\ Settled(status)
  /\ \A w \in Workers : pc[w] = "idle"
  /\ \A i \in Items : job[i] \in {"none", "done", "failed"}
  => Closed

\* A batch the request accepted is closed in the end, whatever the providers do.
AcceptedBatchCloses ==
  route = "accepted" ~> Closed \/ ~Stored

\* Every queued job ends, whatever goes wrong: it is removed or kept as failed.
JobsEnd ==
  \A i \in Items : job[i] = "waiting" ~> job[i] \in {"done", "failed"}

-----------------------------------------------------------------------------
(***************************************************************************)
(* What the client is promised, and how the rows show it.                  *)
(***************************************************************************)
Promise == INSTANCE TransferBatch WITH
  phase   <- IF route = "idle" THEN "none"
             ELSE IF ~Stored THEN "gone"
             ELSE IF Closed THEN "closed" ELSE "open",
  outcome <- [i \in Items |-> IF status[i] \in {"completed", "failed"}
                              THEN status[i] ELSE "pending"],
  verdict <- IF Closed THEN batchStatus ELSE "none"

\* A lone process keeps the promise while nothing but providers fails: items
\* settle once and for good, and the batch closes once, after the last of them,
\* with the right verdict.
KeepsPromise == Promise!Spec
=============================================================================
