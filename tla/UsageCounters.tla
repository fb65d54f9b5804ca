--------------------------- MODULE UsageCounters ---------------------------
(***************************************************************************)
(* The provider usage counters of one API process: calls are counted in a  *)
(* buffer, and flushes (of the timer, and of the admin panel) write it to  *)
(* the table, bucket by bucket.                                            *)
(***************************************************************************)
EXTENDS Naturals, FiniteSets, Functions

CONSTANTS
  Buckets,        \* day, provider, domain and operation
  Flushers,       \* the timer's flushes, which may overlap, and the panel's
  MaxCalls,       \* bound on the calls of a bucket
  MaxUsageFaults  \* bound on refused writes and restarts

ASSUME UsageBounds == MaxCalls \in Nat /\ MaxUsageFaults \in Nat /\ IsFiniteSet(Flushers)

VARIABLES
  pending,    \* the buffer
  flight,     \* what each flush has left to write
  stored,     \* provider_api_usage
  recorded,   \* history: calls made
  dropped,    \* history: calls a refused write or a restart dropped
  usageFaults

usageVars == <<pending, flight, stored, recorded, dropped, usageFaults>>

None == [b \in Buckets |-> 0]

UsageInit ==
  /\ pending = None /\ stored = None /\ recorded = None /\ dropped = None
  /\ flight = [f \in Flushers |-> None]
  /\ usageFaults = 0

\* bufferProviderUsage
Record(b) ==
  /\ recorded[b] < MaxCalls
  /\ recorded' = [recorded EXCEPT ![b] = @ + 1]
  /\ pending' = [pending EXCEPT ![b] = @ + 1]
  /\ UNCHANGED <<flight, stored, dropped, usageFaults>>

BufferKept == pending  \* mutant
BufferTaken == None

\* flushProviderUsage takes the buffer as it is and empties it at once.
Flush(f) ==
  /\ flight[f] = None /\ pending # None
  /\ flight' = [flight EXCEPT ![f] = pending]
  /\ pending' = BufferTaken
  /\ UNCHANGED <<stored, recorded, dropped, usageFaults>>

Write(f) ==
  \E b \in Buckets :
    /\ flight[f][b] > 0
    /\ stored' = [stored EXCEPT ![b] = @ + flight[f][b]]
    /\ flight' = [flight EXCEPT ![f][b] = 0]
    /\ UNCHANGED <<pending, recorded, dropped, usageFaults>>

\* The write is refused, and not tried again.
WriteRefused(f) ==
  /\ usageFaults < MaxUsageFaults
  /\ usageFaults' = usageFaults + 1
  /\ \E b \in Buckets :
       /\ flight[f][b] > 0
       /\ dropped' = [dropped EXCEPT ![b] = @ + flight[f][b]]
       /\ flight' = [flight EXCEPT ![f][b] = 0]
  /\ UNCHANGED <<pending, stored, recorded>>

InFlight(b) == SumFunction([f \in Flushers |-> flight[f][b]])

\* The process stops; shutdown does not flush.
UsageRestart ==
  /\ usageFaults < MaxUsageFaults
  /\ usageFaults' = usageFaults + 1
  /\ dropped' = [b \in Buckets |-> dropped[b] + pending[b] + InFlight(b)]
  /\ pending' = None
  /\ flight' = [f \in Flushers |-> None]
  /\ UNCHANGED <<stored, recorded>>

UsageNext ==
  \/ \E b \in Buckets : Record(b)
  \/ \E f \in Flushers : Flush(f) \/ Write(f) \/ WriteRefused(f)
  \/ UsageRestart

UsageSpec == UsageInit /\ [][UsageNext]_usageVars

UsageTypeOK ==
  /\ {pending, stored, recorded, dropped} \subseteq [Buckets -> Nat]
  /\ flight \in [Flushers -> [Buckets -> Nat]]
  /\ usageFaults \in 0..MaxUsageFaults

\* A call is counted once: in the table, or still on its way there, or among
\* those a refused write or a restart dropped, however flushes overlap.
CountedOnce ==
  \A b \in Buckets :
    stored[b] + pending[b] + InFlight(b) + dropped[b] = recorded[b]
=============================================================================
