--------------------------- MODULE ServerProofs ---------------------------
(***************************************************************************)
(* What the weekly recap, the usage counters and an import of a link or a  *)
(* file guarantee: for any number of processes, users, weeks, attempts,    *)
(* buckets, overlapping flushes, tracks and faults; and that the server,   *)
(* which puts them and the accounts together, keeps all of it.             *)
(***************************************************************************)
EXTENDS MCServer, AccountProofs, SumLemmas, TLAPS

(* The weekly recap: the claim row makes it one a week. *)

MailPoints == {"none", "waiting", "active", "done", "failed"}
RunPoints  == {"idle", "claim", "digests", "enqueue"}

RecapShape ==
  /\ clock \in Nat /\ recapFaults \in Nat
  /\ enqueued \in [Mails -> Nat] /\ sent \in [Mails -> Nat]
  /\ mail \in [Mails -> [at : MailPoints, tries : Nat]]
  /\ recap \in [Processes -> [at : RunPoints, week : Nat, left : SUBSET Users]]

\* Process p is past the claim of its week.
Runs(p) == recap[p].at \in {"digests", "enqueue"}

\* A job of week w for u has not been added.
Unqueued(w, u) == w \in Weeks => enqueued[<<w, u>>] = 0

\* One run a week, and it adds what nobody added before.
OneRun ==
  /\ \A p \in Processes : Runs(p) => recap[p].week \in claimed
  /\ \A p, q \in Processes : Runs(p) /\ Runs(q) /\ recap[p].week = recap[q].week => p = q
  /\ \A p \in Processes, u \in Users :
       recap[p].at = "digests" \/ (recap[p].at = "enqueue" /\ u \in recap[p].left)
         => Unqueued(recap[p].week, u)
  /\ \A w \in Weeks, u \in Users :
       enqueued[<<w, u>>] \in {0, 1} /\ (enqueued[<<w, u>>] = 1 => w \in claimed)

\* A mail sent is the job's only success, or one of the faults.
SentOnce ==
  \A m \in Mails :
    /\ mail[m].at # "none" => enqueued[m] > 0
    /\ sent[m] <= recapFaults + (IF mail[m].at = "done" THEN 1 ELSE 0)

RecapInv == RecapShape /\ OneRun /\ SentOnce

LEMMA RecapStarts == RecapInit => RecapInv
<1> SUFFICES ASSUME RecapInit PROVE RecapInv
  OBVIOUS
<1>1. RecapShape
  BY DEF RecapInit, RecapShape, NoTick, NoMail, MailPoints, RunPoints
<1>2. OneRun
  BY DEF RecapInit, OneRun, Runs, NoTick, Mails
<1>3. SentOnce
  BY DEF RecapInit, SentOnce, NoMail
<1> QED BY <1>1, <1>2, <1>3 DEF RecapInv

-----------------------------------------------------------------------------
(* The scheduler's steps leave the mails alone, and the worker's the runs. *)

LEMMA MailsKeep ==
  ASSUME SentOnce, UNCHANGED <<mail, sent, enqueued>>, recapFaults \in Nat,
         recapFaults' \in {recapFaults, recapFaults + 1}, sent \in [Mails -> Nat]
  PROVE  SentOnce'
  BY DEF SentOnce

LEMMA RunsKeep == OneRun /\ UNCHANGED <<recap, claimed, enqueued>> => OneRun'
  BY DEF OneRun, Runs, Unqueued

\* A tick begins, or ends with what it has left.
LEMMA RunEnds ==
  ASSUME RecapShape, OneRun, NEW p \in Processes, UNCHANGED enqueued, claimed \subseteq claimed',
         NEW r, r.at \notin {"digests", "enqueue"}, recap' = [recap EXCEPT ![p] = r]
  PROVE  OneRun'
<1>1. \A q \in Processes : recap'[q] = IF q = p THEN r ELSE recap[q]
  BY DEF RecapShape
<1> QED BY <1>1 DEF OneRun, Runs, Unqueued

LEMMA ClaimKeeps ==
  ASSUME RecapShape, OneRun, NEW p \in Processes, Claim(p)
  PROVE  RecapShape' /\ OneRun'
<1> DEFINE w == recap[p].week
           r == [recap[p] EXCEPT !.at = "digests"]
<1>1. /\ recap[p] \in [at : RunPoints, week : Nat, left : SUBSET Users]
      /\ recap[p].at = "claim" /\ claimed' = claimed \cup {w}
      /\ UNCHANGED <<clock, mail, enqueued, sent, recapFaults>>
  BY DEF Claim, RecapShape
<1>2. CASE Claims(w)
  <2>1. recap' = [recap EXCEPT ![p] = r]
    BY <1>2 DEF Claim
  <2>2. r.at = "digests" /\ r.week = w /\ r \in [at : RunPoints, week : Nat, left : SUBSET Users]
    BY <1>1 DEF RunPoints
  <2>3. \A q \in Processes : recap'[q] = IF q = p THEN r ELSE recap[q]
    BY <2>1 DEF RecapShape
  <2>4. RecapShape'
    BY <1>1, <2>1, <2>2 DEF RecapShape
  <2>5. \A u \in Users : Unqueued(w, u)
    BY <1>2 DEF OneRun, Unqueued, Claims
  <2>6. OneRun'
    BY <1>1, <1>2, <2>2, <2>3, <2>5 DEF OneRun, Runs, Unqueued, Claims
  <2> QED BY <2>4, <2>6
<1>3. CASE ~Claims(w)
  <2>1. recap' = [recap EXCEPT ![p] = NoTick]
    BY <1>3 DEF Claim
  <2>2. OneRun'
    BY <1>1, <2>1, RunEnds DEF NoTick
  <2>3. RecapShape'
    BY <1>1, <2>1 DEF RecapShape, NoTick, RunPoints
  <2> QED BY <2>2, <2>3
<1> QED BY <1>2, <1>3

LEMMA DigestsKeep ==
  ASSUME RecapShape, OneRun, NEW p \in Processes, BuildDigests(p)
  PROVE  RecapShape' /\ OneRun'
<1> DEFINE news == {u \in Users : <<recap[p].week, u>> \in hasNews}
           r == [recap[p] EXCEPT !.at = "enqueue", !.left = news]
<1>1. /\ recap[p] \in [at : RunPoints, week : Nat, left : SUBSET Users]
      /\ recap[p].at = "digests" /\ recap' = [recap EXCEPT ![p] = r]
      /\ UNCHANGED <<clock, claimed, mail, enqueued, sent, recapFaults>>
  BY DEF BuildDigests, RecapShape
<1>2. \A l \in SUBSET Users :
        LET x == [recap[p] EXCEPT !.at = "enqueue", !.left = l] IN
        /\ x.at = "enqueue" /\ x.week = recap[p].week /\ x.left = l
        /\ x \in [at : RunPoints, week : Nat, left : SUBSET Users]
  BY <1>1 DEF RunPoints
<1>3. news \in SUBSET Users
  OBVIOUS
<1>4. /\ r.at = "enqueue" /\ r.week = recap[p].week /\ r.left = news
      /\ r \in [at : RunPoints, week : Nat, left : SUBSET Users]
  BY <1>2, <1>3
<1> HIDE DEF r, news
<1>5. \A q \in Processes : recap'[q] = IF q = p THEN r ELSE recap[q]
  BY <1>1 DEF RecapShape
<1>6. RecapShape'
  BY <1>1, <1>4 DEF RecapShape
<1>7. OneRun'
  BY <1>1, <1>4, <1>5 DEF OneRun, Runs, Unqueued
<1> QED BY <1>6, <1>7

\* Whoever p leaves out of what it has left.
LEMMA WithoutKeeps ==
  ASSUME RecapShape, NEW p \in Processes, recap[p].at = "enqueue", NEW u, recap' = Without(p, u)
  PROVE  /\ recap' \in [Processes -> [at : RunPoints, week : Nat, left : SUBSET Users]]
         /\ \A q \in Processes : recap'[q].at = recap[q].at /\ recap'[q].week = recap[q].week
         /\ \A q \in Processes : recap'[q].left = IF q = p THEN recap[p].left \ {u} ELSE recap[q].left
  BY DEF RecapShape, Without

LEMMA EnqueueKeeps ==
  ASSUME RecapShape, OneRun, SentOnce, NEW p \in Processes, EnqueueMail(p)
  PROVE  RecapShape' /\ OneRun' /\ SentOnce'
<1>1. PICK u \in recap[p].left :
        LET m == <<recap[p].week, u>> IN
        /\ mail' = Enqueued(m)
        /\ enqueued' = [enqueued EXCEPT ![m] = @ + 1]
        /\ recap' = Without(p, u)
  BY DEF EnqueueMail
<1> DEFINE w == recap[p].week
           m == <<w, u>>
<1>2. recap[p].at = "enqueue" /\ u \in Users /\ UNCHANGED <<clock, claimed, sent, recapFaults>>
  BY <1>1 DEF EnqueueMail, RecapShape
<1>3. /\ recap' \in [Processes -> [at : RunPoints, week : Nat, left : SUBSET Users]]
      /\ \A q \in Processes : recap'[q].at = recap[q].at /\ recap'[q].week = recap[q].week
      /\ \A q \in Processes : recap'[q].left = IF q = p THEN recap[p].left \ {u} ELSE recap[q].left
  BY <1>1, <1>2, WithoutKeeps
<1>4. /\ mail' \in [Mails -> [at : MailPoints, tries : Nat]]
      /\ \A n \in Mails : mail'[n].at = IF n = m /\ mail[n].at = "none" THEN "waiting" ELSE mail[n].at
  BY <1>1 DEF RecapShape, Enqueued, MailPoints
<1>5. /\ enqueued' \in [Mails -> Nat]
      /\ \A n \in Mails : enqueued'[n] = IF n = m THEN enqueued[n] + 1 ELSE enqueued[n]
  <2>1. enqueued \in [Mails -> Nat] /\ enqueued' = [enqueued EXCEPT ![m] = enqueued[m] + 1]
    BY <1>1 DEF RecapShape
  <2>2. \A n \in Mails : enqueued'[n] = IF n = m THEN enqueued[n] + 1 ELSE enqueued[n]
    BY <2>1
  <2>3. \A n \in Mails : enqueued'[n] \in Nat
    BY <2>1, <2>2
  <2>4. enqueued' = [n \in Mails |-> enqueued'[n]]
    BY <2>1
  <2> QED BY <2>2, <2>3, <2>4
<1>6. RecapShape'
  BY <1>2, <1>3, <1>4, <1>5 DEF RecapShape
<1>7. w \in claimed /\ Unqueued(w, u)
  BY <1>1, <1>2 DEF OneRun, Runs
<1>8. \A x \in Weeks, v \in Users :
        <<x, v>> \in Mails /\ enqueued'[<<x, v>>] = IF x = w /\ v = u THEN 1 ELSE enqueued[<<x, v>>]
  BY <1>5, <1>7 DEF Mails, Unqueued
<1>9. OneRun'
  <2>1. ASSUME NEW q \in Processes, NEW v \in Users,
               recap'[q].at = "digests" \/ (recap'[q].at = "enqueue" /\ v \in recap'[q].left)
        PROVE  Unqueued(recap[q].week, v) /\ ~(recap[q].week = w /\ v = u)
    <3>1. Unqueued(recap[q].week, v)
      BY <1>3, <2>1 DEF OneRun
    <3>2. recap[q].week = w => q = p
      BY <1>2, <1>3, <2>1 DEF OneRun, Runs
    <3> QED BY <1>2, <1>3, <2>1, <3>1, <3>2
  <2>2. \A q \in Processes, v \in Users :
          recap'[q].at = "digests" \/ (recap'[q].at = "enqueue" /\ v \in recap'[q].left)
            => Unqueued(recap[q].week, v)'
    BY <1>3, <1>8, <2>1 DEF Unqueued
  <2> QED BY <1>2, <1>3, <1>7, <1>8, <2>2 DEF OneRun, Runs, Unqueued
<1>10. SentOnce'
  BY <1>2, <1>4, <1>5 DEF RecapShape, SentOnce
<1> QED BY <1>6, <1>9, <1>10

-----------------------------------------------------------------------------
\* A step of the worker, and what may go wrong with it.
LEMMA WorkerKeeps ==
  ASSUME RecapShape, SentOnce, NEW m \in Mails,
         MailRun(m) \/ MailFails(m) \/ WorkerGone(m)
  PROVE  RecapShape' /\ SentOnce' /\ UNCHANGED <<recap, claimed, enqueued>>
<1>1. UNCHANGED <<recap, claimed, enqueued, clock>>
  BY DEF MailRun, TakeMail, SendMail, MailFails, WorkerGone
<1>2. CASE TakeMail(m)
  BY <1>1, <1>2 DEF TakeMail, RecapShape, SentOnce, MailPoints
<1>3. CASE SendMail(m)
  BY <1>1, <1>3 DEF SendMail, RecapShape, SentOnce, MailPoints
<1>4. CASE MailFails(m)
  <2>1. /\ mail' \in [Mails -> [at : MailPoints, tries : Nat]]
        /\ \A n \in Mails : n # m => mail'[n] = mail[n]
        /\ mail[m].at = "active" /\ mail'[m].at \in {"waiting", "failed"}
    BY <1>4 DEF MailFails, Retried, RecapShape, MailPoints
  <2>2. PICK taken \in {0, 1} : sent' = [sent EXCEPT ![m] = @ + taken]
    BY <1>4 DEF MailFails
  <2>3. recapFaults' = recapFaults + 1
    BY <1>4 DEF MailFails
  <2> QED BY <1>1, <2>1, <2>2, <2>3 DEF RecapShape, SentOnce
<1>5. CASE WorkerGone(m)
  <2>1. /\ mail' \in [Mails -> [at : MailPoints, tries : Nat]]
        /\ \A n \in Mails : n # m => mail'[n] = mail[n]
        /\ mail[m].at = "active" /\ mail'[m].at = "waiting"
    BY <1>5 DEF WorkerGone, RecapShape, MailPoints
  <2>2. PICK taken \in {0, 1} : sent' = [sent EXCEPT ![m] = @ + taken]
    BY <1>5 DEF WorkerGone
  <2>3. recapFaults' = recapFaults + 1
    BY <1>5 DEF WorkerGone
  <2> QED BY <1>1, <2>1, <2>2, <2>3 DEF RecapShape, SentOnce
<1> QED BY <1>1, <1>2, <1>3, <1>4, <1>5 DEF MailRun

LEMMA RecapGoesOn == RecapInv /\ [RecapNext]_recapVars => RecapInv'
<1> SUFFICES ASSUME RecapShape, OneRun, SentOnce, [RecapNext]_recapVars
             PROVE  RecapShape' /\ OneRun' /\ SentOnce'
  BY DEF RecapInv
<1>1. CASE UNCHANGED recapVars
  BY <1>1, RunsKeep DEF recapVars, RecapShape, SentOnce
<1>2. CASE TimePasses
  BY <1>2, RunsKeep DEF TimePasses, RecapShape, SentOnce
<1>3. ASSUME NEW p \in Processes, RecapTick(p) PROVE RecapShape' /\ OneRun' /\ SentOnce'
  <2> DEFINE r == [recap[p] EXCEPT !.at = "claim", !.week = ThisWeek]
  <2>1. recap' = [recap EXCEPT ![p] = r] /\ UNCHANGED <<clock, claimed, mail, enqueued, sent, recapFaults>>
    BY <1>3 DEF RecapTick
  <2>2. ThisWeek \in Nat
    BY DEF ThisWeek, RecapShape
  <2>3. r.at = "claim" /\ r \in [at : RunPoints, week : Nat, left : SUBSET Users]
    BY <2>2 DEF RecapShape, RunPoints
  <2>4. OneRun'
    BY <2>1, <2>3, RunEnds
  <2>5. RecapShape'
    BY <2>1, <2>3 DEF RecapShape
  <2> QED BY <2>1, <2>4, <2>5, MailsKeep DEF RecapShape
<1>4. ASSUME NEW p \in Processes, Claim(p) PROVE RecapShape' /\ OneRun' /\ SentOnce'
  BY <1>4, ClaimKeeps, MailsKeep DEF Claim, RecapShape
<1>5. ASSUME NEW p \in Processes, BuildDigests(p) PROVE RecapShape' /\ OneRun' /\ SentOnce'
  BY <1>5, DigestsKeep, MailsKeep DEF BuildDigests, RecapShape
<1>6. ASSUME NEW p \in Processes, EnqueueMail(p) PROVE RecapShape' /\ OneRun' /\ SentOnce'
  BY <1>6, EnqueueKeeps
<1>7. ASSUME NEW p \in Processes, RefuseMail(p) PROVE RecapShape' /\ OneRun' /\ SentOnce'
  <2>1. PICK u : recap' = Without(p, u)
    BY <1>7 DEF RefuseMail, AfterRefusal
  <2>2. /\ recap[p].at = "enqueue" /\ recapFaults' = recapFaults + 1
        /\ UNCHANGED <<clock, claimed, mail, enqueued, sent>>
    BY <1>7 DEF RefuseMail
  <2>3. /\ recap' \in [Processes -> [at : RunPoints, week : Nat, left : SUBSET Users]]
        /\ \A q \in Processes : recap'[q].at = recap[q].at /\ recap'[q].week = recap[q].week
        /\ \A q \in Processes : recap'[q].left \subseteq recap[q].left
    BY <2>1, <2>2, WithoutKeeps
  <2>4. OneRun'
    BY <2>2, <2>3 DEF OneRun, Runs, Unqueued
  <2>5. RecapShape'
    BY <2>2, <2>3 DEF RecapShape
  <2> QED BY <2>2, <2>4, <2>5, MailsKeep DEF RecapShape
<1>8. ASSUME NEW p \in Processes, RecapEnds(p) \/ RecapCutOff(p) PROVE RecapShape' /\ OneRun' /\ SentOnce'
  <2>1. /\ recap' = [recap EXCEPT ![p] = NoTick] /\ claimed \subseteq claimed'
        /\ recapFaults' \in {recapFaults, recapFaults + 1}
        /\ UNCHANGED <<clock, mail, enqueued, sent>>
    BY <1>8 DEF RecapEnds, RecapCutOff
  <2>2. OneRun'
    BY <2>1, RunEnds DEF NoTick
  <2>3. RecapShape'
    BY <2>1 DEF RecapShape, NoTick, RunPoints
  <2> QED BY <2>1, <2>2, <2>3, MailsKeep DEF RecapShape
<1>9. ASSUME NEW m \in Mails, MailRun(m) \/ MailFails(m) \/ WorkerGone(m)
      PROVE  RecapShape' /\ OneRun' /\ SentOnce'
  BY <1>9, WorkerKeeps, RunsKeep
<1> QED BY <1>1, <1>2, <1>3, <1>4, <1>5, <1>6, <1>7, <1>8, <1>9 DEF RecapNext, RecapRun

\* However many API processes look for the send time, and whatever of them or
\* of the worker stops, nobody is queued a second recap of a week
\* (claimPeriod), nor mailed more often than the worker's faults make it.
THEOREM NobodyTwice == RecapSpec => []OneRecapEach
<1>1. RecapInv => OneRecapEach
  <2> SUFFICES ASSUME RecapInv, NEW m \in Mails
               PROVE  enqueued[m] <= 1 /\ sent[m] <= enqueued[m] + recapFaults
    BY DEF OneRecapEach
  <2>1. enqueued[m] \in {0, 1}
    BY DEF RecapInv, OneRun, Mails
  <2> QED BY <2>1 DEF RecapInv, RecapShape, SentOnce
<1> QED BY <1>1, RecapStarts, RecapGoesOn, PTL DEF RecapSpec

-----------------------------------------------------------------------------
(* The usage counters. *)

\* UsageTypeOK, taken apart.
UsageShape ==
  /\ pending \in [Buckets -> Nat] /\ stored \in [Buckets -> Nat]
  /\ recorded \in [Buckets -> Nat] /\ dropped \in [Buckets -> Nat]
  /\ flight \in [Flushers -> [Buckets -> Nat]]

LEMMA ShapeOfUsage == UsageTypeOK <=> UsageShape /\ usageFaults \in 0..MaxUsageFaults
  BY DEF UsageTypeOK, UsageShape

LEMMA OnItsWay ==
  ASSUME NEW h \in [Flushers -> [Buckets -> Nat]], NEW b \in Buckets
  PROVE  SumFunction([f \in Flushers |-> h[f][b]]) \in Nat
<1> DEFINE g == [f \in Flushers |-> h[f][b]]
<1>1. DOMAIN g = Flushers /\ \A f \in Flushers : g[f] \in Nat
  OBVIOUS
<1> HIDE DEF g
<1>2. SumFunctionOnSet(g, Flushers) \in Nat
  BY <1>1, SumType, UsageBounds
<1> QED BY <1>1, <1>2 DEF SumFunction, g

LEMMA InFlightType ==
  ASSUME UsageShape, NEW b \in Buckets
  PROVE  InFlight(b) \in Nat
  BY OnItsWay DEF InFlight, UsageShape

\* One flush has n to write of bucket b instead of what it had.
LEMMA InFlightChanges ==
  ASSUME UsageShape, UsageShape', NEW f \in Flushers, NEW b \in Buckets,
         \A g \in Flushers \ {f} : flight'[g][b] = flight[g][b]
  PROVE  InFlight(b)' + flight[f][b] = InFlight(b) + flight'[f][b]
<1> DEFINE old == [g \in Flushers |-> flight[g][b]]
           new == [g \in Flushers |-> flight'[g][b]]
<1>1. \A g \in Flushers : old[g] \in Nat /\ new[g] \in Nat
  BY DEF UsageShape
<1>2. \A g \in Flushers \ {f} : old[g] = new[g]
  OBVIOUS
<1>3. old[f] = flight[f][b] /\ new[f] = flight'[f][b]
  OBVIOUS
<1>4. DOMAIN old = Flushers /\ DOMAIN new = Flushers
  OBVIOUS
<1>5. InFlight(b) = SumFunction(old) /\ InFlight(b)' = SumFunction(new)
  BY DEF InFlight
<1> HIDE DEF old, new
<1>6. SumFunctionOnSet(new, Flushers) + old[f] = SumFunctionOnSet(old, Flushers) + new[f]
  BY <1>1, <1>2, SumChanges, UsageBounds
<1> QED BY <1>3, <1>4, <1>5, <1>6 DEF SumFunction

LEMMA InFlightStays ==
  ASSUME NEW b \in Buckets, UNCHANGED flight
  PROVE  InFlight(b)' = InFlight(b)
  BY DEF InFlight

LEMMA NoneInFlight ==
  ASSUME NEW b \in Buckets, flight = [f \in Flushers |-> None]
  PROVE  InFlight(b) = 0
<1> DEFINE g == [f \in Flushers |-> flight[f][b]]
<1>1. \A f \in Flushers : g[f] = 0
  BY DEF None
<1>2. DOMAIN g = Flushers /\ InFlight(b) = SumFunction(g)
  BY DEF InFlight
<1> HIDE DEF g
<1> QED BY <1>1, <1>2, SumOfZeros, UsageBounds DEF SumFunction

LEMMA UsageTypeStarts == UsageInit => UsageTypeOK
  BY UsageBounds DEF UsageInit, UsageTypeOK, None

LEMMA UsageTypeKeeps == UsageTypeOK /\ [UsageNext]_usageVars => UsageTypeOK'
<1> SUFFICES ASSUME UsageTypeOK, [UsageNext]_usageVars PROVE UsageTypeOK'
  OBVIOUS
<1> USE UsageBounds
<1>0. UsageShape /\ usageFaults \in 0..MaxUsageFaults
  BY ShapeOfUsage
<1>1. CASE UNCHANGED usageVars
  BY <1>1 DEF usageVars, UsageTypeOK
<1>2. ASSUME NEW b \in Buckets, Record(b) PROVE UsageTypeOK'
  BY <1>0, <1>2 DEF Record, UsageShape, UsageTypeOK
<1>3. ASSUME NEW f \in Flushers, Flush(f) PROVE UsageTypeOK'
  BY <1>0, <1>3 DEF Flush, BufferTaken, None, UsageShape, UsageTypeOK
<1>4. ASSUME NEW f \in Flushers, Write(f) PROVE UsageTypeOK'
  BY <1>0, <1>4 DEF Write, UsageShape, UsageTypeOK
<1>5. ASSUME NEW f \in Flushers, WriteRefused(f) PROVE UsageTypeOK'
  BY <1>0, <1>5 DEF WriteRefused, UsageShape, UsageTypeOK
<1>6. CASE UsageRestart
  <2>1. \A b \in Buckets : dropped[b] + pending[b] + InFlight(b) \in Nat
    BY <1>0, InFlightType DEF UsageShape
  <2>2. dropped' \in [Buckets -> Nat]
    BY <1>6, <2>1 DEF UsageRestart
  <2> QED BY <1>0, <1>6, <2>2 DEF UsageRestart, None, UsageShape, UsageTypeOK
<1> QED BY <1>1, <1>2, <1>3, <1>4, <1>5, <1>6 DEF UsageNext

LEMMA CountsStart == UsageInit => CountedOnce
  BY NoneInFlight DEF UsageInit, CountedOnce, None

LEMMA CountsKeep ==
  ASSUME UsageTypeOK, UsageTypeOK', CountedOnce, [UsageNext]_usageVars
  PROVE  CountedOnce'
<1>0. UsageShape /\ UsageShape'
  BY DEF UsageTypeOK, UsageShape
<1> SUFFICES ASSUME NEW b \in Buckets
             PROVE  stored'[b] + pending'[b] + InFlight(b)' + dropped'[b] = recorded'[b]
  BY DEF CountedOnce
<1>1. /\ stored[b] + pending[b] + InFlight(b) + dropped[b] = recorded[b]
      /\ InFlight(b) \in Nat /\ InFlight(b)' \in Nat
      /\ {stored[b], pending[b], dropped[b], recorded[b]} \subseteq Nat
  <2>1. InFlight(b) \in Nat /\ InFlight(b)' \in Nat
    BY <1>0, OnItsWay DEF InFlight, UsageShape
  <2> QED BY <1>0, <2>1 DEF CountedOnce, UsageShape
<1>2. CASE UNCHANGED usageVars
  BY <1>1, <1>2, InFlightStays DEF usageVars
<1>3. ASSUME NEW c \in Buckets, Record(c)
      PROVE  stored'[b] + pending'[b] + InFlight(b)' + dropped'[b] = recorded'[b]
  BY <1>0, <1>1, <1>3, InFlightStays DEF Record, UsageShape
<1>4. ASSUME NEW f \in Flushers, Flush(f)
      PROVE  stored'[b] + pending'[b] + InFlight(b)' + dropped'[b] = recorded'[b]
  <2>1. /\ \A g \in Flushers \ {f} : flight'[g][b] = flight[g][b]
        /\ flight[f][b] = 0 /\ flight'[f][b] = pending[b] /\ pending'[b] = 0
        /\ UNCHANGED <<stored, dropped, recorded>>
    BY <1>0, <1>4 DEF Flush, BufferTaken, None, UsageShape
  <2>2. InFlight(b)' + flight[f][b] = InFlight(b) + flight'[f][b]
    BY <1>0, <2>1, InFlightChanges
  <2> QED BY <1>1, <2>1, <2>2
\* What a flush has left of a bucket goes to the table, or is dropped.
<1>5. ASSUME NEW f \in Flushers, NEW c \in Buckets, flight' = [flight EXCEPT ![f][c] = 0]
      PROVE  InFlight(b)' + (IF c = b THEN flight[f][b] ELSE 0) = InFlight(b)
  <2>1. /\ \A g \in Flushers \ {f} : flight'[g][b] = flight[g][b]
        /\ flight'[f][b] = IF c = b THEN 0 ELSE flight[f][b]
        /\ flight[f][b] \in Nat
    BY <1>0, <1>5 DEF UsageShape
  <2>2. InFlight(b)' + flight[f][b] = InFlight(b) + flight'[f][b]
    BY <1>0, <2>1, InFlightChanges
  <2> QED BY <1>1, <2>1, <2>2
<1>6. ASSUME NEW f \in Flushers, Write(f)
      PROVE  stored'[b] + pending'[b] + InFlight(b)' + dropped'[b] = recorded'[b]
  <2>1. PICK c \in Buckets : /\ stored' = [stored EXCEPT ![c] = @ + flight[f][c]]
                             /\ flight' = [flight EXCEPT ![f][c] = 0]
                             /\ UNCHANGED <<pending, recorded, dropped>>
    BY <1>6 DEF Write
  <2>2. stored'[b] = stored[b] + (IF c = b THEN flight[f][b] ELSE 0) /\ flight[f][b] \in Nat
    BY <1>0, <1>1, <2>1 DEF UsageShape
  <2>3. InFlight(b)' + (IF c = b THEN flight[f][b] ELSE 0) = InFlight(b)
    BY <1>5, <2>1
  <2> QED BY <1>1, <2>1, <2>2, <2>3
<1>7. ASSUME NEW f \in Flushers, WriteRefused(f)
      PROVE  stored'[b] + pending'[b] + InFlight(b)' + dropped'[b] = recorded'[b]
  <2>1. PICK c \in Buckets : /\ dropped' = [dropped EXCEPT ![c] = @ + flight[f][c]]
                             /\ flight' = [flight EXCEPT ![f][c] = 0]
                             /\ UNCHANGED <<pending, recorded, stored>>
    BY <1>7 DEF WriteRefused
  <2>2. dropped'[b] = dropped[b] + (IF c = b THEN flight[f][b] ELSE 0) /\ flight[f][b] \in Nat
    BY <1>0, <1>1, <2>1 DEF UsageShape
  <2>3. InFlight(b)' + (IF c = b THEN flight[f][b] ELSE 0) = InFlight(b)
    BY <1>5, <2>1
  <2> QED BY <1>1, <2>1, <2>2, <2>3
<1>8. CASE UsageRestart
  <2>1. InFlight(b)' = 0
    <3>1. flight' = [f \in Flushers |-> None]
      BY <1>8 DEF UsageRestart
    <3> DEFINE g == [f \in Flushers |-> flight'[f][b]]
    <3>2. \A f \in Flushers : g[f] = 0
      BY <3>1 DEF None
    <3>3. DOMAIN g = Flushers /\ InFlight(b)' = SumFunction(g)
      BY DEF InFlight
    <3> HIDE DEF g
    <3> QED BY <3>2, <3>3, SumOfZeros, UsageBounds DEF SumFunction
  <2>2. /\ dropped'[b] = dropped[b] + pending[b] + InFlight(b) /\ pending'[b] = 0
        /\ UNCHANGED <<stored, recorded>>
    BY <1>8 DEF UsageRestart, None
  <2> QED BY <1>1, <2>1, <2>2
<1> QED BY <1>2, <1>3, <1>4, <1>6, <1>7, <1>8 DEF UsageNext

LEMMA UsageTyped == UsageSpec => []UsageTypeOK
  BY UsageTypeStarts, UsageTypeKeeps, PTL DEF UsageSpec

\* However many flushes of the buffer overlap (flushProviderUsage), and whatever
\* writes are refused or process stops, a call is counted once.
THEOREM CallsCountedOnce == UsageSpec => []CountedOnce
<1>1. UsageTypeOK /\ UsageTypeOK' /\ CountedOnce /\ [UsageNext]_usageVars => CountedOnce'
  BY CountsKeep
<1> QED BY <1>1, CountsStart, UsageTyped, PTL DEF UsageSpec

-----------------------------------------------------------------------------
(* The import of a link or a file. *)

SongsOf(s) == {s[i] : i \in DOMAIN s}
OneEachBut(s, unsure) == \A i, j \in DOMAIN s : s[i] = s[j] /\ s[i] \notin unsure => i = j

\* Every track passed is counted.
RunCounts ==
  /\ linkRun.matched + linkRun.skipped = linkRun.i /\ linkRun.i <= linkTracks
  /\ linkRun.at = "add" => linkRun.i < linkTracks
  /\ linkRun.at = "none" => linkRun = NoRun
  /\ linkRun.at \in {"start", "fetch", "make"} => linkRun.i = 0

\* The row follows the run, and says nothing before the run does.
RowFollows ==
  /\ linkRun.at # "none" =>
       /\ row.status \in {"pending", "running"}
       /\ row.matched <= linkRun.matched /\ row.skipped <= linkRun.skipped
  /\ linkRun.at \in {"make", "next", "add"} => row.total = linkTracks
  /\ row.status = "none" =>
       /\ linkRun.at = "none" /\ playlist = <<>> /\ linkDropped = {}
       /\ row.matched = 0 /\ row.skipped = 0

\* The run has counted the songs it takes for added, which are those of the
\* playlist and those refused in silence, but for what failed adds left there.
RunKnows ==
  /\ IsFiniteSet(Known) /\ IsFiniteSet(linkRun.added)
  /\ linkRun.matched = Cardinality(linkRun.added)
  /\ OneEachBut(playlist, linkUnsure)
  /\ linkRun.at # "none" => linkRun.added \subseteq Known /\ Known \ linkUnsure \subseteq linkRun.added
  /\ linkRun.at = "add" => linkRun.found \cap linkRun.added = {}

RowCounts ==
  /\ row.matched + row.skipped <= row.total
  /\ row.status = "completed" => row.matched + row.skipped = row.total

RowClaims ==
  /\ row.matched <= Cardinality(Known)
  /\ row.status = "completed" => Cardinality(Known \ linkUnsure) <= row.matched

LinkInv == LinkTypeOK /\ RunCounts /\ RowFollows /\ RunKnows /\ RowCounts /\ RowClaims

LEMMA Numbers == Lengths \subseteq Nat /\ 0 \in Lengths /\ \A n \in Lengths : 0 <= n
  BY LinkBounds DEF Lengths

LEMMA LinkFields ==
  ASSUME LinkTypeOK
  PROVE  /\ row.total \in Lengths /\ row.matched \in Lengths /\ row.skipped \in Lengths
         /\ linkRun.i \in Lengths /\ linkRun.matched \in Lengths /\ linkRun.skipped \in Lengths
         /\ linkTracks \in Lengths
         /\ row.total \in Nat /\ row.matched \in Nat /\ row.skipped \in Nat
         /\ linkRun.i \in Nat /\ linkRun.matched \in Nat /\ linkRun.skipped \in Nat
         /\ linkTracks \in Nat
<1>1. /\ row.total \in Lengths /\ row.matched \in Lengths /\ row.skipped \in Lengths
      /\ linkRun.i \in Lengths /\ linkRun.matched \in Lengths /\ linkRun.skipped \in Lengths
      /\ linkTracks \in Lengths
  BY DEF LinkTypeOK
<1> QED BY <1>1, Numbers

LEMMA NoRunType ==
  NoRun \in [at : {"none", "start", "fetch", "make", "next", "add", "report"}, i : Lengths,
             found : SUBSET LinkSongs, added : SUBSET LinkSongs,
             matched : Lengths, skipped : Lengths]
  BY Numbers DEF NoRun

LEMMA LinkStarts == LinkInit => LinkInv
<1> SUFFICES ASSUME LinkInit PROVE LinkInv
  OBVIOUS
<1> USE LinkBounds
<1>1. LinkTypeOK
  BY DEF LinkInit, LinkTypeOK, NoRun, Lengths
<1>2. Known = {} /\ linkRun.added = {} /\ linkRun.matched = 0
  BY DEF LinkInit, Known, NoRun
<1>3. IsFiniteSet({}) /\ Cardinality({}) = 0
  BY FS_EmptySet
<1>4. RunKnows
  BY <1>2, <1>3 DEF LinkInit, NoRun, RunKnows, OneEachBut
<1>5. RowClaims
  BY <1>2, <1>3 DEF LinkInit, RowClaims
<1>6. RunCounts /\ RowFollows /\ RowCounts
  BY DEF LinkInit, NoRun, RunCounts, RowFollows, RowCounts
<1> QED BY <1>1, <1>4, <1>5, <1>6 DEF LinkInv

\* One more song at the end: it is new, or one that is known to be there twice.
LEMMA OneMoreSong ==
  ASSUME NEW S, NEW s \in Seq(S), NEW x \in S, NEW U, NEW V, U \subseteq V
  PROVE  /\ Append(s, x) \in Seq(S)
         /\ SongsOf(Append(s, x)) = SongsOf(s) \cup {x}
         /\ OneEachBut(s, U) /\ (x \notin SongsOf(s) \/ x \in V) => OneEachBut(Append(s, x), V)
<1> DEFINE t == Append(s, x)
<1>1. /\ t \in Seq(S) /\ Len(t) = Len(s) + 1 /\ DOMAIN s = 1..Len(s) /\ DOMAIN t = 1..(Len(s) + 1)
      /\ \A i \in 1..(Len(s) + 1) : t[i] = IF i = Len(s) + 1 THEN x ELSE s[i]
      /\ Len(s) \in Nat
  OBVIOUS
<1> HIDE DEF t
<1>2. SongsOf(t) \subseteq SongsOf(s) \cup {x}
  BY <1>1 DEF SongsOf
<1>3. SongsOf(s) \subseteq SongsOf(t)
  <2>1. \A i \in 1..Len(s) : i \in 1..(Len(s) + 1) /\ t[i] = s[i]
    BY <1>1
  <2> QED BY <1>1, <2>1 DEF SongsOf
<1>4. x \in SongsOf(t)
  <2>1. Len(s) + 1 \in DOMAIN t /\ t[Len(s) + 1] = x
    BY <1>1
  <2> QED BY <2>1 DEF SongsOf
<1>5. ASSUME OneEachBut(s, U), x \notin SongsOf(s) \/ x \in V,
             NEW i \in DOMAIN t, NEW j \in DOMAIN t, t[i] = t[j], t[i] \notin V
      PROVE  i = j
  <2>1. CASE i \in 1..Len(s) /\ j \in 1..Len(s)
    BY <1>1, <1>5, <2>1 DEF OneEachBut
  <2>2. CASE i = Len(s) + 1 /\ j = Len(s) + 1
    BY <2>2
  <2>3. CASE i = Len(s) + 1 /\ j \in 1..Len(s)
    <3>1. s[j] = x /\ s[j] \in SongsOf(s) /\ x \notin V
      BY <1>1, <1>5, <2>3 DEF SongsOf
    <3> QED BY <1>5, <3>1
  <2>4. CASE j = Len(s) + 1 /\ i \in 1..Len(s)
    <3>1. s[i] = x /\ s[i] \in SongsOf(s) /\ x \notin V
      BY <1>1, <1>5, <2>4 DEF SongsOf
    <3> QED BY <1>5, <3>1
  <2> QED BY <1>1, <2>1, <2>2, <2>3, <2>4
<1>6. OneEachBut(s, U) /\ (x \notin SongsOf(s) \/ x \in V) => OneEachBut(t, V)
  BY <1>5 DEF OneEachBut
<1> QED BY <1>1, <1>2, <1>3, <1>4, <1>6 DEF t

\* What is claimed of some of the songs is true of all.
LEMMA ClaimsHold ==
  ASSUME NEW A, NEW K, IsFiniteSet(K), A \subseteq K, NEW m \in Nat, m <= Cardinality(A)
  PROVE  m <= Cardinality(K)
<1>1. IsFiniteSet(A) /\ Cardinality(A) <= Cardinality(K)
  BY FS_Subset
<1>2. Cardinality(A) \in Nat /\ Cardinality(K) \in Nat
  BY <1>1, FS_CardinalityType
<1> QED BY <1>1, <1>2

LEMMA OneSongMore ==
  ASSUME NEW A, NEW x, IsFiniteSet(A), x \notin A
  PROVE  IsFiniteSet(A \cup {x}) /\ Cardinality(A \cup {x}) = Cardinality(A) + 1
BY FS_AddElement

\* A song got to the playlist, or was refused: then it is one of the known.
LEMMA OneMoreKnown ==
  ASSUME LinkTypeOK, RunKnows, NEW song \in LinkSongs, linkUnsure \subseteq linkUnsure',
         \/ /\ Lands(song) /\ UNCHANGED linkDropped
            /\ song \in Known => song \in linkUnsure'
         \/ linkDropped' = linkDropped \cup {song} /\ UNCHANGED playlist
  PROVE  /\ playlist' \in Seq(LinkSongs) /\ linkDropped' \subseteq LinkSongs
         /\ Known' = Known \cup {song} /\ IsFiniteSet(Known')
         /\ OneEachBut(playlist', linkUnsure')
<1>1. /\ playlist \in Seq(LinkSongs) /\ linkDropped \subseteq LinkSongs
      /\ Known = SongsOf(playlist) \cup linkDropped /\ Known' = SongsOf(playlist') \cup linkDropped'
      /\ IsFiniteSet(Known) /\ OneEachBut(playlist, linkUnsure)
  BY DEF LinkTypeOK, RunKnows, Known, SongsOf
<1>2. IsFiniteSet(Known \cup {song})
  BY <1>1, FS_AddElement
<1>3. CASE Lands(song) /\ UNCHANGED linkDropped /\ (song \in Known => song \in linkUnsure')
  <2>1. /\ playlist' \in Seq(LinkSongs) /\ SongsOf(playlist') = SongsOf(playlist) \cup {song}
        /\ OneEachBut(playlist', linkUnsure')
    BY <1>1, <1>3, OneMoreSong DEF Lands
  <2> QED BY <1>1, <1>2, <1>3, <2>1
<1>4. CASE linkDropped' = linkDropped \cup {song} /\ UNCHANGED playlist
  <2>1. OneEachBut(playlist', linkUnsure')
    BY <1>1, <1>4 DEF OneEachBut
  <2>2. Known' = Known \cup {song}
    BY <1>1, <1>4
  <2> QED BY <1>1, <1>2, <1>4, <2>1, <2>2
<1> QED BY <1>3, <1>4

\* Whatever the run goes on to, by a step that writes no song.
LEMMA CountedKeeps ==
  ASSUME LinkTypeOK, NEW r, Counted(r),
         r.matched \in Lengths, r.skipped \in Lengths, r.i \in Nat
  PROVE  /\ linkRun' = r
         /\ row' \in [status : {"none", "pending", "running", "completed", "failed"},
                      file : BOOLEAN, total : Lengths, matched : Lengths, skipped : Lengths]
         /\ row'.status = row.status /\ row'.total = row.total
         /\ row' = row \/ (row'.matched = r.matched /\ row'.skipped = r.skipped)
  BY DEF Counted, Flushed, LinkTypeOK

\* The invariant of the run that has ended.
LEMMA EndsWell ==
  ASSUME LinkInv, linkRun' = NoRun, LinkTypeOK',
         UNCHANGED <<playlist, linkDropped, linkUnsure, linkTracks>>,
         row'.status \notin {"none", "completed"},
         row'.matched = row.matched, row'.skipped = row.skipped, row'.total = row.total
  PROVE  LinkInv'
<1>1. /\ linkRun'.at = "none" /\ linkRun'.i = 0 /\ linkRun'.matched = 0 /\ linkRun'.skipped = 0
      /\ 0 <= linkTracks
  BY LinkFields DEF NoRun, LinkInv
<1>2. RunCounts'
  BY <1>1 DEF RunCounts
<1>3. Known' = Known
  BY DEF Known
<1>4. RunKnows'
  <2>1. IsFiniteSet({}) /\ Cardinality({}) = 0 /\ linkRun'.added = {}
    BY FS_EmptySet DEF NoRun
  <2> QED BY <1>1, <1>3, <2>1 DEF LinkInv, RunKnows
<1>5. RowClaims'
  BY <1>3 DEF LinkInv, RowClaims
<1> QED BY <1>1, <1>2, <1>4, <1>5 DEF LinkInv, RowFollows, RowCounts

\* The invariant of a run that goes on and has added nothing.
LEMMA NothingAdded ==
  ASSUME LinkInv, UNCHANGED <<playlist, linkDropped, linkUnsure>>,
         linkRun'.added = linkRun.added, linkRun'.matched = linkRun.matched,
         linkRun.at = "none" => linkRun.added = {} /\ Known = {},
         linkRun'.at = "add" => linkRun'.found \cap linkRun'.added = {},
         row'.matched = row.matched, row'.status # "completed"
  PROVE  RunKnows' /\ RowClaims'
<1>1. Known' = Known
  BY DEF Known
<1>2. RunKnows'
  BY <1>1 DEF LinkInv, RunKnows
<1>3. RowClaims'
  BY <1>1 DEF LinkInv, RowClaims
<1> QED BY <1>2, <1>3

LEMMA CreateKeeps == LinkInv /\ CreateImport => LinkInv'
<1> SUFFICES ASSUME LinkInv, CreateImport PROVE LinkInv'
  OBVIOUS
<1>1. /\ LinkTypeOK /\ row.status = "none" /\ linkRun = NoRun
      /\ row.matched = 0 /\ row.skipped = 0
  BY DEF CreateImport, LinkInv, RowFollows, RunCounts
<1>2. PICK n \in Lengths, file \in BOOLEAN :
        /\ row' = [row EXCEPT !.status = "pending", !.file = file, !.total = n]
        /\ linkTracks' = n
  BY DEF CreateImport
<1>3. linkRun' = [linkRun EXCEPT !.at = "start"] /\ UNCHANGED <<playlist, linkDropped, linkUnsure, linkTold, linkFaults>>
  BY DEF CreateImport, At
<1>4. /\ row'.status = "pending" /\ row'.total = n /\ row'.matched = 0 /\ row'.skipped = 0
      /\ linkRun'.at = "start" /\ linkRun'.i = 0 /\ linkRun'.matched = 0
      /\ linkRun'.skipped = 0 /\ linkRun'.added = {} /\ linkRun'.found = {}
      /\ n \in Nat /\ n >= 0
  BY <1>1, <1>2, <1>3, Numbers DEF LinkTypeOK, NoRun
<1>5. LinkTypeOK'
  BY <1>1, <1>2, <1>3 DEF LinkTypeOK
<1>6. Known = {}
  BY <1>1 DEF LinkInv, RowFollows, Known
<1>7. RunCounts' /\ RowFollows' /\ RowCounts'
  BY <1>4, <1>2 DEF RunCounts, RowFollows, RowCounts
<1>8. RunKnows' /\ RowClaims'
  BY <1>1, <1>3, <1>4, <1>6, NothingAdded DEF NoRun
<1> QED BY <1>5, <1>7, <1>8 DEF LinkInv

LEMMA StartKeeps == LinkInv /\ StartImport => LinkInv'
<1> SUFFICES ASSUME LinkInv, StartImport PROVE LinkInv'
  OBVIOUS
<1>1. /\ linkRun.at = "start" /\ row.status \in {"pending", "running"} /\ LinkTypeOK
      /\ UNCHANGED <<linkTracks, playlist, linkDropped, linkUnsure, linkTold, linkFaults>>
  BY DEF StartImport, LinkInv, RowFollows
<1>2. CASE row.status = "running"
  <2>1. linkRun' = NoRun /\ UNCHANGED row
    BY <1>2 DEF StartImport
  <2>2. LinkTypeOK'
    BY <1>1, <2>1, NoRunType DEF LinkTypeOK
  <2> QED BY <1>1, <1>2, <2>1, <2>2, EndsWell
<1>3. CASE row.status # "running"
  <2>1. linkRun' = [linkRun EXCEPT !.at = "fetch"] /\ row' = [row EXCEPT !.status = "running"]
    BY <1>1, <1>3 DEF StartImport, At
  <2>2. /\ row'.status = "running" /\ row'.total = row.total /\ row'.matched = row.matched
        /\ row'.skipped = row.skipped /\ linkRun'.at = "fetch" /\ linkRun'.i = linkRun.i
        /\ linkRun'.matched = linkRun.matched /\ linkRun'.skipped = linkRun.skipped
        /\ linkRun'.added = linkRun.added
    BY <1>1, <2>1 DEF LinkTypeOK
  <2>3. LinkTypeOK'
    BY <1>1, <2>1 DEF LinkTypeOK
  <2>4. RunKnows' /\ RowClaims'
    BY <1>1, <2>2, NothingAdded
  <2> QED BY <1>1, <2>2, <2>3, <2>4 DEF LinkInv, RunCounts, RowFollows, RowCounts
<1> QED BY <1>2, <1>3

LEMMA ReadKeeps == LinkInv /\ ReadTracks => LinkInv'
<1> SUFFICES ASSUME LinkInv, ReadTracks PROVE LinkInv'
  OBVIOUS
<1>1. /\ linkRun.at = "fetch" /\ linkRun' = [linkRun EXCEPT !.at = "make"]
      /\ row' = [row EXCEPT !.total = linkTracks'] /\ LinkTypeOK /\ linkTracks' \in Lengths
      /\ UNCHANGED <<playlist, linkDropped, linkUnsure, linkTold, linkFaults>>
  BY DEF ReadTracks, At, LinkInv, LinkTypeOK
<1>2. /\ linkRun.matched = 0 /\ linkRun.skipped = 0 /\ linkRun.i = 0
      /\ row.matched = 0 /\ row.skipped = 0 /\ row.status \in {"pending", "running"}
  BY <1>1, LinkFields DEF LinkInv, RunCounts, RowFollows
<1>3. /\ row'.status = row.status /\ row'.total = linkTracks' /\ row'.matched = 0
      /\ row'.skipped = 0 /\ linkRun'.at = "make" /\ linkRun'.i = 0
      /\ linkRun'.matched = 0 /\ linkRun'.skipped = 0 /\ linkRun'.added = linkRun.added
      /\ linkTracks' \in Nat /\ linkTracks' >= 0
  <2>1. linkTracks' \in Nat /\ linkTracks' >= 0
    BY <1>1, LinkFields, Numbers
  <2>2. /\ row'.status = row.status /\ row'.total = linkTracks' /\ row'.matched = 0
        /\ row'.skipped = 0
    BY <1>1, <1>2 DEF LinkTypeOK
  <2>3. /\ linkRun'.at = "make" /\ linkRun'.i = 0
        /\ linkRun'.matched = 0 /\ linkRun'.skipped = 0 /\ linkRun'.added = linkRun.added
    BY <1>1, <1>2 DEF LinkTypeOK
  <2> QED BY <2>1, <2>2, <2>3
<1>4. LinkTypeOK'
  BY <1>1 DEF LinkTypeOK
<1>5. RunCounts' /\ RowFollows' /\ RowCounts'
  BY <1>2, <1>3 DEF RunCounts, RowFollows, RowCounts
<1>6. RunKnows' /\ RowClaims'
  BY <1>1, <1>2, <1>3, NothingAdded
<1> QED BY <1>4, <1>5, <1>6 DEF LinkInv

LEMMA MakeKeeps == LinkInv /\ MakePlaylist => LinkInv'
<1> SUFFICES ASSUME LinkInv, MakePlaylist PROVE LinkInv'
  OBVIOUS
<1>1. /\ linkRun.at = "make" /\ LinkTypeOK
      /\ UNCHANGED <<linkTracks, playlist, linkDropped, linkUnsure, linkTold, linkFaults>>
  BY DEF MakePlaylist, LinkInv
<1>2. CASE linkRun' = [linkRun EXCEPT !.at = "next"] /\ UNCHANGED row
  <2>1. /\ linkRun'.at = "next" /\ linkRun'.i = linkRun.i /\ linkRun'.matched = linkRun.matched
        /\ linkRun'.skipped = linkRun.skipped /\ linkRun'.added = linkRun.added
    BY <1>1, <1>2 DEF LinkTypeOK
  <2>2. LinkTypeOK'
    BY <1>1, <1>2 DEF LinkTypeOK
  <2>3. row.status # "completed"
    BY <1>1 DEF LinkInv, RowFollows
  <2>4. RunKnows' /\ RowClaims'
    BY <1>1, <1>2, <2>1, <2>3, NothingAdded
  <2> QED BY <1>1, <1>2, <2>1, <2>2, <2>4 DEF LinkInv, RunCounts, RowFollows, RowCounts
<1>3. CASE linkRun' = NoRun /\ row' = [row EXCEPT !.status = "failed"]
  <2>1. LinkTypeOK' /\ row'.status = "failed" /\ row'.total = row.total
        /\ row'.matched = row.matched /\ row'.skipped = row.skipped
    BY <1>1, <1>3, NoRunType DEF LinkTypeOK
  <2> QED BY <1>1, <1>3, <2>1, EndsWell
<1> QED BY <1>2, <1>3 DEF MakePlaylist, At

\* Counting one track more than n tracks allow for is still within bounds.
LEMMA OneFurther ==
  ASSUME NEW m \in Nat, NEW k \in Nat, NEW i \in Nat, NEW n \in Lengths, m + k = i, i < n
  PROVE  /\ i + 1 \in Lengths /\ k + 1 \in Lengths /\ m + 1 \in Lengths /\ i + 1 <= n
         /\ m + (k + 1) = i + 1 /\ m + 1 + k = i + 1
  BY LinkBounds DEF Lengths

\* What the row says stays behind what the run has counted.
LEMMA RowBehind ==
  ASSUME NEW rm \in Nat, NEW rs \in Nat, NEW m \in Nat, NEW k \in Nat, NEW n \in Nat,
         rm <= m, rs <= k, m + k <= n
  PROVE  rm + rs <= n
  OBVIOUS

\* A track passed: skipped, with or without a song that a failed add left.
SkippedTrack ==
  /\ Counted(Skip) /\ linkRun.at \in {"next", "add"} /\ linkRun.i < linkTracks
  /\ UNCHANGED <<linkTracks, linkDropped, linkTold>> /\ linkFaults' \in 0..MaxLinkFaults
  /\ \/ UNCHANGED <<playlist, linkUnsure>>
     \/ \E x \in LinkSongs : Lands(x) /\ linkUnsure' = linkUnsure \cup {x}

LEMMA SkipKeeps ==
  ASSUME LinkInv, SkippedTrack
  PROVE  LinkInv'
<1>1. LinkTypeOK /\ linkRun.i < linkTracks /\ Counted(Skip) /\ UNCHANGED linkTracks
  BY DEF LinkInv, SkippedTrack
<1>2. /\ linkRun.i + 1 \in Lengths /\ linkRun.skipped + 1 \in Lengths
      /\ linkRun.matched + (linkRun.skipped + 1) = linkRun.i + 1 /\ linkRun.i + 1 <= linkTracks
  <2>1. linkRun.matched + linkRun.skipped = linkRun.i
    BY DEF LinkInv, RunCounts, SkippedTrack
  <2>2. /\ linkRun.i \in Nat /\ linkRun.matched \in Nat /\ linkRun.skipped \in Nat
        /\ linkTracks \in Lengths
    BY <1>1, LinkFields
  <2> QED BY <1>1, <2>1, <2>2, OneFurther
<1>3. /\ Skip.at = "next" /\ Skip.i = linkRun.i + 1 /\ Skip.matched = linkRun.matched
      /\ Skip.skipped = linkRun.skipped + 1 /\ Skip.added = linkRun.added /\ Skip.found = {}
  BY <1>1 DEF Skip, LinkTypeOK
<1>4. Skip \in [at : {"none", "start", "fetch", "make", "next", "add", "report"}, i : Lengths,
                found : SUBSET LinkSongs, added : SUBSET LinkSongs,
                matched : Lengths, skipped : Lengths]
  BY <1>1, <1>2 DEF Skip, LinkTypeOK
<1>5. /\ linkRun' = Skip
      /\ row' \in [status : {"none", "pending", "running", "completed", "failed"},
                   file : BOOLEAN, total : Lengths, matched : Lengths, skipped : Lengths]
      /\ row'.status = row.status /\ row'.total = row.total
      /\ row' = row \/ (row'.matched = Skip.matched /\ row'.skipped = Skip.skipped)
  <2>1. Skip.matched \in Lengths /\ Skip.skipped \in Lengths /\ Skip.i \in Nat
    BY <1>1, <1>2, <1>3, LinkFields, Numbers
  <2> HIDE DEF Skip
  <2> QED BY <1>1, <2>1, CountedKeeps
<1>6. /\ playlist' \in Seq(LinkSongs) /\ linkUnsure' \subseteq LinkSongs
      /\ IsFiniteSet(Known') /\ OneEachBut(playlist', linkUnsure')
      /\ Known \subseteq Known' /\ Known' \ linkUnsure' \subseteq Known \ linkUnsure
  <2>1. CASE UNCHANGED <<playlist, linkUnsure>>
    <3>1. Known' = Known
      BY <2>1 DEF Known, SkippedTrack
    <3> QED BY <1>1, <2>1, <3>1 DEF LinkInv, LinkTypeOK, RunKnows
  <2>2. ASSUME NEW x \in LinkSongs, Lands(x), linkUnsure' = linkUnsure \cup {x} PROVE <1>6!:
    <3>1. RunKnows /\ UNCHANGED linkDropped
      BY DEF LinkInv, SkippedTrack
    <3>2. /\ playlist' \in Seq(LinkSongs) /\ Known' = Known \cup {x} /\ IsFiniteSet(Known')
          /\ OneEachBut(playlist', linkUnsure')
      BY <1>1, <2>2, <3>1, OneMoreKnown
    <3>3. linkUnsure' \subseteq LinkSongs
      BY <1>1, <2>2 DEF LinkTypeOK
    <3> QED BY <2>2, <3>2, <3>3
  <2> QED BY <2>1, <2>2 DEF SkippedTrack
<1>7. LinkTypeOK'
  BY <1>1, <1>4, <1>5, <1>6 DEF LinkTypeOK, SkippedTrack
<1>8. RunCounts'
  BY <1>1, <1>2, <1>3, <1>5 DEF RunCounts
<1>9. /\ row.status \in {"pending", "running"} /\ row.total = linkTracks
      /\ row'.matched <= linkRun.matched /\ row'.skipped <= linkRun.skipped + 1
      /\ row'.matched \in Nat /\ row'.skipped \in Nat
  <2>1. /\ row.status \in {"pending", "running"} /\ row.total = linkTracks
        /\ row.matched <= linkRun.matched /\ row.skipped <= linkRun.skipped
    BY DEF LinkInv, RowFollows, SkippedTrack
  <2>2. CASE row' = row
    BY <1>1, <2>1, <2>2, LinkFields
  <2>3. CASE row'.matched = linkRun.matched /\ row'.skipped = linkRun.skipped + 1
    BY <1>1, <2>1, <2>3, LinkFields
  <2> QED BY <1>3, <1>5, <2>1, <2>2, <2>3
<1>10. RowFollows'
  BY <1>1, <1>3, <1>5, <1>9 DEF RowFollows
<1>11. RowCounts'
  <2>1. linkRun.matched \in Nat /\ linkRun.skipped + 1 \in Nat
    BY <1>1, LinkFields
  <2>2. linkRun.matched + (linkRun.skipped + 1) <= linkTracks /\ linkTracks \in Nat
    BY <1>1, <1>2, LinkFields
  <2>3. row'.matched + row'.skipped <= linkTracks
    BY <1>9, <2>1, <2>2, RowBehind
  <2> QED BY <1>5, <1>9, <2>3 DEF RowCounts
<1>12. /\ linkRun.added \subseteq Known /\ Known \ linkUnsure \subseteq linkRun.added
       /\ IsFiniteSet(linkRun.added) /\ linkRun.matched = Cardinality(linkRun.added)
  BY DEF LinkInv, RunKnows, SkippedTrack
<1>13. RunKnows'
  BY <1>3, <1>5, <1>6, <1>12 DEF RunKnows
<1>14. RowClaims'
  <2>1. row'.matched <= Cardinality(Known')
    BY <1>6, <1>9, <1>12, ClaimsHold
  <2> QED BY <1>5, <1>9, <2>1 DEF RowClaims
<1> QED BY <1>7, <1>8, <1>10, <1>11, <1>13, <1>14 DEF LinkInv

LEMMA MatchKeeps == LinkInv /\ Match => LinkInv'
<1> SUFFICES ASSUME LinkInv, Match PROVE LinkInv'
  OBVIOUS
<1>1. /\ linkRun.at = "next" /\ linkRun.i < linkTracks /\ LinkTypeOK
      /\ UNCHANGED <<linkTracks, playlist, linkDropped, linkUnsure, linkTold, linkFaults>>
  BY DEF Match, LinkInv
<1>2. CASE Counted(Skip)
  BY <1>1, <1>2, SkipKeeps DEF LinkTypeOK, SkippedTrack
<1>4. row.status # "completed"
  BY <1>1 DEF LinkInv, RowFollows
<1>3. ASSUME NEW song \in LinkSongs, ~AlreadyAdded(song),
             linkRun' = [linkRun EXCEPT !.at = "add", !.found = {song}], UNCHANGED row
      PROVE  LinkInv'
  <2>1. /\ linkRun'.at = "add" /\ linkRun'.i = linkRun.i /\ linkRun'.matched = linkRun.matched
        /\ linkRun'.skipped = linkRun.skipped /\ linkRun'.added = linkRun.added
        /\ linkRun'.found = {song}
    BY <1>1, <1>3 DEF LinkTypeOK
  <2>2. LinkTypeOK'
    BY <1>1, <1>3 DEF LinkTypeOK
  <2>3. linkRun'.found \cap linkRun'.added = {}
    BY <1>3, <2>1 DEF AlreadyAdded
  <2>4. RunKnows' /\ RowClaims'
    BY <1>1, <1>3, <1>4, <2>1, <2>3, NothingAdded
  <2> QED BY <1>1, <1>3, <2>1, <2>2, <2>4 DEF LinkInv, RunCounts, RowFollows, RowCounts
<1> QED BY <1>2, <1>3 DEF Match

LEMMA AddKeeps == LinkInv /\ AddSong => LinkInv'
<1> SUFFICES ASSUME LinkInv, AddSong PROVE LinkInv'
  OBVIOUS
<1>0. linkRun.at = "add"
  BY DEF AddSong
<1>1. /\ linkRun.i < linkTracks /\ LinkTypeOK
      /\ UNCHANGED <<linkTracks, linkUnsure, linkTold, linkFaults>>
  BY DEF AddSong, LinkInv, RunCounts
<1>2. PICK song \in linkRun.found :
        /\ \/ Lands(song) /\ UNCHANGED linkDropped
           \/ linkDropped' = linkDropped \cup {song} /\ UNCHANGED playlist
        /\ Counted([linkRun EXCEPT !.at = "next", !.i = @ + 1, !.found = {},
                                   !.added = @ \cup {song}, !.matched = @ + 1])
  BY DEF AddSong
<1> DEFINE r == [linkRun EXCEPT !.at = "next", !.i = @ + 1, !.found = {},
                                !.added = @ \cup {song}, !.matched = @ + 1]
<1>3. song \in LinkSongs /\ song \notin linkRun.added
  BY <1>0, <1>1 DEF LinkInv, RunKnows, LinkTypeOK
<1>4. /\ linkRun.i + 1 \in Lengths /\ linkRun.matched + 1 \in Lengths
      /\ linkRun.matched + 1 + linkRun.skipped = linkRun.i + 1 /\ linkRun.i + 1 <= linkTracks
  <2>1. linkRun.matched + linkRun.skipped = linkRun.i
    BY DEF LinkInv, RunCounts
  <2>2. /\ linkRun.i \in Nat /\ linkRun.matched \in Nat /\ linkRun.skipped \in Nat
        /\ linkTracks \in Lengths
    BY <1>1, LinkFields
  <2> QED BY <1>1, <2>1, <2>2, OneFurther
<1>5. /\ r.at = "next" /\ r.i = linkRun.i + 1 /\ r.matched = linkRun.matched + 1
      /\ r.skipped = linkRun.skipped /\ r.added = linkRun.added \cup {song} /\ r.found = {}
  BY <1>1 DEF LinkTypeOK
<1>6. r \in [at : {"none", "start", "fetch", "make", "next", "add", "report"}, i : Lengths,
             found : SUBSET LinkSongs, added : SUBSET LinkSongs,
             matched : Lengths, skipped : Lengths]
  BY <1>1, <1>3, <1>4 DEF LinkTypeOK
<1>7. Counted(r)
  BY <1>2
<1> HIDE DEF r
<1>8. /\ linkRun' = r
      /\ row' \in [status : {"none", "pending", "running", "completed", "failed"},
                   file : BOOLEAN, total : Lengths, matched : Lengths, skipped : Lengths]
      /\ row'.status = row.status /\ row'.total = row.total
      /\ row' = row \/ (row'.matched = r.matched /\ row'.skipped = r.skipped)
  BY <1>1, <1>4, <1>5, <1>7, CountedKeeps, LinkFields
<1>9. /\ linkRun.added \subseteq Known /\ Known \ linkUnsure \subseteq linkRun.added
      /\ IsFiniteSet(linkRun.added) /\ linkRun.matched = Cardinality(linkRun.added) /\ RunKnows
  BY <1>0 DEF LinkInv, RunKnows
<1>10. /\ playlist' \in Seq(LinkSongs) /\ linkDropped' \subseteq LinkSongs
       /\ Known' = Known \cup {song} /\ IsFiniteSet(Known')
       /\ OneEachBut(playlist', linkUnsure')
  <2>1. song \in Known => song \in linkUnsure'
    BY <1>1, <1>3, <1>9
  <2>2. linkUnsure \subseteq linkUnsure'
    BY <1>1
  <2> QED BY <1>1, <1>2, <1>3, <1>9, <2>1, <2>2, OneMoreKnown
<1>11. LinkTypeOK'
  BY <1>1, <1>6, <1>8, <1>10 DEF LinkTypeOK
<1>12. RunCounts'
  BY <1>1, <1>4, <1>5, <1>8 DEF RunCounts
<1>13. /\ row.status \in {"pending", "running"} /\ row.total = linkTracks
       /\ row'.matched <= linkRun.matched + 1 /\ row'.skipped <= linkRun.skipped
       /\ row'.matched \in Nat /\ row'.skipped \in Nat
  <2>1. /\ row.status \in {"pending", "running"} /\ row.total = linkTracks
        /\ row.matched <= linkRun.matched /\ row.skipped <= linkRun.skipped
    BY <1>0, <1>1 DEF LinkInv, RowFollows
  <2> QED BY <1>1, <1>5, <1>8, <2>1, LinkFields
<1>14. RowFollows'
  BY <1>1, <1>5, <1>8, <1>13 DEF RowFollows
<1>15. RowCounts'
  <2>1. /\ linkRun.matched + 1 + linkRun.skipped <= linkTracks /\ linkRun.matched + 1 \in Nat
        /\ linkTracks \in Nat /\ linkRun.skipped \in Nat
    BY <1>1, <1>4, LinkFields
  <2>2. row'.matched + row'.skipped <= linkTracks
    BY <1>13, <2>1, RowBehind
  <2> QED BY <1>8, <1>13, <2>2 DEF RowCounts
<1>16. /\ IsFiniteSet(linkRun.added \cup {song})
       /\ Cardinality(linkRun.added \cup {song}) = linkRun.matched + 1
  BY <1>3, <1>9, OneSongMore
<1>17. RunKnows'
  BY <1>1, <1>5, <1>8, <1>9, <1>10, <1>16 DEF RunKnows
<1>18. RowClaims'
  <2>1. linkRun.added \cup {song} \subseteq Known' /\ row'.matched <= Cardinality(linkRun.added \cup {song})
    BY <1>9, <1>10, <1>13, <1>16
  <2>2. row'.matched <= Cardinality(Known')
    BY <1>10, <1>13, <2>1, ClaimsHold
  <2> QED BY <1>8, <1>13, <2>2 DEF RowClaims
<1> QED BY <1>11, <1>12, <1>14, <1>15, <1>17, <1>18 DEF LinkInv

LEMMA FaultsCounted == Faulty /\ LinkTypeOK => linkFaults' \in 0..MaxLinkFaults
<1>1. LinkTypeOK => linkFaults \in 0..MaxLinkFaults
  BY DEF LinkTypeOK
<1> QED BY <1>1, LinkBounds DEF Faulty

LEMMA ResentKeeps == LinkInv /\ AddResent => LinkInv'
<1> SUFFICES ASSUME LinkInv, AddResent PROVE LinkInv'
  OBVIOUS
<1>1. /\ LinkTypeOK /\ RunKnows /\ linkRun.at = "add" /\ linkFaults' \in 0..MaxLinkFaults
      /\ UNCHANGED <<row, linkRun, linkTracks, linkDropped, linkTold>>
  BY FaultsCounted DEF AddResent, LinkInv
<1>2. PICK song \in linkRun.found : Lands(song) /\ linkUnsure' = linkUnsure \cup {song}
  BY DEF AddResent
<1>3. song \in LinkSongs
  BY <1>1 DEF LinkTypeOK
<1>4. /\ playlist' \in Seq(LinkSongs) /\ Known' = Known \cup {song} /\ IsFiniteSet(Known')
      /\ OneEachBut(playlist', linkUnsure')
  BY <1>1, <1>2, <1>3, OneMoreKnown
<1>5. LinkTypeOK'
  BY <1>1, <1>2, <1>3, <1>4 DEF LinkTypeOK
<1>6. RunKnows'
  BY <1>1, <1>2, <1>4 DEF RunKnows
<1>7. row.status \in {"pending", "running"}
  BY <1>1 DEF LinkInv, RowFollows
<1>8. RowClaims'
  <2>1. row.matched \in Nat /\ row.matched <= Cardinality(Known)
    BY <1>1, LinkFields DEF LinkInv, RowClaims
  <2>2. row.matched <= Cardinality(Known')
    BY <1>4, <2>1, ClaimsHold
  <2> QED BY <1>1, <1>7, <2>2 DEF RowClaims
<1>9. RunCounts' /\ RowFollows' /\ RowCounts'
  BY <1>1, <1>7 DEF LinkInv, RunCounts, RowFollows, RowCounts
<1> QED BY <1>5, <1>6, <1>8, <1>9 DEF LinkInv

LEMMA AddFailsKeeps == LinkInv /\ AddFails => LinkInv'
<1> SUFFICES ASSUME LinkInv, AddFails PROVE LinkInv'
  OBVIOUS
<1>1. /\ linkRun.at = "add" /\ linkRun.i < linkTracks /\ LinkTypeOK
      /\ UNCHANGED <<linkTracks, linkDropped, linkTold>> /\ Counted(Skip)
      /\ linkFaults' \in 0..MaxLinkFaults
  BY FaultsCounted DEF AddFails, LinkInv, RunCounts
<1>2. linkRun.found \subseteq LinkSongs
  BY <1>1 DEF LinkTypeOK
<1> QED BY <1>1, <1>2, SkipKeeps DEF AddFails, SkippedTrack

LEMMA FinishKeeps == LinkInv /\ Finish => LinkInv'
<1> SUFFICES ASSUME LinkInv, Finish PROVE LinkInv'
  OBVIOUS
<1>1. /\ linkRun.at = "next" /\ linkRun.i = linkTracks /\ linkRun' = NoRun /\ LinkTypeOK
      /\ row' = [row EXCEPT !.status = "completed", !.matched = linkRun.matched,
                            !.skipped = linkRun.skipped]
      /\ UNCHANGED <<linkTracks, playlist, linkDropped, linkUnsure, linkTold, linkFaults>>
  BY DEF Finish, LinkInv
<1>2. LinkTypeOK'
  BY <1>1, LinkFields, NoRunType DEF LinkTypeOK
<1>3. /\ row'.status = "completed" /\ row'.total = row.total /\ row'.matched = linkRun.matched
      /\ row'.skipped = linkRun.skipped
  BY <1>1 DEF LinkTypeOK
<1>4. row.total = linkTracks /\ linkRun.matched + linkRun.skipped = linkTracks
  BY <1>1 DEF LinkInv, RunCounts, RowFollows
<1>5. linkRun'.at = "none" /\ linkRun'.i = 0 /\ linkRun'.matched = 0 /\ linkRun'.skipped = 0
  BY <1>1 DEF NoRun
<1>6. RunCounts' /\ RowFollows' /\ RowCounts'
  BY <1>1, <1>3, <1>4, <1>5, LinkFields DEF RunCounts, RowFollows, RowCounts
<1>7. Known' = Known /\ UNCHANGED <<playlist, linkUnsure>>
  BY <1>1 DEF Known
<1>8. /\ linkRun.added \subseteq Known /\ Known \ linkUnsure \subseteq linkRun.added
      /\ IsFiniteSet(Known) /\ IsFiniteSet(linkRun.added) /\ OneEachBut(playlist, linkUnsure)
      /\ linkRun.matched = Cardinality(linkRun.added)
  BY <1>1 DEF LinkInv, RunKnows
<1>9. RunKnows'
  <2>1. IsFiniteSet({}) /\ Cardinality({}) = 0 /\ linkRun'.added = {}
    BY <1>1, FS_EmptySet DEF NoRun
  <2> QED BY <1>5, <1>7, <1>8, <2>1 DEF RunKnows
<1>10. RowClaims'
  <2>1. Cardinality(linkRun.added) <= Cardinality(Known)
    BY <1>8, FS_Subset
  <2>2. Cardinality(Known \ linkUnsure) <= Cardinality(linkRun.added)
    BY <1>8, FS_Subset
  <2> QED BY <1>3, <1>7, <1>8, <2>1, <2>2 DEF RowClaims
<1> QED BY <1>2, <1>6, <1>9, <1>10 DEF LinkInv

LEMMA ErrorKeeps == LinkInv /\ ImportError => LinkInv'
<1> SUFFICES ASSUME LinkInv, ImportError PROVE LinkInv'
  OBVIOUS
<1>1. /\ linkRun.at \in {"start", "fetch", "make", "next"} /\ LinkTypeOK
      /\ linkRun' = [linkRun EXCEPT !.at = "report"] /\ linkFaults' \in 0..MaxLinkFaults
      /\ UNCHANGED <<row, linkTracks, playlist, linkDropped, linkUnsure, linkTold>>
  BY FaultsCounted DEF ImportError, ToReport, At, LinkInv
<1>2. /\ linkRun'.at = "report" /\ linkRun'.i = linkRun.i /\ linkRun'.matched = linkRun.matched
      /\ linkRun'.skipped = linkRun.skipped /\ linkRun'.added = linkRun.added
  BY <1>1 DEF LinkTypeOK
<1>3. LinkTypeOK'
  BY <1>1 DEF LinkTypeOK
<1>4. row.status # "completed"
  BY <1>1 DEF LinkInv, RowFollows
<1>5. RunKnows' /\ RowClaims'
  BY <1>1, <1>2, <1>4, NothingAdded
<1> QED BY <1>1, <1>2, <1>3, <1>5 DEF LinkInv, RunCounts, RowFollows, RowCounts

LEMMA ReportKeeps == LinkInv /\ Report => LinkInv'
<1> SUFFICES ASSUME LinkInv, Report PROVE LinkInv'
  OBVIOUS
<1>1. /\ LinkTypeOK /\ linkRun' = NoRun /\ row' = [row EXCEPT !.status = "failed"]
      /\ UNCHANGED <<linkTracks, playlist, linkDropped, linkUnsure, linkTold, linkFaults>>
  BY DEF Report, LinkInv
<1>2. LinkTypeOK'
  BY <1>1, NoRunType DEF LinkTypeOK
<1>3. /\ row'.status = "failed" /\ row'.total = row.total /\ row'.matched = row.matched
      /\ row'.skipped = row.skipped
  BY <1>1 DEF LinkTypeOK
<1> QED BY <1>1, <1>2, <1>3, EndsWell

LEMMA LostKeeps == LinkInv /\ ImportLost => LinkInv'
<1> SUFFICES ASSUME LinkInv, ImportLost PROVE LinkInv'
  OBVIOUS
<1>1. /\ linkRun.at # "none" /\ LinkTypeOK /\ linkRun' = NoRun
      /\ linkTold' = linkTold \cup {"lost run"} /\ linkFaults' \in 0..MaxLinkFaults
      /\ UNCHANGED <<row, linkTracks, playlist, linkDropped, linkUnsure>>
  BY FaultsCounted DEF ImportLost, LinkInv
<1>2. LinkTypeOK'
  BY <1>1, NoRunType DEF LinkTypeOK
<1>3. row.status \in {"pending", "running"}
  BY <1>1 DEF LinkInv, RowFollows
<1> QED BY <1>1, <1>2, <1>3, EndsWell

LEMMA LinkGoesOn == LinkInv /\ [LinkNext]_linkVars => LinkInv'
<1>1. LinkInv /\ UNCHANGED linkVars => LinkInv'
  BY DEF linkVars, LinkInv, LinkTypeOK, RunCounts, RowFollows, RunKnows, RowCounts, RowClaims, Known
<1> QED BY <1>1, CreateKeeps, StartKeeps, ReadKeeps, MakeKeeps, MatchKeeps, AddKeeps, ResentKeeps,
           AddFailsKeeps, FinishKeeps, ErrorKeeps, ReportKeeps, LostKeeps DEF LinkNext, LinkRun

\* Whatever the source, the search and the provider answer, dropped, sent again
\* or failed adds included, and wherever the run stops: the counts of an import
\* (runExternalImport) claim no song but those the playlist has got or the
\* provider refused in silence, those of a completed one account for every
\* track, and the playlist holds twice only a song whose add was answered as
\* failed after it had landed.
THEOREM ImportCountsAreTrue == LinkSpec => []CountsAreTrue
<1>1. LinkInv => CountsAreTrue
  BY DEF LinkInv, RowCounts, RowClaims, RunKnows, OneEachBut, CountsAreTrue
<1> QED BY <1>1, LinkStarts, LinkGoesOn, PTL DEF LinkSpec
-----------------------------------------------------------------------------
(* The types of the recap. *)

\* A tick past its first step has a week, a job not yet over an attempt left.
WeekKnown == \A p \in Processes : recap[p] # NoTick => recap[p].week \in Weeks
TriesLeft ==
  \A m \in Mails : mail[m].at \in {"none", "waiting", "active"} => mail[m].tries < MailAttempts

RecapTypes == RecapTypeOK /\ WeekKnown /\ TriesLeft

LEMMA ThisWeekIsOne ==
  ASSUME NEW n \in 0..2 * MaxWeeks - 1, n % 2 = 1
  PROVE  n \div 2 + 1 \in Weeks
  BY RecapBounds DEF Weeks

LEMMA RecapTypesStart == RecapInit => RecapTypes
  BY RecapBounds DEF RecapInit, RecapTypes, RecapTypeOK, WeekKnown, TriesLeft, NoTick, NoMail

LEMMA RecapTypesKeep == RecapTypes /\ [RecapNext]_recapVars => RecapTypes'
<1> SUFFICES ASSUME RecapTypeOK, WeekKnown, TriesLeft, [RecapNext]_recapVars
             PROVE  RecapTypeOK' /\ WeekKnown' /\ TriesLeft'
  BY DEF RecapTypes
<1> DEFINE Ticks == [at : {"idle", "claim", "digests", "enqueue"}, week : {0} \cup Weeks,
                     left : SUBSET Users]
           Jobs0 == [at : {"none", "waiting", "active", "done", "failed"}, tries : 0..MailAttempts]
<1>1. /\ recap \in [Processes -> Ticks] /\ mail \in [Mails -> Jobs0]
      /\ enqueued \in [Mails -> Nat] /\ sent \in [Mails -> Nat]
  BY DEF RecapTypeOK
<1>2. ASSUME UNCHANGED <<clock, hasNews, mail, enqueued, sent>>, claimed' \subseteq Weeks,
             missed' \subseteq Mails, recapFaults' \in 0..MaxRecapFaults,
             NEW p \in Processes, NEW r \in Ticks, r # NoTick => r.week \in Weeks,
             recap' = [recap EXCEPT ![p] = r]
      PROVE  RecapTypeOK' /\ WeekKnown' /\ TriesLeft'
  <2>1. recap' \in [Processes -> Ticks] /\ \A q \in Processes : recap'[q] = IF q = p THEN r ELSE recap[q]
    BY <1>1, <1>2
  <2>2. WeekKnown'
    BY <1>2, <2>1 DEF WeekKnown
  <2> QED BY <1>2, <2>1, <2>2 DEF RecapTypeOK, TriesLeft
<1>3. NoTick \in Ticks /\ NoTick.at = "idle"
  BY DEF NoTick
<1>4. ASSUME recapFaults < MaxRecapFaults, recapFaults' = recapFaults + 1
      PROVE  recapFaults' \in 0..MaxRecapFaults
  BY <1>4, RecapBounds DEF RecapTypeOK
<1>5. CASE UNCHANGED recapVars
  BY <1>5 DEF recapVars, RecapTypeOK, WeekKnown, TriesLeft
<1>6. CASE TimePasses
  <2>1. clock' \in 0..2 * MaxWeeks - 1
    BY <1>6, RecapBounds DEF TimePasses, RecapTypeOK
  <2> QED BY <1>6, <2>1 DEF TimePasses, RecapTypeOK, WeekKnown, TriesLeft
<1>7. ASSUME NEW p \in Processes, RecapTick(p) PROVE RecapTypeOK' /\ WeekKnown' /\ TriesLeft'
  <2> DEFINE r == [recap[p] EXCEPT !.at = "claim", !.week = ThisWeek]
  <2>1. /\ recap' = [recap EXCEPT ![p] = r]
        /\ UNCHANGED <<clock, hasNews, claimed, mail, enqueued, sent, missed, recapFaults>>
    BY <1>7 DEF RecapTick
  <2>2. ThisWeek \in Weeks
    BY <1>7, ThisWeekIsOne DEF RecapTick, SendTimeIsPast, ThisWeek, RecapTypeOK
  <2>3. r \in Ticks /\ r.week \in Weeks
    BY <1>1, <2>2
  <2> QED BY <1>2, <2>1, <2>3 DEF RecapTypeOK
<1>8. ASSUME NEW p \in Processes, Claim(p) PROVE RecapTypeOK' /\ WeekKnown' /\ TriesLeft'
  <2> DEFINE r == IF Claims(recap[p].week) THEN [recap[p] EXCEPT !.at = "digests"] ELSE NoTick
  <2>1. /\ recap' = [recap EXCEPT ![p] = r] /\ claimed' = claimed \cup {recap[p].week}
        /\ recap[p].at = "claim"
        /\ UNCHANGED <<clock, hasNews, mail, enqueued, sent, missed, recapFaults>>
    BY <1>8 DEF Claim
  <2>2. recap[p].week \in Weeks
    BY <1>3, <2>1 DEF WeekKnown
  <2>3. r \in Ticks /\ (r # NoTick => r.week \in Weeks)
    <3>1. [recap[p] EXCEPT !.at = "digests"] \in Ticks /\ [recap[p] EXCEPT !.at = "digests"].week = recap[p].week
      BY <1>1
    <3> QED BY <1>3, <2>2, <3>1
  <2>4. claimed' \subseteq Weeks
    BY <2>1, <2>2 DEF RecapTypeOK
  <2> HIDE DEF r
  <2> QED BY <1>2, <2>1, <2>3, <2>4 DEF RecapTypeOK
<1>9. ASSUME NEW p \in Processes, BuildDigests(p) PROVE RecapTypeOK' /\ WeekKnown' /\ TriesLeft'
  <2> DEFINE news == {u \in Users : <<recap[p].week, u>> \in hasNews}
             r == [recap[p] EXCEPT !.at = "enqueue", !.left = news]
  <2>1. /\ recap' = [recap EXCEPT ![p] = r] /\ recap[p].at = "digests"
        /\ UNCHANGED <<clock, hasNews, claimed, mail, enqueued, sent, missed, recapFaults>>
    BY <1>9 DEF BuildDigests
  <2>2. recap[p].week \in Weeks
    BY <1>3, <2>1 DEF WeekKnown
  <2>3. news \in SUBSET Users
    OBVIOUS
  <2> HIDE DEF news
  <2>4. r \in Ticks /\ r.week \in Weeks
    BY <1>1, <2>2, <2>3
  <2> QED BY <1>2, <2>1, <2>4 DEF RecapTypeOK
<1>10. ASSUME NEW p \in Processes, NEW u, recap[p].at = "enqueue",
              UNCHANGED <<clock, hasNews, claimed>>, recap' = Without(p, u)
       PROVE  /\ recap' \in [Processes -> Ticks] /\ WeekKnown' /\ recap[p].week \in Weeks
              /\ \E r \in Ticks : recap' = [recap EXCEPT ![p] = r] /\ r.week \in Weeks
  <2> DEFINE r == [recap[p] EXCEPT !.left = @ \ {u}]
  <2>1. recap[p].week \in Weeks
    BY <1>3, <1>10 DEF WeekKnown
  <2>2. r \in Ticks /\ r.week \in Weeks
    BY <1>1, <2>1
  <2>3. recap' = [recap EXCEPT ![p] = r]
    BY <1>1, <1>10 DEF Without
  <2>4. recap' \in [Processes -> Ticks] /\ \A q \in Processes : recap'[q] = IF q = p THEN r ELSE recap[q]
    BY <1>1, <2>2, <2>3
  <2> QED BY <2>1, <2>2, <2>3, <2>4 DEF WeekKnown
<1>11. ASSUME NEW p \in Processes, EnqueueMail(p) PROVE RecapTypeOK' /\ WeekKnown' /\ TriesLeft'
  <2>1. PICK u \in recap[p].left :
          LET m == <<recap[p].week, u>> IN
          /\ mail' = Enqueued(m)
          /\ enqueued' = [enqueued EXCEPT ![m] = @ + 1]
          /\ recap' = Without(p, u)
    BY <1>11 DEF EnqueueMail
  <2>2. recap[p].at = "enqueue" /\ UNCHANGED <<clock, hasNews, claimed, sent, missed, recapFaults>>
    BY <1>11 DEF EnqueueMail
  <2>3. recap' \in [Processes -> Ticks] /\ WeekKnown'
    BY <1>10, <2>1, <2>2
  <2>4. /\ mail' \in [Mails -> Jobs0]
        /\ \A n \in Mails : /\ mail'[n].tries = mail[n].tries
                            /\ mail'[n].at = mail[n].at \/ mail[n].at = "none"
    BY <1>1, <2>1 DEF Enqueued
  <2>5. enqueued' \in [Mails -> Nat]
    <3>1. PICK m \in Mails : enqueued' = [enqueued EXCEPT ![m] = enqueued[m] + 1]
      <4>1. recap[p].week \in Weeks /\ u \in Users
        BY <1>1, <1>10, <2>1, <2>2
      <4>2. <<recap[p].week, u>> \in Mails
        BY <4>1 DEF Mails
      <4> QED BY <2>1, <4>2
    <3> QED BY <1>1, <3>1
  <2>6. TriesLeft'
    BY <2>4 DEF TriesLeft
  <2> QED BY <2>2, <2>3, <2>4, <2>5, <2>6 DEF RecapTypeOK
<1>12. ASSUME NEW p \in Processes, RefuseMail(p) PROVE RecapTypeOK' /\ WeekKnown' /\ TriesLeft'
  <2>1. PICK u \in recap[p].left :
          missed' = missed \cup {<<recap[p].week, u>>} /\ recap' = Without(p, u)
    BY <1>12 DEF RefuseMail, AfterRefusal
  <2>2. /\ recap[p].at = "enqueue" /\ recapFaults' \in 0..MaxRecapFaults
        /\ UNCHANGED <<clock, hasNews, claimed, mail, enqueued, sent>>
    BY <1>4, <1>12 DEF RefuseMail
  <2>3. recap[p].week \in Weeks /\ u \in Users
    BY <1>1, <1>10, <2>1, <2>2
  <2>4. missed' \subseteq Mails
    BY <2>1, <2>3 DEF RecapTypeOK, Mails
  <2>5. PICK r \in Ticks : recap' = [recap EXCEPT ![p] = r] /\ r.week \in Weeks
    BY <1>10, <2>1, <2>2
  <2>6. claimed' \subseteq Weeks
    BY <2>2 DEF RecapTypeOK
  <2> QED BY <1>2, <2>2, <2>4, <2>5, <2>6
<1>13. ASSUME NEW p \in Processes, RecapEnds(p) PROVE RecapTypeOK' /\ WeekKnown' /\ TriesLeft'
  BY <1>2, <1>3, <1>13 DEF RecapEnds, RecapTypeOK
<1>14. ASSUME NEW p \in Processes, RecapCutOff(p) PROVE RecapTypeOK' /\ WeekKnown' /\ TriesLeft'
  <2> DEFINE w == recap[p].week
             out == IF recap[p].at = "enqueue" THEN recap[p].left ELSE Users
  <2>1. /\ recap[p] # NoTick /\ recap' = [recap EXCEPT ![p] = NoTick]
        /\ UNCHANGED <<clock, hasNews, mail, enqueued, sent>> /\ recapFaults' \in 0..MaxRecapFaults
        /\ \/ recap[p].at # "claim" /\ missed' = missed \cup ({w} \X out) /\ UNCHANGED claimed
           \/ UNCHANGED <<claimed, missed>>
           \/ /\ recap[p].at = "claim"
              /\ claimed' = claimed \cup {w} /\ missed' = missed \cup ({w} \X Users)
    BY <1>4, <1>14 DEF RecapCutOff
  <2>2. out \subseteq Users
    BY <1>1
  <2>3. w \in Weeks
    BY <2>1 DEF WeekKnown
  <2> HIDE DEF w, out
  <2>4. claimed' \subseteq Weeks /\ missed' \subseteq Mails
    BY <2>1, <2>2, <2>3 DEF RecapTypeOK, Mails
  <2> QED BY <1>2, <1>3, <2>1, <2>4
<1>15. ASSUME NEW m \in Mails, TakeMail(m) PROVE RecapTypeOK' /\ WeekKnown' /\ TriesLeft'
  <2>1. /\ mail[m].at = "waiting" /\ mail' = [mail EXCEPT ![m] = [mail[m] EXCEPT !.at = "active"]]
        /\ UNCHANGED <<clock, hasNews, claimed, recap, enqueued, sent, missed, recapFaults>>
    BY <1>15 DEF TakeMail
  <2>2. mail' \in [Mails -> Jobs0] /\ \A n \in Mails :
          mail'[n].tries = mail[n].tries /\ (n # m => mail'[n] = mail[n])
    BY <1>1, <2>1
  <2>3. TriesLeft'
    BY <2>1, <2>2 DEF TriesLeft
  <2> QED BY <2>1, <2>2, <2>3 DEF RecapTypeOK, WeekKnown
<1>16. ASSUME NEW m \in Mails, SendMail(m) PROVE RecapTypeOK' /\ WeekKnown' /\ TriesLeft'
  <2>1. /\ mail' = [mail EXCEPT ![m] = [mail[m] EXCEPT !.at = "done"]]
        /\ sent' = [sent EXCEPT ![m] = @ + 1]
        /\ UNCHANGED <<clock, hasNews, claimed, recap, enqueued, missed, recapFaults>>
    BY <1>16 DEF SendMail
  <2>2. mail' \in [Mails -> Jobs0] /\ mail'[m].at = "done" /\ \A n \in Mails \ {m} : mail'[n] = mail[n]
    BY <1>1, <2>1
  <2>3. sent' \in [Mails -> Nat]
    BY <1>1, <2>1
  <2>4. TriesLeft'
    BY <2>2 DEF TriesLeft
  <2> QED BY <2>1, <2>2, <2>3, <2>4 DEF RecapTypeOK, WeekKnown
<1>17. ASSUME NEW m \in Mails, mail[m].at = "active", mail' = Retried(m)
       PROVE  mail' \in [Mails -> Jobs0] /\ TriesLeft'
  <2> DEFINE r == [at |-> IF mail[m].tries + 1 < MailAttempts THEN "waiting" ELSE "failed",
                   tries |-> mail[m].tries + 1]
  <2>1. mail[m].tries \in Nat /\ mail[m].tries < MailAttempts
    BY <1>1, <1>17 DEF TriesLeft
  <2>2. mail[m].tries + 1 \in 0..MailAttempts
    BY <2>1, RecapBounds
  <2>3. r \in Jobs0 /\ (r.at \in {"none", "waiting", "active"} => r.tries < MailAttempts)
    BY <2>2
  <2>4. mail' = [mail EXCEPT ![m] = r]
    BY <1>1, <1>17 DEF Retried
  <2>5. mail' \in [Mails -> Jobs0] /\ \A n \in Mails : mail'[n] = IF n = m THEN r ELSE mail[n]
    BY <1>1, <2>3, <2>4
  <2> QED BY <2>3, <2>5 DEF TriesLeft
<1>18. ASSUME NEW m \in Mails, MailFails(m) \/ WorkerGone(m) PROVE RecapTypeOK' /\ WeekKnown' /\ TriesLeft'
  <2>1. /\ mail[m].at = "active" /\ recapFaults' \in 0..MaxRecapFaults
        /\ UNCHANGED <<clock, hasNews, claimed, recap, enqueued, missed>>
    BY <1>4, <1>18 DEF MailFails, WorkerGone
  <2>2. sent' \in [Mails -> Nat]
    <3>1. PICK taken \in {0, 1} : sent' = [sent EXCEPT ![m] = @ + taken]
      BY <1>18 DEF MailFails, WorkerGone
    <3> QED BY <1>1, <3>1
  <2>3. mail' \in [Mails -> Jobs0] /\ TriesLeft'
    <3>1. CASE MailFails(m)
      BY <1>17, <2>1, <3>1 DEF MailFails
    <3>2. CASE WorkerGone(m)
      <4>1. mail' = [mail EXCEPT ![m] = [mail[m] EXCEPT !.at = "waiting"]]
        BY <3>2 DEF WorkerGone
      <4>2. mail' \in [Mails -> Jobs0] /\ \A n \in Mails :
              mail'[n].tries = mail[n].tries /\ (n # m => mail'[n] = mail[n])
        BY <1>1, <4>1
      <4> QED BY <2>1, <4>2 DEF TriesLeft
    <3> QED BY <1>18, <3>1, <3>2
  <2> QED BY <2>1, <2>2, <2>3 DEF RecapTypeOK, WeekKnown
<1> QED BY <1>5, <1>6, <1>7, <1>8, <1>9, <1>11, <1>12, <1>13, <1>14, <1>15, <1>16, <1>18
        DEF RecapNext, RecapRun, MailRun

LEMMA RecapTyped == RecapSpec => []RecapTypeOK
<1>1. RecapTypes => RecapTypeOK
  BY DEF RecapTypes
<1> QED BY <1>1, RecapTypesStart, RecapTypesKeep, PTL DEF RecapSpec

LEMMA LinkTyped == LinkSpec => []LinkTypeOK
<1>1. LinkInv => LinkTypeOK
  BY DEF LinkInv
<1> QED BY <1>1, LinkStarts, LinkGoesOn, PTL DEF LinkSpec

-----------------------------------------------------------------------------
(* The server. *)

\* What is proved of a part on its own is true of the server: to each part,
\* the steps of the others are stutters.
THEOREM ServerRunsItsParts == ServerSpec => Spec /\ RecapSpec /\ UsageSpec /\ LinkSpec
<1>1. ServerInit => Init /\ RecapInit /\ UsageInit /\ LinkInit
  BY DEF ServerInit
<1>2. [ServerNext]_serverVars
        => [Next]_vars /\ [RecapNext]_recapVars /\ [UsageNext]_usageVars /\ [LinkNext]_linkVars
  BY DEF ServerNext, serverVars
<1> QED BY <1>1, <1>2, PTL DEF ServerSpec, Spec, RecapSpec, UsageSpec, LinkSpec

\* Every variable of the server keeps its type: a mail is not tried more often
\* than it may be, no week but one of the calendar's is claimed, counts and
\* positions stay within the tracks there are.
THEOREM ServerTyped == ServerSpec => []ServerTypeOK
<1>1. TypeOK /\ RecapTypeOK /\ UsageTypeOK /\ LinkTypeOK => ServerTypeOK
  BY DEF ServerTypeOK
<1> QED BY <1>1, ServerRunsItsParts, AccountTyped, RecapTyped, UsageTyped, LinkTyped, PTL
=============================================================================
