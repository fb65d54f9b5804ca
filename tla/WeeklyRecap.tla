---------------------------- MODULE WeeklyRecap ----------------------------
(***************************************************************************)
(* The weekly recap: the API processes that look for the week's send time, *)
(* the notification_runs row they claim it with, and the worker process    *)
(* that sends the queued mails.                                            *)
(*                                                                         *)
(* Time is counted in halves of weeks: before the send time, and after.    *)
(***************************************************************************)
EXTENDS Naturals

CONSTANTS
  Processes,      \* API processes with the scheduler on
  Users,
  MaxWeeks,       \* bound on the weeks that pass
  MailAttempts,   \* NOTIFICATION_JOB_OPTIONS.attempts
  MaxRecapFaults  \* bound on what goes wrong

ASSUME RecapBounds ==
  /\ MaxWeeks \in Nat \ {0} /\ MailAttempts \in Nat \ {0} /\ MaxRecapFaults \in Nat

VARIABLES
  clock,       \* halves of weeks gone by
  hasNews,     \* who has new songs, in which week
  claimed,     \* notification_runs: weeks somebody took
  recap,       \* the tick of each process, with the digests it has left
  mail,        \* the jobs of the notifications queue
  enqueued,    \* history: how many jobs were added for a user and a week
  sent,        \* history: how many mails were sent of a job
  missed,      \* history: weeks whose run was cut off, jobs that were refused
  recapFaults  \* faults so far

recapVars == <<clock, hasNews, claimed, recap, mail, enqueued, sent, missed, recapFaults>>

Weeks == 1..MaxWeeks
Mails == Weeks \X Users

ThisWeek == clock \div 2 + 1
SendTimeIsPast == clock % 2 = 1

NoTick == [at |-> "idle", week |-> 0, left |-> {}]
NoMail == [at |-> "none", tries |-> 0]

RecapInit ==
  /\ clock = 0
  /\ hasNews \in SUBSET Mails
  /\ claimed = {}
  /\ recap = [p \in Processes |-> NoTick]
  /\ mail = [m \in Mails |-> NoMail]
  /\ enqueued = [m \in Mails |-> 0]
  /\ sent = [m \in Mails |-> 0]
  /\ missed = {}
  /\ recapFaults = 0

-----------------------------------------------------------------------------
(* The scheduler. *)

\* The interval is shorter than what is left of a week after the send time:
\* some process has looked by then.
TimePasses ==
  /\ clock < 2 * MaxWeeks - 1
  /\ SendTimeIsPast => ThisWeek \in claimed
  /\ clock' = clock + 1
  /\ UNCHANGED <<hasNews, claimed, recap, mail, enqueued, sent, missed, recapFaults>>

\* A tick after the send time; it does nothing while the one before it runs.
RecapTick(p) ==
  /\ recap[p] = NoTick
  /\ SendTimeIsPast
  /\ recap' = [recap EXCEPT ![p] = [@ EXCEPT !.at = "claim", !.week = ThisWeek]]
  /\ UNCHANGED <<clock, hasNews, claimed, mail, enqueued, sent, missed, recapFaults>>

\* claimPeriod: the row is unique by kind and period.
ClaimsUnseen(w) == w \in Weeks  \* mutant
Claims(w) == w \notin claimed

Claim(p) ==
  LET w == recap[p].week IN
  /\ recap[p].at = "claim"
  /\ claimed' = claimed \cup {w}
  /\ recap' = [recap EXCEPT ![p] = IF Claims(w) THEN [@ EXCEPT !.at = "digests"] ELSE NoTick]
  /\ UNCHANGED <<clock, hasNews, mail, enqueued, sent, missed, recapFaults>>

\* buildWeeklyRecapDigests: one for each recipient with new songs.
BuildDigests(p) ==
  /\ recap[p].at = "digests"
  /\ recap' = [recap EXCEPT ![p] = [@ EXCEPT !.at = "enqueue",
                 !.left = {u \in Users : <<recap[p].week, u>> \in hasNews}]]
  /\ UNCHANGED <<clock, hasNews, claimed, mail, enqueued, sent, missed, recapFaults>>

Enqueued(m) == [mail EXCEPT ![m].at = IF @ = "none" THEN "waiting" ELSE @]

Without(p, u) == [recap EXCEPT ![p].left = @ \ {u}]

EnqueueMail(p) ==
  /\ recap[p].at = "enqueue"
  /\ \E u \in recap[p].left :
       LET m == <<recap[p].week, u>> IN
       /\ mail' = Enqueued(m)
       /\ enqueued' = [enqueued EXCEPT ![m] = @ + 1]
       /\ recap' = Without(p, u)
  /\ UNCHANGED <<clock, hasNews, claimed, sent, missed, recapFaults>>

\* Redis does not take the job: the user goes without, the others do not.
AfterRefusalNone(p, u) == [recap EXCEPT ![p].left = {}]  \* mutant
AfterRefusal(p, u) == Without(p, u)

RefuseMail(p) ==
  /\ recap[p].at = "enqueue" /\ recapFaults < MaxRecapFaults
  /\ \E u \in recap[p].left :
       /\ missed' = missed \cup {<<recap[p].week, u>>}
       /\ recap' = AfterRefusal(p, u)
  /\ recapFaults' = recapFaults + 1
  /\ UNCHANGED <<clock, hasNews, claimed, mail, enqueued, sent>>

RecapEnds(p) ==
  /\ recap[p].at = "enqueue" /\ recap[p].left = {}
  /\ recap' = [recap EXCEPT ![p] = NoTick]
  /\ UNCHANGED <<clock, hasNews, claimed, mail, enqueued, sent, missed, recapFaults>>

-----------------------------------------------------------------------------
(* The worker process: processNotificationsJob under BullMQ, which runs a  *)
(* failed job again, and one whose worker is gone.                         *)

TakeMail(m) ==
  /\ mail[m].at = "waiting"
  /\ mail' = [mail EXCEPT ![m].at = "active"]
  /\ UNCHANGED <<clock, hasNews, claimed, recap, enqueued, sent, missed, recapFaults>>

SendMail(m) ==
  /\ mail[m].at = "active"
  /\ sent' = [sent EXCEPT ![m] = @ + 1]
  /\ mail' = [mail EXCEPT ![m].at = "done"]
  /\ UNCHANGED <<clock, hasNews, claimed, recap, enqueued, missed, recapFaults>>

Retried(m) ==
  [mail EXCEPT ![m] = [at |-> IF @.tries + 1 < MailAttempts THEN "waiting" ELSE "failed",
                       tries |-> @.tries + 1]]

\* The mail service refuses, or takes the mail and its answer is lost.
MailFails(m) ==
  /\ mail[m].at = "active" /\ recapFaults < MaxRecapFaults
  /\ recapFaults' = recapFaults + 1
  /\ mail' = Retried(m)
  /\ \E taken \in {0, 1} : sent' = [sent EXCEPT ![m] = @ + taken]
  /\ UNCHANGED <<clock, hasNews, claimed, recap, enqueued, missed>>

\* The worker stops with the mail under way; the job is found stalled.
WorkerGone(m) ==
  /\ mail[m].at = "active" /\ recapFaults < MaxRecapFaults
  /\ recapFaults' = recapFaults + 1
  /\ mail' = [mail EXCEPT ![m].at = "waiting"]
  /\ \E taken \in {0, 1} : sent' = [sent EXCEPT ![m] = @ + taken]
  /\ UNCHANGED <<clock, hasNews, claimed, recap, enqueued, missed>>

\* The tick is cut off: the process stops, the answer to the claim is lost, or
\* the digests cannot be built.  Whoever has no job by then is left out.
RecapCutOff(p) ==
  LET r == recap[p]
      out == IF r.at = "enqueue" THEN r.left ELSE Users
  IN
  /\ r # NoTick /\ recapFaults < MaxRecapFaults
  /\ recapFaults' = recapFaults + 1
  /\ recap' = [recap EXCEPT ![p] = NoTick]
  /\ \/ r.at # "claim" /\ missed' = missed \cup ({r.week} \X out) /\ UNCHANGED claimed
     \/ r.at = "claim" /\ UNCHANGED <<claimed, missed>>
     \/ /\ r.at = "claim" /\ Claims(r.week)
        /\ claimed' = claimed \cup {r.week} /\ missed' = missed \cup ({r.week} \X Users)
  /\ UNCHANGED <<clock, hasNews, mail, enqueued, sent>>

-----------------------------------------------------------------------------
RecapRun(p) == RecapTick(p) \/ Claim(p) \/ BuildDigests(p) \/ EnqueueMail(p) \/ RecapEnds(p)
MailRun(m) == TakeMail(m) \/ SendMail(m)

RecapNext ==
  \/ TimePasses
  \/ \E p \in Processes : RecapRun(p) \/ RefuseMail(p) \/ RecapCutOff(p)
  \/ \E m \in Mails : MailRun(m) \/ MailFails(m) \/ WorkerGone(m)

RecapSpec == RecapInit /\ [][RecapNext]_recapVars

\* The interval, the run and the worker go on.
RecapFairness ==
  /\ \A p \in Processes : WF_recapVars(RecapRun(p))
  /\ \A m \in Mails : WF_recapVars(MailRun(m))

-----------------------------------------------------------------------------
RecapTypeOK ==
  /\ clock \in 0..2 * MaxWeeks - 1 /\ hasNews \subseteq Mails /\ claimed \subseteq Weeks
  /\ recap \in [Processes -> [at : {"idle", "claim", "digests", "enqueue"},
                              week : {0} \cup Weeks, left : SUBSET Users]]
  /\ mail \in [Mails -> [at : {"none", "waiting", "active", "done", "failed"},
                         tries : 0..MailAttempts]]
  /\ enqueued \in [Mails -> Nat] /\ sent \in [Mails -> Nat]
  /\ missed \subseteq Mails /\ recapFaults \in 0..MaxRecapFaults

\* However many processes look and however often they restart, a user is
\* queued one recap a week, and mailed a second time only by the worker's
\* retries.
OneRecapEach ==
  \A m \in Mails : enqueued[m] <= 1 /\ sent[m] <= enqueued[m] + recapFaults

RecapDue(m) == m \in hasNews /\ 2 * m[1] - 1 <= clock
Settled(m) == sent[m] > 0 \/ m \in missed \/ mail[m].at = "failed"

\* Once the send time of a week is past, a user with new songs is mailed,
\* unless the run of that week was cut off after its claim (no restart takes it
\* up again), the queue refused the job, or every attempt at the mail failed.
RecapArrives == []<>(\A m \in Mails : RecapDue(m) => Settled(m))
=============================================================================
