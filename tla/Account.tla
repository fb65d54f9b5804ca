------------------------------ MODULE Account ------------------------------
(***************************************************************************)
(* One user account: its row and password identity, the refresh tokens of  *)
(* its sessions, a browser whose callers (tabs, and the two clients of one *)
(* page) share a cookie jar, the administrator, and the deletion job.      *)
(*                                                                         *)
(* A step ends at an await.  PostgreSQL runs read committed: rotating a    *)
(* token locks its row first and commits the successor later, so a         *)
(* statement over all tokens that starts in between does not see the       *)
(* successor.  A password is the hash stored for it; 0 is none.            *)
(***************************************************************************)
EXTENDS Naturals, FiniteSets

CONSTANTS
  Callers,      \* in the browser
  Jobs,         \* API processes that run the deletion job
  MaxRequests,  \* bound on what the person asks for
  MaxAdmin,     \* bound on what the administrator asks for
  MaxFaults     \* bound on requests and ticks cut off

ASSUME AccountBounds ==
  /\ MaxRequests \in Nat /\ MaxAdmin \in Nat /\ MaxFaults \in Nat
  /\ IsFiniteSet(Callers) /\ IsFiniteSet(Jobs)

VARIABLES
  user,      \* the users row
  identity,  \* the hash in user_auth_identities, 0 when there is no row
  link,      \* a mailed reset token: "none", "active" or "used"
  tokens,    \* refresh_tokens: state, session it belongs to
  issued,    \* how many of them there are
  hashes,    \* how many passwords there have been
  jar,       \* the refresh token in the browser's cookie, 0 when signed out
  req,       \* the request of each caller, with its locals
  admin,     \* the administrator's request
  job,       \* where the tick of each process is, "off" where it has none
  audits,    \* user_deletion_purged entries
  left,      \* history: sessions a revocation of all did not wholly see
  cutoff,    \* history: the tokens issued before the last such revocation
  outs,      \* history: sessions a logout ended
  told,      \* history: what else happened, see Events
  asked, ruled, faults   \* so far: requests, rulings, faults

storeVars == <<user, identity, link, tokens, issued, hashes>>
history   == <<left, cutoff, outs, told>>
counters  == <<asked, ruled, faults>>
vars == <<storeVars, jar, req, admin, job, audits, history, counters>>

Tokens == 1..1 + MaxRequests   \* a request issues one at most
Hashes == 0..1 + MaxRequests   \* and makes one password

\* What the properties make exceptions for.
Events == {"signed out", "ended", "two refreshes", "lost answer", "crossed passwords",
           "cut password", "crossed logout", "written meanwhile", "cut purge", "two purges"}

NoToken == [state |-> "unused", session |-> 0]
Idle == [at |-> "idle", token |-> 0, next |-> 0, hash |-> 0]

Live == {i \in Tokens : tokens[i].state = "live"}

Init ==
  /\ user = [there |-> TRUE, state |-> "active", blocked |-> FALSE, due |-> FALSE,
             hash |-> 1]
  /\ identity \in {0, 1}           \* accounts older than the identities have none
  /\ link \in {"none", "active"}
  /\ tokens = [i \in Tokens |-> IF i = 1 THEN [state |-> "live", session |-> 1] ELSE NoToken]
  /\ issued = 1 /\ hashes = 1 /\ jar = 1
  /\ req = [c \in Callers |-> Idle]
  /\ admin = "idle" /\ audits = 0
  /\ job \in [Jobs -> {"idle", "off"}] /\ \E j \in Jobs : job[j] = "idle"
  /\ left = {} /\ cutoff = 0 /\ outs = {} /\ told = {}
  /\ asked = 0 /\ ruled = 0 /\ faults = 0

-----------------------------------------------------------------------------
(* The parts requests are made of. *)

Go(c, r) == req' = [req EXCEPT ![c] = r]
Goto(c, at) == Go(c, [req[c] EXCEPT !.at = at])
Done(c) == Go(c, Idle)

\* The answer sets the refresh cookie to token i, or clears it.
AnswerWith(c, i) == Go(c, [Idle EXCEPT !.at = "answer", !.token = req[c].token, !.next = i])

Ask(c) ==
  /\ req[c] = Idle /\ asked < MaxRequests
  /\ asked' = asked + 1
  /\ UNCHANGED <<ruled, faults>>

\* Rows a rotation under way has locked.
Locked == {req[c].token : c \in {d \in Callers : req[d].at = "commit"}}

\* revokeAllRefreshTokensByUserId sees what is committed.
RevokedAll == [i \in Tokens |-> IF i \in Live THEN [tokens[i] EXCEPT !.state = "dead"] ELSE tokens[i]]
Unseen == {tokens[req[c].token].session : c \in {d \in Callers : req[d].at = "commit"}}

\* The rows are gone, the sessions they were of remembered.
Deleted == [i \in Tokens |-> [tokens[i] EXCEPT !.state = "unused"]]

RevokeAll ==
  /\ tokens' = RevokedAll
  /\ left' = left \cup Unseen
  /\ cutoff' = issued

\* revokeRefreshTokenByHash
RevokedOneNever(i) == tokens  \* mutant
RevokedOne(i) == IF i \in Live THEN [tokens EXCEPT ![i].state = "dead"] ELSE tokens

-----------------------------------------------------------------------------
(* Signing in and out. *)

\* The reads of login and the check of the password they are for.
Login(c) ==
  /\ Ask(c)
  /\ jar = 0 /\ user.there /\ ~user.blocked
  /\ LET h == IF identity # 0 THEN identity ELSE user.hash IN
       /\ h # 0
       /\ Go(c, IF identity # 0 THEN [Idle EXCEPT !.at = "issue"]
                ELSE [Idle EXCEPT !.at = "legacy", !.hash = h])
  /\ UNCHANGED <<storeVars, jar, admin, job, audits, history>>

\* upsertPasswordIdentity, with the hash that was read, for an old account.
WriteLegacy(c) ==
  /\ req[c].at = "legacy"
  /\ IF user.there THEN identity' = req[c].hash /\ Goto(c, "issue")
     ELSE Done(c) /\ UNCHANGED identity
  /\ UNCHANGED <<user, link, tokens, issued, hashes, jar, admin, job, audits, history, counters>>

\* issueTokens; without the row there is no account to refer to.
Issue(c) ==
  /\ req[c].at = "issue"
  /\ IF user.there
     THEN /\ issued' = issued + 1
          /\ tokens' = [tokens EXCEPT ![issued + 1] = [state |-> "live", session |-> issued + 1]]
          /\ AnswerWith(c, issued + 1)
          /\ told' = told \ {"signed out"}
     ELSE Done(c) /\ UNCHANGED <<issued, tokens, told>>
  /\ UNCHANGED <<user, identity, link, hashes, jar, admin, job, audits, left, cutoff, outs, counters>>

Logout(c) ==
  /\ Ask(c)
  /\ jar # 0
  /\ Go(c, [Idle EXCEPT !.at = "leave", !.token = jar])
  /\ UNCHANGED <<storeVars, jar, admin, job, audits, history>>

\* The refresh token of the cookie is revoked, whoever it was replaced by.
RevokeMine(c) ==
  /\ req[c].at = "leave" /\ req[c].token \notin Locked
  /\ tokens' = RevokedOne(req[c].token)
  /\ AnswerWith(c, 0)
  /\ outs' = outs \cup ({tokens[req[c].token].session} \ {0})
  /\ told' = told \cup {"signed out"}
       \cup (IF req[c].token # jar \/ \E d \in Callers \ {c} : req[d].at # "idle"
             THEN {"crossed logout"} ELSE {})
  /\ UNCHANGED <<user, identity, link, issued, hashes, jar, admin, job, audits, left, cutoff, counters>>

-----------------------------------------------------------------------------
(* Refreshing: on a 401, at any time. *)

Refresh(c) ==
  /\ Ask(c)
  /\ jar # 0
  /\ Go(c, [Idle EXCEPT !.at = "check", !.token = jar])
  /\ told' = IF \E d \in Callers \ {c} : req[d].token = jar
             THEN told \cup {"two refreshes"} ELSE told
  /\ UNCHANGED <<storeVars, jar, admin, job, audits, left, cutoff, outs>>

Accepts(i) == i \in Live /\ user.there /\ ~user.blocked

\* findRefreshTokenByHash, findUserById: what they refuse is revoked.
Check(c) ==
  LET i == req[c].token IN
  /\ req[c].at = "check" /\ i \notin Locked
  /\ IF Accepts(i)
     THEN Goto(c, "rotate") /\ UNCHANGED tokens
     ELSE AnswerWith(c, 0) /\ tokens' = RevokedOne(i)
  /\ UNCHANGED <<user, identity, link, issued, hashes, jar, admin, job, audits, history, counters>>

\* rotateRefreshToken takes the old row only if it is not revoked by now.
RotatableAsRead(i) == tokens[i].state \in {"live", "dead"}  \* mutant
Rotatable(i) == i \in Live

Rotate(c) ==
  LET i == req[c].token IN
  /\ req[c].at = "rotate" /\ i \notin Locked
  /\ IF Rotatable(i)
     THEN /\ issued' = issued + 1
          /\ Go(c, [req[c] EXCEPT !.at = "commit", !.next = issued + 1])
     ELSE AnswerWith(c, 0) /\ UNCHANGED issued
  /\ UNCHANGED <<user, identity, link, tokens, hashes, jar, admin, job, audits, history, counters>>

RotatedThenRevoked(i, n) ==  \* mutant
  [tokens EXCEPT ![i].state = IF @ = "live" THEN "dead" ELSE @,
                 ![n] = [state |-> "dead", session |-> tokens[i].session]]
Rotated(i, n) ==
  [tokens EXCEPT ![i].state = IF @ = "live" THEN "dead" ELSE @,
                 ![n] = [state |-> "live", session |-> tokens[i].session]]

Commit(c) ==
  /\ req[c].at = "commit"
  /\ IF user.there
     THEN tokens' = Rotated(req[c].token, req[c].next) /\ AnswerWith(c, req[c].next)
     ELSE AnswerWith(c, 0) /\ UNCHANGED tokens
  /\ UNCHANGED <<user, identity, link, issued, hashes, jar, admin, job, audits, history, counters>>

\* The browser takes the cookies of an answer as it arrives.
Arrive(c) ==
  /\ req[c].at = "answer"
  /\ jar' = req[c].next
  /\ Done(c)
  /\ UNCHANGED <<storeVars, admin, job, audits, history, counters>>
-----------------------------------------------------------------------------
(* Passwords: the users row first, the identity second. *)

\* Somebody else is between the two writes, or about to write what it read.
OthersWriting(c) == \E d \in Callers \ {c} : req[d].at \in {"legacy", "identity", "pinned"}

\* The reads of change-password, by a person who knows the current one.
ChangePassword(c) ==
  /\ Ask(c)
  /\ jar # 0 /\ user.there /\ ~user.blocked
  /\ user.hash # 0
  /\ Go(c, [Idle EXCEPT !.at = "hash"])
  /\ UNCHANGED <<storeVars, jar, admin, job, audits, history>>

\* The reads of reset-password: the link is used, or its account is gone.
ResetPassword(c) ==
  /\ Ask(c)
  /\ link = "active" /\ user.there
  /\ Go(c, [Idle EXCEPT !.at = "new"])
  /\ UNCHANGED <<storeVars, jar, admin, job, audits, history>>

\* updateUserPasswordById
WriteHash(c) ==
  /\ req[c].at \in {"hash", "new"}
  /\ IF user.there
     THEN /\ hashes' = hashes + 1
          /\ user' = [user EXCEPT !.hash = hashes + 1]
          /\ Go(c, [req[c] EXCEPT !.at = IF @ = "hash" THEN "identity" ELSE "pinned",
                                  !.hash = hashes + 1])
          /\ told' = IF OthersWriting(c) THEN told \cup {"crossed passwords"} ELSE told
     ELSE Done(c) /\ UNCHANGED <<hashes, user, told>>
  /\ UNCHANGED <<identity, link, tokens, issued, jar, admin, job, audits, left, cutoff, outs, counters>>

IdentityKept(hash) == IF identity = 0 THEN hash ELSE identity  \* mutant
IdentityAfter(hash) == hash

\* upsertPasswordIdentity
WriteIdentity(c) ==
  /\ req[c].at \in {"identity", "pinned"}
  /\ IF user.there
     THEN /\ identity' = IdentityAfter(req[c].hash)
          /\ IF req[c].at = "identity" THEN Done(c) ELSE Goto(c, "mark")
     ELSE Done(c) /\ UNCHANGED identity
  /\ UNCHANGED <<user, link, tokens, issued, hashes, jar, admin, job, audits, history, counters>>

\* markPasswordResetTokenUsedById
MarkUsed(c) ==
  /\ req[c].at = "mark"
  /\ link' = IF link = "active" THEN "used" ELSE link
  /\ Goto(c, "end all")
  /\ UNCHANGED <<user, identity, tokens, issued, hashes, jar, admin, job, audits, history, counters>>

EndAll(c) ==
  /\ req[c].at = "end all"
  /\ RevokeAll
  /\ told' = told \cup {"ended"}
  /\ Done(c)
  /\ UNCHANGED <<user, identity, link, issued, hashes, jar, admin, job, audits, outs, counters>>

\* forgot-password mails a link that works beside the ones before it.
Forgot(c) ==
  /\ req[c] = Idle /\ asked < MaxRequests /\ asked' = asked + 1
  /\ user.there /\ user.state # "deleted" /\ link # "active"
  /\ link' = "active"
  /\ UNCHANGED <<user, identity, tokens, issued, hashes, jar, req, admin, job, audits, history, ruled, faults>>

-----------------------------------------------------------------------------
(* The administrator: block, reactivate, request deletion, reset the user  *)
(* flow of a test account.                                                 *)

Rule(at) ==
  /\ admin = "idle" /\ ruled < MaxAdmin /\ user.there
  /\ ruled' = ruled + 1
  /\ admin' = at
  /\ UNCHANGED <<asked, faults>>

\* setUserBlockedStatusById leaves the state of a deletion alone.
Blocking(b) ==
  [user EXCEPT !.blocked = b,
               !.state = IF @ \in {"pending", "deleted"} THEN @ ELSE IF b THEN "blocked" ELSE "active"]

Block ==
  /\ Rule("revoke")
  /\ user' = Blocking(TRUE)
  /\ told' = told \cup {"ended"}
  /\ UNCHANGED <<identity, link, tokens, issued, hashes, jar, req, job, audits, left, cutoff, outs>>

Reactivate ==
  /\ Rule("idle")
  /\ user.blocked
  /\ user' = Blocking(FALSE)
  /\ UNCHANGED <<identity, link, tokens, issued, hashes, jar, req, job, audits, history>>

\* scheduleUserDeletionById, of an account that may be deleted already.
RequestDeletion ==
  /\ Rule("revoke, block")
  /\ user' = [user EXCEPT !.state = "pending", !.blocked = TRUE, !.due = FALSE]
  /\ told' = told \cup {"ended"} \cup (IF user.state = "deleted" THEN {"two purges"} ELSE {})
  /\ UNCHANGED <<identity, link, tokens, issued, hashes, jar, req, job, audits, left, cutoff, outs>>

ResetUserFlow ==
  /\ Rule("revoke, delete")
  /\ told' = told \cup {"ended"}
  /\ UNCHANGED <<storeVars, jar, req, job, audits, left, cutoff, outs>>

AdminRevokes ==
  /\ admin \in {"revoke", "revoke, block", "revoke, delete"}
  /\ RevokeAll
  /\ admin' = CASE admin = "revoke" -> "idle"
                [] admin = "revoke, block" -> "block"
                [] admin = "revoke, delete" -> "delete"
  /\ UNCHANGED <<user, identity, link, issued, hashes, jar, req, job, audits, outs, told, counters>>

AdminEnds ==
  /\ admin \in {"block", "delete"}
  /\ admin' = "idle"
  /\ IF admin = "block"
     THEN user' = Blocking(TRUE) /\ UNCHANGED <<identity, link, tokens>>
     ELSE /\ user' = [user EXCEPT !.there = FALSE]
          /\ identity' = 0 /\ link' = "none"
          /\ tokens' = Deleted
  /\ UNCHANGED <<issued, hashes, jar, req, job, audits, history, counters>>

-----------------------------------------------------------------------------
(* The deletion job. *)

\* The grace period ends; it is longer than any request.
ComesDue ==
  /\ user.state = "pending" /\ ~user.due
  /\ \A c \in Callers : req[c] = Idle
  /\ admin = "idle"
  /\ user' = [user EXCEPT !.due = TRUE]
  /\ UNCHANGED <<identity, link, tokens, issued, hashes, jar, req, admin, job, audits, history, counters>>

Due == user.there /\ user.state = "pending" /\ user.due
DueUnlessBlocked == Due /\ ~user.blocked  \* mutant
ListedAsDue == Due

\* listUsersPendingDeletion finds the account.
ListDue(j) ==
  /\ job[j] = "idle"
  /\ ListedAsDue
  /\ job' = [job EXCEPT ![j] = "anonymize"]
  /\ told' = IF \E k \in Jobs : job[k] = "anonymize" THEN told \cup {"two purges"} ELSE told
  /\ UNCHANGED <<storeVars, jar, req, admin, audits, left, cutoff, outs, counters>>

\* Where a request is about to write to the account without looking again.
Writing == {"legacy", "issue", "commit", "hash", "new", "identity", "pinned"}

PurgedTokensLater == tokens  \* mutant
PurgedTokens == Deleted

Blanked == [user EXCEPT !.state = "deleted", !.blocked = TRUE, !.hash = 0]   \* mutant: still scheduled
Anonymized == [Blanked EXCEPT !.due = FALSE]

\* What is left to do for a purged account.
NoAudit == "idle"  \* mutant
AfterPurge == "audit"

\* anonymizeUserForDeletionById, one transaction.
Anonymize(j) ==
  /\ job[j] = "anonymize"
  /\ IF user.there
     THEN /\ job' = [job EXCEPT ![j] = AfterPurge]
          /\ user' = Anonymized
          /\ identity' = 0 /\ link' = "none"
          /\ tokens' = PurgedTokens
          /\ left' = left \cup Unseen /\ cutoff' = issued
          /\ told' = IF \E c \in Callers : req[c].at \in Writing
                     THEN told \cup {"written meanwhile"} ELSE told
     ELSE /\ job' = [job EXCEPT ![j] = "idle"]
          /\ UNCHANGED <<user, identity, link, tokens, left, cutoff, told>>
  /\ UNCHANGED <<issued, hashes, jar, req, admin, audits, outs, counters>>

\* deleteAvatarImage, then createAdminAuditLog
Audit(j) ==
  /\ job[j] = "audit"
  /\ job' = [job EXCEPT ![j] = "idle"]
  /\ audits' = audits + 1
  /\ UNCHANGED <<storeVars, jar, req, admin, history, counters>>

-----------------------------------------------------------------------------
(* What goes wrong. *)

\* A caller's request is cut off: its process stops, a call of it rejects, or
\* the answer does not reach the browser.  What is not committed is undone.
CutOff(c) ==
  /\ req[c] # Idle /\ faults < MaxFaults
  /\ faults' = faults + 1
  /\ Done(c)
  /\ told' = told
       \cup (IF req[c].at \in {"answer", "issue"} THEN {"lost answer"} ELSE {})
       \cup (IF req[c].at \in {"identity", "pinned"} THEN {"cut password"} ELSE {})
  /\ UNCHANGED <<storeVars, jar, admin, job, audits, left, cutoff, outs, asked, ruled>>

JobCutOff(j) ==
  /\ job[j] \in {"anonymize", "audit"} /\ faults < MaxFaults
  /\ faults' = faults + 1
  /\ job' = [job EXCEPT ![j] = "idle"]
  /\ told' = IF job[j] = "audit" THEN told \cup {"cut purge"} ELSE told
  /\ UNCHANGED <<storeVars, jar, req, admin, audits, left, cutoff, outs, asked, ruled>>

AdminCutOff ==
  /\ admin # "idle" /\ faults < MaxFaults
  /\ faults' = faults + 1
  /\ admin' = "idle"
  /\ UNCHANGED <<storeVars, jar, req, job, audits, history, asked, ruled>>

-----------------------------------------------------------------------------
Step(c) ==
  \/ WriteLegacy(c) \/ Issue(c) \/ RevokeMine(c)
  \/ Check(c) \/ Rotate(c) \/ Commit(c) \/ Arrive(c)
  \/ WriteHash(c) \/ WriteIdentity(c) \/ MarkUsed(c) \/ EndAll(c)

Begin(c) ==
  Login(c) \/ Logout(c) \/ Refresh(c) \/ ChangePassword(c) \/ ResetPassword(c) \/ Forgot(c)

Rulings == Block \/ Reactivate \/ RequestDeletion \/ ResetUserFlow
AdminStep == AdminRevokes \/ AdminEnds

Tick(j) == ListDue(j) \/ Anonymize(j) \/ Audit(j)

Next ==
  \/ \E c \in Callers : Begin(c) \/ Step(c) \/ CutOff(c)
  \/ Rulings \/ AdminStep \/ AdminCutOff \/ ComesDue
  \/ \E j \in Jobs : Tick(j) \/ JobCutOff(j)

Spec == Init /\ [][Next]_vars

\* The interval of the job goes on, what was begun goes on, time passes.
Fairness ==
  /\ \A c \in Callers : WF_vars(Step(c))
  /\ \A j \in Jobs : WF_vars(Tick(j))
  /\ WF_vars(AdminStep) /\ WF_vars(ComesDue)

FairSpec == Spec /\ Fairness

-----------------------------------------------------------------------------
Points == {"idle", "legacy", "issue", "leave", "check", "rotate", "commit", "answer",
           "hash", "new", "identity", "pinned", "mark", "end all"}

TypeOK ==
  /\ user \in [there : BOOLEAN, state : {"active", "blocked", "pending", "deleted"},
               blocked : BOOLEAN, due : BOOLEAN, hash : Hashes]
  /\ user.due => user.state = "pending"
  /\ identity \in Hashes /\ link \in {"none", "active", "used"}
  /\ tokens \in [Tokens -> [state : {"unused", "live", "dead"}, session : {0} \cup Tokens]]
  /\ issued \in Tokens /\ hashes \in Hashes /\ jar \in {0} \cup Tokens
  /\ req \in [Callers -> [at : Points, token : {0} \cup Tokens, next : {0} \cup Tokens, hash : Hashes]]
  /\ admin \in {"idle", "revoke", "revoke, block", "revoke, delete", "block", "delete"}
  /\ job \in [Jobs -> {"off", "idle", "anonymize", "audit"}]
  /\ audits \in 0..MaxAdmin * Cardinality(Jobs)   \* one each time it is requested
  /\ left \subseteq Tokens /\ cutoff \in 0..1 + MaxRequests /\ outs \subseteq Tokens
  /\ told \subseteq Events
  /\ asked \in 0..MaxRequests /\ ruled \in 0..MaxAdmin /\ faults \in 0..MaxFaults

Quiet == \A c \in Callers : req[c] = Idle

\* Of the tokens of a session one at most is live: however many callers
\* present a token at once, rotateRefreshToken gives it one successor.
OneLivePerSession ==
  \A i, k \in Live : tokens[i].session = tokens[k].session => i = k

\* What revokeAllRefreshTokensByUserId, or the purge, ended does not come back:
\* a session begun before has a live token only if a rotation of it was
\* committing just then.
NoneOutlivesRevocation ==
  \A i \in Live : tokens[i].session <= cutoff => tokens[i].session \in left

\* The two copies of the password agree once every request that writes them
\* has ended, unless two of them crossed, one was cut off in the middle, or the
\* purge came between them.
PasswordsAgree ==
  /\ Quiet /\ user.there /\ user.state # "deleted" /\ identity # 0
  /\ told \cap {"crossed passwords", "cut password", "written meanwhile"} = {}
  => identity = user.hash

\* A browser loses its session only because somebody ended it, an answer was
\* lost, or two callers refreshed with the same token.
SignedOutForAReason ==
  Quiet /\ jar = 0 =>
    told \cap {"signed out", "crossed logout", "ended", "lost answer", "two refreshes"} # {}

\* After a logout no token of that session is live and the browser holds none,
\* unless another request was under way or an answer was lost.
LogoutHolds ==
  Quiet /\ told \cap {"crossed logout", "lost answer"} = {} =>
    \A i \in Tokens : tokens[i].session \in outs => i \notin Live /\ i # jar

\* A purged account keeps no password, no link and no session, unless a request
\* that had read it before wrote to it after the purge.
PurgedIsEmpty ==
  user.state = "deleted" /\ "written meanwhile" \notin told =>
    user.hash = 0 /\ identity = 0 /\ link = "none" /\ Live = {}

\* A purge is written to the audit log once, unless its tick was cut off after
\* it, or two processes had listed the account or it was requested twice.
PurgeIsAudited ==
  user.state = "deleted" /\ (\A j \in Jobs : job[j] \in {"off", "idle"}) =>
    /\ audits = 0 => "cut purge" \in told
    /\ audits > 1 => "two purges" \in told

\* An account whose grace period is over is purged, whatever tick is cut off.
DueIsPurged == Due ~> ~Due
=============================================================================
