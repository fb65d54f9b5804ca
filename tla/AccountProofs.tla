--------------------------- MODULE AccountProofs ---------------------------
(***************************************************************************)
(* What holds of an account for any number of callers, of processes that   *)
(* run the deletion job, of requests, rulings and faults.                  *)
(***************************************************************************)
EXTENDS Account, FiniteSetTheorems, TLAPS

UserRows == [there : BOOLEAN, state : {"active", "blocked", "pending", "deleted"},
             blocked : BOOLEAN, due : BOOLEAN, hash : Nat]
AToken   == [state : {"unused", "live", "dead"}, session : Nat]
Requests == [at : Points, token : Nat, next : Nat, hash : Nat]

\* The types the proofs need, whatever the bounds.
Shape ==
  /\ user \in UserRows
  /\ identity \in Nat /\ hashes \in Nat /\ jar \in Nat
  /\ tokens \in [Tokens -> AToken]
  /\ issued \in Nat /\ cutoff \in Nat
  /\ req \in [Callers -> Requests]

LEMMA IdleIsRequest == Idle \in Requests
  BY DEF Idle, Requests, Points

LEMMA InitShape == Init => Shape
  BY IdleIsRequest DEF Init, Shape, UserRows, AToken, NoToken

-----------------------------------------------------------------------------
(* What each step writes. *)

LEMMA Goes ==
  ASSUME NEW r \in Requests, NEW at \in Points, NEW n \in Nat
  PROVE  /\ [r EXCEPT !.at = at, !.next = n] \in Requests
         /\ [r EXCEPT !.at = at, !.hash = n] \in Requests
<1>1. ASSUME NEW q \in Requests
      PROVE  [q EXCEPT !.next = n] \in Requests /\ [q EXCEPT !.hash = n] \in Requests
  BY <1>1 DEF Requests
<1>2. [r EXCEPT !.at = at] \in Requests
  BY DEF Requests
<1>3. /\ [[r EXCEPT !.at = at] EXCEPT !.next = n] \in Requests
      /\ [[r EXCEPT !.at = at] EXCEPT !.hash = n] \in Requests
  BY <1>1, <1>2
<1> QED BY <1>3

\* A caller's request: it is another one afterwards, the others' are not.
LEMMA CallerSteps ==
  ASSUME Shape, NEW c \in Callers, Begin(c) \/ Step(c) \/ CutOff(c)
  PROVE  \E r \in Requests : req' = [req EXCEPT ![c] = r]
<1> USE IdleIsRequest DEF Go, Goto, Done, AnswerWith, Ask
<1>1. req[c] \in Requests /\ req = [req EXCEPT ![c] = req[c]]
  BY DEF Shape
<1>2. ASSUME NEW at \in Points PROVE [req[c] EXCEPT !.at = at] \in Requests
  BY <1>1 DEF Requests
<1>3. ASSUME NEW i \in Nat
      PROVE  [Idle EXCEPT !.at = "answer", !.token = req[c].token, !.next = i] \in Requests
  BY <1>1 DEF Requests, Points
<1>4. issued \in Nat /\ hashes \in Nat /\ jar \in Nat /\ identity \in Nat /\ user.hash \in Nat
  BY DEF Shape, UserRows
<1>5. CASE Begin(c)
  <2>1. CASE Login(c)
    <3>1. [Idle EXCEPT !.at = "issue"] \in Requests
      BY DEF Requests, Points
    <3>2. [Idle EXCEPT !.at = "legacy", !.hash = user.hash] \in Requests
      BY <1>4 DEF Requests, Points
    <3> QED BY <2>1, <3>1, <3>2 DEF Login
  <2>2. CASE Logout(c)
    <3>1. [Idle EXCEPT !.at = "leave", !.token = jar] \in Requests
      BY <1>4 DEF Requests, Points
    <3> QED BY <2>2, <3>1 DEF Logout
  <2>3. CASE Refresh(c)
    <3>1. [Idle EXCEPT !.at = "check", !.token = jar] \in Requests
      BY <1>4 DEF Requests, Points
    <3> QED BY <2>3, <3>1 DEF Refresh
  <2>4. CASE ChangePassword(c)
    <3>1. [Idle EXCEPT !.at = "hash"] \in Requests
      BY DEF Requests, Points
    <3> QED BY <2>4, <3>1 DEF ChangePassword
  <2>5. CASE ResetPassword(c)
    <3>1. [Idle EXCEPT !.at = "new"] \in Requests
      BY DEF Requests, Points
    <3> QED BY <2>5, <3>1 DEF ResetPassword
  <2>6. CASE Forgot(c)  BY <1>1, <2>6 DEF Forgot
  <2> QED BY <1>5, <2>1, <2>2, <2>3, <2>4, <2>5, <2>6 DEF Begin
<1>6. CASE Step(c)
  <2>1. CASE WriteLegacy(c)    BY <1>2, <2>1 DEF WriteLegacy, Points
  <2>2. CASE Issue(c)
    <3>1. issued + 1 \in Nat  BY <1>4
    <3> QED BY <1>3, <2>2, <3>1 DEF Issue
  <2>3. CASE RevokeMine(c)     BY <1>3, <2>3 DEF RevokeMine
  <2>4. CASE Check(c)          BY <1>2, <1>3, <2>4 DEF Check, Points
  <2>5. CASE Rotate(c)
    <3>1. [req[c] EXCEPT !.at = "commit", !.next = issued + 1] \in Requests
      <4>1. "commit" \in Points /\ issued + 1 \in Nat  BY <1>4 DEF Points
      <4> QED BY <1>1, <4>1, Goes
    <3> QED BY <1>3, <2>5, <3>1 DEF Rotate
  <2>6. CASE Commit(c)
    <3>1. req[c].next \in Nat  BY <1>1 DEF Requests
    <3> QED BY <1>3, <2>6, <3>1 DEF Commit
  <2>7. CASE Arrive(c) \/ EndAll(c)  BY <2>7 DEF Arrive, EndAll
  <2>8. CASE WriteHash(c)
    <3>1. [req[c] EXCEPT !.at = IF @ = "hash" THEN "identity" ELSE "pinned", !.hash = hashes + 1]
            \in Requests
      <4>1. (IF req[c].at = "hash" THEN "identity" ELSE "pinned") \in Points /\ hashes + 1 \in Nat
        BY <1>4 DEF Points
      <4> QED BY <1>1, <4>1, Goes
    <3> QED BY <2>8, <3>1 DEF WriteHash
  <2>9. CASE WriteIdentity(c)  BY <1>2, <2>9 DEF WriteIdentity, Points
  <2>10. CASE MarkUsed(c)      BY <1>2, <2>10 DEF MarkUsed, Points
  <2> QED BY <1>6, <2>1, <2>2, <2>3, <2>4, <2>5, <2>6, <2>7, <2>8, <2>9, <2>10 DEF Step
<1>7. CASE CutOff(c)  BY <1>7 DEF CutOff
<1> QED BY <1>5, <1>6, <1>7

LEMMA NextReqShape == Shape /\ [Next]_vars => req' \in [Callers -> Requests]
<1> SUFFICES ASSUME Shape, [Next]_vars, req' # req PROVE req' \in [Callers -> Requests]
  BY DEF Shape
<1>1. PICK c \in Callers : Begin(c) \/ Step(c) \/ CutOff(c)
  BY DEF Next, vars, Rulings, Block, Reactivate, RequestDeletion, ResetUserFlow, Rule, AdminStep,
     AdminRevokes, AdminEnds, AdminCutOff, ComesDue, Tick, ListDue, Anonymize, Audit, JobCutOff
<1>2. PICK r \in Requests : req' = [req EXCEPT ![c] = r]
  BY <1>1, CallerSteps
<1> QED BY <1>2 DEF Shape

\* Whoever else writes to the account.
Others ==
  \/ Rulings \/ AdminStep \/ AdminCutOff \/ ComesDue
  \/ \E j \in Jobs : Tick(j) \/ JobCutOff(j)

\* The ways the refresh tokens go that leave none more than there were.
Fading ==
  /\ tokens' \in [Tokens -> AToken]
  /\ \A i \in Tokens : /\ tokens'[i].session = tokens[i].session
                       /\ tokens'[i].state = "live" => tokens[i].state = "live"

LEMMA TokensFade ==
  ASSUME Shape
  PROVE  /\ tokens' = tokens => Fading
         /\ tokens' = RevokedAll => Fading /\ \A i \in Tokens : tokens'[i].state # "live"
         /\ tokens' = Deleted => Fading /\ \A i \in Tokens : tokens'[i].state # "live"
         /\ \A i : tokens' = RevokedOne(i) => Fading
<1>1. tokens \in [Tokens -> AToken]
  BY DEF Shape
<1>2. ASSUME NEW i \in Tokens, NEW s \in {"unused", "live", "dead"}
      PROVE  LET x == [tokens[i] EXCEPT !.state = s] IN
             x \in AToken /\ x.session = tokens[i].session /\ x.state = s
  BY <1>1 DEF AToken
<1>3. ASSUME tokens' = RevokedAll PROVE Fading /\ \A i \in Tokens : tokens'[i].state # "live"
  BY <1>1, <1>2, <1>3 DEF RevokedAll, Fading, Live
<1>4. ASSUME tokens' = Deleted PROVE Fading /\ \A i \in Tokens : tokens'[i].state # "live"
  BY <1>1, <1>2, <1>4 DEF Deleted, Fading
<1>5. ASSUME NEW i, tokens' = RevokedOne(i) PROVE Fading
  <2>1. CASE i \in Live
    <3>1. tokens' = [tokens EXCEPT ![i] = [tokens[i] EXCEPT !.state = "dead"]]
      BY <1>5, <2>1 DEF RevokedOne
    <3> QED BY <1>1, <1>2, <2>1, <3>1 DEF Fading, Live
  <2>2. CASE i \notin Live
    BY <1>1, <1>5, <2>2 DEF RevokedOne, Fading
  <2> QED BY <2>1, <2>2
<1> QED BY <1>1, <1>3, <1>4, <1>5 DEF Fading

\* The revocation of all is accounted for, where there is one.
Accounted ==
  \/ UNCHANGED <<left, cutoff>>
  \/ left' = left \cup Unseen /\ cutoff' = issued /\ \A i \in Tokens : tokens'[i].state # "live"

\* What is neither Issue, nor Rotate, nor Commit.
LEMMA OthersFade ==
  ASSUME Shape, Others \/ UNCHANGED vars
  PROVE  Fading /\ Accounted /\ UNCHANGED <<issued, req>>
<1> USE TokensFade DEF Accounted
<1>1. CASE UNCHANGED vars
  BY <1>1 DEF vars, storeVars, history
<1>2. CASE Rulings
  BY <1>2 DEF Rulings, Block, Reactivate, RequestDeletion, ResetUserFlow, storeVars, history
<1>3. CASE AdminStep
  <2>1. CASE AdminRevokes  BY <2>1 DEF AdminRevokes, RevokeAll
  <2>2. CASE AdminEnds     BY <2>2 DEF AdminEnds, history
  <2> QED BY <1>3, <2>1, <2>2 DEF AdminStep
<1>4. CASE AdminCutOff \/ ComesDue
  BY <1>4 DEF AdminCutOff, ComesDue, storeVars, history
<1>5. ASSUME NEW j \in Jobs, Tick(j) \/ JobCutOff(j)
      PROVE  Fading /\ Accounted /\ UNCHANGED <<issued, req>>
  <2>1. CASE Anonymize(j)
    BY <2>1 DEF Anonymize, PurgedTokens
  <2>2. CASE ListDue(j) \/ Audit(j) \/ JobCutOff(j)
    BY <2>2 DEF ListDue, Audit, JobCutOff, storeVars, history
  <2> QED BY <1>5, <2>1, <2>2 DEF Tick
<1> QED BY <1>1, <1>2, <1>3, <1>4, <1>5 DEF Others

LEMMA CallersFade ==
  ASSUME Shape, NEW c \in Callers, Begin(c) \/ Step(c) \/ CutOff(c),
         ~(Issue(c) \/ Rotate(c) \/ Commit(c))
  PROVE  Fading /\ Accounted /\ UNCHANGED issued
<1> USE TokensFade DEF Accounted
<1>1. CASE Begin(c) \/ CutOff(c)
  BY <1>1 DEF Begin, Login, Logout, Refresh, ChangePassword, ResetPassword, Forgot, CutOff,
     storeVars, history
<1>2. CASE WriteLegacy(c) \/ Arrive(c) \/ WriteHash(c) \/ WriteIdentity(c) \/ MarkUsed(c)
  BY <1>2 DEF WriteLegacy, Arrive, WriteHash, WriteIdentity, MarkUsed, storeVars, history
<1>3. CASE RevokeMine(c)
  <2>1. tokens' = RevokedOne(req[c].token) /\ UNCHANGED <<left, cutoff, issued>>
    BY <1>3 DEF RevokeMine
  <2> QED BY <2>1
<1>4. CASE Check(c)
  <2>1. tokens' = tokens \/ tokens' = RevokedOne(req[c].token)
    BY <1>4 DEF Check
  <2> QED BY <1>4, <2>1 DEF Check, history
<1>5. CASE EndAll(c)
  BY <1>5 DEF EndAll, RevokeAll
<1> QED BY <1>1, <1>2, <1>3, <1>4, <1>5 DEF Step

\* Whoever was not about to commit a rotation is not, but by Rotate.
LEMMA CommittersStay ==
  ASSUME Shape, NEW c \in Callers, Begin(c) \/ Step(c) \/ CutOff(c),
         ~(Issue(c) \/ Rotate(c) \/ Commit(c))
  PROVE  \A d \in Callers : req'[d].at = "commit" => req'[d] = req[d]
<1>1. req \in [Callers -> Requests]
  BY DEF Shape
<1>2. ASSUME NEW r, r.at # "commit", req' = [req EXCEPT ![c] = r]
      PROVE  \A d \in Callers : req'[d].at = "commit" => req'[d] = req[d]
  BY <1>1, <1>2
<1>3. Idle.at # "commit"
  BY DEF Idle
<1>4. ASSUME NEW at, at # "commit", req' = [req EXCEPT ![c] = [req[c] EXCEPT !.at = at]]
      PROVE  \A d \in Callers : req'[d].at = "commit" => req'[d] = req[d]
  <2>1. [req[c] EXCEPT !.at = at].at = at
    BY <1>1 DEF Requests
  <2> QED BY <1>1, <1>4, <2>1
<1>5. ASSUME NEW i, AnswerWith(c, i) PROVE \A d \in Callers : req'[d].at = "commit" => req'[d] = req[d]
  BY <1>1, <1>5 DEF AnswerWith, Go, Idle
<1>6. CASE Begin(c)
  <2>1. CASE Login(c)           BY <1>1, <2>1 DEF Login, Go, Idle
  <2>2. CASE Logout(c)          BY <1>1, <2>2 DEF Logout, Go, Idle
  <2>3. CASE Refresh(c)         BY <1>1, <2>3 DEF Refresh, Go, Idle
  <2>4. CASE ChangePassword(c)  BY <1>1, <2>4 DEF ChangePassword, Go, Idle
  <2>5. CASE ResetPassword(c)   BY <1>1, <2>5 DEF ResetPassword, Go, Idle
  <2>6. CASE Forgot(c)          BY <2>6 DEF Forgot
  <2> QED BY <1>6, <2>1, <2>2, <2>3, <2>4, <2>5, <2>6 DEF Begin
<1>7. CASE Step(c)
  <2>1. CASE WriteLegacy(c)     BY <1>2, <1>3, <1>4, <2>1 DEF WriteLegacy, Goto, Done, Go
  <2>2. CASE RevokeMine(c)      BY <1>5, <2>2 DEF RevokeMine
  <2>3. CASE Check(c)           BY <1>4, <1>5, <2>3 DEF Check, Goto, Go
  <2>4. CASE Arrive(c) \/ EndAll(c)
    BY <1>2, <1>3, <2>4 DEF Arrive, EndAll, Done, Go
  <2>5. CASE WriteHash(c)
    <3> DEFINE r == [req[c] EXCEPT !.at = IF @ = "hash" THEN "identity" ELSE "pinned", !.hash = hashes + 1]
    <3>1. r.at # "commit"
      BY <1>1 DEF Requests
    <3>2. req' = [req EXCEPT ![c] = r] \/ req' = [req EXCEPT ![c] = Idle]
      BY <2>5 DEF WriteHash, Done, Go
    <3> HIDE DEF r
    <3> QED BY <1>2, <1>3, <3>1, <3>2
  <2>6. CASE WriteIdentity(c)   BY <1>2, <1>3, <1>4, <2>6 DEF WriteIdentity, Goto, Done, Go
  <2>7. CASE MarkUsed(c)        BY <1>4, <2>7 DEF MarkUsed, Goto, Go
  <2> QED BY <1>7, <2>1, <2>2, <2>3, <2>4, <2>5, <2>6, <2>7 DEF Step
<1>8. CASE CutOff(c)  BY <1>2, <1>3, <1>8 DEF CutOff, Done, Go
<1> QED BY <1>6, <1>7, <1>8

\* The row of the account is only ever blocked, given another password, put
\* into another state, or lost.
LEMMA UserWrites ==
  ASSUME Shape, [Next]_vars
  PROVE  /\ user' \in UserRows /\ identity' \in Nat /\ hashes' \in Nat /\ jar' \in Nat
<1>1. /\ user \in UserRows /\ identity \in Nat /\ hashes \in Nat /\ jar \in Nat
      /\ req \in [Callers -> Requests]
  BY DEF Shape
<1>2. \A c \in Callers : req[c].next \in Nat /\ req[c].hash \in Nat
  BY <1>1 DEF Requests
<1>3. CASE UNCHANGED vars
  BY <1>1, <1>3 DEF vars, storeVars
<1>4. CASE Rulings \/ AdminStep \/ AdminCutOff \/ ComesDue
  <2>1. UNCHANGED <<hashes, jar>> /\ identity' \in {identity, 0}
    BY <1>4 DEF Rulings, Block, Reactivate, RequestDeletion, ResetUserFlow, AdminStep, AdminRevokes,
       AdminEnds, AdminCutOff, ComesDue, storeVars
  <2>3. ASSUME Block \/ Reactivate PROVE user' \in UserRows
    <3>1. user' = Blocking(TRUE) \/ user' = Blocking(FALSE)
      BY <2>3 DEF Block, Reactivate
    <3>2. ASSUME user' = Blocking(TRUE) PROVE user' \in UserRows
      BY <1>1, <3>2 DEF Blocking, UserRows
    <3>3. ASSUME user' = Blocking(FALSE) PROVE user' \in UserRows
      BY <1>1, <3>3 DEF Blocking, UserRows
    <3> QED BY <3>1, <3>2, <3>3
  <2>4. CASE RequestDeletion
    BY <1>1, <2>4 DEF RequestDeletion, UserRows
  <2>5. CASE ResetUserFlow \/ AdminRevokes \/ AdminCutOff
    BY <1>1, <2>5 DEF ResetUserFlow, AdminRevokes, AdminCutOff, storeVars
  <2>6. ASSUME AdminEnds PROVE user' \in UserRows
    <3>1. [user EXCEPT !.there = FALSE] \in UserRows
      BY <1>1 DEF UserRows
    <3>2. user' = Blocking(TRUE) \/ user' = [user EXCEPT !.there = FALSE]
      BY <2>6 DEF AdminEnds
    <3>3. ASSUME user' = Blocking(TRUE) PROVE user' \in UserRows
      BY <1>1, <3>3 DEF Blocking, UserRows
    <3> QED BY <3>1, <3>2, <3>3
  <2>7. CASE ComesDue
    BY <1>1, <2>7 DEF ComesDue, UserRows
  <2>8. user' \in UserRows
    BY <1>4, <2>3, <2>4, <2>5, <2>6, <2>7 DEF Rulings, AdminStep
  <2> QED BY <1>1, <2>1, <2>8
<1>5. ASSUME NEW j \in Jobs, Tick(j) \/ JobCutOff(j)
      PROVE  user' \in UserRows /\ identity' \in Nat /\ UNCHANGED <<hashes, jar>>
  <2>1. CASE Anonymize(j)
    <3>1. Anonymized \in UserRows
      BY <1>1 DEF Anonymized, Blanked, UserRows
    <3>2. user' \in {user, Anonymized} /\ identity' \in {identity, 0} /\ UNCHANGED <<hashes, jar>>
      BY <2>1 DEF Anonymize
    <3> QED BY <1>1, <3>1, <3>2
  <2>2. CASE ListDue(j) \/ Audit(j) \/ JobCutOff(j)
    BY <1>1, <2>2 DEF ListDue, Audit, JobCutOff, storeVars
  <2> QED BY <1>5, <2>1, <2>2 DEF Tick
<1>6. ASSUME NEW c \in Callers, Begin(c) \/ CutOff(c)
      PROVE  UNCHANGED <<user, identity, hashes, jar>>
  BY <1>6 DEF Begin, Login, Logout, Refresh, ChangePassword, ResetPassword, Forgot, CutOff, storeVars
<1>7. ASSUME NEW c \in Callers, Step(c)
      PROVE  /\ user' \in UserRows /\ identity' \in Nat /\ hashes' \in Nat /\ jar' \in Nat
  <2>1. CASE WriteHash(c)
    <3>1. hashes + 1 \in Nat /\ [user EXCEPT !.hash = hashes + 1] \in UserRows
      BY <1>1 DEF UserRows
    <3> QED BY <1>1, <2>1, <3>1 DEF WriteHash
  <2>2. CASE WriteLegacy(c)    BY <1>1, <1>2, <2>2 DEF WriteLegacy
  <2>3. CASE WriteIdentity(c)  BY <1>1, <1>2, <2>3 DEF WriteIdentity, IdentityAfter
  <2>4. CASE Arrive(c)         BY <1>1, <1>2, <2>4 DEF Arrive, storeVars
  <2>5. CASE Issue(c) \/ RevokeMine(c) \/ Check(c) \/ Rotate(c) \/ Commit(c) \/ MarkUsed(c) \/ EndAll(c)
    BY <1>1, <2>5 DEF Issue, RevokeMine, Check, Rotate, Commit, MarkUsed, EndAll
  <2> QED BY <1>7, <2>1, <2>2, <2>3, <2>4, <2>5 DEF Step
<1> QED BY <1>1, <1>3, <1>4, <1>5, <1>6, <1>7 DEF Next

-----------------------------------------------------------------------------
(* Sessions. *)

\* Two callers about to commit rotate tokens of different sessions, to
\* different new ones.
Apart(c, d) ==
  /\ req[c].next # req[d].next
  /\ tokens[req[c].token].session # tokens[req[d].token].session

\* Caller c, about to commit, holds the one token of its session that may be
\* live, and a number nobody has used for the next.
Holds(c) ==
  LET i == req[c].token  n == req[c].next IN
  /\ i \in Tokens /\ tokens[i].session # 0
  /\ n <= issued /\ (n \in Tokens => tokens[n].session = 0)
  /\ \A k \in Live : tokens[k].session = tokens[i].session => k = i
  /\ tokens[i].session <= cutoff => tokens[i].session \in left

\* Sessions are numbered by the token they began with.
Numbered ==
  /\ cutoff <= issued
  /\ \A i \in Tokens : /\ tokens[i].session <= issued
                       /\ i > issued => tokens[i].session = 0
                       /\ i \in Live => tokens[i].session # 0

Commits == {c \in Callers : req[c].at = "commit"}

SessionInv ==
  /\ Numbered
  /\ \A c \in Commits : Holds(c)
  /\ \A c, d \in Commits : c # d => Apart(c, d)
  /\ OneLivePerSession
  /\ NoneOutlivesRevocation

LEMMA FadingKeeps ==
  ASSUME Shape, SessionInv, Fading, Accounted, issued' = issued,
         \A d \in Callers : req'[d].at = "commit" => req'[d] = req[d]
  PROVE  SessionInv'
<1>1. /\ tokens \in [Tokens -> AToken] /\ issued \in Nat /\ cutoff \in Nat
      /\ \A i \in Tokens : tokens[i].session \in Nat
  BY DEF Shape, AToken
<1>2. Live' \subseteq Live /\ \A i \in Tokens : tokens'[i].session = tokens[i].session
  BY DEF Fading, Live
<1>3. Commits' \subseteq Commits /\ \A c \in Commits' : req'[c] = req[c]
  BY DEF Commits
<1>4. Numbered'
  BY <1>1, <1>2 DEF SessionInv, Numbered, Accounted
<1>5. ASSUME NEW c \in Commits' PROVE Holds(c)'
  <2>1. Holds(c) /\ c \in Commits /\ req'[c] = req[c]
    BY <1>3 DEF SessionInv
  <2> DEFINE i == req[c].token
  <2>2. i \in Tokens /\ tokens'[i].session = tokens[i].session
    BY <1>2, <2>1 DEF Holds
  <2>3. \A k \in Live' : tokens'[k].session = tokens'[i].session => k = i
    BY <1>2, <2>1, <2>2 DEF Holds, Live
  <2>4. req[c].next \in Tokens => tokens'[req[c].next].session = 0
    BY <1>2, <2>1 DEF Holds
  <2>5. tokens'[i].session <= cutoff' => tokens'[i].session \in left'
    <3>1. CASE UNCHANGED <<left, cutoff>>
      BY <2>1, <2>2, <3>1 DEF Holds
    <3>2. CASE left' = left \cup Unseen
      BY <2>1, <2>2, <3>2 DEF Unseen, Commits
    <3> QED BY <3>1, <3>2 DEF Accounted
  <2> QED BY <2>1, <2>2, <2>3, <2>4, <2>5 DEF Holds
<1>6. ASSUME NEW c \in Commits', NEW d \in Commits', c # d PROVE Apart(c, d)'
  <2>1. Apart(c, d) /\ Holds(c) /\ Holds(d)
    BY <1>3, <1>6 DEF SessionInv
  <2> QED BY <1>2, <1>3, <2>1 DEF Apart, Holds
<1>7. OneLivePerSession'
  BY <1>2 DEF SessionInv, OneLivePerSession, Live
<1>8. NoneOutlivesRevocation'
  BY <1>2 DEF SessionInv, NoneOutlivesRevocation, Accounted, Live
<1> QED BY <1>4, <1>5, <1>6, <1>7, <1>8 DEF SessionInv

LEMMA TokensAreNumbers == \A i \in Tokens : i \in Nat /\ i > 0
  BY AccountBounds DEF Tokens

\* A session begins: with a number above those of all others.
LEMMA IssueKeeps ==
  ASSUME Shape, SessionInv, NEW c \in Callers, Issue(c)
  PROVE  SessionInv' /\ tokens' \in [Tokens -> AToken] /\ issued' \in Nat /\ cutoff' = cutoff
<1>1. /\ tokens \in [Tokens -> AToken] /\ issued \in Nat /\ cutoff \in Nat
      /\ \A i \in Tokens : tokens[i].session \in Nat
      /\ req \in [Callers -> Requests]
  BY DEF Shape, AToken
<1>2. UNCHANGED <<left, cutoff>> /\ req[c].at = "issue"
  BY DEF Issue
<1>3. CASE ~user.there
  <2>1. UNCHANGED <<tokens, issued>> /\ req' = [req EXCEPT ![c] = Idle]
    BY <1>3 DEF Issue, Done, Go
  <2>2. \A d \in Callers : req'[d].at = "commit" => req'[d] = req[d]
    BY <1>1, <2>1 DEF Idle
  <2>3. Fading /\ Accounted
    BY <1>1, <1>2, <2>1 DEF Fading, Accounted
  <2> QED BY <1>1, <1>2, <2>1, <2>2, <2>3, FadingKeeps
<1>4. CASE user.there
  <2> DEFINE n == issued + 1
  <2>1. /\ issued' = n /\ tokens' = [tokens EXCEPT ![n] = [state |-> "live", session |-> n]]
        /\ req' = [req EXCEPT ![c] = [Idle EXCEPT !.at = "answer", !.token = req[c].token, !.next = n]]
    BY <1>4 DEF Issue, AnswerWith, Go
  <2>2. /\ tokens' \in [Tokens -> AToken]
        /\ \A i \in Tokens : tokens'[i] = IF i = n THEN [state |-> "live", session |-> n] ELSE tokens[i]
    <3>1. [state |-> "live", session |-> n] \in AToken /\ n \in Nat
      BY <1>1 DEF AToken
    <3>2. \A i \in Tokens : tokens'[i] = IF i = n THEN [state |-> "live", session |-> n] ELSE tokens[i]
      BY <1>1, <2>1
    <3>3. tokens' = [i \in Tokens |-> tokens'[i]]
      BY <1>1, <2>1
    <3>4. \A i \in Tokens : tokens'[i] \in AToken
      BY <1>1, <3>1, <3>2
    <3> QED BY <3>2, <3>3, <3>4
  <2>3. Commits' \subseteq Commits /\ \A d \in Commits' : req'[d] = req[d]
    BY <1>1, <2>1 DEF Commits, Idle
  <2>4. \A i \in Tokens : /\ i # n => (i \in Live' <=> i \in Live) /\ tokens'[i].session = tokens[i].session
                          /\ i = n => tokens'[i].session = n
    BY <2>2 DEF Live
  <2>5. /\ cutoff <= issued
        /\ \A i \in Tokens : /\ tokens[i].session <= issued
                             /\ i > issued => tokens[i].session = 0
                             /\ i \in Live => tokens[i].session # 0
    BY DEF SessionInv, Numbered
  <2>6. Numbered'
    BY <1>1, <1>2, <2>1, <2>4, <2>5, TokensAreNumbers DEF Numbered, Live
  <2>7. ASSUME NEW d \in Commits' PROVE Holds(d)'
    <3> DEFINE i == req[d].token
               k == req[d].next
    <3>1. Holds(d) /\ req'[d] = req[d]
      BY <2>3, <2>7 DEF SessionInv
    <3>2. i \in Tokens /\ i # n /\ k # n /\ k \in Nat
      BY <1>1, <2>3, <2>5, <2>7, <3>1 DEF Holds, Commits, Requests, Tokens
    <3>3. tokens'[i].session = tokens[i].session /\ tokens'[i].session # n
      BY <1>1, <2>4, <2>5, <3>2
    <3>4. \A j \in Live' : tokens'[j].session = tokens'[i].session => j = i
      BY <2>4, <3>1, <3>2, <3>3 DEF Holds, Live
    <3>5. k <= issued' /\ (k \in Tokens => tokens'[k].session = 0)
      BY <1>1, <2>1, <2>4, <3>1, <3>2 DEF Holds
    <3> QED BY <1>2, <3>1, <3>2, <3>3, <3>4, <3>5 DEF Holds
  <2>8. ASSUME NEW d \in Commits', NEW e \in Commits', d # e PROVE Apart(d, e)'
    <3>1. Apart(d, e) /\ Holds(d) /\ Holds(e) /\ req'[d] = req[d] /\ req'[e] = req[e]
      BY <2>3, <2>8 DEF SessionInv
    <3>2. req[d].token # n /\ req[e].token # n
      BY <1>1, <2>5, <3>1 DEF Holds
    <3> QED BY <2>4, <3>1, <3>2 DEF Apart, Holds
  <2>9. OneLivePerSession'
    BY <1>1, <2>4, <2>5 DEF SessionInv, OneLivePerSession, Live
  <2>10. NoneOutlivesRevocation'
    BY <1>1, <1>2, <2>4, <2>5 DEF SessionInv, NoneOutlivesRevocation, Live
  <2> QED BY <1>1, <1>2, <2>1, <2>2, <2>6, <2>7, <2>8, <2>9, <2>10 DEF SessionInv
<1> QED BY <1>3, <1>4

\* Two callers do not rotate one token: the first has locked its row.
LEMMA RotateKeeps ==
  ASSUME Shape, SessionInv, NEW c \in Callers, Rotate(c)
  PROVE  SessionInv' /\ tokens' = tokens /\ issued' \in Nat /\ cutoff' = cutoff
<1>1. /\ tokens \in [Tokens -> AToken] /\ issued \in Nat /\ cutoff \in Nat
      /\ \A i \in Tokens : tokens[i].session \in Nat
      /\ req \in [Callers -> Requests]
  BY DEF Shape, AToken
<1>2. UNCHANGED <<tokens, left, cutoff>> /\ req[c].token \notin Locked
  BY DEF Rotate, history
<1> DEFINE i == req[c].token
           n == issued + 1
<1>3. CASE ~Rotatable(i)
  <2>1. issued' = issued /\ req' = [req EXCEPT ![c] = [Idle EXCEPT !.at = "answer", !.token = i, !.next = 0]]
    BY <1>3 DEF Rotate, AnswerWith, Go
  <2>2. \A d \in Callers : req'[d].at = "commit" => req'[d] = req[d]
    BY <1>1, <2>1 DEF Idle
  <2>3. Fading /\ Accounted
    BY <1>1, <1>2 DEF Fading, Accounted
  <2> QED BY <1>1, <1>2, <2>1, <2>2, <2>3, FadingKeeps
<1>4. CASE Rotatable(i)
  <2>1. i \in Live /\ issued' = n /\ req' = [req EXCEPT ![c] = [req[c] EXCEPT !.at = "commit", !.next = n]]
    BY <1>4 DEF Rotate, Rotatable, Go
  <2>2. \A r \in Requests : LET q == [r EXCEPT !.at = "commit", !.next = n] IN
                            q.token = r.token /\ q.next = n /\ q.at = "commit"
    BY DEF Requests
  <2>3. /\ req'[c].token = i /\ req'[c].next = n
        /\ \A d \in Callers \ {c} : req'[d] = req[d]
    BY <1>1, <2>1, <2>2
  <2>4. Live' = Live /\ i \in Tokens
    BY <1>2, <2>1 DEF Live
  <2>5. Commits' \subseteq Commits \cup {c}
    BY <2>3 DEF Commits
  <2>6. Numbered'
    BY <1>1, <1>2, <2>1, <2>4, TokensAreNumbers DEF SessionInv, Numbered
  <2>7. ASSUME NEW d \in Commits' PROVE Holds(d)'
    <3>1. CASE d = c
      <4>1. n \in Tokens => tokens[n].session = 0
        BY <1>1 DEF SessionInv, Numbered
      <4>2. tokens[i].session # 0
        BY <2>1, <2>4 DEF SessionInv, Numbered
      <4>3. tokens[i].session <= cutoff => tokens[i].session \in left
        BY <2>1 DEF SessionInv, NoneOutlivesRevocation
      <4>4. \A k \in Live : tokens[k].session = tokens[i].session => k = i
        BY <2>1 DEF SessionInv, OneLivePerSession
      <4> QED BY <1>1, <1>2, <2>1, <2>3, <2>4, <3>1, <4>1, <4>2, <4>3, <4>4 DEF Holds
    <3>2. CASE d # c
      <4>1. Holds(d) /\ req'[d] = req[d] /\ req[d].next \in Nat
        BY <1>1, <2>3, <2>5, <2>7, <3>2 DEF SessionInv, Commits, Requests
      <4>2. req[d].next <= issued'
        BY <1>1, <2>1, <4>1 DEF Holds
      <4> QED BY <1>2, <2>4, <4>1, <4>2 DEF Holds
    <3> QED BY <3>1, <3>2
  <2>8. ASSUME NEW d \in Commits', d # c PROVE Apart(c, d)' /\ Apart(d, c)'
    <3>1. Holds(d) /\ d \in Commits /\ req'[d] = req[d] /\ req[d].next \in Nat
      BY <1>1, <2>3, <2>5, <2>8 DEF SessionInv, Commits, Requests
    <3>2. req[d].token # i
      BY <1>2, <3>1 DEF Locked, Commits
    <3>3. tokens[req[d].token].session # tokens[i].session
      BY <2>1, <3>1, <3>2 DEF Holds
    <3>4. req[d].next # n
      BY <1>1, <3>1 DEF Holds
    <3> QED BY <1>2, <2>3, <3>1, <3>3, <3>4 DEF Apart
  <2>9. ASSUME NEW d \in Commits', NEW e \in Commits', d # e PROVE Apart(d, e)'
    <3>1. CASE d # c /\ e # c
      BY <1>2, <2>3, <2>5, <2>9, <3>1 DEF SessionInv, Apart, Commits
    <3> QED BY <2>8, <2>9, <3>1
  <2>10. OneLivePerSession' /\ NoneOutlivesRevocation'
    BY <1>2, <2>4 DEF SessionInv, OneLivePerSession, NoneOutlivesRevocation
  <2> QED BY <1>1, <1>2, <2>1, <2>6, <2>7, <2>9, <2>10 DEF SessionInv
<1> QED BY <1>3, <1>4

\* A rotation is committed: its session goes on with the new token alone.
LEMMA CommitKeeps ==
  ASSUME Shape, SessionInv, NEW c \in Callers, Commit(c)
  PROVE  SessionInv' /\ tokens' \in [Tokens -> AToken] /\ UNCHANGED <<issued, cutoff>>
<1>1. /\ tokens \in [Tokens -> AToken] /\ issued \in Nat /\ cutoff \in Nat
      /\ \A i \in Tokens : tokens[i].session \in Nat
      /\ req \in [Callers -> Requests]
  BY DEF Shape, AToken
<1>2. UNCHANGED <<issued, left, cutoff>> /\ c \in Commits
  BY DEF Commit, history, Commits
<1>3. Holds(c)
  BY <1>2 DEF SessionInv
<1> DEFINE i == req[c].token
           n == req[c].next
           s == tokens[i].session
<1>4. ASSUME NEW x, req' = [req EXCEPT ![c] = [Idle EXCEPT !.at = "answer", !.token = i, !.next = x]]
      PROVE  /\ \A d \in Callers : req'[d].at = "commit" => req'[d] = req[d]
             /\ Commits' \subseteq Commits \ {c} /\ \A d \in Commits' : req'[d] = req[d]
  BY <1>1, <1>4 DEF Idle, Commits
<1>5. CASE ~user.there
  <2>1. UNCHANGED tokens /\ req' = [req EXCEPT ![c] = [Idle EXCEPT !.at = "answer", !.token = i, !.next = 0]]
    BY <1>5 DEF Commit, AnswerWith, Go
  <2>2. \A d \in Callers : req'[d].at = "commit" => req'[d] = req[d]
    BY <1>4, <2>1
  <2>3. Fading /\ Accounted
    BY <1>1, <1>2, <2>1 DEF Fading, Accounted
  <2> QED BY <1>1, <1>2, <2>1, <2>2, <2>3, FadingKeeps
<1>6. CASE user.there
  <2>1. tokens' = Rotated(i, n)
    BY <1>6 DEF Commit
  <2>2. req' = [req EXCEPT ![c] = [Idle EXCEPT !.at = "answer", !.token = i, !.next = n]]
    BY <1>6 DEF Commit, AnswerWith, Go
  <2>3. Commits' \subseteq Commits \ {c} /\ \A d \in Commits' : req'[d] = req[d]
    BY <1>4, <2>2
  <2>4. i \in Tokens /\ i # n /\ s # 0 /\ s \in Nat /\ s <= issued
    BY <1>1, <1>3 DEF Holds, SessionInv, Numbered
  <2> DEFINE old == [tokens[i] EXCEPT !.state = IF @ = "live" THEN "dead" ELSE @]
             new == [state |-> "live", session |-> s]
             mid == [tokens EXCEPT ![i] = old]
  <2>5. /\ old \in AToken /\ old.session = s /\ old.state # "live"
        /\ new \in AToken /\ new.session = s
    BY <1>1, <2>4 DEF AToken
  <2>6. tokens' = [mid EXCEPT ![n] = new]
    BY <2>1 DEF Rotated
  <2>7. mid \in [Tokens -> AToken] /\ mid[i] = old /\ \A k \in Tokens : k # i => mid[k] = tokens[k]
    BY <1>1, <2>4, <2>5
  <2>8. /\ tokens' \in [Tokens -> AToken]
        /\ \A k \in Tokens : tokens'[k] = IF k = n THEN new ELSE mid[k]
    <3> HIDE DEF mid, new
    <3>1. \A k \in Tokens : tokens'[k] = IF k = n THEN new ELSE mid[k]
      BY <2>6, <2>7
    <3>2. tokens' = [k \in Tokens |-> tokens'[k]]
      BY <2>6, <2>7
    <3>3. \A k \in Tokens : tokens'[k] \in AToken
      BY <2>5, <2>7, <3>1
    <3> QED BY <3>1, <3>2, <3>3
  <2> HIDE DEF old, mid, new
  <2>9. /\ \A k \in Tokens : k # n => tokens'[k].session = tokens[k].session
        /\ n \in Tokens => tokens'[n].session = s
        /\ \A k \in Live' : k = n \/ (k \in Live /\ k # i)
    BY <2>4, <2>5, <2>7, <2>8 DEF Live
  <2>10. \A k \in Live' : k # n => tokens[k].session # s
    BY <1>3, <2>9 DEF Holds
  <2>11. Numbered'
    BY <1>1, <1>2, <1>3, <2>4, <2>9, TokensAreNumbers DEF SessionInv, Numbered, Holds, Live
  <2>12. ASSUME NEW d \in Commits' PROVE Holds(d)'
    <3> DEFINE j == req[d].token
               m == req[d].next
    <3>1. Holds(d) /\ Apart(c, d) /\ req'[d] = req[d]
      BY <1>2, <2>3, <2>12 DEF SessionInv
    <3>2. j \in Tokens /\ j # n /\ m # n /\ tokens[j].session # s /\ tokens'[j].session = tokens[j].session
      BY <1>3, <2>9, <3>1 DEF Holds, Apart
    <3>3. \A k \in Live' : tokens'[k].session = tokens'[j].session => k = j
      BY <2>9, <3>1, <3>2 DEF Holds, Live
    <3>4. m <= issued /\ (m \in Tokens => tokens'[m].session = 0)
      BY <2>9, <3>1, <3>2 DEF Holds
    <3> QED BY <1>2, <3>1, <3>2, <3>3, <3>4 DEF Holds
  <2>13. ASSUME NEW d \in Commits', NEW e \in Commits', d # e PROVE Apart(d, e)'
    <3>1. Apart(d, e) /\ Holds(d) /\ Holds(e) /\ req'[d] = req[d] /\ req'[e] = req[e]
      BY <2>3, <2>13 DEF SessionInv
    <3>2. req[d].token # n /\ req[e].token # n
      BY <1>3, <3>1 DEF Holds
    <3> QED BY <2>9, <3>1, <3>2 DEF Apart, Holds
  <2>14. OneLivePerSession'
    BY <2>9, <2>10 DEF SessionInv, OneLivePerSession, Live
  <2>15. NoneOutlivesRevocation'
    BY <1>2, <1>3, <2>9 DEF SessionInv, NoneOutlivesRevocation, Holds, Live
  <2> QED BY <1>2, <2>8, <2>11, <2>12, <2>13, <2>14, <2>15 DEF SessionInv
<1> QED BY <1>5, <1>6

LEMMA SessionsStart == Init => SessionInv
<1> SUFFICES ASSUME Init PROVE SessionInv
  OBVIOUS
<1>1. Commits = {}
  BY DEF Init, Commits, Idle
<1>2. /\ issued = 1 /\ cutoff = 0
      /\ \A i \in Tokens : tokens[i] = IF i = 1 THEN [state |-> "live", session |-> 1] ELSE NoToken
  BY DEF Init
<1>3. Live \subseteq {1} /\ \A i \in Tokens : tokens[i].session = IF i = 1 THEN 1 ELSE 0
  BY <1>2 DEF Live, NoToken
<1> QED BY <1>1, <1>2, <1>3, TokensAreNumbers
        DEF SessionInv, Numbered, OneLivePerSession, NoneOutlivesRevocation, Live

LEMMA SessionsGoOn == Shape /\ SessionInv /\ [Next]_vars => Shape' /\ SessionInv'
<1> SUFFICES ASSUME Shape, SessionInv, [Next]_vars PROVE Shape' /\ SessionInv'
  OBVIOUS
<1>1. /\ req' \in [Callers -> Requests] /\ user' \in UserRows
      /\ identity' \in Nat /\ hashes' \in Nat /\ jar' \in Nat
  BY NextReqShape, UserWrites
<1>2. cutoff \in Nat /\ issued \in Nat /\ tokens \in [Tokens -> AToken]
  BY DEF Shape
<1>3. CASE Others \/ UNCHANGED vars
  BY <1>1, <1>2, <1>3, OthersFade, FadingKeeps DEF Shape, Fading, Accounted
<1>4. ASSUME NEW c \in Callers, Begin(c) \/ Step(c) \/ CutOff(c) PROVE Shape' /\ SessionInv'
  <2>1. CASE Issue(c)   BY <1>1, <1>2, <2>1, IssueKeeps DEF Shape
  <2>2. CASE Rotate(c)  BY <1>1, <1>2, <2>2, RotateKeeps DEF Shape
  <2>3. CASE Commit(c)  BY <1>1, <1>2, <2>3, CommitKeeps DEF Shape
  <2>4. CASE ~(Issue(c) \/ Rotate(c) \/ Commit(c))
    <3>1. Fading /\ Accounted /\ issued' = issued
      BY <1>4, <2>4, CallersFade
    <3>2. \A d \in Callers : req'[d].at = "commit" => req'[d] = req[d]
      BY <1>4, <2>4, CommittersStay
    <3>3. SessionInv'
      BY <3>1, <3>2, FadingKeeps
    <3> QED BY <1>1, <1>2, <3>1, <3>3 DEF Shape, Fading, Accounted
  <2> QED BY <2>1, <2>2, <2>3, <2>4
<1> QED BY <1>3, <1>4 DEF Next, Others

\* Of the tokens of a session one at most is live: however many callers
\* present a token at once, and whatever is cut off between the two writes,
\* rotateRefreshToken gives it one successor.
THEOREM OneSuccessor == Spec => []OneLivePerSession
<1>1. SessionInv => OneLivePerSession
  BY DEF SessionInv
<1> QED BY <1>1, InitShape, SessionsStart, SessionsGoOn, PTL DEF Spec

\* What revokeAllRefreshTokensByUserId, or the purge, ended does not come back:
\* a session begun before has a live token only if a rotation of it was being
\* committed when the tokens were revoked.
THEOREM RevokedStaysRevoked == Spec => []NoneOutlivesRevocation
<1>1. SessionInv => NoneOutlivesRevocation
  BY DEF SessionInv
<1> QED BY <1>1, InitShape, SessionsStart, SessionsGoOn, PTL DEF Spec

-----------------------------------------------------------------------------
(* The purge. *)

LEMMA ToldStays == [Next]_vars => told \ {"signed out"} \subseteq told'
<1> SUFFICES ASSUME [Next]_vars PROVE told \ {"signed out"} \subseteq told'
  OBVIOUS
<1>1. CASE UNCHANGED vars
  BY <1>1 DEF vars, history
<1>2. CASE Rulings \/ AdminStep \/ AdminCutOff \/ ComesDue
  BY <1>2 DEF Rulings, Block, Reactivate, RequestDeletion, ResetUserFlow, AdminStep, AdminRevokes,
     AdminEnds, AdminCutOff, ComesDue, history
<1>3. ASSUME NEW j \in Jobs, Tick(j) \/ JobCutOff(j) PROVE told \ {"signed out"} \subseteq told'
  BY <1>3 DEF Tick, ListDue, Anonymize, Audit, JobCutOff, history
<1>4. ASSUME NEW c \in Callers, Begin(c) \/ CutOff(c) PROVE told \ {"signed out"} \subseteq told'
  <2>1. CASE Refresh(c) \/ CutOff(c)
    BY <2>1 DEF Refresh, CutOff
  <2>2. CASE Login(c) \/ Logout(c) \/ ChangePassword(c) \/ ResetPassword(c) \/ Forgot(c)
    BY <2>2 DEF Login, Logout, ChangePassword, ResetPassword, Forgot, history
  <2> QED BY <1>4, <2>1, <2>2 DEF Begin
<1>5. ASSUME NEW c \in Callers, Step(c) PROVE told \ {"signed out"} \subseteq told'
  <2>1. CASE Issue(c) \/ RevokeMine(c) \/ WriteHash(c) \/ EndAll(c)
    BY <2>1 DEF Issue, RevokeMine, WriteHash, EndAll
  <2>2. CASE WriteLegacy(c) \/ Check(c) \/ Rotate(c) \/ Commit(c) \/ Arrive(c) \/ WriteIdentity(c) \/ MarkUsed(c)
    BY <2>2 DEF WriteLegacy, Check, Rotate, Commit, Arrive, WriteIdentity, MarkUsed, history
  <2> QED BY <1>5, <2>1, <2>2 DEF Step
<1> QED BY <1>1, <1>2, <1>3, <1>4, <1>5 DEF Next

\* Nothing is left of the account, and no request is about to write to it.
Emptied ==
  /\ user.hash = 0 /\ identity = 0 /\ link = "none" /\ Live = {}
  /\ \A c \in Callers : req[c].at \notin Writing

PurgeInv == user.state = "deleted" /\ "written meanwhile" \notin told => Emptied

\* What a caller can do to an account that has been emptied.
LEMMA CallersLeaveItEmpty ==
  ASSUME Shape, Emptied, user.state = "deleted", NEW c \in Callers, Begin(c) \/ Step(c) \/ CutOff(c)
  PROVE  Emptied'
<1>1. req \in [Callers -> Requests] /\ req[c].at \notin Writing
  BY DEF Shape, Emptied
<1>2. CASE Logout(c) \/ Refresh(c) \/ RevokeMine(c) \/ Check(c) \/ Rotate(c) \/ Arrive(c) \/ MarkUsed(c)
           \/ EndAll(c) \/ CutOff(c)
  <2>1. UNCHANGED <<user, identity>> /\ link' = link
    BY <1>2 DEF Logout, Refresh, RevokeMine, Check, Rotate, Arrive, MarkUsed, EndAll, CutOff, storeVars, Emptied
  <2>2. Live' = {}
    <3>1. CASE Rotate(c)
      BY <3>1 DEF Rotate, Emptied, Live
    <3>2. ~Issue(c) /\ ~Commit(c)
      BY <1>1 DEF Issue, Commit, Writing
    <3>3. CASE ~Rotate(c)
      BY <3>2, <3>3, CallersFade DEF Fading, Emptied, Live
    <3> QED BY <3>1, <3>3
  <2>3. /\ \A d \in Callers \ {c} : req'[d] = req[d]
        /\ req'[c].at \in {"leave", "check", "answer", "idle", "end all"}
    <3>1. CASE Logout(c)      BY <1>1, <3>1 DEF Logout, Go, Idle
    <3>2. CASE Refresh(c)     BY <1>1, <3>2 DEF Refresh, Go, Idle
    <3>3. CASE \E x : AnswerWith(c, x)
      <4>1. PICK x : AnswerWith(c, x)
        BY <3>3
      <4> QED BY <1>1, <4>1 DEF AnswerWith, Go, Idle
    <3>4. CASE RevokeMine(c)  BY <3>3, <3>4 DEF RevokeMine
    <3>5. CASE Check(c)       BY <3>3, <3>5 DEF Check, Accepts, Emptied
    <3>6. CASE Rotate(c)      BY <3>3, <3>6 DEF Rotate, Rotatable, Emptied
    <3>7. CASE Arrive(c) \/ EndAll(c) \/ CutOff(c)
      <4>1. req' = [req EXCEPT ![c] = Idle]
        BY <3>7 DEF Arrive, EndAll, CutOff, Done, Go
      <4> QED BY <1>1, <4>1 DEF Idle
    <3>8. CASE MarkUsed(c)
      BY <1>1, <3>8 DEF MarkUsed, Goto, Go, Requests
    <3> QED BY <1>2, <3>1, <3>2, <3>4, <3>5, <3>6, <3>7, <3>8
  <2> QED BY <1>1, <2>1, <2>2, <2>3 DEF Emptied, Writing
<1>3. ~Login(c) /\ ~ChangePassword(c) /\ ~ResetPassword(c) /\ ~Forgot(c)
  BY DEF Emptied, Login, ChangePassword, ResetPassword, Forgot
<1>4. ~(WriteLegacy(c) \/ Issue(c) \/ Commit(c) \/ WriteHash(c) \/ WriteIdentity(c))
  BY <1>1 DEF Writing, WriteLegacy, Issue, Commit, WriteHash, WriteIdentity
<1> QED BY <1>2, <1>3, <1>4 DEF Begin, Step

\* The administrator and the job leave it so as well; only the purge makes it so.
LEMMA OthersLeaveItEmpty ==
  ASSUME Shape, PurgeInv, Others, user'.state = "deleted", "written meanwhile" \notin told'
  PROVE  Emptied'
<1>1. user \in UserRows /\ tokens \in [Tokens -> AToken]
  BY DEF Shape
<1>2. req' = req /\ Fading
  BY OthersFade
<1>3. CASE \E j \in Jobs : Anonymize(j) /\ user.there
  <2>1. PICK j \in Jobs : Anonymize(j) /\ user.there
    BY <1>3
  <2>2. /\ user' = Anonymized /\ identity' = 0 /\ link' = "none" /\ tokens' = Deleted
        /\ told' = IF \E c \in Callers : req[c].at \in Writing
                   THEN told \cup {"written meanwhile"} ELSE told
    BY <2>1 DEF Anonymize, PurgedTokens
  <2>3. user'.hash = 0
    BY <1>1, <2>2 DEF Anonymized, Blanked, UserRows
  <2>4. Live' = {}
    BY <2>2, TokensFade DEF Live
  <2>5. \A c \in Callers : req'[c].at \notin Writing
    BY <1>2, <2>2
  <2> QED BY <2>2, <2>3, <2>4, <2>5 DEF Emptied
<1>4. CASE ~\E j \in Jobs : Anonymize(j) /\ user.there
  <2>1. /\ user'.state = user.state /\ user'.hash = user.hash
        /\ identity' \in {identity, 0} /\ link' \in {link, "none"}
    <3>1. CASE \E j \in Jobs : Tick(j) \/ JobCutOff(j)
      BY <1>4, <3>1 DEF Tick, ListDue, Anonymize, Audit, JobCutOff, storeVars
    <3>2. CASE ResetUserFlow \/ AdminRevokes \/ AdminCutOff
      BY <3>2 DEF ResetUserFlow, AdminRevokes, AdminCutOff, storeVars
    <3>3. CASE Block \/ Reactivate
      <4>1. UNCHANGED <<identity, link>> /\ (user' = Blocking(TRUE) \/ user' = Blocking(FALSE))
        BY <3>3 DEF Block, Reactivate
      <4>2. CASE user' = Blocking(TRUE)   BY <1>1, <4>1, <4>2 DEF Blocking, UserRows
      <4>3. CASE user' = Blocking(FALSE)  BY <1>1, <4>1, <4>3 DEF Blocking, UserRows
      <4> QED BY <4>1, <4>2, <4>3
    <3>4. CASE AdminEnds
      <4>1. /\ identity' \in {identity, 0} /\ link' \in {link, "none"}
            /\ user' = Blocking(TRUE) \/ user' = [user EXCEPT !.there = FALSE]
        BY <3>4 DEF AdminEnds
      <4>2. CASE user' = Blocking(TRUE)                 BY <1>1, <4>1, <4>2 DEF Blocking, UserRows
      <4>3. CASE user' = [user EXCEPT !.there = FALSE]  BY <1>1, <4>1, <4>3 DEF UserRows
      <4> QED BY <4>1, <4>2, <4>3
    <3>5. ~RequestDeletion /\ ~ComesDue
      BY <1>1 DEF RequestDeletion, ComesDue, UserRows
    <3> QED BY <3>1, <3>2, <3>3, <3>4, <3>5 DEF Others, Rulings, AdminStep
  <2>2. "written meanwhile" \notin told
    BY ToldStays DEF Others, Next
  <2>3. Emptied
    BY <2>1, <2>2 DEF PurgeInv
  <2> QED BY <1>2, <2>1, <2>3 DEF Emptied, Fading, Live
<1> QED BY <1>3, <1>4

\* A purged account keeps no password, no link and no session, unless a request
\* that had read it before wrote to it after the purge.  The administrator's
\* rulings and further ticks bring nothing back either.
THEOREM PurgeEmpties == Spec => []PurgedIsEmpty
<1>1. Init => PurgeInv
  BY DEF Init, PurgeInv
<1>2. ASSUME Shape, PurgeInv, [Next]_vars PROVE PurgeInv'
  <2>1. CASE UNCHANGED vars
    BY <1>2, <2>1 DEF vars, storeVars, history, PurgeInv, Emptied, Live
  <2>2. CASE Others
    BY <1>2, <2>2, OthersLeaveItEmpty DEF PurgeInv
  <2>3. ASSUME NEW c \in Callers, Begin(c) \/ Step(c) \/ CutOff(c) PROVE PurgeInv'
    <3>1. user'.state = user.state
      <4>1. CASE WriteHash(c)
        BY <1>2, <4>1 DEF WriteHash, Shape, UserRows
      <4>2. CASE ~WriteHash(c)
        BY <2>3, <4>2 DEF Begin, Login, Logout, Refresh, ChangePassword, ResetPassword, Forgot, CutOff,
           Step, WriteLegacy, Issue, RevokeMine, Check, Rotate, Commit, Arrive, WriteIdentity, MarkUsed,
           EndAll, storeVars
      <4> QED BY <4>1, <4>2
    <3> QED BY <1>2, <2>3, <3>1, CallersLeaveItEmpty, ToldStays DEF PurgeInv
  <2> QED BY <1>2, <2>1, <2>2, <2>3 DEF Next, Others
<1>3. PurgeInv => PurgedIsEmpty
  BY DEF PurgeInv, Emptied, PurgedIsEmpty
<1> QED BY <1>1, <1>2, <1>3, InitShape, SessionsStart, SessionsGoOn, PTL DEF Spec

-----------------------------------------------------------------------------
(* The two copies of the password. *)

Undisturbed == told \cap {"crossed passwords", "cut password", "written meanwhile"} = {}

\* Caller c is about to write what it holds to the identity.
Copying(c) == req[c].at \in {"legacy", "identity", "pinned"}

Copied ==
  /\ \A c \in Callers : Copying(c) => req[c].hash = user.hash
  /\ identity # 0 /\ identity # user.hash => \E c \in Callers : req[c].at \in {"identity", "pinned"}

PasswordInv == Undisturbed /\ user.there => Copied

\* Slot c neither was nor gets between the two writes.
LEMMA NoCopyKeeps ==
  ASSUME Copied, NEW c \in Callers, req[c].at \notin {"identity", "pinned"},
         req'[c].at \notin {"legacy", "identity", "pinned"}, \A d \in Callers \ {c} : req'[d] = req[d],
         user'.hash = user.hash, identity' \in {identity, user.hash}
  PROVE  Copied'
<1>1. \A d \in Callers : Copying(d)' => req'[d] = req[d] /\ Copying(d)
  BY DEF Copying
<1>2. \A d \in Callers : req[d].at \in {"identity", "pinned"} => req'[d] = req[d]
  OBVIOUS
<1> QED BY <1>1, <1>2 DEF Copied

LEMMA OthersKeepCopies ==
  ASSUME Shape, PasswordInv, Others
  PROVE  PasswordInv'
<1> SUFFICES ASSUME Undisturbed', user'.there PROVE Copied'
  BY DEF PasswordInv
<1>1. user \in UserRows /\ req' = req
  BY OthersFade DEF Shape
<1>2. Undisturbed
  BY ToldStays DEF Undisturbed, Others, Next
<1>3. CASE \E j \in Jobs : Anonymize(j) /\ user.there
  <2>1. PICK j \in Jobs : Anonymize(j) /\ user.there
    BY <1>3
  <2>2. /\ identity' = 0
        /\ told' = IF \E c \in Callers : req[c].at \in Writing
                   THEN told \cup {"written meanwhile"} ELSE told
    BY <2>1 DEF Anonymize
  <2>3. \A c \in Callers : req[c].at \notin Writing
    BY <2>2 DEF Undisturbed
  <2> QED BY <1>1, <2>2, <2>3 DEF Copied, Copying, Writing
<1>4. CASE ~\E j \in Jobs : Anonymize(j) /\ user.there
  <2>1. user'.hash = user.hash /\ user.there /\ identity' = identity
    <3>1. CASE \E j \in Jobs : Tick(j) \/ JobCutOff(j)
      BY <1>4, <3>1 DEF Tick, ListDue, Anonymize, Audit, JobCutOff, storeVars
    <3>2. CASE ResetUserFlow \/ AdminRevokes \/ AdminCutOff
      BY <3>2 DEF ResetUserFlow, AdminRevokes, AdminCutOff, storeVars
    <3>3. CASE Block \/ Reactivate
      <4>1. identity' = identity /\ (user' = Blocking(TRUE) \/ user' = Blocking(FALSE))
        BY <3>3 DEF Block, Reactivate
      <4>2. CASE user' = Blocking(TRUE)   BY <1>1, <4>1, <4>2 DEF Blocking, UserRows
      <4>3. CASE user' = Blocking(FALSE)  BY <1>1, <4>1, <4>3 DEF Blocking, UserRows
      <4> QED BY <4>1, <4>2, <4>3
    <3>4. CASE AdminEnds
      <4>1. \/ user' = Blocking(TRUE) /\ identity' = identity
            \/ user' = [user EXCEPT !.there = FALSE]
        BY <3>4 DEF AdminEnds
      <4>2. CASE user' = Blocking(TRUE) /\ identity' = identity
        BY <1>1, <4>2 DEF Blocking, UserRows
      <4>3. user' # [user EXCEPT !.there = FALSE]
        BY <1>1 DEF UserRows
      <4> QED BY <4>1, <4>2, <4>3
    <3>5. CASE RequestDeletion
      BY <1>1, <3>5 DEF RequestDeletion, UserRows
    <3>6. CASE ComesDue
      BY <1>1, <3>6 DEF ComesDue, UserRows
    <3> QED BY <3>1, <3>2, <3>3, <3>4, <3>5, <3>6 DEF Others, Rulings, AdminStep
  <2> QED BY <1>1, <1>2, <2>1 DEF PasswordInv, Copied, Copying
<1> QED BY <1>3, <1>4

LEMMA CallersKeepCopies ==
  ASSUME Shape, PasswordInv, NEW c \in Callers, Begin(c) \/ Step(c) \/ CutOff(c)
  PROVE  PasswordInv'
<1>1. /\ user \in UserRows /\ hashes \in Nat /\ req \in [Callers -> Requests]
      /\ Idle.at = "idle"
  BY DEF Shape, Idle
<1>2. user'.there = user.there
  <2>1. CASE WriteHash(c)
    BY <1>1, <2>1 DEF WriteHash, UserRows
  <2>2. CASE ~WriteHash(c)
    BY <2>2 DEF Begin, Login, Logout, Refresh, ChangePassword, ResetPassword, Forgot, CutOff,
       Step, WriteLegacy, Issue, RevokeMine, Check, Rotate, Commit, Arrive, WriteIdentity, MarkUsed,
       EndAll, storeVars
  <2> QED BY <2>1, <2>2
<1> SUFFICES ASSUME Undisturbed', user.there PROVE Copied'
  BY <1>2 DEF PasswordInv
<1>3. Copied
  BY ToldStays DEF Undisturbed, Next, PasswordInv
<1>4. CASE WriteHash(c)
  <2> DEFINE at == IF req[c].at = "hash" THEN "identity" ELSE "pinned"
  <2>1. /\ user' = [user EXCEPT !.hash = hashes + 1]
        /\ req' = [req EXCEPT ![c] = [req[c] EXCEPT !.at = at, !.hash = hashes + 1]]
        /\ ~OthersWriting(c)
    BY <1>4 DEF WriteHash, Go, Undisturbed
  <2>2. user'.hash = hashes + 1
    BY <1>1, <2>1 DEF UserRows
  <2>3. \A r \in Requests : LET q == [r EXCEPT !.at = at, !.hash = hashes + 1] IN
                            q.at = at /\ q.hash = hashes + 1
    BY DEF Requests
  <2>4. req'[c].at = at /\ req'[c].hash = hashes + 1 /\ \A d \in Callers \ {c} : req'[d] = req[d]
    BY <1>1, <2>1, <2>3
  <2> QED BY <2>1, <2>2, <2>4 DEF Copied, Copying, OthersWriting
<1>5. ASSUME ~WriteHash(c) PROVE user' = user
  BY <1>5 DEF Begin, Login, Logout, Refresh, ChangePassword, ResetPassword, Forgot, CutOff,
     Step, WriteLegacy, Issue, RevokeMine, Check, Rotate, Commit, Arrive, WriteIdentity, MarkUsed,
     EndAll, storeVars
<1>6. CASE Login(c)
  <2>1. identity' = identity /\ req[c].at = "idle"
    BY <1>1, <1>6 DEF Login, Ask, storeVars
  <2>2. user' = user
    BY <1>6 DEF Login, storeVars
  <2>3. CASE identity # 0
    <3>1. req'[c].at = "issue" /\ \A d \in Callers \ {c} : req'[d] = req[d]
      BY <1>1, <1>6, <2>3 DEF Login, Go, Idle
    <3> QED BY <1>3, <2>1, <2>2, <3>1, NoCopyKeeps
  <2>4. CASE identity = 0
    <3>1. /\ req'[c].at = "legacy" /\ req'[c].hash = user.hash
          /\ \A d \in Callers \ {c} : req'[d] = req[d]
      BY <1>1, <1>6, <2>4 DEF Login, Go, Idle
    <3> QED BY <1>3, <2>1, <2>2, <2>4, <3>1 DEF Copied, Copying
  <2> QED BY <2>3, <2>4
<1>7. CASE WriteLegacy(c) \/ WriteIdentity(c)
  <2>1. identity' = req[c].hash /\ user' = user /\ Copying(c)
    BY <1>7 DEF WriteLegacy, WriteIdentity, IdentityAfter, Copying
  <2>2. identity' = user.hash
    BY <1>3, <2>1 DEF Copied
  <2>3. /\ req'[c].at \in {"issue", "idle", "mark"}
        /\ \A d \in Callers \ {c} : req'[d] = req[d]
    BY <1>1, <1>7 DEF WriteLegacy, WriteIdentity, Goto, Done, Go, Requests
  <2> QED BY <1>3, <2>1, <2>2, <2>3 DEF Copied, Copying
<1>8. CASE CutOff(c)
  <2>1. identity' = identity /\ user' = user /\ req' = [req EXCEPT ![c] = Idle]
    BY <1>8 DEF CutOff, Done, Go, storeVars
  <2>2. req[c].at \notin {"identity", "pinned"}
    BY <1>8 DEF CutOff, Undisturbed
  <2> QED BY <1>1, <1>3, <2>1, <2>2, NoCopyKeeps
<1>9. CASE \/ Logout(c) \/ Refresh(c) \/ ChangePassword(c) \/ ResetPassword(c) \/ Issue(c) \/ RevokeMine(c)
           \/ Check(c) \/ Rotate(c) \/ Commit(c) \/ Arrive(c) \/ MarkUsed(c) \/ EndAll(c)
  <2>1. identity' = identity /\ user' = user /\ req[c].at \notin {"identity", "pinned"}
    BY <1>1, <1>9 DEF Logout, Refresh, ChangePassword, ResetPassword, Ask, Issue, RevokeMine, Check,
       Rotate, Commit, Arrive, MarkUsed, EndAll, storeVars
  <2>2. /\ req'[c].at \notin {"legacy", "identity", "pinned"}
        /\ \A d \in Callers \ {c} : req'[d] = req[d]
    <3>1. CASE Logout(c)          BY <1>1, <3>1 DEF Logout, Go, Idle
    <3>2. CASE Refresh(c)         BY <1>1, <3>2 DEF Refresh, Go, Idle
    <3>3. CASE ChangePassword(c)  BY <1>1, <3>3 DEF ChangePassword, Go, Idle
    <3>4. CASE ResetPassword(c)   BY <1>1, <3>4 DEF ResetPassword, Go, Idle
    <3>5. CASE \E x : AnswerWith(c, x)
      <4>1. PICK x : AnswerWith(c, x)
        BY <3>5
      <4> QED BY <1>1, <4>1 DEF AnswerWith, Go, Idle
    <3>6. CASE req' = [req EXCEPT ![c] = Idle]
      BY <1>1, <3>6
    <3>7. CASE Issue(c)           BY <3>5, <3>6, <3>7 DEF Issue, Done, Go
    <3>8. CASE RevokeMine(c)      BY <3>5, <3>8 DEF RevokeMine
    <3>9. CASE Check(c)
      <4>1. CASE Goto(c, "rotate")  BY <1>1, <4>1 DEF Goto, Go, Requests
      <4> QED BY <3>5, <3>9, <4>1 DEF Check
    <3>10. CASE Rotate(c)
      <4>1. ASSUME NEW r \in Requests
            PROVE  [r EXCEPT !.at = "commit", !.next = issued + 1].at = "commit"
        BY DEF Requests
      <4>2. CASE req' = [req EXCEPT ![c] = [req[c] EXCEPT !.at = "commit", !.next = issued + 1]]
        BY <1>1, <4>1, <4>2
      <4> QED BY <3>5, <3>10, <4>2 DEF Rotate, Go
    <3>11. CASE Commit(c)         BY <3>5, <3>11 DEF Commit
    <3>12. CASE Arrive(c) \/ EndAll(c)
      BY <3>6, <3>12 DEF Arrive, EndAll, Done, Go
    <3>13. CASE MarkUsed(c)       BY <1>1, <3>13 DEF MarkUsed, Goto, Go, Requests
    <3> QED BY <1>9, <3>1, <3>2, <3>3, <3>4, <3>7, <3>8, <3>9, <3>10, <3>11, <3>12, <3>13
  <2> QED BY <1>3, <2>1, <2>2, NoCopyKeeps
<1>10. CASE Forgot(c)
  BY <1>3, <1>10 DEF Forgot, Copied, Copying
<1> QED BY <1>4, <1>6, <1>7, <1>8, <1>9, <1>10 DEF Begin, Step

\* The two copies of the password, in users and in user_auth_identities, agree
\* once every request that writes them has ended, unless two of them crossed,
\* one was cut off in the middle, or the purge came between them.
THEOREM CopiesAgree == Spec => []PasswordsAgree
<1>1. Init => PasswordInv
  BY DEF Init, PasswordInv, Copied, Copying, Idle
<1>2. ASSUME Shape, PasswordInv, [Next]_vars PROVE PasswordInv'
  <2>1. CASE UNCHANGED vars
    BY <1>2, <2>1 DEF vars, storeVars, history, PasswordInv, Undisturbed, Copied, Copying
  <2> QED BY <1>2, <2>1, OthersKeepCopies, CallersKeepCopies DEF Next, Others
<1>3. PasswordInv => PasswordsAgree
  <2> SUFFICES ASSUME PasswordInv, Quiet, user.there, identity # 0, Undisturbed
               PROVE  identity = user.hash
    BY DEF PasswordsAgree, Undisturbed
  <2>1. Idle.at = "idle"
    BY DEF Idle
  <2>2. \A c \in Callers : req[c].at = "idle"
    BY <2>1 DEF Quiet
  <2> QED BY <2>2 DEF PasswordInv, Copied
<1> QED BY <1>1, <1>2, <1>3, InitShape, SessionsStart, SessionsGoOn, PTL DEF Spec

-----------------------------------------------------------------------------
\* Caller c is at the point given, with these tokens in hand.
To(c, at, token, next) ==
  /\ req'[c].at = at /\ req'[c].token = token /\ req'[c].next = next
  /\ \A d \in Callers \ {c} : req'[d] = req[d]

LEMMA GoesTo ==
  ASSUME Shape, NEW c \in Callers
  PROVE  /\ \A at : Goto(c, at) => To(c, at, req[c].token, req[c].next) /\ req'[c].hash = req[c].hash
         /\ \A i : AnswerWith(c, i) => To(c, "answer", req[c].token, i) /\ req'[c].hash = 0
         /\ Done(c) => To(c, "idle", 0, 0) /\ req'[c].hash = 0
<1>1. req \in [Callers -> Requests] /\ req[c] \in Requests
  BY DEF Shape
<1>2. ASSUME NEW at, Goto(c, at)
      PROVE  To(c, at, req[c].token, req[c].next) /\ req'[c].hash = req[c].hash
  <2>1. LET r == [req[c] EXCEPT !.at = at] IN
        r.at = at /\ r.token = req[c].token /\ r.next = req[c].next /\ r.hash = req[c].hash
    BY <1>1 DEF Requests
  <2> QED BY <1>1, <1>2, <2>1 DEF Goto, Go, To
<1>3. ASSUME NEW i, AnswerWith(c, i)
      PROVE  To(c, "answer", req[c].token, i) /\ req'[c].hash = 0
  BY <1>1, <1>3 DEF AnswerWith, Go, To, Idle
<1>4. ASSUME Done(c) PROVE To(c, "idle", 0, 0) /\ req'[c].hash = 0
  BY <1>1, <1>4 DEF Done, Go, To, Idle
<1> QED BY <1>2, <1>3, <1>4

\* Where a request goes that begins.
LEMMA Begins ==
  ASSUME Shape, NEW c \in Callers
  PROVE  /\ Login(c) => (\E at \in {"issue", "legacy"} : To(c, at, 0, 0)) /\ req'[c].hash \in {0, user.hash}
         /\ Logout(c) => To(c, "leave", jar, 0) /\ req'[c].hash = 0
         /\ Refresh(c) => To(c, "check", jar, 0) /\ req'[c].hash = 0
         /\ ChangePassword(c) => To(c, "hash", 0, 0) /\ req'[c].hash = 0
         /\ ResetPassword(c) => To(c, "new", 0, 0) /\ req'[c].hash = 0
<1>1. req \in [Callers -> Requests]
  BY DEF Shape
<1>2. ASSUME Login(c) PROVE (\E at \in {"issue", "legacy"} : To(c, at, 0, 0)) /\ req'[c].hash \in {0, user.hash}
  BY <1>1, <1>2 DEF Login, Go, To, Idle
<1>3. ASSUME Logout(c) PROVE To(c, "leave", jar, 0) /\ req'[c].hash = 0
  BY <1>1, <1>3 DEF Logout, Go, To, Idle
<1>4. ASSUME Refresh(c) PROVE To(c, "check", jar, 0) /\ req'[c].hash = 0
  BY <1>1, <1>4 DEF Refresh, Go, To, Idle
<1>5. ASSUME ChangePassword(c) PROVE To(c, "hash", 0, 0) /\ req'[c].hash = 0
  BY <1>1, <1>5 DEF ChangePassword, Go, To, Idle
<1>6. ASSUME ResetPassword(c) PROVE To(c, "new", 0, 0) /\ req'[c].hash = 0
  BY <1>1, <1>6 DEF ResetPassword, Go, To, Idle
<1> QED BY <1>2, <1>3, <1>4, <1>5, <1>6

\* And where it goes on to.
LEMMA GoesOn ==
  ASSUME Shape, NEW c \in Callers
  PROVE  /\ Rotate(c) /\ Rotatable(req[c].token) =>
              To(c, "commit", req[c].token, issued + 1) /\ req'[c].hash = req[c].hash
         /\ WriteHash(c) /\ user.there =>
              /\ \E at \in {"identity", "pinned"} : To(c, at, req[c].token, req[c].next)
              /\ req'[c].hash = hashes + 1
<1>1. req \in [Callers -> Requests] /\ req[c] \in Requests
  BY DEF Shape
<1>2. ASSUME Rotate(c), Rotatable(req[c].token)
      PROVE  To(c, "commit", req[c].token, issued + 1) /\ req'[c].hash = req[c].hash
  <2> DEFINE r == [req[c] EXCEPT !.at = "commit", !.next = issued + 1]
  <2>1. r.at = "commit" /\ r.token = req[c].token /\ r.next = issued + 1 /\ r.hash = req[c].hash
    BY <1>1 DEF Requests
  <2>2. req' = [req EXCEPT ![c] = r]
    BY <1>2 DEF Rotate, Go
  <2> HIDE DEF r
  <2> QED BY <1>1, <2>1, <2>2 DEF To
<1>3. ASSUME WriteHash(c), user.there
      PROVE  /\ \E at \in {"identity", "pinned"} : To(c, at, req[c].token, req[c].next)
             /\ req'[c].hash = hashes + 1
  <2> DEFINE at == IF req[c].at = "hash" THEN "identity" ELSE "pinned"
             r == [req[c] EXCEPT !.at = at, !.hash = hashes + 1]
  <2>1. r.at = at /\ r.token = req[c].token /\ r.next = req[c].next /\ r.hash = hashes + 1
    BY <1>1 DEF Requests
  <2>2. req' = [req EXCEPT ![c] = r]
    BY <1>3 DEF WriteHash, Go
  <2>3. at \in {"identity", "pinned"}
    OBVIOUS
  <2> HIDE DEF at, r
  <2> QED BY <1>1, <2>1, <2>2, <2>3 DEF To
<1> QED BY <1>2, <1>3

-----------------------------------------------------------------------------
(* The audit log of the purge. *)

Busy(j) == job[j] \in {"anonymize", "audit"}

\* A purge that was not written to the log is about to be, or was cut off; and
\* as long as one process purges once, it is written once.
AuditInv ==
  /\ job \in [Jobs -> {"off", "idle", "anonymize", "audit"}] /\ audits \in Nat
  /\ user.state = "deleted" /\ audits = 0 /\ "cut purge" \notin told =>
       \E j \in Jobs : job[j] = "audit"
  /\ "two purges" \notin told =>
       /\ \A j, k \in Jobs : Busy(j) /\ Busy(k) => j = k
       /\ audits \in {0, 1} /\ (audits # 0 => user.state = "deleted")
       /\ \A j \in Jobs : job[j] = "anonymize" => user.state # "deleted"
       /\ \A j \in Jobs : job[j] = "audit" => audits = 0 /\ user.state = "deleted"

LEMMA OneMore ==
  ASSUME NEW n \in Nat
  PROVE  /\ n + 1 \in Nat /\ n + 1 # 0 /\ (n = 0 => n + 1 = 1)
         /\ n > 1 => n \notin {0, 1}
  OBVIOUS

LEMMA AuditStarts == Init => AuditInv
  BY DEF Init, AuditInv, Busy

\* Nobody but the administrator and the job moves the purge on.
LEMMA AuditAside ==
  ASSUME AuditInv, UNCHANGED <<job, audits>>, user'.state = user.state, told \ {"signed out"} \subseteq told'
  PROVE  AuditInv'
  BY DEF AuditInv, Busy

LEMMA CallersAside ==
  ASSUME Shape, NEW c \in Callers, Begin(c) \/ Step(c) \/ CutOff(c)
  PROVE  UNCHANGED <<job, audits>> /\ user'.state = user.state
<1>1. CASE WriteHash(c)
  BY <1>1 DEF WriteHash, Shape, UserRows
<1>2. CASE ~WriteHash(c)
  BY <1>2 DEF Begin, Login, Logout, Refresh, ChangePassword, ResetPassword, Forgot, CutOff,
     Step, WriteLegacy, Issue, RevokeMine, Check, Rotate, Commit, Arrive, WriteIdentity, MarkUsed,
     EndAll, storeVars
<1> QED BY <1>1, <1>2

\* The rulings that do not request a deletion leave the state of one alone.
LEMMA RulingsAside ==
  ASSUME Shape, Block \/ Reactivate \/ ResetUserFlow \/ AdminStep \/ AdminCutOff \/ ComesDue
  PROVE  UNCHANGED <<job, audits>>
         /\ (user'.state = "deleted" <=> user.state = "deleted")
<1>1. user \in UserRows
  BY DEF Shape
<1>2. UNCHANGED <<job, audits>>
  BY DEF Block, Reactivate, ResetUserFlow, AdminStep, AdminRevokes, AdminEnds, AdminCutOff, ComesDue
<1>3. ASSUME NEW b \in BOOLEAN, user' = Blocking(b)
      PROVE  user'.state = "deleted" <=> user.state = "deleted"
  BY <1>1, <1>3 DEF Blocking, UserRows
<1>4. ASSUME user' = [user EXCEPT !.there = FALSE] \/ user' = [user EXCEPT !.due = TRUE] \/ user' = user
      PROVE  user'.state = user.state
  BY <1>1, <1>4 DEF UserRows
<1>5. \/ user' = Blocking(TRUE) \/ user' = Blocking(FALSE) \/ user' = [user EXCEPT !.there = FALSE]
      \/ user' = [user EXCEPT !.due = TRUE] \/ user' = user
  BY DEF Block, Reactivate, ResetUserFlow, AdminStep, AdminRevokes, AdminEnds, AdminCutOff, ComesDue,
     storeVars
<1> QED BY <1>2, <1>3, <1>4, <1>5

LEMMA AuditGoesOn ==
  ASSUME Shape, AuditInv, [Next]_vars
  PROVE  AuditInv'
<1>1. user \in UserRows /\ told \ {"signed out"} \subseteq told'
  BY ToldStays DEF Shape
<1>2. CASE UNCHANGED vars
  BY <1>2 DEF vars, storeVars, history, AuditInv, Busy
<1>3. ASSUME NEW c \in Callers, Begin(c) \/ Step(c) \/ CutOff(c) PROVE AuditInv'
  BY <1>1, <1>3, AuditAside, CallersAside
<1>4. CASE Block \/ Reactivate \/ ResetUserFlow \/ AdminStep \/ AdminCutOff \/ ComesDue
  BY <1>1, <1>4, RulingsAside DEF AuditInv, Busy
<1>5. CASE RequestDeletion
  <2>1. user'.state = "pending" /\ UNCHANGED <<job, audits>>
        /\ (user.state = "deleted" => "two purges" \in told')
    BY <1>1, <1>5 DEF RequestDeletion, UserRows
  <2> QED BY <1>1, <2>1 DEF AuditInv, Busy
<1>6. ASSUME NEW j \in Jobs, ListDue(j) PROVE AuditInv'
  <2>1. /\ job[j] = "idle" /\ job' = [job EXCEPT ![j] = "anonymize"] /\ user.state = "pending"
        /\ UNCHANGED <<audits, user>>
        /\ (\E k \in Jobs : job[k] = "anonymize") => "two purges" \in told'
    BY <1>6 DEF ListDue, ListedAsDue, Due, storeVars
  <2> QED BY <1>1, <2>1 DEF AuditInv, Busy
<1>7. ASSUME NEW j \in Jobs, Anonymize(j) PROVE AuditInv'
  <2>1. CASE user.there
    <3>1. /\ job[j] = "anonymize" /\ job' = [job EXCEPT ![j] = "audit"] /\ UNCHANGED audits
          /\ user' = Anonymized
      BY <1>7, <2>1 DEF Anonymize, AfterPurge
    <3>2. user'.state = "deleted"
      BY <1>1, <3>1 DEF Anonymized, Blanked, UserRows
    <3>3. "two purges" \notin told => audits = 0
      BY <3>1 DEF AuditInv
    <3>4. \A k \in Jobs : job'[k] = IF k = j THEN "audit" ELSE job[k]
      BY <3>1 DEF AuditInv
    <3> QED BY <1>1, <3>1, <3>2, <3>3, <3>4 DEF AuditInv, Busy
  <2>2. CASE ~user.there
    <3>1. /\ job[j] = "anonymize" /\ job' = [job EXCEPT ![j] = "idle"] /\ UNCHANGED <<audits, user>>
      BY <1>7, <2>2 DEF Anonymize
    <3> QED BY <1>1, <3>1 DEF AuditInv, Busy
  <2> QED BY <2>1, <2>2
<1>8. ASSUME NEW j \in Jobs, Audit(j) PROVE AuditInv'
  <2>1. /\ job[j] = "audit" /\ job' = [job EXCEPT ![j] = "idle"] /\ audits' = audits + 1
        /\ UNCHANGED <<user, told>>
    BY <1>8 DEF Audit, storeVars, history
  <2>2. audits' \in Nat /\ audits' # 0 /\ (audits = 0 => audits' = 1)
    <3>1. audits \in Nat
      BY DEF AuditInv
    <3> QED BY <2>1, <3>1, OneMore
  <2>3. "two purges" \notin told => audits' \in {0, 1} /\ user'.state = "deleted"
    BY <2>1, <2>2 DEF AuditInv
  <2>4. \A k \in Jobs : job'[k] = IF k = j THEN "idle" ELSE job[k]
    BY <2>1 DEF AuditInv
  <2>5. "two purges" \notin told => \A k \in Jobs : ~(job'[k] \in {"anonymize", "audit"})
    BY <2>1, <2>4 DEF AuditInv, Busy
  <2> QED BY <1>1, <2>1, <2>2, <2>3, <2>4, <2>5 DEF AuditInv, Busy
<1>9. ASSUME NEW j \in Jobs, JobCutOff(j) PROVE AuditInv'
  <2>1. /\ Busy(j) /\ job' = [job EXCEPT ![j] = "idle"] /\ UNCHANGED <<audits, user>>
        /\ job[j] = "audit" => "cut purge" \in told'
    BY <1>9 DEF JobCutOff, storeVars, Busy
  <2> QED BY <1>1, <2>1 DEF AuditInv, Busy
<1> QED BY <1>2, <1>3, <1>4, <1>5, <1>6, <1>7, <1>8, <1>9 DEF Next, Rulings, Tick

\* A purge (anonymizeUserForDeletionById) is written to the audit log once,
\* unless its tick was cut off in between, two processes had listed the account
\* or its deletion was requested twice.
THEOREM PurgeAudited == Spec => []PurgeIsAudited
<1>1. AuditInv => PurgeIsAudited
  <2> SUFFICES ASSUME AuditInv, user.state = "deleted", \A j \in Jobs : job[j] \in {"off", "idle"}
               PROVE  /\ audits = 0 => "cut purge" \in told
                      /\ audits > 1 => "two purges" \in told
    BY DEF PurgeIsAudited
  <2>1. audits = 0 => "cut purge" \in told
    BY DEF AuditInv
  <2>2. audits \in Nat /\ ("two purges" \notin told => audits \in {0, 1})
    BY DEF AuditInv
  <2>3. audits > 1 => audits \notin {0, 1}
    BY <2>2, OneMore
  <2> QED BY <2>1, <2>2, <2>3
<1> QED BY <1>1, InitShape, SessionsStart, SessionsGoOn, AuditStarts, AuditGoesOn, PTL DEF Spec

-----------------------------------------------------------------------------
(* What a request has in hand. *)

\* Callers that hold a token which is not in the jar yet.
Hands == {c \in Callers : req[c].at \in {"answer", "commit"} /\ req[c].next # 0}

\* A token that is being handed out is in nobody else's hands.
Fresh ==
  /\ jar <= issued
  /\ \A c \in Callers :
       /\ req[c].token <= issued /\ req[c].next <= issued
       /\ req[c].at \notin {"answer", "commit"} => req[c].next = 0
       /\ req[c].at = "commit" => req[c].next # 0
       /\ req[c].at \in {"leave", "check", "rotate", "commit"} => req[c].token # 0
  /\ \A c \in Hands : jar # req[c].next /\ \A d \in Callers : req[d].token # req[c].next
  /\ \A c, d \in Hands : req[c].next = req[d].next => c = d

LEMMA FreshStarts == Init => Fresh
  BY DEF Init, Fresh, Hands, Idle

\* The caller hands out nothing, goes on with what it has, or takes a new token.
LEMMA FreshKeeps ==
  ASSUME Shape, Fresh, NEW c \in Callers, NEW at, NEW t, NEW n, To(c, at, t, n),
         t \in {0, jar, req[c].token},
         t = 0 => at \notin {"leave", "check", "rotate", "commit"},
         \/ n = 0 /\ at # "commit" /\ issued' \in {issued, issued + 1} /\ jar' \in {jar, req[c].next}
         \/ /\ n = req[c].next /\ at = "answer" /\ req[c].at = "commit"
            /\ issued' = issued /\ jar' = jar
         \/ n = issued + 1 /\ at \in {"answer", "commit"} /\ issued' = issued + 1 /\ jar' = jar
  PROVE  Fresh'
<1>1. /\ req'[c].at = at /\ req'[c].token = t /\ req'[c].next = n
      /\ \A d \in Callers \ {c} : req'[d] = req[d]
  BY DEF To
<1>2. /\ issued \in Nat /\ jar \in Nat
      /\ \A d \in Callers : req[d].token \in Nat /\ req[d].next \in Nat
  BY DEF Shape, Requests
<1>3. /\ jar <= issued
      /\ \A d \in Callers : req[d].token <= issued /\ req[d].next <= issued
  BY DEF Fresh
<1>4. issued' \in Nat /\ issued <= issued' /\ (issued' = issued + 1 => issued < issued')
  BY <1>2
<1>5. t \in Nat /\ t <= issued /\ jar' \in Nat /\ jar' <= issued
  BY <1>2, <1>3
<1>6. n \in Nat /\ n <= issued'
  BY <1>2, <1>3, <1>4
<1>7. /\ jar' <= issued'
      /\ \A d \in Callers : req'[d].token <= issued' /\ req'[d].next <= issued'
  BY <1>1, <1>2, <1>3, <1>4, <1>5, <1>6
<1>8. \A d \in Callers :
        /\ req'[d].at \notin {"answer", "commit"} => req'[d].next = 0
        /\ req'[d].at = "commit" => req'[d].next # 0
        /\ req'[d].at \in {"leave", "check", "rotate", "commit"} => req'[d].token # 0
  BY <1>1, <1>2 DEF Fresh
<1>9. Hands' \subseteq Hands \cup {c} /\ \A d \in Hands' \ {c} : d \in Hands /\ req'[d] = req[d]
  BY <1>1 DEF Hands
<1>10. \A d \in Hands' \ {c} : /\ jar' # req[d].next /\ t # req[d].next
                               /\ \A e \in Callers \ {c} : req[e].token # req[d].next
  <2> SUFFICES ASSUME NEW d \in Hands' \ {c}
               PROVE  /\ jar' # req[d].next /\ t # req[d].next
                      /\ \A e \in Callers \ {c} : req[e].token # req[d].next
    OBVIOUS
  <2>1. /\ d \in Hands /\ req[d].next # 0 /\ jar # req[d].next
        /\ \A e \in Callers : req[e].token # req[d].next
    BY <1>9 DEF Fresh, Hands
  <2>2. req[c].next # req[d].next
    BY <2>1 DEF Fresh, Hands
  <2> QED BY <2>1, <2>2
<1>11. ASSUME c \in Hands' PROVE /\ jar' # n /\ t # n
                                 /\ \A e \in Callers \ {c} : req[e].token # n
                                 /\ \A d \in Hands' \ {c} : req[d].next # n
  <2>1. n # 0 /\ at \in {"answer", "commit"}
    BY <1>1, <1>11 DEF Hands
  <2>2. CASE n = req[c].next /\ req[c].at = "commit" /\ jar' = jar
    <3>1. c \in Hands
      BY <2>1, <2>2 DEF Hands
    <3> QED BY <1>9, <2>1, <2>2, <3>1 DEF Fresh
  <2>3. CASE n = issued + 1 /\ jar' = jar
    BY <1>2, <1>3, <1>5, <1>9, <2>3 DEF Hands
  <2> QED BY <2>1, <2>2, <2>3
<1> QED BY <1>1, <1>7, <1>8, <1>9, <1>10, <1>11 DEF Fresh

LEMMA FreshStays ==
  ASSUME Fresh, UNCHANGED <<jar, issued, req>>
  PROVE  Fresh'
  BY DEF Fresh, Hands

\* Every step of a caller: where it goes, which tokens it has then, and what
\* becomes of the jar and of the count of tokens.
LEMMA FreshCallers ==
  ASSUME Shape, Fresh, NEW c \in Callers, Begin(c) \/ Step(c) \/ CutOff(c)
  PROVE  Fresh'
<1>1. req[c].at \notin {"answer", "commit"} => req[c].next = 0
  BY DEF Fresh
<1>2. req[c].at \in {"leave", "check", "rotate", "commit"} => req[c].token # 0
  BY DEF Fresh
<1>3. CASE Done(c) /\ UNCHANGED issued /\ jar' \in {jar, req[c].next}
  <2>1. To(c, "idle", 0, 0)
    BY <1>3, GoesTo
  <2> QED BY <1>3, <2>1, FreshKeeps
<1>4. ASSUME NEW at, at \notin {"leave", "check", "rotate", "commit"}, To(c, at, req[c].token, 0),
             UNCHANGED <<issued, jar>>
      PROVE  Fresh'
  BY <1>4, FreshKeeps
<1>5. ASSUME NEW at, at \notin {"leave", "check", "rotate", "commit"}, Goto(c, at),
             req[c].at \notin {"answer", "commit"}, UNCHANGED <<issued, jar>>
      PROVE  Fresh'
  <2>1. To(c, at, req[c].token, 0)
    BY <1>1, <1>5, GoesTo
  <2> QED BY <1>4, <1>5, <2>1
<1>6. ASSUME AnswerWith(c, 0), UNCHANGED <<issued, jar>> PROVE Fresh'
  <2>1. To(c, "answer", req[c].token, 0)
    BY <1>6, GoesTo
  <2> QED BY <1>4, <1>6, <2>1
<1>7. CASE Begin(c)
  <2>1. CASE Login(c)
    <3>1. PICK at \in {"issue", "legacy"} : To(c, at, 0, 0)
      BY <2>1, Begins
    <3>2. UNCHANGED <<issued, jar>>
      BY <2>1 DEF Login, storeVars
    <3> QED BY <3>1, <3>2, FreshKeeps
  <2>2. CASE Logout(c)
    <3>1. To(c, "leave", jar, 0) /\ jar # 0 /\ UNCHANGED <<issued, jar>>
      BY <2>2, Begins DEF Logout, storeVars
    <3> QED BY <3>1, FreshKeeps
  <2>3. CASE Refresh(c)
    <3>1. To(c, "check", jar, 0) /\ jar # 0 /\ UNCHANGED <<issued, jar>>
      BY <2>3, Begins DEF Refresh, storeVars
    <3> QED BY <3>1, FreshKeeps
  <2>4. CASE ChangePassword(c) \/ ResetPassword(c)
    <3>1. PICK at \in {"hash", "new"} : To(c, at, 0, 0)
      BY <2>4, Begins
    <3>2. UNCHANGED <<issued, jar>>
      BY <2>4 DEF ChangePassword, ResetPassword, storeVars
    <3> QED BY <3>1, <3>2, FreshKeeps
  <2>5. CASE Forgot(c)
    BY <2>5, FreshStays DEF Forgot
  <2> QED BY <1>7, <2>1, <2>2, <2>3, <2>4, <2>5 DEF Begin
<1>8. CASE Step(c)
  <2>1. CASE WriteLegacy(c)
    BY <1>3, <1>5, <2>1 DEF WriteLegacy
  <2>2. CASE Issue(c)
    <3>1. CASE user.there
      <4>1. AnswerWith(c, issued + 1) /\ issued' = issued + 1 /\ UNCHANGED jar
        BY <2>2, <3>1 DEF Issue
      <4>2. To(c, "answer", req[c].token, issued + 1)
        BY <4>1, GoesTo
      <4> QED BY <4>1, <4>2, FreshKeeps
    <3>2. CASE ~user.there
      BY <1>3, <2>2, <3>2 DEF Issue
    <3> QED BY <3>1, <3>2
  <2>3. CASE RevokeMine(c)  BY <1>6, <2>3 DEF RevokeMine
  <2>4. CASE Check(c)
    <3>1. CASE Accepts(req[c].token)
      <4>1. To(c, "rotate", req[c].token, 0) /\ UNCHANGED <<issued, jar>> /\ req[c].token # 0
        BY <1>1, <1>2, <2>4, <3>1, GoesTo DEF Check
      <4> QED BY <4>1, FreshKeeps
    <3>2. CASE ~Accepts(req[c].token)
      BY <1>6, <2>4, <3>2 DEF Check
    <3> QED BY <3>1, <3>2
  <2>5. CASE Rotate(c)
    <3>1. CASE Rotatable(req[c].token)
      <4>1. To(c, "commit", req[c].token, issued + 1) /\ issued' = issued + 1 /\ UNCHANGED jar
            /\ req[c].token # 0
        BY <1>2, <2>5, <3>1, GoesOn DEF Rotate
      <4> QED BY <4>1, FreshKeeps
    <3>2. CASE ~Rotatable(req[c].token)
      BY <1>6, <2>5, <3>2 DEF Rotate
    <3> QED BY <3>1, <3>2
  <2>6. CASE Commit(c)
    <3>1. CASE user.there
      <4>1. To(c, "answer", req[c].token, req[c].next) /\ UNCHANGED <<issued, jar>> /\ req[c].at = "commit"
        BY <2>6, <3>1, GoesTo DEF Commit
      <4> QED BY <4>1, FreshKeeps
    <3>2. CASE ~user.there
      BY <1>6, <2>6, <3>2 DEF Commit
    <3> QED BY <3>1, <3>2
  <2>7. CASE Arrive(c)      BY <1>3, <2>7 DEF Arrive, storeVars
  <2>8. CASE WriteHash(c)
    <3>1. CASE user.there
      <4>1. PICK at \in {"identity", "pinned"} : To(c, at, req[c].token, req[c].next)
        BY <2>8, <3>1, GoesOn
      <4>2. req[c].next = 0 /\ UNCHANGED <<issued, jar>>
        BY <1>1, <2>8 DEF WriteHash
      <4> QED BY <1>4, <4>1, <4>2
    <3>2. CASE ~user.there
      BY <1>3, <2>8, <3>2 DEF WriteHash
    <3> QED BY <3>1, <3>2
  <2>9. CASE WriteIdentity(c)
    <3>1. CASE user.there /\ req[c].at = "pinned"
      BY <1>5, <2>9, <3>1 DEF WriteIdentity
    <3>2. CASE ~(user.there /\ req[c].at = "pinned")
      BY <1>3, <2>9, <3>2 DEF WriteIdentity
    <3> QED BY <3>1, <3>2
  <2>10. CASE MarkUsed(c)   BY <1>5, <2>10 DEF MarkUsed
  <2>11. CASE EndAll(c)     BY <1>3, <2>11 DEF EndAll
  <2> QED BY <1>8, <2>1, <2>2, <2>3, <2>4, <2>5, <2>6, <2>7, <2>8, <2>9, <2>10, <2>11 DEF Step
<1>9. CASE CutOff(c)
  BY <1>3, <1>9 DEF CutOff, storeVars
<1> QED BY <1>7, <1>8, <1>9

LEMMA OthersNoJar == Others \/ UNCHANGED vars => UNCHANGED jar
  BY DEF Others, Rulings, Block, Reactivate, RequestDeletion, ResetUserFlow, AdminStep, AdminRevokes,
     AdminEnds, AdminCutOff, ComesDue, Tick, ListDue, Anonymize, Audit, JobCutOff, vars

LEMMA FreshGoesOn == Shape /\ Fresh /\ [Next]_vars => Fresh'
<1> SUFFICES ASSUME Shape, Fresh, [Next]_vars PROVE Fresh'
  OBVIOUS
<1>1. CASE Others \/ UNCHANGED vars
  BY <1>1, OthersFade, OthersNoJar, FreshStays
<1> QED BY <1>1, FreshCallers DEF Next, Others

-----------------------------------------------------------------------------
(* The bounds: a request issues one token and makes one password at most. *)

Issuing == {c \in Callers : req[c].at \in {"legacy", "issue", "check", "rotate"}}
Hashing == {c \in Callers : req[c].at \in {"hash", "new"}}

Within ==
  /\ asked \in Nat
  /\ issued + Cardinality(Issuing) <= 1 + asked
  /\ hashes + Cardinality(Hashing) <= 1 + asked

\* What a set can grow or shrink by, when one caller moves.
LEMMA OneCaller ==
  ASSUME NEW S, NEW T, IsFiniteSet(S), NEW c, T \subseteq S \cup {c}
  PROVE  /\ Cardinality(S) \in Nat /\ Cardinality(T) \in Nat
         /\ Cardinality(T) <= Cardinality(S) + 1
         /\ T \subseteq S => Cardinality(T) <= Cardinality(S)
         /\ c \in S /\ c \notin T => Cardinality(T) + 1 <= Cardinality(S)
<1>1. IsFiniteSet(S \cup {c}) /\ IsFiniteSet(S \ {c}) /\ IsFiniteSet(T)
  BY FS_AddElement, FS_RemoveElement, FS_Subset
<1>2. Cardinality(S) \in Nat /\ Cardinality(T) \in Nat
  BY <1>1, FS_CardinalityType
<1>3. Cardinality(T) <= Cardinality(S \cup {c})
  BY <1>1, FS_Subset
<1>4. Cardinality(S \cup {c}) <= Cardinality(S) + 1
  <2>1. Cardinality(S \cup {c}) \in {Cardinality(S), Cardinality(S) + 1}
    BY FS_AddElement
  <2> QED BY <1>2, <2>1
<1>5. Cardinality(S \cup {c}) \in Nat
  BY <1>1, FS_CardinalityType
<1>6. T \subseteq S => Cardinality(T) <= Cardinality(S)
  BY FS_Subset
<1>7. ASSUME c \in S, c \notin T PROVE Cardinality(T) + 1 <= Cardinality(S)
  <2>1. T \subseteq S \ {c}
    BY <1>7
  <2>2. Cardinality(T) <= Cardinality(S \ {c})
    BY <1>1, <2>1, FS_Subset
  <2>3. Cardinality(S \ {c}) = Cardinality(S) - 1
    BY <1>7, FS_RemoveElement
  <2> QED BY <1>2, <2>2, <2>3
<1> QED BY <1>2, <1>3, <1>4, <1>5, <1>6, <1>7

LEMMA CallersFinite == IsFiniteSet(Issuing) /\ IsFiniteSet(Hashing)
<1>1. Issuing \subseteq Callers /\ Hashing \subseteq Callers
  BY DEF Issuing, Hashing
<1> QED BY <1>1, FS_Subset, AccountBounds

LEMMA WithinStarts == Init => Within
<1> SUFFICES ASSUME Init PROVE Within
  OBVIOUS
<1>1. Issuing = {} /\ Hashing = {}
  BY DEF Init, Issuing, Hashing, Idle
<1>2. Cardinality(Issuing) = 0 /\ Cardinality(Hashing) = 0
  BY <1>1, FS_EmptySet
<1> QED BY <1>2 DEF Init, Within

\* The number asked for covers what those who are about to issue add.
LEMMA CoversMore ==
  ASSUME NEW S, NEW T, IsFiniteSet(S), NEW c, T \subseteq S \cup {c},
         NEW n \in Nat, NEW a \in Nat, n + Cardinality(S) <= 1 + a, NEW m, NEW b,
         \/ b = a + 1 /\ m = n
         \/ b = a /\ m = n /\ T \subseteq S
         \/ b = a /\ m = n + 1 /\ c \in S /\ c \notin T
  PROVE  m + Cardinality(T) <= 1 + b
  BY OneCaller

LEMMA WithinCallers ==
  ASSUME Shape, Within, NEW c \in Callers, Begin(c) \/ Step(c) \/ CutOff(c)
  PROVE  Within'
<1>1. issued \in Nat /\ hashes \in Nat /\ asked \in Nat
  BY DEF Shape, Within
<1>2. \A d \in Callers \ {c} : req'[d] = req[d]
  BY CallerSteps DEF Shape
<1>3. Issuing' \subseteq Issuing \cup {c} /\ Hashing' \subseteq Hashing \cup {c}
  BY <1>2 DEF Issuing, Hashing
\* The step asks for something, adds nothing, or adds what was asked for.
<1>4. ASSUME \/ asked' = asked + 1 /\ issued' = issued
             \/ asked' = asked /\ issued' = issued /\ Issuing' \subseteq Issuing
             \/ asked' = asked /\ issued' = issued + 1 /\ c \in Issuing /\ c \notin Issuing',
             \/ asked' = asked + 1 /\ hashes' = hashes
             \/ asked' = asked /\ hashes' = hashes /\ Hashing' \subseteq Hashing
             \/ asked' = asked /\ hashes' = hashes + 1 /\ c \in Hashing /\ c \notin Hashing'
      PROVE  Within'
  <2>1. issued' + Cardinality(Issuing') <= 1 + asked'
    <3>1. issued + Cardinality(Issuing) <= 1 + asked
      BY DEF Within
    <3> QED BY <1>1, <1>3, <1>4, <3>1, CoversMore, CallersFinite
  <2>2. hashes' + Cardinality(Hashing') <= 1 + asked'
    <3>1. hashes + Cardinality(Hashing) <= 1 + asked
      BY DEF Within
    <3> QED BY <1>1, <1>3, <1>4, <3>1, CoversMore, CallersFinite
  <2>3. asked' \in Nat
    BY <1>1, <1>4
  <2> QED BY <2>1, <2>2, <2>3 DEF Within
<1>5. CASE Begin(c)
  <2>1. asked' = asked + 1 /\ issued' = issued /\ hashes' = hashes
    BY <1>5 DEF Begin, Login, Logout, Refresh, ChangePassword, ResetPassword, Forgot, Ask, storeVars
  <2> QED BY <1>4, <2>1
<1>6. ASSUME \/ req'[c].at \notin {"legacy", "issue", "check", "rotate", "hash", "new"}
             \/ c \in Issuing /\ req'[c].at \notin {"hash", "new"},
             UNCHANGED <<asked, issued, hashes>>
      PROVE  Within'
  <2>1. Issuing' \subseteq Issuing /\ Hashing' \subseteq Hashing
    BY <1>2, <1>6 DEF Issuing, Hashing
  <2> QED BY <1>4, <1>6, <2>1
<1>7. ASSUME Done(c) \/ AnswerWith(c, 0) \/ AnswerWith(c, req[c].next), UNCHANGED <<asked, issued, hashes>>
      PROVE  Within'
  <2>1. req'[c].at \in {"idle", "answer"}
    BY <1>7, GoesTo DEF To
  <2> QED BY <1>6, <1>7, <2>1
<1>8. CASE Step(c)
  <2>1. CASE WriteLegacy(c)
    <3>1. CASE user.there
      <4>1. req'[c].at = "issue" /\ c \in Issuing /\ UNCHANGED <<asked, issued, hashes>>
        BY <2>1, <3>1, GoesTo DEF WriteLegacy, To, Issuing, counters
      <4> QED BY <1>6, <4>1
    <3>2. CASE ~user.there
      BY <1>7, <2>1, <3>2 DEF WriteLegacy, counters
    <3> QED BY <3>1, <3>2
  <2>2. CASE Issue(c)
    <3>1. CASE user.there
      <4>1. AnswerWith(c, issued + 1) /\ issued' = issued + 1 /\ UNCHANGED <<asked, hashes>> /\ c \in Issuing
        BY <2>2, <3>1 DEF Issue, counters, Issuing
      <4>2. req'[c].at = "answer"
        BY <4>1, GoesTo DEF To
      <4>3. c \notin Issuing' /\ Hashing' \subseteq Hashing
        BY <1>2, <4>2 DEF Issuing, Hashing
      <4> QED BY <1>4, <4>1, <4>3
    <3>2. CASE ~user.there
      BY <1>7, <2>2, <3>2 DEF Issue, counters
    <3> QED BY <3>1, <3>2
  <2>3. CASE RevokeMine(c)  BY <1>7, <2>3 DEF RevokeMine, counters
  <2>4. CASE Check(c)
    <3>1. CASE Accepts(req[c].token)
      <4>1. req'[c].at = "rotate" /\ c \in Issuing /\ UNCHANGED <<asked, issued, hashes>>
        BY <2>4, <3>1, GoesTo DEF Check, To, Issuing, counters
      <4> QED BY <1>6, <4>1
    <3>2. CASE ~Accepts(req[c].token)
      BY <1>7, <2>4, <3>2 DEF Check, counters
    <3> QED BY <3>1, <3>2
  <2>5. CASE Rotate(c)
    <3>1. CASE Rotatable(req[c].token)
      <4>1. /\ req'[c].at = "commit" /\ issued' = issued + 1 /\ UNCHANGED <<asked, hashes>>
            /\ c \in Issuing
        BY <2>5, <3>1, GoesOn DEF Rotate, To, Issuing, counters
      <4>2. c \notin Issuing' /\ Hashing' \subseteq Hashing
        BY <1>2, <4>1 DEF Issuing, Hashing
      <4> QED BY <1>4, <4>1, <4>2
    <3>2. CASE ~Rotatable(req[c].token)
      BY <1>7, <2>5, <3>2 DEF Rotate, counters
    <3> QED BY <3>1, <3>2
  <2>6. CASE Commit(c)      BY <1>7, <2>6 DEF Commit, counters
  <2>7. CASE Arrive(c)      BY <1>7, <2>7 DEF Arrive, storeVars, counters
  <2>8. CASE WriteHash(c)
    <3>1. CASE user.there
      <4>1. /\ req'[c].at \in {"identity", "pinned"} /\ hashes' = hashes + 1
            /\ UNCHANGED <<asked, issued>> /\ c \in Hashing
        BY <2>8, <3>1, GoesOn DEF WriteHash, To, Hashing, counters
      <4>2. c \notin Hashing' /\ Issuing' \subseteq Issuing
        BY <1>2, <4>1 DEF Issuing, Hashing
      <4> QED BY <1>4, <4>1, <4>2
    <3>2. CASE ~user.there
      BY <1>7, <2>8, <3>2 DEF WriteHash, counters
    <3> QED BY <3>1, <3>2
  <2>9. CASE WriteIdentity(c)
    <3>1. CASE user.there /\ req[c].at = "pinned"
      <4>1. req'[c].at = "mark" /\ UNCHANGED <<asked, issued, hashes>>
        BY <2>9, <3>1, GoesTo DEF WriteIdentity, To, counters
      <4> QED BY <1>6, <4>1
    <3>2. CASE ~(user.there /\ req[c].at = "pinned")
      BY <1>7, <2>9, <3>2 DEF WriteIdentity, counters
    <3> QED BY <3>1, <3>2
  <2>10. CASE MarkUsed(c)
    <3>1. req'[c].at = "end all" /\ UNCHANGED <<asked, issued, hashes>>
      BY <2>10, GoesTo DEF MarkUsed, To, counters
    <3> QED BY <1>6, <3>1
  <2>11. CASE EndAll(c)     BY <1>7, <2>11 DEF EndAll, counters
  <2> QED BY <1>8, <2>1, <2>2, <2>3, <2>4, <2>5, <2>6, <2>7, <2>8, <2>9, <2>10, <2>11 DEF Step
<1>9. CASE CutOff(c)
  BY <1>7, <1>9 DEF CutOff, storeVars
<1> QED BY <1>5, <1>8, <1>9

LEMMA OthersAskNothing == Others \/ UNCHANGED vars => UNCHANGED <<asked, hashes, outs>>
  BY DEF Others, Rulings, Block, Reactivate, RequestDeletion, ResetUserFlow, Rule, AdminStep, AdminRevokes,
     AdminEnds, AdminCutOff, ComesDue, Tick, ListDue, Anonymize, Audit, JobCutOff, vars,
     storeVars, history, counters

LEMMA WithinGoesOn == Shape /\ Within /\ [Next]_vars => Within'
<1> SUFFICES ASSUME Shape, Within, [Next]_vars PROVE Within'
  OBVIOUS
<1>1. CASE Others \/ UNCHANGED vars
  <2>1. UNCHANGED <<req, issued, asked, hashes>>
    BY <1>1, OthersFade, OthersAskNothing
  <2> QED BY <2>1 DEF Within, Issuing, Hashing
<1> QED BY <1>1, WithinCallers DEF Next, Others

-----------------------------------------------------------------------------
(* The ranges of what only grows or is picked from a list. *)

Ranges ==
  /\ link \in {"none", "active", "used"}
  /\ admin \in {"idle", "revoke", "revoke, block", "revoke, delete", "block", "delete"}
  /\ told \subseteq Events

Counts == asked \in 0..MaxRequests /\ ruled \in 0..MaxAdmin /\ faults \in 0..MaxFaults

LEMMA CountsGoOn ==
  ASSUME Counts, [Next]_vars PROVE Counts'
<1>1. /\ asked \in Nat /\ asked <= MaxRequests /\ ruled \in Nat /\ ruled <= MaxAdmin
      /\ faults \in Nat /\ faults <= MaxFaults
      /\ MaxRequests \in Nat /\ MaxAdmin \in Nat /\ MaxFaults \in Nat
  BY AccountBounds DEF Counts
<1>2. /\ asked' = asked \/ (asked' = asked + 1 /\ asked < MaxRequests)
      /\ ruled' = ruled \/ (ruled' = ruled + 1 /\ ruled < MaxAdmin)
      /\ faults' = faults \/ (faults' = faults + 1 /\ faults < MaxFaults)
  <2>1. CASE UNCHANGED vars
    BY <2>1 DEF vars, counters
  <2>2. ASSUME NEW c \in Callers, Begin(c)
        PROVE  asked' = asked + 1 /\ asked < MaxRequests /\ UNCHANGED <<ruled, faults>>
    BY <2>2 DEF Begin, Login, Logout, Refresh, ChangePassword, ResetPassword, Forgot, Ask
  <2>3. ASSUME NEW c \in Callers, Step(c) PROVE UNCHANGED counters
    BY <2>3 DEF Step, WriteLegacy, Issue, RevokeMine, Check, Rotate, Commit, Arrive, WriteHash,
       WriteIdentity, MarkUsed, EndAll
  <2>4. ASSUME NEW c \in Callers, CutOff(c)
        PROVE  faults' = faults + 1 /\ faults < MaxFaults /\ UNCHANGED <<asked, ruled>>
    BY <2>4 DEF CutOff
  <2>5. ASSUME Rulings PROVE ruled' = ruled + 1 /\ ruled < MaxAdmin /\ UNCHANGED <<asked, faults>>
    BY <2>5 DEF Rulings, Block, Reactivate, RequestDeletion, ResetUserFlow, Rule
  <2>6. ASSUME AdminStep \/ ComesDue \/ \E j \in Jobs : Tick(j) PROVE UNCHANGED counters
    BY <2>6 DEF AdminStep, AdminRevokes, AdminEnds, ComesDue, Tick, ListDue, Anonymize, Audit
  <2>7. ASSUME AdminCutOff \/ \E j \in Jobs : JobCutOff(j)
        PROVE  faults' = faults + 1 /\ faults < MaxFaults /\ UNCHANGED <<asked, ruled>>
    BY <2>7 DEF AdminCutOff, JobCutOff
  <2> QED BY <2>1, <2>2, <2>3, <2>4, <2>5, <2>6, <2>7 DEF Next, counters
<1> QED BY <1>1, <1>2 DEF Counts

LEMMA RangesGoOn ==
  ASSUME Ranges, [Next]_vars PROVE Ranges'
<1>1. CASE UNCHANGED vars
  BY <1>1 DEF vars, storeVars, history, Ranges
<1>2. ASSUME NEW c \in Callers, Begin(c) \/ Step(c) \/ CutOff(c) PROVE Ranges'
  <2>1. admin' = admin
    BY <1>2 DEF Begin, Login, Logout, Refresh, ChangePassword, ResetPassword, Forgot, CutOff, Step,
       WriteLegacy, Issue, RevokeMine, Check, Rotate, Commit, Arrive, WriteHash, WriteIdentity, MarkUsed,
       EndAll
  <2>2. link' \in {link, "active", "used"}
    BY <1>2 DEF Begin, Login, Logout, Refresh, ChangePassword, ResetPassword, Forgot, CutOff, Step,
       WriteLegacy, Issue, RevokeMine, Check, Rotate, Commit, Arrive, WriteHash, WriteIdentity, MarkUsed,
       EndAll, storeVars
  <2>3. told' \subseteq told \cup Events
    BY <1>2 DEF Begin, Login, Logout, Refresh, ChangePassword, ResetPassword, Forgot, CutOff, Step,
       WriteLegacy, Issue, RevokeMine, Check, Rotate, Commit, Arrive, WriteHash, WriteIdentity, MarkUsed,
       EndAll, history, Events
  <2> QED BY <2>1, <2>2, <2>3 DEF Ranges
<1>3. CASE Rulings \/ AdminStep \/ AdminCutOff \/ ComesDue
  <2>1. link' \in {link, "none"} /\ told' \subseteq told \cup Events
    BY <1>3 DEF Rulings, Block, Reactivate, RequestDeletion, ResetUserFlow, AdminStep, AdminRevokes,
       AdminEnds, AdminCutOff, ComesDue, storeVars, history, Events
  <2>2. admin' \in {admin, "idle", "revoke", "revoke, block", "revoke, delete", "block", "delete"}
    BY <1>3 DEF Rulings, Block, Reactivate, RequestDeletion, ResetUserFlow, Rule, AdminStep, AdminRevokes,
       AdminEnds, AdminCutOff, ComesDue
  <2> QED BY <2>1, <2>2 DEF Ranges
<1>4. ASSUME NEW j \in Jobs, Tick(j) \/ JobCutOff(j) PROVE Ranges'
  <2>1. link' \in {link, "none"} /\ told' \subseteq told \cup Events /\ admin' = admin
    BY <1>4 DEF Tick, ListDue, Anonymize, Audit, JobCutOff, storeVars, history, Events
  <2> QED BY <2>1 DEF Ranges
<1> QED BY <1>1, <1>2, <1>3, <1>4 DEF Next

\* The numbers there are suffice for what is asked for.
LEMMA Enough ==
  ASSUME Shape, Within, Counts
  PROVE  /\ issued <= 1 + MaxRequests /\ hashes <= 1 + MaxRequests
         /\ \A c \in Issuing : issued + 1 \in Tokens
         /\ \A c \in Hashing : hashes + 1 <= 1 + MaxRequests
<1>1. /\ issued \in Nat /\ hashes \in Nat /\ asked \in Nat /\ MaxRequests \in Nat /\ asked <= MaxRequests
      /\ issued + Cardinality(Issuing) <= 1 + asked
      /\ hashes + Cardinality(Hashing) <= 1 + asked
  BY AccountBounds DEF Shape, Within, Counts
<1>2. Cardinality(Issuing) \in Nat /\ Cardinality(Hashing) \in Nat
  BY CallersFinite, FS_CardinalityType
<1>3. issued <= 1 + MaxRequests /\ hashes <= 1 + MaxRequests
  BY <1>1, <1>2
<1>4. ASSUME NEW c \in Issuing PROVE issued + 1 \in Tokens
  <2>1. Cardinality(Issuing) # 0
    BY CallersFinite, FS_EmptySet
  <2> QED BY <1>1, <1>2, <2>1 DEF Tokens
<1>5. ASSUME NEW c \in Hashing PROVE hashes + 1 <= 1 + MaxRequests
  <2>1. Cardinality(Hashing) # 0
    BY CallersFinite, FS_EmptySet
  <2> QED BY <1>1, <1>2, <2>1
<1> QED BY <1>3, <1>4, <1>5

-----------------------------------------------------------------------------
(* The browser stays signed in.                                            *)

\* Nothing was ended and no answer lost or crossed.
Kept == told \cap {"crossed logout", "ended", "lost answer", "two refreshes"} = {}

Untouched ==
  /\ user.there /\ ~user.blocked /\ user.state = "active" /\ admin = "idle"
  /\ \A j \in Jobs : ~Busy(j)

Answers == {c \in Callers : req[c].at = "answer"}
Refreshing(c) == req[c].at \in {"check", "rotate", "commit"}
OnSession(c) == Refreshing(c) \/ req[c].at \in {"legacy", "issue", "answer"}

\* The token caller c refreshes with is live, and nobody else's.
Sole(c) ==
  /\ req[c].token \in Live
  /\ \A d \in Callers \ {c} : OnSession(d) => req[d].token # req[c].token

\* An answer that clears the cookie is the logout's, and comes alone.
Clears(c) ==
  /\ "signed out" \in told /\ req[c].token = jar /\ jar # 0
  /\ \A d \in Callers \ {c} : ~OnSession(d)

SignedIn ==
  Kept =>
  /\ Untouched
  /\ \A c \in Callers : Refreshing(c) => Sole(c)
  /\ \A c \in Answers : IF req[c].next = 0 THEN Clears(c) ELSE req[c].next \in Live
  /\ jar # 0 => jar \in Live \/ \E c \in Answers : req[c].token = jar
  /\ jar = 0 => "signed out" \in told \/ \E c \in Answers : req[c].next # 0

LEMMA SignedInStarts == Init => SignedIn
<1> SUFFICES ASSUME Init PROVE SignedIn
  OBVIOUS
<1>1. 1 \in Tokens
  BY AccountBounds DEF Tokens
<1>2. 1 \in Live /\ jar = 1
  BY <1>1 DEF Init, Live
<1>3. \A c \in Callers : req[c].at = "idle"
  BY DEF Init, Idle
<1>4. Untouched
  BY DEF Init, Untouched, Busy
<1> QED BY <1>2, <1>3, <1>4 DEF SignedIn, Refreshing, Answers

\* What ends a session cannot have happened as long as it is kept.
LEMMA OthersEnd ==
  ASSUME Shape, SignedIn, Others PROVE ~Kept'
<1> SUFFICES ASSUME Kept' PROVE FALSE
  OBVIOUS
<1>1. Kept
  BY ToldStays DEF Kept, Next, Others
<1>2. Untouched
  BY <1>1 DEF SignedIn
<1> QED BY <1>2 DEF Others, Rulings, Block, Reactivate, RequestDeletion, ResetUserFlow, AdminStep, AdminRevokes,
     AdminEnds, AdminCutOff, ComesDue, Tick, ListDue, ListedAsDue, Due, Anonymize, Audit, JobCutOff,
     Untouched, Busy, Kept

\* A caller that neither held the session nor holds it now changes nothing.
LEMMA SignedInAside ==
  ASSUME Shape, SignedIn, Kept, NEW c \in Callers, NEW at, NEW t, NEW n, To(c, at, t, n),
         at \notin {"check", "rotate", "commit", "legacy", "issue", "answer"},
         req[c].at # "answer", Untouched', UNCHANGED <<tokens, jar>>, told \subseteq told'
  PROVE  SignedIn'
<1>1. /\ ~Refreshing(c)' /\ ~OnSession(c)' /\ c \notin Answers'
      /\ \A d \in Callers \ {c} : /\ req'[d] = req[d]
                                  /\ Refreshing(d)' = Refreshing(d) /\ OnSession(d)' = OnSession(d)
  BY DEF To, Refreshing, OnSession, Answers
<1>2. Answers' = Answers
  BY <1>1 DEF Answers
<1>3. Live' = Live
  BY DEF Live
<1>4. c \notin Answers
  BY DEF Answers
<1>5. \A d \in Callers : Refreshing(d)' => Sole(d)'
  BY <1>1, <1>3 DEF SignedIn, Sole
<1>6. \A d \in Answers' : IF req'[d].next = 0 THEN Clears(d)' ELSE req'[d].next \in Live'
  <2> SUFFICES ASSUME NEW d \in Answers PROVE IF req'[d].next = 0 THEN Clears(d)' ELSE req'[d].next \in Live'
    BY <1>2
  <2>1. req'[d] = req[d]
    BY <1>1, <1>4 DEF Answers
  <2> QED BY <1>1, <1>3, <2>1 DEF SignedIn, Clears
<1>7. \A d \in Answers : req'[d] = req[d]
  BY <1>1, <1>4 DEF Answers
<1> QED BY <1>2, <1>3, <1>5, <1>6, <1>7 DEF SignedIn

\* What a caller leaves alone.
LEMMA CallersTouchNothing ==
  ASSUME Shape, Kept, Untouched, NEW c \in Callers, Begin(c) \/ Step(c) \/ CutOff(c)
  PROVE  Untouched'
<1>1. UNCHANGED <<admin, job>>
  BY DEF Begin, Login, Logout, Refresh, ChangePassword, ResetPassword, Forgot, CutOff, Step,
     WriteLegacy, Issue, RevokeMine, Check, Rotate, Commit, Arrive, WriteHash, WriteIdentity, MarkUsed,
     EndAll, storeVars
<1>2. user' = user \/ user' = [user EXCEPT !.hash = hashes + 1]
  BY DEF Begin, Login, Logout, Refresh, ChangePassword, ResetPassword, Forgot, CutOff, Step,
     WriteLegacy, Issue, RevokeMine, Check, Rotate, Commit, Arrive, WriteHash, WriteIdentity, MarkUsed,
     EndAll, storeVars
<1>3. user'.there = user.there /\ user'.blocked = user.blocked /\ user'.state = user.state
  BY <1>2 DEF Shape, UserRows
<1> QED BY <1>1, <1>3 DEF Untouched, Busy

LEMMA IdleHolds == Idle.at = "idle" /\ Idle.token = 0 /\ Idle.next = 0 /\ Idle.hash = 0
  BY DEF Idle

LEMMA SignedInBegins ==
  ASSUME Shape, Fresh, SignedIn, Kept, Kept', NEW c \in Callers, Begin(c), Untouched'
  PROVE  SignedIn'
<1>1. UNCHANGED <<tokens, jar>> /\ (Forgot(c) \/ req[c] = Idle) /\ told \subseteq told'
  BY DEF Begin, Login, Logout, Refresh, ChangePassword, ResetPassword, Forgot, Ask, storeVars, history
<1>2. Live' = Live
  BY <1>1 DEF Live
<1>3. CASE Forgot(c)
  BY <1>2, <1>3 DEF Forgot, history, SignedIn, Kept, Refreshing, OnSession, Answers, Sole, Clears
<1>4. CASE Logout(c) \/ ChangePassword(c) \/ ResetPassword(c)
  <2>1. PICK at, t : at \in {"leave", "hash", "new"} /\ To(c, at, t, 0)
    BY <1>4, Begins
  <2>2. req[c].at # "answer"
    BY <1>1, <1>4 DEF Logout, ChangePassword, ResetPassword, Ask, Idle
  <2> QED BY <1>1, <2>1, <2>2, SignedInAside
\* Whoever takes the session up: nobody has answered with a cleared cookie.
<1>5. ASSUME req[c] = Idle, NEW at \in {"issue", "legacy", "check"}, NEW t, To(c, at, t, 0), told' \subseteq told \cup {"two refreshes"},
             \A d \in Answers : req[d].next # 0,
             at = "check" => t \in Live /\ \A d \in Callers \ {c} : req[d].token # t,
             \A d \in Callers : Refreshing(d) => req[d].token # t
      PROVE  SignedIn'
  <2>1. /\ c \notin Answers /\ c \notin Answers'
        /\ \A d \in Callers \ {c} : req'[d] = req[d]
    BY <1>5, IdleHolds DEF To, Answers
  <2>2. Answers' = Answers /\ \A d \in Answers : req'[d] = req[d]
    BY <2>1 DEF Answers
  <2>3. \A d \in Answers : req[d].next \in Live
    BY <1>5 DEF SignedIn
  <2>4. ASSUME NEW d \in Callers, Refreshing(d)' PROVE Sole(d)'
    <3>1. CASE d = c
      <4>1. at = "check" /\ req'[c].token = t
        BY <1>5, <2>4, <3>1 DEF To, Refreshing
      <4> QED BY <1>2, <1>5, <2>1, <3>1, <4>1 DEF Sole, OnSession, Refreshing
    <3>2. CASE d # c
      <4>1. Refreshing(d) /\ req'[d] = req[d] /\ Sole(d)
        BY <2>1, <2>4, <3>2 DEF Refreshing, SignedIn
      <4>2. req[d].token # t
        BY <1>5, <3>2, <4>1
      <4>3. req'[c].token = t
        BY <1>5 DEF To
      <4> QED BY <1>2, <2>1, <4>1, <4>2, <4>3 DEF Sole, OnSession, Refreshing
    <3> QED BY <3>1, <3>2
  <2>5. "signed out" \in told => "signed out" \in told'
    BY <1>1
  <2> QED BY <1>1, <1>2, <2>2, <2>3, <2>4, <2>5, <1>5 DEF SignedIn
<1>6. CASE Login(c)
  <2>1. PICK at \in {"issue", "legacy"} : To(c, at, 0, 0)
    BY <1>6, Begins
  <2>2. req[c] = Idle /\ jar = 0 /\ told' = told
    BY <1>6 DEF Login, Ask, history
  <2>3. \A d \in Answers : req[d].next # 0
    BY <2>2 DEF SignedIn, Clears
  <2>4. \A d \in Callers : Refreshing(d) => req[d].token # 0
    BY DEF Fresh, Refreshing
  <2> QED BY <1>5, <2>1, <2>2, <2>3, <2>4
<1>7. CASE Refresh(c)
  <2>1. To(c, "check", jar, 0)
    BY <1>7, Begins
  <2>2. /\ req[c] = Idle /\ jar # 0 /\ told' \subseteq told \cup {"two refreshes"}
        /\ \A d \in Callers \ {c} : req[d].token # jar
    BY <1>7 DEF Refresh, Ask, Kept
  <2>3. \A d \in Answers : req[d].token # jar
    BY <2>2, IdleHolds DEF Answers
  <2>4. jar \in Live /\ \A d \in Answers : req[d].next # 0
    BY <2>2, <2>3 DEF SignedIn, Clears
  <2>5. \A d \in Callers : Refreshing(d) => req[d].token # jar
    BY <2>2, IdleHolds DEF Refreshing
  <2> QED BY <1>5, <2>1, <2>2, <2>4, <2>5
<1> QED BY <1>3, <1>4, <1>6, <1>7 DEF Begin

\* A caller goes on with the session it is on.
LEMMA SignedInOn ==
  ASSUME Shape, SignedIn, Kept, NEW c \in Callers, NEW at, NEW n, To(c, at, req[c].token, n),
         at \in {"issue", "rotate", "commit"}, OnSession(c), req[c].at # "answer",
         at = "issue" \/ Refreshing(c),
         Untouched', UNCHANGED <<tokens, jar, told>>
  PROVE  SignedIn'
<1>1. /\ req'[c].token = req[c].token /\ req'[c].at = at
      /\ \A d \in Callers \ {c} : req'[d] = req[d]
  BY DEF To
<1>2. c \notin Answers /\ c \notin Answers'
  BY <1>1 DEF Answers
<1>3. Answers' = Answers /\ \A d \in Answers : req'[d] = req[d]
  BY <1>1, <1>2 DEF Answers
<1>4. Live' = Live
  BY DEF Live
<1>5. \A d \in Callers : /\ req'[d].token = req[d].token
                         /\ Refreshing(d)' => Refreshing(d)
                         /\ OnSession(d)' => OnSession(d)
  BY <1>1 DEF OnSession, Refreshing
<1>6. \A d \in Callers : Refreshing(d)' => Sole(d)'
  BY <1>4, <1>5 DEF Sole, SignedIn
<1>7. \A d \in Answers' : IF req'[d].next = 0 THEN Clears(d)' ELSE req'[d].next \in Live'
  BY <1>3, <1>4, <1>5 DEF Clears, SignedIn
<1> QED BY <1>3, <1>4, <1>6, <1>7 DEF SignedIn

\* A caller on the session answers with a token that is live by then, and all
\* tokens but the one it came with live on.
LEMMA SignedInAnswers ==
  ASSUME Shape, SignedIn, Kept, NEW c \in Callers, NEW n, To(c, "answer", req[c].token, n),
         n # 0, n \in Live', OnSession(c), req[c].at # "answer", ~Refreshing(c) => Live \subseteq Live',
         \A i \in Live : i # req[c].token => i \in Live',
         \A d \in Answers : req[d].next # req[c].token,
         Untouched', UNCHANGED jar
  PROVE  SignedIn'
<1>1. /\ req'[c].token = req[c].token /\ req'[c].at = "answer" /\ req'[c].next = n
      /\ \A d \in Callers \ {c} : req'[d] = req[d]
  BY DEF To
<1>2. c \notin Answers /\ Answers' = Answers \cup {c} /\ \A d \in Answers : req'[d] = req[d] /\ d # c
  BY <1>1 DEF Answers
<1>3. \A d \in Answers : req[d].next \in Live
  BY <1>2 DEF SignedIn, Clears
<1>4. \A d \in Answers' : req'[d].next \in Live' /\ (req'[d].next = 0 => Clears(d)')
  <2> SUFFICES ASSUME NEW d \in Answers' PROVE req'[d].next \in Live' /\ (req'[d].next = 0 => Clears(d)')
    OBVIOUS
  <2>1. CASE d = c
    BY <1>1, <2>1
  <2>2. CASE d # c
    <3>1. d \in Answers /\ req'[d] = req[d] /\ req[d].next # 0
      BY <1>2, <2>2 DEF SignedIn, Clears
    <3> QED BY <1>3, <3>1
  <2> QED BY <2>1, <2>2
<1>5. ASSUME NEW d \in Callers, Refreshing(d)' PROVE Sole(d)'
  <2>1. d # c /\ Refreshing(d) /\ req'[d] = req[d] /\ Sole(d)
    BY <1>1, <1>5 DEF Refreshing, SignedIn
  <2>2. req[d].token # req[c].token /\ req[d].token \in Live
    BY <2>1 DEF Sole
  <2>3. \A e \in Callers \ {d} : OnSession(e)' => req'[e].token = req[e].token /\ OnSession(e)
    BY <1>1 DEF OnSession, Refreshing
  <2> QED BY <2>1, <2>2, <2>3 DEF Sole
<1>6. jar # 0 => jar \in Live' \/ \E d \in Answers' : req'[d].token = jar
  BY <1>1, <1>2 DEF SignedIn
<1>7. jar = 0 => \E d \in Answers' : req'[d].next # 0
  BY <1>1, <1>2
<1> QED BY <1>4, <1>5, <1>6, <1>7 DEF SignedIn

LEMMA SignedInCallers ==
  ASSUME Shape, SessionInv, Fresh, Within, Counts, SignedIn, Kept, Kept',
         NEW c \in Callers, Begin(c) \/ Step(c) \/ CutOff(c)
  PROVE  SignedIn'
<1>1. Untouched /\ Untouched'
  BY CallersTouchNothing DEF SignedIn
\* The caller drops what it did.
<1>2. CASE Done(c) /\ req[c].at # "answer" /\ UNCHANGED <<tokens, jar>> /\ told \subseteq told'
  <2>1. To(c, "idle", 0, 0)
    BY <1>2, GoesTo
  <2> QED BY <1>1, <1>2, <2>1, SignedInAside
\* Or does something else than using the session.
<1>3. ASSUME NEW at \in {"identity", "pinned", "mark", "end all"}, NEW n, To(c, at, req[c].token, n),
             req[c].at # "answer", UNCHANGED <<tokens, jar>>, told \subseteq told'
      PROVE  SignedIn'
  BY <1>1, <1>3, SignedInAside
<1>4. CASE CutOff(c)
  <2>1. Done(c) /\ UNCHANGED <<tokens, jar>> /\ told \subseteq told'
        /\ (req[c].at = "answer" => "lost answer" \in told')
    BY <1>4 DEF CutOff, storeVars
  <2> QED BY <1>2, <2>1 DEF Kept
<1>5. CASE Step(c)
  <2>1. CASE WriteLegacy(c)
    <3>1. Goto(c, "issue") /\ req[c].at = "legacy" /\ UNCHANGED <<tokens, jar, told>>
      BY <1>1, <2>1 DEF WriteLegacy, Untouched, history
    <3>2. To(c, "issue", req[c].token, req[c].next)
      BY <3>1, GoesTo
    <3> QED BY <1>1, <3>1, <3>2, SignedInOn DEF OnSession
  <2>2. CASE Issue(c)
    <3>1. /\ req[c].at = "issue" /\ AnswerWith(c, issued + 1) /\ UNCHANGED jar
          /\ tokens' = [tokens EXCEPT ![issued + 1] = [state |-> "live", session |-> issued + 1]]
      BY <1>1, <2>2 DEF Issue, Untouched
    <3>2. issued + 1 \in Tokens /\ issued + 1 # 0
      BY <3>1, Enough DEF Issuing, Shape
    <3>3. To(c, "answer", req[c].token, issued + 1)
      BY <3>1, GoesTo
    <3>4. issued + 1 \in Live' /\ Live \subseteq Live'
      BY <3>1, <3>2 DEF Shape, Live
    <3>5. OnSession(c) /\ req[c].at # "answer"
      BY <3>1 DEF OnSession
    <3>6. \A d \in Answers : req[d].next # req[c].token
      BY <3>5 DEF Fresh, Hands, SignedIn, Clears, Answers
    <3> QED BY <1>1, <3>1, <3>2, <3>3, <3>4, <3>5, <3>6, SignedInAnswers
  <2>3. CASE RevokeMine(c)
    <3>0. /\ req[c].at = "leave" /\ AnswerWith(c, 0) /\ UNCHANGED jar /\ "signed out" \in told'
          /\ (req[c].token # jar \/ \E d \in Callers \ {c} : req[d].at # "idle") => "crossed logout" \in told'
      BY <2>3 DEF RevokeMine
    <3>1. /\ req[c].at = "leave" /\ AnswerWith(c, 0) /\ UNCHANGED jar /\ "signed out" \in told'
          /\ req[c].token = jar /\ \A d \in Callers \ {c} : req[d].at = "idle"
      BY <3>0 DEF Kept
    <3>2. To(c, "answer", req[c].token, 0) /\ jar # 0
      BY <3>1, GoesTo DEF Fresh
    <3>3. /\ req'[c].at = "answer" /\ req'[c].token = jar /\ req'[c].next = 0
          /\ \A d \in Callers \ {c} : req'[d].at = "idle"
      BY <3>1, <3>2 DEF To
    <3>4. /\ \A d \in Callers : ~Refreshing(d)' /\ (d # c => ~OnSession(d)')
          /\ Answers' = {c}
      BY <3>3 DEF Refreshing, OnSession, Answers
    <3>5. Clears(c)'
      BY <3>1, <3>2, <3>3, <3>4 DEF Clears
    <3> QED BY <1>1, <3>1, <3>2, <3>3, <3>4, <3>5 DEF SignedIn
  <2>4. CASE Check(c)
    <3>1. req[c].at = "check" /\ req[c].token \in Live
      BY <2>4 DEF Check, SignedIn, Refreshing, Sole
    <3>2. Goto(c, "rotate") /\ UNCHANGED <<tokens, jar, told>>
      BY <1>1, <2>4, <3>1 DEF Check, Accepts, Untouched, history
    <3>3. To(c, "rotate", req[c].token, req[c].next)
      BY <3>2, GoesTo
    <3> QED BY <1>1, <3>1, <3>2, <3>3, SignedInOn DEF OnSession, Refreshing
  <2>5. CASE Rotate(c)
    <3>1. req[c].at = "rotate" /\ Rotatable(req[c].token)
      BY <2>5 DEF Rotate, SignedIn, Refreshing, Sole, Rotatable
    <3>2. To(c, "commit", req[c].token, issued + 1) /\ UNCHANGED <<tokens, jar, told>>
      BY <2>5, <3>1, GoesOn DEF Rotate, history
    <3> QED BY <1>1, <3>1, <3>2, SignedInOn DEF OnSession, Refreshing
  <2>6. CASE Commit(c)
    <3> DEFINE i == req[c].token  n == req[c].next
    <3>1. /\ req[c].at = "commit" /\ AnswerWith(c, n) /\ UNCHANGED jar
          /\ tokens' = Rotated(i, n)
      BY <1>1, <2>6 DEF Commit, Untouched
    <3>2. Holds(c) /\ c \in Hands /\ n # 0 /\ n # i
      BY <3>1 DEF SessionInv, Commits, Fresh, Hands
    <3>3. n \in Tokens /\ i \in Tokens
      <4>1. i \in Tokens /\ n <= issued /\ n \in Nat /\ issued \in Nat /\ issued <= 1 + MaxRequests
            /\ MaxRequests \in Nat
        BY <3>2, Enough, AccountBounds DEF Holds, Shape, Requests
      <4> QED BY <3>2, <4>1 DEF Tokens
    <3>4. To(c, "answer", i, n)
      BY <3>1, GoesTo
    <3>5. n \in Live' /\ \A k \in Live : k # i => k \in Live'
      BY <3>1, <3>2, <3>3 DEF Rotated, Shape, Live
    <3>6. OnSession(c) /\ Refreshing(c) /\ req[c].at # "answer"
      BY <3>1 DEF OnSession, Refreshing
    <3>7. \A d \in Answers : req[d].next # i
      BY <3>6 DEF Fresh, Hands, SignedIn, Clears, Answers
    <3> HIDE DEF i, n
    <3> QED BY <1>1, <3>1, <3>2, <3>4, <3>5, <3>6, <3>7, SignedInAnswers DEF i
  <2>7. CASE Arrive(c)
    <3>1. req[c].at = "answer" /\ jar' = req[c].next /\ Done(c) /\ UNCHANGED <<tokens, told>>
      BY <2>7 DEF Arrive, storeVars, history
    <3>2. To(c, "idle", 0, 0)
      BY <3>1, GoesTo
    <3>3. req'[c].at = "idle" /\ \A d \in Callers \ {c} : req'[d] = req[d]
      BY <3>2 DEF To
    <3>4. c \in Answers /\ Answers' = Answers \ {c} /\ Live' = Live /\ OnSession(c)
      BY <3>1, <3>3 DEF Answers, Live, OnSession
    <3>5. \A d \in Callers : Refreshing(d)' => Sole(d)'
      BY <3>3, <3>4 DEF Refreshing, OnSession, Sole, SignedIn
    <3>6. \A d \in Answers \ {c} : d \in Callers /\ req[d].next \in Live /\ req[d].next # 0
      BY <3>4 DEF SignedIn, Clears, Answers
    <3>7. \A d \in Answers' : IF req'[d].next = 0 THEN Clears(d)' ELSE req'[d].next \in Live'
      BY <3>3, <3>4, <3>6
    <3>8. jar' # 0 => jar' \in Live'
      BY <3>1, <3>4 DEF SignedIn
    <3>9. jar' = 0 => "signed out" \in told'
      BY <3>1, <3>4 DEF SignedIn, Clears
    <3> QED BY <1>1, <3>5, <3>7, <3>8, <3>9 DEF SignedIn
  <2>8. CASE WriteHash(c)
    <3>1. user.there /\ req[c].at # "answer" /\ UNCHANGED <<tokens, jar>> /\ told \subseteq told'
      BY <1>1, <2>8 DEF WriteHash, Untouched
    <3>2. PICK at \in {"identity", "pinned"} : To(c, at, req[c].token, req[c].next)
      BY <2>8, <3>1, GoesOn
    <3> QED BY <1>3, <3>1, <3>2
  <2>9. CASE WriteIdentity(c)
    <3>1. req[c].at # "answer" /\ UNCHANGED <<tokens, jar, told>> /\ (Done(c) \/ Goto(c, "mark"))
      BY <2>9 DEF WriteIdentity, history
    <3>2. Goto(c, "mark") => To(c, "mark", req[c].token, req[c].next)
      BY GoesTo
    <3> QED BY <1>2, <1>3, <3>1, <3>2
  <2>10. CASE MarkUsed(c)
    <3>1. req[c].at # "answer" /\ UNCHANGED <<tokens, jar, told>> /\ Goto(c, "end all")
      BY <2>10 DEF MarkUsed, history
    <3>2. To(c, "end all", req[c].token, req[c].next)
      BY <3>1, GoesTo
    <3> QED BY <1>3, <3>1, <3>2
  <2>11. CASE EndAll(c)
    BY <2>11 DEF EndAll, Kept
  <2> QED BY <1>5, <2>1, <2>2, <2>3, <2>4, <2>5, <2>6, <2>7, <2>8, <2>9, <2>10, <2>11 DEF Step
<1>6. CASE Begin(c)
  BY <1>1, <1>6, SignedInBegins
<1> QED BY <1>4, <1>5, <1>6

LEMMA SignedInGoesOn ==
  Shape /\ SessionInv /\ Fresh /\ Within /\ Counts /\ SignedIn /\ [Next]_vars => SignedIn'
<1> SUFFICES ASSUME Shape, SessionInv, Fresh, Within, Counts, SignedIn, [Next]_vars, Kept' PROVE SignedIn'
  BY DEF SignedIn
<1>1. Kept
  BY ToldStays DEF Kept
<1>2. CASE UNCHANGED vars
  BY <1>2 DEF vars, storeVars, history, SignedIn, Kept, Untouched, Busy, Refreshing, OnSession, Answers,
     Sole, Clears, Live
<1>3. ASSUME NEW c \in Callers, Begin(c) \/ Step(c) \/ CutOff(c) PROVE SignedIn'
  BY <1>1, <1>3, SignedInCallers
<1> QED BY <1>2, <1>3, OthersEnd DEF Next, Others

\* Everything the proofs of what follows rest on.
AccountInv == Shape /\ SessionInv /\ Fresh /\ Within /\ Counts

LEMMA AccountStarts == Init => AccountInv
<1> SUFFICES ASSUME Init PROVE AccountInv
  OBVIOUS
<1>1. Counts
  BY AccountBounds DEF Init, Counts
<1> QED BY <1>1, InitShape, SessionsStart, FreshStarts, WithinStarts DEF AccountInv

LEMMA AccountGoesOn == AccountInv /\ [Next]_vars => AccountInv'
  BY SessionsGoOn, FreshGoesOn, WithinGoesOn, CountsGoOn DEF AccountInv

\* A browser that has nothing under way and no session was signed out by
\* somebody, or lost an answer, or refreshed twice with one token.
THEOREM StaysSignedIn == Spec => []SignedOutForAReason
<1>1. SignedIn => SignedOutForAReason
  <2> SUFFICES ASSUME SignedIn, Quiet, jar = 0, Kept PROVE "signed out" \in told
    BY DEF SignedOutForAReason, Kept
  <2>1. Answers = {}
    BY IdleHolds DEF Answers, Quiet
  <2> QED BY <2>1 DEF SignedIn
<1>2. AccountInv /\ SignedIn /\ [Next]_vars => SignedIn'
  BY SignedInGoesOn DEF AccountInv
<1> QED BY <1>1, <1>2, AccountStarts, AccountGoesOn, SignedInStarts, PTL DEF Spec

-----------------------------------------------------------------------------
(* A logout holds. *)

Quietly == told \cap {"crossed logout", "lost answer"} = {}

Sess(i) == tokens[i].session

\* The token an answer brings is the only live one of its session, nobody is
\* about to commit another, and the session was not left.
Only(c) ==
  /\ Sess(req[c].next) \notin outs
  /\ \A k \in Live : Sess(k) = Sess(req[c].next) => k = req[c].next
  /\ \A d \in Commits : Sess(req[d].token) # Sess(req[c].next)

\* The session in the jar is left only while the answer that clears the jar is
\* on its way, and live tokens of it are in the jar or on their way to it.
InJar ==
  /\ Sess(jar) \in outs => \E c \in Answers : req[c].next = 0
  /\ \A k \in Live : Sess(k) = Sess(jar) => k = jar \/ \E c \in Answers : req[c].next = k

LeftBehind ==
  Quietly =>
  /\ \A i \in Live : Sess(i) \notin outs
  /\ \A c \in Commits : Sess(req[c].token) \notin outs
  /\ \A c \in Answers : req[c].next # 0 => Only(c)
  /\ jar # 0 => InJar

OutsIssued == outs \subseteq 1..issued

LEMMA LeftStarts == Init => LeftBehind /\ OutsIssued
<1> SUFFICES ASSUME Init PROVE LeftBehind /\ OutsIssued
  OBVIOUS
<1>1. \A k \in Live : k = 1
  BY DEF Init, Live, NoToken
<1>2. jar = 1 /\ outs = {} /\ \A c \in Callers : req[c].at = "idle"
  BY DEF Init, Idle
<1> QED BY <1>1, <1>2 DEF LeftBehind, OutsIssued, InJar, Commits, Answers

\* Tokens in somebody's hands exist.
LEMMA InHand ==
  ASSUME AccountInv
  PROVE  /\ jar \in {0} \cup Tokens
         /\ \A c \in Callers : req[c].token \in {0} \cup Tokens /\ req[c].next \in {0} \cup Tokens
         /\ \A c \in Commits : req[c].token \in Tokens /\ req[c].next \in Tokens
<1>1. issued \in Nat /\ issued <= 1 + MaxRequests /\ MaxRequests \in Nat
  BY Enough, AccountBounds DEF AccountInv, Shape
<1>2. \A n \in Nat : n <= issued => n \in {0} \cup Tokens
  BY <1>1 DEF Tokens
<1>3. /\ jar \in Nat /\ jar <= issued
      /\ \A c \in Callers : /\ req[c].token \in Nat /\ req[c].token <= issued
                            /\ req[c].next \in Nat /\ req[c].next <= issued
  BY DEF AccountInv, Shape, Fresh, Requests
<1>4. \A c \in Commits : c \in Callers /\ req[c].token # 0 /\ req[c].next # 0
  BY DEF AccountInv, Fresh, Commits
<1> QED BY <1>2, <1>3, <1>4

\* Tokens that only fade, and a caller that brings nothing new.
LEMMA LeftFades ==
  ASSUME AccountInv, LeftBehind, Quietly, Fading, UNCHANGED <<jar, outs>>,
         NEW c \in Callers, NEW at, NEW t, NEW n, To(c, at, t, n),
         at # "commit", at = "answer" => n = 0, req[c].at # "answer"
  PROVE  LeftBehind'
<1>1. /\ req'[c].at = at /\ req'[c].next = n
      /\ \A d \in Callers \ {c} : req'[d] = req[d]
  BY DEF To
<1>2. \A d \in Answers : d \in Answers' /\ req'[d] = req[d]
  BY <1>1 DEF Answers
<1>3. \A d \in Answers' : req'[d].next # 0 => d \in Answers /\ req'[d] = req[d]
  BY <1>1 DEF Answers
<1>4. \A d \in Commits' : d \in Commits /\ req'[d] = req[d]
  BY <1>1 DEF Commits
<1>5. Live' \subseteq Live /\ \A i \in Tokens : tokens'[i].session = tokens[i].session
  BY DEF Fading, Live
<1>6. /\ jar # 0 => tokens'[jar].session = tokens[jar].session
      /\ \A d \in Commits : tokens'[req[d].token].session = tokens[req[d].token].session
      /\ \A d \in Answers : req[d].next # 0 => tokens'[req[d].next].session = tokens[req[d].next].session
      /\ \A k \in Live : tokens'[k].session = tokens[k].session
  BY <1>5, InHand DEF Answers, Live
<1>7. \A i \in Live' : Sess(i)' \notin outs'
  BY <1>5, <1>6 DEF LeftBehind, Sess
<1>8. \A d \in Commits' : tokens'[req'[d].token].session \notin outs'
  BY <1>4, <1>6 DEF LeftBehind, Sess
<1>9. \A d \in Answers' : req'[d].next # 0 => Only(d)'
  BY <1>3, <1>4, <1>5, <1>6 DEF LeftBehind, Only, Sess
<1>10. jar' # 0 => InJar'
  BY <1>2, <1>5, <1>6 DEF LeftBehind, InJar, Sess
<1> QED BY <1>7, <1>8, <1>9, <1>10 DEF LeftBehind, Sess

\* Whoever writes to the account beside the callers.
LEMMA LeftOthers ==
  ASSUME AccountInv, LeftBehind, Quietly, Fading, UNCHANGED <<jar, outs, req>>
  PROVE  LeftBehind'
<1>1. Live' \subseteq Live /\ \A i \in Tokens : tokens'[i].session = tokens[i].session
  BY DEF Fading, Live
<1>2. /\ jar # 0 => tokens'[jar].session = tokens[jar].session
      /\ \A d \in Commits : tokens'[req[d].token].session = tokens[req[d].token].session
      /\ \A d \in Answers : req[d].next # 0 => tokens'[req[d].next].session = tokens[req[d].next].session
      /\ \A k \in Live : tokens'[k].session = tokens[k].session
  BY <1>1, InHand DEF Answers, Live
<1>3. Commits' = Commits /\ Answers' = Answers
  BY DEF Commits, Answers
<1> QED BY <1>1, <1>2, <1>3 DEF LeftBehind, InJar, Only, Sess

\* A session begins: no other is of its number.
LEMMA LeftIssue ==
  ASSUME AccountInv, LeftBehind, Quietly, OutsIssued, NEW c \in Callers, Issue(c), user.there
  PROVE  LeftBehind'
<1> DEFINE n == issued + 1
<1>1. /\ req[c].at = "issue" /\ UNCHANGED <<jar, outs>>
      /\ tokens' = [tokens EXCEPT ![n] = [state |-> "live", session |-> n]]
  BY DEF Issue
<1>2. To(c, "answer", req[c].token, n)
  BY GoesTo DEF Issue, AccountInv
<1>3. /\ req'[c].at = "answer" /\ req'[c].next = n
      /\ \A d \in Callers \ {c} : req'[d] = req[d]
  BY <1>2 DEF To
<1>4. n \in Tokens
  BY <1>1, Enough DEF AccountInv, Issuing
<1>5. /\ n # 0 /\ n \notin outs /\ jar # n
      /\ \A d \in Callers : req[d].token # n /\ req[d].next # n
      /\ \A k \in Tokens : tokens[k].session # n
      /\ tokens[n].session = 0
  <2>1. /\ issued \in Nat /\ jar \in Nat /\ jar <= issued /\ outs \subseteq 1..issued
        /\ \A d \in Callers : /\ req[d].token \in Nat /\ req[d].token <= issued
                              /\ req[d].next \in Nat /\ req[d].next <= issued
    BY DEF AccountInv, Shape, Fresh, Requests, OutsIssued
  <2>2. \A k \in Tokens : tokens[k].session \in Nat /\ tokens[k].session <= issued
    BY DEF AccountInv, Shape, SessionInv, Numbered, AToken
  <2>3. n > issued => tokens[n].session = 0
    BY <1>4 DEF AccountInv, SessionInv, Numbered
  <2> QED BY <2>1, <2>2, <2>3
<1>6. /\ tokens'[n].session = n /\ n \in Live'
      /\ \A k \in Tokens : k # n => tokens'[k] = tokens[k] /\ (k \in Live' <=> k \in Live)
  BY <1>1, <1>4 DEF AccountInv, Shape, Live
<1> HIDE DEF n
<1>7. Live' = Live \cup {n} /\ n \notin Live
  <2>1. n \notin Live
    BY <1>4, <1>5 DEF AccountInv, SessionInv, Numbered
  <2> QED BY <1>4, <1>6, <2>1 DEF Live
<1>8. Commits' = Commits /\ \A d \in Commits : d # c /\ req'[d] = req[d]
  BY <1>1, <1>3 DEF Commits
<1>9. Answers' = Answers \cup {c} /\ \A d \in Answers : d # c /\ req'[d] = req[d]
  BY <1>1, <1>3 DEF Answers
<1>10. /\ jar # 0 => tokens'[jar].session = tokens[jar].session /\ tokens[jar].session # n
       /\ \A d \in Commits : /\ tokens'[req[d].token].session = tokens[req[d].token].session
                             /\ tokens[req[d].token].session # n
       /\ \A d \in Answers : req[d].next # 0 =>
            /\ tokens'[req[d].next].session = tokens[req[d].next].session
            /\ tokens[req[d].next].session # n
       /\ \A k \in Live : tokens'[k].session = tokens[k].session /\ tokens[k].session # n
  <2>1. jar \in Tokens \cup {0} /\ jar # n
    BY <1>5, InHand
  <2>2. \A d \in Commits : req[d].token \in Tokens /\ req[d].token # n
    BY <1>5, InHand DEF Commits
  <2>3. \A d \in Answers : req[d].next \in Tokens \cup {0} /\ req[d].next # n
    BY <1>5, InHand DEF Answers
  <2>4. \A k \in Live : k \in Tokens /\ k # n
    BY <1>7 DEF Live
  <2> QED BY <1>5, <1>6, <2>1, <2>2, <2>3, <2>4
<1>11. \A i \in Live' : Sess(i)' \notin outs'
  BY <1>1, <1>5, <1>6, <1>7, <1>10 DEF LeftBehind, Sess
<1>12. \A d \in Commits' : tokens'[req'[d].token].session \notin outs'
  BY <1>1, <1>8, <1>10 DEF LeftBehind, Sess
<1>13. \A d \in Answers' : req'[d].next # 0 => Only(d)'
  <2> SUFFICES ASSUME NEW d \in Answers', req'[d].next # 0 PROVE Only(d)'
    OBVIOUS
  <2>1. CASE d = c
    BY <1>1, <1>3, <1>5, <1>6, <1>7, <1>8, <1>10, <2>1 DEF Only, Sess
  <2>2. CASE d # c
    <3>1. d \in Answers /\ req'[d] = req[d] /\ Only(d)
      BY <1>9, <2>2 DEF LeftBehind
    <3> QED BY <1>1, <1>6, <1>7, <1>8, <1>10, <3>1 DEF Only, Sess
  <2> QED BY <2>1, <2>2
<1>14. jar' # 0 => InJar'
  <2> SUFFICES ASSUME jar # 0 PROVE InJar'
    BY <1>1
  <2>1. InJar
    BY DEF LeftBehind
  <2>2. \A d \in Answers : d \in Answers' /\ req'[d] = req[d]
    BY <1>9
  <2> QED BY <1>1, <1>6, <1>7, <1>10, <2>1, <2>2 DEF InJar, Sess
<1> QED BY <1>11, <1>12, <1>13, <1>14 DEF LeftBehind, Sess

\* A live token is about to be rotated: nobody has it in hand.
LEMMA LeftRotate ==
  ASSUME AccountInv, LeftBehind, Quietly, NEW c \in Callers, Rotate(c), Rotatable(req[c].token)
  PROVE  LeftBehind'
<1>1. /\ req[c].at = "rotate" /\ req[c].token \in Live /\ UNCHANGED <<tokens, jar, outs>>
  BY DEF Rotate, Rotatable, history
<1>2. To(c, "commit", req[c].token, issued + 1)
  BY GoesOn DEF AccountInv
<1>3. /\ req'[c].at = "commit" /\ req'[c].token = req[c].token
      /\ \A d \in Callers \ {c} : req'[d] = req[d]
  BY <1>2 DEF To
<1>4. Answers' = Answers /\ \A d \in Answers : d # c /\ d \in Callers /\ req'[d] = req[d]
  BY <1>1, <1>3 DEF Answers
<1>5. Commits' = Commits \cup {c} /\ \A d \in Commits : req'[d].token = req[d].token
  BY <1>1, <1>3 DEF Commits
<1>6. Live' = Live
  BY <1>1 DEF Live
<1>7. \A d \in Answers : req[d].next # 0 => Sess(req[c].token) # Sess(req[d].next)
  <2> SUFFICES ASSUME NEW d \in Answers, req[d].next # 0, Sess(req[c].token) = Sess(req[d].next)
               PROVE FALSE
    OBVIOUS
  <2>1. req[c].token = req[d].next
    BY <1>1 DEF LeftBehind, Only
  <2>2. d \in Hands
    BY DEF Hands, Answers
  <2> QED BY <2>1, <2>2 DEF AccountInv, Fresh
<1>8. \A d \in Answers' : req'[d].next # 0 => Only(d)'
  BY <1>1, <1>3, <1>4, <1>5, <1>6, <1>7 DEF LeftBehind, Only, Sess
<1>9. \A d \in Commits' : tokens'[req'[d].token].session \notin outs'
  BY <1>1, <1>3, <1>5 DEF LeftBehind, Sess
<1>10. jar' # 0 => InJar'
  BY <1>1, <1>4, <1>6 DEF LeftBehind, InJar, Sess
<1> QED BY <1>1, <1>6, <1>8, <1>9, <1>10 DEF LeftBehind, Sess

\* The successor takes the place of the token that was rotated.
LEMMA LeftCommit ==
  ASSUME AccountInv, LeftBehind, Quietly, NEW c \in Callers, Commit(c), user.there
  PROVE  LeftBehind'
<1> DEFINE i == req[c].token  n == req[c].next
<1>1. /\ req[c].at = "commit" /\ UNCHANGED <<jar, outs>> /\ AnswerWith(c, n) /\ tokens' = Rotated(i, n)
  BY DEF Commit, history
<1>2. To(c, "answer", i, n)
  BY <1>1, GoesTo DEF AccountInv
<1>3. /\ req'[c].at = "answer" /\ req'[c].next = n
      /\ \A d \in Callers \ {c} : req'[d] = req[d]
  BY <1>2 DEF To
<1>4. c \in Commits /\ c \in Hands /\ c \notin Answers /\ n # 0
  BY <1>1 DEF AccountInv, Fresh, Commits, Hands, Answers
<1>5. /\ Holds(c) /\ i \in Tokens /\ n \in Tokens
      /\ \A d \in Commits : d # c => Apart(c, d)
  BY <1>4, InHand DEF AccountInv, SessionInv
<1>6. /\ jar # n /\ n # i /\ \A d \in Callers : req[d].token # n
      /\ \A d \in Answers : req[d].next # 0 => req[d].next # n
  <2>1. \A d \in Answers : req[d].next # 0 => d \in Hands /\ d # c
    BY <1>4 DEF Answers, Hands
  <2> QED BY <1>4, <2>1 DEF AccountInv, Fresh
<1>7. /\ n \in Live' /\ tokens'[n].session = tokens[i].session /\ i \notin Live'
      /\ \A k \in Tokens : k # n => tokens'[k].session = tokens[k].session /\ (k \in Live' => k \in Live)
  BY <1>1, <1>5, <1>6 DEF AccountInv, Shape, Rotated, Live, AToken
<1>8. \A k \in Live : tokens[k].session = tokens[i].session => k = i
  BY <1>5 DEF Holds
<1>9. tokens[i].session \notin outs
  BY <1>4 DEF LeftBehind, Sess
<1> HIDE DEF i, n
<1>10. /\ jar # 0 => tokens'[jar].session = tokens[jar].session
       /\ \A d \in Commits : tokens'[req[d].token].session = tokens[req[d].token].session
       /\ \A d \in Answers : req[d].next # 0 =>
            tokens'[req[d].next].session = tokens[req[d].next].session
  <2>1. jar \in Tokens \cup {0}
    BY InHand
  <2>2. \A d \in Commits : req[d].token \in Tokens /\ req[d].token # n
    BY <1>6, InHand DEF Commits
  <2>3. \A d \in Answers : req[d].next \in Tokens \cup {0}
    BY InHand DEF Answers
  <2> QED BY <1>6, <1>7, <2>1, <2>2, <2>3
<1>11. \A k \in Live' : k # n => k \in Live /\ k # i /\ tokens'[k].session = tokens[k].session
  BY <1>7 DEF Live
<1>12. Commits' = Commits \ {c} /\ \A d \in Commits \ {c} : req'[d] = req[d]
  BY <1>3 DEF Commits
<1>13. Answers' = Answers \cup {c} /\ \A d \in Answers : d # c /\ req'[d] = req[d]
  BY <1>3, <1>4 DEF Answers
<1>14. \A k \in Live' : Sess(k)' \notin outs'
  BY <1>1, <1>7, <1>9, <1>11 DEF LeftBehind, Sess
<1>15. \A d \in Commits' : tokens'[req'[d].token].session \notin outs'
  BY <1>1, <1>10, <1>12 DEF LeftBehind, Sess
<1>16. \A d \in Answers' : req'[d].next # 0 => Only(d)'
  <2> SUFFICES ASSUME NEW d \in Answers', req'[d].next # 0 PROVE Only(d)'
    OBVIOUS
  <2>1. CASE d = c
    <3>1. \A e \in Commits' : tokens'[req'[e].token].session # tokens[i].session
      BY <1>5, <1>10, <1>12 DEF Apart, i
    <3>2. \A k \in Live' : tokens'[k].session = tokens[i].session => k = n
      BY <1>8, <1>11
    <3> QED BY <1>1, <1>3, <1>7, <1>9, <2>1, <3>1, <3>2 DEF Only, Sess
  <2>2. CASE d # c
    <3>1. d \in Answers /\ req'[d] = req[d] /\ req[d].next # 0 /\ Only(d)
      BY <1>13, <2>2 DEF LeftBehind
    <3>2. tokens[i].session # tokens[req[d].next].session
      BY <1>4, <3>1 DEF Only, Sess, i
    <3>3. tokens'[req[d].next].session = tokens[req[d].next].session
      BY <1>10, <3>1
    <3>4. \A k \in Live' : tokens'[k].session = tokens[req[d].next].session => k = req[d].next
      BY <1>7, <1>11, <3>1, <3>2 DEF Only, Sess
    <3>5. \A e \in Commits' : tokens'[req'[e].token].session # tokens[req[d].next].session
      BY <1>10, <1>12, <3>1 DEF Only, Sess
    <3> QED BY <1>1, <3>1, <3>3, <3>4, <3>5 DEF Only, Sess
  <2> QED BY <2>1, <2>2
<1>17. jar' # 0 => InJar'
  <2> SUFFICES ASSUME jar # 0 PROVE InJar'
    BY <1>1
  <2>1. InJar /\ tokens'[jar].session = tokens[jar].session
    BY <1>10 DEF LeftBehind
  <2>2. \A d \in Answers : d \in Answers' /\ req'[d] = req[d]
    BY <1>13
  <2>3. c \in Answers' /\ req'[c].next = n
    BY <1>3, <1>13
  <2>4. tokens'[jar].session \in outs' => \E d \in Answers' : req'[d].next = 0
    BY <1>1, <2>1, <2>2 DEF InJar, Sess
  <2>5. \A k \in Live' : tokens'[k].session = tokens'[jar].session => k = jar \/ \E d \in Answers' : req'[d].next = k
    BY <1>11, <2>1, <2>2, <2>3 DEF InJar, Sess
  <2> QED BY <1>1, <2>4, <2>5 DEF InJar, Sess
<1> QED BY <1>14, <1>15, <1>16, <1>17 DEF LeftBehind, Sess

\* The logout: with nobody else about, the session of the jar ends.
LEMMA LeftRevoke ==
  ASSUME AccountInv, LeftBehind, Quietly, Quietly', NEW c \in Callers, RevokeMine(c)
  PROVE  LeftBehind'
<1>1. /\ req[c].at = "leave" /\ AnswerWith(c, 0) /\ UNCHANGED jar /\ tokens' = RevokedOne(req[c].token)
      /\ outs' = outs \cup ({tokens[req[c].token].session} \ {0})
      /\ (req[c].token # jar \/ \E d \in Callers \ {c} : req[d].at # "idle") => "crossed logout" \in told'
  BY DEF RevokeMine
<1>2. req[c].token = jar /\ jar # 0 /\ \A d \in Callers \ {c} : req[d].at = "idle"
  BY <1>1 DEF Quietly, AccountInv, Fresh
<1>3. To(c, "answer", jar, 0)
  BY <1>1, <1>2, GoesTo DEF AccountInv
<1>4. /\ req'[c].at = "answer" /\ req'[c].next = 0
      /\ \A d \in Callers \ {c} : req'[d].at = "idle"
  BY <1>2, <1>3 DEF To
<1>5. Answers' = {c} /\ Answers = {} /\ Commits' = {}
  BY <1>1, <1>2, <1>4 DEF Answers, Commits
<1>6. Live' \subseteq Live /\ \A i \in Tokens : tokens'[i].session = tokens[i].session
  BY <1>1, TokensFade DEF AccountInv, Fading, Live
<1>7. jar \in Tokens /\ jar \notin Live'
  <2>1. jar \in Tokens
    BY <1>2, InHand
  <2>2. tokens'[jar].state # "live"
    BY <1>1, <1>2, <2>1 DEF RevokedOne, AccountInv, Shape, AToken, Live
  <2> QED BY <2>1, <2>2 DEF Live
<1>8. \A k \in Live : tokens[k].session = tokens[jar].session => k = jar
  BY <1>2, <1>5 DEF LeftBehind, InJar, Sess
<1>9. \A k \in Live' : k \in Live /\ tokens'[k].session = tokens[k].session /\ tokens[k].session # tokens[jar].session
  BY <1>6, <1>7, <1>8 DEF Live
<1>10. \A k \in Live' : Sess(k)' \notin outs'
  BY <1>1, <1>2, <1>9 DEF LeftBehind, Sess
<1>11. InJar'
  BY <1>1, <1>4, <1>5, <1>6, <1>7, <1>9 DEF InJar, Sess
<1> QED BY <1>4, <1>5, <1>10, <1>11 DEF LeftBehind, Sess

\* An answer arrives.
LEMMA LeftArrive ==
  ASSUME AccountInv, LeftBehind, Quietly, NEW c \in Callers, Arrive(c)
  PROVE  LeftBehind'
<1>1. /\ req[c].at = "answer" /\ jar' = req[c].next /\ Done(c) /\ UNCHANGED <<tokens, outs>>
  BY DEF Arrive, storeVars, history
<1>2. To(c, "idle", 0, 0)
  BY <1>1, GoesTo DEF AccountInv
<1>3. req'[c].at = "idle" /\ \A d \in Callers \ {c} : req'[d] = req[d]
  BY <1>2 DEF To
<1>4. c \in Answers /\ Answers' = Answers \ {c} /\ \A d \in Answers' : req'[d] = req[d]
  BY <1>1, <1>3 DEF Answers
<1>5. Commits' = Commits /\ \A d \in Commits : req'[d] = req[d]
  BY <1>1, <1>3 DEF Commits
<1>6. Live' = Live
  BY <1>1 DEF Live
<1>7. \A d \in Answers' : req'[d].next # 0 => Only(d)'
  BY <1>1, <1>4, <1>5, <1>6 DEF LeftBehind, Only, Sess
<1>8. jar' # 0 => InJar'
  BY <1>1, <1>4, <1>6 DEF LeftBehind, Only, InJar, Sess
<1> QED BY <1>1, <1>5, <1>6, <1>7, <1>8 DEF LeftBehind, Sess

LEMMA LeftCallers ==
  ASSUME AccountInv, OutsIssued, LeftBehind, Quietly, Quietly',
         NEW c \in Callers, Begin(c) \/ Step(c) \/ CutOff(c)
  PROVE  LeftBehind'
<1>0. Shape
  BY DEF AccountInv
<1>1. tokens' = tokens => Fading
  BY <1>0, TokensFade
\* The caller is not handing anything out, and does not begin to.
<1>2. ASSUME NEW at, at \notin {"commit", "answer"}, NEW t, NEW n, To(c, at, t, n),
             Fading, UNCHANGED <<jar, outs>>, req[c].at # "answer"
      PROVE  LeftBehind'
  BY <1>2, LeftFades
<1>3. CASE AnswerWith(c, 0) /\ Fading /\ UNCHANGED <<jar, outs>> /\ req[c].at # "answer"
  <2>1. To(c, "answer", req[c].token, 0)
    BY <1>0, <1>3, GoesTo
  <2> QED BY <1>3, <2>1, LeftFades
<1>4. CASE Done(c) /\ Fading /\ UNCHANGED <<jar, outs>> /\ req[c].at # "answer"
  <2>1. To(c, "idle", 0, 0)
    BY <1>0, <1>4, GoesTo
  <2> QED BY <1>2, <1>4, <2>1
<1>5. ASSUME NEW at, at \notin {"commit", "answer"}, Goto(c, at), Fading, UNCHANGED <<jar, outs>>,
             req[c].at # "answer"
      PROVE  LeftBehind'
  <2>1. To(c, at, req[c].token, req[c].next)
    BY <1>0, <1>5, GoesTo
  <2> QED BY <1>2, <1>5, <2>1
<1>6. CASE Begin(c)
  <2>1. Fading /\ UNCHANGED <<jar, outs>>
    BY <1>1, <1>6 DEF Begin, Login, Logout, Refresh, ChangePassword, ResetPassword, Forgot, storeVars, history
  <2>2. CASE Forgot(c)
    BY <2>1, <2>2, LeftOthers DEF Forgot
  <2>3. CASE ~Forgot(c)
    <3>1. req[c].at # "answer"
      BY <1>6, <2>3, IdleHolds DEF Begin, Login, Logout, Refresh, ChangePassword, ResetPassword, Ask
    <3>2. PICK at, t : /\ at \in {"issue", "legacy", "leave", "check", "hash", "new"}
                          /\ To(c, at, t, 0)
      BY <1>0, <1>6, <2>3, Begins DEF Begin
    <3> QED BY <1>2, <2>1, <3>1, <3>2
  <2> QED BY <2>2, <2>3
<1>7. CASE CutOff(c)
  <2>1. Done(c) /\ Fading /\ UNCHANGED <<jar, outs>> /\ (req[c].at = "answer" => "lost answer" \in told')
    BY <1>1, <1>7 DEF CutOff, storeVars
  <2> QED BY <1>4, <2>1 DEF Quietly
<1>8. CASE Step(c)
  <2>1. CASE WriteLegacy(c)
    BY <1>1, <1>4, <1>5, <2>1 DEF WriteLegacy, history
  <2>2. CASE Issue(c)
    BY <1>1, <1>4, <2>2, LeftIssue DEF Issue
  <2>3. CASE RevokeMine(c)   BY <2>3, LeftRevoke
  <2>4. CASE Check(c)
    <3>1. req[c].at # "answer" /\ UNCHANGED <<jar, outs>>
      BY <2>4 DEF Check, history
    <3>2. tokens' = tokens \/ tokens' = RevokedOne(req[c].token)
      BY <2>4 DEF Check
    <3>3. Fading /\ (AnswerWith(c, 0) \/ Goto(c, "rotate"))
      BY <1>0, <2>4, <3>2, TokensFade DEF Check
    <3> QED BY <1>3, <1>5, <3>1, <3>3
  <2>5. CASE Rotate(c)
    BY <1>1, <1>3, <2>5, LeftRotate DEF Rotate, history
  <2>6. CASE Commit(c)
    BY <1>1, <1>3, <2>6, LeftCommit DEF Commit, history
  <2>7. CASE Arrive(c)       BY <2>7, LeftArrive
  <2>8. CASE WriteHash(c)
    <3>1. Fading /\ UNCHANGED <<jar, outs>> /\ req[c].at # "answer"
      BY <1>1, <2>8 DEF WriteHash
    <3>2. CASE user.there
      <4>1. PICK at \in {"identity", "pinned"} : To(c, at, req[c].token, req[c].next)
        BY <1>0, <2>8, <3>2, GoesOn
      <4> QED BY <1>2, <3>1, <4>1
    <3>3. CASE ~user.there
      BY <1>4, <2>8, <3>1, <3>3 DEF WriteHash
    <3> QED BY <3>2, <3>3
  <2>9. CASE WriteIdentity(c)
    BY <1>1, <1>4, <1>5, <2>9 DEF WriteIdentity, history
  <2>10. CASE MarkUsed(c)    BY <1>1, <1>5, <2>10 DEF MarkUsed, history
  <2>11. CASE EndAll(c)
    <3>1. Fading /\ Done(c) /\ UNCHANGED <<jar, outs>> /\ req[c].at # "answer"
      BY <1>0, <2>11, TokensFade DEF EndAll, RevokeAll
    <3> QED BY <1>4, <3>1
  <2> QED BY <1>8, <2>1, <2>2, <2>3, <2>4, <2>5, <2>6, <2>7, <2>8, <2>9, <2>10, <2>11 DEF Step
<1> QED BY <1>6, <1>7, <1>8

LEMMA OutsGoOn ==
  ASSUME AccountInv, OutsIssued, [Next]_vars PROVE OutsIssued'
<1>1. issued' \in {issued, issued + 1} /\ issued \in Nat
  BY DEF AccountInv, Shape, Next, Begin, Login, Logout, Refresh, ChangePassword, ResetPassword, Forgot, CutOff, Step,
     WriteLegacy, Issue, RevokeMine, Check, Rotate, Commit, Arrive, WriteHash, WriteIdentity, MarkUsed,
     EndAll, Rulings, Block, Reactivate, RequestDeletion, ResetUserFlow, AdminStep, AdminRevokes,
     AdminEnds, AdminCutOff, ComesDue, Tick, ListDue, Anonymize, Audit, JobCutOff, vars, storeVars
<1>2. ASSUME NEW c \in Callers, RevokeMine(c) PROVE outs' \subseteq 1..issued
  <2>1. req[c].token \in Tokens
    BY <1>2, InHand DEF RevokeMine, AccountInv, Fresh
  <2>2. tokens[req[c].token].session \in Nat /\ tokens[req[c].token].session <= issued
    BY <2>1 DEF AccountInv, Shape, AToken, SessionInv, Numbered
  <2>3. outs' = outs \cup ({tokens[req[c].token].session} \ {0})
    BY <1>2 DEF RevokeMine
  <2>4. {tokens[req[c].token].session} \ {0} \subseteq 1..issued
    BY <1>1, <2>2
  <2> QED BY <2>3, <2>4 DEF OutsIssued
<1>3. ASSUME NEW c \in Callers, Begin(c) \/ Step(c) \/ CutOff(c), ~RevokeMine(c) PROVE outs' = outs
  BY <1>3 DEF Begin, Login, Logout, Refresh, ChangePassword, ResetPassword, Forgot, CutOff, Step,
     WriteLegacy, Issue, RevokeMine, Check, Rotate, Commit, Arrive, WriteHash, WriteIdentity, MarkUsed,
     EndAll, history
<1>4. outs' \subseteq 1..issued
  BY <1>2, <1>3, OthersAskNothing DEF Next, Others, OutsIssued
<1> QED BY <1>1, <1>4 DEF OutsIssued

LEMMA LeftGoesOn ==
  AccountInv /\ OutsIssued /\ LeftBehind /\ [Next]_vars => LeftBehind'
<1> SUFFICES ASSUME AccountInv, OutsIssued, LeftBehind, [Next]_vars, Quietly' PROVE LeftBehind'
  BY DEF LeftBehind
<1>1. Quietly
  BY ToldStays DEF Quietly
<1>2. CASE Others \/ UNCHANGED vars
  <2>1. Fading /\ UNCHANGED <<req, jar, outs>>
    BY <1>2, OthersFade, OthersNoJar, OthersAskNothing DEF AccountInv
  <2> QED BY <1>1, <2>1, LeftOthers
<1>3. ASSUME NEW c \in Callers, Begin(c) \/ Step(c) \/ CutOff(c) PROVE LeftBehind'
  BY <1>1, <1>3, LeftCallers
<1> QED BY <1>2, <1>3 DEF Next, Others

\* After a logout no token of the session is live, and the browser holds none,
\* once everything is still: unless another request was under way, or an answer
\* was lost.
THEOREM LoggedOutForGood == Spec => []LogoutHolds
<1>1. AccountInv /\ LeftBehind => LogoutHolds
  <2> SUFFICES ASSUME AccountInv, LeftBehind, Quiet, Quietly, NEW i \in Tokens, tokens[i].session \in outs
               PROVE  i \notin Live /\ i # jar
    BY DEF LogoutHolds, Quietly
  <2>1. Answers = {}
    BY IdleHolds DEF Answers, Quiet
  <2>2. i # 0
    BY TokensAreNumbers
  <2> QED BY <2>1, <2>2 DEF LeftBehind, InJar, Sess
<1> QED BY <1>1, AccountStarts, AccountGoesOn, LeftStarts, OutsGoOn, LeftGoesOn, PTL DEF Spec

-----------------------------------------------------------------------------
(* Types, and how often a purge is written to the log.                     *)

Auditing == {j \in Jobs : job[j] = "audit"}
Listing == {j \in Jobs : job[j] = "anonymize"}

\* Every ruling owes the log one entry of each process at most.
Begun == Cardinality(Auditing)
Listed == Cardinality(Listing)
JobCount == Cardinality(Jobs)
Budget(n) == n * JobCount
Owed == IF user.state = "pending" THEN JobCount ELSE Listed
Owing == audits + Begun + Owed <= Budget(ruled)

LEMMA JobsFinite ==
  /\ IsFiniteSet(Auditing) /\ IsFiniteSet(Listing)
  /\ Cardinality(Auditing) \in Nat /\ Cardinality(Listing) \in Nat /\ Cardinality(Jobs) \in Nat
  /\ Cardinality(Listing) <= Cardinality(Jobs)
<1>1. Auditing \subseteq Jobs /\ Listing \subseteq Jobs
  BY DEF Auditing, Listing
<1> QED BY <1>1, FS_Subset, FS_CardinalityType, AccountBounds

LEMMA Products ==
  ASSUME NEW r \in Nat
  PROVE  Budget(r) \in Nat /\ Budget(r + 1) = Budget(r) + JobCount
<1>1. \A k \in Nat : r * k \in Nat /\ (r + 1) * k = r * k + k
  OBVIOUS
<1> QED BY <1>1, JobsFinite DEF Budget, JobCount

LEMMA MovesOne ==
  ASSUME NEW a \in Nat, NEW x \in Nat, NEW y \in Nat, NEW b \in Nat, a + x + y <= b,
         NEW u \in Nat, NEW z \in Nat, u <= x + 1, z + 1 <= y
  PROVE  a + u + z <= b
  OBVIOUS

LEMMA WritesOne ==
  ASSUME NEW a \in Nat, NEW x \in Nat, NEW y \in Nat, NEW b \in Nat, a + x + y <= b,
         NEW u \in Nat, u + 1 <= x
  PROVE  (a + 1) + u + y <= b
  OBVIOUS

LEMMA OneBelow ==
  ASSUME NEW n \in Nat, NEW m \in Nat, NEW k \in Nat, m + 1 <= n, n <= k
  PROVE  m + 1 <= k
  OBVIOUS

LEMMA OwingStarts == Init => Owing
<1> SUFFICES ASSUME Init PROVE Owing
  OBVIOUS
<1>1. Auditing = {} /\ Listing = {} /\ user.state = "active" /\ audits = 0 /\ ruled = 0
  BY DEF Init, Auditing, Listing
<1>2. Cardinality(Auditing) = 0 /\ Cardinality(Listing) = 0 /\ Cardinality(Jobs) \in Nat
  BY <1>1, FS_EmptySet, JobsFinite
<1>3. Owed = 0
  BY <1>1, <1>2 DEF Owed, Listed
<1>4. Budget(0) \in Nat /\ audits + Begun + Owed = 0
  BY <1>1, <1>2, <1>3, Products DEF Begun
<1> QED BY <1>1, <1>4 DEF Owing

\* One process moves on.
LEMMA OneJob ==
  ASSUME AuditInv, NEW j \in Jobs, NEW at, job' = [job EXCEPT ![j] = at]
  PROVE  /\ job'[j] = at /\ \A k \in Jobs \ {j} : job'[k] = job[k]
         /\ Auditing' \subseteq Auditing \cup {j} /\ Listing' \subseteq Listing \cup {j}
  BY DEF AuditInv, Auditing, Listing

LEMMA OwingGoesOn ==
  ASSUME Shape, AuditInv, Counts, Owing, [Next]_vars
  PROVE  Owing'
<1>1. audits \in Nat /\ ruled \in Nat /\ user \in UserRows
  <2>1. ruled \in Nat
    BY AccountBounds DEF Counts
  <2>2. audits \in Nat
    BY DEF AuditInv
  <2> QED BY <2>1, <2>2 DEF Shape
<1>2. /\ Begun \in Nat /\ Listed \in Nat /\ JobCount \in Nat /\ Listed <= JobCount /\ Owed \in {JobCount, Listed}
      /\ Begun' \in Nat /\ Listed' \in Nat /\ Listed' <= JobCount /\ Owed' \in {JobCount, Listed'}
      /\ IsFiniteSet(Auditing) /\ IsFiniteSet(Listing)
  <2>1. Begun \in Nat /\ Listed \in Nat /\ JobCount \in Nat /\ Listed <= JobCount /\ IsFiniteSet(Auditing) /\ IsFiniteSet(Listing)
    BY JobsFinite DEF Begun, Listed, JobCount
  <2>2. Auditing' \subseteq Jobs /\ Listing' \subseteq Jobs
    BY DEF Auditing, Listing
  <2>3. Begun' \in Nat /\ Listed' \in Nat /\ Listed' <= JobCount
    BY <2>2, FS_Subset, FS_CardinalityType, AccountBounds DEF Begun, Listed, JobCount
  <2> QED BY <2>1, <2>3 DEF Owed
<1>3. Budget(ruled) \in Nat /\ Budget(ruled + 1) = Budget(ruled) + JobCount
  BY <1>1, Products
<1>4. /\ audits + Begun + Owed <= Budget(ruled)
      /\ Begun \in Nat /\ Begun' \in Nat /\ Owed \in Nat /\ Owed' \in Nat /\ JobCount \in Nat
  BY <1>2 DEF Owing
\* The three ways of keeping it: less is owed, an entry is written, or one
\* more ruling asks for another.
<1>5. ASSUME audits' = audits, ruled' = ruled, Begun' <= Begun, Owed' <= Owed PROVE Owing'
  <2>1. audits + Begun' + Owed' <= Budget(ruled)
    BY <1>1, <1>3, <1>4, <1>5
  <2> QED BY <1>5, <2>1 DEF Owing
<1>6. ASSUME audits' = audits, ruled' = ruled, Begun' <= Begun + 1, Owed' + 1 <= Owed PROVE Owing'
  <2>1. audits + Begun' + Owed' <= Budget(ruled)
    BY <1>1, <1>3, <1>4, <1>6, MovesOne
  <2> QED BY <1>6, <2>1 DEF Owing
<1>7. ASSUME audits' = audits + 1, ruled' = ruled, Begun' + 1 <= Begun, Owed' = Owed PROVE Owing'
  <2>1. (audits + 1) + Begun' + Owed <= Budget(ruled)
    BY <1>1, <1>3, <1>4, <1>7, WritesOne
  <2> QED BY <1>7, <2>1 DEF Owing
<1>8. ASSUME audits' = audits, ruled' = ruled + 1, Begun' = Begun PROVE Owing'
  <2>1. Owed' <= Owed + JobCount
    BY <1>2, <1>4
  <2>2. audits + Begun + Owed' <= Budget(ruled) + JobCount
    BY <1>1, <1>3, <1>4, <2>1
  <2>3. audits + Begun + Owed' <= Budget(ruled + 1)
    BY <1>3, <2>2
  <2> QED BY <1>8, <2>3 DEF Owing
<1>9. ASSUME UNCHANGED <<job, audits, ruled>>, user'.state = "pending" => user.state = "pending"
      PROVE  Owing'
  <2>1. Begun' = Begun /\ Listed' = Listed
    BY <1>9 DEF Begun, Listed, Auditing, Listing
  <2>2. Owed' <= Owed
    BY <1>2, <1>9, <2>1 DEF Owed, JobCount, Listed
  <2> QED BY <1>2, <1>5, <1>9, <2>1, <2>2
<1>10. CASE UNCHANGED vars
  BY <1>9, <1>10 DEF vars, storeVars, counters
<1>11. ASSUME NEW c \in Callers, Begin(c) \/ Step(c) \/ CutOff(c) PROVE Owing'
  <2>1. ruled' = ruled
    BY <1>11 DEF Begin, Login, Logout, Refresh, ChangePassword, ResetPassword, Forgot, Ask, CutOff, Step,
       WriteLegacy, Issue, RevokeMine, Check, Rotate, Commit, Arrive, WriteHash, WriteIdentity, MarkUsed,
       EndAll, counters
  <2> QED BY <1>9, <1>11, <2>1, CallersAside
<1>12. CASE Rulings
  <2>1. UNCHANGED <<job, audits>> /\ ruled' = ruled + 1
    BY <1>12 DEF Rulings, Block, Reactivate, RequestDeletion, ResetUserFlow, Rule
  <2>2. Begun' = Begun
    BY <2>1 DEF Begun, Auditing
  <2> QED BY <1>8, <2>1, <2>2
<1>13. CASE AdminStep \/ AdminCutOff \/ ComesDue
  <2>1. UNCHANGED <<job, audits, ruled>>
    BY <1>13 DEF AdminStep, AdminRevokes, AdminEnds, AdminCutOff, ComesDue, counters
  <2>2. user'.state = "pending" => user.state = "pending"
    <3>1. user' \in {user, Blocking(TRUE), [user EXCEPT !.there = FALSE]} \/ ComesDue
      BY <1>13 DEF AdminStep, AdminRevokes, AdminEnds, AdminCutOff, storeVars
    <3>2. Blocking(TRUE).state = "pending" => user.state = "pending"
      BY <1>1 DEF Blocking, UserRows
    <3>3. [user EXCEPT !.there = FALSE].state = user.state
      BY <1>1 DEF UserRows
    <3> QED BY <3>1, <3>2, <3>3 DEF ComesDue
  <2> QED BY <1>9, <2>1, <2>2
\* What the tick of a process does to the two counts.
<1>14. ASSUME NEW j \in Jobs
       PROVE  /\ job' = [job EXCEPT ![j] = "idle"] => Begun' <= Begun /\ Listed' <= Listed
              /\ job' = [job EXCEPT ![j] = "idle"] /\ job[j] = "audit" => Begun' + 1 <= Begun
              /\ job' = [job EXCEPT ![j] = "anonymize"] => Begun' <= Begun
              /\ job' = [job EXCEPT ![j] = "audit"] /\ job[j] = "anonymize" =>
                   Listed' + 1 <= Listed /\ Begun' <= Begun + 1
  <2>1. ASSUME Auditing' \subseteq Auditing PROVE Begun' <= Begun
    BY <1>2, <2>1, OneCaller DEF Begun
  <2>2. ASSUME Auditing' \subseteq Auditing \cup {j} PROVE Begun' <= Begun + 1
    BY <1>2, <2>2, OneCaller DEF Begun
  <2>3. ASSUME Auditing' \subseteq Auditing, j \in Auditing \ Auditing' PROVE Begun' + 1 <= Begun
    BY <1>2, <2>3, OneCaller DEF Begun
  <2>4. ASSUME Listing' \subseteq Listing PROVE Listed' <= Listed
    BY <1>2, <2>4, OneCaller DEF Listed
  <2>5. ASSUME Listing' \subseteq Listing, j \in Listing \ Listing' PROVE Listed' + 1 <= Listed
    BY <1>2, <2>5, OneCaller DEF Listed
  <2>6. ASSUME job' = [job EXCEPT ![j] = "idle"]
        PROVE  Auditing' \subseteq Auditing /\ Listing' \subseteq Listing /\ j \notin Auditing'
    BY <2>6 DEF AuditInv, Auditing, Listing
  <2>7. ASSUME job' = [job EXCEPT ![j] = "anonymize"] PROVE Auditing' \subseteq Auditing
    BY <2>7 DEF AuditInv, Auditing
  <2>8. ASSUME job' = [job EXCEPT ![j] = "audit"]
        PROVE  Listing' \subseteq Listing /\ j \notin Listing' /\ Auditing' \subseteq Auditing \cup {j}
    BY <2>8 DEF AuditInv, Auditing, Listing
  <2>9. (job[j] = "audit" => j \in Auditing) /\ (job[j] = "anonymize" => j \in Listing)
    BY DEF Auditing, Listing
  <2>10. ASSUME job' = [job EXCEPT ![j] = "idle"]
         PROVE  Begun' <= Begun /\ Listed' <= Listed /\ (job[j] = "audit" => Begun' + 1 <= Begun)
    BY <2>1, <2>3, <2>4, <2>6, <2>9, <2>10
  <2>11. ASSUME job' = [job EXCEPT ![j] = "audit"], job[j] = "anonymize"
         PROVE  Listed' + 1 <= Listed /\ Begun' <= Begun + 1
    BY <2>2, <2>5, <2>8, <2>9, <2>11
  <2> QED BY <2>1, <2>7, <2>10, <2>11
<1>15. ASSUME NEW j \in Jobs, Tick(j) \/ JobCutOff(j) PROVE Owing'
  <2>1. CASE ListDue(j)
    <3>1. /\ job' = [job EXCEPT ![j] = "anonymize"] /\ UNCHANGED <<audits, ruled, user>>
          /\ user.state = "pending"
      BY <2>1 DEF ListDue, ListedAsDue, Due, storeVars, counters
    <3>2. Begun' <= Begun /\ Owed' = JobCount /\ Owed = JobCount
      BY <1>14, <3>1 DEF Owed, JobCount
    <3> QED BY <1>2, <1>5, <3>1, <3>2
  <2>2. CASE Anonymize(j)
    <3>1. job[j] = "anonymize" /\ UNCHANGED <<audits, ruled>>
      BY <2>2 DEF Anonymize, counters
    <3>2. CASE user.there
      <4>1. job' = [job EXCEPT ![j] = "audit"] /\ user' = Anonymized
        BY <2>2, <3>2 DEF Anonymize, AfterPurge
      <4>2. user'.state = "deleted"
        BY <1>1, <4>1 DEF Anonymized, Blanked, UserRows
      <4>3. Listed' + 1 <= Listed /\ Begun' <= Begun + 1
        BY <1>14, <3>1, <4>1
      <4>4. Owed' = Listed'
        BY <4>2 DEF Owed, Listed
      <4>5. Owed' + 1 <= Owed
        <5>1. Listed' + 1 <= JobCount /\ Listed' + 1 <= Listed
          BY <1>2, <4>3, OneBelow
        <5> QED BY <1>2, <4>4, <5>1
      <4> QED BY <1>6, <3>1, <4>3, <4>5
    <3>3. CASE ~user.there
      <4>1. job' = [job EXCEPT ![j] = "idle"] /\ user' = user
        BY <2>2, <3>3 DEF Anonymize
      <4>2. Listed' <= Listed /\ Begun' <= Begun
        BY <1>14, <4>1
      <4>3. Owed' <= Owed
        BY <1>2, <4>1, <4>2 DEF Owed, JobCount, Listed
      <4> QED BY <1>5, <3>1, <4>2, <4>3
    <3> QED BY <3>2, <3>3
  <2>3. CASE Audit(j)
    <3>1. /\ job[j] = "audit" /\ job' = [job EXCEPT ![j] = "idle"] /\ audits' = audits + 1
          /\ UNCHANGED <<ruled, user>>
      BY <2>3 DEF Audit, storeVars, counters
    <3>2. Begun' + 1 <= Begun
      BY <1>14, <3>1
    <3>3. Listing' = Listing
      BY <3>1 DEF AuditInv, Listing
    <3>4. Owed' = Owed
      BY <3>1, <3>3 DEF Owed, Listed, JobCount
    <3> QED BY <1>7, <3>1, <3>2, <3>4
  <2>4. CASE JobCutOff(j)
    <3>1. job' = [job EXCEPT ![j] = "idle"] /\ UNCHANGED <<audits, ruled, user>>
      BY <2>4 DEF JobCutOff, storeVars
    <3>2. Listed' <= Listed /\ Begun' <= Begun
      BY <1>14, <3>1
    <3>3. Owed' <= Owed
      BY <1>2, <3>1, <3>2 DEF Owed, JobCount, Listed
    <3> QED BY <1>5, <3>1, <3>2, <3>3
  <2> QED BY <1>15, <2>1, <2>2, <2>3, <2>4 DEF Tick
<1> QED BY <1>10, <1>11, <1>12, <1>13, <1>15 DEF Next

\* Passwords anywhere are ones that were made.
Hashed == user.hash <= hashes /\ identity <= hashes /\ \A c \in Callers : req[c].hash <= hashes

LEMMA HashedCallers ==
  ASSUME Shape, Hashed, NEW c \in Callers, Begin(c) \/ Step(c) \/ CutOff(c)
  PROVE  Hashed'
<1>1. /\ user \in UserRows /\ user.hash \in Nat /\ identity \in Nat /\ hashes \in Nat
      /\ \A d \in Callers : req[d].hash \in Nat
  BY DEF Shape, UserRows, Requests
<1>2. \A d \in Callers \ {c} : req'[d] = req[d]
  BY CallerSteps DEF Shape
<1>3. ASSUME req'[c].hash \in {0, user.hash, req[c].hash}, user' = user, hashes' = hashes,
             identity' \in {identity, req[c].hash}
      PROVE  Hashed'
  <2>1. \A d \in Callers : req'[d].hash <= hashes
    BY <1>1, <1>2, <1>3 DEF Hashed
  <2>2. identity' <= hashes
    BY <1>1, <1>3 DEF Hashed
  <2> QED BY <1>3, <2>1, <2>2 DEF Hashed
<1>4. /\ \A at : Goto(c, at) => req'[c].hash = req[c].hash
      /\ \A i : AnswerWith(c, i) => req'[c].hash = 0
      /\ Done(c) => req'[c].hash = 0
  BY GoesTo
<1>5. CASE Begin(c)
  <2>1. UNCHANGED <<user, hashes, identity>>
    BY <1>5 DEF Begin, Login, Logout, Refresh, ChangePassword, ResetPassword, Forgot, storeVars
  <2>2. CASE Forgot(c)
    BY <1>3, <2>1, <2>2 DEF Forgot
  <2>3. CASE ~Forgot(c)
    <3>1. req'[c].hash \in {0, user.hash}
      BY <1>5, <2>3, Begins DEF Begin
    <3> QED BY <1>3, <2>1, <3>1
  <2> QED BY <2>2, <2>3
<1>6. CASE CutOff(c)
  BY <1>3, <1>4, <1>6 DEF CutOff, storeVars
<1>7. CASE Step(c)
  <2>1. CASE WriteHash(c) /\ user.there
    <3>1. req'[c].hash = hashes + 1 /\ hashes' = hashes + 1 /\ identity' = identity
          /\ user' = [user EXCEPT !.hash = hashes + 1]
      BY <2>1, GoesOn DEF WriteHash
    <3>2. user'.hash = hashes + 1
      BY <1>1, <3>1 DEF UserRows
    <3>3. \A n \in Nat : n <= hashes => n <= hashes + 1
      BY <1>1
    <3>4. \A d \in Callers : req'[d].hash <= hashes + 1
      BY <1>1, <1>2, <3>1, <3>3 DEF Hashed
    <3>5. hashes + 1 <= hashes + 1 /\ identity <= hashes + 1
      BY <1>1, <3>3 DEF Hashed
    <3> QED BY <3>1, <3>2, <3>4, <3>5 DEF Hashed
  <2>2. CASE WriteHash(c) /\ ~user.there
    BY <1>3, <1>4, <2>2 DEF WriteHash
  <2>3. CASE WriteLegacy(c)   BY <1>3, <1>4, <2>3 DEF WriteLegacy
  <2>4. CASE Issue(c)         BY <1>3, <1>4, <2>4 DEF Issue
  <2>5. CASE RevokeMine(c)    BY <1>3, <1>4, <2>5 DEF RevokeMine
  <2>6. CASE Check(c)         BY <1>3, <1>4, <2>6 DEF Check
  <2>7. CASE Rotate(c)
    <3>1. req'[c].hash \in {0, req[c].hash}
      BY <1>4, <2>7, GoesOn DEF Rotate
    <3> QED BY <1>3, <2>7, <3>1 DEF Rotate
  <2>8. CASE Commit(c)        BY <1>3, <1>4, <2>8 DEF Commit
  <2>9. CASE Arrive(c)        BY <1>3, <1>4, <2>9 DEF Arrive, storeVars
  <2>10. CASE WriteIdentity(c)  BY <1>3, <1>4, <2>10 DEF WriteIdentity, IdentityAfter
  <2>11. CASE MarkUsed(c)     BY <1>3, <1>4, <2>11 DEF MarkUsed
  <2>12. CASE EndAll(c)       BY <1>3, <1>4, <2>12 DEF EndAll
  <2> QED BY <1>7, <2>1, <2>2, <2>3, <2>4, <2>5, <2>6, <2>7, <2>8, <2>9, <2>10, <2>11, <2>12 DEF Step
<1> QED BY <1>5, <1>6, <1>7

\* What the administrator and the job make of the row.
LEMMA OthersRow ==
  ASSUME Shape, Others
  PROVE  /\ user'.hash \in {user.hash, 0} /\ identity' \in {identity, 0}
         /\ (user.due => user.state = "pending") => (user'.due => user'.state = "pending")
<1>1. user \in UserRows
  BY DEF Shape
<1>2. identity' \in {identity, 0}
  BY DEF Others, Rulings, Block, Reactivate, RequestDeletion, ResetUserFlow, AdminStep, AdminRevokes,
     AdminEnds, AdminCutOff, ComesDue, Tick, ListDue, Anonymize, Audit, JobCutOff, storeVars
<1>3. \/ user' \in {user, Blocking(TRUE), Blocking(FALSE), [user EXCEPT !.there = FALSE], Anonymized}
      \/ user' = [user EXCEPT !.state = "pending", !.blocked = TRUE, !.due = FALSE]
      \/ user.state = "pending" /\ user' = [user EXCEPT !.due = TRUE]
  BY DEF Others, Rulings, Block, Reactivate, RequestDeletion, ResetUserFlow, AdminStep, AdminRevokes,
     AdminEnds, AdminCutOff, ComesDue, Tick, ListDue, Anonymize, Audit, JobCutOff, storeVars
<1>4. \A b \in BOOLEAN : /\ Blocking(b).hash = user.hash /\ Blocking(b).due = user.due
                         /\ user.state = "pending" => Blocking(b).state = "pending"
  BY <1>1 DEF Blocking, UserRows
<1>5. /\ [user EXCEPT !.there = FALSE].hash = user.hash /\ [user EXCEPT !.there = FALSE].due = user.due
      /\ [user EXCEPT !.there = FALSE].state = user.state
      /\ Anonymized.hash = 0 /\ Anonymized.due = FALSE
  BY <1>1 DEF Anonymized, Blanked, UserRows
<1>6. ASSUME user' = [user EXCEPT !.state = "pending", !.blocked = TRUE, !.due = FALSE]
      PROVE  user'.hash = user.hash /\ user'.due = FALSE
  BY <1>1, <1>6 DEF UserRows
<1>7. ASSUME user' = [user EXCEPT !.due = TRUE] PROVE user'.hash = user.hash /\ user'.state = user.state
  BY <1>1, <1>7 DEF UserRows
<1> QED BY <1>2, <1>3, <1>4, <1>5, <1>6, <1>7

LEMMA HashedGoesOn == Shape /\ Hashed /\ [Next]_vars => Hashed'
<1> SUFFICES ASSUME Shape, Hashed, [Next]_vars PROVE Hashed'
  OBVIOUS
<1>1. UNCHANGED vars => Hashed'
  BY DEF vars, storeVars, Hashed
<1>2. ASSUME Others PROVE Hashed'
  <2>1. UNCHANGED <<req, hashes>>
    BY <1>2, OthersFade, OthersAskNothing
  <2>2. hashes \in Nat /\ 0 <= hashes
    BY DEF Shape
  <2> QED BY <1>2, <2>1, <2>2, OthersRow DEF Hashed
<1> QED BY <1>1, <1>2, HashedCallers DEF Next, Others

\* A date of deletion goes with the state, and what was left was issued.
Dated == user.due => user.state = "pending"
LeftIssued == left \subseteq 1..issued /\ issued # 0

LEMMA DatedGoesOn == Shape /\ Dated /\ [Next]_vars => Dated'
<1> SUFFICES ASSUME Shape, Dated, [Next]_vars PROVE Dated'
  OBVIOUS
<1>1. ASSUME NEW c \in Callers, Begin(c) \/ Step(c) \/ CutOff(c) PROVE Dated'
  <2>1. user'.due = user.due
    <3>1. user' = user \/ user' = [user EXCEPT !.hash = hashes + 1]
      BY <1>1 DEF Begin, Login, Logout, Refresh, ChangePassword, ResetPassword, Forgot, CutOff, Step,
         WriteLegacy, Issue, RevokeMine, Check, Rotate, Commit, Arrive, WriteHash, WriteIdentity, MarkUsed,
         EndAll, storeVars
    <3> QED BY <3>1 DEF Shape, UserRows
  <2> QED BY <1>1, <2>1, CallersAside DEF Dated
<1>2. UNCHANGED vars => Dated'
  BY DEF vars, storeVars, Dated
<1> QED BY <1>1, <1>2, OthersRow DEF Next, Others, Dated

LEMMA LeftIssuedGoesOn == AccountInv /\ LeftIssued /\ [Next]_vars => LeftIssued'
<1> SUFFICES ASSUME AccountInv, LeftIssued, [Next]_vars PROVE LeftIssued'
  OBVIOUS
<1>1. issued' \in {issued, issued + 1} /\ issued \in Nat
  BY DEF AccountInv, Shape, Next, Begin, Login, Logout, Refresh, ChangePassword, ResetPassword, Forgot, CutOff, Step,
     WriteLegacy, Issue, RevokeMine, Check, Rotate, Commit, Arrive, WriteHash, WriteIdentity, MarkUsed,
     EndAll, Rulings, Block, Reactivate, RequestDeletion, ResetUserFlow, AdminStep, AdminRevokes,
     AdminEnds, AdminCutOff, ComesDue, Tick, ListDue, Anonymize, Audit, JobCutOff, vars, storeVars
<1>2. Unseen \subseteq 1..issued
  <2> SUFFICES ASSUME NEW c \in Commits PROVE tokens[req[c].token].session \in 1..issued
    BY DEF Unseen, Commits
  <2>1. req[c].token \in Tokens /\ tokens[req[c].token].session # 0
    BY DEF AccountInv, SessionInv, Holds
  <2>2. tokens[req[c].token].session \in Nat /\ tokens[req[c].token].session <= issued
    BY <2>1 DEF AccountInv, Shape, AToken, SessionInv, Numbered
  <2> QED BY <1>1, <2>1, <2>2
<1>3. left' = left \/ left' = left \cup Unseen
  BY DEF Next, Begin, Login, Logout, Refresh, ChangePassword, ResetPassword, Forgot, CutOff, Step,
     WriteLegacy, Issue, RevokeMine, Check, Rotate, Commit, Arrive, WriteHash, WriteIdentity, MarkUsed,
     EndAll, Rulings, Block, Reactivate, RequestDeletion, ResetUserFlow, AdminStep, AdminRevokes, RevokeAll,
     AdminEnds, AdminCutOff, ComesDue, Tick, ListDue, Anonymize, Audit, JobCutOff, vars, history
<1>4. left' \subseteq 1..issued
  BY <1>2, <1>3 DEF LeftIssued
<1> QED BY <1>1, <1>4 DEF LeftIssued

TypeInv ==
  /\ AccountInv /\ OutsIssued /\ AuditInv /\ Owing /\ Hashed /\ Dated /\ LeftIssued /\ Ranges

\* The row, its tokens, the requests, the tick of every process and what was
\* counted stay what they are: the tokens and passwords there are suffice for
\* what is asked for, and a ruling costs the log one entry of each process.
THEOREM AccountTyped == Spec => []TypeOK
<1>1. Init => TypeInv
  <2> SUFFICES ASSUME Init PROVE TypeInv
    OBVIOUS
  <2>1. Hashed
    BY IdleHolds DEF Init, Hashed
  <2>2. Dated /\ Ranges
    BY DEF Init, Dated, Ranges
  <2>3. LeftIssued
    BY DEF Init, LeftIssued
  <2> QED BY <2>1, <2>2, <2>3, AccountStarts, LeftStarts, AuditStarts, OwingStarts DEF TypeInv
<1>2. TypeInv /\ [Next]_vars => TypeInv'
  <2> SUFFICES ASSUME TypeInv, [Next]_vars PROVE TypeInv'
    OBVIOUS
  <2>1. Shape /\ Counts
    BY DEF TypeInv, AccountInv
  <2> QED BY <2>1, AccountGoesOn, OutsGoOn, AuditGoesOn, OwingGoesOn, HashedGoesOn, DatedGoesOn,
             LeftIssuedGoesOn, RangesGoOn DEF TypeInv
<1>3. TypeInv => TypeOK
  <2> SUFFICES ASSUME TypeInv PROVE TypeOK
    OBVIOUS
  <2>1. /\ issued \in Nat /\ issued # 0 /\ issued <= 1 + MaxRequests /\ MaxRequests \in Nat
        /\ hashes \in Nat /\ hashes <= 1 + MaxRequests
    BY AccountBounds, Enough DEF TypeInv, AccountInv, Shape, LeftIssued
  <2>2. \A n \in Nat : (n <= hashes => n \in Hashes) /\ (n <= issued => n \in {0} \cup Tokens)
    BY <2>1 DEF Hashes, Tokens
  <2>3. user \in [there : BOOLEAN, state : {"active", "blocked", "pending", "deleted"},
                  blocked : BOOLEAN, due : BOOLEAN, hash : Hashes]
    <3>1. user \in UserRows /\ user.hash \in Hashes
      BY <2>2 DEF TypeInv, AccountInv, Shape, Hashed, UserRows
    <3> QED BY <3>1 DEF UserRows
  <2>4. identity \in Hashes /\ hashes \in Hashes /\ issued \in Tokens
    <3>1. identity \in Nat /\ identity <= hashes
      BY DEF TypeInv, AccountInv, Shape, Hashed
    <3>2. hashes <= hashes /\ issued <= issued
      BY <2>1
    <3>3. issued \in Tokens
      BY <2>1 DEF Tokens
    <3> QED BY <2>1, <2>2, <3>1, <3>2, <3>3
  <2>5. tokens \in [Tokens -> [state : {"unused", "live", "dead"}, session : {0} \cup Tokens]]
    <3>1. /\ tokens \in [Tokens -> AToken]
          /\ \A i \in Tokens : tokens[i].session \in {0} \cup Tokens
      BY <2>2 DEF TypeInv, AccountInv, Shape, SessionInv, Numbered, AToken
    <3>2. \A i \in Tokens : tokens[i] \in [state : {"unused", "live", "dead"}, session : {0} \cup Tokens]
      BY <3>1 DEF AToken
    <3> QED BY <3>1, <3>2
  <2>6. jar \in {0} \cup Tokens
        /\ req \in [Callers -> [at : Points, token : {0} \cup Tokens, next : {0} \cup Tokens, hash : Hashes]]
    <3>1. /\ req \in [Callers -> Requests]
          /\ \A c \in Callers : req[c].hash \in Hashes
      BY <2>2 DEF TypeInv, AccountInv, Shape, Hashed, Requests
    <3>2. /\ jar \in {0} \cup Tokens
          /\ \A c \in Callers : req[c].token \in {0} \cup Tokens /\ req[c].next \in {0} \cup Tokens
      BY InHand DEF TypeInv
    <3>3. \A c \in Callers : req[c] \in [at : Points, token : {0} \cup Tokens, next : {0} \cup Tokens, hash : Hashes]
      BY <3>1, <3>2 DEF Requests
    <3> QED BY <3>1, <3>2, <3>3
  <2>7. left \subseteq Tokens /\ outs \subseteq Tokens /\ cutoff \in 0..1 + MaxRequests
    <3>1. 1..issued \subseteq Tokens
      BY <2>1 DEF Tokens
    <3>2. cutoff \in Nat /\ cutoff <= issued
      BY DEF TypeInv, AccountInv, Shape, SessionInv, Numbered
    <3>3. cutoff \in 0..1 + MaxRequests
      BY <2>1, <3>2
    <3> QED BY <3>1, <3>3 DEF TypeInv, LeftIssued, OutsIssued
  <2>8. audits \in 0..MaxAdmin * Cardinality(Jobs)
    <3>1. ruled \in Nat /\ ruled <= MaxAdmin /\ MaxAdmin \in Nat
      BY AccountBounds DEF TypeInv, AccountInv, Counts
    <3>2. audits \in Nat
      BY DEF TypeInv, AuditInv
    <3>3. Begun \in Nat /\ Owed \in Nat /\ JobCount \in Nat
      BY JobsFinite DEF Begun, Owed, Listed, JobCount
    <3>4. audits <= Budget(ruled) /\ Budget(ruled) \in Nat /\ Budget(MaxAdmin) \in Nat
      <4>1. Budget(ruled) \in Nat /\ Budget(MaxAdmin) \in Nat
        BY <3>1, Products
      <4> QED BY <3>2, <3>3, <4>1 DEF TypeInv, Owing
    <3>5. Budget(ruled) <= Budget(MaxAdmin)
      <4>1. \A k \in Nat, n \in Nat, m \in Nat : n <= m => n * k <= m * k
        OBVIOUS
      <4> QED BY <3>1, <3>3, <4>1 DEF Budget
    <3>6. audits \in 0..Budget(MaxAdmin)
      BY <3>2, <3>4, <3>5
    <3> QED BY <3>6 DEF Budget, JobCount
  <2>9. job \in [Jobs -> {"off", "idle", "anonymize", "audit"}] /\ (user.due => user.state = "pending")
    BY DEF TypeInv, AuditInv, Dated
  <2> QED BY <2>3, <2>4, <2>5, <2>6, <2>7, <2>8, <2>9 DEF TypeOK, TypeInv, Ranges, AccountInv, Counts
<1> QED BY <1>1, <1>2, <1>3, PTL DEF Spec
=============================================================================
