------------------------ MODULE AutoSyncCopiesProofs ------------------------
(***************************************************************************)
(* Neither the owner's list nor a subscriber's copy is doubled, for any    *)
(* number of subscribers, songs, changes, imports and faults, and whatever *)
(* the services match a song to.                                           *)
(***************************************************************************)
EXTENDS AutoSyncProofs

(* What the steps of a tick leave alone. *)

\* What it has read, but for its lists and ledgers.
SameRows(R, S) ==
  \A j \in Subs : /\ R[j].status = S[j].status /\ R[j].playlist = S[j].playlist
                  /\ R[j].snapshot = S[j].snapshot /\ R[j].error = S[j].error

SameReading(u, t) ==
  /\ u.mode = t.mode /\ u.stored = t.stored /\ u.snapshot = t.snapshot /\ u.heard = t.heard
  /\ SameRows(u.rows, t.rows)

LEMMA GoOnKeeps ==
  ASSUME NEW phase, NEW t, IsTick(t), GoOn(phase, t)
  PROVE  /\ tick'.mode = t.mode /\ tick'.stored = t.stored /\ tick'.snapshot = t.snapshot
         /\ tick'.heard = t.heard /\ tick'.rows = t.rows /\ tick'.tracks = t.tracks
         /\ tick'.added = {} /\ pc' \in {phase, "forward", "plan"}
<1> DEFINE rest == {j \in Listed : j > t.n /\ (phase = "prepare" \/ t.prepared[j])}
           ready == {j \in Listed : t.prepared[j]}
           clean == [t EXCEPT !.todo = {}, !.added = {}, !.here = {}]
<1>1. PICK n : tick' = [clean EXCEPT !.n = n]
  <2>1. CASE rest # {}
    BY <2>1 DEF GoOn
  <2>2. CASE rest = {} /\ phase = "prepare" /\ ready # {}
    BY <2>2 DEF GoOn
  <2>3. CASE rest = {} /\ ~(phase = "prepare" /\ ready # {})
    BY <2>3 DEF GoOn
  <2> QED BY <2>1, <2>2, <2>3
<1>2. pc' \in {phase, "forward", "plan"}
  BY DEF GoOn
<1> QED BY <1>1, <1>2 DEF IsTick

\* A step that leaves a row for the next.
LEMMA RowLeft ==
  ASSUME SeenInv, SkipImport \/ PrepareForward \/ EndBack \/ SaveRow \/ ImportFails
  PROVE  /\ SameReading(tick', tick) /\ tick'.rows = tick.rows /\ tick'.added = {}
         /\ tick'.tracks = IF EndBack THEN tick.tracks \cup tick.added ELSE tick.tracks
         /\ pc' \in {"prepare", "forward", "plan"} /\ (pc' = "prepare" => pc \in {"prepare", "back"})
<1> DEFINE n == tick.n
<1>1. IsTick(tick)
  BY DEF SeenInv, Shape
<1>2. ASSUME NEW b \in BOOLEAN, NEW tracks \in SUBSET Songs, NEW grew, NEW failed, NEW phase,
             NEW t, t = [[[[tick EXCEPT !.prepared[n] = b] EXCEPT !.tracks = tracks] EXCEPT !.grew = grew] EXCEPT !.failed = failed],
             GoOn(phase, t)
      PROVE  /\ SameReading(tick', tick) /\ tick'.rows = tick.rows /\ tick'.added = {}
             /\ tick'.tracks = tracks /\ pc' \in {phase, "forward", "plan"}
  <2>1. PICK p : p = [tick.prepared EXCEPT ![n] = b]
    OBVIOUS
  <2>2. p \in [Subs -> BOOLEAN]
    BY <1>1, <2>1 DEF IsTick
  <2> HIDE DEF n
  <2>3. t = [mode |-> tick.mode, stored |-> tick.stored, streak |-> tick.streak, rows |-> tick.rows,
             snapshot |-> tick.snapshot, tracks |-> tracks, heard |-> tick.heard, n |-> tick.n,
             prepared |-> p, grew |-> grew, failed |-> failed, todo |-> tick.todo,
             added |-> tick.added, here |-> tick.here]
    BY <1>1, <1>2, <2>1 DEF IsTick
  <2>4. /\ t.mode = tick.mode /\ t.stored = tick.stored /\ t.snapshot = tick.snapshot
        /\ t.rows = tick.rows /\ t.heard = tick.heard /\ t.tracks = tracks
    BY <2>3
  <2>5. IsTick(t)
    BY <1>1, <2>2, <2>3 DEF IsTick
  <2>6. /\ tick'.mode = t.mode /\ tick'.stored = t.stored /\ tick'.snapshot = t.snapshot
        /\ tick'.heard = t.heard /\ tick'.rows = t.rows /\ tick'.tracks = t.tracks
        /\ tick'.added = {} /\ pc' \in {phase, "forward", "plan"}
    BY <1>2, <2>5, GoOnKeeps
  <2> QED BY <2>4, <2>6 DEF SameReading, SameRows
<1>3. tick.tracks \in SUBSET Songs /\ tick.tracks \cup tick.added \in SUBSET Songs
  BY <1>1 DEF IsTick
<1>4. pc \in {"prepare", "back", "forward", "copy"}
  BY DEF SkipImport, PrepareForward, EndBack, SaveRow, ImportFails
<1>5. CASE SkipImport \/ SaveRow
  <2>1. PICK phase \in {"prepare", "forward"} :
          GoOn(phase, tick) /\ (phase = "prepare" <=> pc \in {"prepare", "back"})
    BY <1>5 DEF SkipImport, SaveRow
  <2>2. ~EndBack
    BY <1>5 DEF SkipImport, SaveRow, EndBack
  <2> QED BY <1>1, <1>4, <2>1, <2>2, GoOnKeeps DEF SameReading, SameRows
<1>6. CASE PrepareForward
  <2>1. PICK t : t = [tick EXCEPT !.prepared[n] = TRUE]
    OBVIOUS
  <2>2. t = [[[[tick EXCEPT !.prepared[n] = TRUE] EXCEPT !.tracks = tick.tracks] EXCEPT !.grew = tick.grew] EXCEPT !.failed = tick.failed]
    BY <1>1, <2>1 DEF IsTick
  <2>3. GoOn("prepare", t) /\ pc = "prepare"
    BY <1>6, <2>1 DEF PrepareForward
  <2>4. ~EndBack
    BY <1>6 DEF PrepareForward, EndBack
  <2>5. tick.tracks \in SUBSET Songs
    BY <1>3
  <2>6. /\ SameReading(tick', tick) /\ tick'.rows = tick.rows /\ tick'.added = {}
        /\ tick'.tracks = tick.tracks /\ pc' \in {"prepare", "forward", "plan"}
    BY <1>2, <2>2, <2>3, <2>5
  <2> QED BY <2>3, <2>4, <2>6
<1>7. CASE EndBack
  <2>1. PICK t : t = [tick EXCEPT !.prepared[n] = TRUE, !.tracks = @ \cup tick.added,
                                  !.grew = @ \/ tick.added # {}]
    OBVIOUS
  <2>2. GoOn("prepare", t) /\ pc = "back"
    BY <1>7, <2>1 DEF EndBack
  <2>3. PICK g : g = (tick.grew \/ tick.added # {})
    BY Zenon
  <2>4. t = [[[[tick EXCEPT !.prepared[n] = TRUE] EXCEPT !.tracks = tick.tracks \cup tick.added] EXCEPT !.grew = g] EXCEPT !.failed = tick.failed]
    BY <1>1, <2>1, <2>3 DEF IsTick
  <2>5. PICK tracks \in SUBSET Songs : tracks = tick.tracks \cup tick.added
    BY <1>3
  <2>6. /\ SameReading(tick', tick) /\ tick'.rows = tick.rows /\ tick'.added = {}
        /\ tick'.tracks = tracks /\ pc' \in {"prepare", "forward", "plan"}
    BY <1>2, <2>2, <2>4, <2>5
  <2> QED BY <1>7, <2>2, <2>5, <2>6
<1>8. CASE ImportFails /\ ~EndBack
  <2>1. PICK t : t = [tick EXCEPT !.failed = TRUE, !.prepared[n] = FALSE]
    OBVIOUS
  <2>2. t = [[[[tick EXCEPT !.prepared[n] = FALSE] EXCEPT !.tracks = tick.tracks] EXCEPT !.grew = tick.grew] EXCEPT !.failed = TRUE]
    BY <1>1, <2>1 DEF IsTick
  <2>3. PICK phase \in {"prepare", "forward"} :
          GoOn(phase, t) /\ (phase = "prepare" <=> pc \in {"prepare", "back"})
    BY <1>8, <2>1 DEF ImportFails
  <2>4. tick.tracks \in SUBSET Songs
    BY <1>3
  <2>5. /\ SameReading(tick', tick) /\ tick'.rows = tick.rows /\ tick'.added = {}
        /\ tick'.tracks = tick.tracks /\ pc' \in {phase, "forward", "plan"}
    BY <1>2, <2>2, <2>3, <2>4
  <2> QED BY <1>4, <1>8, <2>3, <2>5
<1> QED BY <1>5, <1>6, <1>7, <1>8

\* The rows of a tick, with other ledgers for row n, are the same otherwise.
LEMMA LedgersOnly ==
  ASSUME NEW t, IsTick(t), NEW n \in Subs,
         NEW u, u.status = t.rows[n].status, u.playlist = t.rows[n].playlist,
         u.snapshot = t.rows[n].snapshot, u.error = t.rows[n].error,
         NEW R, R = [t.rows EXCEPT ![n] = u]
  PROVE  /\ SameRows(R, t.rows) /\ R[n].ledger = u.ledger
         /\ \A j \in Subs \ {n} : R[j].ledger = t.rows[j].ledger
<1>1. t.rows = [i \in Subs |-> t.rows[i]]
  BY DEF IsTick
<1>2. \A j \in Subs : R[j] = IF j = n THEN u ELSE t.rows[j]
  BY <1>1
<1> QED BY <1>2 DEF SameRows

LEMMA BackBegins ==
  ASSUME SeenInv, StartBack
  PROVE  /\ SameReading(tick', tick) /\ \A j \in Subs : tick'.rows[j].ledger = tick.rows[j].ledger
         /\ UNCHANGED <<tick.n, tick.tracks, tick.added>>
<1> DEFINE n == tick.n
<1>1. IsTick(tick) /\ n \in Subs /\ IsRow(tick.rows[n])
  BY AtOne DEF StartBack
<1>2. PICK back, todo : tick' = [tick EXCEPT !.rows[n].back = back, !.todo = todo]
  BY DEF StartBack
<1>3. PICK R : R = [tick.rows EXCEPT ![n].back = back]
  OBVIOUS
<1>4. PICK u : u = [[tick.rows[n] EXCEPT !.ledger = tick.rows[n].ledger] EXCEPT !.back = back]
  OBVIOUS
<1>5. /\ u.status = tick.rows[n].status /\ u.playlist = tick.rows[n].playlist
      /\ u.snapshot = tick.rows[n].snapshot /\ u.error = tick.rows[n].error /\ u.ledger = tick.rows[n].ledger
  BY <1>1, <1>4 DEF IsRow
<1>6. R = [tick.rows EXCEPT ![n] = u]
  <2> HIDE DEF n
  <2> QED BY <1>1, <1>3, <1>4 DEF IsRow
<1>7. SameRows(R, tick.rows) /\ \A j \in Subs : R[j].ledger = tick.rows[j].ledger
  BY <1>1, <1>6, <1>5, LedgersOnly
<1> HIDE DEF n
<1>8. tick' = [tick EXCEPT !.rows = R, !.todo = todo]
  BY <1>1, <1>2, <1>3 DEF IsTick
<1>9. /\ tick'.mode = tick.mode /\ tick'.stored = tick.stored /\ tick'.snapshot = tick.snapshot
      /\ tick'.heard = tick.heard /\ tick'.rows = R
      /\ tick'.n = tick.n /\ tick'.tracks = tick.tracks /\ tick'.added = tick.added
  BY <1>1, <1>8 DEF IsTick
<1> QED BY <1>7, <1>9 DEF SameReading

LEMMA ForwardBegins ==
  ASSUME SeenInv, StartForward
  PROVE  /\ SameReading(tick', tick)
         /\ tick.rows[tick.n].ledger \subseteq tick'.rows[tick.n].ledger
         /\ UNCHANGED <<tick.n, tick.tracks, tick.added>>
         /\ tick'.here = Held(copy[tick.n][tick.rows[tick.n].playlist])
         /\ tick'.todo \subseteq Matchable(tick.n, Songs)
<1> DEFINE n == tick.n
<1>1. IsTick(tick) /\ n \in Subs /\ IsRow(tick.rows[n])
  BY AtOne DEF StartForward
<1>2. PICK ledger, todo, here :
        /\ tick' = [tick EXCEPT !.rows[n].ledger = ledger, !.here = here, !.todo = todo]
        /\ here = Held(copy[n][tick.rows[n].playlist])
        /\ tick.rows[n].ledger = {} \/ ledger = tick.rows[n].ledger
        /\ todo = Matchable(n, tick.tracks \ ledger)
  BY DEF StartForward, Adopts
<1>3. PICK R : R = [tick.rows EXCEPT ![n].ledger = ledger]
  OBVIOUS
<1>4. PICK u : u = [[tick.rows[n] EXCEPT !.ledger = ledger] EXCEPT !.back = tick.rows[n].back]
  OBVIOUS
<1>5. /\ u.status = tick.rows[n].status /\ u.playlist = tick.rows[n].playlist
      /\ u.snapshot = tick.rows[n].snapshot /\ u.error = tick.rows[n].error /\ u.ledger = ledger
  BY <1>1, <1>4 DEF IsRow
<1>6. R = [tick.rows EXCEPT ![n] = u]
  <2> HIDE DEF n
  <2> QED BY <1>1, <1>3, <1>4 DEF IsRow
<1>7. SameRows(R, tick.rows) /\ R[n].ledger = ledger
  BY <1>1, <1>6, <1>5, LedgersOnly
<1>8. todo \subseteq Matchable(n, Songs)
  BY <1>1, <1>2 DEF IsTick, Matchable
<1> HIDE DEF n
<1>9. tick' = [tick EXCEPT !.rows = R, !.here = here, !.todo = todo]
  BY <1>1, <1>2, <1>3 DEF IsTick
<1>10. /\ tick'.mode = tick.mode /\ tick'.stored = tick.stored /\ tick'.snapshot = tick.snapshot
      /\ tick'.heard = tick.heard /\ tick'.rows = R /\ tick'.here = here /\ tick'.todo = todo
      /\ tick'.n = tick.n /\ tick'.tracks = tick.tracks /\ tick'.added = tick.added
  BY <1>1, <1>9 DEF IsTick
<1> QED BY <1>2, <1>7, <1>8, <1>10 DEF SameReading, n

\* A song in both ledgers: the rest of the tick as it was.
LEMMA SongRecorded ==
  ASSUME NEW t, IsTick(t), NEW n \in Subs, NEW s, NEW u, u = BothLedgers(t, n, s)
  PROVE  /\ SameReading(u, t)
         /\ u.rows[n].ledger = t.rows[n].ledger \cup {s}
         /\ u.n = t.n /\ u.tracks = t.tracks /\ u.added = t.added /\ u.here = t.here
         /\ u.todo = t.todo
<1>1. PICK R : R = [t.rows EXCEPT ![n].ledger = @ \cup {s}, ![n].back = @ \cup {s}]
  OBVIOUS
<1>2. u = [t EXCEPT !.rows = R]
  BY <1>1, BothLedgersIs
<1>3. PICK ledger, back : ledger = t.rows[n].ledger \cup {s} /\ back = t.rows[n].back \cup {s}
  OBVIOUS
<1>4. PICK v : v = [[t.rows[n] EXCEPT !.ledger = ledger] EXCEPT !.back = back]
  OBVIOUS
<1>5. /\ v.status = t.rows[n].status /\ v.playlist = t.rows[n].playlist
      /\ v.snapshot = t.rows[n].snapshot /\ v.error = t.rows[n].error /\ v.ledger = ledger
  BY <1>4 DEF IsTick, IsRow
<1>6. R = [t.rows EXCEPT ![n] = v]
  <2>1. IsRow(t.rows[n]) /\ t.rows = [i \in Subs |-> t.rows[i]]
    BY DEF IsTick
  <2> QED BY <1>1, <1>3, <1>4, <2>1 DEF IsRow
<1>7. SameRows(R, t.rows) /\ R[n].ledger = ledger
  BY <1>6, <1>5, LedgersOnly
<1>8. /\ u.mode = t.mode /\ u.stored = t.stored /\ u.snapshot = t.snapshot
      /\ u.heard = t.heard /\ u.rows = R /\ u.here = t.here /\ u.todo = t.todo
      /\ u.n = t.n /\ u.tracks = t.tracks /\ u.added = t.added
  BY <1>2 DEF IsTick
<1> QED BY <1>3, <1>7, <1>8 DEF SameReading

LEMMA SongBack ==
  ASSUME SeenInv, NEW r \in Songs, BackOne(r) \/ BackRefused(r)
  PROVE  /\ SameReading(tick', tick) /\ UNCHANGED <<tick.n, tick.tracks>>
         /\ tick'.todo = tick.todo \ {r}
         /\ tick'.added = IF NewToSource(r) THEN tick.added \cup {r} ELSE tick.added
<1> DEFINE n == tick.n
<1>1. IsTick(tick) /\ n \in Subs
  BY AtOne DEF BackOne, BackRefused
<1>2. PICK t : t = [tick EXCEPT !.todo = @ \ {r}]
  OBVIOUS
<1>3. /\ IsTick(t) /\ t.todo = tick.todo \ {r} /\ t.rows = tick.rows
      /\ t.mode = tick.mode /\ t.stored = tick.stored /\ t.snapshot = tick.snapshot
      /\ t.heard = tick.heard /\ t.n = tick.n /\ t.tracks = tick.tracks /\ t.added = tick.added
  BY <1>1, <1>2 DEF IsTick
<1>4. PICK u : u = BothLedgers(t, n, r)
  OBVIOUS
<1>5. /\ IsTick(u) /\ SameReading(u, t)
      /\ u.n = t.n /\ u.tracks = t.tracks /\ u.added = t.added /\ u.todo = t.todo
  BY <1>1, <1>3, <1>4, SongRecorded, BothLedgersShape
<1>6. SameReading(u, tick) /\ SameReading(t, tick)
  BY <1>3, <1>5 DEF SameReading, SameRows
<1>7. CASE NewToSource(r)
  <2>1. tick' = [u EXCEPT !.added = @ \cup {r}]
    BY <1>2, <1>4, <1>7 DEF BackOne, BackRefused
  <2>2. /\ tick'.mode = u.mode /\ tick'.stored = u.stored /\ tick'.snapshot = u.snapshot
        /\ tick'.heard = u.heard /\ tick'.rows = u.rows /\ tick'.n = u.n /\ tick'.tracks = u.tracks
        /\ tick'.todo = u.todo /\ tick'.added = u.added \cup {r}
    BY <1>5, <2>1 DEF IsTick
  <2> QED BY <1>3, <1>5, <1>6, <1>7, <2>2 DEF SameReading, SameRows
<1>8. CASE ~NewToSource(r)
  <2>1. tick' = u \/ tick' = t
    BY <1>2, <1>4, <1>8 DEF BackOne, BackRefused
  <2> QED BY <1>3, <1>5, <1>6, <1>8, <2>1
<1> QED BY <1>7, <1>8

LEMMA SongCopied ==
  ASSUME SeenInv, NEW s \in Songs, CopyOne(s) \/ CopyRefused(s)
  PROVE  /\ SameReading(tick', tick) /\ UNCHANGED <<tick.n, tick.tracks, tick.added>>
         /\ tick'.rows[tick.n].ledger = tick.rows[tick.n].ledger \cup {s}
         /\ tick'.here = tick.here \cup {Match[tick.n][s]}
         /\ tick'.todo \subseteq tick.todo
<1> DEFINE n == tick.n
<1>1. IsTick(tick) /\ n \in Subs
  BY AtOne DEF CopyOne, CopyRefused
<1>2. PICK u : u = BothLedgers(tick, n, s)
  OBVIOUS
<1>3. /\ IsTick(u) /\ SameReading(u, tick) /\ u.here = tick.here
      /\ u.n = tick.n /\ u.tracks = tick.tracks /\ u.added = tick.added /\ u.todo = tick.todo
      /\ u.rows[n].ledger = tick.rows[n].ledger \cup {s}
  BY <1>1, <1>2, SongRecorded, BothLedgersShape
<1>4. tick' = [u EXCEPT !.todo = @ \ {s}, !.here = @ \cup {Match[n][s]}]
  BY <1>2 DEF CopyOne, CopyRefused, CopyRecorded
<1> HIDE DEF n
<1>5. /\ tick'.mode = u.mode /\ tick'.stored = u.stored /\ tick'.snapshot = u.snapshot
      /\ tick'.heard = u.heard /\ tick'.rows = u.rows /\ tick'.n = u.n /\ tick'.tracks = u.tracks
      /\ tick'.todo = u.todo \ {s} /\ tick'.added = u.added /\ tick'.here = u.here \cup {Match[n][s]}
  BY <1>3, <1>4 DEF IsTick
<1> QED BY <1>3, <1>5 DEF SameReading, SameRows, n

\* What has happened has happened.
Longer ==
  /\ \A i \in Subs : /\ leftOut[i] \subseteq leftOut'[i] /\ unrecorded[i] \subseteq unrecorded'[i]
                     /\ again[i] \subseteq again'[i] /\ own[i] \subseteq own'[i]
  /\ \A i \in {0} \cup Subs : ownAdds[i] \subseteq ownAdds'[i] /\ resent[i] \subseteq resent'[i]

LEMMA HistoryGrows == TypedInv /\ SeenInv /\ Next => Longer
<1> SUFFICES ASSUME TypedInv, SeenInv, Next PROVE Longer
  OBVIOUS
<1> USE DEF Longer
<1>0. Histories
  BY DEF TypedInv
<1>1. ASSUME NEW s \in OwnerSongs, OwnerAddsOrRemoves(s) PROVE Longer
  BY <1>0, <1>1 DEF OwnerAddsOrRemoves, Histories, addVars
<1>2. ASSUME NEW i \in Subs, NEW s \in Songs, SubscriberAddsOrRemoves(i, s) PROVE Longer
  BY <1>0, <1>2 DEF SubscriberAddsOrRemoves, Histories, addVars
<1>3. ASSUME NEW i \in Subs, ImportAdd(i) PROVE Longer
  <2>1. PICK left, more : /\ leftOut' = [leftOut EXCEPT ![i] = @ \cup left]
                          /\ again' = [again EXCEPT ![i] = @ \cup more]
    BY <1>3 DEF ImportAdd
  <2>2. UNCHANGED <<unrecorded, own, ownAdds, resent>>
    BY <1>3 DEF ImportAdd, addVars
  <2> QED BY <1>0, <2>1, <2>2 DEF Histories
<1>4. CASE ImportFails
  BY <1>0, <1>4 DEF ImportFails, Histories, addVars
<1>5. CASE Restart
  BY <1>0, <1>5 DEF Restart, Histories, addVars
<1>6. ASSUME NEW i \in Subs, ImportThrows(i) PROVE Longer
  BY <1>0, <1>6 DEF ImportThrows, Histories, addVars
<1>7. ASSUME UNCHANGED <<leftOut, unrecorded, again, own, ownAdds, resent>> PROVE Longer
  BY <1>7
<1>10. CASE Resends
  <2>1. UNCHANGED <<leftOut, unrecorded, again, own, ownAdds>>
    BY <1>10, ResendsTouch DEF SeenInv, OnlyPlaylists
  <2>2. PICK i, more : resent' = [resent EXCEPT ![i] = @ \cup more]
    BY <1>10 DEF Resends, ImportAddResent, BackResent, CopyResent
  <2>3. \A j \in {0} \cup Subs : resent[j] \subseteq resent'[j]
    BY <1>0, <2>2 DEF Histories
  <2> QED BY <2>1, <2>3
<1> USE DEF history, addVars
<1>11. ASSUME NEW s \in Songs, BackRefused(s) \/ CopyRefused(s) PROVE Longer
  BY <1>7, <1>11 DEF BackRefused, CopyRefused
<1>8. ASSUME \/ \E m \in Modes : SetMode(m)
             \/ \E r \in BOOLEAN : SetRevoked(r)
             \/ \E i \in Subs : Unsubscribe(i) \/ ImportBegin(i)
             \/ Tick \/ Clock \/ TickFails
             \/ \E i \in Subs : ImportOpen(i) \/ ImportEnd(i)
      PROVE  Longer
  BY <1>7, <1>8 DEF SetMode, SetRevoked, Unsubscribe, ImportBegin, Tick, Clock, TickFails,
     ImportOpen, ImportEnd
<1>9. CASE TickStep
  BY <1>7, <1>9 DEF TickStep, ReadSnapshot, ListSource, ReadRecipient, ListSourceLate, StoreSnapshot,
     SkipImport, PrepareForward, StartBack, EndBack, StartForward, SaveRow, PlanNextPoll, BackOne, CopyOne
<1> QED BY <1>1, <1>2, <1>3, <1>4, <1>5, <1>6, <1>8, <1>9, <1>10, <1>11
       DEF Next, People, Fault, ImportStep, Resends

-----------------------------------------------------------------------------
(* The owner's list is not doubled. *)

\* A copy is to be taken back.
Wanted == TwoWay /\ \E j \in Listed : HeardNew(j) \/ Retry(j)

\* What may be in the owner's list though the tick does not know it.
Unknown ==
  ownAdds[0] \cup resent[0] \cup UNION {Echoes(i) \cup {Back[i][t] : t \in unrecorded[i]} : i \in Subs}

\* The tick has listed what is in the owner's list, or added it.
Known ==
  Held(source) \subseteq tick.tracks \cup Unknown \cup {r \in tick.added : Back[tick.n][r] = r}

OwnerInv ==
  /\ \A s \in Songs : source[s] > 1 => s \in Unknown
  /\ pc = "snapshot" => tick.tracks = {}
  /\ pc \in {"recipients", "store"} /\ tick.tracks # {} => Known
  /\ pc \in {"store", "prepare"} /\ Wanted => Known
  /\ IF pc = "back" THEN Known /\ BackNeeded(tick.n) /\ tick.todo \cap tick.added = {}
     ELSE tick.added = {}

LEMMA UnknownGrows == Longer => Unknown \subseteq Unknown'
  BY DEF Longer, Unknown, Echoes

LEMMA WantedStays ==
  ASSUME SameReading(tick', tick)
  PROVE  /\ Listed' = Listed /\ (Wanted' <=> Wanted)
         /\ \A j \in Subs : BackNeeded(j)' <=> BackNeeded(j)
  BY DEF SameReading, SameRows, Wanted, TwoWay, Listed, HeardNew, Retry, BackNeeded

LEMMA OwnerInit == Init => OwnerInv
<1> SUFFICES ASSUME Init PROVE OwnerInv
  OBVIOUS
<1>1. ASSUME NEW s \in Songs PROVE ~(source[s] > 1)
  <2>1. source[s] = 1 \/ source[s] = 0
    BY DEF Init
  <2> QED BY <2>1
<1>2. pc = "idle" /\ tick.added = {}
  BY DEF Init, IdleTick
<1> QED BY <1>1, <1>2 DEF OwnerInv

\* The tick stands still, and whatever is new in the list is known or unknown to it.
LEMMA OwnerStays ==
  ASSUME OwnerInv, Longer, UNCHANGED <<pc, tick>>,
         \A s \in Songs : source'[s] > 1 => source[s] > 1 \/ s \in Unknown',
         pc # "idle" => Held(source)' \subseteq Held(source) \cup Unknown'
  PROVE  OwnerInv'
<1>1. Unknown \subseteq Unknown'
  BY UnknownGrows
<1>2. SameReading(tick', tick)
  BY DEF SameReading, SameRows
<1>3. pc # "idle" /\ Known => Known'
  BY <1>1 DEF Known
<1>4. \A j \in Subs : BackNeeded(j)' <=> BackNeeded(j)
  BY <1>2, WantedStays
<1>5. BackNeeded(tick.n)' <=> BackNeeded(tick.n)
  BY DEF BackNeeded, TwoWay, HeardNew, Retry
<1>6. Wanted' <=> Wanted
  BY <1>2, WantedStays
<1> QED BY <1>1, <1>3, <1>5, <1>6 DEF OwnerInv

\* The tick gives up, ends, or begins.
LEMMA OwnerRests ==
  ASSUME OwnerInv, Longer, source' = source, pc' \in {"idle", "snapshot", "list"},
         tick'.added = {}, tick'.tracks = {}
  PROVE  OwnerInv'
  BY UnknownGrows DEF OwnerInv

\* The tick reads on.
LEMMA OwnerReads ==
  ASSUME SeenInv, OwnerInv, Longer,
         ReadSnapshot \/ ListSource \/ ReadRecipient \/ ListSourceLate \/ StoreSnapshot
  PROVE  OwnerInv'
<1>1. IsTick(tick)
  BY DEF SeenInv, Shape
<1>2. source' = source
  BY DEF ReadSnapshot, ListSource, ReadRecipient, ListSourceLate, StoreSnapshot, provVars, playVars
<1>3. \A s \in Songs : source'[s] > 1 => s \in Unknown'
  BY <1>2, UnknownGrows DEF OwnerInv
<1>4. tick.added = {}
  BY DEF OwnerInv, ReadSnapshot, ListSource, ReadRecipient, ListSourceLate, StoreSnapshot
<1>5. CASE ReadSnapshot
  <2>1. /\ tick'.tracks = tick.tracks /\ tick'.added = tick.added /\ tick'.mode = tick.mode
        /\ pc = "snapshot" /\ pc' \in {"list", ToRecipients}
    BY <1>1, <1>5 DEF ReadSnapshot, IsTick
  <2>2. pc' = "store" => ~Wanted'
    BY <2>1 DEF ToRecipients, Wanted, TwoWay
  <2>3. pc' \in {"list", "recipients", "store"}
    BY <2>1 DEF ToRecipients
  <2> QED BY <1>3, <1>4, <2>1, <2>2, <2>3 DEF OwnerInv
<1>6. CASE ListSource
  <2>1. /\ tick'.tracks = Held(source) /\ tick'.added = tick.added /\ tick'.mode = tick.mode
        /\ pc' = ToRecipients
    BY <1>1, <1>6 DEF ListSource, IsTick
  <2>2. Known'
    BY <1>2, <2>1 DEF Known, Held
  <2>3. pc' \in {"recipients", "store"}
    BY <2>1 DEF ToRecipients
  <2> QED BY <1>3, <1>4, <2>1, <2>2, <2>3 DEF OwnerInv
<1>7. CASE ReadRecipient
  <2> DEFINE t == [tick EXCEPT !.heard[tick.n] = SnapshotOf(tick.n, copy[tick.n][tick.rows[tick.n].playlist]),
                               !.n = FirstAfter(tick.n)]
  <2>1. PICK H : H = [tick.heard EXCEPT ![tick.n] = SnapshotOf(tick.n, copy[tick.n][tick.rows[tick.n].playlist])]
    OBVIOUS
  <2>2. PICK k : k = FirstAfter(tick.n)
    OBVIOUS
  <2>3. t = [tick EXCEPT !.heard = H, !.n = k]
    BY <1>1, <2>1, <2>2 DEF IsTick
  <2>4. /\ tick' = t /\ pc = "recipients"
        /\ pc' = IF t.n # 0 THEN "recipients"
                 ELSE IF /\ t.tracks = {}
                         /\ \E j \in Listed : t.heard[j] # t.rows[j].snapshot \/ Retry(j)
                 THEN "listLate" ELSE "store"
    BY <1>7 DEF ReadRecipient
  <2> HIDE DEF t
  <2>5. /\ tick'.tracks = tick.tracks /\ tick'.added = tick.added /\ tick'.mode = tick.mode
        /\ tick'.rows = tick.rows /\ tick'.heard = t.heard /\ t.rows = tick.rows /\ t.tracks = tick.tracks
    BY <1>1, <2>3, <2>4 DEF IsTick
  <2>6. pc' = "store" /\ Wanted' => tick.tracks # {}
    <3>1. Listed' = Listed
      BY <2>5 DEF Listed
    <3>2. \A j \in Listed : HeardNew(j)' => t.heard[j] # t.rows[j].snapshot
      BY <2>5 DEF HeardNew
    <3>3. \A j \in Listed : Retry(j)' <=> Retry(j)
      BY <2>5 DEF Retry
    <3> QED BY <2>4, <2>5, <3>1, <3>2, <3>3 DEF Wanted
  <2>7. tick.tracks # {} => Known'
    <3>1. tick.tracks # {} => Known
      BY <2>4 DEF OwnerInv
    <3> QED BY <1>2, <1>4, <2>5, <3>1, UnknownGrows DEF Known
  <2>8. pc' \in {"recipients", "listLate", "store"}
    BY <2>4
  <2> QED BY <1>3, <1>4, <2>5, <2>6, <2>7, <2>8 DEF OwnerInv
<1>8. CASE ListSourceLate
  <2>1. tick'.tracks = Held(source) /\ tick'.added = tick.added /\ pc' = "store"
    BY <1>1, <1>8 DEF ListSourceLate, IsTick
  <2>2. Known'
    BY <1>2, <2>1 DEF Known, Held
  <2> QED BY <1>3, <1>4, <2>1, <2>2 DEF OwnerInv
<1>9. CASE StoreSnapshot
  <2>1. pc = "store"
    BY <1>9 DEF StoreSnapshot
  <2>2. CASE pc' = "idle"
    <3>1. tick'.added = {}
      BY <1>1, <1>4, <1>9 DEF StoreSnapshot, IdleTick, IsTick
    <3> QED BY <1>3, <2>2, <3>1 DEF OwnerInv
  <2>3. CASE pc' # "idle"
    <3>1. pc' = "prepare" /\ tick' = [tick EXCEPT !.n = FirstAfter(0)]
      BY <1>9, <2>3 DEF StoreSnapshot
    <3>2. SameReading(tick', tick) /\ tick'.tracks = tick.tracks /\ tick'.added = {}
      BY <1>1, <1>4, <3>1 DEF IsTick, SameReading, SameRows
    <3>3. Wanted' => Known
      BY <2>1, <3>2, WantedStays DEF OwnerInv
    <3>4. Known => Known'
      BY <1>2, <1>4, <3>2, UnknownGrows DEF Known
    <3> QED BY <1>3, <3>1, <3>2, <3>3, <3>4 DEF OwnerInv
  <2> QED BY <2>2, <2>3
<1> QED BY <1>5, <1>6, <1>7, <1>8, <1>9

\* A row is left for the next: what was added to the owner's list is known, or
\* unrecorded.
LEMMA OwnerLeavesRow ==
  ASSUME SeenInv, OwnerInv, Longer, TypedInv,
         SkipImport \/ PrepareForward \/ EndBack \/ SaveRow \/ ImportFails
  PROVE  OwnerInv'
<1>1. source' = source
  BY DEF SkipImport, PrepareForward, EndBack, SaveRow, ImportFails, provVars, playVars
<1>2. \A s \in Songs : source'[s] > 1 => s \in Unknown'
  BY <1>1, UnknownGrows DEF OwnerInv
<1>3. /\ SameReading(tick', tick) /\ tick'.added = {}
      /\ tick'.tracks = IF EndBack THEN tick.tracks \cup tick.added ELSE tick.tracks
      /\ pc' \in {"prepare", "forward", "plan"} /\ (pc' = "prepare" => pc \in {"prepare", "back"})
  BY RowLeft
<1>4. ASSUME pc' = "prepare", Wanted' PROVE Known'
  <2>1. Wanted
    BY <1>3, <1>4, WantedStays
  <2>2. Known
    BY <1>3, <1>4, <2>1 DEF OwnerInv
  <2>3. {r \in tick.added : Back[tick.n][r] = r} \subseteq tick'.tracks \cup Unknown'
    <3>1. CASE EndBack
      BY <1>3, <3>1
    <3>2. CASE ImportFails
      <4>1. tick.n \in Subs /\ tick.added \subseteq unrecorded'[tick.n]
        <5>1. tick.n \in Subs
          BY <3>2, AtOne DEF ImportFails
        <5>2. unrecorded \in [Subs -> SUBSET Songs]
          BY DEF TypedInv, Histories
        <5> QED BY <3>2, <5>1, <5>2 DEF ImportFails
      <4>2. \A r \in tick.added : Back[tick.n][r] \in Unknown'
        BY <4>1 DEF Unknown
      <4> QED BY <4>2
    <3>3. CASE SkipImport \/ PrepareForward
      <4>1. tick.added = {}
        BY <3>3 DEF SkipImport, PrepareForward, OwnerInv
      <4> QED BY <4>1
    <3>4. ~SaveRow
      BY <1>3, <1>4 DEF SaveRow
    <3> QED BY <3>1, <3>2, <3>3, <3>4
  <2>4. tick.tracks \subseteq tick'.tracks
    BY <1>3
  <2> QED BY <1>1, <1>3, <2>2, <2>3, <2>4, UnknownGrows DEF Known
<1> QED BY <1>2, <1>3, <1>4 DEF OwnerInv

LEMMA OwnerBackBegins ==
  ASSUME SeenInv, OwnerInv, Longer, StartBack PROVE OwnerInv'
<1>1. source' = source /\ pc = "prepare" /\ pc' = "back" /\ BackNeeded(tick.n)
  BY DEF StartBack, provVars, playVars
<1>2. SameReading(tick', tick) /\ UNCHANGED <<tick.n, tick.tracks, tick.added>>
  BY BackBegins
<1>3. \A s \in Songs : source'[s] > 1 => s \in Unknown'
  BY <1>1, UnknownGrows DEF OwnerInv
<1>4. tick.added = {}
  BY <1>1 DEF OwnerInv
<1>5. tick.n \in Listed /\ tick.n \in Subs
  BY <1>1, AtOne
<1>6. Known
  BY <1>1, <1>5 DEF OwnerInv, Wanted, BackNeeded
<1>7. Known'
  BY <1>1, <1>2, <1>6, UnknownGrows DEF Known
<1>8. BackNeeded(tick.n)'
  <2>1. \A j \in Subs : BackNeeded(j)' <=> BackNeeded(j)
    BY <1>2, WantedStays
  <2> QED BY <1>1, <1>2, <1>5, <2>1 DEF BackNeeded, HeardNew, Retry, TwoWay
<1> QED BY <1>1, <1>2, <1>3, <1>4, <1>7, <1>8 DEF OwnerInv

\* A song taken back is in the owner's list already only if that is unknown to
\* the tick, or if it came back as another.
LEMMA OwnerSongBack ==
  ASSUME SeenInv, OwnerInv, Longer, TypedInv, NEW r \in Songs, BackOne(r) \/ BackRefused(r)
  PROVE  OwnerInv'
<1> DEFINE b == Back[tick.n][r]
<1>1. pc = "back" /\ pc' = "back" /\ r \in tick.todo /\ tick.n \in Subs
  BY AtOne DEF BackOne, BackRefused
<1>2. /\ SameReading(tick', tick) /\ UNCHANGED <<tick.n, tick.tracks>>
      /\ tick'.todo = tick.todo \ {r}
      /\ tick'.added = IF NewToSource(r) THEN tick.added \cup {r} ELSE tick.added
  BY SongBack
<1>3. Known /\ BackNeeded(tick.n) /\ tick.todo \cap tick.added = {}
  BY <1>1 DEF OwnerInv
<1>4. Unknown \subseteq Unknown'
  BY UnknownGrows
<1>5. b # r => b \in Unknown /\ b \in Unknown'
  <2>1. b # r => b \in Echoes(tick.n)
    BY DEF Echoes
  <2> QED BY <1>1, <1>4, <2>1 DEF Unknown
<1>6. source \in [Songs -> 0..MaxCopies]
  BY DEF TypedInv, PlaylistsTyped
<1>9. CASE BackRefused(r)
  <2>1. source' = source /\ tick'.added = tick.added \cup {r}
    BY <1>2, <1>9 DEF BackRefused, provVars, playVars
  <2>2. \A s \in Songs : source'[s] > 1 => s \in Unknown'
    BY <1>4, <2>1 DEF OwnerInv
  <2>3. Known'
    BY <1>2, <1>3, <1>4, <1>5, <2>1 DEF Known
  <2>4. BackNeeded(tick.n)'
    BY <1>1, <1>2, <1>3 DEF BackNeeded, HeardNew, Retry, TwoWay, SameReading, SameRows
  <2> QED BY <1>1, <1>2, <1>3, <2>1, <2>2, <2>3, <2>4 DEF OwnerInv
<1>7. CASE NewToSource(r) /\ BackOne(r)
  <2>1. source' = PlusOne(source, {b}) /\ r \notin tick.tracks
    BY <1>7 DEF BackOne, NewToSource
  <2>2. \A s \in Songs : s # b => source'[s] = source[s]
    BY <2>1 DEF PlusOne
  <2>3. Held(source)' \subseteq Held(source) \cup {b}
    BY <2>2 DEF Held
  <2>4. b = r /\ source[r] > 0 => r \in Unknown
    BY <1>1, <1>3, <2>1 DEF Known, Held
  <2>5. b = r => source[r] = 0 \/ r \in Unknown
    <3>1. source[r] > 0 \/ source[r] = 0
      BY <1>6 DEF MaxCopies
    <3> QED BY <2>4, <3>1
  <2>6. ASSUME NEW s \in Songs, source'[s] > 1 PROVE s \in Unknown'
    <3>1. CASE s # b
      BY <1>4, <2>2, <2>6, <3>1 DEF OwnerInv
    <3>2. CASE s = b /\ b # r
      BY <1>5, <3>2
    <3>3. CASE s = b /\ b = r
      <4>1. source'[r] = IF source[r] < MaxCopies THEN source[r] + 1 ELSE source[r]
        BY <2>1, <3>3 DEF PlusOne
      <4>2. source[r] = 0 => ~(source'[r] > 1)
        BY <4>1 DEF MaxCopies
      <4>3. r \in Unknown
        BY <2>5, <2>6, <3>3, <4>2
      <4> QED BY <1>4, <3>3, <4>3
    <3> QED BY <3>1, <3>2, <3>3
  <2>7. tick'.added = tick.added \cup {r}
    BY <1>2, <1>7
  <2>8. Known'
    BY <1>2, <1>3, <1>4, <1>5, <2>3, <2>7 DEF Known
  <2>9. BackNeeded(tick.n)'
    BY <1>1, <1>2, <1>3 DEF BackNeeded, HeardNew, Retry, TwoWay, SameReading, SameRows
  <2> QED BY <1>1, <1>2, <1>3, <2>6, <2>7, <2>8, <2>9 DEF OwnerInv
<1>8. CASE ~NewToSource(r) /\ BackOne(r)
  <2>1. source' = source
    BY <1>8 DEF BackOne
  <2>2. \A s \in Songs : source'[s] > 1 => s \in Unknown'
    BY <1>4, <2>1 DEF OwnerInv
  <2>3. Known'
    BY <1>2, <1>3, <1>4, <1>8, <2>1 DEF Known
  <2>4. BackNeeded(tick.n)'
    BY <1>1, <1>2, <1>3 DEF BackNeeded, HeardNew, Retry, TwoWay, SameReading, SameRows
  <2> QED BY <1>1, <1>2, <1>3, <1>8, <2>2, <2>3, <2>4 DEF OwnerInv
<1> QED BY <1>7, <1>8, <1>9

\* Copying to the subscribers leaves the owner's list alone.
LEMMA OwnerCopies ==
  ASSUME SeenInv, OwnerInv, Longer,
         StartForward \/ \E s \in Songs : CopyOne(s) \/ CopyRefused(s)
  PROVE  OwnerInv'
<1>1. source' = source /\ pc' = "copy" /\ pc \in {"forward", "copy"}
  BY DEF StartForward, CopyOne, CopyRefused, provVars, playVars
<1>2. tick'.added = tick.added
  BY ForwardBegins, SongCopied
<1>3. tick.added = {}
  BY <1>1 DEF OwnerInv
<1>4. \A s \in Songs : source'[s] > 1 => s \in Unknown'
  BY <1>1, UnknownGrows DEF OwnerInv
<1> QED BY <1>1, <1>2, <1>3, <1>4 DEF OwnerInv

\* A request to add a song taken back is answered with an error: the song is
\* there, and the tick does not know.
LEMMA OwnerResent ==
  ASSUME SeenInv, OwnerInv, Longer, TypedInv, Resends PROVE OwnerInv'
<1>1. UNCHANGED <<pc, tick>>
  BY ResendsTouch DEF SeenInv, OnlyPlaylists
<1>2. ASSUME NEW r \in Songs, BackResent(r) PROVE OwnerInv'
  <2> DEFINE b == Back[tick.n][r]
  <2>1. source' = PlusOne(source, {b}) /\ resent' = [resent EXCEPT ![0] = @ \cup {b}]
    BY <1>2 DEF BackResent
  <2>2. b \in Unknown'
    <3>1. b \in resent'[0]
      BY <2>1 DEF TypedInv, Histories
    <3> QED BY <3>1 DEF Unknown
  <2>3. \A s \in Songs : s # b => source'[s] = source[s]
    BY <2>1 DEF PlusOne
  <2>4. Held(source)' \subseteq Held(source) \cup {b}
    BY <2>3 DEF Held
  <2>5. \A s \in Songs : source'[s] > 1 => source[s] > 1 \/ s \in Unknown'
    BY <2>2, <2>3
  <2> QED BY <1>1, <2>2, <2>4, <2>5, OwnerStays
<1>3. CASE source' = source
  BY <1>1, <1>3, OwnerStays DEF Held
<1> QED BY <1>2, <1>3 DEF Resends, ImportAddResent, CopyResent

LEMMA OwnerNext == OwnerInv /\ TypedInv /\ SeenInv /\ [Next]_vars => OwnerInv'
<1> SUFFICES ASSUME OwnerInv, TypedInv, SeenInv, [Next]_vars PROVE OwnerInv'
  OBVIOUS
<1> USE DEF provVars, playVars, tickVars
<1>1. CASE UNCHANGED vars
  BY <1>1, OwnerStays DEF vars, history, addVars, Longer, Held
<1>2. CASE Next
  <2>1. Longer
    BY <1>2, HistoryGrows
  <2>2. ASSUME UNCHANGED <<source, pc, tick>> PROVE OwnerInv'
    BY <2>1, <2>2, OwnerStays DEF Held
  <2>3. ASSUME NEW s \in OwnerSongs, OwnerAddsOrRemoves(s) PROVE OwnerInv'
    <3>1. UNCHANGED <<pc, tick>> /\ source' = [source EXCEPT ![s] = IF @ = 0 THEN 1 ELSE 0]
      BY <2>3 DEF OwnerAddsOrRemoves
    <3>2. source \in [Songs -> 0..MaxCopies] /\ s \in Songs
      BY SongsAssumption DEF TypedInv, PlaylistsTyped
    <3>3. PICK v \in {0, 1} : source' = [source EXCEPT ![s] = v]
      BY <3>1
    <3>4. \A u \in Songs : source'[u] > 1 => source[u] > 1
      <4>1. ASSUME NEW u \in Songs, source'[u] > 1 PROVE source[u] > 1
        <5>1. u # s
          BY <3>2, <3>3, <4>1
        <5> QED BY <3>2, <3>3, <4>1, <5>1
      <4> QED BY <4>1
    <3>5. pc # "idle" => Held(source)' \subseteq Held(source) \cup Unknown'
      <4>1. ASSUME NEW u \in Songs, source'[u] > 0, ~(source[u] > 0), pc # "idle" PROVE u \in Unknown'
        <5>1. u = s /\ source[s] = 0
          BY <3>2, <3>3, <4>1 DEF MaxCopies
        <5>2. ownAdds' = [ownAdds EXCEPT ![0] = @ \cup {s}]
          BY <2>3, <4>1, <5>1 DEF OwnerAddsOrRemoves
        <5>3. s \in ownAdds'[0]
          BY <5>2 DEF TypedInv, Histories
        <5> QED BY <5>1, <5>3 DEF Unknown
      <4> QED BY <4>1 DEF Held
    <3> QED BY <2>1, <3>1, <3>4, <3>5, OwnerStays
  <2>4. ASSUME NEW i \in Subs, NEW s \in Songs, SubscriberAddsOrRemoves(i, s) PROVE OwnerInv'
    BY <2>2, <2>4 DEF SubscriberAddsOrRemoves
  <2>5. ASSUME \/ \E m \in Modes : SetMode(m)
               \/ \E r \in BOOLEAN : SetRevoked(r)
               \/ \E i \in Subs : Unsubscribe(i) \/ ImportBegin(i) \/ ImportThrows(i) \/ ImportStep(i)
               \/ Clock
        PROVE  OwnerInv'
    BY <2>2, <2>5 DEF SetMode, SetRevoked, Unsubscribe, ImportBegin, ImportThrows, ImportStep,
       ImportOpen, ImportAdd, ImportEnd, Clock
  <2>6. CASE People
    BY <2>3, <2>4, <2>5, <2>6 DEF People
  <2>7. CASE Tick
    <3>1. /\ tick'.added = {} /\ tick'.tracks = {} /\ source' = source
          /\ pc' \in {"idle", "snapshot", "list"}
      BY <2>7 DEF Tick, IdleTick
    <3> QED BY <2>1, <3>1, OwnerRests
  <2>8. CASE Restart \/ TickFails \/ PlanNextPoll
    <3>1. /\ tick'.added = {} /\ tick'.tracks = {} /\ source' = source
          /\ pc' \in {"idle", "snapshot", "list"}
      BY <2>8 DEF Restart, TickFails, PlanNextPoll, IdleTick
    <3> QED BY <2>1, <3>1, OwnerRests
  <2>9. CASE TickStep
    BY <2>1, <2>8, <2>9, OwnerReads, OwnerLeavesRow, OwnerBackBegins, OwnerSongBack, OwnerCopies
       DEF TickStep
  <2>10. CASE Fault
    BY <2>1, <2>5, <2>8, <2>10, OwnerLeavesRow, OwnerResent, OwnerSongBack, OwnerCopies
       DEF Fault, Resends
  <2> QED BY <1>2, <2>5, <2>6, <2>7, <2>9, <2>10 DEF Next
<1> QED BY <1>1, <1>2

\* syncImportBackToSource adds to the owner's playlist no song that is there,
\* whichever subscriber it comes from and whatever failed before, unless it comes
\* back as an echo, the owner adds it at that very moment, the pass that had
\* just added it failed and the next one works from the listing made before, or
\* a request that had added it was answered with an error and sent again.
THEOREM OwnerGetsNoDoubles == Spec => []OwnerListNotDoubled
<1>1. Spec => []SeenInv
  BY SeenInit, SeenNext, PTL DEF Spec
<1>2. Spec => [](TypedInv /\ SeenInv)
  BY <1>1, TypedInit, TypedNext, PTL DEF Spec
<1>3. OwnerInv => OwnerListNotDoubled
  BY DEF OwnerInv, Unknown, OwnerListNotDoubled
<1> QED BY <1>2, <1>3, OwnerInit, OwnerNext, PTL DEF Spec

-----------------------------------------------------------------------------
(* No copy is doubled. *)

Matches(i, songs) == {Match[i][s] : s \in songs}

\* What subscriber i's playlist p holds is their own, or ledger and history say
\* where it came from.
Accounted(i, p, ledger) ==
  Held(copy[i][p]) \subseteq own[i] \cup Matches(i, ledger \cup leftOut[i] \cup unrecorded[i] \cup resent[i])

\* The playlists somebody knows of.
KnownOf(i) == {0, row[i].playlist, tick.rows[i].playlist, call[i].playlist}

\* A playlist is empty until it is made, and nobody knows of it.
Fresh ==
  \A i \in Subs :
    /\ \A p \in Playlists : p > made[i] => Held(copy[i][p]) = {}
    /\ \A p \in KnownOf(i) : p <= made[i]

Single(i) ==
  \A p \in Playlists : \A m \in Songs : copy[i][p][m] > 1 =>
    m \in Matches(i, again[i] \cup resent[i]) \cup ownAdds[i]

\* The row's ledger, or what a tick that is adding to the copy makes of it.
LedgerOf(i) == IF pc = "copy" /\ tick.n = i THEN tick.rows[i].ledger ELSE row[i].ledger

\* It accounts for the copy.
RowAccounts(i) ==
  Subscribed(i) /\ call[i].at \notin {"add", "end"} => Accounted(i, row[i].playlist, LedgerOf(i))

\* So does an import's; and the row it began with accounts for all but what it
\* is going to report.
CallAccounts(i) ==
  /\ call[i].at \in {"add", "end"} =>
       /\ Accounted(i, call[i].playlist, call[i].ledger)
       /\ Subscribed(i) =>
            /\ row[i].playlist = call[i].playlist
            /\ call[i].ledger \subseteq row[i].ledger \cup Matchable(i, call[i].listed)
  /\ call[i].at = "add" =>
       /\ call[i].todo \cap call[i].ledger = {}
       /\ call[i].todo \subseteq Matchable(i, call[i].listed)

\* The tick knows where the copy is.
TickKnows(i) == Subscribed(i) /\ pc # "idle" => row[i].playlist = tick.rows[i].playlist

\* And what is in the copy it is adding to.
Here(i) ==
  pc = "copy" /\ tick.n = i =>
    Held(copy[i][tick.rows[i].playlist]) \subseteq
      tick.here \cup ownAdds[i] \cup Matches(i, resent[i])

Alone(i) == Single(i) /\ RowAccounts(i) /\ CallAccounts(i) /\ TickKnows(i) /\ Here(i)

DoublesInv == Fresh /\ \A i \in Subs : ~disturbed[i] => Alone(i)

-----------------------------------------------------------------------------
\* Every playlist is a number, and so is how many there are.
LEMMA PlaylistsAreNumbers ==
  ASSUME TypedInv, NEW i \in Subs
  PROVE  /\ made[i] \in Nat /\ KnownOf(i) \subseteq 0..MaxImports + 1
         /\ Playlists = (0..MaxImports + 1) \ {0}
         /\ Subscribed(i) <=> row[i].playlist # 0
<1>1. CallTyped(i)
  BY DEF TypedInv, CallsTyped
<1>2. row[i] \in GoodRow /\ tick.rows[i] \in GoodRow
  BY DEF TypedInv, TickTyped
<1>3. /\ row[i].playlist \in 0..MaxImports + 1 /\ tick.rows[i].playlist \in 0..MaxImports + 1
      /\ row[i].status = "none" <=> row[i].playlist = 0
  BY <1>2, RowFields
<1>4. made[i] \in Nat /\ call[i].playlist \in 0..MaxImports + 1
  BY <1>1 DEF CallTyped
<1>5. 0 \in 0..MaxImports + 1 /\ Playlists = (0..MaxImports + 1) \ {0}
  BY BoundsAssumption DEF Playlists
<1> QED BY <1>3, <1>4, <1>5 DEF KnownOf, Subscribed

\* Where the copies are stays as the tick has read it.
LEMMA TickKeepsPlaylists ==
  ASSUME SeenInv, NEW i \in Subs,
         TickStep \/ ImportFails \/ \E s \in Songs : BackRefused(s) \/ CopyRefused(s)
  PROVE  IF pc' = "idle" THEN tick' = IdleTick
         ELSE tick'.rows[i].playlist = tick.rows[i].playlist
<1>1. IsTick(tick)
  BY DEF SeenInv, Shape
<1>2. CASE ReadSnapshot \/ ListSource \/ ReadRecipient \/ ListSourceLate
  <2>1. CASE ReadSnapshot
    BY <1>1, <2>1 DEF ReadSnapshot, IsTick, ToRecipients
  <2>2. CASE ListSource
    BY <1>1, <2>2 DEF ListSource, IsTick, ToRecipients
  <2>3. CASE ReadRecipient
    <3>1. PICK h : h = SnapshotOf(tick.n, copy[tick.n][tick.rows[tick.n].playlist])
      OBVIOUS
    <3>2. tick' = [tick EXCEPT !.heard[tick.n] = h, !.n = FirstAfter(tick.n)] /\ pc' # "idle"
      BY <2>3, <3>1 DEF ReadRecipient
    <3>3. PICK H : H = [tick.heard EXCEPT ![tick.n] = h]
      OBVIOUS
    <3>4. tick' = [tick EXCEPT !.heard = H, !.n = FirstAfter(tick.n)]
      BY <1>1, <3>2, <3>3 DEF IsTick
    <3> QED BY <1>1, <3>2, <3>4 DEF IsTick
  <2>4. CASE ListSourceLate
    BY <1>1, <2>4 DEF ListSourceLate, IsTick
  <2> QED BY <1>2, <2>1, <2>2, <2>3, <2>4
<1>3. CASE StoreSnapshot
  <2>1. \/ tick' = [tick EXCEPT !.n = FirstAfter(0)] /\ pc' = "prepare"
        \/ tick' = IdleTick /\ pc' = "idle"
    BY <1>3 DEF StoreSnapshot
  <2> QED BY <1>1, <2>1 DEF IsTick
<1>4. CASE SkipImport \/ PrepareForward \/ EndBack \/ SaveRow \/ ImportFails
  BY <1>4, RowLeft
<1>5. CASE StartBack
  <2>1. pc' = "back"
    BY <1>5 DEF StartBack
  <2> QED BY <1>5, <2>1, BackBegins DEF SameReading, SameRows
<1>6. CASE StartForward
  <2>1. pc' = "copy"
    BY <1>6 DEF StartForward
  <2> QED BY <1>6, <2>1, ForwardBegins DEF SameReading, SameRows
<1>7. ASSUME NEW s \in Songs, BackOne(s) \/ BackRefused(s) \/ CopyOne(s) \/ CopyRefused(s)
      PROVE  pc' # "idle" /\ tick'.rows[i].playlist = tick.rows[i].playlist
  <2>1. pc' # "idle"
    BY <1>7, AtOne DEF BackOne, BackRefused, CopyOne, CopyRefused
  <2> QED BY <1>7, <2>1, SongBack, SongCopied DEF SameReading, SameRows
<1>8. CASE PlanNextPoll
  BY <1>8 DEF PlanNextPoll
<1> QED BY <1>2, <1>3, <1>4, <1>5, <1>6, <1>7, <1>8 DEF TickStep

\* What a tick writes of a row: the ledger it has of it, or the row's own.
LEMMA RowWritten ==
  ASSUME SeenInv, SkipImport \/ SaveRow \/ ImportFails, NEW i \in Subs
  PROVE  \/ row'[i] = row[i]
         \/ /\ i = tick.n /\ Subscribed(i) /\ (SkipImport \/ ImportFails)
            /\ row'[i].playlist = row[i].playlist /\ row'[i].ledger = row[i].ledger
         \/ /\ i = tick.n /\ Subscribed(i) /\ SaveRow
            /\ row'[i].playlist = tick.rows[i].playlist /\ row'[i].ledger = tick.rows[i].ledger
<1> DEFINE n == tick.n
<1>1. n \in Subs /\ IsRow(row[n]) /\ row = [j \in Subs |-> row[j]]
  BY AtOne DEF SkipImport, SaveRow, ImportFails
<1>2. ASSUME NEW new, UpdateRow(n, new), row'[i] # row[i]
      PROVE  i = n /\ Subscribed(i) /\ row'[i] = new
  BY <1>1, <1>2, Updated
<1>3. CASE SkipImport
  <2>1. PICK new : new = [row[n] EXCEPT !.snapshot = Snapshot(n), !.status = "completed", !.error = FALSE]
    OBVIOUS
  <2>2. UpdateRow(n, new)
    BY <1>3, <2>1 DEF SkipImport
  <2>3. new.playlist = row[n].playlist /\ new.ledger = row[n].ledger
    <3> HIDE DEF n
    <3> QED BY <1>1, <2>1 DEF IsRow
  <2> QED BY <1>2, <1>3, <2>2, <2>3
<1>4. CASE ImportFails
  <2>1. PICK new : new = Failed(row[n])
    OBVIOUS
  <2>2. UpdateRow(n, new)
    BY <1>4, <2>1 DEF ImportFails
  <2>3. new.playlist = row[n].playlist /\ new.ledger = row[n].ledger
    <3> HIDE DEF n
    <3> QED BY <1>1, <2>1 DEF IsRow, Failed
  <2> QED BY <1>2, <1>4, <2>2, <2>3
<1>5. CASE SaveRow
  <2>1. PICK new : new = [status |-> "completed", playlist |-> tick.rows[n].playlist,
                          ledger |-> tick.rows[n].ledger, back |-> tick.rows[n].back,
                          snapshot |-> Snapshot(n), error |-> FALSE, ran |-> TRUE]
    OBVIOUS
  <2>2. UpdateRow(n, new)
    BY <1>5, <2>1 DEF SaveRow
  <2>3. new.playlist = tick.rows[n].playlist /\ new.ledger = tick.rows[n].ledger
    BY <2>1
  <2> QED BY <1>2, <1>5, <2>2, <2>3
<1> QED BY <1>3, <1>4, <1>5

-----------------------------------------------------------------------------
\* Nobody learns of a playlist but from somebody who knows of it, and only
\* those are written to.
LEMMA FreshStays ==
  ASSUME TypedInv, Fresh, UNCHANGED made,
         \A i \in Subs : KnownOf(i)' \subseteq KnownOf(i),
         \A i \in Subs : \A p \in Playlists : copy'[i][p] = copy[i][p] \/ p \in KnownOf(i)
  PROVE  Fresh'
<1> SUFFICES ASSUME NEW i \in Subs
             PROVE  /\ \A p \in Playlists : p > made[i] => Held(copy'[i][p]) = {}
                    /\ \A p \in KnownOf(i)' : p <= made[i]
  BY DEF Fresh
<1>1. ASSUME NEW p \in Playlists, p > made[i] PROVE Held(copy'[i][p]) = {}
  <2>1. made[i] \in Nat /\ p \in Nat
    BY PlaylistsAreNumbers, BoundsAssumption DEF Playlists
  <2>2. p \notin KnownOf(i)
    BY <1>1, <2>1 DEF Fresh
  <2> QED BY <1>1, <2>2 DEF Fresh
<1> QED BY <1>1 DEF Fresh

\* A copy is changed only where somebody knows of it.
LEMMA CopyWritten ==
  ASSUME TypedInv, SeenInv, Next, NEW i \in Subs, NEW p \in Playlists
  PROVE  copy'[i][p] = copy[i][p] \/ p \in KnownOf(i)
<1> USE DEF provVars, playVars
<1>0. copy \in [Subs -> [Playlists -> [Songs -> 0..MaxCopies]]]
  BY DEF TypedInv, PlaylistsTyped
<1>1. ASSUME UNCHANGED copy PROVE copy'[i][p] = copy[i][p]
  BY <1>1
<1>2. ASSUME NEW j \in Subs, NEW q, NEW new, copy' = [copy EXCEPT ![j][q] = new],
             q \in KnownOf(j)
      PROVE  copy'[i][p] = copy[i][p] \/ p \in KnownOf(i)
  BY <1>0, <1>2
<1>3. ASSUME NEW j \in Subs, NEW s \in Songs, SubscriberAddsOrRemoves(j, s)
      PROVE  copy'[i][p] = copy[i][p] \/ p \in KnownOf(i)
  <2>1. copy' = [copy EXCEPT ![j][row[j].playlist][s] = IF @ = 0 THEN 1 ELSE 0]
    BY <1>3 DEF SubscriberAddsOrRemoves
  <2>2. PICK new : copy' = [copy EXCEPT ![j][row[j].playlist] = new]
    BY <2>1
  <2> QED BY <1>2, <2>2 DEF KnownOf
<1>4. ASSUME NEW j \in Subs, ImportAdd(j)
      PROVE  copy'[i][p] = copy[i][p] \/ p \in KnownOf(i)
  <2>1. PICK new : copy' = [copy EXCEPT ![j][call[j].playlist] = new]
    BY <1>4 DEF ImportAdd
  <2> QED BY <1>2, <2>1 DEF KnownOf
<1>5. ASSUME NEW s \in Songs, CopyOne(s)
      PROVE  copy'[i][p] = copy[i][p] \/ p \in KnownOf(i)
  <2>1. tick.n \in Subs
    BY <1>5, AtOne DEF CopyOne
  <2>2. copy' = copy \/ copy' = [copy EXCEPT ![tick.n][tick.rows[tick.n].playlist] =
                                   PlusOne(@, {Match[tick.n][s]})]
    BY <1>5 DEF CopyOne
  <2>3. copy' = copy \/ \E new : copy' = [copy EXCEPT ![tick.n][tick.rows[tick.n].playlist] = new]
    BY <2>2
  <2> QED BY <1>2, <2>1, <2>3 DEF KnownOf
<1>10. CASE Resends
  <2>1. ASSUME NEW j \in Subs, ImportAddResent(j)
        PROVE  copy'[i][p] = copy[i][p] \/ p \in KnownOf(i)
    <3>1. PICK new : copy' = [copy EXCEPT ![j][call[j].playlist] = new]
      BY <2>1 DEF ImportAddResent
    <3> QED BY <1>2, <3>1 DEF KnownOf
  <2>2. ASSUME NEW s \in Songs, CopyResent(s)
        PROVE  copy'[i][p] = copy[i][p] \/ p \in KnownOf(i)
    <3>1. tick.n \in Subs
      BY <2>2, AtOne DEF CopyResent
    <3>2. PICK new : copy' = [copy EXCEPT ![tick.n][tick.rows[tick.n].playlist] = new]
      BY <2>2 DEF CopyResent
    <3> QED BY <1>2, <3>1, <3>2 DEF KnownOf
  <2> QED BY <1>1, <1>10, <2>1, <2>2 DEF Resends, BackResent
<1>6. CASE People
  BY <1>1, <1>3, <1>6 DEF People, OwnerAddsOrRemoves, SetMode, SetRevoked, Unsubscribe, ImportBegin
<1>7. CASE TickStep
  BY <1>1, <1>5, <1>7 DEF TickStep, ReadSnapshot, ListSource, ReadRecipient, ListSourceLate,
     StoreSnapshot, SkipImport, PrepareForward, StartBack, EndBack, StartForward, SaveRow,
     PlanNextPoll, BackOne
<1>8. CASE Tick \/ Clock \/ Fault
  BY <1>1, <1>8, <1>10 DEF Tick, Clock, Fault, TickFails, ImportFails, Restart, ImportThrows,
     Resends, BackRefused, CopyRefused
<1>9. ASSUME NEW j \in Subs, ImportStep(j)
      PROVE  copy'[i][p] = copy[i][p] \/ p \in KnownOf(i)
  BY <1>1, <1>4, <1>9 DEF ImportStep, ImportOpen, ImportEnd
<1> QED BY <1>6, <1>7, <1>8, <1>9 DEF Next

\* But for an import that makes one, nobody learns of another playlist.
LEMMA LearntOf ==
  ASSUME TypedInv, SeenInv, Next, NEW i \in Subs, ~ImportOpen(i)
  PROVE  KnownOf(i)' \subseteq KnownOf(i)
<1> USE DEF KnownOf
<1>0. /\ row = [j \in Subs |-> row[j]] /\ call = [j \in Subs |-> call[j]]
      /\ IsCall(call[i])
  BY DEF SeenInv, Shape
<1>1. ASSUME UNCHANGED <<row, tick, call>> PROVE KnownOf(i)' \subseteq KnownOf(i)
  BY <1>1
<1>2. IdleTick.rows[i].playlist = 0 /\ NoRow.playlist = 0 /\ IdleCall.playlist = 0
  BY DEF IdleTick, NoRow, IdleCall
<1>3. CASE People
  <2>1. ASSUME NEW j \in Subs, Unsubscribe(j) PROVE KnownOf(i)' \subseteq KnownOf(i)
    <3>1. row'[i] \in {row[i], NoRow} /\ UNCHANGED <<tick, call>>
      BY <1>0, <2>1 DEF Unsubscribe, tickVars
    <3> QED BY <1>2, <3>1
  <2>2. ASSUME NEW j \in Subs, ImportBegin(j) PROVE KnownOf(i)' \subseteq KnownOf(i)
    <3>1. PICK new : /\ new = [IdleCall EXCEPT !.at = "open", !.listed = Held(source)]
                     /\ call' = [call EXCEPT ![j] = new] /\ UNCHANGED <<tick, row>>
      BY <2>2 DEF ImportBegin, tickVars
    <3>2. new.playlist = 0
      BY <3>1 DEF IdleCall
    <3>3. call'[i] \in {call[i], new}
      BY <1>0, <3>1
    <3> QED BY <3>1, <3>2, <3>3
  <2> QED BY <1>1, <1>3, <2>1, <2>2 DEF People, OwnerAddsOrRemoves, SubscriberAddsOrRemoves,
       SetMode, SetRevoked, tickVars
<1>4. CASE Tick
  <2>1. tick'.rows = row /\ UNCHANGED <<row, call>>
    BY <1>4 DEF Tick, IdleTick
  <2> QED BY <2>1
<1>12. CASE Resends
  BY <1>1, <1>12, ResendsTouch DEF SeenInv, OnlyPlaylists
<1>13. ASSUME NEW s \in Songs, BackRefused(s) \/ CopyRefused(s) PROVE KnownOf(i)' \subseteq KnownOf(i)
  <2>1. tick'.rows[i].playlist \in {0, tick.rows[i].playlist}
    BY <1>2, <1>13, TickKeepsPlaylists
  <2>2. call' = call /\ row' = row
    BY <1>13 DEF BackRefused, CopyRefused
  <2> QED BY <2>1, <2>2
<1>5. CASE TickStep \/ ImportFails
  <2>1. tick'.rows[i].playlist \in {0, tick.rows[i].playlist}
    BY <1>2, <1>5, TickKeepsPlaylists
  <2>2. call' = call
    BY <1>5 DEF TickStep, ReadSnapshot, ListSource, ReadRecipient, ListSourceLate,
       StoreSnapshot, SkipImport, PrepareForward, StartBack, EndBack, StartForward, SaveRow,
       PlanNextPoll, BackOne, CopyOne, ImportFails
  <2>3. CASE SkipImport \/ SaveRow \/ ImportFails
    BY <2>1, <2>2, <2>3, RowWritten
  <2>4. CASE ~(SkipImport \/ SaveRow \/ ImportFails)
    <3>1. row' = row
      BY <1>5, <2>4 DEF TickStep, ReadSnapshot, ListSource, ReadRecipient, ListSourceLate,
         StoreSnapshot, PrepareForward, StartBack, EndBack, StartForward, PlanNextPoll,
         BackOne, CopyOne
    <3> QED BY <2>1, <2>2, <3>1
  <2> QED BY <2>3, <2>4
<1>6. CASE TickFails \/ Restart
  <2>1. /\ tick' = IdleTick /\ row' = row
        /\ call'[i] \in {call[i], IdleCall}
    BY <1>6 DEF TickFails, Restart
  <2> QED BY <1>2, <2>1
<1>7. CASE Clock
  BY <1>1, <1>7 DEF Clock, tickVars
<1>8. ASSUME NEW j \in Subs, ImportThrows(j) PROVE KnownOf(i)' \subseteq KnownOf(i)
  <2>1. call'[i] \in {call[i], IdleCall} /\ UNCHANGED <<tick, row>>
    BY <1>0, <1>8 DEF ImportThrows, tickVars
  <2> QED BY <1>2, <2>1
<1>9. ASSUME NEW j \in Subs, ImportOpen(j) PROVE KnownOf(i)' \subseteq KnownOf(i)
  <2>1. j # i
    BY <1>9
  <2>2. /\ call'[i] = call[i] /\ row'[i] = row[i] /\ tick' = tick
    <3>1. PICK at, p, ledger, todo :
            call' = [call EXCEPT ![j].at = at, ![j].playlist = p, ![j].ledger = ledger, ![j].todo = todo]
      BY <1>9 DEF ImportOpen
    <3>2. tick' = tick
      BY <1>9 DEF ImportOpen, tickVars
    <3>3. row' = row \/ \E q : row' = [row EXCEPT ![j].status = "pending", ![j].playlist = q]
      BY <1>9 DEF ImportOpen
    <3> QED BY <1>0, <2>1, <3>1, <3>2, <3>3
  <2> QED BY <2>2
<1>10. ASSUME NEW j \in Subs, ImportAdd(j) PROVE KnownOf(i)' \subseteq KnownOf(i)
  <2>1. PICK got : call' = [call EXCEPT ![j].at = "end", ![j].ledger = @ \cup got]
    BY <1>10 DEF ImportAdd
  <2>2. call'[i] = call[i] \/ call'[i] = [call[i] EXCEPT !.at = "end", !.ledger = @ \cup got]
    BY <1>0, <2>1
  <2>3. call'[i].playlist = call[i].playlist
    BY <1>0, <2>2 DEF IsCall
  <2>4. UNCHANGED <<row, tick>>
    BY <1>10 DEF ImportAdd, tickVars
  <2> QED BY <2>3, <2>4
<1>11. ASSUME NEW j \in Subs, ImportEnd(j) PROVE KnownOf(i)' \subseteq KnownOf(i)
  <2>1. PICK new : /\ new = [row[j] EXCEPT !.status = "completed", !.playlist = call[j].playlist,
                             !.ledger = call[j].ledger, !.back = call[j].ledger,
                             !.error = FALSE, !.ran = TRUE]
                   /\ row' = [row EXCEPT ![j] = new]
    BY <1>11 DEF ImportEnd
  <2>2. new.playlist = call[j].playlist
    <3>1. IsRow(row[j])
      BY DEF SeenInv, Shape
    <3> QED BY <2>1, <3>1 DEF IsRow
  <2>3. row'[i] = row[i] \/ (i = j /\ row'[i] = new)
    BY <1>0, <2>1
  <2>4. call'[i] \in {call[i], IdleCall} /\ tick' = tick
    BY <1>0, <1>11 DEF ImportEnd, tickVars
  <2> QED BY <1>2, <2>2, <2>3, <2>4
<1> QED BY <1>3, <1>4, <1>5, <1>6, <1>7, <1>8, <1>9, <1>10, <1>11, <1>12, <1>13
       DEF Next, Fault, ImportStep, Resends

LEMMA FreshNext == Fresh /\ TypedInv /\ SeenInv /\ Next => Fresh'
<1> SUFFICES ASSUME Fresh, TypedInv, SeenInv, Next PROVE Fresh'
  OBVIOUS
<1>1. CASE \E i \in Subs : ImportOpen(i)
  <2>1. PICK i \in Subs : ImportOpen(i)
    BY <1>1
  <2>2. PICK p : p = IF row[i].playlist = 0 THEN made[i] + 1 ELSE row[i].playlist
    OBVIOUS
  <2>3. /\ made = [j \in Subs |-> made[j]] /\ row = [j \in Subs |-> row[j]]
        /\ call = [j \in Subs |-> call[j]]
        /\ IsRow(row[i]) /\ IsCall(call[i])
    BY DEF TypedInv, CallsTyped, SeenInv, Shape
  <2>4. copy' = copy /\ tick' = tick
    BY <2>1 DEF ImportOpen, playVars, tickVars
  <2>5. call'[i].playlist = p /\ \A j \in Subs \ {i} : call'[j] = call[j]
    <3>1. PICK ledger, todo : call' = [call EXCEPT ![i].at = "add", ![i].playlist = p,
                                                   ![i].ledger = ledger, ![i].todo = todo]
      BY <2>1, <2>2 DEF ImportOpen
    <3>2. call'[i] = [call[i] EXCEPT !.at = "add", !.playlist = p, !.ledger = ledger, !.todo = todo]
      BY <2>3, <3>1
    <3> QED BY <2>3, <3>1, <3>2 DEF IsCall
  <2>6. CASE row[i].playlist = 0
    <3>1. /\ made' = [made EXCEPT ![i] = p] /\ p = made[i] + 1
          /\ row' = [row EXCEPT ![i].status = "pending", ![i].playlist = p]
      BY <2>1, <2>2, <2>6 DEF ImportOpen
    <3>2. /\ made'[i] = p /\ \A j \in Subs \ {i} : made'[j] = made[j]
          /\ \A j \in Subs \ {i} : row'[j] = row[j]
      BY <2>3, <3>1
    <3>3. row'[i].playlist = p
      <4>1. row'[i] = [row[i] EXCEPT !.status = "pending", !.playlist = p]
        BY <2>3, <3>1
      <4> QED BY <2>3, <4>1 DEF IsRow
    <3>4. ASSUME NEW j \in Subs, j # i
          PROVE  /\ \A q \in Playlists : q > made'[j] => Held(copy'[j][q]) = {}
                 /\ \A q \in KnownOf(j)' : q <= made'[j]
      BY <2>4, <2>5, <3>2, <3>4 DEF Fresh, KnownOf
    <3>5. made[i] \in Nat
      BY PlaylistsAreNumbers
    <3>6. ASSUME NEW q \in Playlists, q > made'[i] PROVE Held(copy'[i][q]) = {}
      <4>1. q > made[i]
        BY <3>1, <3>2, <3>5, <3>6, BoundsAssumption DEF Playlists
      <4> QED BY <2>4, <4>1 DEF Fresh
    <3>7. \A q \in KnownOf(i)' : q \in KnownOf(i) \/ q = p
      BY <2>4, <2>5, <3>3 DEF KnownOf
    <3>8. ASSUME NEW q \in KnownOf(i)' PROVE q <= made'[i]
      <4>1. CASE q = p
        BY <3>1, <3>2, <3>5, <4>1
      <4>2. CASE q \in KnownOf(i)
        <5>1. q \in Nat /\ q <= made[i]
          BY <4>2, PlaylistsAreNumbers, BoundsAssumption DEF Fresh
        <5> QED BY <3>1, <3>2, <3>5, <5>1
      <4> QED BY <3>7, <4>1, <4>2
    <3> QED BY <3>4, <3>6, <3>8 DEF Fresh
  <2>7. CASE row[i].playlist # 0
    <3>1. UNCHANGED <<made, row>>
      BY <2>1, <2>7 DEF ImportOpen
    <3>2. \A j \in Subs : KnownOf(j)' \subseteq KnownOf(j)
      BY <2>2, <2>4, <2>5, <2>7, <3>1 DEF KnownOf
    <3> QED BY <2>4, <3>1, <3>2, FreshStays
  <2> QED BY <2>6, <2>7
<1>2. CASE ~\E i \in Subs : ImportOpen(i)
  <2>1. made' = made
    <3> USE DEF provVars, counters
    <3>1. CASE People
      BY <3>1 DEF People, OwnerAddsOrRemoves, SubscriberAddsOrRemoves, SetMode, SetRevoked,
         Unsubscribe, ImportBegin
    <3>2. CASE TickStep
      BY <3>2 DEF TickStep, ReadSnapshot, ListSource, ReadRecipient, ListSourceLate,
         StoreSnapshot, SkipImport, PrepareForward, StartBack, EndBack, StartForward, SaveRow,
         PlanNextPoll, BackOne, CopyOne
    <3>3. CASE Tick \/ Clock \/ Fault \/ \E i \in Subs : ImportStep(i)
      BY <1>2, <3>3 DEF Tick, Clock, Fault, TickFails, ImportFails, Restart, ImportThrows,
         ImportStep, ImportAdd, ImportEnd, ImportAddResent, BackResent, CopyResent, BackRefused,
         CopyRefused
    <3> QED BY <3>1, <3>2, <3>3 DEF Next
  <2> QED BY <1>2, <2>1, CopyWritten, LearntOf, FreshStays
<1> QED BY <1>1, <1>2

-----------------------------------------------------------------------------
\* Songs that are accounted for stay so, whoever else brings some that are.
LEMMA AccountedGrows ==
  ASSUME NEW i \in Subs, Longer, NEW p, NEW ledger, NEW more, NEW held, Accounted(i, p, ledger),
         ledger \subseteq more \cup leftOut'[i] \cup unrecorded'[i] \cup resent'[i],
         held \subseteq Held(copy[i][p]) \cup own'[i]
           \cup Matches(i, more \cup leftOut'[i] \cup unrecorded'[i] \cup resent'[i])
  PROVE  held \subseteq own'[i] \cup Matches(i, more \cup leftOut'[i] \cup unrecorded'[i] \cup resent'[i])
<1>1. ledger \cup leftOut[i] \cup unrecorded[i] \cup resent[i] \subseteq more \cup leftOut'[i] \cup unrecorded'[i] \cup resent'[i]
  BY DEF Longer
<1>2. own[i] \subseteq own'[i]
  BY DEF Longer
<1> QED BY <1>1, <1>2 DEF Accounted, Matches

\* The playlists that are looked into are playlists.
LEMMA LookedInto ==
  ASSUME TypedInv, SeenInv, NEW i \in Subs
  PROVE  /\ Subscribed(i) => row[i].playlist \in Playlists
         /\ call[i].at \in {"add", "end"} => call[i].playlist \in Playlists
         /\ i \in Listed => tick.rows[i].playlist \in Playlists
<1>1. call[i].at \in {"add", "end"} => call[i].playlist # 0
  BY DEF TypedInv, CallsTyped, CallTyped
<1>2. i \in Listed => tick.rows[i].playlist # 0
  <2>1. tick.rows[i] \in GoodRow
    BY DEF TypedInv, TickTyped
  <2> QED BY <2>1, RowFields DEF Listed
<1> QED BY <1>1, <1>2, PlaylistsAreNumbers DEF KnownOf

\* An import of a row that nothing disturbed has no tick beside it.
LEMMA ImportsAlone ==
  ASSUME SeenInv, NEW i \in Subs, ~disturbed[i], call[i].at # "idle" \/ pc # "idle"
  PROVE  IF pc = "idle" THEN call[i].at \in {"open", "add", "end"} ELSE call[i].at = "idle"
  BY DEF SeenInv, Importing

\* Nothing happens to the subscriber's row, but for what they put into the copy
\* themselves, and the tick stands still.
LEMMA AloneStays ==
  ASSUME TypedInv, SeenInv, NEW i \in Subs, Longer, Alone(i), pc' = pc, pc # "idle" => tick' = tick,
         row'[i] = row[i] \/ ~Subscribed(i)',
         \/ call'[i] = call[i]
         \/ call[i].at \notin {"add", "end"} /\ call'[i].at \notin {"add", "end"},
         \A p \in Playlists :
           /\ \A m \in Songs :
                copy'[i][p][m] > 1 => copy[i][p][m] > 1 \/ m \in Matches(i, resent'[i])
           /\ Held(copy'[i][p]) \subseteq Held(copy[i][p]) \cup own'[i] \cup Matches(i, resent'[i])
           /\ pc # "idle" => Held(copy'[i][p]) \subseteq
                Held(copy[i][p]) \cup ownAdds'[i] \cup Matches(i, resent'[i])
  PROVE  Alone(i)'
<1>0. Matches(i, resent'[i]) \subseteq Matches(i, again'[i] \cup resent'[i])
  BY DEF Matches
<1>1. Single(i)'
  <2> SUFFICES ASSUME NEW q \in Playlists, NEW m \in Songs, copy'[i][q][m] > 1
               PROVE  m \in Matches(i, again'[i] \cup resent'[i]) \cup ownAdds'[i]
    BY DEF Single
  <2>1. copy[i][q][m] > 1 => m \in Matches(i, again'[i] \cup resent'[i]) \cup ownAdds'[i]
    BY DEF Alone, Single, Longer, Matches
  <2> QED BY <1>0, <2>1
<1>2. Subscribed(i)' => Subscribed(i) /\ row'[i] = row[i] /\ row[i].playlist \in Playlists
  BY LookedInto DEF Subscribed
<1>3. LedgerOf(i)' = IF row'[i] = row[i] THEN LedgerOf(i) ELSE LedgerOf(i)'
  BY DEF LedgerOf
<1>4. RowAccounts(i)'
  <2> SUFFICES ASSUME Subscribed(i)', ~(call'[i].at \in {"add", "end"})
               PROVE  Accounted(i, row[i].playlist, LedgerOf(i))'
    BY DEF RowAccounts
  <2>1. Accounted(i, row[i].playlist, LedgerOf(i))
    BY <1>2 DEF Alone, RowAccounts
  <2>2. Held(copy'[i][row[i].playlist]) \subseteq
          Held(copy[i][row[i].playlist]) \cup own'[i] \cup Matches(i, resent'[i])
    BY <1>2
  <2>3. Held(copy'[i][row[i].playlist]) \subseteq
          own'[i] \cup Matches(i, LedgerOf(i) \cup leftOut'[i] \cup unrecorded'[i] \cup resent'[i])
    <3>1. PICK ledger, p : ledger = LedgerOf(i) /\ p = row[i].playlist
      OBVIOUS
    <3>2. /\ Accounted(i, p, ledger)
          /\ Held(copy'[i][p]) \subseteq Held(copy[i][p]) \cup own'[i] \cup Matches(i, resent'[i])
      BY <2>1, <2>2, <3>1
    <3>3. Held(copy'[i][p]) \subseteq own'[i] \cup Matches(i, ledger \cup leftOut'[i] \cup unrecorded'[i] \cup resent'[i])
      <4>1. PICK held, more : held = Held(copy'[i][p]) /\ more = ledger
        OBVIOUS
      <4>2. ledger \subseteq more \cup leftOut'[i] \cup unrecorded'[i] \cup resent'[i]
        BY <4>1
      <4>3. held \subseteq Held(copy[i][p]) \cup own'[i]
              \cup Matches(i, more \cup leftOut'[i] \cup unrecorded'[i] \cup resent'[i])
        BY <3>2, <4>1 DEF Matches
      <4>4. held \subseteq own'[i] \cup Matches(i, more \cup leftOut'[i] \cup unrecorded'[i] \cup resent'[i])
        BY <3>2, <4>2, <4>3, AccountedGrows
      <4> QED BY <4>1, <4>4
    <3> QED BY <3>1, <3>3
  <2>4. row'[i].playlist = row[i].playlist /\ LedgerOf(i)' = LedgerOf(i)
    BY <1>2, <1>3
  <2> QED BY <2>3, <2>4 DEF Accounted
<1>5. CallAccounts(i)'
  <2>1. CASE call'[i].at \notin {"add", "end"}
    BY <2>1 DEF CallAccounts
  <2>2. CASE call'[i] = call[i] /\ call[i].at \in {"add", "end"}
    <3>1. Accounted(i, call[i].playlist, call[i].ledger)
      BY <2>2 DEF Alone, CallAccounts
    <3>2. call[i].playlist \in Playlists
      BY <2>2, LookedInto
    <3>3. Held(copy'[i][call[i].playlist]) \subseteq
            own'[i] \cup Matches(i, call[i].ledger \cup leftOut'[i] \cup unrecorded'[i] \cup resent'[i])
      <4>1. PICK p, ledger : p = call[i].playlist /\ ledger = call[i].ledger
        OBVIOUS
      <4>2. /\ Accounted(i, p, ledger)
            /\ Held(copy'[i][p]) \subseteq Held(copy[i][p]) \cup own'[i] \cup Matches(i, resent'[i])
        BY <3>1, <3>2, <4>1
      <4>3. Held(copy'[i][p]) \subseteq own'[i] \cup Matches(i, ledger \cup leftOut'[i] \cup unrecorded'[i] \cup resent'[i])
        <5>1. PICK held, more : held = Held(copy'[i][p]) /\ more = ledger
          OBVIOUS
        <5>2. ledger \subseteq more \cup leftOut'[i] \cup unrecorded'[i] \cup resent'[i]
          BY <5>1
        <5>3. held \subseteq Held(copy[i][p]) \cup own'[i]
                \cup Matches(i, more \cup leftOut'[i] \cup unrecorded'[i] \cup resent'[i])
          BY <4>2, <5>1 DEF Matches
        <5>4. held \subseteq own'[i] \cup Matches(i, more \cup leftOut'[i] \cup unrecorded'[i] \cup resent'[i])
          BY <4>2, <5>2, <5>3, AccountedGrows
        <5> QED BY <5>1, <5>4
      <4> QED BY <4>1, <4>3
    <3>4. Accounted(i, call[i].playlist, call[i].ledger)'
      BY <2>2, <3>3 DEF Accounted
    <3> QED BY <1>2, <2>2, <3>4 DEF Alone, CallAccounts
  <2> QED BY <2>1, <2>2
<1>6. TickKnows(i)'
  BY <1>2 DEF Alone, TickKnows
<1>7. Here(i)'
  <2> SUFFICES ASSUME pc' = "copy", tick'.n = i
               PROVE  Held(copy[i][tick.rows[i].playlist])' \subseteq
                        tick'.here \cup ownAdds'[i] \cup Matches(i, resent'[i])
    BY DEF Here
  <2>1. tick' = tick /\ i \in Listed
    BY AtOne
  <2>2. Held(copy[i][tick.rows[i].playlist]) \subseteq
          tick.here \cup ownAdds[i] \cup Matches(i, resent[i])
    BY <2>1 DEF Alone, Here
  <2>3. tick.rows[i].playlist \in Playlists
    BY <2>1, LookedInto
  <2>4. ownAdds[i] \subseteq ownAdds'[i] /\ Matches(i, resent[i]) \subseteq Matches(i, resent'[i])
    BY DEF Longer, Matches
  <2> QED BY <2>1, <2>2, <2>3, <2>4
<1> QED BY <1>1, <1>4, <1>5, <1>6, <1>7 DEF Alone

\* A tick moves on, and this copy is not the one it is adding to.
LEMMA AloneMovesOn ==
  ASSUME NEW i \in Subs, Longer, Alone(i), copy'[i] = copy[i], call'[i] = call[i],
         call[i].at = "idle", pc' # "copy" \/ tick'.n # i,
         Subscribed(i)' =>
           /\ Subscribed(i) /\ row'[i].playlist = row[i].playlist
           /\ LedgerOf(i) \subseteq row'[i].ledger \cup leftOut'[i] \cup unrecorded'[i] \cup resent'[i]
           /\ pc' # "idle" => row'[i].playlist = tick'.rows[i].playlist
  PROVE  Alone(i)'
<1>1. Single(i)'
  BY DEF Alone, Single, Longer, Matches
<1>2. RowAccounts(i)'
  <2> SUFFICES ASSUME Subscribed(i)'
               PROVE  Accounted(i, row[i].playlist, row[i].ledger)'
    BY DEF RowAccounts, LedgerOf
  <2>1. Accounted(i, row[i].playlist, LedgerOf(i))
    BY DEF Alone, RowAccounts
  <2>2. Held(copy'[i][row[i].playlist]) \subseteq
          own'[i] \cup Matches(i, row'[i].ledger \cup leftOut'[i] \cup unrecorded'[i] \cup resent'[i])
    BY <2>1, AccountedGrows
  <2> QED BY <2>2 DEF Accounted
<1>3. CallAccounts(i)' /\ TickKnows(i)' /\ Here(i)'
  BY DEF CallAccounts, TickKnows, Here
<1> QED BY <1>1, <1>2, <1>3 DEF Alone

\* An import stops: what it was to copy counts as left out.
LEMMA AloneCallEnds ==
  ASSUME SeenInv, NEW i \in Subs, Longer, Alone(i), ~disturbed[i], UNCHANGED <<row>>, copy'[i] = copy[i],
         call[i].at \in {"add", "end"}, call'[i].at = "idle", pc' = "idle",
         Matchable(i, call[i].listed) \subseteq leftOut'[i]
  PROVE  Alone(i)'
<1>1. Single(i)'
  BY DEF Alone, Single, Longer, Matches
<1>2. RowAccounts(i)'
  <2> SUFFICES ASSUME Subscribed(i)
               PROVE  Accounted(i, row[i].playlist, row[i].ledger)'
    BY DEF RowAccounts, LedgerOf, Subscribed
  <2>1. /\ Accounted(i, row[i].playlist, call[i].ledger)
        /\ call[i].ledger \subseteq row[i].ledger \cup Matchable(i, call[i].listed)
    BY DEF Alone, CallAccounts
  <2>2. Held(copy'[i][row[i].playlist]) \subseteq
          own'[i] \cup Matches(i, row[i].ledger \cup leftOut'[i] \cup unrecorded'[i] \cup resent'[i])
    <3>1. PICK p, ledger, more :
            p = row[i].playlist /\ ledger = call[i].ledger /\ more = row[i].ledger
      OBVIOUS
    <3>2. ledger \subseteq more \cup leftOut'[i] \cup unrecorded'[i] \cup resent'[i]
      BY <2>1, <3>1
    <3>3. Accounted(i, p, ledger) /\ Held(copy'[i][p]) \subseteq Held(copy[i][p]) \cup own'[i]
      BY <2>1, <3>1
    <3>4. Held(copy'[i][p]) \subseteq own'[i] \cup Matches(i, more \cup leftOut'[i] \cup unrecorded'[i] \cup resent'[i])
      BY <3>2, <3>3, AccountedGrows
    <3> QED BY <3>1, <3>4
  <2> QED BY <2>2 DEF Accounted
<1>3. CallAccounts(i)' /\ TickKnows(i)' /\ Here(i)'
  BY DEF CallAccounts, TickKnows, Here
<1> QED BY <1>1, <1>2, <1>3 DEF Alone

-----------------------------------------------------------------------------
\* Where the tick is when it takes a step: imports of a row that nothing
\* disturbed are done, and a copy is added to at one row only.
LEMMA TickSteps ==
  ASSUME SeenInv, NEW i \in Subs, ~disturbed[i],
         TickStep \/ ImportFails \/ \E s \in Songs : BackRefused(s) \/ CopyRefused(s)
  PROVE  /\ call[i].at = "idle" /\ call' = call /\ pc # "idle"
         /\ pc' = "copy" =>
              /\ StartForward \/ \E s \in Songs : CopyOne(s) \/ CopyRefused(s)
              /\ tick'.n = tick.n
<1>1. pc # "idle"
  BY DEF TickStep, ReadSnapshot, ListSource, ReadRecipient, ListSourceLate, StoreSnapshot,
     SkipImport, PrepareForward, StartBack, EndBack, StartForward, SaveRow, PlanNextPoll,
     BackOne, CopyOne, ImportFails, BackRefused, CopyRefused
<1>2. call' = call
  BY DEF TickStep, ReadSnapshot, ListSource, ReadRecipient, ListSourceLate, StoreSnapshot,
     SkipImport, PrepareForward, StartBack, EndBack, StartForward, SaveRow, PlanNextPoll,
     BackOne, CopyOne, ImportFails, BackRefused, CopyRefused
<1>3. SkipImport \/ PrepareForward \/ EndBack \/ SaveRow \/ ImportFails => pc' # "copy"
  BY RowLeft
<1>4. pc' = "copy" => StartForward \/ \E s \in Songs : CopyOne(s) \/ CopyRefused(s)
  BY <1>3 DEF TickStep, ReadSnapshot, ListSource, ReadRecipient, ListSourceLate, StoreSnapshot,
     StartBack, PlanNextPoll, BackOne, BackRefused, ToRecipients
<1> QED BY <1>1, <1>2, <1>4, ImportsAlone, ForwardBegins, SongCopied

\* Steps that read, or take back, or go on to the next row without writing this one.
LEMMA AloneReads ==
  ASSUME SeenInv, NEW i \in Subs, ~disturbed[i], Longer, Alone(i),
         TickStep \/ \E s \in Songs : BackRefused(s), UNCHANGED <<copy, row>>, pc # "copy", pc' # "copy" \/ tick'.n # i
  PROVE  Alone(i)'
<1>1. call[i].at = "idle" /\ call' = call /\ pc # "idle"
  BY TickSteps
<1>2. pc' # "idle" => tick'.rows[i].playlist = tick.rows[i].playlist
  BY TickKeepsPlaylists
<1>3. Subscribed(i)' => /\ Subscribed(i) /\ row'[i].playlist = row[i].playlist
                        /\ LedgerOf(i) \subseteq row'[i].ledger
                        /\ pc' # "idle" => row'[i].playlist = tick'.rows[i].playlist
  BY <1>1, <1>2 DEF Subscribed, LedgerOf, Alone, TickKnows
<1> QED BY <1>1, <1>3, AloneMovesOn

\* The tick writes a row, or goes on without.
LEMMA AloneLeavesRow ==
  ASSUME TypedInv, SeenInv, NEW i \in Subs, ~disturbed[i], Longer, Alone(i),
         SkipImport \/ SaveRow \/ ImportFails
  PROVE  Alone(i)'
<1>1. call[i].at = "idle" /\ call' = call /\ pc # "idle"
  BY TickSteps DEF TickStep
<1>2. pc' \in {"prepare", "forward", "plan"} /\ tick'.rows = tick.rows
  BY RowLeft
<1>3. copy' = copy
  BY DEF SkipImport, SaveRow, ImportFails, provVars, playVars
<1>4. IsRow(row[i]) /\ pc \in {"prepare", "back", "forward", "copy"}
  BY DEF SeenInv, Shape, SkipImport, SaveRow, ImportFails
<1>5. i = tick.n => Ready(i)
  BY <1>4, AtOne
<1>6. ASSUME Subscribed(i)
      PROVE  /\ row'[i].playlist = row[i].playlist
             /\ LedgerOf(i) \subseteq row'[i].ledger \cup leftOut'[i] \cup unrecorded'[i] \cup resent'[i]
  <2>1. row[i].playlist = tick.rows[i].playlist
    BY <1>1, <1>6 DEF Alone, TickKnows
  <2>2. CASE i # tick.n
    BY <2>2, RowWritten DEF LedgerOf
  <2>3. CASE i = tick.n /\ SaveRow
    <3>1. UpdateRow(i, [status |-> "completed", playlist |-> tick.rows[i].playlist,
                        ledger |-> tick.rows[i].ledger, back |-> tick.rows[i].back,
                        snapshot |-> Snapshot(i), error |-> FALSE, ran |-> TRUE])
      BY <2>3 DEF SaveRow
    <3>2. row'[i].playlist = tick.rows[i].playlist /\ row'[i].ledger = tick.rows[i].ledger
      BY <1>4, <1>6, <3>1, Updated DEF SeenInv, Shape
    <3>3. LedgerOf(i) \subseteq tick.rows[i].ledger
      BY <1>5, <1>6, <2>3 DEF LedgerOf, Ready
    <3> QED BY <2>1, <3>2, <3>3
  <2>4. CASE i = tick.n /\ SkipImport
    <3>1. ~SaveRow /\ pc = "prepare"
      BY <2>4 DEF SkipImport, SaveRow
    <3>2. row'[i].playlist = row[i].playlist /\ row'[i].ledger = row[i].ledger
      BY <3>1, RowWritten
    <3> QED BY <3>1, <3>2 DEF LedgerOf
  <2>5. CASE i = tick.n /\ ImportFails
    <3>1. UpdateRow(i, Failed(row[i]))
      BY <2>5 DEF ImportFails
    <3>2. row'[i] = Failed(row[i])
      BY <1>6, <3>1, Updated DEF SeenInv, Shape
    <3>3. row'[i].playlist = row[i].playlist /\ row'[i].ledger = row[i].ledger
      BY <1>4, <3>2 DEF IsRow, Failed
    <3>4. tick.rows[i].ledger \ row[i].ledger \subseteq unrecorded'[i]
      <4>1. unrecorded \in [Subs -> SUBSET Songs]
        BY DEF TypedInv, Histories
      <4> QED BY <2>5, <4>1 DEF ImportFails
    <3> QED BY <3>3, <3>4 DEF LedgerOf
  <2> QED BY <2>2, <2>3, <2>4, <2>5
<1>7. Subscribed(i)' => Subscribed(i)
  BY RowWritten DEF Subscribed
<1>8. Subscribed(i)' => row'[i].playlist = tick'.rows[i].playlist
  BY <1>1, <1>2, <1>6, <1>7 DEF Alone, TickKnows
<1> QED BY <1>1, <1>2, <1>3, <1>6, <1>7, <1>8, AloneMovesOn

\* Adding to this copy begins: it is listed first.
LEMMA AloneForwardBegins ==
  ASSUME SeenInv, NEW i \in Subs, ~disturbed[i], Longer, Alone(i), StartForward, tick.n = i
  PROVE  Alone(i)'
<1>1. call[i].at = "idle" /\ call' = call /\ pc # "idle"
  BY TickSteps DEF TickStep
<1>2. /\ pc = "forward" /\ pc' = "copy" /\ copy' = copy /\ row' = row
      /\ tick'.rows[i].playlist = tick.rows[i].playlist
      /\ tick.rows[i].ledger \subseteq tick'.rows[i].ledger
      /\ tick'.n = i /\ tick'.here = Held(copy[i][tick.rows[i].playlist])
  BY ForwardBegins DEF StartForward, provVars, playVars, SameReading, SameRows
<1>3. Ready(i)
  BY <1>2, AtOne
<1>4. Single(i)'
  BY <1>2 DEF Alone, Single, Longer, Matches
<1>5. RowAccounts(i)'
  <2> SUFFICES ASSUME Subscribed(i)
               PROVE  Held(copy[i][row[i].playlist]) \subseteq own'[i] \cup
                        Matches(i, tick'.rows[i].ledger \cup leftOut'[i] \cup unrecorded'[i] \cup resent'[i])
    BY <1>2 DEF RowAccounts, LedgerOf, Subscribed, Accounted
  <2>1. PICK p, ledger, more :
          p = row[i].playlist /\ ledger = row[i].ledger /\ more = tick'.rows[i].ledger
    OBVIOUS
  <2>2. Accounted(i, p, ledger)
    BY <1>1, <1>2, <2>1 DEF Alone, RowAccounts, LedgerOf
  <2>3. ledger \subseteq more
    BY <1>2, <1>3, <2>1 DEF Ready
  <2>4. PICK held : held = Held(copy[i][p])
    OBVIOUS
  <2>5. /\ ledger \subseteq more \cup leftOut'[i] \cup unrecorded'[i] \cup resent'[i]
        /\ held \subseteq Held(copy[i][p]) \cup own'[i]
             \cup Matches(i, more \cup leftOut'[i] \cup unrecorded'[i] \cup resent'[i])
    BY <2>3, <2>4
  <2>6. held \subseteq own'[i] \cup Matches(i, more \cup leftOut'[i] \cup unrecorded'[i] \cup resent'[i])
    BY <2>2, <2>5, AccountedGrows
  <2> QED BY <2>1, <2>4, <2>6
<1>6. CallAccounts(i)'
  BY <1>1 DEF CallAccounts
<1>7. TickKnows(i)'
  BY <1>1, <1>2 DEF TickKnows, Alone, Subscribed
<1>8. Here(i)'
  BY <1>2 DEF Here
<1> QED BY <1>4, <1>5, <1>6, <1>7, <1>8 DEF Alone

\* A song is added to this copy only when it was not listed there: it is there
\* twice only if its subscriber has put it there since.
LEMMA AloneSongCopied ==
  ASSUME TypedInv, SeenInv, NEW i \in Subs, ~disturbed[i], Longer, Alone(i),
         NEW s \in Songs, CopyOne(s) \/ CopyRefused(s), tick.n = i
  PROVE  Alone(i)'
<1> DEFINE p == tick.rows[i].playlist
           m == Match[i][s]
<1>1. call[i].at = "idle" /\ call' = call /\ pc # "idle"
  BY TickSteps DEF TickStep
<1>2. /\ pc = "copy" /\ pc' = "copy" /\ row' = row
      /\ tick'.rows[i].playlist = p /\ tick'.n = i
      /\ tick'.rows[i].ledger = tick.rows[i].ledger \cup {s}
      /\ tick'.here = tick.here \cup {m}
  BY SongCopied DEF CopyOne, CopyRefused, SameReading, SameRows
<1>3. p \in Playlists
  BY <1>2, AtOne, LookedInto
<1>4. copy[i] \in [Playlists -> [Songs -> 0..MaxCopies]]
  BY DEF TypedInv, PlaylistsTyped
<1>5. /\ \A q \in Playlists \ {p} : copy'[i][q] = copy[i][q]
      /\ \/ copy'[i][p] = copy[i][p]
         \/ m \notin tick.here /\ copy'[i][p] = PlusOne(copy[i][p], {m})
  <2>1. \/ copy' = copy
        \/ m \notin tick.here /\ copy' = [copy EXCEPT ![i][p] = PlusOne(@, {m})]
    BY DEF CopyOne, CopyRefused, NotThereYet, provVars, playVars
  <2>2. CASE m \notin tick.here /\ copy' = [copy EXCEPT ![i][p] = PlusOne(@, {m})]
    <3>1. PICK e : e = PlusOne(copy[i][p], {m})
      OBVIOUS
    <3>2. copy' = [copy EXCEPT ![i][p] = e]
      BY <2>2, <3>1
    <3>3. copy'[i] = [copy[i] EXCEPT ![p] = e]
      BY <3>2 DEF TypedInv, PlaylistsTyped
    <3> QED BY <1>3, <1>4, <2>2, <3>1, <3>3
  <2> QED BY <2>1, <2>2
<1>6. Held(copy[i][p]) \subseteq tick.here \cup ownAdds[i] \cup Matches(i, resent[i])
  BY <1>2 DEF Alone, Here
<1>7. Held(copy'[i][p]) \subseteq Held(copy[i][p]) \cup {m}
  BY <1>5 DEF Held, PlusOne
<1>8. ASSUME NEW r \in Songs, copy'[i][p][r] > 1, ~(copy[i][p][r] > 1)
      PROVE  r \in ownAdds[i] \cup Matches(i, resent[i])
  <2>1. r = m /\ m \notin tick.here /\ copy'[i][p] = PlusOne(copy[i][p], {m})
    BY <1>5, <1>8 DEF PlusOne
  <2>2. copy[i][p][r] \in 0..MaxCopies
    BY <1>3, <1>4
  <2>3. copy'[i][p][r] = copy[i][p][r] + 1
    BY <1>8, <2>1 DEF PlusOne
  <2>4. copy[i][p][r] > 0
    BY <1>8, <2>2, <2>3 DEF MaxCopies
  <2> QED BY <1>6, <2>1, <2>4 DEF Held
<1>9. Single(i)'
  <2> SUFFICES ASSUME NEW q \in Playlists, NEW r \in Songs, copy'[i][q][r] > 1
               PROVE  r \in Matches(i, again'[i] \cup resent'[i]) \cup ownAdds'[i]
    BY DEF Single
  <2>1. copy[i][q][r] > 1 => r \in Matches(i, again'[i] \cup resent'[i]) \cup ownAdds'[i]
    BY DEF Alone, Single, Longer, Matches
  <2>2. q # p => copy[i][q][r] > 1
    BY <1>5
  <2>3. /\ ownAdds[i] \subseteq ownAdds'[i]
        /\ Matches(i, resent[i]) \subseteq Matches(i, again'[i] \cup resent'[i])
    BY DEF Longer, Matches
  <2> QED BY <1>8, <2>1, <2>2, <2>3
<1>10. RowAccounts(i)'
  <2> SUFFICES ASSUME Subscribed(i)
               PROVE  Held(copy'[i][row[i].playlist]) \subseteq own'[i] \cup
                        Matches(i, tick'.rows[i].ledger \cup leftOut'[i] \cup unrecorded'[i] \cup resent'[i])
    BY <1>2 DEF RowAccounts, LedgerOf, Subscribed, Accounted
  <2>1. row[i].playlist = p
    BY <1>2 DEF Alone, TickKnows
  <2>2. PICK ledger, more : ledger = tick.rows[i].ledger /\ more = ledger \cup {s}
    OBVIOUS
  <2>3. Accounted(i, p, ledger)
    BY <1>1, <1>2, <2>1, <2>2 DEF Alone, RowAccounts, LedgerOf
  <2>4. m \in Matches(i, more \cup leftOut'[i] \cup unrecorded'[i] \cup resent'[i])
    BY <2>2 DEF Matches
  <2>5. PICK held : held = Held(copy'[i][p])
    OBVIOUS
  <2>6. /\ ledger \subseteq more \cup leftOut'[i] \cup unrecorded'[i] \cup resent'[i]
        /\ held \subseteq Held(copy[i][p]) \cup own'[i]
             \cup Matches(i, more \cup leftOut'[i] \cup unrecorded'[i] \cup resent'[i])
    BY <1>7, <2>2, <2>4, <2>5
  <2>7. PICK q : q = p
    OBVIOUS
  <2>8. Accounted(i, q, ledger) /\ held \subseteq Held(copy[i][q]) \cup own'[i]
             \cup Matches(i, more \cup leftOut'[i] \cup unrecorded'[i] \cup resent'[i])
    BY <2>3, <2>6, <2>7
  <2>9. held \subseteq own'[i] \cup Matches(i, more \cup leftOut'[i] \cup unrecorded'[i] \cup resent'[i])
    BY <2>6, <2>8, AccountedGrows
  <2> QED BY <1>2, <2>1, <2>2, <2>5, <2>9
<1>11. CallAccounts(i)'
  BY <1>1 DEF CallAccounts
<1>12. TickKnows(i)'
  BY <1>1, <1>2 DEF TickKnows, Alone, Subscribed
<1>13. Here(i)'
  <2>1. ownAdds[i] \subseteq ownAdds'[i] /\ Matches(i, resent[i]) \subseteq Matches(i, resent'[i])
    BY DEF Longer, Matches
  <2> QED BY <1>2, <1>6, <1>7, <2>1 DEF Here
<1> QED BY <1>9, <1>10, <1>11, <1>12, <1>13 DEF Alone

-----------------------------------------------------------------------------
\* The subscriber's import looks the row up: what that accounts for, it does.
LEMMA AloneImportOpens ==
  ASSUME TypedInv, SeenInv, Fresh, NEW i \in Subs, ~disturbed[i], Longer, Alone(i), ImportOpen(i)
  PROVE  Alone(i)'
<1> DEFINE p == IF row[i].playlist = 0 THEN made[i] + 1 ELSE row[i].playlist
           work == Matchable(i, call[i].listed) \ row[i].ledger
<1>1. /\ copy' = copy /\ leftOut' = leftOut /\ unrecorded' = unrecorded /\ own' = own
      /\ resent' = resent /\ pc' = pc /\ call[i].at = "open"
  BY DEF ImportOpen, playVars, history, addVars, tickVars
<1>2. pc = "idle"
  BY <1>1, ImportsAlone
<1>3. /\ call = [j \in Subs |-> call[j]] /\ row = [j \in Subs |-> row[j]]
      /\ IsCall(call[i]) /\ IsRow(row[i])
  BY DEF SeenInv, Shape
<1>4. /\ call' = [call EXCEPT ![i].at = "add", ![i].playlist = p,
                              ![i].ledger = row[i].ledger, ![i].todo = work]
      /\ IF row[i].playlist = 0
         THEN row' = [row EXCEPT ![i].status = "pending", ![i].playlist = p] ELSE row' = row
  BY DEF ImportOpen
<1>5. /\ call[i].at = "open" => made[i] <= imports
      /\ made[i] \in Nat /\ imports \in 0..MaxImports
  BY DEF TypedInv, CallsTyped, CallTyped
<1>6. /\ row[i].playlist \in 0..MaxImports + 1 /\ (Subscribed(i) <=> row[i].playlist # 0)
  BY PlaylistsAreNumbers DEF KnownOf
<1>7. p \in Playlists /\ (row[i].playlist = 0 => p > made[i])
  BY <1>1, <1>5, <1>6, BoundsAssumption DEF Playlists
<1>8. Accounted(i, p, row[i].ledger)
  <2>1. CASE row[i].playlist = 0
    BY <1>7, <2>1 DEF Fresh, Accounted
  <2>2. CASE row[i].playlist # 0
    BY <1>1, <1>2, <1>6, <2>2 DEF Alone, RowAccounts, LedgerOf
  <2> QED BY <2>1, <2>2
<1> HIDE DEF p
<1>9. /\ call'[i].at = "add" /\ call'[i].playlist = p /\ call'[i].listed = call[i].listed
      /\ call'[i].ledger = row[i].ledger /\ call'[i].todo = work
  <2>1. PICK todo : todo = work
    OBVIOUS
  <2>2. call'[i] = [call[i] EXCEPT !.at = "add", !.playlist = p, !.ledger = row[i].ledger,
                                   !.todo = todo]
    BY <1>3, <1>4, <2>1
  <2> QED BY <1>3, <2>1, <2>2 DEF IsCall
<1>10. row'[i].playlist = p /\ row'[i].ledger = row[i].ledger
  <2>1. CASE row[i].playlist = 0
    <3>1. row'[i] = [row[i] EXCEPT !.status = "pending", !.playlist = p]
      BY <1>3, <1>4, <2>1
    <3> QED BY <1>3, <3>1 DEF IsRow
  <2>2. CASE row[i].playlist # 0
    BY <1>4, <2>2 DEF p
  <2> QED BY <2>1, <2>2
<1>11. CallAccounts(i)'
  <2>1. Accounted(i, call[i].playlist, call[i].ledger)'
    BY <1>1, <1>8, <1>9 DEF Accounted
  <2> QED BY <1>9, <1>10, <2>1 DEF CallAccounts
<1>12. Single(i)'
  BY <1>1 DEF Alone, Single, Longer, Matches
<1>13. RowAccounts(i)'
  BY <1>9 DEF RowAccounts
<1>14. TickKnows(i)' /\ Here(i)'
  BY <1>1, <1>2 DEF TickKnows, Here
<1> QED BY <1>11, <1>12, <1>13, <1>14 DEF Alone

\* An import copies each song for itself, and does not look at the copy: what it
\* makes a double of was there without being in the ledger, or is matched to by
\* two songs.
LEMMA AloneImportAdds ==
  ASSUME TypedInv, SeenInv, NEW i \in Subs, ~disturbed[i], Longer, Alone(i), ImportAdd(i)
  PROVE  Alone(i)'
<1> DEFINE p == call[i].playlist
           missed == leftOut[i] \cup unrecorded[i]
<1>1. /\ call[i].at = "add" /\ UNCHANGED <<row, pc, unrecorded, own, ownAdds, resent>>
  BY DEF ImportAdd, tickVars, addVars
<1>2. pc = "idle"
  BY <1>1, ImportsAlone
<1>3. call = [j \in Subs |-> call[j]] /\ IsCall(call[i])
  BY DEF SeenInv, Shape
<1>4. p \in Playlists
  BY <1>1, LookedInto
<1>5. copy[i] \in [Playlists -> [Songs -> 0..MaxCopies]]
  BY DEF TypedInv, PlaylistsTyped
<1>6. /\ Accounted(i, p, call[i].ledger)
      /\ call[i].todo \cap call[i].ledger = {}
      /\ call[i].todo \subseteq Matchable(i, call[i].listed)
      /\ Subscribed(i) => /\ row[i].playlist = p
                          /\ call[i].ledger \subseteq row[i].ledger \cup Matchable(i, call[i].listed)
  BY <1>1 DEF Alone, CallAccounts
<1>7. PICK got \in SUBSET call[i].todo :
        /\ copy' = [copy EXCEPT ![i][p] =
                      PlusOne(PlusOne(@, {Match[i][s] : s \in got}), Twins(i, got))]
        /\ call' = [call EXCEPT ![i].at = "end", ![i].ledger = @ \cup got]
        /\ again' = [again EXCEPT ![i] = @ \cup {s \in got :
             \/ s \in missed
             \/ Match[i][s] \in own[i] \cup Twins(i, got \cup call[i].ledger \cup missed)}]
  BY DEF ImportAdd
<1>8. PICK double, old, land, twin, mid, new :
        /\ double = own[i] \cup Twins(i, got \cup call[i].ledger \cup missed)
        /\ old = copy[i][p] /\ land = Matches(i, got) /\ twin = Twins(i, got)
        /\ mid = PlusOne(old, land) /\ new = PlusOne(mid, twin)
  OBVIOUS
<1>9. /\ copy'[i][p] = new
      /\ \A q \in Playlists \ {p} : copy'[i][q] = copy[i][q]
  <2>1. copy' = [copy EXCEPT ![i][p] = new]
    BY <1>7, <1>8 DEF Matches
  <2>2. copy'[i] = [copy[i] EXCEPT ![p] = new]
    BY <2>1 DEF TypedInv, PlaylistsTyped
  <2> QED BY <1>4, <1>5, <2>2
<1>10. /\ call'[i].at = "end" /\ call'[i].playlist = p /\ call'[i].listed = call[i].listed
       /\ call'[i].ledger = call[i].ledger \cup got
  <2>1. call'[i] = [call[i] EXCEPT !.at = "end", !.ledger = @ \cup got]
    BY <1>3, <1>7
  <2> QED BY <1>3, <2>1 DEF IsCall
<1>11. \A s \in got : s \in missed \/ Match[i][s] \in double => s \in again'[i]
  <2>1. again \in [Subs -> SUBSET Songs]
    BY DEF TypedInv, Histories
  <2> QED BY <1>7, <1>8, <2>1
<1>12. twin \subseteq land
  BY <1>8 DEF Twins, Matches
<1> HIDE DEF p
<1>13. ASSUME NEW m \in Songs
       PROVE  /\ new[m] > 0 => old[m] > 0 \/ m \in land
              /\ new[m] > 1 => \/ old[m] > 1
                               \/ m \in land /\ (old[m] > 0 \/ m \in twin)
  <2>1. old[m] \in 0..MaxCopies
    BY <1>4, <1>5, <1>8
  <2>2. mid[m] = IF m \in land /\ old[m] < MaxCopies THEN old[m] + 1 ELSE old[m]
    BY <1>8 DEF PlusOne
  <2>3. new[m] = IF m \in twin /\ mid[m] < MaxCopies THEN mid[m] + 1 ELSE mid[m]
    BY <1>8 DEF PlusOne
  <2> QED BY <1>12, <2>1, <2>2, <2>3 DEF MaxCopies
<1>14. ASSUME NEW m \in Songs, m \in land, old[m] > 0 \/ m \in twin
       PROVE  m \in Matches(i, again'[i] \cup resent'[i])
  <2>1. PICK s \in got : Match[i][s] = m
    BY <1>8, <1>14 DEF Matches
  <2>2. s \in missed \/ m \in double \/ m \in Matches(i, resent[i])
    <3>1. CASE m \in twin
      BY <1>8, <3>1 DEF Twins
    <3>2. CASE old[m] > 0 /\ m \in own[i]
      BY <1>8, <3>2
    <3>3. CASE old[m] > 0 /\ m \notin own[i]
      <4>1. m \in Matches(i, call[i].ledger \cup missed \cup resent[i])
        BY <1>6, <1>8, <3>3 DEF Accounted, Held, Matches
      <4>2. PICK t \in call[i].ledger \cup missed \cup resent[i] : Match[i][t] = m
        BY <4>1 DEF Matches
      <4>5. CASE t \in resent[i]
        BY <4>2, <4>5 DEF Matches
      <4>3. CASE t = s /\ t \notin resent[i]
        BY <1>6, <2>1, <4>2, <4>3
      <4>4. CASE t # s /\ t \notin resent[i]
        BY <1>8, <2>1, <4>2, <4>4 DEF Twins
      <4> QED BY <4>3, <4>4, <4>5
    <3> QED BY <1>14, <3>1, <3>2, <3>3
  <2> QED BY <1>1, <1>11, <2>1, <2>2 DEF Matches
<1>15. Single(i)'
  <2> SUFFICES ASSUME NEW q \in Playlists, NEW m \in Songs, copy'[i][q][m] > 1
               PROVE  m \in Matches(i, again'[i] \cup resent'[i]) \cup ownAdds'[i]
    BY DEF Single
  <2>1. copy[i][q][m] > 1 => m \in Matches(i, again'[i] \cup resent'[i]) \cup ownAdds'[i]
    BY DEF Alone, Single, Longer, Matches
  <2>2. CASE q # p
    BY <1>9, <2>1, <2>2
  <2>3. CASE q = p
    BY <1>8, <1>9, <1>13, <1>14, <2>1, <2>3
  <2> QED BY <2>2, <2>3
<1>16. Accounted(i, p, call[i].ledger \cup got)'
  <2>1. PICK held, ledger, more :
          held = Held(new) /\ ledger = call[i].ledger /\ more = ledger \cup got
    OBVIOUS
  <2>2. /\ ledger \subseteq more \cup leftOut'[i] \cup unrecorded'[i] \cup resent'[i]
        /\ land \subseteq Matches(i, more \cup leftOut'[i] \cup unrecorded'[i] \cup resent'[i])
    BY <1>8, <2>1 DEF Matches
  <2>3. held \subseteq Held(copy[i][p]) \cup land
    BY <1>8, <1>13, <2>1 DEF Held
  <2>4. PICK q : q = p
    OBVIOUS
  <2>5. /\ Accounted(i, q, ledger)
        /\ held \subseteq Held(copy[i][q]) \cup own'[i]
             \cup Matches(i, more \cup leftOut'[i] \cup unrecorded'[i] \cup resent'[i])
    BY <1>6, <2>1, <2>2, <2>3, <2>4
  <2>6. held \subseteq own'[i] \cup Matches(i, more \cup leftOut'[i] \cup unrecorded'[i] \cup resent'[i])
    BY <2>2, <2>5, AccountedGrows
  <2>7. p' = p /\ (call[i].ledger \cup got)' = call'[i].ledger \cup got
    BY <1>10 DEF p
  <2>8. call'[i].ledger \cup got = more
    BY <1>10, <2>1
  <2> QED BY <1>9, <2>1, <2>6, <2>7, <2>8 DEF Accounted
<1>17. CallAccounts(i)'
  <2>1. Accounted(i, call[i].playlist, call[i].ledger)'
    <3>1. p' = call'[i].playlist /\ call'[i].ledger \cup got = call'[i].ledger
      BY <1>10 DEF p
    <3> QED BY <1>16, <3>1 DEF Accounted
  <2>2. Subscribed(i)' <=> Subscribed(i)
    BY <1>1 DEF Subscribed
  <2> QED BY <1>1, <1>6, <1>10, <2>1, <2>2 DEF CallAccounts
<1>18. RowAccounts(i)'
  BY <1>10 DEF RowAccounts
<1>19. TickKnows(i)' /\ Here(i)'
  BY <1>1, <1>2 DEF TickKnows, Here
<1> QED BY <1>15, <1>17, <1>18, <1>19 DEF Alone

\* The import stores its ledger, which accounts for the copy.
LEMMA AloneImportEnds ==
  ASSUME SeenInv, NEW i \in Subs, ~disturbed[i], Longer, Alone(i), ImportEnd(i)
  PROVE  Alone(i)'
<1>1. /\ copy' = copy /\ UNCHANGED <<pc, leftOut, unrecorded, own, resent>> /\ call[i].at = "end"
  BY DEF ImportEnd, provVars, playVars, history, addVars, tickVars
<1>2. pc = "idle"
  BY <1>1, ImportsAlone
<1>3. /\ call = [j \in Subs |-> call[j]] /\ row = [j \in Subs |-> row[j]] /\ IsRow(row[i])
  BY DEF SeenInv, Shape
<1>4. call'[i].at = "idle"
  BY <1>3 DEF ImportEnd, IdleCall
<1>5. row'[i].playlist = call[i].playlist /\ row'[i].ledger = call[i].ledger
  <2>1. PICK p, ledger : p = call[i].playlist /\ ledger = call[i].ledger
    OBVIOUS
  <2>2. row'[i] = [row[i] EXCEPT !.status = "completed", !.playlist = p, !.ledger = ledger,
                                 !.back = ledger, !.error = FALSE, !.ran = TRUE]
    BY <1>3, <2>1 DEF ImportEnd
  <2> QED BY <1>3, <2>1, <2>2 DEF IsRow
<1>6. Accounted(i, call[i].playlist, call[i].ledger)
  BY <1>1 DEF Alone, CallAccounts
<1>7. Accounted(i, row[i].playlist, row[i].ledger)'
  BY <1>1, <1>5, <1>6 DEF Accounted
<1>8. RowAccounts(i)'
  BY <1>1, <1>2, <1>7 DEF RowAccounts, LedgerOf
<1>9. Single(i)'
  BY <1>1 DEF Alone, Single, Longer, Matches
<1>10. CallAccounts(i)' /\ TickKnows(i)' /\ Here(i)'
  BY <1>1, <1>2, <1>4 DEF CallAccounts, TickKnows, Here
<1> QED BY <1>8, <1>9, <1>10 DEF Alone

-----------------------------------------------------------------------------
\* A subscriber puts a song into a copy, or takes it out.
LEMMA AlonePutIn ==
  ASSUME TypedInv, SeenInv, NEW i \in Subs, Longer, Alone(i),
         NEW j \in Subs, NEW s \in Songs, SubscriberAddsOrRemoves(j, s)
  PROVE  Alone(i)'
<1> DEFINE q == row[j].playlist
<1>1. /\ UNCHANGED <<row, pc, tick, call>>
      /\ copy' = [copy EXCEPT ![j][q][s] = IF @ = 0 THEN 1 ELSE 0]
  BY DEF SubscriberAddsOrRemoves, tickVars
<1>2. PICK v \in {0, 1} : /\ copy' = [copy EXCEPT ![j][q][s] = v]
                          /\ v = 1 => copy[j][q][s] = 0
  <2>1. CASE copy[j][q][s] = 0
    <3>1. copy' = [copy EXCEPT ![j][q][s] = 1]
      BY <1>1, <2>1
    <3> QED BY <2>1, <3>1
  <2>2. CASE copy[j][q][s] # 0
    <3>1. copy' = [copy EXCEPT ![j][q][s] = 0]
      BY <1>1, <2>2
    <3> QED BY <3>1
  <2> QED BY <2>1, <2>2
<1>3. copy \in [Subs -> [Playlists -> [Songs -> 0..MaxCopies]]]
  BY DEF TypedInv, PlaylistsTyped
<1>4. q \in Playlists
  <2>1. q # 0
    BY DEF SubscriberAddsOrRemoves
  <2> QED BY <2>1, PlaylistsAreNumbers DEF KnownOf
<1>5. v = 1 /\ i = j => s \in own'[i] /\ (pc # "idle" => s \in ownAdds'[i])
  <2>1. own \in [Subs -> SUBSET Songs] /\ ownAdds \in [{0} \cup Subs -> SUBSET Songs]
    BY DEF TypedInv, Histories
  <2>2. v = 1 /\ i = j =>
          /\ own' = [own EXCEPT ![i] = @ \cup {s}]
          /\ pc # "idle" => ownAdds' = [ownAdds EXCEPT ![i] = @ \cup {s}]
    BY <1>2 DEF SubscriberAddsOrRemoves
  <2> QED BY <2>1, <2>2
<1> HIDE DEF q
<1>6. ASSUME NEW p \in Playlists, NEW m \in Songs
      PROVE  copy'[i][p][m] = IF i = j /\ p = q /\ m = s THEN v ELSE copy[i][p][m]
  BY <1>2, <1>3, <1>4
<1>7. ASSUME NEW p \in Playlists
      PROVE  /\ \A m \in Songs : copy'[i][p][m] > 1 => copy[i][p][m] > 1
             /\ Held(copy'[i][p]) \subseteq Held(copy[i][p]) \cup own'[i]
             /\ pc # "idle" => Held(copy'[i][p]) \subseteq Held(copy[i][p]) \cup ownAdds'[i]
  <2>1. ~(v > 1) /\ (v > 0 => v = 1)
    OBVIOUS
  <2> QED BY <1>5, <1>6, <2>1 DEF Held
<1> QED BY <1>1, <1>7, AloneStays

\* Nothing at all happens to the copy.
LEMMA AloneUntouched ==
  ASSUME TypedInv, SeenInv, NEW i \in Subs, Longer, Alone(i), pc' = pc, pc # "idle" => tick' = tick,
         row'[i] = row[i] \/ ~Subscribed(i)', copy'[i] = copy[i],
         \/ call'[i] = call[i]
         \/ call[i].at \notin {"add", "end"} /\ call'[i].at \notin {"add", "end"}
  PROVE  Alone(i)'
  BY AloneStays

LEMMA AlonePeople ==
  ASSUME TypedInv, SeenInv, NEW i \in Subs, Longer, Alone(i), People
  PROVE  Alone(i)'
<1> USE DEF tickVars, provVars, playVars
<1>0. /\ call = [j \in Subs |-> call[j]] /\ row = [j \in Subs |-> row[j]]
  BY DEF SeenInv, Shape
<1>1. ASSUME UNCHANGED <<copy, row, pc, tick, call>> PROVE Alone(i)'
  BY <1>1, AloneUntouched
<1>2. ASSUME NEW j \in Subs, Unsubscribe(j) PROVE Alone(i)'
  <2>1. UNCHANGED <<copy, pc, tick, call>> /\ row' = [row EXCEPT ![j] = NoRow]
    BY <1>2 DEF Unsubscribe
  <2>2. row'[i] = row[i] \/ ~Subscribed(i)'
    BY <1>0, <2>1 DEF Subscribed, NoRow
  <2> QED BY <2>1, <2>2, AloneUntouched
<1>3. ASSUME NEW j \in Subs, ImportBegin(j) PROVE Alone(i)'
  <2>1. PICK new : /\ new = [IdleCall EXCEPT !.at = "open", !.listed = Held(source)]
                   /\ call' = [call EXCEPT ![j] = new]
                   /\ UNCHANGED <<copy, pc, tick, row>> /\ call[j].at = "idle"
    BY <1>3 DEF ImportBegin
  <2>2. \/ call'[i] = call[i]
        \/ call[i].at = "idle" /\ call'[i].at = "open"
    <3>1. new.at = "open"
      BY <2>1 DEF IdleCall
    <3> QED BY <1>0, <2>1, <3>1
  <2> QED BY <2>1, <2>2, AloneUntouched
<1> QED BY <1>1, <1>2, <1>3, AlonePutIn DEF People, OwnerAddsOrRemoves, SetMode, SetRevoked

\* A tick begins beside no import of this row.
LEMMA AloneTickBegins ==
  ASSUME SeenInv, NEW i \in Subs, ~disturbed'[i], Longer, Alone(i), Tick
  PROVE  Alone(i)'
<1>1. /\ UNCHANGED <<copy, row, call>> /\ call[i].at = "idle" /\ pc = "idle" /\ pc' # "copy"
      /\ tick'.rows = row
  BY DEF Tick, IdleTick, provVars, playVars
<1> QED BY <1>1, AloneMovesOn DEF LedgerOf, Subscribed

\* The process ends, or the import throws.
LEMMA AloneRestarts ==
  ASSUME TypedInv, SeenInv, NEW i \in Subs, ~disturbed'[i], Longer, Alone(i), Restart
  PROVE  Alone(i)'
<1>1. /\ UNCHANGED <<copy, row>> /\ pc = "idle" /\ pc' = "idle" /\ call'[i] = IdleCall
      /\ Matchable(i, call[i].listed) \subseteq leftOut'[i] /\ ~disturbed[i]
  BY DEF Restart, provVars, playVars
<1>2. call'[i].at = "idle"
  BY <1>1 DEF IdleCall
<1>3. CASE call[i].at \in {"add", "end"}
  BY <1>1, <1>2, <1>3, AloneCallEnds
<1>4. CASE call[i].at \notin {"add", "end"}
  BY <1>1, <1>2, <1>4, AloneUntouched
<1> QED BY <1>3, <1>4

LEMMA AloneThrows ==
  ASSUME TypedInv, SeenInv, NEW i \in Subs, ~disturbed[i], Longer, Alone(i), ImportThrows(i)
  PROVE  Alone(i)'
<1>1. /\ UNCHANGED <<copy, row, pc, tick>> /\ call[i].at \in {"open", "add"}
      /\ call'[i] = IdleCall /\ Matchable(i, call[i].listed) \subseteq leftOut'[i]
  <2>1. leftOut \in [Subs -> SUBSET Songs] /\ call = [j \in Subs |-> call[j]]
    BY DEF TypedInv, Histories, SeenInv, Shape
  <2> QED BY <2>1 DEF ImportThrows, provVars, playVars, tickVars
<1>2. call'[i].at = "idle" /\ pc = "idle"
  BY <1>1, ImportsAlone DEF IdleCall
<1>3. CASE call[i].at = "add"
  BY <1>1, <1>2, <1>3, AloneCallEnds
<1>4. CASE call[i].at = "open"
  BY <1>1, <1>2, <1>4, AloneUntouched
<1> QED BY <1>1, <1>3, <1>4

\* Imports of others leave the row and its copy alone.
LEMMA AloneOthers ==
  ASSUME TypedInv, SeenInv, NEW i \in Subs, Longer, Alone(i),
         NEW j \in Subs \ {i}, ImportStep(j) \/ ImportThrows(j)
  PROVE  Alone(i)'
<1>0. /\ call = [k \in Subs |-> call[k]] /\ row = [k \in Subs |-> row[k]]
      /\ copy \in [Subs -> [Playlists -> [Songs -> 0..MaxCopies]]]
  BY DEF SeenInv, Shape, TypedInv, PlaylistsTyped
<1> USE DEF tickVars, provVars, playVars
<1>1. UNCHANGED <<pc, tick>>
  BY DEF ImportStep, ImportOpen, ImportAdd, ImportEnd, ImportThrows
<1>2. CASE ImportOpen(j)
  <2>1. PICK at, p, ledger, todo :
          call' = [call EXCEPT ![j].at = at, ![j].playlist = p, ![j].ledger = ledger, ![j].todo = todo]
    BY <1>2 DEF ImportOpen
  <2>2. call'[i] = call[i]
    BY <1>0, <2>1
  <2>3. row'[i] = row[i]
    <3>1. row' = row \/ \E q : row' = [row EXCEPT ![j].status = "pending", ![j].playlist = q]
      BY <1>2 DEF ImportOpen
    <3> QED BY <1>0, <3>1
  <2>4. copy' = copy
    BY <1>2 DEF ImportOpen
  <2> QED BY <1>1, <2>2, <2>3, <2>4, AloneUntouched
<1>3. CASE ImportAdd(j)
  <2>1. PICK got, new : /\ call' = [call EXCEPT ![j].at = "end", ![j].ledger = @ \cup got]
                        /\ copy' = [copy EXCEPT ![j][call[j].playlist] = new]
    BY <1>3 DEF ImportAdd
  <2>2. call'[i] = call[i] /\ copy'[i] = copy[i]
    BY <1>0, <2>1
  <2>3. row' = row
    BY <1>3 DEF ImportAdd
  <2> QED BY <1>1, <2>2, <2>3, AloneUntouched
<1>4. CASE ImportEnd(j)
  <2>1. call' = [call EXCEPT ![j] = IdleCall] /\ copy' = copy
    BY <1>4 DEF ImportEnd
  <2>2. PICK new : row' = [row EXCEPT ![j] = new]
    BY <1>4 DEF ImportEnd
  <2> QED BY <1>0, <1>1, <2>1, <2>2, AloneUntouched
<1>5. CASE ImportThrows(j)
  <2>1. call' = [call EXCEPT ![j] = IdleCall] /\ copy' = copy /\ row' = row
    BY <1>5 DEF ImportThrows
  <2> QED BY <1>0, <1>1, <2>1, AloneUntouched
<1> QED BY <1>2, <1>3, <1>4, <1>5 DEF ImportStep

\* A request that adds a song to some copy is answered with an error.
LEMMA AloneResent ==
  ASSUME TypedInv, SeenInv, NEW i \in Subs, Longer, Alone(i), Resends
  PROVE  Alone(i)'
<1>0. copy \in [Subs -> [Playlists -> [Songs -> 0..MaxCopies]]]
  BY DEF TypedInv, PlaylistsTyped
<1>1. UNCHANGED <<row, pc, tick, call>>
  BY ResendsTouch DEF SeenInv, OnlyPlaylists
<1>2. ASSUME NEW j \in Subs, NEW p, NEW s \in Songs,
             copy' = [copy EXCEPT ![j][p] = PlusOne(@, {Match[j][s]})],
             resent' = [resent EXCEPT ![j] = @ \cup {s}]
      PROVE  Alone(i)'
  <2>1. s \in resent'[j]
    BY <1>2 DEF TypedInv, Histories
  <2>2. PICK e : e = PlusOne(copy[j][p], {Match[j][s]})
    OBVIOUS
  <2>3. copy' = [copy EXCEPT ![j][p] = e]
    BY <1>2, <2>2
  <2>4. ASSUME NEW q \in Playlists, NEW m \in Songs, m \notin Matches(i, resent'[i])
        PROVE  copy'[i][q][m] = copy[i][q][m]
    <3>1. CASE i = j /\ q = p
      <4>1. m # Match[i][s]
        BY <2>1, <2>4, <3>1 DEF Matches
      <4>2. copy'[i][q] = e
        BY <1>0, <2>3, <3>1
      <4> QED BY <2>2, <3>1, <4>1, <4>2 DEF PlusOne
    <3>2. CASE ~(i = j /\ q = p)
      BY <1>0, <2>3, <3>2
    <3> QED BY <3>1, <3>2
  <2>5. ASSUME NEW q \in Playlists
        PROVE  Held(copy'[i][q]) \subseteq Held(copy[i][q]) \cup Matches(i, resent'[i])
    BY <2>4 DEF Held
  <2> QED BY <1>1, <2>4, <2>5, AloneStays
<1>3. ASSUME NEW j \in Subs, ImportAddResent(j) PROVE Alone(i)'
  <2>1. call[j].todo \subseteq Songs
    BY DEF SeenInv, Shape, IsCall
  <2>2. PICK s \in call[j].todo :
          /\ copy' = [copy EXCEPT ![j][call[j].playlist] = PlusOne(@, {Match[j][s]})]
          /\ resent' = [resent EXCEPT ![j] = @ \cup {s}]
    BY <1>3 DEF ImportAddResent
  <2> QED BY <1>2, <2>1, <2>2
<1>4. ASSUME NEW s \in Songs, CopyResent(s) PROVE Alone(i)'
  <2>1. tick.n \in Subs
    BY <1>4, AtOne DEF CopyResent
  <2> QED BY <1>2, <1>4, <2>1 DEF CopyResent
<1>5. ASSUME NEW s \in Songs, BackResent(s) PROVE Alone(i)'
  <2>1. copy' = copy
    BY <1>5 DEF BackResent
  <2> QED BY <1>1, <2>1, AloneUntouched
<1> QED BY <1>3, <1>4, <1>5 DEF Resends

LEMMA AloneTickSteps ==
  ASSUME TypedInv, SeenInv, NEW i \in Subs, ~disturbed[i], Longer, Alone(i),
         TickStep \/ ImportFails \/ \E s \in Songs : BackRefused(s) \/ CopyRefused(s)
  PROVE  Alone(i)'
<1> USE DEF provVars, playVars
<1>1. CASE SkipImport \/ SaveRow \/ ImportFails
  BY <1>1, AloneLeavesRow
<1>2. CASE StartForward \/ \E s \in Songs : CopyOne(s) \/ CopyRefused(s)
  <2>1. CASE tick.n = i
    BY <1>2, <2>1, AloneForwardBegins, AloneSongCopied
  <2>2. CASE tick.n # i
    <3>1. row' = row /\ pc' = "copy" /\ tick'.n = tick.n
      BY <1>2, TickSteps DEF StartForward, CopyOne, CopyRefused, TickStep
    <3>2. copy'[i] = copy[i]
      <4>1. tick.n \in Subs
        BY <1>2, AtOne DEF StartForward, CopyOne, CopyRefused
      <4>2. \/ copy' = copy
            \/ \E m : copy' = [copy EXCEPT ![tick.n][tick.rows[tick.n].playlist] = PlusOne(@, {m})]
        BY <1>2 DEF StartForward, CopyOne, CopyRefused
      <4>3. copy' = copy \/ \E new : copy' = [copy EXCEPT ![tick.n][tick.rows[tick.n].playlist] = new]
        BY <4>2
      <4>4. copy \in [Subs -> [Playlists -> [Songs -> 0..MaxCopies]]]
        BY DEF TypedInv, PlaylistsTyped
      <4> QED BY <2>2, <4>1, <4>3, <4>4
    <3>3. call[i].at = "idle" /\ call' = call /\ pc # "idle"
      BY TickSteps
    <3>4. tick'.rows[i].playlist = tick.rows[i].playlist
      BY <3>1, TickKeepsPlaylists
    <3>5. Subscribed(i)' => /\ Subscribed(i) /\ row'[i].playlist = row[i].playlist
                            /\ LedgerOf(i) \subseteq row'[i].ledger
                            /\ row'[i].playlist = tick'.rows[i].playlist
      BY <2>2, <3>1, <3>3, <3>4 DEF Subscribed, LedgerOf, Alone, TickKnows
    <3> QED BY <2>2, <3>1, <3>2, <3>3, <3>5, AloneMovesOn
  <2> QED BY <2>1, <2>2
<1>3. CASE /\ \/ ReadSnapshot \/ ListSource \/ ReadRecipient \/ ListSourceLate \/ StoreSnapshot
              \/ PrepareForward \/ StartBack \/ EndBack \/ PlanNextPoll
              \/ \E s \in Songs : BackOne(s) \/ BackRefused(s)
           /\ ~(StartForward \/ \E s \in Songs : CopyOne(s) \/ CopyRefused(s))
  <2>1. /\ UNCHANGED <<copy, row>> /\ pc # "copy"
        /\ TickStep \/ \E s \in Songs : BackRefused(s)
    BY <1>3 DEF ReadSnapshot, ListSource, ReadRecipient, ListSourceLate, StoreSnapshot,
       PrepareForward, StartBack, EndBack, PlanNextPoll, BackOne, BackRefused, TickStep
  <2>2. pc' # "copy"
    BY <1>3, TickSteps
  <2> QED BY <2>1, <2>2, AloneReads
<1> QED BY <1>1, <1>2, <1>3 DEF TickStep

LEMMA AloneNext ==
  ASSUME TypedInv, SeenInv, Fresh, NEW i \in Subs, ~disturbed'[i], ~disturbed[i], Longer, Alone(i), Next
  PROVE  Alone(i)'
<1>1. CASE People
  BY <1>1, AlonePeople
<1>2. CASE Tick
  BY <1>2, AloneTickBegins
<1>3. CASE TickStep \/ ImportFails \/ \E s \in Songs : BackRefused(s) \/ CopyRefused(s)
  BY <1>3, AloneTickSteps
<1>8. CASE Resends
  BY <1>8, AloneResent
<1>4. CASE Clock
  <2>1. UNCHANGED <<copy, row, pc, tick, call>>
    BY <1>4 DEF Clock, provVars, playVars, tickVars
  <2> QED BY <2>1, AloneUntouched
<1>5. CASE TickFails
  <2>1. UNCHANGED <<copy, row, call>> /\ pc' = "idle" /\ pc \notin {"idle", "copy"}
    BY <1>5 DEF TickFails, provVars, playVars
  <2>2. call[i].at = "idle"
    BY <2>1, ImportsAlone
  <2> QED BY <2>1, <2>2, AloneMovesOn DEF LedgerOf, Subscribed
<1>6. CASE Restart
  BY <1>6, AloneRestarts
<1>7. ASSUME NEW j \in Subs, ImportStep(j) \/ ImportThrows(j) PROVE Alone(i)'
  BY <1>7, AloneThrows, AloneOthers, AloneImportOpens, AloneImportAdds, AloneImportEnds DEF ImportStep
<1> QED BY <1>1, <1>2, <1>3, <1>4, <1>5, <1>6, <1>7, <1>8 DEF Next, Fault, Resends

LEMMA DisturbedStays ==
  ASSUME SeenInv, Next, NEW i \in Subs, disturbed[i] PROVE disturbed'[i]
<1> USE DEF history
<1>1. disturbed \in [Subs -> BOOLEAN]
  BY DEF SeenInv, Shape
<1>2. ASSUME NEW j \in Subs, ImportBegin(j) PROVE disturbed'[i]
  BY <1>1, <1>2 DEF ImportBegin
<1>3. CASE Tick \/ Restart
  BY <1>3 DEF Tick, Restart
<1>4. CASE People
  BY <1>2, <1>4 DEF People, OwnerAddsOrRemoves, SubscriberAddsOrRemoves, SetMode, SetRevoked, Unsubscribe
<1>5. CASE TickStep
  BY <1>5 DEF TickStep, ReadSnapshot, ListSource, ReadRecipient, ListSourceLate, StoreSnapshot,
     SkipImport, PrepareForward, StartBack, EndBack, StartForward, SaveRow, PlanNextPoll,
     BackOne, CopyOne
<1>7. CASE Resends
  BY <1>7, ResendsTouch DEF SeenInv, OnlyPlaylists
<1>6. CASE Clock \/ Fault \/ \E j \in Subs : ImportStep(j)
  BY <1>3, <1>6, <1>7 DEF Clock, Fault, TickFails, ImportFails, ImportThrows, ImportStep, ImportOpen,
     ImportAdd, ImportEnd, Resends, BackRefused, CopyRefused
<1> QED BY <1>3, <1>4, <1>5, <1>6 DEF Next

LEMMA DoublesNext == DoublesInv /\ TypedInv /\ SeenInv /\ [Next]_vars => DoublesInv'
<1> SUFFICES ASSUME DoublesInv, TypedInv, SeenInv, [Next]_vars PROVE DoublesInv'
  OBVIOUS
<1>1. CASE Next
  <2>1. Longer
    BY <1>1, HistoryGrows
  <2> QED BY <1>1, <2>1, FreshNext, DisturbedStays, AloneNext DEF DoublesInv
<1>2. CASE UNCHANGED vars
  <2>1. /\ UNCHANGED <<copy, made, row, pc, tick, call, disturbed>> /\ Longer
    BY <1>2 DEF vars, provVars, playVars, tickVars, history, addVars, Longer
  <2>2. Fresh'
    BY <2>1 DEF DoublesInv, Fresh, KnownOf
  <2>3. ASSUME NEW i \in Subs, ~disturbed'[i] PROVE Alone(i)'
    BY <2>1, <2>3, AloneUntouched DEF DoublesInv
  <2> QED BY <2>2, <2>3 DEF DoublesInv
<1> QED BY <1>1, <1>2

LEMMA DoublesInit == Init => DoublesInv
<1> SUFFICES ASSUME Init PROVE DoublesInv
  OBVIOUS
<1>1. pc = "idle" /\ tick = IdleTick /\ \A i \in Subs : call[i] = IdleCall
  BY DEF Init
<1> SUFFICES ASSUME NEW i \in Subs
             PROVE  /\ \A p \in Playlists : p > made[i] => Held(copy[i][p]) = {}
                    /\ \A p \in KnownOf(i) : p <= made[i]
                    /\ Alone(i)
  BY DEF DoublesInv, Fresh
<1>2. \A s \in Songs : NoSongs[s] = 0
  BY DEF NoSongs
<1>3. Held(NoSongs) = {}
  BY <1>2 DEF Held
<1> DEFINE first == Matches(i, FirstSongs)
<1>4. \A m \in Songs : PlusOne(NoSongs, first)[m] = IF m \in first THEN 1 ELSE 0
  BY <1>2 DEF PlusOne, MaxCopies
<1>5. Held(PlusOne(NoSongs, first)) \subseteq first
  BY <1>4 DEF Held
<1>6. ASSUME NEW p \in Playlists
      PROVE  copy[i][p] = IF i \in Joined /\ p = 1 THEN PlusOne(NoSongs, first) ELSE NoSongs
  BY DEF Init, Matches
<1>7. /\ made[i] = (IF i \in Joined THEN 1 ELSE 0) /\ row[i].playlist = made[i]
      /\ row[i].status = (IF i \in Joined THEN "completed" ELSE "none")
      /\ i \in Joined => row[i].ledger = Matchable(i, FirstSongs)
  BY DEF Init, NoRow
<1>8. tick.rows[i].playlist = 0 /\ call[i].playlist = 0 /\ call[i].at = "idle"
  BY <1>1 DEF IdleTick, NoRow, IdleCall
<1>9. \A p \in Playlists : p > made[i] => Held(copy[i][p]) = {}
  <2>1. CASE i \in Joined
    <3>1. made[i] = 1
      BY <1>7, <2>1
    <3>2. \A p \in Playlists : p > 1 => p # 1
      BY BoundsAssumption DEF Playlists
    <3> QED BY <1>3, <1>6, <3>1, <3>2
  <2>2. CASE i \notin Joined
    BY <1>3, <1>6, <2>2
  <2> QED BY <2>1, <2>2
<1>10. \A p \in KnownOf(i) : p <= made[i]
  <2>1. made[i] = 0 \/ made[i] = 1
    BY <1>7
  <2>2. \A p \in KnownOf(i) : p = 0 \/ p = made[i]
    BY <1>7, <1>8 DEF KnownOf
  <2> QED BY <2>1, <2>2
<1> HIDE DEF first
<1>11. Single(i)
  <2>1. ASSUME NEW p \in Playlists, NEW m \in Songs PROVE ~(copy[i][p][m] > 1)
    BY <1>2, <1>4, <1>6
  <2> QED BY <2>1 DEF Single
<1>12. RowAccounts(i)
  <2>1. i \in Joined <=> Subscribed(i)
    BY <1>7 DEF Subscribed
  <2>2. LedgerOf(i) = row[i].ledger
    BY <1>1 DEF LedgerOf
  <2>3. i \in Joined => row[i].playlist = 1 /\ row[i].ledger = Matchable(i, FirstSongs)
    BY <1>7
  <2> SUFFICES ASSUME i \in Joined PROVE Accounted(i, 1, Matchable(i, FirstSongs))
    BY <2>1, <2>2, <2>3 DEF RowAccounts
  <2>4. Held(copy[i][1]) \subseteq first \cap Songs
    <3>1. 1 \in Playlists
      BY BoundsAssumption DEF Playlists
    <3> QED BY <1>5, <1>6, <3>1 DEF Held
  <2>5. first \cap Songs \subseteq Matches(i, Matchable(i, FirstSongs))
    BY SongsAssumption DEF first, Matches, Matchable
  <2> QED BY <2>4, <2>5 DEF Accounted, Matches
<1>13. CallAccounts(i) /\ TickKnows(i) /\ Here(i)
  BY <1>1, <1>8 DEF CallAccounts, TickKnows, Here
<1> QED BY <1>9, <1>10, <1>11, <1>12, <1>13 DEF Alone

\* A subscriber's copy gets no song twice, however link imports, ticks and the
\* subscriber's own changes follow each other, and whatever fails: but what an
\* import made a double of because it trusts the ledger (again), what a request
\* added that was answered with an error and sent again (resent), what the
\* subscriber added at that very moment, and rows an import and a tick worked on
\* together.
THEOREM CopiesGetNoDoubles == Spec => []NoDoubles
<1>1. Spec => []SeenInv
  BY SeenInit, SeenNext, PTL DEF Spec
<1>2. Spec => [](TypedInv /\ SeenInv)
  BY <1>1, TypedInit, TypedNext, PTL DEF Spec
<1>3. DoublesInv => NoDoubles
  BY DEF DoublesInv, Alone, Single, Matches, NoDoubles
<1> QED BY <1>2, <1>3, DoublesInit, DoublesNext, PTL DEF Spec
=============================================================================
