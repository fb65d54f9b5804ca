--------------------------- MODULE AutoSyncProofs ---------------------------
(***************************************************************************)
(* What the scheduler has stored as seen is accounted for, for any number  *)
(* of subscribers, songs, changes, imports and faults.                     *)
(***************************************************************************)
EXTENDS AutoSync, WellFoundedInduction, TLAPS

\* A row has its fields, and so has what the tick and an import know of it.
IsRow(w) ==
  /\ w = [status |-> w.status, playlist |-> w.playlist, ledger |-> w.ledger, back |-> w.back,
          snapshot |-> w.snapshot, error |-> w.error, ran |-> w.ran]
  /\ w.ledger \subseteq Songs
  /\ w.error \in BOOLEAN

IsSync(s) ==
  s = [mode |-> s.mode, revoked |-> s.revoked, snapshot |-> s.snapshot, streak |-> s.streak,
       wait |-> s.wait, error |-> s.error]

IsTick(t) ==
  /\ t = [mode |-> t.mode, stored |-> t.stored, streak |-> t.streak, rows |-> t.rows,
          snapshot |-> t.snapshot, tracks |-> t.tracks, heard |-> t.heard, n |-> t.n,
          prepared |-> t.prepared, grew |-> t.grew, failed |-> t.failed, todo |-> t.todo,
          added |-> t.added, here |-> t.here]
  /\ t.rows = [i \in Subs |-> t.rows[i]]
  /\ \A i \in Subs : IsRow(t.rows[i])
  /\ t.tracks \subseteq Songs /\ t.added \subseteq Songs
  /\ t.prepared \in [Subs -> BOOLEAN]

IsCall(c) ==
  /\ c = [at |-> c.at, listed |-> c.listed, playlist |-> c.playlist, ledger |-> c.ledger,
          todo |-> c.todo]
  /\ c.listed \subseteq Songs /\ c.ledger \subseteq Songs /\ c.todo \subseteq Songs

Shape ==
  /\ version \in [{0} \cup Subs -> Nat]
  /\ IsSync(sync)
  /\ row = [i \in Subs |-> row[i]] /\ \A i \in Subs : IsRow(row[i])
  /\ IsTick(tick)
  /\ call = [i \in Subs |-> call[i]] /\ \A i \in Subs : IsCall(call[i])
  /\ disturbed \in [Subs -> BOOLEAN]
  /\ leftOut = [i \in Subs |-> leftOut[i]]

-----------------------------------------------------------------------------
\* A snapshot of the owner's playlist that the playlist has moved on from.
Outdated(snap) == 0 \in Spotify /\ snap[1] < version[0]

\* On Spotify a snapshot is of an earlier version, or lists nothing that is not there.
Current(snap) ==
  0 \in Spotify =>
    /\ snap[1] \in Nat
    /\ Outdated(snap) \/ (snap[1] = version[0] /\ snap[2] \cap Songs \subseteq Held(source))

\* A ledger accounts for what a snapshot lists, as far as subscriber i can have it.
Covers(i, ledger, snap) ==
  Matchable(i, snap[2] \cap Songs) \subseteq ledger \cup leftOut[i] \/ Outdated(snap)

Reading == {"snapshot", "list", "recipients", "listLate", "store"}
Working == {"prepare", "back", "forward", "copy", "plan"}

Snaps == Current(sync.snapshot) /\ Current(tick.snapshot) /\ Current(tick.stored)

\* An import under way brings its row up to what is stored as seen.
Importing ==
  \A i \in Subs : ~disturbed[i] /\ call[i].at # "idle" =>
    /\ pc = "idle"
    /\ call[i].at \in {"open", "add", "end"}
    /\ sync.snapshot[2] \cap Songs \subseteq call[i].listed \/ Outdated(sync.snapshot)
    /\ call[i].at = "add" => Matchable(i, call[i].listed) \subseteq call[i].ledger \cup call[i].todo
    /\ call[i].at = "end" => Matchable(i, call[i].listed) \subseteq call[i].ledger \cup leftOut[i]

\* A row that nothing is being done to accounts for what is stored as seen.
RowsCover ==
  pc \in {"idle"} \cup Reading =>
    \A i \in Subs : ~disturbed[i] /\ call[i].at = "idle" /\ Subscribed(i) /\ ~row[i].error =>
      Covers(i, row[i].ledger, sync.snapshot)

\* What the tick has read is what is there, but for rows deleted since.
TickReads ==
  pc \in Reading =>
    /\ tick.stored = sync.snapshot
    /\ \A i \in Subs : ~disturbed[i] /\ Subscribed(i) => row[i] = tick.rows[i]
    /\ \A i \in Subs : ~tick.prepared[i]

\* What is seen as changed, or has to be tried again, has been listed.
Lists ==
  /\ pc = "snapshot" => 0 \in Spotify
  /\ pc = "listLate" => tick.tracks = {}
  /\ pc \in {"snapshot", "list"} /\ 0 \notin Spotify => tick.snapshot = tick.stored
  /\ pc \in {"recipients", "listLate", "store"} \cup Working =>
       (SourceChanged \/ RetryFailed =>
         tick.snapshot[2] \cap Songs \subseteq tick.tracks \/ Outdated(tick.snapshot))
  /\ pc \in Reading \cup Working => Listed # {}
  /\ pc \in Working => sync.snapshot = tick.snapshot

\* A row the tick will still write: what it has of it in memory is no less.
Ready(i) ==
  Subscribed(i) =>
    /\ row[i].error = tick.rows[i].error
    /\ row[i].ledger \subseteq tick.rows[i].ledger
    /\ ~SourceChanged /\ ~Retry(i) => Covers(i, row[i].ledger, tick.snapshot)

\* A row the tick is done with.
DoneWith(i) ==
  Subscribed(i) /\ ~row[i].error => Covers(i, row[i].ledger, tick.snapshot)

StillToDo(i) ==
  \/ pc \in {"prepare", "back"} /\ (i >= tick.n \/ tick.prepared[i])
  \/ pc \in {"forward", "copy"} /\ i >= tick.n /\ tick.prepared[i]

Loops ==
  /\ pc \in {"prepare", "back"} => tick.n \in Listed /\ \A i \in Listed : i >= tick.n => ~tick.prepared[i]
  /\ pc \in {"forward", "copy"} => tick.n \in Listed /\ tick.prepared[tick.n]
  /\ pc \in Working =>
       \A i \in Subs : ~disturbed[i] =>
         /\ Subscribed(i) => i \in Listed
         /\ StillToDo(i) => Ready(i)
         /\ ~StillToDo(i) => DoneWith(i)
  /\ pc = "copy" => Matchable(tick.n, tick.tracks) \subseteq tick.rows[tick.n].ledger \cup tick.todo

NoPlaylistNoRow == \A i \in Subs : row[i].status = "none" => row[i].playlist = 0

SeenInv ==
  /\ Shape /\ Snaps /\ Importing /\ RowsCover /\ TickReads /\ Lists /\ Loops /\ NoPlaylistNoRow
  /\ pc \in {"idle"} \cup Reading \cup Working

-----------------------------------------------------------------------------
(* Requests carried out and answered with an error: they touch the playlists. *)

Resends ==
  \/ \E i \in Subs : ImportAddResent(i)
  \/ \E s \in Songs : BackResent(s) \/ CopyResent(s)

OnlyPlaylists ==
  /\ UNCHANGED <<made, sync, row, pc, tick, call, disturbed, leftOut, unrecorded, again>>
  /\ UNCHANGED <<taken, own, ownAdds, uncopied, changes, imports>>

LEMMA ResendsTouch ==
  ASSUME Loops, Resends
  PROVE  /\ OnlyPlaylists
         /\ faults < MaxFaults /\ faults' = faults + 1
         /\ Written(0) \/ \E i \in Subs : Written(i) /\ source' = source
<1>1. ASSUME NEW i \in Subs, ImportAddResent(i)
      PROVE  /\ OnlyPlaylists /\ faults < MaxFaults /\ faults' = faults + 1
             /\ Written(i) /\ source' = source
  BY <1>1 DEF ImportAddResent, OnlyPlaylists, tickVars
<1>2. ASSUME NEW s \in Songs, BackResent(s)
      PROVE  OnlyPlaylists /\ faults < MaxFaults /\ faults' = faults + 1 /\ Written(0)
  BY <1>2 DEF BackResent, OnlyPlaylists, tickVars
<1>3. ASSUME NEW s \in Songs, CopyResent(s)
      PROVE  /\ OnlyPlaylists /\ faults < MaxFaults /\ faults' = faults + 1
             /\ tick.n \in Subs /\ Written(tick.n) /\ source' = source
  <2>1. tick.n \in Subs
    BY <1>3 DEF CopyResent, Loops, Listed
  <2> QED BY <1>3, <2>1 DEF CopyResent, OnlyPlaylists, tickVars
<1> QED BY <1>1, <1>2, <1>3 DEF Resends

-----------------------------------------------------------------------------
(* The order in which the loops take the subscribers. *)

LEMMA SubsAreNumbers == Subs \subseteq Nat /\ 0 \notin Subs
  BY SubsAssumption DEF Subs

LEMMA MinOf ==
  ASSUME NEW S, S \subseteq Nat, S # {}
  PROVE  Min(S) \in S /\ \A y \in S : Min(S) <= y
<1>1. \E x \in S : \A y \in S : <<y, x>> \notin OpToRel(<, Nat)
  BY NatLessThanWellFounded, WFMin, Zenon
<1>2. PICK x \in S : \A y \in S : <<y, x>> \notin OpToRel(<, Nat)
  BY <1>1
<1>3. \A y \in S : ~(y < x)
  BY <1>2 DEF OpToRel
<1>4. \E z \in S : \A y \in S : z <= y
  BY <1>3
<1> QED BY <1>4 DEF Min

\* The tick is t but for where its loop is.
Same(t) ==
  /\ IsTick(tick')
  /\ tick'.mode = t.mode /\ tick'.stored = t.stored /\ tick'.rows = t.rows
  /\ tick'.snapshot = t.snapshot /\ tick'.tracks = t.tracks /\ tick'.prepared = t.prepared

LEMMA Cleaned ==
  ASSUME NEW t, IsTick(t), NEW n, NEW todo, NEW here,
         tick' = [[t EXCEPT !.todo = todo, !.added = {}, !.here = here] EXCEPT !.n = n]
  PROVE  Same(t) /\ tick'.n = n
<1>1. PICK u : u = [t EXCEPT !.todo = todo, !.added = {}, !.here = here]
  OBVIOUS
<1>2. /\ u.mode = t.mode /\ u.stored = t.stored /\ u.rows = t.rows
      /\ u.snapshot = t.snapshot /\ u.tracks = t.tracks /\ u.prepared = t.prepared
      /\ IsTick(u)
  BY <1>1 DEF IsTick
<1>3. tick' = [u EXCEPT !.n = n]
  BY <1>1
<1> QED BY <1>2, <1>3 DEF IsTick, Same

\* GoOn takes the next subscriber, starts the forward loop, or has done.
LEMMA GoesOn ==
  ASSUME NEW phase \in {"prepare", "forward"}, NEW t, IsTick(t), GoOn(phase, t)
  PROVE  /\ Same(t)
         /\ \/ /\ pc' = phase
               /\ tick'.n \in Listed /\ tick'.n > t.n
               /\ phase = "forward" => t.prepared[tick'.n]
               /\ \A j \in Listed : j > t.n /\ (phase = "prepare" \/ t.prepared[j]) => tick'.n <= j
            \/ /\ phase = "prepare" /\ pc' = "forward"
               /\ \A j \in Listed : ~(j > t.n)
               /\ tick'.n \in Listed /\ t.prepared[tick'.n]
               /\ \A j \in Listed : t.prepared[j] => tick'.n <= j
            \/ /\ pc' = "plan"
               /\ \A j \in Listed : j > t.n => phase = "forward" /\ ~t.prepared[j]
               /\ phase = "prepare" => \A j \in Listed : ~t.prepared[j]
<1> DEFINE rest == {j \in Listed : j > t.n /\ (phase = "prepare" \/ t.prepared[j])}
           ready == {j \in Listed : t.prepared[j]}
           clean == [t EXCEPT !.todo = {}, !.added = {}, !.here = {}]
<1>1. rest \subseteq Nat /\ ready \subseteq Nat
  BY SubsAreNumbers DEF Listed
<1>2. CASE rest # {}
  <2>1. pc' = phase /\ tick' = [clean EXCEPT !.n = Min(rest)]
    BY <1>2 DEF GoOn
  <2>2. Same(t) /\ tick'.n = Min(rest)
    BY <2>1, Cleaned
  <2>3. Min(rest) \in rest /\ \A y \in rest : Min(rest) <= y
    BY <1>1, <1>2, MinOf
  <2> QED BY <2>1, <2>2, <2>3
<1>3. CASE rest = {} /\ phase = "prepare" /\ ready # {}
  <2>1. pc' = "forward" /\ tick' = [clean EXCEPT !.n = Min(ready)]
    BY <1>3 DEF GoOn
  <2>2. Same(t) /\ tick'.n = Min(ready)
    BY <2>1, Cleaned
  <2>3. Min(ready) \in ready /\ \A y \in ready : Min(ready) <= y
    BY <1>1, <1>3, MinOf
  <2> QED BY <1>3, <2>1, <2>2, <2>3
<1>4. CASE rest = {} /\ ~(phase = "prepare" /\ ready # {})
  <2>1. pc' = "plan" /\ tick' = [clean EXCEPT !.n = 0]
    BY <1>4 DEF GoOn
  <2>2. Same(t) /\ tick'.n = 0
    BY <2>1, Cleaned
  <2> QED BY <1>4, <2>1, <2>2
<1> QED BY <1>2, <1>3, <1>4

-----------------------------------------------------------------------------
(* Shapes. *)

LEMMA SubsetsHold ==
  /\ \A p : Held(p) \subseteq Songs
  /\ \A i, S : Matchable(i, S) \subseteq S
  /\ OwnerSongs \subseteq Songs /\ NoSong \notin Songs
  BY SongsAssumption DEF Held, Matchable

LEMMA ShapeInit == Init => Shape
<1> SUFFICES ASSUME Init PROVE Shape
  OBVIOUS
<1> USE SubsetsHold DEF Init
<1>1. IsRow(NoRow)
  BY DEF IsRow, NoRow
<1>2. \A i \in Subs : Matchable(i, FirstSongs) \subseteq Songs
  BY SongsAssumption
<1>3. row = [i \in Subs |-> row[i]] /\ \A i \in Subs : IsRow(row[i])
  BY <1>1, <1>2 DEF IsRow, NoRow
<1>4. IsTick(tick)
  BY <1>1 DEF IsTick, IdleTick
<1>5. IsSync(sync)
  BY DEF IsSync
<1>6. call = [i \in Subs |-> call[i]] /\ \A i \in Subs : IsCall(call[i])
  BY DEF IsCall, IdleCall
<1> QED BY <1>3, <1>4, <1>5, <1>6 DEF Shape

LEMMA CallAdds ==
  ASSUME NEW c, IsCall(c), NEW at, NEW p, NEW ledger \in SUBSET Songs, NEW todo \in SUBSET Songs,
         NEW d, d = [c EXCEPT !.at = at, !.playlist = p, !.ledger = ledger, !.todo = todo]
  PROVE  IsCall(d)
  BY DEF IsCall

LEMMA CallEnds ==
  ASSUME NEW c, IsCall(c), NEW at, NEW got \in SUBSET Songs,
         NEW d, d = [c EXCEPT !.at = at, !.ledger = @ \cup got]
  PROVE  IsCall(d)
  BY DEF IsCall

LEMMA RowEnds ==
  ASSUME NEW v, IsRow(v), NEW p, NEW ledger \in SUBSET Songs,
         NEW w, w = [v EXCEPT !.status = "completed", !.playlist = p, !.ledger = ledger,
                              !.back = ledger, !.error = FALSE, !.ran = TRUE]
  PROVE  IsRow(w)
  BY DEF IsRow

LEMMA RowSet ==
  ASSUME NEW v, IsRow(v), NEW st, NEW snap, NEW e \in BOOLEAN,
         NEW w, \/ w = [v EXCEPT !.snapshot = snap, !.status = st, !.error = e]
                \/ w = [v EXCEPT !.status = st, !.error = e]
  PROVE  IsRow(w)
  BY DEF IsRow

LEMMA BothLedgersShape ==
  ASSUME NEW t, IsTick(t), NEW n, NEW s \in Songs
  PROVE  IsTick(BothLedgers(t, n, s))
<1>1. PICK R : R = [t.rows EXCEPT ![n].ledger = @ \cup {s}, ![n].back = @ \cup {s}]
  OBVIOUS
<1>2. R = [i \in Subs |-> R[i]] /\ \A i \in Subs : IsRow(R[i])
  <2>1. ASSUME NEW v, IsRow(v),
               NEW w, w = [[v EXCEPT !.ledger = @ \cup {s}] EXCEPT !.back = @ \cup {s}]
        PROVE  IsRow(w)
    BY <2>1 DEF IsRow
  <2>2. \A i \in Subs : IsRow(t.rows[i])
    BY DEF IsTick
  <2>3. t.rows = [i \in Subs |-> t.rows[i]]
    BY DEF IsTick
  <2>4. \A i \in Subs :
          R[i] = IF i = n THEN [[t.rows[i] EXCEPT !.ledger = @ \cup {s}] EXCEPT !.back = @ \cup {s}]
                 ELSE t.rows[i]
    BY <1>1, <2>3
  <2> QED BY <1>1, <2>1, <2>2, <2>3, <2>4
<1>3. BothLedgers(t, n, s) = [t EXCEPT !.rows = R]
  BY <1>1 DEF IsTick, BothLedgers
<1> QED BY <1>2, <1>3 DEF IsTick

LEMMA BackStarts ==
  ASSUME NEW t, IsTick(t), NEW n, NEW back, NEW todo,
         NEW u, u = [t EXCEPT !.rows[n].back = back, !.todo = todo]
  PROVE  IsTick(u)
<1>1. PICK R : R = [t.rows EXCEPT ![n].back = back]
  OBVIOUS
<1>2. ASSUME NEW v, IsRow(v) PROVE IsRow([v EXCEPT !.back = back])
  BY <1>2 DEF IsRow
<1>3. t.rows = [i \in Subs |-> t.rows[i]] /\ \A i \in Subs : IsRow(t.rows[i])
  BY DEF IsTick
<1>4. \A i \in Subs : R[i] = IF i = n THEN [t.rows[i] EXCEPT !.back = back] ELSE t.rows[i]
  BY <1>1, <1>3
<1>5. R = [i \in Subs |-> R[i]] /\ \A i \in Subs : IsRow(R[i])
  BY <1>1, <1>2, <1>3, <1>4
<1>6. u = [t EXCEPT !.rows = R, !.todo = todo]
  BY <1>1 DEF IsTick
<1> QED BY <1>5, <1>6 DEF IsTick

LEMMA ForwardStarts ==
  ASSUME NEW t, IsTick(t), NEW n, NEW ledger \in SUBSET Songs, NEW todo, NEW here,
         NEW u, u = [t EXCEPT !.rows[n].ledger = ledger, !.here = here, !.todo = todo]
  PROVE  IsTick(u)
<1>1. PICK R : R = [t.rows EXCEPT ![n].ledger = ledger]
  OBVIOUS
<1>2. ASSUME NEW v, IsRow(v) PROVE IsRow([v EXCEPT !.ledger = ledger])
  BY <1>2 DEF IsRow
<1>3. t.rows = [i \in Subs |-> t.rows[i]] /\ \A i \in Subs : IsRow(t.rows[i])
  BY DEF IsTick
<1>4. \A i \in Subs : R[i] = IF i = n THEN [t.rows[i] EXCEPT !.ledger = ledger] ELSE t.rows[i]
  BY <1>1, <1>3
<1>5. R = [i \in Subs |-> R[i]] /\ \A i \in Subs : IsRow(R[i])
  BY <1>1, <1>2, <1>3, <1>4
<1>6. u = [t EXCEPT !.rows = R, !.here = here, !.todo = todo]
  BY <1>1 DEF IsTick
<1> QED BY <1>5, <1>6 DEF IsTick

LEMMA IdleShapes == IsTick(IdleTick) /\ IsCall(IdleCall) /\ IsRow(NoRow)
<1>1. IsRow(NoRow)
  BY DEF IsRow, NoRow
<1> QED BY <1>1 DEF IsTick, IdleTick, IsCall, IdleCall

\* What the people and the imports do leaves the tick its shape.
LEMMA ShapePeople ==
  ASSUME Shape, People \/ Clock \/ \E i \in Subs : ImportStep(i) \/ ImportThrows(i)
  PROVE  Shape'
<1> USE SubsetsHold DEF Shape
<1>1. ASSUME NEW s \in OwnerSongs, OwnerAddsOrRemoves(s) PROVE Shape'
  BY <1>1 DEF OwnerAddsOrRemoves, Written, tickVars
<1>2. ASSUME NEW i \in Subs, NEW s \in Songs, SubscriberAddsOrRemoves(i, s) PROVE Shape'
  BY <1>2 DEF SubscriberAddsOrRemoves, Written, tickVars
<1>3. ASSUME NEW m \in Modes, SetMode(m) PROVE Shape'
  BY <1>3 DEF SetMode, IsSync, provVars, playVars, tickVars, history
<1>4. ASSUME NEW r \in BOOLEAN, SetRevoked(r) PROVE Shape'
  BY <1>4 DEF SetRevoked, IsSync, provVars, playVars, tickVars, history
<1>5. ASSUME NEW i \in Subs, Unsubscribe(i) PROVE Shape'
  BY <1>5, IdleShapes DEF Unsubscribe, provVars, playVars, tickVars, history
<1>6. ASSUME NEW i \in Subs, ImportBegin(i) PROVE Shape'
  <2>1. PICK c : c = [IdleCall EXCEPT !.at = "open", !.listed = Held(source)]
    OBVIOUS
  <2>2. IsCall(c)
    BY <2>1 DEF IsCall, IdleCall
  <2> QED BY <1>6, <2>1, <2>2 DEF ImportBegin, provVars, playVars, tickVars
<1>7. ASSUME NEW i \in Subs, ImportOpen(i) PROVE Shape'
  <2> DEFINE p == IF row[i].playlist = 0 THEN made[i] + 1 ELSE row[i].playlist
             work == Matchable(i, call[i].listed) \ row[i].ledger
  <2>1. /\ call' = [call EXCEPT ![i].at = "add", ![i].playlist = p,
                                 ![i].ledger = row[i].ledger, ![i].todo = work]
        /\ row' = row \/ row' = [row EXCEPT ![i].status = "pending", ![i].playlist = p]
    BY <1>7 DEF ImportOpen
  <2> HIDE DEF p
  <2>2. call' = [j \in Subs |-> call'[j]] /\ \A j \in Subs : IsCall(call'[j])
    <3>1. work \subseteq Songs /\ row[i].ledger \subseteq Songs
      BY DEF IsCall, IsRow
    <3> HIDE DEF work
    <3>2. PICK c : c = [call[i] EXCEPT !.at = "add", !.playlist = p, !.ledger = row[i].ledger,
                                       !.todo = work]
      OBVIOUS
    <3>3. IsCall(c)
      BY <3>1, <3>2, CallAdds
    <3>4. call' = [call EXCEPT ![i] = c]
      BY <2>1, <3>2
    <3> QED BY <3>3, <3>4
  <2>3. row' = [j \in Subs |-> row'[j]] /\ \A j \in Subs : IsRow(row'[j])
    BY <2>1 DEF IsRow
  <2> QED BY <1>7, <2>2, <2>3 DEF ImportOpen, playVars, tickVars, history
<1>8. ASSUME NEW i \in Subs, ImportAdd(i) PROVE Shape'
  <2>1. PICK got \in SUBSET call[i].todo :
          /\ Written(i)
          /\ call' = [call EXCEPT ![i].at = "end", ![i].ledger = @ \cup got]
          /\ leftOut' = [leftOut EXCEPT ![i] = @ \cup (call[i].todo \ got)]
    BY <1>8 DEF ImportAdd
  <2>2. call' = [j \in Subs |-> call'[j]] /\ \A j \in Subs : IsCall(call'[j])
    <3>1. PICK c : c = [call[i] EXCEPT !.at = "end", !.ledger = @ \cup got]
      OBVIOUS
    <3>2. IsCall(c)
      <4>1. got \in SUBSET Songs /\ IsCall(call[i])
        BY DEF IsCall
      <4> QED BY <3>1, <4>1, CallEnds
    <3>3. call' = [call EXCEPT ![i] = c]
      BY <2>1, <3>1
    <3> QED BY <3>2, <3>3
  <2>3. version' \in [{0} \cup Subs -> Nat]
    BY <2>1 DEF Written
  <2> QED BY <1>8, <2>1, <2>2, <2>3 DEF ImportAdd, tickVars
<1>9. ASSUME NEW i \in Subs, ImportEnd(i) PROVE Shape'
  <2>1. row' = [j \in Subs |-> row'[j]] /\ \A j \in Subs : IsRow(row'[j])
    <3>1. PICK w : w = [row[i] EXCEPT !.status = "completed", !.playlist = call[i].playlist,
                                      !.ledger = call[i].ledger, !.back = call[i].ledger,
                                      !.error = FALSE, !.ran = TRUE]
      OBVIOUS
    <3>2. IsRow(w)
      <4>1. call[i].ledger \in SUBSET Songs /\ IsRow(row[i])
        BY DEF IsCall
      <4> QED BY <3>1, <4>1, RowEnds
    <3>3. row' = [row EXCEPT ![i] = w]
      BY <1>9, <3>1 DEF ImportEnd
    <3> QED BY <3>2, <3>3
  <2> QED BY <1>9, <2>1, IdleShapes DEF ImportEnd, provVars, playVars, tickVars, history
<1>10. ASSUME NEW i \in Subs, ImportThrows(i) PROVE Shape'
  BY <1>10, IdleShapes DEF ImportThrows, provVars, playVars, tickVars
<1>11. ASSUME Clock PROVE Shape'
  BY <1>11 DEF Clock, IsSync, provVars, playVars, tickVars, history
<1> QED BY <1>1, <1>2, <1>3, <1>4, <1>5, <1>6, <1>7, <1>8, <1>9, <1>10, <1>11 DEF People, ImportStep

LEMMA ShapeTick ==
  ASSUME Shape, Loops,
         \/ Tick \/ TickStep \/ TickFails \/ ImportFails \/ Restart \/ Resends
         \/ \E s \in Songs : BackRefused(s) \/ CopyRefused(s)
  PROVE  Shape'
<1> USE SubsetsHold DEF Shape
<1>1. CASE Tick
  BY <1>1, IdleShapes DEF Tick, IsTick, IdleTick, provVars, playVars
<1>2. CASE ReadSnapshot
  BY <1>2 DEF ReadSnapshot, IsTick, provVars, playVars, history
<1>3. CASE ListSource
  BY <1>3 DEF ListSource, IsTick, provVars, playVars, history
<1>4. CASE ReadRecipient
  BY <1>4 DEF ReadRecipient, IsTick, provVars, playVars, history
<1>5. CASE ListSourceLate
  BY <1>5 DEF ListSourceLate, IsTick, provVars, playVars, history
<1>6. CASE StoreSnapshot
  <2>1. IsTick(tick')
    BY <1>6, IdleShapes DEF StoreSnapshot, IsTick
  <2> QED BY <1>6, <2>1 DEF StoreSnapshot, IsSync, provVars, playVars, history
<1>7. CASE SkipImport
  <2>1. PICK w : w = [row[tick.n] EXCEPT !.snapshot = Snapshot(tick.n), !.status = "completed",
                                         !.error = FALSE]
    OBVIOUS
  <2>2. Subscribed(tick.n) /\ tick.n \in Subs => IsRow(w)
    BY <2>1, RowSet
  <2>3. UpdateRow(tick.n, w) /\ GoOn("prepare", tick)
    BY <1>7, <2>1 DEF SkipImport
  <2>4. row' = [j \in Subs |-> row'[j]] /\ \A j \in Subs : IsRow(row'[j])
    BY <2>2, <2>3 DEF UpdateRow
  <2>5. IsTick(tick')
    BY <2>3, GoesOn DEF Same
  <2> QED BY <1>7, <2>4, <2>5 DEF SkipImport, provVars, playVars, history
<1>8. CASE PrepareForward
  <2>1. PICK t : t = [tick EXCEPT !.prepared[tick.n] = TRUE]
    OBVIOUS
  <2>2. IsTick(t)
    BY <2>1 DEF IsTick
  <2>3. IsTick(tick')
    BY <1>8, <2>1, <2>2, GoesOn DEF Same, PrepareForward
  <2> QED BY <1>8, <2>3 DEF PrepareForward, provVars, playVars, history
<1>9. CASE StartBack
  <2>1. PICK back, todo : tick' = [tick EXCEPT !.rows[tick.n].back = back, !.todo = todo]
    BY <1>9 DEF StartBack
  <2>2. IsTick(tick')
    BY <2>1, BackStarts
  <2> QED BY <1>9, <2>2 DEF StartBack, provVars, playVars, history
<1>10. ASSUME NEW s \in Songs, BackOne(s) \/ BackRefused(s) PROVE Shape'
  <2>1. PICK t : t = [tick EXCEPT !.todo = @ \ {s}]
    OBVIOUS
  <2>2. IsTick(t) /\ IsTick(BothLedgers(t, tick.n, s))
    <3>1. IsTick(t)
      BY <2>1 DEF IsTick
    <3> QED BY <3>1, BothLedgersShape
  <2>3. PICK u : u = BothLedgers(t, tick.n, s)
    OBVIOUS
  <2>4. tick' \in {t, u, [u EXCEPT !.added = @ \cup {s}]}
    BY <1>10, <2>1, <2>3 DEF BackOne, BackRefused
  <2>5. IsTick(tick')
    BY <2>2, <2>3, <2>4 DEF IsTick
  <2>6. version' \in [{0} \cup Subs -> Nat]
    BY <1>10 DEF BackOne, BackRefused, Written, provVars, playVars
  <2> QED BY <1>10, <2>5, <2>6 DEF BackOne, BackRefused, history
<1>11. CASE EndBack
  <2>1. PICK t : t = [tick EXCEPT !.prepared[tick.n] = TRUE, !.tracks = @ \cup tick.added,
                                  !.grew = @ \/ tick.added # {}]
    OBVIOUS
  <2>2. IsTick(t)
    BY <2>1 DEF IsTick
  <2>3. IsTick(tick')
    BY <1>11, <2>1, <2>2, GoesOn DEF Same, EndBack
  <2> QED BY <1>11, <2>3 DEF EndBack, provVars, playVars, history
<1>12. CASE StartForward
  <2>1. tick.n \in Subs
    BY <1>12 DEF Loops, Listed, StartForward
  <2> DEFINE old == tick.rows[tick.n]
             ledger == IF Adopts(tick.n, old.ledger) THEN tick.tracks ELSE old.ledger
  <2>2. ledger \in SUBSET Songs
    BY <2>1 DEF IsTick, IsRow
  <2>3. PICK todo, here :
          tick' = [tick EXCEPT !.rows[tick.n].ledger = ledger, !.here = here, !.todo = todo]
    BY <1>12 DEF StartForward
  <2> HIDE DEF ledger
  <2>4. IsTick(tick')
    BY <2>2, <2>3, ForwardStarts
  <2> QED BY <1>12, <2>4 DEF StartForward, provVars, playVars, history
<1>13. ASSUME NEW s \in Songs, CopyOne(s) \/ CopyRefused(s) PROVE Shape'
  <2>1. PICK t : t = BothLedgers(tick, tick.n, s)
    OBVIOUS
  <2>2. IsTick(t)
    BY <2>1, BothLedgersShape
  <2>3. PICK todo, here : tick' = [t EXCEPT !.todo = todo, !.here = here]
    BY <1>13, <2>1 DEF CopyOne, CopyRefused, CopyRecorded
  <2>4. IsTick(tick')
    BY <2>2, <2>3 DEF IsTick
  <2>5. version' \in [{0} \cup Subs -> Nat]
    BY <1>13 DEF CopyOne, CopyRefused, Written, provVars, playVars
  <2> QED BY <1>13, <2>4, <2>5 DEF CopyOne, CopyRefused, history
<1>14. CASE SaveRow
  <2>1. PICK old : old = tick.rows[tick.n]
    OBVIOUS
  <2>2. PICK w : w = [status |-> "completed", playlist |-> old.playlist, ledger |-> old.ledger,
                      back |-> old.back, snapshot |-> Snapshot(tick.n), error |-> FALSE,
                      ran |-> TRUE]
    OBVIOUS
  <2>3. tick.n \in Subs => IsRow(w)
    BY <2>1, <2>2 DEF IsRow, IsTick
  <2>4. UpdateRow(tick.n, w) /\ GoOn("forward", tick)
    BY <1>14, <2>1, <2>2 DEF SaveRow
  <2>5. row' = [j \in Subs |-> row'[j]] /\ \A j \in Subs : IsRow(row'[j])
    BY <2>3, <2>4 DEF UpdateRow
  <2>6. IsTick(tick')
    BY <2>4, GoesOn DEF Same
  <2> QED BY <1>14, <2>5, <2>6 DEF SaveRow, provVars, playVars, history
<1>15. CASE ImportFails
  <2>1. PICK t : t = [tick EXCEPT !.failed = TRUE, !.prepared[tick.n] = FALSE]
    OBVIOUS
  <2>2. IsTick(t)
    BY <2>1 DEF IsTick
  <2>3. PICK phase \in {"prepare", "forward"} : GoOn(phase, t)
    BY <1>15, <2>1 DEF ImportFails
  <2>4. IsTick(tick')
    BY <2>2, <2>3, GoesOn DEF Same
  <2>5. PICK w : w = Failed(row[tick.n])
    OBVIOUS
  <2>6. tick.n \in Subs => IsRow(w)
    BY <2>5, RowSet DEF Failed
  <2>7. UpdateRow(tick.n, w)
    BY <1>15, <2>5 DEF ImportFails
  <2>8. row' = [j \in Subs |-> row'[j]] /\ \A j \in Subs : IsRow(row'[j])
    BY <2>6, <2>7 DEF UpdateRow
  <2> QED BY <1>15, <2>4, <2>8 DEF ImportFails, provVars, playVars, history
<1>16. CASE PlanNextPoll
  BY <1>16, IdleShapes DEF PlanNextPoll, IsSync, provVars, playVars, history
<1>17. CASE TickFails
  BY <1>17, IdleShapes DEF TickFails, IsSync, provVars, playVars, history
<1>18. CASE Restart
  BY <1>18, IdleShapes DEF Restart, provVars, playVars
<1>19. CASE Resends
  BY <1>19, ResendsTouch DEF OnlyPlaylists, Written
<1> QED BY <1>1, <1>2, <1>3, <1>4, <1>5, <1>6, <1>7, <1>8, <1>9, <1>10, <1>11, <1>12, <1>13, <1>14,
           <1>15, <1>16, <1>17, <1>18, <1>19 DEF TickStep

-----------------------------------------------------------------------------
(* What no step takes back. *)

\* Reports and disturbances stay, and a change of the owner's playlist on
\* Spotify is a new version of it.
Onward ==
  /\ \A i \in Subs : leftOut[i] \subseteq leftOut'[i] /\ (disturbed[i] => disturbed'[i])
  /\ \/ version'[0] = version[0] /\ (0 \in Spotify => source' = source)
     \/ version'[0] > version[0]
     \/ 0 \notin Spotify

LEMMA WrittenGoesOn ==
  ASSUME Shape, NEW i, Written(i)
  PROVE  0 \in Spotify => IF i = 0 THEN version'[0] > version[0] ELSE version'[0] >= version[0]
  BY DEF Shape, Written

LEMMA StepGoesOn ==
  ASSUME Shape, Loops, Next
  PROVE  Onward
<1> USE SubsAreNumbers
<1>1. ASSUME UNCHANGED <<leftOut, disturbed>>,
             UNCHANGED <<source, version>> \/ Written(0) \/ \E i \in Subs : Written(i) /\ source' = source
      PROVE  Onward
  BY <1>1, WrittenGoesOn DEF Onward, Shape, Written
<1>2. ASSUME NEW s \in OwnerSongs, OwnerAddsOrRemoves(s) PROVE Onward
  BY <1>1, <1>2 DEF OwnerAddsOrRemoves
<1>3. ASSUME NEW i \in Subs, NEW s \in Songs, SubscriberAddsOrRemoves(i, s) PROVE Onward
  BY <1>1, <1>3 DEF SubscriberAddsOrRemoves
<1>4. ASSUME (\E m \in Modes : SetMode(m)) \/ (\E r \in BOOLEAN : SetRevoked(r))
             \/ (\E i \in Subs : Unsubscribe(i)) \/ Clock
      PROVE  Onward
  BY <1>1, <1>4 DEF SetMode, SetRevoked, Unsubscribe, Clock, provVars, playVars, history
<1>5. ASSUME NEW i \in Subs, ImportBegin(i) PROVE Onward
  BY <1>5 DEF ImportBegin, Onward, provVars, playVars, Shape
<1>6. ASSUME NEW i \in Subs, ImportOpen(i) \/ ImportEnd(i) PROVE Onward
  BY <1>1, <1>6 DEF ImportOpen, ImportEnd, provVars, playVars, history
<1>7. ASSUME NEW i \in Subs, ImportAdd(i) PROVE Onward
  <2>1. PICK more : leftOut' = [leftOut EXCEPT ![i] = @ \cup more]
    BY <1>7 DEF ImportAdd
  <2>2. Written(i) /\ source' = source /\ disturbed' = disturbed
    BY <1>7 DEF ImportAdd
  <2>3. 0 \in Spotify => version'[0] = version[0] \/ version'[0] > version[0]
    BY <2>2, WrittenGoesOn DEF Shape, Written
  <2> QED BY <2>1, <2>2, <2>3 DEF Onward, Shape
<1>8. ASSUME NEW i \in Subs, ImportThrows(i) PROVE Onward
  BY <1>8 DEF ImportThrows, Onward, provVars, playVars, Shape
<1>9. CASE Tick
  BY <1>9 DEF Tick, Onward, provVars, playVars, Shape
<1>10. ASSUME NEW s \in Songs, BackOne(s) \/ BackRefused(s) PROVE Onward
  BY <1>1, <1>10 DEF BackOne, BackRefused, provVars, playVars, history
<1>11. ASSUME NEW s \in Songs, CopyOne(s) PROVE Onward
  <2>1. tick.n \in Subs
    BY <1>11 DEF CopyOne, Loops, Listed
  <2> QED BY <1>1, <1>11, <2>1 DEF CopyOne, history
<1>16. ASSUME NEW s \in Songs, CopyRefused(s) PROVE Onward
  BY <1>1, <1>16 DEF CopyRefused, provVars, playVars
<1>17. CASE Resends
  BY <1>1, <1>17, ResendsTouch DEF OnlyPlaylists
<1>12. CASE Restart
  BY <1>12 DEF Restart, Onward, provVars, playVars, Shape
<1>13. CASE ReadSnapshot \/ ListSource \/ ReadRecipient \/ ListSourceLate \/ StoreSnapshot
  BY <1>1, <1>13 DEF ReadSnapshot, ListSource, ReadRecipient, ListSourceLate, StoreSnapshot,
     provVars, playVars, history
<1>14. CASE SkipImport \/ PrepareForward \/ StartBack \/ EndBack \/ StartForward \/ SaveRow
  BY <1>1, <1>14 DEF SkipImport, PrepareForward, StartBack, EndBack, StartForward, SaveRow,
     provVars, playVars, history
<1>15. CASE PlanNextPoll \/ TickFails \/ ImportFails
  BY <1>1, <1>15 DEF PlanNextPoll, TickFails, ImportFails, provVars, playVars, history
<1> QED BY <1>2, <1>3, <1>4, <1>5, <1>6, <1>7, <1>8, <1>9, <1>10, <1>11, <1>12, <1>13, <1>14, <1>15,
           <1>16, <1>17 DEF Next, People, TickStep, Fault, ImportStep, Resends

LEMMA OutdatedStays ==
  ASSUME Shape, Shape', Onward, NEW snap, snap[1] \in Nat, Outdated(snap)
  PROVE  Outdated(snap)'
<1>1. version[0] \in Nat /\ version'[0] \in Nat
  BY DEF Shape
<1> QED BY <1>1 DEF Onward, Outdated

LEMMA CurrentStays ==
  ASSUME Shape, Shape', Onward, NEW snap, Current(snap)
  PROVE  Current(snap)'
<1>1. version[0] \in Nat /\ version'[0] \in Nat
  BY DEF Shape
<1> QED BY <1>1, OutdatedStays DEF Onward, Outdated, Current

LEMMA CoversStays ==
  ASSUME Shape, Shape', Onward, NEW snap, Current(snap), NEW i \in Subs,
         NEW ledger, NEW more, ledger \subseteq more, Covers(i, ledger, snap)
  PROVE  Covers(i, more, snap)'
<1>1. Outdated(snap) => Outdated(snap)'
  BY OutdatedStays DEF Current, Outdated
<1> QED BY <1>1 DEF Covers, Matchable, Onward

LEMMA CurrentNow == Shape => Current(SnapshotOf(0, source)) /\ Current(Unseen)
  BY SubsAreNumbers, SongsAssumption DEF Shape, Current, SnapshotOf, Unseen, Held, Outdated

-----------------------------------------------------------------------------
(* The parts of the invariant under steps that do not concern them. *)

LEMMA SnapsStay ==
  ASSUME SeenInv, Shape', Onward,
         sync'.snapshot \in {sync.snapshot, tick.snapshot},
         tick'.snapshot \in {tick.snapshot, SnapshotOf(0, source), Unseen, sync.snapshot},
         tick'.stored \in {tick.stored, sync.snapshot, Unseen}
  PROVE  Snaps'
<1>1. Current(sync.snapshot) /\ Current(tick.snapshot) /\ Current(tick.stored)
  BY DEF SeenInv, Snaps
<1>2. Current(SnapshotOf(0, source)) /\ Current(Unseen)
  BY CurrentNow DEF SeenInv
<1>3. ASSUME NEW snap, Current(snap)
      PROVE  0 \in Spotify =>
               /\ snap[1] \in Nat
               /\ \/ 0 \in Spotify /\ snap[1] < version'[0]
                  \/ snap[1] = version'[0] /\ snap[2] \cap Songs \subseteq Held(source)'
  BY <1>3, CurrentStays DEF SeenInv, Current, Outdated
<1> HIDE DEF SeenInv
<1>4. Current(sync.snapshot)' /\ Current(tick.snapshot)' /\ Current(tick.stored)'
  BY <1>1, <1>2, <1>3 DEF Current, Outdated
<1> QED BY <1>4 DEF Snaps

\* While the tick and what is stored as seen are left alone, so is all that is
\* said of the tick; rows may go.
LEMMA TickUntouched ==
  ASSUME SeenInv, Shape', Onward, UNCHANGED <<pc, tick>>, sync'.snapshot = sync.snapshot,
         \A i \in Subs : ~disturbed'[i] /\ pc # "idle" => row'[i] = row[i] \/ ~Subscribed(i)'
  PROVE  Snaps' /\ TickReads' /\ Lists' /\ Loops' /\ (pc \in {"idle"} \cup Reading \cup Working)'
<1>1. Snaps'
  BY SnapsStay DEF SeenInv
<1>2. \A i \in Subs : ~disturbed'[i] => ~disturbed[i]
  BY DEF Onward
<1>3. TickReads'
  BY <1>2 DEF SeenInv, TickReads, Subscribed, Reading
<1>4. 0 \in Spotify => tick.snapshot[1] \in Nat
  BY DEF SeenInv, Snaps, Current
<1>5. Outdated(tick.snapshot) => Outdated(tick.snapshot)'
  BY <1>4, OutdatedStays DEF SeenInv, Outdated
<1>6. Lists'
  BY <1>5 DEF SeenInv, Lists, Listed, SourceChanged, RetryFailed, Retry, Reading, Working
<1>7. ASSUME NEW i \in Subs, ~disturbed'[i], Subscribed(i)', pc # "idle"
      PROVE  /\ ~disturbed[i] /\ Subscribed(i) /\ row'[i] = row[i]
             /\ Covers(i, row[i].ledger, tick.snapshot) => Covers(i, row[i].ledger, tick.snapshot)'
  <2>1. ~disturbed[i] /\ Subscribed(i) /\ row'[i] = row[i]
    BY <1>2, <1>7 DEF Subscribed
  <2>2. ASSUME Covers(i, row[i].ledger, tick.snapshot)
        PROVE  Covers(i, row[i].ledger, tick.snapshot)'
    BY <2>1, <2>2, <1>5 DEF Covers, Onward, Matchable
  <2> QED BY <2>1, <2>2
<1>8. Loops'
  <2>1. Listed' = Listed
    BY DEF Listed
  <2>2. ASSUME pc \in Working, NEW i \in Subs, ~disturbed'[i]
        PROVE  /\ Subscribed(i)' => i \in Listed
               /\ StillToDo(i) => Ready(i)'
               /\ ~StillToDo(i) => DoneWith(i)'
    <3>1. CASE ~Subscribed(i)'
      BY <3>1 DEF Ready, DoneWith
    <3>2. CASE Subscribed(i)'
      <4>1. /\ ~disturbed[i] /\ Subscribed(i) /\ row'[i] = row[i]
            /\ Covers(i, row[i].ledger, tick.snapshot) => Covers(i, row[i].ledger, tick.snapshot)'
        BY <1>7, <2>2, <3>2 DEF Working
      <4>2. /\ i \in Listed
            /\ StillToDo(i) => Ready(i)
            /\ ~StillToDo(i) => DoneWith(i)
        BY <2>2, <4>1 DEF SeenInv, Loops
      <4>3. StillToDo(i) => Ready(i)'
        BY <4>1, <4>2 DEF Ready, SourceChanged, Retry
      <4>4. ~StillToDo(i) => DoneWith(i)'
        BY <4>1, <4>2 DEF DoneWith
      <4> QED BY <4>2, <4>3, <4>4
    <3> QED BY <3>1, <3>2
  <2>3. \A i : StillToDo(i)' <=> StillToDo(i)
    BY DEF StillToDo
  <2> QED BY <2>1, <2>2, <2>3 DEF SeenInv, Loops
<1> QED BY <1>1, <1>3, <1>6, <1>8 DEF SeenInv

\* While imports, reports and the rest of a row that stays are left alone, so is
\* what is said of them.
LEMMA RowsUntouched ==
  ASSUME SeenInv, Shape', Onward, call' = call,
         pc' = pc \/ {pc, pc'} \subseteq {"idle"} \cup Reading \/ {pc, pc'} \subseteq Working,
         pc = "idle" => pc' = pc, sync'.snapshot = sync.snapshot,
         pc \notin Working => \A i \in Subs : row'[i] = row[i] \/ ~Subscribed(i)'
  PROVE  Importing' /\ RowsCover'
<1>1. \A i \in Subs : ~disturbed'[i] => ~disturbed[i]
  BY DEF Onward
<1>2. 0 \in Spotify => sync.snapshot[1] \in Nat
  BY DEF SeenInv, Snaps, Current
<1>3. Outdated(sync.snapshot) => Outdated(sync.snapshot)'
  BY <1>2, OutdatedStays DEF SeenInv, Outdated
<1>4. \A i \in Subs : leftOut[i] \subseteq leftOut'[i]
  BY DEF Onward
<1>5. Importing'
  BY <1>1, <1>3, <1>4 DEF SeenInv, Importing, Outdated, Matchable
<1>6. ASSUME NEW i \in Subs, pc' \in {"idle"} \cup Reading, ~disturbed'[i], call'[i].at = "idle",
             Subscribed(i)', ~row'[i].error
      PROVE  Covers(i, row[i].ledger, sync.snapshot)' /\ row'[i] = row[i]
  <2>1. pc \in {"idle"} \cup Reading
    BY <1>6 DEF Reading, Working
  <2>2. row'[i] = row[i]
    BY <1>6, <2>1 DEF Reading, Working
  <2>3. Covers(i, row[i].ledger, sync.snapshot)
    BY <1>1, <1>6, <2>1, <2>2 DEF SeenInv, RowsCover, Subscribed
  <2> QED BY <1>3, <1>4, <2>2, <2>3 DEF Covers, Matchable
<1>7. RowsCover'
  BY <1>6 DEF RowsCover
<1> QED BY <1>5, <1>7

-----------------------------------------------------------------------------
(* Owner, subscribers, routes and imports. *)

LEMMA PeopleKeep ==
  ASSUME SeenInv, Shape', Onward,
         \/ \E s \in OwnerSongs : OwnerAddsOrRemoves(s)
         \/ \E i \in Subs : \E s \in Songs : SubscriberAddsOrRemoves(i, s)
         \/ \E m \in Modes : SetMode(m)
         \/ \E r \in BOOLEAN : SetRevoked(r)
         \/ \E i \in Subs : Unsubscribe(i)
         \/ Clock \/ Resends
  PROVE  SeenInv'
<1>10. Resends => UNCHANGED <<pc, tick, call, sync, row>>
  BY ResendsTouch DEF SeenInv, OnlyPlaylists
<1>1. /\ UNCHANGED <<pc, tick, call>>
      /\ sync' = sync \/ (\E m : sync' = [sync EXCEPT !.mode = m])
         \/ (\E r : sync' = [sync EXCEPT !.revoked = r]) \/ sync' = [sync EXCEPT !.wait = @ - 1]
      /\ row' = row \/ \E i \in Subs : row' = [row EXCEPT ![i] = NoRow]
  BY <1>10 DEF OwnerAddsOrRemoves, SubscriberAddsOrRemoves, SetMode, SetRevoked, Unsubscribe,
     Clock, tickVars
<1>2. sync'.snapshot = sync.snapshot
  BY <1>1 DEF SeenInv, Shape, IsSync
<1>3. \A i \in Subs : row'[i] = row[i] \/ row'[i] = NoRow
  BY <1>1 DEF SeenInv, Shape
<1>4. NoRow.status = "none" /\ NoRow.playlist = 0
  BY DEF NoRow
<1>5. \A i \in Subs : row'[i] = row[i] \/ ~Subscribed(i)'
  BY <1>3, <1>4 DEF Subscribed
<1>6. NoPlaylistNoRow'
  BY <1>3, <1>4 DEF SeenInv, NoPlaylistNoRow
<1>7. Importing' /\ RowsCover'
  BY <1>1, <1>2, <1>5, RowsUntouched
<1>8. Snaps' /\ TickReads' /\ Lists' /\ Loops' /\ (pc \in {"idle"} \cup Reading \cup Working)'
  BY <1>1, <1>2, <1>5, TickUntouched
<1> QED BY <1>6, <1>7, <1>8 DEF SeenInv

\* What an import does to its own row, and only that, is left to show.
LEMMA ImportKeeps ==
  ASSUME SeenInv, Shape', Onward, NEW i \in Subs, UNCHANGED <<pc, tick>>,
         sync'.snapshot = sync.snapshot,
         \A j \in Subs : j # i => row'[j] = row[j] /\ call'[j] = call[j],
         call[i].at # "idle" \/ row'[i] = row[i],
         row'[i].status = "none" => row'[i].playlist = 0,
         ~disturbed'[i] /\ call'[i].at # "idle" =>
           /\ pc = "idle"
           /\ call'[i].at \in {"open", "add", "end"}
           /\ sync.snapshot[2] \cap Songs \subseteq call'[i].listed \/ Outdated(sync.snapshot)
           /\ call'[i].at = "add" =>
                Matchable(i, call'[i].listed) \subseteq call'[i].ledger \cup call'[i].todo
           /\ call'[i].at = "end" =>
                Matchable(i, call'[i].listed) \subseteq call'[i].ledger \cup leftOut'[i],
         ~disturbed'[i] /\ call'[i].at = "idle" /\ Subscribed(i)' /\ ~row'[i].error =>
           \/ Matchable(i, sync.snapshot[2] \cap Songs) \subseteq row'[i].ledger \cup leftOut'[i]
           \/ Outdated(sync.snapshot)
  PROVE  SeenInv'
<1>1. \A j \in Subs : ~disturbed'[j] => ~disturbed[j]
  BY DEF Onward
<1>2. ASSUME NEW j \in Subs, ~disturbed'[j], pc # "idle" PROVE row'[j] = row[j]
  BY <1>1, <1>2 DEF SeenInv, Importing
<1>3. Snaps' /\ TickReads' /\ Lists' /\ Loops' /\ (pc \in {"idle"} \cup Reading \cup Working)'
  BY <1>2, TickUntouched
<1>4. 0 \in Spotify => sync.snapshot[1] \in Nat
  BY DEF SeenInv, Snaps, Current
<1>5. Outdated(sync.snapshot) => Outdated(sync.snapshot)'
  BY <1>4, OutdatedStays DEF SeenInv, Outdated
<1>6. \A j \in Subs : leftOut[j] \subseteq leftOut'[j]
  BY DEF Onward
<1>7. Importing'
  <2>1. ASSUME NEW j \in Subs, j # i, ~disturbed'[j], call'[j].at # "idle"
        PROVE  /\ pc = "idle"
               /\ call[j].at \in {"open", "add", "end"}
               /\ sync.snapshot[2] \cap Songs \subseteq call[j].listed \/ Outdated(sync.snapshot)
               /\ call[j].at = "add" =>
                    Matchable(j, call[j].listed) \subseteq call[j].ledger \cup call[j].todo
               /\ call[j].at = "end" =>
                    Matchable(j, call[j].listed) \subseteq call[j].ledger \cup leftOut'[j]
    BY <1>1, <1>6, <2>1 DEF SeenInv, Importing
  <2> QED BY <1>5, <2>1 DEF Importing, Outdated, Matchable
<1>8. RowsCover'
  <2>1. ASSUME NEW j \in Subs, j # i, pc \in {"idle"} \cup Reading, ~disturbed'[j],
               call'[j].at = "idle", Subscribed(j)', ~row'[j].error
        PROVE  Covers(j, row[j].ledger, sync.snapshot) /\ row'[j] = row[j]
    BY <1>1, <2>1 DEF SeenInv, RowsCover, Subscribed
  <2> QED BY <1>5, <1>6, <2>1 DEF RowsCover, Covers, Outdated, Matchable
<1>9. NoPlaylistNoRow'
  BY DEF SeenInv, NoPlaylistNoRow
<1> QED BY <1>3, <1>7, <1>8, <1>9 DEF SeenInv

LEMMA ImportStepKeeps ==
  ASSUME SeenInv, Shape', Onward, NEW i \in Subs, ImportStep(i) \/ ImportBegin(i) \/ ImportThrows(i)
  PROVE  SeenInv'
<1> DEFINE c == call[i]
<1>1. /\ call = [j \in Subs |-> call[j]] /\ row = [j \in Subs |-> row[j]]
      /\ leftOut = [j \in Subs |-> leftOut[j]] /\ disturbed \in [Subs -> BOOLEAN]
      /\ IsCall(c) /\ IsRow(row[i])
  BY DEF SeenInv, Shape
<1>2. ~disturbed[i] /\ c.at # "idle" =>
        /\ pc = "idle"
        /\ sync.snapshot[2] \cap Songs \subseteq c.listed \/ Outdated(sync.snapshot)
        /\ c.at = "add" => Matchable(i, c.listed) \subseteq c.ledger \cup c.todo
        /\ c.at = "end" => Matchable(i, c.listed) \subseteq c.ledger \cup leftOut[i]
  BY DEF SeenInv, Importing
<1>3. row[i].status = "none" => row[i].playlist = 0
  BY DEF SeenInv, NoPlaylistNoRow
<1>4. CASE ImportBegin(i)
  <2>1. PICK d : d = [IdleCall EXCEPT !.at = "open", !.listed = Held(source)]
    OBVIOUS
  <2>2. d.at = "open" /\ d.listed = Held(source)
    BY <2>1 DEF IdleCall
  <2>3. /\ call' = [call EXCEPT ![i] = d]
        /\ disturbed' = [disturbed EXCEPT ![i] = @ \/ pc # "idle" \/ CanComeBack]
        /\ UNCHANGED <<pc, tick, sync, row, leftOut>>
    BY <1>4, <2>1 DEF ImportBegin, tickVars
  <2>4. ~disturbed'[i] => pc = "idle" /\ ~CanComeBack
    BY <1>1, <2>3
  <2>5. Current(sync.snapshot)
    BY DEF SeenInv, Snaps
  <2>6. ~CanComeBack => sync.snapshot[2] \cap Songs \subseteq Held(source) \/ Outdated(sync.snapshot)
    BY <2>5 DEF CanComeBack, SnapshotOf, Current
  <2>7. call'[i] = d /\ \A j \in Subs : j # i => call'[j] = call[j]
    BY <1>1, <2>3
  <2> QED BY <1>3, <2>2, <2>3, <2>4, <2>6, <2>7, ImportKeeps
<1>5. CASE ImportOpen(i)
  <2> DEFINE p == IF row[i].playlist = 0 THEN made[i] + 1 ELSE row[i].playlist
             work == Matchable(i, c.listed) \ row[i].ledger
  <2>1. /\ c.at = "open"
        /\ call' = [call EXCEPT ![i].at = "add", ![i].playlist = p,
                                 ![i].ledger = row[i].ledger, ![i].todo = work]
        /\ row' = row \/ row' = [row EXCEPT ![i].status = "pending", ![i].playlist = p]
        /\ UNCHANGED <<pc, tick, sync, leftOut, disturbed>>
    BY <1>5 DEF ImportOpen, tickVars, history
  <2> HIDE DEF p
  <2>2. /\ call'[i].at = "add" /\ call'[i].listed = c.listed
        /\ call'[i].ledger = row[i].ledger /\ call'[i].todo = work
        /\ \A j \in Subs : j # i => call'[j] = call[j]
    BY <1>1, <2>1 DEF IsCall
  <2>3. row' = row \/ row' = [row EXCEPT ![i] = [[@ EXCEPT !.status = "pending"] EXCEPT !.playlist = p]]
    BY <2>1
  <2>4. row'[i] = row[i] \/ row'[i].status = "pending"
    BY <1>1, <2>3 DEF IsRow
  <2>5. \A j \in Subs : j # i => row'[j] = row[j]
    BY <1>1, <2>3
  <2>6. Matchable(i, c.listed) \subseteq row[i].ledger \cup work
    OBVIOUS
  <2> QED BY <1>2, <1>3, <2>1, <2>2, <2>4, <2>5, <2>6, ImportKeeps
<1>6. CASE ImportAdd(i)
  <2>1. PICK got \in SUBSET c.todo :
          /\ call' = [call EXCEPT ![i].at = "end", ![i].ledger = @ \cup got]
          /\ leftOut' = [leftOut EXCEPT ![i] = @ \cup (call[i].todo \ got)]
    BY <1>6 DEF ImportAdd
  <2>2. c.at = "add" /\ UNCHANGED <<pc, tick, sync, row, disturbed>>
    BY <1>6 DEF ImportAdd, tickVars
  <2>3. /\ call'[i].at = "end" /\ call'[i].listed = c.listed /\ call'[i].ledger = c.ledger \cup got
        /\ \A j \in Subs : j # i => call'[j] = call[j]
    BY <1>1, <2>1 DEF IsCall
  <2>4. leftOut'[i] = leftOut[i] \cup (c.todo \ got)
    BY <1>1, <2>1
  <2>5. ~disturbed[i] => Matchable(i, c.listed) \subseteq call'[i].ledger \cup leftOut'[i]
    BY <1>2, <2>2, <2>3, <2>4
  <2> QED BY <1>2, <1>3, <2>2, <2>3, <2>5, ImportKeeps
<1>7. CASE ImportEnd(i)
  <2>1. PICK w : w = [row[i] EXCEPT !.status = "completed", !.playlist = c.playlist,
                                    !.ledger = c.ledger, !.back = c.ledger,
                                    !.error = FALSE, !.ran = TRUE]
    OBVIOUS
  <2>2. w.status = "completed" /\ w.ledger = c.ledger
    BY <1>1, <2>1 DEF IsRow
  <2>3. /\ c.at = "end" /\ row' = [row EXCEPT ![i] = w] /\ call' = [call EXCEPT ![i] = IdleCall]
        /\ UNCHANGED <<pc, tick, sync, leftOut, disturbed>>
    BY <1>7, <2>1 DEF ImportEnd, tickVars, history
  <2>4. /\ row'[i] = w /\ call'[i] = IdleCall
        /\ \A j \in Subs : j # i => row'[j] = row[j] /\ call'[j] = call[j]
    BY <1>1, <2>3
  <2>5. call'[i].at = "idle"
    BY <2>4 DEF IdleCall
  <2>6. ~disturbed[i] =>
          \/ Matchable(i, sync.snapshot[2] \cap Songs) \subseteq row'[i].ledger \cup leftOut'[i]
          \/ Outdated(sync.snapshot)
    BY <1>2, <2>2, <2>3, <2>4 DEF Matchable
  <2> QED BY <2>2, <2>3, <2>4, <2>5, <2>6, ImportKeeps
<1>8. CASE ImportThrows(i)
  <2>1. /\ c.at # "idle" /\ call' = [call EXCEPT ![i] = IdleCall]
        /\ leftOut' = [leftOut EXCEPT ![i] = @ \cup Matchable(i, c.listed)]
        /\ UNCHANGED <<pc, tick, sync, row, disturbed>>
    BY <1>8 DEF ImportThrows, tickVars
  <2>2. /\ call'[i] = IdleCall /\ leftOut'[i] = leftOut[i] \cup Matchable(i, c.listed)
        /\ \A j \in Subs : j # i => call'[j] = call[j]
    BY <1>1, <2>1
  <2>3. call'[i].at = "idle"
    BY <2>2 DEF IdleCall
  <2>4. ~disturbed[i] =>
          \/ Matchable(i, sync.snapshot[2] \cap Songs) \subseteq row'[i].ledger \cup leftOut'[i]
          \/ Outdated(sync.snapshot)
    BY <1>2, <2>1, <2>2 DEF Matchable
  <2> QED BY <1>3, <2>1, <2>2, <2>3, <2>4, ImportKeeps
<1> QED BY <1>4, <1>5, <1>6, <1>7, <1>8 DEF ImportStep

-----------------------------------------------------------------------------
(* Where a tick begins and ends. *)

LEMMA IdleTickShape ==
  /\ IdleTick.snapshot = Unseen /\ IdleTick.stored = Unseen
  BY DEF IdleTick

LEMMA TickBegins ==
  ASSUME SeenInv, Shape', Onward, Tick
  PROVE  SeenInv'
<1>1. /\ pc = "idle" /\ pc' \in {"snapshot", "list"} /\ (pc' = "snapshot" => 0 \in Spotify)
      /\ \E i \in Subs : row[i].playlist # 0
      /\ disturbed' = [i \in Subs |-> disturbed[i] \/ call[i].at # "idle"]
      /\ UNCHANGED <<sync, row, call, leftOut, source, version>>
  BY DEF Tick, Due, provVars, playVars
<1>2. /\ tick'.stored = sync.snapshot /\ tick'.snapshot = sync.snapshot /\ tick'.rows = row
      /\ tick'.prepared = [i \in Subs |-> FALSE] /\ tick'.tracks = {}
  BY DEF Tick, IdleTick
<1>3. Snaps'
  BY <1>1, <1>2, SnapsStay
<1>4. \A i \in Subs : ~disturbed'[i] => ~disturbed[i] /\ call'[i].at = "idle"
  BY <1>1
<1>5. Importing'
  BY <1>4 DEF Importing
<1>6. RowsCover'
  BY <1>1, <1>4 DEF SeenInv, RowsCover, Reading, Covers, Outdated, Matchable, Subscribed
<1>7. TickReads'
  BY <1>1, <1>2 DEF TickReads
<1>8. Listed' # {}
  BY <1>1, <1>2 DEF SeenInv, NoPlaylistNoRow, Listed
<1>9. Lists'
  BY <1>1, <1>2, <1>8 DEF Lists, Working
<1>10. Loops'
  BY <1>1 DEF Loops, Working
<1> QED BY <1>1, <1>3, <1>5, <1>6, <1>7, <1>9, <1>10 DEF SeenInv, NoPlaylistNoRow, Reading

\* When no tick is under way, only the imports and the rows count.
LEMMA TickIsOver ==
  ASSUME SeenInv, Shape', Onward, pc' = "idle", tick' = IdleTick,
         sync'.snapshot \in {sync.snapshot, tick.snapshot}, Importing', RowsCover', NoPlaylistNoRow'
  PROVE  SeenInv'
<1>1. Snaps'
  BY SnapsStay, IdleTickShape
<1>2. TickReads' /\ Lists' /\ Loops'
  BY DEF TickReads, Lists, Loops, Reading, Working
<1> QED BY <1>1, <1>2 DEF SeenInv

LEMMA RestartKeeps ==
  ASSUME SeenInv, Shape', Onward, Restart
  PROVE  SeenInv'
<1>1. /\ pc' = "idle" /\ tick' = IdleTick /\ call' = [i \in Subs |-> IdleCall]
      /\ disturbed' = [i \in Subs |-> disturbed[i] \/ pc # "idle"]
      /\ leftOut' = [i \in Subs |-> leftOut[i] \cup Matchable(i, call[i].listed)]
      /\ UNCHANGED <<sync, row, source, version>>
  BY DEF Restart, provVars, playVars
<1>2. \A i \in Subs : call'[i].at = "idle"
  BY <1>1 DEF IdleCall
<1>3. Importing'
  BY <1>2 DEF Importing
<1>4. ASSUME NEW i \in Subs, ~disturbed'[i], Subscribed(i), ~row[i].error
      PROVE  Matchable(i, sync.snapshot[2] \cap Songs) \subseteq row[i].ledger \cup leftOut'[i]
             \/ Outdated(sync.snapshot)
  <2>1. ~disturbed[i] /\ pc = "idle" /\ leftOut'[i] = leftOut[i] \cup Matchable(i, call[i].listed)
    BY <1>1, <1>4
  <2>2. CASE call[i].at = "idle"
    BY <1>4, <2>1, <2>2 DEF SeenInv, RowsCover, Covers
  <2>3. CASE call[i].at # "idle"
    BY <2>1, <2>3 DEF SeenInv, Importing, Matchable
  <2> QED BY <2>2, <2>3
<1>5. RowsCover'
  BY <1>1, <1>4 DEF RowsCover, Covers, Outdated, Matchable, Subscribed
<1>6. NoPlaylistNoRow'
  BY <1>1 DEF SeenInv, NoPlaylistNoRow
<1> QED BY <1>1, <1>3, <1>5, <1>6, TickIsOver

LEMMA TickFailsKeeps ==
  ASSUME SeenInv, Shape', Onward, TickFails
  PROVE  SeenInv'
<1>1. /\ pc \in Reading /\ pc' = "idle" /\ tick' = IdleTick
      /\ UNCHANGED <<row, call, disturbed, leftOut, source, version>>
  BY DEF TickFails, Reading, provVars, playVars, history
<1>2. sync'.snapshot = sync.snapshot
  BY DEF TickFails, SeenInv, Shape, IsSync
<1>3. Importing' /\ RowsCover'
  BY <1>1, <1>2, RowsUntouched DEF Reading
<1>4. NoPlaylistNoRow'
  BY <1>1 DEF SeenInv, NoPlaylistNoRow
<1> QED BY <1>1, <1>2, <1>3, <1>4, TickIsOver

LEMMA PlanKeeps ==
  ASSUME SeenInv, Shape', Onward, PlanNextPoll
  PROVE  SeenInv'
<1>1. /\ pc = "plan" /\ pc' = "idle" /\ tick' = IdleTick
      /\ UNCHANGED <<row, call, disturbed, leftOut, source, version>>
  BY DEF PlanNextPoll, provVars, playVars, history
<1>2. sync'.snapshot = tick.snapshot
  BY DEF PlanNextPoll, SeenInv, Shape, IsSync, Seen
<1>3. Importing'
  BY <1>1 DEF SeenInv, Importing
<1>4. \A i \in Subs : ~disturbed[i] => DoneWith(i)
  BY <1>1 DEF SeenInv, Loops, StillToDo, Working
<1>5. RowsCover'
  BY <1>1, <1>2, <1>4 DEF RowsCover, DoneWith, Covers, Outdated, Matchable, Subscribed
<1>6. NoPlaylistNoRow'
  BY <1>1 DEF SeenInv, NoPlaylistNoRow
<1> QED BY <1>1, <1>2, <1>3, <1>5, <1>6, TickIsOver

-----------------------------------------------------------------------------
(* The tick reads. *)

LEMMA ReadingKeeps ==
  ASSUME SeenInv, Shape', Onward, pc \in Reading, pc' \in Reading,
         UNCHANGED <<sync, row, call, disturbed, leftOut, source, version>>,
         tick'.stored = tick.stored, tick'.rows = tick.rows, tick'.prepared = tick.prepared,
         tick'.snapshot \in {tick.snapshot, SnapshotOf(0, source)}, Lists'
  PROVE  SeenInv'
<1>1. Snaps'
  BY SnapsStay
<1>2. Importing' /\ RowsCover'
  BY RowsUntouched DEF Reading
<1>3. TickReads'
  BY DEF SeenInv, TickReads, Subscribed
<1>4. Loops'
  BY DEF Loops, Reading, Working
<1> QED BY <1>1, <1>2, <1>3, <1>4 DEF SeenInv, NoPlaylistNoRow

LEMMA ReadStepKeeps ==
  ASSUME SeenInv, Shape', Onward, ReadSnapshot \/ ListSource \/ ReadRecipient \/ ListSourceLate
  PROVE  SeenInv'
<1>1. IsTick(tick) /\ Lists /\ Snaps
  BY DEF SeenInv, Shape
<1>2. ToRecipients \in {"recipients", "store"}
  BY DEF ToRecipients
<1>3. /\ UNCHANGED <<sync, row, call, disturbed, leftOut, source, version>>
      /\ pc \in Reading /\ pc' \in Reading
  BY <1>2 DEF ReadSnapshot, ListSource, ReadRecipient, ListSourceLate, Reading, provVars, playVars,
     history
<1>4. SnapshotOf(0, source)[2] = Held(source) /\ Current(SnapshotOf(0, source))
  BY CurrentNow DEF SnapshotOf, SeenInv
<1>5. CASE ReadSnapshot
  <2>1. /\ tick'.stored = tick.stored /\ tick'.rows = tick.rows /\ tick'.prepared = tick.prepared
        /\ tick'.snapshot = SnapshotOf(0, source) /\ tick'.tracks = tick.tracks
    BY <1>1, <1>5 DEF ReadSnapshot, IsTick
  <2>2. pc = "snapshot" /\ 0 \in Spotify /\ Listed # {}
    BY <1>1, <1>5 DEF ReadSnapshot, Lists, Reading
  <2>3. \/ pc' = "list"
        \/ pc' \in {"recipients", "store"} /\ tick'.snapshot = tick'.stored /\ ~RetryFailed'
    BY <1>2, <1>5, <2>1 DEF ReadSnapshot, RetryFailed, Retry, Listed
  <2>4. Lists'
    BY <2>1, <2>2, <2>3 DEF Lists, SourceChanged, Listed, Working
  <2> QED BY <1>3, <2>1, <2>4, ReadingKeeps
<1>6. CASE ListSource
  <2>1. /\ tick'.stored = tick.stored /\ tick'.rows = tick.rows /\ tick'.prepared = tick.prepared
        /\ tick'.snapshot = IF 0 \in Spotify THEN tick.snapshot ELSE SnapshotOf(0, source)
        /\ tick'.tracks = Held(source)
    BY <1>1, <1>6 DEF ListSource, IsTick
  <2>2. pc' \in {"recipients", "store"} /\ Listed # {}
    BY <1>1, <1>2, <1>6 DEF ListSource, Lists, Reading
  <2>3. tick'.snapshot[2] \cap Songs \subseteq tick'.tracks \/ Outdated(tick'.snapshot)
    BY <1>1, <1>4, <2>1 DEF Snaps, Current
  <2>4. Lists'
    BY <1>3, <2>1, <2>2, <2>3 DEF Lists, Listed, Working, Outdated
  <2> QED BY <1>3, <2>1, <2>4, ReadingKeeps
<1>7. CASE ReadRecipient
  <2>1. /\ tick'.stored = tick.stored /\ tick'.rows = tick.rows /\ tick'.prepared = tick.prepared
        /\ tick'.snapshot = tick.snapshot /\ tick'.tracks = tick.tracks
    BY <1>1, <1>7 DEF ReadRecipient, IsTick
  <2>2. /\ pc = "recipients" /\ pc' \in {"recipients", "listLate", "store"}
        /\ pc' = "listLate" => tick'.tracks = {}
    BY <1>7 DEF ReadRecipient
  <2>3. Lists'
    BY <1>1, <1>3, <2>1, <2>2 DEF Lists, Listed, Reading, Working, Outdated, SourceChanged,
       RetryFailed, Retry
  <2> QED BY <1>3, <2>1, <2>3, ReadingKeeps
<1>8. CASE ListSourceLate
  <2>1. /\ tick'.stored = tick.stored /\ tick'.rows = tick.rows /\ tick'.prepared = tick.prepared
        /\ tick'.snapshot = tick.snapshot /\ tick'.tracks = Held(source)
    BY <1>1, <1>8 DEF ListSourceLate, IsTick
  <2>2. pc = "listLate" /\ pc' = "store" /\ tick.tracks = {}
    BY <1>1, <1>8 DEF ListSourceLate, Lists
  <2>3. Lists'
    BY <1>1, <1>3, <2>1, <2>2 DEF Lists, Listed, Reading, Working, Outdated, SourceChanged,
       RetryFailed, Retry
  <2> QED BY <1>3, <2>1, <2>3, ReadingKeeps
<1> QED BY <1>5, <1>6, <1>7, <1>8

LEMMA StoreKeeps ==
  ASSUME SeenInv, Shape', Onward, StoreSnapshot
  PROVE  SeenInv'
<1>1. /\ pc = "store" /\ UNCHANGED <<row, call, disturbed, leftOut, source, version>>
  BY DEF StoreSnapshot, provVars, playVars, history
<1>2. sync'.snapshot = tick.snapshot
  BY DEF StoreSnapshot, SeenInv, Shape, IsSync
<1>3. /\ IsTick(tick) /\ tick.stored = sync.snapshot /\ Listed # {}
      /\ \A i \in Subs : ~disturbed[i] /\ Subscribed(i) => row[i] = tick.rows[i]
      /\ \A i \in Subs : ~tick.prepared[i]
  BY <1>1 DEF SeenInv, Shape, TickReads, Lists, Reading
<1>4. Importing'
  BY <1>1 DEF SeenInv, Importing
<1>5. NoPlaylistNoRow'
  BY <1>1 DEF SeenInv, NoPlaylistNoRow
<1>6. ASSUME NEW i \in Subs, ~disturbed[i], Subscribed(i), ~row[i].error, ~SourceChanged
      PROVE  Covers(i, row[i].ledger, tick.snapshot)
  <2>1. call[i].at = "idle"
    BY <1>1, <1>6 DEF SeenInv, Importing
  <2>2. tick.snapshot = sync.snapshot
    BY <1>3, <1>6 DEF SourceChanged
  <2> QED BY <1>1, <1>6, <2>1, <2>2 DEF SeenInv, RowsCover, Reading
<1>7. CASE pc' = "idle" /\ tick' = IdleTick /\ ~ShouldProcess
  <2>1. ~SourceChanged
    BY <1>7 DEF ShouldProcess
  <2>2. RowsCover'
    BY <1>1, <1>2, <1>6, <2>1 DEF RowsCover, Covers, Outdated, Matchable, Subscribed
  <2> QED BY <1>2, <1>4, <1>5, <1>7, <2>2, TickIsOver
<1>8. CASE pc' = "prepare" /\ tick' = [tick EXCEPT !.n = FirstAfter(0)]
  <2>1. /\ tick'.stored = tick.stored /\ tick'.rows = tick.rows /\ tick'.prepared = tick.prepared
        /\ tick'.snapshot = tick.snapshot /\ tick'.tracks = tick.tracks
        /\ tick'.n = FirstAfter(0)
    BY <1>3, <1>8 DEF IsTick
  <2>2. After(0) = Listed
    <3>1. \A i \in Listed : i > 0
      BY SubsAreNumbers DEF Listed
    <3> QED BY <3>1 DEF After
  <2>3. FirstAfter(0) \in Listed /\ \A i \in Listed : FirstAfter(0) <= i
    <3>1. Listed \subseteq Nat
      BY SubsAreNumbers DEF Listed
    <3> QED BY <1>3, <2>2, <3>1, MinOf DEF FirstAfter
  <2>4. Snaps'
    BY <1>2, <2>1, SnapsStay
  <2>5. RowsCover' /\ TickReads'
    BY <1>8 DEF RowsCover, TickReads, Reading
  <2>6. Listed' = Listed
    BY <2>1 DEF Listed
  <2>7. Lists'
    BY <1>1, <1>2, <1>8, <2>1, <2>6 DEF SeenInv, Lists, Reading, Working, SourceChanged, RetryFailed,
       Retry, Outdated
  <2>8. ASSUME NEW i \in Subs, ~disturbed[i], Subscribed(i)
        PROVE  i \in Listed /\ Ready(i)'
    <3>1. row[i] = tick.rows[i]
      BY <1>3, <2>8
    <3>2. ~SourceChanged /\ ~Retry(i) => Covers(i, row[i].ledger, tick.snapshot)
      BY <1>6, <2>8, <3>1 DEF Retry, Shape, SeenInv, IsRow
    <3> QED BY <1>1, <2>1, <2>8, <3>1, <3>2 DEF Listed, Ready, Subscribed, SourceChanged, Retry, Covers,
        Outdated, Matchable
  <2>9. Loops'
    <3>1. tick'.n \in Listed /\ \A i \in Listed : ~tick'.prepared[i]
      BY <1>3, <2>1, <2>3 DEF Listed
    <3>2. ASSUME NEW i \in Subs, ~disturbed'[i]
          PROVE  /\ Subscribed(i)' => i \in Listed'
                 /\ StillToDo(i)' => Ready(i)'
                 /\ ~StillToDo(i)' => DoneWith(i)'
      <4>1. CASE Subscribed(i)
        <5>1. i \in Listed /\ Ready(i)'
          BY <1>1, <2>8, <3>2, <4>1
        <5>2. StillToDo(i)'
          BY <1>8, <2>1, <2>3, <5>1 DEF StillToDo, Listed
        <5> QED BY <2>6, <5>1, <5>2
      <4>2. CASE ~Subscribed(i)
        BY <1>1, <4>2 DEF Ready, DoneWith, Subscribed
      <4> QED BY <4>1, <4>2
    <3> QED BY <1>8, <2>6, <3>1, <3>2 DEF Loops
  <2> QED BY <1>4, <1>5, <1>8, <2>4, <2>5, <2>7, <2>9 DEF SeenInv, Working
<1> QED BY <1>7, <1>8 DEF StoreSnapshot

-----------------------------------------------------------------------------
(* The tick works. *)

LEMMA WorkKeeps ==
  ASSUME SeenInv, Shape', Onward, pc \in Working, pc' \in Working,
         UNCHANGED <<sync, call, disturbed>>,
         tick'.stored = tick.stored, tick'.snapshot = tick.snapshot, tick.tracks \subseteq tick'.tracks,
         \A i \in Subs : /\ tick'.rows[i].status = tick.rows[i].status
                         /\ tick'.rows[i].error = tick.rows[i].error,
         NoPlaylistNoRow', Loops'
  PROVE  SeenInv'
<1>1. Snaps'
  BY SnapsStay
<1>2. Importing' /\ RowsCover'
  BY RowsUntouched DEF Working
<1>3. TickReads'
  BY DEF TickReads, Reading, Working
<1>4. Listed' = Listed
  BY DEF Listed
<1>5. 0 \in Spotify => tick.snapshot[1] \in Nat
  BY DEF SeenInv, Snaps, Current
<1>6. Outdated(tick.snapshot) => Outdated(tick.snapshot)'
  BY <1>5, OutdatedStays DEF SeenInv, Outdated
<1>7. (SourceChanged' <=> SourceChanged) /\ (RetryFailed' <=> RetryFailed)
  BY <1>4 DEF SourceChanged, RetryFailed, Retry, Listed
<1>8. Lists'
  BY <1>4, <1>6, <1>7 DEF SeenInv, Lists, Working, Reading
<1> QED BY <1>1, <1>2, <1>3, <1>8 DEF SeenInv

\* Within the work on one subscriber the loops stay where they are.
LEMMA SameLoop ==
  ASSUME SeenInv, Onward, UNCHANGED <<row, disturbed>>,
         tick'.n = tick.n, tick'.prepared = tick.prepared,
         tick'.stored = tick.stored, tick'.snapshot = tick.snapshot,
         \A i \in Subs : /\ tick'.rows[i].status = tick.rows[i].status
                         /\ tick'.rows[i].error = tick.rows[i].error
                         /\ tick.rows[i].ledger \subseteq tick'.rows[i].ledger,
         {pc, pc'} \subseteq {"prepare", "back"} \/ {pc, pc'} \subseteq {"forward", "copy"},
         pc' = "copy" =>
           Matchable(tick.n, tick'.tracks) \subseteq tick'.rows[tick.n].ledger \cup tick'.todo,
         Shape'
  PROVE  Loops'
<1>1. Listed' = Listed
  BY DEF Listed
<1>2. Current(tick.snapshot)
  BY DEF SeenInv, Snaps
<1>3. \A i : StillToDo(i)' <=> StillToDo(i)
  BY DEF StillToDo
<1>4. 0 \in Spotify => tick.snapshot[1] \in Nat
  BY <1>2 DEF Current
<1>5. Outdated(tick.snapshot) => Outdated(tick.snapshot)'
  BY <1>4, OutdatedStays DEF SeenInv, Outdated
<1>6. \A i \in Subs : leftOut[i] \subseteq leftOut'[i]
  BY DEF Onward
<1>7. \A i \in Subs : Covers(i, row[i].ledger, tick.snapshot) => Covers(i, row[i].ledger, tick.snapshot)'
  BY <1>5, <1>6 DEF Covers, Matchable
<1>8. \A i \in Subs : Ready(i) => Ready(i)'
  BY <1>7 DEF Ready, Subscribed, SourceChanged, Retry
<1>9. \A i \in Subs : DoneWith(i) => DoneWith(i)'
  BY <1>7 DEF DoneWith, Subscribed
<1>10. pc \in Working /\ Loops
  BY DEF SeenInv, Working
<1>11. \A i \in Subs : ~disturbed'[i] =>
         /\ Subscribed(i)' => i \in Listed
         /\ StillToDo(i) => Ready(i)
         /\ ~StillToDo(i) => DoneWith(i)
  BY <1>10 DEF Loops, Subscribed
<1>12. pc' \in {"prepare", "back"} =>
          tick.n \in Listed /\ \A i \in Listed : i >= tick.n => ~tick.prepared[i]
  BY <1>10 DEF Loops
<1>13. pc' \in {"forward", "copy"} => tick.n \in Listed /\ tick.prepared[tick.n]
  BY <1>10 DEF Loops
<1> QED BY <1>1, <1>3, <1>8, <1>9, <1>11, <1>12, <1>13 DEF Loops

\* A step to the next subscriber, whose tick is t but for the loop: the row that
\* is left is still to be copied to, or accounts for what was listed.
MovesOn(phase, t) ==
  /\ phase \in {"prepare", "forward"} /\ IsTick(t) /\ GoOn(phase, t)
  /\ IF phase = "prepare" THEN pc \in {"prepare", "back"} ELSE pc \in {"forward", "copy"}
  /\ t.n = tick.n /\ t.stored = tick.stored /\ t.snapshot = tick.snapshot /\ t.rows = tick.rows
  /\ \A j \in Subs : j # tick.n => t.prepared[j] = tick.prepared[j] /\ row'[j] = row[j]
  /\ row'[tick.n].status # "none" => Subscribed(tick.n)
  /\ phase = "prepare" /\ t.prepared[tick.n] => row' = row
  /\ ~disturbed[tick.n] /\ (phase = "prepare" => ~t.prepared[tick.n])
       /\ row'[tick.n].status # "none" /\ ~row'[tick.n].error =>
         Covers(tick.n, row'[tick.n].ledger, tick.snapshot)

LEMMA NextOne ==
  ASSUME SeenInv, Shape', Onward, UNCHANGED disturbed, NEW phase, NEW t, MovesOn(phase, t)
  PROVE  Loops' /\ pc' \in Working
<1> DEFINE n == tick.n
<1>a. phase \in {"prepare", "forward"} /\ IsTick(t) /\ GoOn(phase, t)
  BY DEF MovesOn
<1>b. IF phase = "prepare" THEN pc \in {"prepare", "back"} ELSE pc \in {"forward", "copy"}
  BY DEF MovesOn
<1>c. t.n = n /\ t.stored = tick.stored /\ t.snapshot = tick.snapshot /\ t.rows = tick.rows
  BY DEF MovesOn
<1>d. \A j \in Subs : j # n => t.prepared[j] = tick.prepared[j] /\ row'[j] = row[j]
  BY DEF MovesOn
<1>e. phase = "prepare" /\ t.prepared[n] => row' = row
  BY DEF MovesOn
<1>1. /\ pc \in Working /\ Loops /\ n \in Listed /\ n \in Subs /\ Listed \subseteq Subs
  BY <1>a, <1>b DEF SeenInv, Working, Loops, Listed
<1>g. /\ Same(t)
      /\ \/ /\ pc' = phase
            /\ tick'.n \in Listed /\ tick'.n > n
            /\ phase = "forward" => t.prepared[tick'.n]
            /\ \A j \in Listed : j > n /\ (phase = "prepare" \/ t.prepared[j]) => tick'.n <= j
         \/ /\ phase = "prepare" /\ pc' = "forward"
            /\ \A j \in Listed : ~(j > n)
            /\ tick'.n \in Listed /\ t.prepared[tick'.n]
            /\ \A j \in Listed : t.prepared[j] => tick'.n <= j
         \/ /\ pc' = "plan"
            /\ \A j \in Listed : j > n => phase = "forward" /\ ~t.prepared[j]
            /\ phase = "prepare" => \A j \in Listed : ~t.prepared[j]
  BY <1>a, <1>c, GoesOn
<1>2. /\ tick'.stored = tick.stored /\ tick'.snapshot = tick.snapshot /\ tick'.rows = tick.rows
      /\ tick'.prepared = t.prepared
  BY <1>c, <1>g DEF Same
<1>3. Listed' = Listed
  BY <1>2 DEF Listed
<1>4. \A j \in Subs : j \in Nat
  BY SubsAreNumbers
<1>5. Shape /\ (0 \in Spotify => tick.snapshot[1] \in Nat)
  BY DEF SeenInv, Snaps, Current
<1>6. Outdated(tick.snapshot) => Outdated(tick.snapshot)'
  BY <1>2, <1>5, OutdatedStays DEF Outdated
<1>7. \A i \in Subs : leftOut[i] \subseteq leftOut'[i]
  BY DEF Onward
<1>8. ASSUME NEW j \in Subs, row'[j] = row[j], Ready(j) PROVE Ready(j)'
  BY <1>2, <1>6, <1>7, <1>8 DEF Ready, Subscribed, SourceChanged, Retry, Covers, Matchable
<1>9. ASSUME NEW j \in Subs, row'[j] = row[j], DoneWith(j) PROVE DoneWith(j)'
  BY <1>2, <1>6, <1>7, <1>9 DEF DoneWith, Subscribed, Covers, Matchable
<1>10. ASSUME NEW j \in Subs, j = n, ~disturbed[j], phase = "prepare" => ~t.prepared[j]
       PROVE  DoneWith(j)'
  <2>1. row'[j].status # "none" /\ ~row'[j].error => Covers(j, row'[j].ledger, tick.snapshot)
    BY <1>10 DEF MovesOn
  <2> QED BY <1>2, <1>6, <1>7, <2>1 DEF DoneWith, Subscribed, Covers, Matchable
<1>11. ASSUME NEW j \in Subs, ~disturbed[j]
       PROVE  /\ Subscribed(j)' => j \in Listed
              /\ StillToDo(j) => Ready(j)
              /\ ~StillToDo(j) => DoneWith(j)
  <2>1. Subscribed(j)' => Subscribed(j)
    <3>1. CASE j = n
      BY <3>1 DEF MovesOn, Subscribed
    <3>2. CASE j # n
      BY <1>d, <3>2 DEF Subscribed
    <3> QED BY <3>1, <3>2
  <2> QED BY <1>1, <1>11, <2>1 DEF Loops
<1>12. ASSUME NEW j \in Subs, j \notin Listed, ~disturbed[j] PROVE Ready(j)' /\ DoneWith(j)'
  BY <1>11, <1>12 DEF Ready, DoneWith
<1>13. phase = "prepare" => \A j \in Listed : j >= n => ~tick.prepared[j]
  BY <1>1, <1>b DEF Loops
<1>14. phase = "prepare" => \A j \in Subs : StillToDo(j) <=> j >= n \/ tick.prepared[j]
  BY <1>b DEF StillToDo
<1>15. phase = "forward" => \A j \in Subs : StillToDo(j) <=> j >= n /\ tick.prepared[j]
  BY <1>b DEF StillToDo
<1>16. CASE phase = "prepare" /\ pc' = "prepare"
  <2>1. /\ tick'.n \in Listed /\ tick'.n > n
        /\ \A j \in Listed : j > n => tick'.n <= j
    BY <1>16, <1>g
  <2>2. \A j \in Listed : j >= tick'.n => ~tick'.prepared[j]
    BY <1>1, <1>2, <1>4, <1>13, <1>16, <1>d, <2>1
  <2>3. ASSUME NEW j \in Listed, ~disturbed[j], j >= tick'.n \/ t.prepared[j] PROVE Ready(j)'
    <3>1. CASE j = n
      <4>1. row' = row /\ Ready(j)
        BY <1>e, <1>1, <1>4, <1>11, <1>14, <1>16, <2>1, <2>3, <3>1
      <4> QED BY <1>1, <1>8, <4>1
    <3>2. CASE j # n
      <4>1. StillToDo(j)
        BY <1>a, <1>d, <1>1, <1>4, <1>14, <1>16, <2>1, <2>3, <3>2
      <4> QED BY <1>1, <1>d, <1>8, <1>11, <2>3, <3>2, <4>1
    <3> QED BY <3>1, <3>2
  <2>4. ASSUME NEW j \in Listed, ~disturbed[j], ~(j >= tick'.n \/ t.prepared[j]) PROVE DoneWith(j)'
    <3>1. CASE j = n
      BY <1>1, <1>10, <1>16, <2>4, <3>1
    <3>2. CASE j # n
      <4>1. ~StillToDo(j)
        BY <1>a, <1>d, <1>1, <1>4, <1>14, <1>16, <2>1, <2>4, <3>2
      <4> QED BY <1>1, <1>d, <1>9, <1>11, <2>4, <3>2, <4>1
    <3> QED BY <3>1, <3>2
  <2>5. \A j \in Subs : StillToDo(j)' <=> j >= tick'.n \/ t.prepared[j]
    BY <1>2, <1>16 DEF StillToDo
  <2> QED BY <1>3, <1>11, <1>12, <1>16, <2>1, <2>2, <2>3, <2>4, <2>5 DEF Loops, Working
<1>17. CASE pc' = "forward"
  <2>1. /\ tick'.n \in Listed /\ t.prepared[tick'.n]
        /\ \/ phase = "forward" /\ tick'.n > n /\ \A j \in Listed : j > n /\ t.prepared[j] => tick'.n <= j
           \/ /\ phase = "prepare" /\ \A j \in Listed : ~(j > n)
              /\ \A j \in Listed : t.prepared[j] => tick'.n <= j
    BY <1>17, <1>g
  <2>2. ASSUME NEW j \in Listed, ~disturbed[j], j >= tick'.n, t.prepared[j] PROVE Ready(j)'
    <3>1. CASE phase = "prepare" /\ j = n
      <4>1. row' = row /\ Ready(j)
        BY <1>e, <1>1, <1>4, <1>11, <1>14, <2>2, <3>1
      <4> QED BY <1>1, <1>8, <4>1
    <3>2. CASE ~(phase = "prepare" /\ j = n)
      <4>1. j # n
        BY <1>1, <1>4, <2>1, <2>2, <3>2
      <4>2. StillToDo(j)
        BY <1>a, <1>d, <1>1, <1>4, <1>14, <1>15, <2>1, <2>2, <4>1
      <4> QED BY <1>1, <1>d, <1>8, <1>11, <2>2, <4>1, <4>2
    <3> QED BY <3>1, <3>2
  <2>3. ASSUME NEW j \in Listed, ~disturbed[j], ~(j >= tick'.n /\ t.prepared[j]) PROVE DoneWith(j)'
    <3>1. CASE j = n
      <4>1. phase = "prepare" => ~t.prepared[n]
        BY <1>1, <1>4, <2>1, <2>3, <3>1
      <4> QED BY <1>1, <1>10, <2>3, <3>1, <4>1
    <3>2. CASE j # n
      <4>1. ~StillToDo(j)
        BY <1>a, <1>d, <1>1, <1>4, <1>14, <1>15, <2>1, <2>3, <3>2
      <4> QED BY <1>1, <1>d, <1>9, <1>11, <2>3, <3>2, <4>1
    <3> QED BY <3>1, <3>2
  <2>4. \A j \in Subs : StillToDo(j)' <=> j >= tick'.n /\ t.prepared[j]
    BY <1>2, <1>17 DEF StillToDo
  <2> QED BY <1>2, <1>3, <1>11, <1>12, <1>17, <2>1, <2>2, <2>3, <2>4 DEF Loops, Working
<1>18. CASE pc' = "plan"
  <2>1. /\ \A j \in Listed : j > n => phase = "forward" /\ ~t.prepared[j]
        /\ phase = "prepare" => \A j \in Listed : ~t.prepared[j]
    <3>1. pc' \notin {"prepare", "forward"}
      BY <1>18
    <3> QED BY <1>a, <1>g, <3>1
  <2>2. ASSUME NEW j \in Listed, ~disturbed[j] PROVE DoneWith(j)'
    <3>1. CASE j = n
      BY <1>1, <1>10, <2>1, <2>2, <3>1
    <3>2. CASE j # n
      <4>1. ~StillToDo(j)
        BY <1>a, <1>d, <1>1, <1>4, <1>14, <1>15, <2>1, <3>2
      <4> QED BY <1>1, <1>d, <1>9, <1>11, <2>2, <3>2, <4>1
    <3> QED BY <3>1, <3>2
  <2>3. \A j \in Subs : ~StillToDo(j)'
    BY <1>18 DEF StillToDo
  <2> QED BY <1>3, <1>11, <1>12, <1>18, <2>2, <2>3 DEF Loops, Working
<1> QED BY <1>a, <1>16, <1>17, <1>18, <1>g

\* So a step on to the next subscriber keeps the invariant, if the row it leaves
\* is one with a playlist or as it was.
LEMMA NextKeeps ==
  ASSUME SeenInv, Shape', Onward, UNCHANGED <<sync, call, disturbed>>, NEW phase, NEW t,
         MovesOn(phase, t), tick.tracks \subseteq t.tracks,
         row'[tick.n] = row[tick.n] \/ row'[tick.n].status # "none"
  PROVE  SeenInv'
<1>1. Loops' /\ pc' \in Working
  BY NextOne
<1>2. phase \in {"prepare", "forward"} /\ IsTick(t) /\ GoOn(phase, t) /\ pc \in Working
  BY DEF MovesOn, Working
<1>3. t.stored = tick.stored /\ t.snapshot = tick.snapshot /\ t.rows = tick.rows
  BY DEF MovesOn
<1>4. Same(t)
  BY <1>2, GoesOn
<1>5. \A j \in Subs : row'[j] = row[j] \/ row'[j].status # "none"
  <2>1. \A j \in Subs : j # tick.n => row'[j] = row[j]
    BY DEF MovesOn
  <2> QED BY <2>1
<1>6. NoPlaylistNoRow'
  BY <1>5 DEF SeenInv, NoPlaylistNoRow
<1> QED BY <1>1, <1>2, <1>3, <1>4, <1>6, WorkKeeps DEF Same

LEMMA AtOne ==
  ASSUME SeenInv, pc \in {"prepare", "back", "forward", "copy"}
  PROVE  /\ tick.n \in Listed /\ tick.n \in Subs
         /\ pc \in {"prepare", "back"} => ~tick.prepared[tick.n]
         /\ pc \in {"forward", "copy"} => tick.prepared[tick.n]
         /\ ~disturbed[tick.n] => Ready(tick.n)
         /\ IsTick(tick) /\ IsRow(row[tick.n]) /\ IsRow(tick.rows[tick.n])
         /\ row = [i \in Subs |-> row[i]]
<1>1. tick.n \in Listed /\ tick.n \in Subs
  BY DEF SeenInv, Loops, Listed
<1>2. tick.n \in Nat
  BY <1>1, SubsAreNumbers
<1>3. pc \in {"prepare", "back"} => ~tick.prepared[tick.n]
  BY <1>1, <1>2 DEF SeenInv, Loops
<1>4. pc \in {"forward", "copy"} => tick.prepared[tick.n]
  BY DEF SeenInv, Loops
<1>5. StillToDo(tick.n)
  BY <1>2, <1>4 DEF StillToDo
<1>6. ~disturbed[tick.n] => Ready(tick.n)
  BY <1>1, <1>5 DEF SeenInv, Loops, Working
<1> QED BY <1>1, <1>3, <1>4, <1>6 DEF SeenInv, Shape, IsTick

\* A row that is written keeps its subscriber's, and nobody else's.
LEMMA Updated ==
  ASSUME row = [i \in Subs |-> row[i]], NEW n \in Subs, NEW new, UpdateRow(n, new)
  PROVE  /\ \A j \in Subs : j # n => row'[j] = row[j]
         /\ Subscribed(n) => row'[n] = new
         /\ ~Subscribed(n) => row' = row
  BY DEF UpdateRow

LEMMA SkipKeeps ==
  ASSUME SeenInv, Shape', Onward, SkipImport PROVE SeenInv'
<1>1. /\ tick.n \in Subs /\ ~tick.prepared[tick.n] /\ (~disturbed[tick.n] => Ready(tick.n))
      /\ IsTick(tick) /\ IsRow(row[tick.n]) /\ row = [i \in Subs |-> row[i]]
  BY AtOne DEF SkipImport
<1>2. PICK w : w = [row[tick.n] EXCEPT !.snapshot = Snapshot(tick.n), !.status = "completed",
                                       !.error = FALSE]
  OBVIOUS
<1>3. w.ledger = row[tick.n].ledger /\ w.status = "completed"
  BY <1>1, <1>2 DEF IsRow
<1>4. UpdateRow(tick.n, w) /\ GoOn("prepare", tick) /\ NothingNew(tick.n) /\ pc = "prepare"
  BY <1>2 DEF SkipImport
<1>5. /\ \A j \in Subs : j # tick.n => row'[j] = row[j]
      /\ Subscribed(tick.n) => row'[tick.n] = w
      /\ ~Subscribed(tick.n) => row' = row
  BY <1>1, <1>4, Updated
<1>6. ~disturbed[tick.n] /\ Subscribed(tick.n) => Covers(tick.n, row[tick.n].ledger, tick.snapshot)
  BY <1>1, <1>4 DEF Ready, NothingNew
<1>7. MovesOn("prepare", tick)
  BY <1>1, <1>3, <1>4, <1>5, <1>6 DEF MovesOn, Subscribed
<1>8. row'[tick.n] = row[tick.n] \/ row'[tick.n].status # "none"
  BY <1>3, <1>5
<1> QED BY <1>7, <1>8, NextKeeps DEF SkipImport, history

LEMMA PreparedKeeps ==
  ASSUME SeenInv, Shape', Onward, PrepareForward \/ EndBack PROVE SeenInv'
<1>1. /\ pc \in {"prepare", "back"} /\ tick.n \in Subs /\ IsTick(tick)
      /\ UNCHANGED <<sync, call, disturbed, row>>
  BY AtOne DEF PrepareForward, EndBack, history
<1>2. PICK t :
        /\ \/ t = [tick EXCEPT !.prepared[tick.n] = TRUE]
           \/ t = [tick EXCEPT !.prepared[tick.n] = TRUE, !.tracks = @ \cup tick.added,
                               !.grew = @ \/ tick.added # {}]
        /\ GoOn("prepare", t)
  BY DEF PrepareForward, EndBack
<1>3. /\ IsTick(t) /\ t.n = tick.n /\ t.stored = tick.stored /\ t.snapshot = tick.snapshot
      /\ t.rows = tick.rows /\ tick.tracks \subseteq t.tracks
      /\ t.prepared = [tick.prepared EXCEPT ![tick.n] = TRUE]
  <2>1. CASE t = [tick EXCEPT !.prepared[tick.n] = TRUE]
    BY <1>1, <2>1 DEF IsTick
  <2>2. CASE t # [tick EXCEPT !.prepared[tick.n] = TRUE]
    <3>1. PICK grew : grew = (tick.grew \/ tick.added # {})
      OBVIOUS
    <3>2. t = [tick EXCEPT !.prepared[tick.n] = TRUE, !.tracks = @ \cup tick.added, !.grew = grew]
      BY <1>2, <2>2, <3>1
    <3> QED BY <1>1, <3>2 DEF IsTick
  <2> QED BY <2>1, <2>2
<1>4. t.prepared[tick.n] /\ \A j \in Subs : j # tick.n => t.prepared[j] = tick.prepared[j]
  BY <1>1, <1>3 DEF IsTick
<1>5. MovesOn("prepare", t)
  BY <1>1, <1>2, <1>3, <1>4 DEF MovesOn, Subscribed
<1> QED BY <1>1, <1>3, <1>5, NextKeeps

LEMMA SaveKeeps ==
  ASSUME SeenInv, Shape', Onward, SaveRow PROVE SeenInv'
<1>1. /\ pc \in {"forward", "copy"}
      /\ tick.n \in Subs /\ tick.n \in Listed /\ (~disturbed[tick.n] => Ready(tick.n))
      /\ IsTick(tick) /\ IsRow(tick.rows[tick.n]) /\ row = [i \in Subs |-> row[i]]
  BY AtOne DEF SaveRow
<1>2. PICK w : /\ w.ledger = tick.rows[tick.n].ledger /\ w.status = "completed"
               /\ UpdateRow(tick.n, w) /\ GoOn("forward", tick)
  BY DEF SaveRow
<1>3. /\ \A j \in Subs : j # tick.n => row'[j] = row[j]
      /\ Subscribed(tick.n) => row'[tick.n] = w
      /\ ~Subscribed(tick.n) => row' = row
  BY <1>1, <1>2, Updated
<1>4. ASSUME ~disturbed[tick.n], Subscribed(tick.n)
      PROVE  Covers(tick.n, tick.rows[tick.n].ledger, tick.snapshot)
  <2>1. CASE ~SourceChanged /\ ~Retry(tick.n)
    <3>1. /\ Covers(tick.n, row[tick.n].ledger, tick.snapshot)
          /\ row[tick.n].ledger \subseteq tick.rows[tick.n].ledger
      BY <1>1, <1>4, <2>1 DEF Ready
    <3> QED BY <3>1 DEF Covers
  <2>2. CASE SourceChanged \/ Retry(tick.n)
    <3>1. pc = "copy" /\ tick.todo = {}
      BY <2>2 DEF SaveRow, ForwardNeeded
    <3>2. Matchable(tick.n, tick.tracks) \subseteq tick.rows[tick.n].ledger
      BY <3>1 DEF SeenInv, Loops
    <3>3. tick.snapshot[2] \cap Songs \subseteq tick.tracks \/ Outdated(tick.snapshot)
      BY <1>1, <2>2, <3>1 DEF SeenInv, Lists, RetryFailed, Working
    <3> QED BY <3>2, <3>3 DEF Covers, Matchable
  <2> QED BY <2>1, <2>2
<1>5. MovesOn("forward", tick)
  BY <1>1, <1>2, <1>3, <1>4 DEF MovesOn, Subscribed
<1>6. row'[tick.n] = row[tick.n] \/ row'[tick.n].status # "none"
  BY <1>2, <1>3
<1> QED BY <1>5, <1>6, NextKeeps DEF SaveRow, history

LEMMA FailKeeps ==
  ASSUME SeenInv, Shape', Onward, ImportFails PROVE SeenInv'
<1>1. /\ pc \in {"back", "copy"} /\ tick.n \in Subs
      /\ IsTick(tick) /\ IsRow(row[tick.n]) /\ row = [i \in Subs |-> row[i]]
  BY AtOne DEF ImportFails
<1>2. PICK w : w = Failed(row[tick.n])
  OBVIOUS
<1>3. w.status = "failed" /\ w.error = TRUE
  BY <1>1, <1>2 DEF IsRow, Failed
<1>4. PICK t : t = [tick EXCEPT !.failed = TRUE, !.prepared[tick.n] = FALSE]
  OBVIOUS
<1>5. PICK phase : phase = IF pc = "back" THEN "prepare" ELSE "forward"
  OBVIOUS
<1>6. UpdateRow(tick.n, w) /\ GoOn(phase, t) /\ UNCHANGED <<sync, call, disturbed>>
  BY <1>2, <1>4, <1>5 DEF ImportFails
<1>7. /\ IsTick(t) /\ t.n = tick.n /\ t.stored = tick.stored /\ t.snapshot = tick.snapshot
      /\ t.rows = tick.rows /\ t.tracks = tick.tracks
      /\ t.prepared = [tick.prepared EXCEPT ![tick.n] = FALSE]
  BY <1>1, <1>4 DEF IsTick
<1>8. ~t.prepared[tick.n] /\ \A j \in Subs : j # tick.n => t.prepared[j] = tick.prepared[j]
  BY <1>1, <1>7 DEF IsTick
<1>9. /\ \A j \in Subs : j # tick.n => row'[j] = row[j]
      /\ Subscribed(tick.n) => row'[tick.n] = w
      /\ ~Subscribed(tick.n) => row' = row
  BY <1>1, <1>6, Updated
<1>10. MovesOn(phase, t)
  BY <1>1, <1>3, <1>5, <1>6, <1>7, <1>8, <1>9 DEF MovesOn, Subscribed
<1>11. row'[tick.n] = row[tick.n] \/ row'[tick.n].status # "none"
  BY <1>3, <1>9
<1> QED BY <1>6, <1>7, <1>10, <1>11, NextKeeps

\* The steps within the work on one subscriber.
LEMMA BackStartKeeps ==
  ASSUME SeenInv, Shape', Onward, StartBack PROVE SeenInv'
<1>1. /\ pc = "prepare" /\ pc' = "back" /\ tick.n \in Subs /\ IsTick(tick)
      /\ UNCHANGED <<sync, call, disturbed, row>>
  BY AtOne DEF StartBack, history
<1>2. PICK back, todo : tick' = [tick EXCEPT !.rows[tick.n].back = back, !.todo = todo]
  BY DEF StartBack
<1>3. /\ tick'.n = tick.n /\ tick'.prepared = tick.prepared
      /\ tick'.stored = tick.stored /\ tick'.snapshot = tick.snapshot /\ tick'.tracks = tick.tracks
      /\ tick'.rows = [tick.rows EXCEPT ![tick.n].back = back]
  BY <1>1, <1>2 DEF IsTick
<1>4. \A i \in Subs : /\ tick'.rows[i].status = tick.rows[i].status
                      /\ tick'.rows[i].error = tick.rows[i].error
                      /\ tick'.rows[i].ledger = tick.rows[i].ledger
  <2>1. ASSUME NEW v, IsRow(v), NEW w, w = [v EXCEPT !.back = back]
        PROVE  w.status = v.status /\ w.error = v.error /\ w.ledger = v.ledger
    BY <2>1 DEF IsRow
  <2>2. tick.rows = [i \in Subs |-> tick.rows[i]] /\ \A i \in Subs : IsRow(tick.rows[i])
    BY <1>1 DEF IsTick
  <2>3. \A i \in Subs :
          tick'.rows[i] = IF i = tick.n THEN [tick.rows[i] EXCEPT !.back = back] ELSE tick.rows[i]
    BY <1>3, <2>2
  <2> QED BY <2>1, <2>2, <2>3
<1>5. Loops'
  BY <1>1, <1>3, <1>4, SameLoop
<1>6. NoPlaylistNoRow'
  BY <1>1 DEF SeenInv, NoPlaylistNoRow
<1> QED BY <1>1, <1>3, <1>4, <1>5, <1>6, WorkKeeps DEF Working

\* u is t with s in both ledgers of row n.
WithSong(u, t, n, s) ==
  /\ u.n = t.n /\ u.prepared = t.prepared /\ u.stored = t.stored
  /\ u.snapshot = t.snapshot /\ u.tracks = t.tracks /\ u.todo = t.todo
  /\ \A i \in Subs :
       /\ u.rows[i].status = t.rows[i].status /\ u.rows[i].error = t.rows[i].error
       /\ u.rows[i].ledger = IF i = n THEN t.rows[i].ledger \cup {s} ELSE t.rows[i].ledger

LEMMA LedgerGrows ==
  ASSUME NEW t, IsTick(t), NEW n, NEW s
  PROVE  WithSong(BothLedgers(t, n, s), t, n, s)
<1>1. PICK u : u = BothLedgers(t, n, s)
  OBVIOUS
<1>2. PICK R : R = [t.rows EXCEPT ![n].ledger = @ \cup {s}, ![n].back = @ \cup {s}]
  OBVIOUS
<1>3. u = [t EXCEPT !.rows = R]
  BY <1>1, <1>2 DEF IsTick, BothLedgers
<1>4. /\ u.n = t.n /\ u.prepared = t.prepared /\ u.stored = t.stored
      /\ u.snapshot = t.snapshot /\ u.tracks = t.tracks /\ u.todo = t.todo /\ u.rows = R
  BY <1>3 DEF IsTick
<1>5. ASSUME NEW v, IsRow(v),
             NEW w, w = [[v EXCEPT !.ledger = @ \cup {s}] EXCEPT !.back = @ \cup {s}]
      PROVE  w.status = v.status /\ w.error = v.error /\ w.ledger = v.ledger \cup {s}
  BY <1>5 DEF IsRow
<1>6. t.rows = [i \in Subs |-> t.rows[i]] /\ \A i \in Subs : IsRow(t.rows[i])
  BY DEF IsTick
<1>7. \A i \in Subs :
        R[i] = IF i = n THEN [[t.rows[i] EXCEPT !.ledger = @ \cup {s}] EXCEPT !.back = @ \cup {s}]
               ELSE t.rows[i]
  BY <1>2, <1>6
<1>8. \A i \in Subs :
        /\ R[i].status = t.rows[i].status /\ R[i].error = t.rows[i].error
        /\ R[i].ledger = IF i = n THEN t.rows[i].ledger \cup {s} ELSE t.rows[i].ledger
  BY <1>5, <1>6, <1>7
<1> QED BY <1>1, <1>4, <1>8 DEF WithSong

LEMMA BackOneKeeps ==
  ASSUME SeenInv, Shape', Onward, NEW s \in Songs, BackOne(s) \/ BackRefused(s) PROVE SeenInv'
<1>1. /\ pc = "back" /\ pc' = "back" /\ IsTick(tick) /\ UNCHANGED <<sync, call, disturbed, row>>
  BY AtOne DEF BackOne, BackRefused, history
<1>2. PICK t : t = [tick EXCEPT !.todo = @ \ {s}]
  OBVIOUS
<1>3. /\ IsTick(t) /\ t.n = tick.n /\ t.prepared = tick.prepared /\ t.stored = tick.stored
      /\ t.snapshot = tick.snapshot /\ t.tracks = tick.tracks /\ t.rows = tick.rows
  BY <1>1, <1>2 DEF IsTick
<1>4. PICK u : u = BothLedgers(t, tick.n, s)
  OBVIOUS
<1>5. /\ IsTick(u) /\ u.n = tick.n /\ u.prepared = tick.prepared /\ u.stored = tick.stored
      /\ u.snapshot = tick.snapshot /\ u.tracks = tick.tracks
      /\ \A i \in Subs : /\ u.rows[i].status = tick.rows[i].status
                         /\ u.rows[i].error = tick.rows[i].error
                         /\ tick.rows[i].ledger \subseteq u.rows[i].ledger
  <2>1. IsTick(u)
    BY <1>3, <1>4, BothLedgersShape
  <2>2. WithSong(u, t, tick.n, s)
    BY <1>3, <1>4, LedgerGrows
  <2> QED BY <1>3, <2>1, <2>2 DEF WithSong
<1>6. tick' \in {t, u, [u EXCEPT !.added = @ \cup {s}]}
  BY <1>2, <1>4 DEF BackOne, BackRefused
<1>7. /\ tick'.n = tick.n /\ tick'.prepared = tick.prepared /\ tick'.stored = tick.stored
      /\ tick'.snapshot = tick.snapshot /\ tick'.tracks = tick.tracks
      /\ tick'.rows = t.rows \/ tick'.rows = u.rows
  BY <1>3, <1>5, <1>6 DEF IsTick
<1>8. \A i \in Subs : /\ tick'.rows[i].status = tick.rows[i].status
                      /\ tick'.rows[i].error = tick.rows[i].error
                      /\ tick.rows[i].ledger \subseteq tick'.rows[i].ledger
  BY <1>3, <1>5, <1>7
<1>9. Loops'
  BY <1>1, <1>7, <1>8, SameLoop
<1>10. NoPlaylistNoRow'
  BY <1>1 DEF SeenInv, NoPlaylistNoRow
<1> QED BY <1>1, <1>7, <1>8, <1>9, <1>10, WorkKeeps DEF Working

LEMMA ForwardStartKeeps ==
  ASSUME SeenInv, Shape', Onward, StartForward PROVE SeenInv'
<1>1. /\ pc = "forward" /\ pc' = "copy" /\ tick.n \in Subs /\ IsTick(tick)
      /\ UNCHANGED <<sync, call, disturbed, row>>
  BY AtOne DEF StartForward, history
<1> DEFINE old    == tick.rows[tick.n]
           new    == IF Adopts(tick.n, old.ledger) THEN tick.tracks ELSE old.ledger
<1>2. PICK ledger, todo, here :
        /\ tick' = [tick EXCEPT !.rows[tick.n].ledger = ledger, !.here = here, !.todo = todo]
        /\ ledger = new /\ todo = Matchable(tick.n, tick.tracks \ ledger)
  BY DEF StartForward
<1>3. old.ledger \subseteq ledger
  BY <1>2 DEF Adopts
<1>4. /\ tick'.n = tick.n /\ tick'.prepared = tick.prepared /\ tick'.todo = todo
      /\ tick'.stored = tick.stored /\ tick'.snapshot = tick.snapshot /\ tick'.tracks = tick.tracks
      /\ tick'.rows = [tick.rows EXCEPT ![tick.n].ledger = ledger]
  BY <1>1, <1>2 DEF IsTick
<1>5. \A i \in Subs : /\ tick'.rows[i].status = tick.rows[i].status
                      /\ tick'.rows[i].error = tick.rows[i].error
                      /\ tick'.rows[i].ledger = IF i = tick.n THEN ledger ELSE tick.rows[i].ledger
  <2>1. ASSUME NEW v, IsRow(v), NEW w, w = [v EXCEPT !.ledger = ledger]
        PROVE  w.status = v.status /\ w.error = v.error /\ w.ledger = ledger
    BY <2>1 DEF IsRow
  <2>2. tick.rows = [i \in Subs |-> tick.rows[i]] /\ \A i \in Subs : IsRow(tick.rows[i])
    BY <1>1 DEF IsTick
  <2>3. ASSUME NEW i \in Subs
        PROVE  tick'.rows[i] = IF i = tick.n THEN [tick.rows[i] EXCEPT !.ledger = ledger]
                               ELSE tick.rows[i]
    BY <1>4, <2>2
  <2>4. ASSUME NEW i \in Subs, i = tick.n
        PROVE  /\ tick'.rows[i].status = tick.rows[i].status
               /\ tick'.rows[i].error = tick.rows[i].error /\ tick'.rows[i].ledger = ledger
    <3>1. PICK w : w = [tick.rows[i] EXCEPT !.ledger = ledger]
      OBVIOUS
    <3>2. w.status = tick.rows[i].status /\ w.error = tick.rows[i].error /\ w.ledger = ledger
      BY <2>1, <2>2, <3>1
    <3> QED BY <2>3, <2>4, <3>1, <3>2
  <2>5. ASSUME NEW i \in Subs, i # tick.n PROVE tick'.rows[i] = tick.rows[i]
    BY <2>3, <2>5
  <2> QED BY <2>4, <2>5
<1>6. \A i \in Subs : tick.rows[i].ledger \subseteq tick'.rows[i].ledger
  BY <1>3, <1>5
<1>7. Matchable(tick.n, tick'.tracks) \subseteq tick'.rows[tick.n].ledger \cup tick'.todo
  BY <1>1, <1>2, <1>4, <1>5 DEF Matchable
<1>8. Loops'
  BY <1>1, <1>4, <1>5, <1>6, <1>7, SameLoop
<1>9. NoPlaylistNoRow'
  BY <1>1 DEF SeenInv, NoPlaylistNoRow
<1> QED BY <1>1, <1>4, <1>5, <1>8, <1>9, WorkKeeps DEF Working

LEMMA CopyOneKeeps ==
  ASSUME SeenInv, Shape', Onward, NEW s \in Songs, CopyOne(s) \/ CopyRefused(s) PROVE SeenInv'
<1>1. /\ pc = "copy" /\ pc' = "copy" /\ tick.n \in Subs /\ IsTick(tick)
      /\ UNCHANGED <<sync, call, disturbed, row>>
  BY AtOne DEF CopyOne, CopyRefused, history
<1>2. PICK u : u = BothLedgers(tick, tick.n, s)
  OBVIOUS
<1>3. /\ IsTick(u) /\ u.n = tick.n /\ u.prepared = tick.prepared /\ u.stored = tick.stored
      /\ u.snapshot = tick.snapshot /\ u.tracks = tick.tracks /\ u.todo = tick.todo
      /\ \A i \in Subs : /\ u.rows[i].status = tick.rows[i].status
                         /\ u.rows[i].error = tick.rows[i].error
                         /\ u.rows[i].ledger = IF i = tick.n THEN tick.rows[i].ledger \cup {s}
                                               ELSE tick.rows[i].ledger
  <2>1. IsTick(u)
    BY <1>1, <1>2, BothLedgersShape
  <2>2. WithSong(u, tick, tick.n, s)
    BY <1>1, <1>2, LedgerGrows
  <2> QED BY <2>1, <2>2 DEF WithSong
<1>4. PICK here : tick' = [u EXCEPT !.todo = @ \ {s}, !.here = here]
  BY <1>2 DEF CopyOne, CopyRefused, CopyRecorded
<1>5. /\ tick'.n = tick.n /\ tick'.prepared = tick.prepared /\ tick'.stored = tick.stored
      /\ tick'.snapshot = tick.snapshot /\ tick'.tracks = tick.tracks /\ tick'.rows = u.rows
      /\ tick'.todo = tick.todo \ {s}
  BY <1>3, <1>4 DEF IsTick
<1>6. Matchable(tick.n, tick.tracks) \subseteq tick.rows[tick.n].ledger \cup tick.todo
  BY <1>1 DEF SeenInv, Loops
<1>7. Matchable(tick.n, tick'.tracks) \subseteq tick'.rows[tick.n].ledger \cup tick'.todo
  BY <1>1, <1>3, <1>5, <1>6
<1>8. \A i \in Subs : /\ tick'.rows[i].status = tick.rows[i].status
                      /\ tick'.rows[i].error = tick.rows[i].error
                      /\ tick.rows[i].ledger \subseteq tick'.rows[i].ledger
  BY <1>3, <1>5
<1>9. Loops'
  BY <1>1, <1>5, <1>7, <1>8, SameLoop
<1>10. NoPlaylistNoRow'
  BY <1>1 DEF SeenInv, NoPlaylistNoRow
<1> QED BY <1>1, <1>5, <1>8, <1>9, <1>10, WorkKeeps DEF Working

-----------------------------------------------------------------------------
(* The theorem. *)

LEMMA SeenInit == Init => SeenInv
<1> SUFFICES ASSUME Init PROVE SeenInv
  OBVIOUS
<1>1. Shape
  BY ShapeInit
<1>2. /\ pc = "idle" /\ tick = IdleTick /\ sync.snapshot = Unseen
      /\ \A i \in Subs : call[i].at = "idle"
  <2>1. PICK m \in FirstModes :
          sync = [mode |-> m, revoked |-> FALSE, snapshot |-> Unseen,
                  streak |-> 0, wait |-> 0, error |-> FALSE]
    BY DEF Init
  <2>2. IdleCall.at = "idle"
    BY DEF IdleCall
  <2> QED BY <2>1, <2>2 DEF Init
<1>3. Snaps
  BY <1>1, <1>2, CurrentNow, IdleTickShape DEF Snaps
<1>4. Importing
  BY <1>2 DEF Importing
<1>5. Unseen[2] \cap Songs = {}
  BY SongsAssumption DEF Unseen
<1>6. RowsCover
  BY <1>2, <1>5 DEF RowsCover, Covers, Matchable
<1>7. TickReads /\ Lists /\ Loops
  BY <1>2 DEF TickReads, Lists, Loops, Reading, Working
<1>8. NoPlaylistNoRow
  <2>1. ASSUME NEW i \in Subs, row[i].status = "none" PROVE row[i].playlist = 0
    <3>1. NoRow.playlist = 0
      BY DEF NoRow
    <3>2. CASE i \in Joined
      <4>1. row[i].status = "completed"
        BY <3>2 DEF Init, NoRow
      <4> QED BY <2>1, <4>1
    <3>3. CASE i \notin Joined
      BY <3>1, <3>3 DEF Init
    <3> QED BY <3>2, <3>3
  <2> QED BY <2>1 DEF NoPlaylistNoRow
<1> QED BY <1>1, <1>2, <1>3, <1>4, <1>6, <1>7, <1>8 DEF SeenInv

LEMMA SeenNext == SeenInv /\ [Next]_vars => SeenInv'
<1> SUFFICES ASSUME SeenInv, [Next]_vars PROVE SeenInv'
  OBVIOUS
<1>1. CASE UNCHANGED vars
  <2>1. UNCHANGED <<source, version, sync, row, pc, tick, call, disturbed, leftOut>>
    BY <1>1 DEF vars, provVars, playVars, tickVars, history
  <2>2. Shape' /\ Onward
    BY <2>1 DEF SeenInv, Shape, Onward
  <2>3. NoPlaylistNoRow'
    BY <2>1 DEF SeenInv, NoPlaylistNoRow
  <2> QED BY <2>1, <2>2, <2>3, TickUntouched, RowsUntouched DEF SeenInv
<1>2. CASE Next
  <2>1. Shape /\ Loops
    BY DEF SeenInv
  <2>2. Shape'
    BY <1>2, <2>1, ShapePeople, ShapeTick DEF Next, Fault, Resends
  <2>3. Onward
    BY <1>2, <2>1, StepGoesOn
  <2>4. CASE People
    BY <2>2, <2>3, <2>4, PeopleKeep, ImportStepKeeps DEF People
  <2>5. CASE Tick
    BY <2>2, <2>3, <2>5, TickBegins
  <2>6. CASE TickStep
    BY <2>2, <2>3, <2>6, ReadStepKeeps, StoreKeeps, SkipKeeps, PreparedKeeps, BackStartKeeps,
       BackOneKeeps, ForwardStartKeeps, CopyOneKeeps, SaveKeeps, PlanKeeps DEF TickStep
  <2>7. CASE Clock
    BY <2>2, <2>3, <2>7, PeopleKeep
  <2>8. CASE Fault
    BY <2>2, <2>3, <2>8, TickFailsKeeps, FailKeeps, RestartKeeps, ImportStepKeeps, BackOneKeeps,
       CopyOneKeeps, PeopleKeep DEF Fault, Resends
  <2>9. CASE \E i \in Subs : ImportStep(i)
    BY <2>2, <2>3, <2>9, ImportStepKeeps
  <2> QED BY <1>2, <2>4, <2>5, <2>6, <2>7, <2>8, <2>9 DEF Next
<1> QED BY <1>1, <1>2

LEMMA SeenInvCovers == SeenInv => SeenMeansCopied
<1> SUFFICES ASSUME SeenInv, NEW i \in Subs, Resting(i), ~disturbed[i]
             PROVE  Matchable(i, Held(source)) \subseteq row[i].ledger \cup leftOut[i]
  BY DEF SeenMeansCopied
<1>1. /\ pc = "idle" /\ call[i].at = "idle" /\ row[i].status = "completed" /\ ~row[i].error
      /\ sync.snapshot = SnapshotOf(0, source)
  BY DEF Resting
<1>2. Covers(i, row[i].ledger, sync.snapshot)
  BY <1>1 DEF SeenInv, RowsCover, Subscribed
<1>3. version[0] \in Nat
  BY DEF SeenInv, Shape
<1>4. sync.snapshot[1] = version[0] /\ sync.snapshot[2] = Held(source)
  BY <1>1 DEF SnapshotOf
<1>5. Held(source) \cap Songs = Held(source)
  BY DEF Held
<1> QED BY <1>2, <1>3, <1>4, <1>5 DEF Covers, Outdated

\* runAutoSyncCycle stores what it has seen of the source before it copies, and
\* nobody lists it again until it changes: whatever is stored as seen, the rows
\* account for, except for what an import reported as left out and for rows
\* whose import ran during a tick, or whose tick was cut off.
THEOREM SeenIsCopied == Spec => []SeenMeansCopied
<1>1. Spec => []SeenInv
  BY SeenInit, SeenNext, PTL DEF Spec
<1> QED BY <1>1, SeenInvCovers, PTL


-----------------------------------------------------------------------------
(* Every variable keeps its type.                                          *)

Step(g, n) == IF n = 0 THEN 1 ELSE 2 * g[n - 1]

DoublesUpTo(g, n) ==
  /\ g = [k \in 0..MaxWait |-> g[k]]
  /\ \A k \in 0..MaxWait : k <= n => g[k] = Step(g, k)

LEMMA BackoffExists == \E g : g = [k \in 0..MaxWait |-> Step(g, k)]
<1> USE BoundsAssumption
<1> DEFINE fails == {n \in Nat : ~ \E g : DoublesUpTo(g, n)}
<1>1. fails = {}
  <2> SUFFICES ASSUME fails # {} PROVE FALSE
    OBVIOUS
  <2>1. PICK n \in fails : \A k \in fails : n <= k
    <3>1. fails \subseteq Nat
      OBVIOUS
    <3>2. Min(fails) \in fails /\ \A k \in fails : Min(fails) <= k
      BY <3>1, MinOf
    <3> QED BY <3>2
  <2>2. n # 0
    <3> DEFINE g == [k \in 0..MaxWait |-> 1]
    <3>1. DoublesUpTo(g, 0)
      BY DEF DoublesUpTo, Step
    <3> QED BY <2>1, <3>1
  <2>3. n - 1 \in Nat /\ n - 1 \notin fails
    BY <2>1, <2>2
  <2>4. PICK g : DoublesUpTo(g, n - 1)
    BY <2>3
  <2> DEFINE h == [k \in 0..MaxWait |-> Step(g, k)]
  <2>5. DoublesUpTo(h, n)
    <3>1. ASSUME NEW k \in 0..MaxWait, k <= n PROVE h[k] = Step(h, k)
      <4>1. CASE k = 0
        BY <4>1 DEF Step
      <4>2. CASE k # 0
        <5>1. k - 1 \in 0..MaxWait /\ k - 1 <= n - 1
          BY <3>1, <4>2, <2>1
        <5>2. g[k - 1] = Step(g, k - 1)
          BY <5>1, <2>4 DEF DoublesUpTo
        <5>3. h[k - 1] = Step(g, k - 1)
          BY <5>1
        <5> QED BY <4>2, <5>2, <5>3 DEF Step
      <4> QED BY <4>1, <4>2
    <3> QED BY <3>1 DEF DoublesUpTo
  <2> QED BY <2>1, <2>5
<1>2. MaxWait \in Nat
  OBVIOUS
<1>3. PICK g : DoublesUpTo(g, MaxWait)
  BY <1>1, <1>2
<1>4. \A k \in 0..MaxWait : g[k] = Step(g, k)
  BY <1>3 DEF DoublesUpTo
<1>5. g = [k \in 0..MaxWait |-> g[k]]
  BY <1>3 DEF DoublesUpTo
<1>6. g = [k \in 0..MaxWait |-> Step(g, k)]
  BY <1>4, <1>5
<1> QED BY <1>6

\* The poll interval is within its limits.
LEMMA IntervalTyped == \A n \in 0..MaxWait : Interval(n) \in 0..MaxWait
<1> USE BoundsAssumption
<1>1. Backoff = CHOOSE g : g = [k \in 0..MaxWait |-> IF k = 0 THEN 1 ELSE 2 * g[k - 1]]
  BY DEF Backoff
<1>2. Backoff = [k \in 0..MaxWait |-> IF k = 0 THEN 1 ELSE 2 * Backoff[k - 1]]
  BY <1>1, BackoffExists DEF Step
<1> DEFINE odd == {k \in 0..MaxWait : Backoff[k] \notin Nat}
<1>3. odd = {}
  <2> SUFFICES ASSUME odd # {} PROVE FALSE
    OBVIOUS
  <2>1. PICK n \in odd : \A k \in odd : n <= k
    <3>1. odd \subseteq Nat
      OBVIOUS
    <3>2. Min(odd) \in odd /\ \A k \in odd : Min(odd) <= k
      BY <3>1, MinOf
    <3> QED BY <3>2
  <2>2. n # 0
    BY <1>2
  <2>3. n - 1 \in 0..MaxWait /\ n - 1 \notin odd
    BY <2>1, <2>2
  <2>4. Backoff[n - 1] \in Nat /\ Backoff[n] = 2 * Backoff[n - 1]
    BY <1>2, <2>2, <2>3
  <2> QED BY <2>1, <2>4
<1>4. ASSUME NEW n \in 0..MaxWait PROVE Interval(n) \in 0..MaxWait
  <2>1. Backoff[n] \in Nat
    BY <1>3
  <2>2. {Backoff[n], MaxWait} \subseteq Nat /\ {Backoff[n], MaxWait} # {}
    BY <2>1
  <2>3. /\ Min({Backoff[n], MaxWait}) \in {Backoff[n], MaxWait}
        /\ \A y \in {Backoff[n], MaxWait} : Min({Backoff[n], MaxWait}) <= y
    BY <2>2, MinOf
  <2> HIDE DEF odd
  <2>4. Min({Backoff[n], MaxWait}) \in Nat
    BY <2>2, <2>3
  <2> QED BY <2>3, <2>4 DEF Interval
<1> QED BY <1>4

(* The types, along the tick.                                              *)

GoodRow == {w \in RowType : w.status = "none" <=> w.playlist = 0}

\* What the tick holds.
TickTyped(t) ==
  /\ t.mode \in Modes /\ t.stored \in Snapshots /\ t.snapshot \in Snapshots
  /\ t.streak \in 0..MaxWait /\ t.failed \in BOOLEAN
  /\ t.rows \in [Subs -> GoodRow]
  /\ t.heard \in [Subs -> Snapshots]
  /\ t.todo \subseteq Songs

\* Both ways, each row it works on has had its copy listed before.
Heard ==
  /\ pc = "recipients" =>
       TwoWay /\ tick.n \in Listed /\ \A j \in Listed : j < tick.n => tick.heard[j][2] \subseteq Songs
  /\ pc \in {"listLate", "store"} \cup Working /\ TwoWay =>
       \A j \in Listed : tick.heard[j][2] \subseteq Songs

\* A playlist is made in an import, and stored once it is.
CallTyped(i) ==
  /\ call[i].at \in {"idle", "open", "add", "end"}
  /\ call[i].playlist \in 0..MaxImports + 1
  /\ call[i].at \in {"add", "end"} => call[i].playlist # 0
  /\ made[i] \in Nat /\ made[i] <= 1 + imports
  /\ call[i].at = "open" => made[i] <= imports

CallsTyped ==
  /\ imports \in 0..MaxImports
  /\ made = [i \in Subs |-> made[i]]
  /\ \A i \in Subs : CallTyped(i)

SyncType ==
  [mode : Modes, revoked : BOOLEAN, snapshot : Snapshots,
   streak : 0..MaxWait, wait : 0..MaxWait, error : BOOLEAN]

Histories ==
  /\ leftOut \in [Subs -> SUBSET Songs]
  /\ taken \in [Subs -> SUBSET Songs]
  /\ unrecorded \in [Subs -> SUBSET Songs]
  /\ again \in [Subs -> SUBSET Songs]
  /\ own \in [Subs -> SUBSET Songs]
  /\ ownAdds \in [{0} \cup Subs -> SUBSET Songs]
  /\ resent \in [{0} \cup Subs -> SUBSET Songs]
  /\ uncopied \in [Subs -> SUBSET Songs]

PlaylistsTyped ==
  /\ source \in [Songs -> 0..MaxCopies]
  /\ copy \in [Subs -> [Playlists -> [Songs -> 0..MaxCopies]]]

TypedInv ==
  /\ PlaylistsTyped
  /\ sync \in SyncType
  /\ row \in [Subs -> GoodRow]
  /\ TickTyped(tick) /\ Heard
  /\ CallsTyped /\ Histories

LEMMA SnapshotTyped ==
  ASSUME Shape, NEW i \in {0} \cup Subs, NEW p
  PROVE  SnapshotOf(i, p) \in Snapshots /\ SnapshotOf(i, p)[2] \subseteq Songs
  BY DEF Shape, SnapshotOf, Snapshots, Held

LEMMA UnseenTyped == Unseen \in Snapshots
  BY DEF Unseen, Snapshots

LEMMA PlusOneTyped ==
  ASSUME NEW p \in [Songs -> 0..MaxCopies], NEW S
  PROVE  PlusOne(p, S) \in [Songs -> 0..MaxCopies]
  BY DEF PlusOne, MaxCopies

LEMMA OneCopyTyped == 0 \in 0..MaxCopies /\ 1 \in 0..MaxCopies
  BY DEF MaxCopies

LEMMA PlaylistsNext == TypedInv /\ SeenInv /\ Next => PlaylistsTyped'
<1> SUFFICES ASSUME TypedInv, SeenInv, Next PROVE PlaylistsTyped'
  OBVIOUS
<1> USE DEF PlaylistsTyped
<1>0. PlaylistsTyped
  BY DEF TypedInv
<1>1. ASSUME NEW s \in OwnerSongs, OwnerAddsOrRemoves(s) PROVE PlaylistsTyped'
  BY <1>0, <1>1, OneCopyTyped DEF OwnerAddsOrRemoves
<1>2. ASSUME NEW i \in Subs, NEW s \in Songs, SubscriberAddsOrRemoves(i, s) PROVE PlaylistsTyped'
  <2> DEFINE p == row[i].playlist
  <2>1. PICK v \in {0, 1} : copy' = [copy EXCEPT ![i][p][s] = v]
    BY <1>2 DEF SubscriberAddsOrRemoves
  <2>2. source' = source
    BY <1>2 DEF SubscriberAddsOrRemoves
  <2> HIDE DEF p
  <2>3. PICK c : c = [copy[i] EXCEPT ![p][s] = v]
    OBVIOUS
  <2>4. PICK e : e = [copy[i][p] EXCEPT ![s] = v]
    OBVIOUS
  <2>5. p \in Playlists => e \in [Songs -> 0..MaxCopies]
    BY <1>0, <2>4, OneCopyTyped
  <2>6. c = [copy[i] EXCEPT ![p] = e] /\ copy' = [copy EXCEPT ![i] = c]
    BY <2>1, <2>3, <2>4
  <2>7. c \in [Playlists -> [Songs -> 0..MaxCopies]]
    BY <1>0, <2>5, <2>6
  <2> QED BY <1>0, <2>2, <2>6, <2>7
<1>3. ASSUME NEW i \in Subs, ImportAdd(i) PROVE PlaylistsTyped'
  <2>1. PICK got \in SUBSET call[i].todo :
          copy' = [copy EXCEPT ![i][call[i].playlist] =
                     PlusOne(PlusOne(@, {Match[i][s] : s \in got}), Twins(i, got))]
    BY <1>3 DEF ImportAdd
  <2>2. PICK e : e = PlusOne(PlusOne(copy[i][call[i].playlist], {Match[i][s] : s \in got}),
                             Twins(i, got))
    OBVIOUS
  <2>3. copy' = [copy EXCEPT ![i][call[i].playlist] = e]
    BY <2>1, <2>2
  <2>4. call[i].playlist \in Playlists =>
          PlusOne(copy[i][call[i].playlist], {Match[i][s] : s \in got}) \in [Songs -> 0..MaxCopies]
    BY <1>0, PlusOneTyped
  <2>5. call[i].playlist \in Playlists => e \in [Songs -> 0..MaxCopies]
    BY <2>2, <2>4, PlusOneTyped
  <2>6. source' = source
    BY <1>3 DEF ImportAdd
  <2> QED BY <1>0, <2>3, <2>5, <2>6
<1>4. ASSUME NEW r \in Songs, BackOne(r) \/ BackResent(r) PROVE PlaylistsTyped'
  <2>1. PlusOne(source, {Back[tick.n][r]}) \in [Songs -> 0..MaxCopies]
    BY <1>0, PlusOneTyped
  <2> QED BY <1>0, <1>4, <2>1 DEF BackOne, BackResent
<1>5. ASSUME NEW s \in Songs, CopyOne(s) \/ CopyResent(s) PROVE PlaylistsTyped'
  <2> DEFINE i == tick.n
             p == tick.rows[i].playlist
  <2>1. p \in Playlists => PlusOne(copy[i][p], {Match[i][s]}) \in [Songs -> 0..MaxCopies]
    <3>1. i \in Subs
      BY <1>5 DEF CopyOne, CopyResent, SeenInv, Loops, Listed
    <3> QED BY <1>0, <3>1, PlusOneTyped
  <2>2. copy' = [copy EXCEPT ![i][p] = PlusOne(@, {Match[i][s]})] \/ copy' = copy
    BY <1>5 DEF CopyOne, CopyResent
  <2>3. source' = source
    BY <1>5 DEF CopyOne, CopyResent
  <2> HIDE DEF i, p
  <2>4. CASE copy' = copy
    BY <1>0, <2>3, <2>4
  <2>5. CASE copy' = [copy EXCEPT ![i][p] = PlusOne(@, {Match[i][s]})]
    <3>1. PICK e : e = PlusOne(copy[i][p], {Match[i][s]})
      OBVIOUS
    <3>2. copy' = [copy EXCEPT ![i][p] = e]
      BY <2>5, <3>1
    <3>3. p \in Playlists => e \in [Songs -> 0..MaxCopies]
      BY <2>1, <3>1
    <3> QED BY <1>0, <2>3, <3>2, <3>3
  <2> QED BY <2>2, <2>4, <2>5
<1>6. ASSUME UNCHANGED <<source, copy>> PROVE PlaylistsTyped'
  BY <1>0, <1>6
<1>12. ASSUME NEW i \in Subs, ImportAddResent(i) PROVE PlaylistsTyped'
  <2> DEFINE p == call[i].playlist
  <2>1. PICK s : copy' = [copy EXCEPT ![i][p] = PlusOne(@, {Match[i][s]})]
    BY <1>12 DEF ImportAddResent
  <2>2. source' = source
    BY <1>12 DEF ImportAddResent
  <2> HIDE DEF p
  <2>3. PICK e : e = PlusOne(copy[i][p], {Match[i][s]})
    OBVIOUS
  <2>4. copy' = [copy EXCEPT ![i][p] = e]
    BY <2>1, <2>3
  <2>5. p \in Playlists => e \in [Songs -> 0..MaxCopies]
    BY <1>0, <2>3, PlusOneTyped
  <2> QED BY <1>0, <2>2, <2>4, <2>5
<1> USE DEF provVars, playVars, tickVars, history
<1>7. CASE People
  <2>1. ASSUME NEW m \in Modes, SetMode(m) PROVE UNCHANGED <<source, copy>>
    BY <2>1 DEF SetMode
  <2>2. ASSUME NEW r \in BOOLEAN, SetRevoked(r) PROVE UNCHANGED <<source, copy>>
    BY <2>2 DEF SetRevoked
  <2>3. ASSUME NEW i \in Subs, Unsubscribe(i) \/ ImportBegin(i) PROVE UNCHANGED <<source, copy>>
    BY <2>3 DEF Unsubscribe, ImportBegin
  <2> QED BY <1>1, <1>2, <1>6, <1>7, <2>1, <2>2, <2>3 DEF People
<1>8. CASE Tick \/ Clock
  BY <1>6, <1>8 DEF Tick, Clock
<1>9. CASE TickStep
  <2>1. CASE \/ ReadSnapshot \/ ListSource \/ ReadRecipient \/ ListSourceLate \/ StoreSnapshot
             \/ SkipImport \/ PrepareForward \/ StartBack \/ EndBack
             \/ StartForward \/ SaveRow \/ PlanNextPoll
    BY <1>6, <2>1 DEF ReadSnapshot, ListSource, ReadRecipient, ListSourceLate, StoreSnapshot,
       SkipImport, PrepareForward, StartBack, EndBack, StartForward, SaveRow, PlanNextPoll
  <2> QED BY <1>4, <1>5, <1>9, <2>1 DEF TickStep
<1>10. CASE Fault
  <2>1. CASE \/ TickFails \/ ImportFails \/ Restart \/ \E i \in Subs : ImportThrows(i)
             \/ \E s \in Songs : BackRefused(s) \/ CopyRefused(s)
    BY <1>6, <2>1 DEF TickFails, ImportFails, Restart, ImportThrows, BackRefused, CopyRefused
  <2> QED BY <1>4, <1>5, <1>10, <1>12, <2>1 DEF Fault
<1>11. ASSUME NEW i \in Subs, ImportStep(i) PROVE PlaylistsTyped'
  BY <1>3, <1>6, <1>11 DEF ImportStep, ImportOpen, ImportEnd
<1> QED BY <1>7, <1>8, <1>9, <1>10, <1>11 DEF Next

LEMMA HistoriesNext == TypedInv /\ SeenInv /\ Next => Histories'
<1> SUFFICES ASSUME TypedInv, SeenInv, Next PROVE Histories'
  OBVIOUS
<1> USE SubsetsHold DEF Histories, addVars
<1>0. Histories
  BY DEF TypedInv
<1>1. ASSUME NEW s \in OwnerSongs, OwnerAddsOrRemoves(s) PROVE Histories'
  BY <1>0, <1>1 DEF OwnerAddsOrRemoves
<1>2. ASSUME NEW i \in Subs, NEW s \in Songs, SubscriberAddsOrRemoves(i, s) PROVE Histories'
  BY <1>0, <1>2 DEF SubscriberAddsOrRemoves
<1>3. ASSUME NEW i \in Subs, ImportAdd(i) PROVE Histories'
  <2>1. PICK got \in SUBSET call[i].todo : \E seen \in SUBSET got :
          /\ leftOut' = [leftOut EXCEPT ![i] = @ \cup (call[i].todo \ got)]
          /\ again' = [again EXCEPT ![i] = @ \cup seen]
    <3>1. PICK got \in SUBSET call[i].todo :
            LET missed == leftOut[i] \cup unrecorded[i]
                double == own[i] \cup Twins(i, got \cup call[i].ledger \cup missed)
            IN  /\ leftOut' = [leftOut EXCEPT ![i] = @ \cup (call[i].todo \ got)]
                /\ again' = [again EXCEPT ![i] =
                               @ \cup {s \in got : s \in missed \/ Match[i][s] \in double}]
      BY <1>3 DEF ImportAdd
    <3> DEFINE missed == leftOut[i] \cup unrecorded[i]
               seen == {s \in got : \/ s \in missed
                                    \/ Match[i][s] \in own[i] \cup
                                         Twins(i, got \cup call[i].ledger \cup missed)}
    <3>2. seen \in SUBSET got
      OBVIOUS
    <3> QED BY <3>1, <3>2
  <2>2. call[i].todo \subseteq Songs
    BY DEF SeenInv, Shape, IsCall
  <2> QED BY <1>0, <1>3, <2>1, <2>2 DEF ImportAdd
<1>4. CASE ImportFails
  <2>1. tick.n \in Subs => tick.rows[tick.n].ledger \subseteq Songs /\ tick.added \subseteq Songs
    BY DEF SeenInv, Shape, IsTick, IsRow
  <2> QED BY <1>0, <1>4, <2>1 DEF ImportFails
<1>5. ASSUME \/ Restart \/ \E i \in Subs : ImportThrows(i) PROVE Histories'
  <2>1. \A i \in Subs : Matchable(i, call[i].listed) \subseteq Songs
    BY DEF SeenInv, Shape, IsCall
  <2>2. leftOut' \in [Subs -> SUBSET Songs]
    BY <1>0, <1>5, <2>1 DEF Restart, ImportThrows
  <2> QED BY <1>0, <1>5, <2>2 DEF Restart, ImportThrows
<1>6. ASSUME UNCHANGED <<leftOut, taken, unrecorded, again, own, ownAdds, addVars>> PROVE Histories'
  BY <1>0, <1>6
<1>12. ASSUME NEW i \in {0} \cup Subs, NEW s \in Songs, resent' = [resent EXCEPT ![i] = @ \cup {s}],
              UNCHANGED <<leftOut, taken, unrecorded, again, own, ownAdds, uncopied>>
       PROVE  Histories'
  BY <1>0, <1>12
<1>13. ASSUME NEW i, NEW S \in SUBSET Songs, uncopied' = [uncopied EXCEPT ![i] = @ \cup S],
              UNCHANGED <<leftOut, taken, unrecorded, again, own, ownAdds, resent>>
       PROVE  Histories'
  BY <1>0, <1>13
<1>14. CASE Resends
  <2>1. ASSUME NEW i \in Subs, ImportAddResent(i) PROVE Histories'
    <3>1. call[i].todo \subseteq Songs
      BY DEF SeenInv, Shape, IsCall
    <3> QED BY <1>12, <2>1, <3>1 DEF ImportAddResent
  <2>2. ASSUME NEW r \in Songs, BackResent(r) PROVE Histories'
    <3>1. Back[tick.n][r] \in Songs
      <4>1. tick.n \in Subs
        BY <2>2 DEF BackResent, SeenInv, Loops, Listed
      <4> QED BY <2>2, <4>1, SongsAssumption DEF BackResent, NewToSource
    <3> QED BY <1>12, <2>2, <3>1 DEF BackResent
  <2>3. ASSUME NEW s \in Songs, CopyResent(s) PROVE Histories'
    <3>1. tick.n \in Subs
      BY <2>3 DEF CopyResent, SeenInv, Loops, Listed
    <3> QED BY <1>12, <2>3, <3>1 DEF CopyResent
  <2> QED BY <1>14, <2>1, <2>2, <2>3 DEF Resends
<1>15. CASE StartForward
  <2> DEFINE old == tick.rows[tick.n]
             ledger == IF Adopts(tick.n, old.ledger) THEN tick.tracks ELSE old.ledger
             fresh == {s \in ledger \ old.ledger :
                         Match[tick.n][s] \notin Held(copy[tick.n][old.playlist])}
  <2>1. fresh \subseteq tick.tracks
    OBVIOUS
  <2>2. fresh \in SUBSET Songs
    BY <2>1 DEF SeenInv, Shape, IsTick
  <2>3. /\ uncopied' = [uncopied EXCEPT ![tick.n] = @ \cup fresh]
        /\ UNCHANGED <<leftOut, taken, unrecorded, again, own, ownAdds, resent>>
    BY <1>15 DEF StartForward
  <2> HIDE DEF fresh
  <2> QED BY <1>13, <2>2, <2>3
<1>16. ASSUME NEW s \in Songs, CopyRefused(s) PROVE Histories'
  <2>1. {s} \in SUBSET Songs
    OBVIOUS
  <2> QED BY <1>13, <1>16, <2>1 DEF CopyRefused
<1> USE DEF provVars, playVars, tickVars, history
<1>7. CASE People
  <2>1. ASSUME NEW m \in Modes, SetMode(m) PROVE UNCHANGED history
    BY <2>1 DEF SetMode
  <2>2. ASSUME NEW r \in BOOLEAN, SetRevoked(r) PROVE UNCHANGED history
    BY <2>2 DEF SetRevoked
  <2>3. ASSUME NEW i \in Subs, Unsubscribe(i) \/ ImportBegin(i)
        PROVE  UNCHANGED <<leftOut, taken, unrecorded, again, own, ownAdds, addVars>>
    BY <2>3 DEF Unsubscribe, ImportBegin
  <2> QED BY <1>1, <1>2, <1>6, <1>7, <2>1, <2>2, <2>3 DEF People
<1>8. CASE Tick \/ Clock
  BY <1>6, <1>8 DEF Tick, Clock
<1>9. CASE TickStep
  BY <1>6, <1>9, <1>15 DEF TickStep, ReadSnapshot, ListSource, ReadRecipient, ListSourceLate,
     StoreSnapshot, SkipImport, PrepareForward, StartBack, EndBack, SaveRow, PlanNextPoll, BackOne, CopyOne
<1>10. CASE TickFails \/ \E s \in Songs : BackRefused(s)
  BY <1>6, <1>10 DEF TickFails, BackRefused
<1>11. ASSUME NEW i \in Subs, ImportStep(i) PROVE Histories'
  BY <1>3, <1>6, <1>11 DEF ImportStep, ImportOpen, ImportEnd
<1> QED BY <1>4, <1>5, <1>7, <1>8, <1>9, <1>10, <1>11, <1>14, <1>16 DEF Next, Fault, Resends

LEMMA CallsNext == TypedInv /\ SeenInv /\ Next => CallsTyped'
<1> SUFFICES ASSUME TypedInv, SeenInv, Next PROVE CallsTyped'
  OBVIOUS
<1> USE BoundsAssumption
<1>0. /\ imports \in 0..MaxImports /\ MaxImports \in Nat
      /\ \A i \in Subs : CallTyped(i)
      /\ made = [i \in Subs |-> made[i]] /\ call = [i \in Subs |-> call[i]]
      /\ \A i \in Subs : IsCall(call[i])
  BY DEF TypedInv, SeenInv, Shape, CallsTyped
<1>1. ASSUME UNCHANGED <<imports, made, call>> PROVE CallsTyped'
  BY <1>0, <1>1 DEF CallTyped, CallsTyped
<1>2. ASSUME NEW i \in Subs, call' = [call EXCEPT ![i] = IdleCall], UNCHANGED <<imports, made>> PROVE CallsTyped'
  BY <1>0, <1>2 DEF CallTyped, CallsTyped, IdleCall
<1>3. ASSUME NEW i \in Subs, ImportBegin(i) PROVE CallsTyped'
  <2>1. /\ call[i].at = "idle" /\ imports < MaxImports /\ imports' = imports + 1 /\ made' = made
        /\ call' = [call EXCEPT ![i] = [IdleCall EXCEPT !.at = "open", !.listed = Held(source)]]
    BY <1>3 DEF ImportBegin, provVars
  <2>2. call'[i].at = "open" /\ call'[i].playlist = 0
    BY <1>0, <2>1 DEF IdleCall
  <2>3. \A j \in Subs : j # i => call'[j] = call[j]
    BY <1>0, <2>1
  <2>4. imports' \in 0..MaxImports
    BY <1>0, <2>1
  <2>5. CallTyped(i)'
    <3>1. made[i] \in Nat /\ made[i] <= 1 + imports
      BY <1>0 DEF CallTyped
    <3> QED BY <1>0, <2>1, <2>2, <3>1 DEF CallTyped
  <2>6. ASSUME NEW j \in Subs, j # i PROVE CallTyped(j)'
    <3>1. CallTyped(j)
      BY <1>0
    <3> QED BY <1>0, <2>1, <2>3, <2>6, <3>1 DEF CallTyped
  <2> QED BY <1>0, <2>1, <2>4, <2>5, <2>6 DEF CallsTyped
<1>4. ASSUME NEW i \in Subs, ImportOpen(i) PROVE CallsTyped'
  <2> DEFINE p == IF row[i].playlist = 0 THEN made[i] + 1 ELSE row[i].playlist
             work == Matchable(i, call[i].listed) \ row[i].ledger
  <2>1. /\ call[i].at = "open" /\ imports' = imports
        /\ call' = [call EXCEPT ![i].at = "add", ![i].playlist = p,
                                ![i].ledger = row[i].ledger, ![i].todo = work]
        /\ row[i].playlist = 0 => made' = [made EXCEPT ![i] = p]
        /\ row[i].playlist # 0 => made' = made
    BY <1>4 DEF ImportOpen, counters
  <2>2. row[i].playlist \in 0..MaxImports + 1
    BY DEF TypedInv, GoodRow, RowType
  <2>3. made[i] \in Nat /\ made[i] <= imports
    BY <1>0, <2>1 DEF CallTyped
  <2>4. p \in 1..MaxImports + 1
    BY <1>0, <2>2, <2>3
  <2>5. made'[i] \in Nat /\ made'[i] <= 1 + imports /\ made' = [j \in Subs |-> made'[j]] /\ \A j \in Subs : j # i => made'[j] = made[j]
    BY <1>0, <2>1, <2>3
  <2> HIDE DEF p, work
  <2>6. call'[i].at = "add" /\ call'[i].playlist = p /\ \A j \in Subs : j # i => call'[j] = call[j]
    <3>1. call[i] = [at |-> call[i].at, listed |-> call[i].listed, playlist |-> call[i].playlist,
                     ledger |-> call[i].ledger, todo |-> call[i].todo]
      BY <1>0 DEF IsCall
    <3>2. call'[i] = [call[i] EXCEPT !.at = "add", !.playlist = p, !.ledger = row[i].ledger, !.todo = work]
      BY <1>0, <2>1
    <3>3. \A j \in Subs : j # i => call'[j] = call[j]
      BY <1>0, <2>1
    <3> QED BY <3>1, <3>2, <3>3
  <2>7. CallTyped(i)'
    BY <1>0, <2>1, <2>4, <2>5, <2>6 DEF CallTyped
  <2>8. ASSUME NEW j \in Subs, j # i PROVE CallTyped(j)'
    BY <1>0, <2>1, <2>5, <2>6, <2>8 DEF CallTyped
  <2> QED BY <1>0, <2>1, <2>5, <2>7, <2>8 DEF CallsTyped
<1>5. ASSUME NEW i \in Subs, ImportAdd(i) PROVE CallsTyped'
  <2>1. PICK got \in SUBSET call[i].todo :
          call' = [call EXCEPT ![i].at = "end", ![i].ledger = @ \cup got]
    BY <1>5 DEF ImportAdd
  <2>2. call[i].at = "add" /\ UNCHANGED <<imports, made>>
    BY <1>5 DEF ImportAdd, counters
  <2>3. call'[i].at = "end" /\ call'[i].playlist = call[i].playlist
    <3>1. call'[i] = [call[i] EXCEPT !.at = "end", !.ledger = @ \cup got]
      BY <1>0, <2>1
    <3> QED BY <1>0, <3>1 DEF IsCall
  <2>4. \A j \in Subs : j # i => call'[j] = call[j]
    BY <1>0, <2>1
  <2> QED BY <1>0, <2>2, <2>3, <2>4 DEF CallTyped, CallsTyped
<1>6. CASE Restart
  BY <1>0, <1>6 DEF Restart, CallTyped, CallsTyped, IdleCall, provVars
<1> USE DEF provVars, playVars, tickVars, history, counters
<1>7. CASE People
  <2>1. ASSUME NEW s \in OwnerSongs, OwnerAddsOrRemoves(s) PROVE CallsTyped'
    BY <1>1, <2>1 DEF OwnerAddsOrRemoves
  <2>2. ASSUME NEW i \in Subs, NEW s \in Songs, SubscriberAddsOrRemoves(i, s) PROVE CallsTyped'
    BY <1>1, <2>2 DEF SubscriberAddsOrRemoves
  <2>3. ASSUME NEW m \in Modes, SetMode(m) PROVE CallsTyped'
    BY <1>1, <2>3 DEF SetMode
  <2>4. ASSUME NEW r \in BOOLEAN, SetRevoked(r) PROVE CallsTyped'
    BY <1>1, <2>4 DEF SetRevoked
  <2>5. ASSUME NEW i \in Subs, Unsubscribe(i) PROVE CallsTyped'
    BY <1>1, <2>5 DEF Unsubscribe
  <2> QED BY <1>3, <1>7, <2>1, <2>2, <2>3, <2>4, <2>5 DEF People
<1>8. CASE Tick \/ Clock
  BY <1>1, <1>8 DEF Tick, Clock
<1>9. CASE TickStep
  <2> QED BY <1>1, <1>9 DEF TickStep, ReadSnapshot, ListSource, ReadRecipient, ListSourceLate, StoreSnapshot,
     SkipImport, PrepareForward, StartBack, EndBack, StartForward, SaveRow, PlanNextPoll, BackOne, CopyOne
<1>10. CASE Fault
  <2>1. ASSUME NEW i \in Subs, ImportThrows(i) PROVE CallsTyped'
    BY <1>2, <2>1 DEF ImportThrows
  <2>2. CASE TickFails \/ ImportFails
    BY <1>1, <2>2 DEF TickFails, ImportFails
  <2>3. CASE Resends
    BY <1>1, <2>3, ResendsTouch DEF OnlyPlaylists, SeenInv
  <2>4. ASSUME NEW s \in Songs, BackRefused(s) \/ CopyRefused(s) PROVE CallsTyped'
    BY <1>1, <2>4 DEF BackRefused, CopyRefused
  <2> QED BY <1>6, <1>10, <2>1, <2>2, <2>3, <2>4 DEF Fault, Resends
<1>11. ASSUME NEW i \in Subs, ImportStep(i) PROVE CallsTyped'
  <2>1. CASE ImportEnd(i)
    BY <1>2, <2>1 DEF ImportEnd
  <2> QED BY <1>4, <1>5, <1>11, <2>1 DEF ImportStep
<1> QED BY <1>7, <1>8, <1>9, <1>10, <1>11 DEF Next

LEMMA NoRowGood == NoRow \in GoodRow
  BY UnseenTyped, BoundsAssumption DEF NoRow, GoodRow, RowType

LEMMA RowFields ==
  ASSUME NEW w, w \in GoodRow
  PROVE  /\ w = [status |-> w.status, playlist |-> w.playlist, ledger |-> w.ledger, back |-> w.back,
                 snapshot |-> w.snapshot, error |-> w.error, ran |-> w.ran]
         /\ w.status \in {"none", "pending", "completed", "failed"}
         /\ w.playlist \in 0..MaxImports + 1 /\ (w.status = "none" <=> w.playlist = 0)
         /\ w.ledger \subseteq Songs /\ w.back \subseteq Songs /\ w.snapshot \in Snapshots
         /\ w.error \in BOOLEAN /\ w.ran \in BOOLEAN
  BY DEF GoodRow, RowType

LEMMA RowIsGood ==
  ASSUME NEW st \in {"pending", "completed", "failed"}, NEW p \in 1..MaxImports + 1,
         NEW ledger \in SUBSET Songs, NEW back \in SUBSET Songs, NEW snap \in Snapshots,
         NEW e \in BOOLEAN, NEW ran \in BOOLEAN
  PROVE  [status |-> st, playlist |-> p, ledger |-> ledger, back |-> back,
          snapshot |-> snap, error |-> e, ran |-> ran] \in GoodRow
<1>1. p \in 0..MaxImports + 1 /\ p # 0
  BY BoundsAssumption
<1> QED BY <1>1 DEF GoodRow, RowType

LEMMA RowPlaylist ==
  ASSUME NEW w \in GoodRow, w.status # "none"
  PROVE  w.playlist \in 1..MaxImports + 1 /\ w.status \in {"pending", "completed", "failed"}
<1>1. w.playlist \in 0..MaxImports + 1 /\ w.playlist # 0
  BY RowFields
<1>2. w.playlist \in 1..MaxImports + 1
  BY <1>1, BoundsAssumption
<1> QED BY <1>2, RowFields

LEMMA UpdateGood ==
  ASSUME TypedInv, NEW i \in Subs, NEW new, Subscribed(i) => new \in GoodRow, UpdateRow(i, new)
  PROVE  row' \in [Subs -> GoodRow]
  BY DEF TypedInv, UpdateRow

LEMMA FailedGood ==
  ASSUME NEW w \in GoodRow, w.status # "none"
  PROVE  Failed(w) \in GoodRow
<1>1. w = [status |-> w.status, playlist |-> w.playlist, ledger |-> w.ledger, back |-> w.back,
            snapshot |-> w.snapshot, error |-> w.error, ran |-> w.ran]
  BY RowFields
<1>2. PICK u : u = [w EXCEPT !.status = "failed", !.error = TRUE]
  OBVIOUS
<1>3. u = [status |-> "failed", playlist |-> w.playlist, ledger |-> w.ledger, back |-> w.back,
                   snapshot |-> w.snapshot, error |-> TRUE, ran |-> w.ran]
  BY <1>1, <1>2
<1>4. /\ w.ledger \in SUBSET Songs /\ w.back \in SUBSET Songs /\ w.snapshot \in Snapshots
      /\ w.ran \in BOOLEAN /\ w.playlist \in 1..MaxImports + 1
  BY RowFields, RowPlaylist
<1>5. u \in GoodRow
  BY <1>3, <1>4, RowIsGood
<1> QED BY <1>5, <1>2 DEF Failed

LEMMA SkippedGood ==
  ASSUME NEW w \in GoodRow, w.status # "none", NEW snap \in Snapshots
  PROVE  [w EXCEPT !.snapshot = snap, !.status = "completed", !.error = FALSE] \in GoodRow
<1>1. w = [status |-> w.status, playlist |-> w.playlist, ledger |-> w.ledger, back |-> w.back,
            snapshot |-> w.snapshot, error |-> w.error, ran |-> w.ran]
  BY RowFields
<1>2. PICK u : u = [w EXCEPT !.snapshot = snap, !.status = "completed", !.error = FALSE]
  OBVIOUS
<1>3. u = [status |-> "completed", playlist |-> w.playlist, ledger |-> w.ledger, back |-> w.back,
           snapshot |-> snap, error |-> FALSE, ran |-> w.ran]
  BY <1>1, <1>2
<1>4. /\ w.ledger \in SUBSET Songs /\ w.back \in SUBSET Songs
      /\ w.ran \in BOOLEAN /\ w.playlist \in 1..MaxImports + 1
  BY RowFields, RowPlaylist
<1>5. u \in GoodRow
  BY <1>3, <1>4, RowIsGood
<1> QED BY <1>5, <1>2

LEMMA RowsNext == TypedInv /\ SeenInv /\ Next => row' \in [Subs -> GoodRow]
<1> SUFFICES ASSUME TypedInv, SeenInv, Next PROVE row' \in [Subs -> GoodRow]
  OBVIOUS
<1>0. /\ row \in [Subs -> GoodRow] /\ TickTyped(tick) /\ IsTick(tick)
      /\ \A i \in Subs : CallTyped(i) /\ IsCall(call[i])
  BY DEF TypedInv, SeenInv, Shape, CallsTyped
<1>1. ASSUME UNCHANGED row PROVE row' \in [Subs -> GoodRow]
  BY <1>0, <1>1
<1>2. ASSUME NEW i \in Subs, Unsubscribe(i) PROVE row' \in [Subs -> GoodRow]
  BY <1>0, <1>2, NoRowGood DEF Unsubscribe
<1>3. ASSUME NEW i \in Subs, ImportOpen(i) PROVE row' \in [Subs -> GoodRow]
  <2>1. CASE row[i].playlist = 0
    <3>1. made[i] + 1 \in 1..MaxImports + 1
      <4>1. call[i].at = "open"
        BY <1>3 DEF ImportOpen
      <4>2. made[i] \in Nat /\ made[i] <= imports
        BY <1>0, <4>1 DEF CallTyped
      <4>3. imports \in 0..MaxImports /\ MaxImports \in Nat
        BY BoundsAssumption DEF TypedInv, CallsTyped
      <4> QED BY <4>2, <4>3
    <3> DEFINE p == made[i] + 1
    <3>2. row' = [row EXCEPT ![i].status = "pending", ![i].playlist = p]
      BY <1>3, <2>1 DEF ImportOpen
    <3> HIDE DEF p
    <3>3. PICK w : w = [row[i] EXCEPT !.status = "pending", !.playlist = p]
      OBVIOUS
    <3>4. row' = [row EXCEPT ![i] = w]
      BY <3>2, <3>3
    <3>5. w = [status |-> "pending", playlist |-> p, ledger |-> row[i].ledger,
               back |-> row[i].back, snapshot |-> row[i].snapshot, error |-> row[i].error,
               ran |-> row[i].ran]
      <4>1. row[i] = [status |-> row[i].status, playlist |-> row[i].playlist, ledger |-> row[i].ledger, back |-> row[i].back,
                     snapshot |-> row[i].snapshot, error |-> row[i].error, ran |-> row[i].ran]
        BY <1>0, RowFields
      <4> QED BY <3>3, <4>1
    <3>6. w \in GoodRow
      <4>1. row[i] \in GoodRow /\ p \in 1..MaxImports + 1
        BY <1>0, <3>1 DEF p
      <4> QED BY <3>5, <4>1, RowFields, RowIsGood
    <3> QED BY <1>0, <3>4, <3>6
  <2>2. CASE row[i].playlist # 0
    BY <1>1, <1>3, <2>2 DEF ImportOpen
  <2> QED BY <2>1, <2>2
<1>4. ASSUME NEW i \in Subs, ImportEnd(i) PROVE row' \in [Subs -> GoodRow]
  <2>1. PICK w : w = [row[i] EXCEPT !.status = "completed", !.playlist = call[i].playlist,
                                    !.ledger = call[i].ledger, !.back = call[i].ledger,
                                    !.error = FALSE, !.ran = TRUE]
    OBVIOUS
  <2>2. row' = [row EXCEPT ![i] = w]
    BY <1>4, <2>1 DEF ImportEnd
  <2>3. w = [status |-> "completed", playlist |-> call[i].playlist, ledger |-> call[i].ledger,
             back |-> call[i].ledger, snapshot |-> row[i].snapshot, error |-> FALSE, ran |-> TRUE]
    <3>1. row[i] = [status |-> row[i].status, playlist |-> row[i].playlist, ledger |-> row[i].ledger, back |-> row[i].back,
                   snapshot |-> row[i].snapshot, error |-> row[i].error, ran |-> row[i].ran]
      BY <1>0, RowFields
    <3> QED BY <2>1, <3>1
  <2>4. call[i].playlist \in 1..MaxImports + 1
    <3>1. call[i].at = "end"
      BY <1>4 DEF ImportEnd
    <3>2. call[i].playlist \in 0..MaxImports + 1 /\ call[i].playlist # 0
      BY <1>0, <3>1 DEF CallTyped
    <3> QED BY <3>2, BoundsAssumption
  <2>5. w \in GoodRow
    <3>1. row[i] \in GoodRow /\ call[i].ledger \in SUBSET Songs
      BY <1>0 DEF IsCall
    <3> QED BY <2>3, <2>4, <3>1, RowFields, RowIsGood
  <2> QED BY <1>0, <2>2, <2>5
<1> DEFINE n == tick.n
<1>5. pc \in {"prepare", "back", "forward", "copy"} =>
        /\ n \in Subs /\ row[n] \in GoodRow /\ tick.rows[n] \in GoodRow
        /\ tick.rows[n].status # "none" /\ Snapshot(n) \in Snapshots
  <2>1. pc \in {"prepare", "back", "forward", "copy"} => n \in Listed
    BY DEF SeenInv, Loops
  <2>2. \A i \in Listed : i \in Subs /\ tick.rows[i].status # "none"
    BY DEF Listed
  <2>3. \A i \in Subs : tick.rows[i] \in GoodRow /\ tick.heard[i] \in Snapshots
    BY <1>0 DEF TickTyped
  <2>4. \A i \in Subs : Snapshot(i) \in Snapshots
    BY <2>3, RowFields DEF Snapshot
  <2> QED BY <1>0, <2>1, <2>2, <2>3, <2>4
<1>6. CASE SkipImport
  <2>1. pc = "prepare"
    BY <1>6 DEF SkipImport
  <2>2. UpdateRow(n, [row[n] EXCEPT !.snapshot = Snapshot(n), !.status = "completed", !.error = FALSE])
    BY <1>6 DEF SkipImport
  <2> HIDE DEF n
  <2>3. Subscribed(n) =>
          [row[n] EXCEPT !.snapshot = Snapshot(n), !.status = "completed", !.error = FALSE] \in GoodRow
    BY <1>5, <2>1, SkippedGood DEF Subscribed
  <2> QED BY <1>5, <2>1, <2>2, <2>3, UpdateGood
<1>7. CASE SaveRow
  <2> DEFINE old == tick.rows[n]
             new == [status |-> "completed", playlist |-> old.playlist, ledger |-> old.ledger,
                     back |-> old.back, snapshot |-> Snapshot(n), error |-> FALSE, ran |-> TRUE]
  <2>1. pc \in {"forward", "copy"} /\ UpdateRow(n, new)
    BY <1>7 DEF SaveRow
  <2>2. old \in GoodRow /\ old.status # "none" /\ Snapshot(n) \in Snapshots
    BY <1>5, <2>1
  <2> HIDE DEF n, old
  <2>3. new \in GoodRow
    BY <2>2, RowFields, RowPlaylist, RowIsGood
  <2> HIDE DEF new
  <2> QED BY <1>5, <2>1, <2>3, UpdateGood
<1>8. CASE ImportFails
  <2>1. pc \in {"copy", "back"} /\ UpdateRow(n, Failed(row[n]))
    BY <1>8 DEF ImportFails
  <2> HIDE DEF n
  <2>2. Subscribed(n) => Failed(row[n]) \in GoodRow
    BY <1>5, <2>1, FailedGood DEF Subscribed
  <2> QED BY <1>5, <2>1, <2>2, UpdateGood
<1>9. CASE People
  <2>1. ASSUME NEW s \in OwnerSongs, OwnerAddsOrRemoves(s) PROVE UNCHANGED row
    BY <2>1 DEF OwnerAddsOrRemoves
  <2>2. ASSUME NEW i \in Subs, NEW s \in Songs, SubscriberAddsOrRemoves(i, s) PROVE UNCHANGED row
    BY <2>2 DEF SubscriberAddsOrRemoves
  <2>3. ASSUME \/ \E m \in Modes : SetMode(m)
               \/ \E r \in BOOLEAN : SetRevoked(r)
               \/ \E i \in Subs : ImportBegin(i)
        PROVE  UNCHANGED row
    BY <2>3 DEF SetMode, SetRevoked, ImportBegin
  <2> QED BY <1>1, <1>2, <1>9, <2>1, <2>2, <2>3 DEF People
<1>10. CASE Tick \/ Clock
  BY <1>1, <1>10 DEF Tick, Clock
<1>11. CASE TickStep
  <2>1. CASE SkipImport \/ SaveRow
    BY <1>6, <1>7, <2>1
  <2>2. CASE \/ ReadSnapshot \/ ListSource \/ ReadRecipient \/ ListSourceLate \/ StoreSnapshot
             \/ PrepareForward \/ StartBack \/ EndBack \/ StartForward \/ PlanNextPoll
             \/ \E s \in Songs : BackOne(s) \/ CopyOne(s)
    BY <1>1, <2>2 DEF ReadSnapshot, ListSource, ReadRecipient, ListSourceLate, StoreSnapshot,
       PrepareForward, StartBack, EndBack, StartForward, PlanNextPoll, BackOne, CopyOne
  <2> QED BY <1>11, <2>1, <2>2 DEF TickStep
<1>12. CASE Fault
  <2>1. CASE \/ TickFails \/ Restart \/ \E i \in Subs : ImportThrows(i)
    BY <1>1, <2>1 DEF TickFails, Restart, ImportThrows
  <2>2. CASE Resends
    BY <1>1, <2>2, ResendsTouch DEF OnlyPlaylists, SeenInv
  <2>3. ASSUME NEW s \in Songs, BackRefused(s) \/ CopyRefused(s) PROVE row' \in [Subs -> GoodRow]
    BY <1>1, <2>3 DEF BackRefused, CopyRefused
  <2> QED BY <1>8, <1>12, <2>1, <2>2, <2>3 DEF Fault, Resends
<1>13. ASSUME NEW i \in Subs, ImportStep(i) PROVE row' \in [Subs -> GoodRow]
  <2>1. CASE ImportAdd(i)
    BY <1>1, <2>1 DEF ImportAdd
  <2> QED BY <1>3, <1>4, <1>13, <2>1 DEF ImportStep
<1> QED BY <1>9, <1>10, <1>11, <1>12, <1>13 DEF Next

LEMMA SyncNext == TypedInv /\ SeenInv /\ Next => sync' \in SyncType
<1> SUFFICES ASSUME TypedInv, SeenInv, Next PROVE sync' \in SyncType
  OBVIOUS
<1> USE DEF SyncType
<1>0. sync \in SyncType /\ TickTyped(tick) /\ MaxWait \in Nat \ {0}
  BY BoundsAssumption DEF TypedInv
<1>1. ASSUME UNCHANGED sync PROVE sync' \in SyncType
  BY <1>0, <1>1
<1>2. ASSUME NEW m \in Modes, SetMode(m) PROVE sync' \in SyncType
  BY <1>0, <1>2 DEF SetMode
<1>3. ASSUME NEW r \in BOOLEAN, SetRevoked(r) PROVE sync' \in SyncType
  BY <1>0, <1>3 DEF SetRevoked
<1>4. CASE StoreSnapshot
  BY <1>0, <1>4 DEF StoreSnapshot, TickTyped
<1>5. CASE PlanNextPoll
  <2> DEFINE quiet == ~HadChange /\ ~tick.failed
             streak == IF quiet THEN Min({tick.streak + 1, MaxWait}) ELSE 0
  <2>1. sync' = [sync EXCEPT !.snapshot = tick.snapshot, !.streak = streak,
                             !.wait = Interval(streak), !.error = tick.failed]
    BY <1>5 DEF PlanNextPoll, Seen
  <2>2. tick.streak \in 0..MaxWait /\ tick.snapshot \in Snapshots
    BY <1>0 DEF TickTyped
  <2>3. Min({tick.streak + 1, MaxWait}) \in 0..MaxWait
    <3>1. {tick.streak + 1, MaxWait} \subseteq Nat /\ {tick.streak + 1, MaxWait} # {}
      BY <1>0, <2>2
    <3>2. /\ Min({tick.streak + 1, MaxWait}) \in {tick.streak + 1, MaxWait}
          /\ \A y \in {tick.streak + 1, MaxWait} : Min({tick.streak + 1, MaxWait}) <= y
      BY <3>1, MinOf
    <3>3. Min({tick.streak + 1, MaxWait}) \in Nat /\ Min({tick.streak + 1, MaxWait}) <= MaxWait
      BY <3>1, <3>2
    <3> QED BY <1>0, <3>3
  <2>4. streak \in 0..MaxWait
    BY <1>0, <2>3
  <2>5. tick.failed \in BOOLEAN
    BY <1>0 DEF TickTyped
  <2> HIDE DEF streak
  <2>6. Interval(streak) \in 0..MaxWait
    BY <2>4, IntervalTyped
  <2> QED BY <1>0, <2>1, <2>2, <2>4, <2>5, <2>6
<1>6. CASE TickFails
  <2>1. Interval(0) \in 0..MaxWait /\ 0 \in 0..MaxWait
    BY <1>0, IntervalTyped
  <2> QED BY <1>0, <1>6, <2>1 DEF TickFails
<1>7. CASE Clock
  <2>1. sync.wait \in 0..MaxWait /\ sync.wait > 0 /\ sync' = [sync EXCEPT !.wait = sync.wait - 1]
    BY <1>0, <1>7 DEF Clock
  <2>2. sync.wait - 1 \in 0..MaxWait
    BY <1>0, <2>1
  <2> QED BY <1>0, <2>1, <2>2
<1>8. CASE People
  <2>1. ASSUME NEW s \in OwnerSongs, OwnerAddsOrRemoves(s) PROVE UNCHANGED sync
    BY <2>1 DEF OwnerAddsOrRemoves
  <2>2. ASSUME NEW i \in Subs, NEW s \in Songs, SubscriberAddsOrRemoves(i, s) PROVE UNCHANGED sync
    BY <2>2 DEF SubscriberAddsOrRemoves
  <2>3. ASSUME NEW i \in Subs, Unsubscribe(i) \/ ImportBegin(i) PROVE UNCHANGED sync
    BY <2>3 DEF Unsubscribe, ImportBegin
  <2> QED BY <1>1, <1>2, <1>3, <1>8, <2>1, <2>2, <2>3 DEF People
<1>9. CASE Tick
  BY <1>1, <1>9 DEF Tick
<1>10. CASE TickStep
  <2>1. CASE \/ ReadSnapshot \/ ListSource \/ ReadRecipient \/ ListSourceLate
             \/ SkipImport \/ PrepareForward \/ StartBack \/ EndBack \/ StartForward \/ SaveRow
             \/ \E s \in Songs : BackOne(s) \/ CopyOne(s)
    BY <1>1, <2>1 DEF ReadSnapshot, ListSource, ReadRecipient, ListSourceLate, SkipImport,
       PrepareForward, StartBack, EndBack, StartForward, SaveRow, BackOne, CopyOne
  <2> QED BY <1>4, <1>5, <1>10, <2>1 DEF TickStep
<1>11. CASE ImportFails \/ Restart \/ \E i \in Subs : ImportThrows(i) \/ ImportStep(i)
  BY <1>1, <1>11 DEF ImportFails, Restart, ImportThrows, ImportStep, ImportOpen, ImportAdd, ImportEnd
<1>12. CASE Resends
  BY <1>1, <1>12, ResendsTouch DEF OnlyPlaylists, SeenInv
<1>13. ASSUME NEW s \in Songs, BackRefused(s) \/ CopyRefused(s) PROVE sync' \in SyncType
  BY <1>1, <1>13 DEF BackRefused, CopyRefused
<1> QED BY <1>6, <1>7, <1>8, <1>9, <1>10, <1>11, <1>12, <1>13 DEF Next, Fault, Resends

LEMMA LedgersGood ==
  ASSUME NEW w \in GoodRow, w.status # "none", NEW ledger \in SUBSET Songs, NEW back \in SUBSET Songs,
         NEW u, u = [[w EXCEPT !.ledger = ledger] EXCEPT !.back = back]
  PROVE  u \in GoodRow
<1>1. w = [status |-> w.status, playlist |-> w.playlist, ledger |-> w.ledger, back |-> w.back,
           snapshot |-> w.snapshot, error |-> w.error, ran |-> w.ran]
  BY RowFields
<1>2. u = [status |-> w.status, playlist |-> w.playlist, ledger |-> ledger, back |-> back,
           snapshot |-> w.snapshot, error |-> w.error, ran |-> w.ran]
  BY <1>1
<1>3. /\ w.status \in {"pending", "completed", "failed"} /\ w.playlist \in 1..MaxImports + 1
      /\ w.snapshot \in Snapshots /\ w.error \in BOOLEAN /\ w.ran \in BOOLEAN
  BY RowFields, RowPlaylist
<1>4. [status |-> w.status, playlist |-> w.playlist, ledger |-> ledger, back |-> back,
       snapshot |-> w.snapshot, error |-> w.error, ran |-> w.ran] \in GoodRow
  BY <1>3, RowIsGood, Zenon
<1> QED BY <1>2, <1>4

\* Both ledgers of a row the tick holds may be set anew.
LEMMA RowsGood ==
  ASSUME NEW R \in [Subs -> GoodRow], NEW n \in Subs, R[n].status # "none",
         NEW ledger \in SUBSET Songs, NEW back \in SUBSET Songs,
         NEW Q, Q = [R EXCEPT ![n] = [[R[n] EXCEPT !.ledger = ledger] EXCEPT !.back = back]]
  PROVE  Q \in [Subs -> GoodRow]
<1>1. PICK u : u = [[R[n] EXCEPT !.ledger = ledger] EXCEPT !.back = back]
  OBVIOUS
<1>2. u \in GoodRow
  <2>1. R[n] \in GoodRow
    OBVIOUS
  <2> QED BY <1>1, <2>1, LedgersGood
<1>3. Q = [R EXCEPT ![n] = u]
  BY <1>1
<1> QED BY <1>2, <1>3

LEMMA IdleTickTyped == TickTyped(IdleTick)
  BY NoRowGood, UnseenTyped, BoundsAssumption DEF TickTyped, IdleTick, Modes

LEMMA FirstIsListed ==
  ASSUME NEW i \in Nat
  PROVE  /\ FirstAfter(i) # 0 =>
              /\ FirstAfter(i) \in Listed /\ FirstAfter(i) > i
              /\ \A j \in Listed : j > i => FirstAfter(i) <= j
         /\ FirstAfter(i) = 0 => \A j \in Listed : ~(j > i)
<1>1. CASE After(i) = {}
  BY <1>1 DEF FirstAfter, After
<1>2. CASE After(i) # {}
  <2>1. After(i) \subseteq Nat
    BY SubsAreNumbers DEF After, Listed
  <2>2. Min(After(i)) \in After(i) /\ \A j \in After(i) : Min(After(i)) <= j
    BY <1>2, <2>1, MinOf
  <2>3. FirstAfter(i) = Min(After(i))
    BY <1>2 DEF FirstAfter
  <2>4. 0 \notin After(i)
    BY SubsAreNumbers DEF After, Listed
  <2> QED BY <2>2, <2>3, <2>4 DEF After
<1> QED BY <1>1, <1>2

LEMMA GoOnTyped ==
  ASSUME NEW phase \in {"prepare", "forward"}, NEW t, IsTick(t), TickTyped(t), GoOn(phase, t)
  PROVE  TickTyped(tick') /\ tick'.heard = t.heard /\ pc' \in {"prepare", "forward", "plan"}
<1> DEFINE rest == {j \in Listed : j > t.n /\ (phase = "prepare" \/ t.prepared[j])}
           ready == {j \in Listed : t.prepared[j]}
           clean == [t EXCEPT !.todo = {}, !.added = {}, !.here = {}]
<1>1. PICK n : tick' = [clean EXCEPT !.n = n]
  <2>1. CASE rest # {}
    BY <2>1 DEF GoOn
  <2>2. CASE rest = {} /\ phase = "prepare" /\ ready # {}
    BY <2>2 DEF GoOn
  <2>3. CASE rest = {} /\ ~(phase = "prepare" /\ ready # {})
    BY <2>3 DEF GoOn
  <2> QED BY <2>1, <2>2, <2>3
<1>2. PICK u : u = clean
  OBVIOUS
<1>3. /\ u.mode = t.mode /\ u.stored = t.stored /\ u.streak = t.streak /\ u.rows = t.rows
      /\ u.snapshot = t.snapshot /\ u.heard = t.heard /\ u.failed = t.failed /\ u.todo = {}
      /\ IsTick(u)
  BY <1>2 DEF IsTick
<1>4. tick' = [u EXCEPT !.n = n]
  BY <1>1, <1>2
<1>5. /\ tick'.mode = t.mode /\ tick'.stored = t.stored /\ tick'.streak = t.streak
      /\ tick'.rows = t.rows /\ tick'.snapshot = t.snapshot /\ tick'.heard = t.heard
      /\ tick'.failed = t.failed /\ tick'.todo = {}
  BY <1>3, <1>4 DEF IsTick
<1>6. pc' \in {"prepare", "forward", "plan"}
  BY DEF GoOn
<1> QED BY <1>5, <1>6 DEF TickTyped

LEMMA TickUnchangedTyped ==
  ASSUME TypedInv, UNCHANGED <<pc, tick>>
  PROVE  TickTyped(tick)' /\ Heard'
  BY DEF TypedInv, Heard, TwoWay, Listed

LEMMA TickOverTyped ==
  ASSUME tick' = IdleTick, pc' = "idle"
  PROVE  TickTyped(tick)' /\ Heard'
<1>1. TickTyped(tick')
  BY IdleTickTyped
<1>2. Heard'
  BY DEF Heard, Working
<1> QED BY <1>1, <1>2 DEF TickTyped

\* The loops go on with what has been heard.
LEMMA WorkTyped ==
  ASSUME TypedInv, pc \in Working, TickTyped(tick'), pc' \in Working,
         tick'.mode = tick.mode, tick'.heard = tick.heard,
         \A j \in Subs : tick'.rows[j].status = tick.rows[j].status
  PROVE  TickTyped(tick)' /\ Heard'
<1>1. TwoWay' <=> TwoWay
  BY DEF TwoWay
<1>2. Listed' = Listed
  BY DEF Listed
<1>3. pc' # "recipients"
  BY DEF Working
<1>4. Heard'
  BY <1>1, <1>2, <1>3 DEF TypedInv, Heard
<1> QED BY <1>4 DEF TickTyped

LEMMA ReadTyped ==
  ASSUME TypedInv, SeenInv, ReadSnapshot \/ ListSource \/ ReadRecipient \/ ListSourceLate
  PROVE  TickTyped(tick)' /\ Heard'
<1>0. TickTyped(tick) /\ IsTick(tick) /\ Heard
  BY DEF TypedInv, SeenInv, Shape
<1>1. SnapshotOf(0, source) \in Snapshots
  BY SnapshotTyped DEF SeenInv
<1>2. ASSUME tick'.rows = tick.rows PROVE Listed' = Listed
  BY <1>2 DEF Listed
<1>3. CASE ReadSnapshot \/ ListSource
  <2>1. /\ tick'.mode = tick.mode /\ tick'.stored = tick.stored /\ tick'.streak = tick.streak
        /\ tick'.rows = tick.rows /\ tick'.heard = tick.heard /\ tick'.failed = tick.failed
        /\ tick'.todo = tick.todo /\ tick'.n = FirstAfter(0)
        /\ tick'.snapshot \in {tick.snapshot, SnapshotOf(0, source)}
    BY <1>0, <1>3 DEF ReadSnapshot, ListSource, IsTick
  <2>2. TickTyped(tick')
    BY <1>0, <1>1, <2>1 DEF TickTyped
  <2>3. pc' \in {"list", ToRecipients} /\ pc \in Reading
    BY <1>3 DEF ReadSnapshot, ListSource, Reading
  <2>4. TwoWay' <=> TwoWay
    BY <2>1 DEF TwoWay
  <2>5. pc' = "recipients" => TwoWay
    BY <2>3 DEF ToRecipients
  <2>6. pc' \in {"listLate", "store"} \cup Working => ~TwoWay
    BY <2>3 DEF ToRecipients, Working
  <2>7. Listed # {}
    BY <2>3 DEF SeenInv, Lists
  <2>8. FirstAfter(0) \in Listed /\ \A j \in Listed : FirstAfter(0) <= j
    <3>1. \A j \in Listed : j \in Nat /\ j > 0
      BY SubsAssumption DEF Listed, Subs
    <3> QED BY <2>7, <3>1, FirstIsListed
  <2>9. \A j \in Listed : ~(j < FirstAfter(0))
    <3>1. \A j \in Listed : j \in Nat
      BY SubsAreNumbers DEF Listed
    <3> QED BY <2>8, <3>1
  <2>10. Heard'
    BY <1>2, <2>1, <2>4, <2>5, <2>6, <2>8, <2>9 DEF Heard
  <2> QED BY <2>2, <2>10 DEF TickTyped
<1>4. CASE ReadRecipient
  <2> DEFINE i == tick.n
             s == SnapshotOf(i, copy[i][tick.rows[i].playlist])
             t == [tick EXCEPT !.heard[i] = s, !.n = FirstAfter(i)]
  <2>1. pc = "recipients" /\ tick' = t /\ pc' \in {"recipients", "listLate", "store"}
        /\ (FirstAfter(i) # 0 <=> pc' = "recipients")
    <3>1. pc = "recipients" /\ tick' = t
      BY <1>4 DEF ReadRecipient
    <3>2. t.n = FirstAfter(i)
      BY <1>0 DEF IsTick
    <3>3. pc' = IF t.n # 0 THEN "recipients"
                ELSE IF /\ t.tracks = {}
                        /\ \E j \in Listed : t.heard[j] # t.rows[j].snapshot \/ Retry(j)
                THEN "listLate" ELSE "store"
      BY <1>4 DEF ReadRecipient
    <3> HIDE DEF t
    <3> QED BY <3>1, <3>2, <3>3
  <2>2. TwoWay /\ i \in Listed /\ \A j \in Listed : j < i => tick.heard[j][2] \subseteq Songs
    BY <1>0, <2>1 DEF Heard
  <2>3. i \in Subs
    BY <2>2 DEF Listed
  <2>4. s \in Snapshots /\ s[2] \subseteq Songs
    BY <2>3, SnapshotTyped DEF SeenInv
  <2> HIDE DEF s
  <2>5. /\ tick'.mode = tick.mode /\ tick'.stored = tick.stored /\ tick'.streak = tick.streak
        /\ tick'.rows = tick.rows /\ tick'.heard = [tick.heard EXCEPT ![i] = s]
        /\ tick'.failed = tick.failed /\ tick'.todo = tick.todo /\ tick'.n = FirstAfter(i)
        /\ tick'.snapshot = tick.snapshot
    BY <1>0, <2>1 DEF IsTick
  <2> HIDE DEF i, t
  <2>6. tick.heard \in [Subs -> Snapshots]
    BY <1>0 DEF TickTyped
  <2>7. TickTyped(tick')
    BY <1>0, <2>3, <2>4, <2>5, <2>6 DEF TickTyped
  <2>8. Listed' = Listed /\ (TwoWay' <=> TwoWay)
    BY <1>2, <2>5 DEF TwoWay
  <2>9. \A j \in Listed : j \in Nat /\ j \in Subs
    BY SubsAreNumbers DEF Listed
  <2>10. ASSUME NEW j \in Listed, j <= i PROVE tick'.heard[j][2] \subseteq Songs
    <3>1. CASE j = i
      BY <2>3, <2>4, <2>5, <2>6, <3>1
    <3>2. CASE j # i
      <4>1. j < i
        BY <2>2, <2>9, <2>10, <3>2
      <4>2. tick'.heard[j] = tick.heard[j]
        BY <2>5, <2>6, <2>9, <3>2
      <4> QED BY <2>2, <4>1, <4>2
    <3> QED BY <3>1, <3>2
  <2>11. CASE FirstAfter(i) # 0
    <3>1. /\ FirstAfter(i) \in Listed /\ \A j \in Listed : j > i => FirstAfter(i) <= j
      BY <2>2, <2>9, <2>11, FirstIsListed
    <3>2. \A j \in Listed : j < FirstAfter(i) => j <= i
      BY <2>2, <2>9, <3>1
    <3>3. Heard'
      BY <2>1, <2>2, <2>5, <2>8, <2>10, <2>11, <3>1, <3>2 DEF Heard, Working
    <3> QED BY <2>7, <3>3 DEF TickTyped
  <2>12. CASE FirstAfter(i) = 0
    <3>1. \A j \in Listed : ~(j > i)
      BY <2>2, <2>9, <2>12, FirstIsListed
    <3>2. \A j \in Listed : j <= i
      BY <2>2, <2>9, <3>1
    <3>3. Heard'
      BY <2>1, <2>8, <2>10, <2>12, <3>2 DEF Heard
    <3> QED BY <2>7, <3>3 DEF TickTyped
  <2> QED BY <2>11, <2>12
<1>5. CASE ListSourceLate
  <2>1. /\ tick'.mode = tick.mode /\ tick'.stored = tick.stored /\ tick'.streak = tick.streak
        /\ tick'.rows = tick.rows /\ tick'.heard = tick.heard /\ tick'.failed = tick.failed
        /\ tick'.todo = tick.todo /\ tick'.snapshot = tick.snapshot
    BY <1>0, <1>5 DEF ListSourceLate, IsTick
  <2>2. TickTyped(tick')
    BY <1>0, <2>1 DEF TickTyped
  <2>3. pc = "listLate" /\ pc' = "store"
    BY <1>5 DEF ListSourceLate
  <2>4. Heard'
    BY <1>0, <1>2, <2>1, <2>3 DEF Heard, TwoWay
  <2> QED BY <2>2, <2>4 DEF TickTyped
<1> QED BY <1>3, <1>4, <1>5

\* The loops are left or taken up again with what t holds.
LEMMA OnwardTyped ==
  ASSUME TypedInv, pc \in Working, NEW phase \in {"prepare", "forward"},
         NEW t, IsTick(t), GoOn(phase, t), t.todo \subseteq Songs, t.failed \in BOOLEAN,
         t.mode = tick.mode, t.stored = tick.stored, t.snapshot = tick.snapshot,
         t.streak = tick.streak, t.rows = tick.rows, t.heard = tick.heard
  PROVE  TickTyped(tick)' /\ Heard'
<1>1. TickTyped(t)
  BY DEF TypedInv, TickTyped
<1>2. /\ TickTyped(tick') /\ tick'.heard = tick.heard /\ pc' \in Working
  BY <1>1, GoOnTyped DEF Working
<1>3. tick'.mode = tick.mode /\ tick'.rows = tick.rows
  BY GoesOn DEF Same
<1> QED BY <1>2, <1>3, WorkTyped

\* A row the tick holds may be given other ledgers.
LEMMA LedgersTyped ==
  ASSUME TypedInv, pc \in Working, NEW n \in Subs, NEW u \in GoodRow, u.status = tick.rows[n].status,
         NEW todo \in SUBSET Songs, NEW R, R = [tick.rows EXCEPT ![n] = u],
         tick'.mode = tick.mode, tick'.stored = tick.stored, tick'.snapshot = tick.snapshot,
         tick'.streak = tick.streak, tick'.heard = tick.heard, tick'.failed = tick.failed,
         tick'.rows = R, tick'.todo = todo, pc' \in Working
  PROVE  TickTyped(tick)' /\ Heard'
<1>1. TickTyped(tick) /\ tick.rows \in [Subs -> GoodRow]
  BY DEF TypedInv, TickTyped
<1>2. R \in [Subs -> GoodRow]
  BY <1>1
<1>3. TickTyped(tick')
  BY <1>1, <1>2 DEF TickTyped
<1>4. \A j \in Subs : R[j].status = tick.rows[j].status
  BY <1>1
<1> QED BY <1>3, <1>4, WorkTyped

LEMMA BothLedgersIs ==
  ASSUME NEW t, IsTick(t), NEW n, NEW s,
         NEW R, R = [t.rows EXCEPT ![n].ledger = @ \cup {s}, ![n].back = @ \cup {s}]
  PROVE  BothLedgers(t, n, s) = [t EXCEPT !.rows = R]
  BY DEF IsTick, BothLedgers

LEMMA WorkStepTyped ==
  ASSUME TypedInv, SeenInv,
         \/ SkipImport \/ PrepareForward \/ StartBack \/ EndBack \/ StartForward \/ SaveRow
         \/ ImportFails \/ \E s \in Songs : BackOne(s) \/ CopyOne(s)
         \/ \E s \in Songs : BackRefused(s) \/ CopyRefused(s)
  PROVE  TickTyped(tick)' /\ Heard'
<1> DEFINE n == tick.n
           Goal == TickTyped(tick)' /\ Heard'
<1>1. TickTyped(tick) /\ IsTick(tick) /\ Heard
  BY DEF TypedInv, SeenInv, Shape
<1>2. pc \in {"prepare", "back", "forward", "copy"}
  BY DEF SkipImport, PrepareForward, StartBack, EndBack, StartForward, SaveRow, ImportFails, BackOne,
     CopyOne, BackRefused, CopyRefused
<1>3. pc \in Working /\ n \in Listed
  BY <1>2 DEF SeenInv, Loops, Working
<1>4. n \in Subs /\ tick.rows[n].status # "none" /\ tick.rows \in [Subs -> GoodRow] /\ tick.rows[n] \in GoodRow
  BY <1>1, <1>3 DEF Listed, TickTyped
<1>5. tick.rows[n].ledger \in SUBSET Songs /\ tick.rows[n].back \in SUBSET Songs /\ tick.tracks \in SUBSET Songs
  BY <1>1, <1>4, RowFields DEF IsTick
<1>6. CASE SkipImport \/ SaveRow
  <2>1. PICK phase \in {"prepare", "forward"} : GoOn(phase, tick)
    BY <1>6 DEF SkipImport, SaveRow
  <2>2. tick.todo \subseteq Songs /\ tick.failed \in BOOLEAN
    BY <1>1 DEF TickTyped
  <2> QED BY <1>1, <1>3, <2>1, <2>2, OnwardTyped
<1>7. ASSUME NEW b \in BOOLEAN, NEW tracks \in SUBSET Songs, NEW grew, NEW failed \in BOOLEAN,
             NEW t, t = [[[[tick EXCEPT !.prepared[n] = b] EXCEPT !.tracks = tracks] EXCEPT !.grew = grew] EXCEPT !.failed = failed]
      PROVE  /\ IsTick(t) /\ t.todo \subseteq Songs /\ t.failed \in BOOLEAN
             /\ t.mode = tick.mode /\ t.stored = tick.stored /\ t.snapshot = tick.snapshot
             /\ t.streak = tick.streak /\ t.rows = tick.rows /\ t.heard = tick.heard
  <2>1. PICK p : p = [tick.prepared EXCEPT ![n] = b]
    OBVIOUS
  <2>2. p \in [Subs -> BOOLEAN]
    BY <1>1, <2>1 DEF IsTick
  <2> HIDE DEF n
  <2>3. t = [mode |-> tick.mode, stored |-> tick.stored, streak |-> tick.streak, rows |-> tick.rows,
             snapshot |-> tick.snapshot, tracks |-> tracks, heard |-> tick.heard, n |-> tick.n,
             prepared |-> p, grew |-> grew, failed |-> failed, todo |-> tick.todo,
             added |-> tick.added, here |-> tick.here]
    BY <1>1, <1>7, <2>1 DEF IsTick
  <2>4. /\ t.todo = tick.todo /\ t.failed = failed
        /\ t.mode = tick.mode /\ t.stored = tick.stored /\ t.snapshot = tick.snapshot
        /\ t.streak = tick.streak /\ t.rows = tick.rows /\ t.heard = tick.heard
    BY <2>3
  <2>5. IsTick(t)
    BY <1>1, <2>2, <2>3 DEF IsTick
  <2> QED BY <1>1, <1>7, <2>4, <2>5 DEF TickTyped
<1>8. CASE PrepareForward
  <2>1. PICK t : t = [tick EXCEPT !.prepared[n] = TRUE]
    OBVIOUS
  <2>2. t = [[[[tick EXCEPT !.prepared[n] = TRUE] EXCEPT !.tracks = tick.tracks] EXCEPT !.grew = tick.grew] EXCEPT !.failed = tick.failed]
    BY <1>1, <2>1 DEF IsTick
  <2>3. GoOn("prepare", t)
    BY <1>8, <2>1 DEF PrepareForward
  <2>4. tick.failed \in BOOLEAN
    BY <1>1 DEF TickTyped
  <2> QED BY <1>3, <1>5, <1>7, <2>2, <2>3, <2>4, OnwardTyped
<1>9. CASE EndBack
  <2>1. PICK t : t = [tick EXCEPT !.prepared[n] = TRUE, !.tracks = @ \cup tick.added,
                                  !.grew = @ \/ tick.added # {}]
    OBVIOUS
  <2>2. GoOn("prepare", t)
    BY <1>9, <2>1 DEF EndBack
  <2>3. PICK g : g = (tick.grew \/ tick.added # {})
    BY Zenon
  <2>4. PICK p : p = [tick.prepared EXCEPT ![n] = TRUE]
    OBVIOUS
  <2>5. p \in [Subs -> BOOLEAN]
    BY <1>1, <2>4 DEF IsTick
  <2> HIDE DEF n
  <2>6. t = [mode |-> tick.mode, stored |-> tick.stored, streak |-> tick.streak, rows |-> tick.rows,
             snapshot |-> tick.snapshot, tracks |-> tick.tracks \cup tick.added, heard |-> tick.heard,
             n |-> tick.n, prepared |-> p, grew |-> g, failed |-> tick.failed, todo |-> tick.todo,
             added |-> tick.added, here |-> tick.here]
    BY <1>1, <2>1, <2>3, <2>4 DEF IsTick
  <2>7. IsTick(t)
    BY <1>1, <2>5, <2>6 DEF IsTick
  <2>8. /\ t.todo = tick.todo /\ t.failed = tick.failed /\ t.mode = tick.mode /\ t.stored = tick.stored
        /\ t.snapshot = tick.snapshot /\ t.streak = tick.streak /\ t.rows = tick.rows
        /\ t.heard = tick.heard
    BY <2>6
  <2>9. tick.todo \subseteq Songs /\ tick.failed \in BOOLEAN
    BY <1>1 DEF TickTyped
  <2> QED BY <1>3, <2>2, <2>7, <2>8, <2>9, OnwardTyped
<1>10. CASE ImportFails
  <2>1. PICK t : t = [tick EXCEPT !.failed = TRUE, !.prepared[n] = FALSE]
    OBVIOUS
  <2>2. t = [[[[tick EXCEPT !.prepared[n] = FALSE] EXCEPT !.tracks = tick.tracks] EXCEPT !.grew = tick.grew] EXCEPT !.failed = TRUE]
    BY <1>1, <2>1 DEF IsTick
  <2>3. PICK phase \in {"prepare", "forward"} : GoOn(phase, t)
    BY <1>10, <2>1 DEF ImportFails
  <2> QED BY <1>3, <1>5, <1>7, <2>2, <2>3, OnwardTyped
<1>11. CASE StartBack
  <2> DEFINE old == tick.rows[n]
             list == IF n \in Spotify THEN Held(copy[n][old.playlist]) ELSE tick.heard[n][2]
             back == IF Adopts(n, old.back) THEN list ELSE old.back
  <2>1. /\ tick' = [tick EXCEPT !.rows[n].back = back, !.todo = list \ back]
        /\ pc' = "back" /\ pc = "prepare" /\ TwoWay
    BY <1>11 DEF StartBack, BackNeeded
  <2>2. list \in SUBSET Songs
    <3>1. tick.heard[n][2] \subseteq Songs
      BY <1>1, <1>3, <2>1 DEF Heard
    <3> QED BY <3>1, SubsetsHold
  <2>3. back \in SUBSET Songs /\ list \ back \in SUBSET Songs
    BY <1>5, <2>2
  <2>4. PICK todo : todo = list \ back
    OBVIOUS
  <2>5. todo \in SUBSET Songs
    BY <2>3, <2>4
  <2> HIDE DEF list, back, n
  <2>6. PICK R : R = [tick.rows EXCEPT ![n].back = back]
    OBVIOUS
  <2>7. tick.rows[n] = [status |-> tick.rows[n].status, playlist |-> tick.rows[n].playlist,
          ledger |-> tick.rows[n].ledger, back |-> tick.rows[n].back,
          snapshot |-> tick.rows[n].snapshot, error |-> tick.rows[n].error, ran |-> tick.rows[n].ran]
    BY <1>4, RowFields
  <2>8. PICK u : u = [[tick.rows[n] EXCEPT !.ledger = tick.rows[n].ledger] EXCEPT !.back = back]
    OBVIOUS
  <2>9. R = [tick.rows EXCEPT ![n] = u] /\ u.status = tick.rows[n].status
    BY <1>4, <2>6, <2>7, <2>8
  <2>10. u \in GoodRow
    BY <1>4, <1>5, <2>3, <2>8, LedgersGood
  <2>11. tick' = [tick EXCEPT !.rows = R, !.todo = todo]
    BY <1>1, <2>1, <2>6, <2>4 DEF IsTick
  <2>12. /\ tick'.mode = tick.mode /\ tick'.stored = tick.stored /\ tick'.snapshot = tick.snapshot
        /\ tick'.streak = tick.streak /\ tick'.heard = tick.heard /\ tick'.failed = tick.failed
        /\ tick'.rows = R /\ tick'.todo = todo
    BY <1>1, <2>11 DEF IsTick
  <2>13. pc' \in Working
    BY <2>1 DEF Working
  <2> QED BY <1>3, <1>4, <1>5, <2>5, <2>10, <2>12, <2>13, <2>9, LedgersTyped
<1>12. CASE StartForward
  <2> DEFINE old == tick.rows[n]
             ledger == IF Adopts(n, old.ledger) THEN tick.tracks ELSE old.ledger
             todo == Matchable(n, tick.tracks \ ledger)
             here == Held(copy[n][old.playlist])
  <2>1. /\ tick' = [tick EXCEPT !.rows[n].ledger = ledger, !.here = here, !.todo = todo]
        /\ pc' = "copy"
    BY <1>12 DEF StartForward
  <2>2. ledger \in SUBSET Songs
    BY <1>5
  <2>3. todo \in SUBSET Songs
    BY <1>5, SubsetsHold
  <2> HIDE DEF ledger, todo, here, n
  <2>4. PICK R : R = [tick.rows EXCEPT ![n].ledger = ledger]
    OBVIOUS
  <2>5. tick.rows[n] = [status |-> tick.rows[n].status, playlist |-> tick.rows[n].playlist,
          ledger |-> tick.rows[n].ledger, back |-> tick.rows[n].back,
          snapshot |-> tick.rows[n].snapshot, error |-> tick.rows[n].error, ran |-> tick.rows[n].ran]
    BY <1>4, RowFields
  <2>6. PICK u : u = [[tick.rows[n] EXCEPT !.ledger = ledger] EXCEPT !.back = tick.rows[n].back]
    OBVIOUS
  <2>7. R = [tick.rows EXCEPT ![n] = u] /\ u.status = tick.rows[n].status
    BY <1>4, <2>4, <2>5, <2>6
  <2>8. u \in GoodRow
    BY <1>4, <1>5, <2>2, <2>6, LedgersGood
  <2>9. tick' = [tick EXCEPT !.rows = R, !.here = here, !.todo = todo]
    BY <1>1, <2>1, <2>4 DEF IsTick
  <2>10. /\ tick'.mode = tick.mode /\ tick'.stored = tick.stored /\ tick'.snapshot = tick.snapshot
        /\ tick'.streak = tick.streak /\ tick'.heard = tick.heard /\ tick'.failed = tick.failed
        /\ tick'.rows = R /\ tick'.todo = todo
    BY <1>1, <2>9 DEF IsTick
  <2>11. pc' \in Working
    BY <2>1 DEF Working
  <2> QED BY <1>3, <1>4, <1>5, <2>3, <2>8, <2>10, <2>11, <2>7, LedgersTyped
<1>13. ASSUME NEW s \in Songs, BackOne(s) \/ CopyOne(s) \/ BackRefused(s) \/ CopyRefused(s)
       PROVE  Goal
  <2> DEFINE todo == tick.todo \ {s}
             ledger == tick.rows[n].ledger \cup {s}
             back == tick.rows[n].back \cup {s}
  <2>1. pc' \in Working
    BY <1>3, <1>13 DEF BackOne, CopyOne, BackRefused, CopyRefused
  <2>2. tick.todo \subseteq Songs
    BY <1>1 DEF TickTyped
  <2>3. PICK t : /\ t \in {tick, BothLedgers(tick, n, s)}
                 /\ \E added, here : tick' = [[[t EXCEPT !.todo = todo] EXCEPT !.added = added] EXCEPT !.here = here]
    <3>1. CASE tick' = [tick EXCEPT !.todo = @ \ {s}]
      <4>1. tick' = [[[tick EXCEPT !.todo = todo] EXCEPT !.added = tick.added] EXCEPT !.here = tick.here]
        BY <1>1, <3>1 DEF IsTick
      <4> QED BY <4>1
    <3>2. PICK u : u = BothLedgers(tick, n, s)
      OBVIOUS
    <3>3. PICK R : R = [tick.rows EXCEPT ![n].ledger = @ \cup {s}, ![n].back = @ \cup {s}]
      OBVIOUS
    <3>4. u = [tick EXCEPT !.rows = R]
      BY <1>1, <3>2, <3>3, BothLedgersIs
    <3>5. IsTick(u)
      BY <1>1, <3>2, BothLedgersShape
    <3>6. IsTick(u) /\ u.todo = tick.todo /\ u.added = tick.added /\ u.here = tick.here
      BY <1>1, <3>4, <3>5 DEF IsTick
    <3>7. CASE tick' = [u EXCEPT !.todo = @ \ {s}, !.here = @ \cup {Match[n][s]}]
      <4>1. tick' = [[[u EXCEPT !.todo = todo] EXCEPT !.added = u.added] EXCEPT !.here = u.here \cup {Match[n][s]}]
        BY <3>6, <3>7 DEF IsTick
      <4> QED BY <3>2, <4>1
    <3>8. PICK v : v = BothLedgers([tick EXCEPT !.todo = @ \ {s}], n, s)
      OBVIOUS
    <3>9. v = [u EXCEPT !.todo = todo]
      <4>1. PICK w : w = [tick EXCEPT !.todo = todo]
        OBVIOUS
      <4>2. IsTick(w) /\ w.rows = tick.rows
        BY <1>1, <4>1 DEF IsTick
      <4>3. R = [w.rows EXCEPT ![n].ledger = @ \cup {s}, ![n].back = @ \cup {s}]
        BY <3>3, <4>2
      <4>4. v = BothLedgers(w, n, s)
        BY <3>8, <4>1
      <4> HIDE DEF n
      <4>5. v = [w EXCEPT !.rows = R]
        BY <4>2, <4>3, <4>4 DEF BothLedgers, IsTick
      <4> QED BY <1>1, <3>4, <4>1, <4>5 DEF IsTick
    <3>10. CASE tick' = v
      <4>1. tick' = [[[u EXCEPT !.todo = todo] EXCEPT !.added = u.added] EXCEPT !.here = u.here]
        BY <3>6, <3>9, <3>10 DEF IsTick
      <4> QED BY <3>2, <4>1
    <3>11. CASE tick' = [v EXCEPT !.added = @ \cup {s}]
      <4>1. tick' = [[[u EXCEPT !.todo = todo] EXCEPT !.added = u.added \cup {s}] EXCEPT !.here = u.here]
        BY <3>6, <3>9, <3>11 DEF IsTick
      <4> QED BY <3>2, <4>1
    <3> QED BY <1>13, <3>1, <3>2, <3>7, <3>8, <3>10, <3>11
           DEF BackOne, CopyOne, BackRefused, CopyRefused, CopyRecorded
  <2>4. PICK added, here : tick' = [[[t EXCEPT !.todo = todo] EXCEPT !.added = added] EXCEPT !.here = here]
    BY <2>3
  <2>5. IsTick(t)
    BY <1>1, <2>3, BothLedgersShape
  <2>6. /\ tick'.mode = t.mode /\ tick'.stored = t.stored /\ tick'.snapshot = t.snapshot
        /\ tick'.streak = t.streak /\ tick'.heard = t.heard /\ tick'.failed = t.failed
        /\ tick'.rows = t.rows /\ tick'.todo = todo
    BY <2>4, <2>5 DEF IsTick
  <2> HIDE DEF todo
  <2>7. CASE t = tick
    <3>1. TickTyped(tick')
      BY <1>1, <2>2, <2>6, <2>7 DEF TickTyped, todo
    <3> QED BY <1>3, <2>1, <2>6, <2>7, <3>1, WorkTyped
  <2>8. CASE t = BothLedgers(tick, n, s)
    <3>1. PICK R : R = [tick.rows EXCEPT ![n].ledger = @ \cup {s}, ![n].back = @ \cup {s}]
      OBVIOUS
    <3>2. t = [tick EXCEPT !.rows = R]
      BY <1>1, <2>8, <3>1 DEF BothLedgers, IsTick
    <3>3. /\ t.mode = tick.mode /\ t.stored = tick.stored /\ t.snapshot = tick.snapshot
          /\ t.streak = tick.streak /\ t.heard = tick.heard /\ t.failed = tick.failed /\ t.rows = R
      BY <1>1, <3>2 DEF IsTick
    <3>4. PICK u : u = [[tick.rows[n] EXCEPT !.ledger = ledger] EXCEPT !.back = back]
      OBVIOUS
    <3>5. R = [tick.rows EXCEPT ![n] = u] /\ u.status = tick.rows[n].status
      <4>1. tick.rows[n] = [status |-> tick.rows[n].status, playlist |-> tick.rows[n].playlist,
              ledger |-> tick.rows[n].ledger, back |-> tick.rows[n].back,
              snapshot |-> tick.rows[n].snapshot, error |-> tick.rows[n].error, ran |-> tick.rows[n].ran]
        BY <1>4, RowFields
      <4> HIDE DEF n
      <4> QED BY <1>4, <3>1, <3>4, <4>1
    <3>6. ledger \in SUBSET Songs /\ back \in SUBSET Songs /\ todo \in SUBSET Songs
      BY <1>5, <2>2 DEF todo
    <3> HIDE DEF n, ledger, back
    <3>7. u \in GoodRow
      BY <1>4, <3>6, <3>4, LedgersGood
    <3> QED BY <1>3, <1>4, <2>1, <2>6, <3>3, <3>5, <3>6, <3>7, LedgersTyped
  <2> QED BY <2>3, <2>7, <2>8
<1> QED BY <1>6, <1>8, <1>9, <1>10, <1>11, <1>12, <1>13

LEMMA TickBeginsTyped == TypedInv /\ Tick => TickTyped(tick)' /\ Heard'
<1> SUFFICES ASSUME TypedInv, Tick PROVE TickTyped(tick)' /\ Heard'
  OBVIOUS
<1>1. /\ tick' = [IdleTick EXCEPT !.mode = sync.mode, !.stored = sync.snapshot,
                                  !.streak = sync.streak, !.rows = row, !.snapshot = sync.snapshot]
      /\ pc' \in {"snapshot", "list"}
  BY DEF Tick
<1>2. /\ tick'.mode = sync.mode /\ tick'.stored = sync.snapshot /\ tick'.streak = sync.streak
      /\ tick'.rows = row /\ tick'.snapshot = sync.snapshot
      /\ tick'.heard = IdleTick.heard /\ tick'.failed = IdleTick.failed /\ tick'.todo = IdleTick.todo
  BY <1>1 DEF IdleTick
<1>3. /\ sync.mode \in Modes /\ sync.snapshot \in Snapshots /\ sync.streak \in 0..MaxWait
      /\ row \in [Subs -> GoodRow]
  BY DEF TypedInv, SyncType
<1>4. TickTyped(tick')
  BY <1>2, <1>3, IdleTickTyped DEF TickTyped
<1>5. Heard'
  BY <1>1 DEF Heard, Working
<1> QED BY <1>4, <1>5 DEF TickTyped

LEMMA TickNext == TypedInv /\ SeenInv /\ Next => TickTyped(tick)' /\ Heard'
<1> SUFFICES ASSUME TypedInv, SeenInv, Next PROVE TickTyped(tick)' /\ Heard'
  OBVIOUS
<1>1. CASE StoreSnapshot
  <2>1. pc = "store" /\ TickTyped(tick) /\ IsTick(tick) /\ Heard
    BY <1>1 DEF StoreSnapshot, TypedInv, SeenInv, Shape
  <2>2. CASE pc' = "prepare" /\ tick' = [tick EXCEPT !.n = FirstAfter(0)]
    <3>1. /\ tick'.mode = tick.mode /\ tick'.stored = tick.stored /\ tick'.streak = tick.streak
          /\ tick'.rows = tick.rows /\ tick'.heard = tick.heard /\ tick'.failed = tick.failed
          /\ tick'.todo = tick.todo /\ tick'.snapshot = tick.snapshot
      BY <2>1, <2>2 DEF IsTick
    <3>2. TickTyped(tick')
      BY <2>1, <3>1 DEF TickTyped
    <3>3. Heard'
      BY <2>1, <2>2, <3>1 DEF Heard, TwoWay, Listed
    <3> QED BY <3>2, <3>3 DEF TickTyped
  <2> QED BY <1>1, <2>2, TickOverTyped DEF StoreSnapshot
<1>2. CASE PlanNextPoll \/ TickFails \/ Restart
  BY <1>2, TickOverTyped DEF PlanNextPoll, TickFails, Restart
<1>3. CASE Clock \/ \E i \in Subs : ImportStep(i) \/ ImportThrows(i)
  BY <1>3, TickUnchangedTyped DEF Clock, ImportStep, ImportOpen, ImportAdd, ImportEnd, ImportThrows, tickVars
<1>4. CASE People
  <2>1. ASSUME NEW s \in OwnerSongs, OwnerAddsOrRemoves(s) PROVE UNCHANGED <<pc, tick>>
    BY <2>1 DEF OwnerAddsOrRemoves, tickVars
  <2>2. ASSUME NEW i \in Subs, NEW s \in Songs, SubscriberAddsOrRemoves(i, s) PROVE UNCHANGED <<pc, tick>>
    BY <2>2 DEF SubscriberAddsOrRemoves, tickVars
  <2>3. ASSUME \/ \E m \in Modes : SetMode(m)
               \/ \E r \in BOOLEAN : SetRevoked(r)
               \/ \E i \in Subs : Unsubscribe(i) \/ ImportBegin(i)
        PROVE  UNCHANGED <<pc, tick>>
    BY <2>3 DEF SetMode, SetRevoked, Unsubscribe, ImportBegin, tickVars
  <2>4. UNCHANGED <<pc, tick>>
    BY <1>4, <2>1, <2>2, <2>3 DEF People
  <2> QED BY <2>4, TickUnchangedTyped
<1>5. CASE TickStep
  BY <1>1, <1>2, <1>5, ReadTyped, WorkStepTyped DEF TickStep
<1>6. CASE Fault
  <2>1. CASE Resends
    BY <2>1, ResendsTouch, TickUnchangedTyped DEF OnlyPlaylists, SeenInv
  <2> QED BY <1>2, <1>3, <1>6, <2>1, WorkStepTyped DEF Fault, Resends
<1> QED BY <1>3, <1>4, <1>5, <1>6, TickBeginsTyped DEF Next

LEMMA TypedInit == Init => TypedInv
<1> SUFFICES ASSUME Init PROVE TypedInv
  OBVIOUS
<1> USE BoundsAssumption, SongsAssumption, SubsetsHold
<1>1. PlaylistsTyped
  <2>1. source \in [Songs -> 0..MaxCopies]
    BY OneCopyTyped DEF Init
  <2>2. NoSongs \in [Songs -> 0..MaxCopies]
    BY OneCopyTyped DEF NoSongs
  <2>3. \A S : PlusOne(NoSongs, S) \in [Songs -> 0..MaxCopies]
    BY <2>2, PlusOneTyped
  <2>4. copy = [i \in Subs |-> [p \in Playlists |->
                 IF i \in Joined /\ p = 1 THEN PlusOne(NoSongs, {Match[i][s] : s \in FirstSongs})
                 ELSE NoSongs]]
    BY DEF Init
  <2>5. copy \in [Subs -> [Playlists -> [Songs -> 0..MaxCopies]]]
    BY <2>2, <2>3, <2>4
  <2> QED BY <2>1, <2>5 DEF PlaylistsTyped
<1>2. sync \in SyncType
  <2>1. PICK m \in FirstModes :
          sync = [mode |-> m, revoked |-> FALSE, snapshot |-> Unseen, streak |-> 0, wait |-> 0,
                  error |-> FALSE]
    BY DEF Init
  <2>2. m \in Modes /\ 0 \in 0..MaxWait
    OBVIOUS
  <2> QED BY <2>1, <2>2, UnseenTyped DEF SyncType
<1>3. row \in [Subs -> GoodRow]
  <2>1. ASSUME NEW i \in Subs, i \in Joined PROVE row[i] \in GoodRow
    <3>1. PICK u : u = [NoRow EXCEPT !.status = "completed", !.playlist = 1, !.ran = TRUE,
                                     !.ledger = Matchable(i, FirstSongs), !.back = Matchable(i, FirstSongs)]
      OBVIOUS
    <3>2. row[i] = u
      BY <2>1, <3>1 DEF Init
    <3>3. u = [status |-> "completed", playlist |-> 1, ledger |-> Matchable(i, FirstSongs),
               back |-> Matchable(i, FirstSongs), snapshot |-> Unseen, error |-> FALSE, ran |-> TRUE]
      BY <3>1 DEF NoRow
    <3>4. Matchable(i, FirstSongs) \in SUBSET Songs /\ 1 \in 1..MaxImports + 1 /\ Unseen \in Snapshots
      BY UnseenTyped
    <3>5. u \in GoodRow
      BY <3>3, <3>4, RowIsGood
    <3> QED BY <3>2, <3>5
  <2>2. ASSUME NEW i \in Subs, i \notin Joined PROVE row[i] \in GoodRow
    BY <2>2, NoRowGood DEF Init
  <2>3. row = [i \in Subs |-> row[i]]
    BY DEF Init
  <2> QED BY <2>1, <2>2, <2>3
<1>4. TickTyped(tick) /\ Heard
  BY IdleTickTyped DEF Init, Heard, Working
<1>5. CallsTyped
  <2>1. imports = 0 /\ 0 \in 0..MaxImports
    <3>1. imports = 0
      BY Zenon DEF Init
    <3>2. MaxImports \in Nat
      OBVIOUS
    <3> HIDE BoundsAssumption, SongsAssumption, SubsetsHold
    <3> QED BY <3>1, <3>2
  <2>2. made = [i \in Subs |-> IF i \in Joined THEN 1 ELSE 0] /\ call = [i \in Subs |-> IdleCall]
    BY DEF Init
  <2>3. \A i \in Subs : made[i] \in {0, 1} /\ call[i].at = "idle" /\ call[i].playlist = 0
    BY <2>2 DEF IdleCall
  <2>4. 0 \in 0..MaxImports + 1
    OBVIOUS
  <2>5. ASSUME NEW i \in Subs PROVE CallTyped(i)
    BY <2>1, <2>3, <2>4 DEF CallTyped
  <2> QED BY <2>1, <2>2, <2>5 DEF CallsTyped
<1>6. Histories
  BY DEF Init, Histories
<1> QED BY <1>1, <1>2, <1>3, <1>4, <1>5, <1>6 DEF TypedInv

LEMMA TypedNext == TypedInv /\ SeenInv /\ [Next]_vars => TypedInv'
<1> SUFFICES ASSUME TypedInv, SeenInv, [Next]_vars PROVE TypedInv'
  OBVIOUS
<1>1. CASE UNCHANGED vars
  BY <1>1 DEF vars, provVars, playVars, tickVars, history, counters, TypedInv, PlaylistsTyped, SyncType,
     TickTyped, Heard, TwoWay, Listed, CallsTyped, CallTyped, Histories, addVars
<1>2. CASE Next
  BY <1>2, PlaylistsNext, SyncNext, RowsNext, TickNext, CallsNext, HistoriesNext DEF TypedInv
<1> QED BY <1>1, <1>2

LEMMA TypedTypes == TypedInv /\ SeenInv => TypeOK
<1> SUFFICES ASSUME TypedInv, SeenInv PROVE TypeOK
  OBVIOUS
<1>1. made \in [Subs -> 0..MaxImports + 1]
  <2>1. /\ imports \in 0..MaxImports /\ made = [i \in Subs |-> made[i]]
        /\ \A i \in Subs : made[i] \in Nat /\ made[i] <= 1 + imports
    BY DEF TypedInv, CallsTyped, CallTyped
  <2>2. \A i \in Subs : made[i] \in 0..MaxImports + 1
    BY <2>1, BoundsAssumption
  <2> QED BY <2>1, <2>2
<1>2. row \in [Subs -> RowType] /\ \A i \in Subs : Subscribed(i) <=> row[i].playlist # 0
  BY DEF TypedInv, GoodRow, Subscribed
<1>3. version \in [{0} \cup Subs -> Nat] /\ disturbed \in [Subs -> BOOLEAN]
  BY DEF SeenInv, Shape
<1>4. pc \in {"idle", "snapshot", "list", "recipients", "listLate", "store", "prepare", "back",
              "forward", "copy", "plan"}
  BY DEF SeenInv, Reading, Working
<1> QED BY <1>1, <1>2, <1>3, <1>4 DEF TypeOK, TypedInv, PlaylistsTyped, SyncType, Histories

\* Every variable of the scheduler keeps its type, whatever fails: a row has a
\* playlist as long as it exists, also one that a tick writes from what it read
\* before; the poll interval stays within its limit; a pass over a copy has
\* listed that copy before.
THEOREM SchedulerTyped == Spec => []TypeOK
<1>1. Spec => []SeenInv
  BY SeenInit, SeenNext, PTL DEF Spec
<1>2. Spec => [](TypedInv /\ SeenInv)
  BY <1>1, TypedInit, TypedNext, PTL DEF Spec
<1> QED BY <1>2, TypedTypes, PTL
=============================================================================
