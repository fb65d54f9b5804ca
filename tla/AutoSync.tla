------------------------------ MODULE AutoSync ------------------------------
(***************************************************************************)
(* The auto-sync scheduler and one synced playlist: runAutoSyncCycle, the  *)
(* rows it works from, and what the owner, the subscribers and the synced  *)
(* playlist routes do to them while a tick is under way.                   *)
(*                                                                         *)
(* A song stands for its fingerprint.  Match[i][s] is what findProviderMatch*)
(* settles on for a source song at subscriber i's service, Back[i][s] the  *)
(* way back; they keep the fingerprint when they return s itself.  The     *)
(* snapshot of a playlist is the songs listed and, on Spotify, its version.*)
(*                                                                         *)
(* A song is added with addTracks, and nobody looks at what it returns.  A *)
(* request carried out and answered with an error is sent again, or throws *)
(* in the end; a song the service refuses is left out without a word.      *)
(***************************************************************************)
EXTENDS Naturals, FiniteSetsExt

CONSTANTS
  N,             \* subscribers, in the order a reading returns their rows
  Spotify,       \* those of {0} \cup Subs on Spotify; 0 is the owner
  Songs, NoSong,
  OwnerSongs,    \* what the owner adds and removes
  FirstSongs,    \* what the playlist holds when it is shared
  SubSongs,      \* what subscribers add to their copy
  Match, Back,
  Joined,        \* who has imported it already
  FirstModes,    \* its sync mode then
  MaxWait,       \* longest poll interval, in scheduler intervals
  MaxChanges,    \* bound on what people do
  MaxImports,    \* bound on link imports
  MaxFaults      \* bound on failed or refused calls and restarts

Subs        == 1..N
NoSongs     == [s \in Songs |-> 0]
MaxCopies   == 2
Playlists   == 1..MaxImports + 1
Modes       == {"one_way", "bidirectional"}

ASSUME SubsAssumption ==
  /\ N \in Nat \ {0}
  /\ Spotify \subseteq {0} \cup Subs
ASSUME SongsAssumption ==
  /\ NoSong \notin Songs /\ FirstModes \subseteq Modes /\ Joined \subseteq Subs
  /\ FirstSongs \subseteq Songs /\ OwnerSongs \subseteq Songs /\ SubSongs \subseteq Songs
  /\ Match \in [Subs -> [Songs -> Songs \cup {NoSong}]]
  /\ Back \in [Subs -> [Songs -> Songs \cup {NoSong}]]
ASSUME BoundsAssumption ==
  MaxWait \in Nat \ {0} /\ {MaxChanges, MaxImports, MaxFaults} \subseteq Nat

VARIABLES
  source,     \* the owner's playlist: how often it holds each song
  copy,       \* the playlists made for each subscriber, likewise
  made,       \* how many that are
  version,    \* writes to the owner's playlist (0) and to each copy, on Spotify
  sync,       \* the playlist_syncs row
  row,        \* the playlist_sync_imports row of each subscriber
  pc, tick,   \* where the tick is, and its local variables
  call,       \* the link import of each subscriber, with its locals
  disturbed,  \* history: a tick was cut off or overlapped an import of this row,
              \* or an import listed what a service without versions could take back
  leftOut,    \* history: songs the subscriber's imports reported as left out
  unrecorded, \* history: songs a tick was copying when it failed on this row
  again,      \* history: what an import copied that may have been there already
  taken,      \* history: what subscribers took out of their copies
  own,        \* history: what subscribers put into their copies
  ownAdds,    \* history: songs a person added to a playlist while it was worked on
  resent,     \* history: songs of the owner's added by a request answered with an error
  uncopied,   \* history: songs of the owner's recorded as copied, and not got there
  changes, imports, faults   \* so far

playVars  == <<source, copy, version>>
provVars  == <<playVars, made>>
tickVars  == <<pc, tick>>
addVars   == <<resent, uncopied>>
history   == <<disturbed, leftOut, unrecorded, again, taken, own, ownAdds, addVars>>
counters  == <<changes, imports, faults>>
vars == <<provVars, sync, row, tickVars, call, history, counters>>

Matchable(i, songs) == {s \in songs : Match[i][s] # NoSong}

\* One more of a song; the bound caps what a copy is said to hold.
PlusOne(p, songs) ==
  [s \in Songs |-> IF s \in songs /\ p[s] < MaxCopies THEN p[s] + 1 ELSE p[s]]

Held(p) == {s \in Songs : p[s] > 0}

\* No snapshot has been stored yet.
Unseen == <<0, {NoSong}>>

SnapshotOf(i, p) == <<version[i], Held(p)>>

Written(i) == version' = [version EXCEPT ![i] = IF i \in Spotify THEN @ + 1 ELSE 0]

NoRow ==
  [status |-> "none", playlist |-> 0, ledger |-> {}, back |-> {},
   snapshot |-> Unseen, error |-> FALSE, ran |-> FALSE]

Subscribed(i) == row[i].status # "none"

IdleTick ==
  [mode |-> "one_way", stored |-> Unseen, streak |-> 0, rows |-> [i \in Subs |-> NoRow],
   snapshot |-> Unseen, tracks |-> {}, heard |-> [i \in Subs |-> Unseen], n |-> 0,
   prepared |-> [i \in Subs |-> FALSE], grew |-> FALSE, failed |-> FALSE,
   todo |-> {}, added |-> {}, here |-> {}]

IdleCall == [at |-> "idle", listed |-> {}, playlist |-> 0, ledger |-> {}, todo |-> {}]

Init ==
  /\ source = [s \in Songs |-> IF s \in FirstSongs THEN 1 ELSE 0]
  /\ copy = [i \in Subs |-> [p \in Playlists |->
       IF i \in Joined /\ p = 1 THEN PlusOne(NoSongs, {Match[i][s] : s \in FirstSongs})
       ELSE NoSongs]]
  /\ made = [i \in Subs |-> IF i \in Joined THEN 1 ELSE 0]
  /\ version = [i \in {0} \cup Subs |-> 0]
  /\ \E m \in FirstModes :
       sync = [mode |-> m, revoked |-> FALSE, snapshot |-> Unseen,
               streak |-> 0, wait |-> 0, error |-> FALSE]
  /\ row = [i \in Subs |->
       IF i \in Joined
       THEN [NoRow EXCEPT !.status = "completed", !.playlist = 1, !.ran = TRUE,
                          !.ledger = Matchable(i, FirstSongs), !.back = Matchable(i, FirstSongs)]
       ELSE NoRow]
  /\ pc = "idle" /\ tick = IdleTick
  /\ call = [i \in Subs |-> IdleCall]
  /\ disturbed = [i \in Subs |-> FALSE]
  /\ leftOut = [i \in Subs |-> {}]
  /\ unrecorded = [i \in Subs |-> {}]
  /\ again = [i \in Subs |-> {}]
  /\ taken = [i \in Subs |-> {}]
  /\ own = [i \in Subs |-> {}]
  /\ ownAdds = [i \in {0} \cup Subs |-> {}]
  /\ resent = [i \in {0} \cup Subs |-> {}]
  /\ uncopied = [i \in Subs |-> {}]
  /\ changes = 0 /\ imports = 0 /\ faults = 0

-----------------------------------------------------------------------------
(***************************************************************************)
(* The owner, the subscribers and the routes                               *)
(***************************************************************************)
Change == changes < MaxChanges /\ changes' = changes + 1

OwnerAddsOrRemoves(s) ==
  /\ Change
  /\ source' = [source EXCEPT ![s] = IF @ = 0 THEN 1 ELSE 0]
  /\ Written(0)
  /\ ownAdds' = IF source[s] = 0 /\ pc # "idle" THEN [ownAdds EXCEPT ![0] = @ \cup {s}]
                ELSE ownAdds
  /\ UNCHANGED <<copy, made, sync, row, tickVars, call, disturbed, leftOut, unrecorded, again, taken>>
  /\ UNCHANGED <<own, addVars, imports, faults>>

\* In the provider's own app: a song of their own, or any song of the copy.
SubscriberAddsOrRemoves(i, s) ==
  LET p == row[i].playlist
  IN  /\ Change
      /\ p # 0
      /\ \/ s \in SubSongs /\ copy[i][p][s] = 0
         \/ copy[i][p][s] > 0
      /\ copy' = [copy EXCEPT ![i][p][s] = IF @ = 0 THEN 1 ELSE 0]
      /\ Written(i)
      /\ taken' = [taken EXCEPT ![i] = IF copy[i][p][s] > 0 THEN @ \cup {s} ELSE @]
      /\ own' = [own EXCEPT ![i] = IF copy[i][p][s] = 0 THEN @ \cup {s} ELSE @]
      /\ ownAdds' = IF copy[i][p][s] = 0 /\ (pc # "idle" \/ call[i].at # "idle")
                    THEN [ownAdds EXCEPT ![i] = @ \cup {s}] ELSE ownAdds
      /\ UNCHANGED <<source, made, sync, row, tickVars, call, disturbed, leftOut, unrecorded, again>>
      /\ UNCHANGED <<addVars, imports, faults>>

\* PATCH /syncs/:syncId
SetMode(m) ==
  /\ Change
  /\ m # sync.mode
  /\ sync' = [sync EXCEPT !.mode = m]
  /\ UNCHANGED <<provVars, row, tickVars, call, history, imports, faults>>

\* The link is revoked, or regenerated.
SetRevoked(revoked) ==
  /\ Change
  /\ revoked # sync.revoked
  /\ sync' = [sync EXCEPT !.revoked = revoked]
  /\ UNCHANGED <<provVars, row, tickVars, call, history, imports, faults>>

\* DELETE /syncs/link/:token/import
Unsubscribe(i) ==
  /\ Change
  /\ Subscribed(i)
  /\ row' = [row EXCEPT ![i] = NoRow]
  /\ UNCHANGED <<provVars, sync, tickVars, call, history, imports, faults>>

\* Elsewhere than on Spotify a list that changed and changed back is the one
\* stored: what was imported in between is not looked at again.
CanComeBack == 0 \notin Spotify /\ SnapshotOf(0, source) # sync.snapshot

\* POST /syncs/link/:token/import: the link is checked and the source listed.
ImportBegin(i) ==
  /\ call[i].at = "idle" /\ imports < MaxImports
  /\ ~sync.revoked
  /\ imports' = imports + 1
  /\ call' = [call EXCEPT ![i] = [IdleCall EXCEPT !.at = "open", !.listed = Held(source)]]
  /\ disturbed' = [disturbed EXCEPT ![i] = @ \/ pc # "idle" \/ CanComeBack]
  /\ UNCHANGED <<provVars, sync, row, tickVars, leftOut, unrecorded, again, taken, own, ownAdds>>
  /\ UNCHANGED <<addVars, changes, faults>>

\* findImport; a first import creates the playlist and stores a pending row.
ImportOpen(i) ==
  /\ call[i].at = "open"
  /\ LET old  == row[i]
         p    == IF old.playlist = 0 THEN made[i] + 1 ELSE old.playlist
         work == Matchable(i, call[i].listed) \ old.ledger
     IN  /\ call' = [call EXCEPT ![i].at = "add", ![i].playlist = p,
                                 ![i].ledger = old.ledger, ![i].todo = work]
         /\ IF old.playlist = 0
            THEN /\ made' = [made EXCEPT ![i] = p]
                 /\ row' = [row EXCEPT ![i].status = "pending", ![i].playlist = p]
            ELSE UNCHANGED <<made, row>>
  /\ UNCHANGED <<playVars, sync, tickVars, history, counters>>

\* What two of these songs are both matched to.
Twins(i, songs) ==
  {m \in Songs : \E s, t \in songs : s # t /\ Match[i][s] = m /\ Match[i][t] = m}

\* The songs land, each for itself; Spotify and Apple Music may leave some out.
ImportAdd(i) ==
  /\ call[i].at = "add"
  /\ \E got \in SUBSET call[i].todo :
       LET p      == call[i].playlist
           missed == leftOut[i] \cup unrecorded[i]
           double == own[i] \cup Twins(i, got \cup call[i].ledger \cup missed)
       IN  /\ copy' = [copy EXCEPT ![i][p] =
                         PlusOne(PlusOne(@, {Match[i][s] : s \in got}), Twins(i, got))]
           /\ Written(i)
           /\ call' = [call EXCEPT ![i].at = "end", ![i].ledger = @ \cup got]
           /\ leftOut' = [leftOut EXCEPT ![i] = @ \cup (call[i].todo \ got)]
           /\ again' = [again EXCEPT ![i] =
                          @ \cup {s \in got : s \in missed \/ Match[i][s] \in double}]
  /\ UNCHANGED <<source, made, sync, row, tickVars, disturbed, unrecorded, taken, own, ownAdds>>
  /\ UNCHANGED <<addVars, counters>>

\* A song of an import is added, and the answer is an error.
ImportAddResent(i) ==
  /\ call[i].at = "add" /\ faults < MaxFaults
  /\ faults' = faults + 1
  /\ \E s \in call[i].todo :
       /\ copy' = [copy EXCEPT ![i][call[i].playlist] = PlusOne(@, {Match[i][s]})]
       /\ resent' = [resent EXCEPT ![i] = @ \cup {s}]
  /\ Written(i)
  /\ UNCHANGED <<source, made, sync, row, tickVars, call, disturbed, leftOut, unrecorded, again>>
  /\ UNCHANGED <<taken, own, ownAdds, uncopied, changes, imports>>

\* The closing upsertImport: it also creates the row, had it been deleted.
ImportEnd(i) ==
  /\ call[i].at = "end"
  /\ row' = [row EXCEPT ![i] =
       [@ EXCEPT !.status = "completed", !.playlist = call[i].playlist,
                 !.ledger = call[i].ledger, !.back = call[i].ledger,
                 !.error = FALSE, !.ran = TRUE]]
  /\ call' = [call EXCEPT ![i] = IdleCall]
  /\ UNCHANGED <<provVars, sync, tickVars, history, counters>>

\* The provider refuses the request, and the import throws.
ImportThrows(i) ==
  /\ call[i].at \in {"open", "add"} /\ faults < MaxFaults
  /\ faults' = faults + 1
  /\ call' = [call EXCEPT ![i] = IdleCall]
  /\ leftOut' = [leftOut EXCEPT ![i] = @ \cup Matchable(i, call[i].listed)]
  /\ UNCHANGED <<provVars, sync, row, tickVars, disturbed, unrecorded, again, taken, own, ownAdds>>
  /\ UNCHANGED <<addVars, changes, imports>>

-----------------------------------------------------------------------------
(***************************************************************************)
(* The tick                                                                *)
(***************************************************************************)
Listed        == {i \in Subs : tick.rows[i].status # "none"}
After(i)      == {j \in Listed : j > i}
FirstAfter(i) == IF After(i) = {} THEN 0 ELSE Min(After(i))

Retry(i)         == tick.rows[i].error
RetryFailed      == \E i \in Listed : Retry(i)
TwoWay           == tick.mode = "bidirectional"
SourceChanged    == tick.snapshot # tick.stored
HeardNew(i)      == TwoWay /\ tick.heard[i] # tick.rows[i].snapshot
ShouldProcess    == TwoWay \/ SourceChanged \/ RetryFailed

DueUnlessFailed ==  \* mutant
  /\ ~sync.revoked /\ ~sync.error
  /\ sync.wait = 0
  /\ \E i \in Subs : row[i].playlist # 0

Due ==
  /\ ~sync.revoked
  /\ sync.wait = 0
  /\ \E i \in Subs : row[i].playlist # 0

\* listSyncsForAutoSync: everything the tick will know of the rows.
Tick ==
  /\ pc = "idle" /\ Due
  /\ tick' = [IdleTick EXCEPT !.mode = sync.mode, !.stored = sync.snapshot,
                              !.streak = sync.streak, !.rows = row, !.snapshot = sync.snapshot]
  /\ pc' = IF 0 \in Spotify THEN "snapshot" ELSE "list"
  /\ disturbed' = [i \in Subs |-> disturbed[i] \/ call[i].at # "idle"]
  /\ UNCHANGED <<provVars, sync, row, call, leftOut, unrecorded, again, taken, own, ownAdds>>
  /\ UNCHANGED <<addVars, counters>>

ToRecipients == IF TwoWay THEN "recipients" ELSE "store"

\* loadSpotifyPlaylistSnapshot of the source
ReadSnapshot ==
  /\ pc = "snapshot"
  /\ tick' = [tick EXCEPT !.snapshot = SnapshotOf(0, source), !.n = FirstAfter(0)]
  /\ pc' = IF SnapshotOf(0, source) # tick.stored \/ RetryFailed THEN "list" ELSE ToRecipients
  /\ UNCHANGED <<provVars, sync, row, call, history, counters>>

\* loadSourceTracks
ListSource ==
  /\ pc = "list"
  /\ tick' = [tick EXCEPT !.tracks = Held(source), !.n = FirstAfter(0),
                          !.snapshot = IF 0 \in Spotify THEN @ ELSE SnapshotOf(0, source)]
  /\ pc' = ToRecipients
  /\ UNCHANGED <<provVars, sync, row, call, history, counters>>

\* Bidirectional only: the snapshot or the listing of one copy after the other.
ReadRecipient ==
  LET i == tick.n
      t == [tick EXCEPT !.heard[i] = SnapshotOf(i, copy[i][tick.rows[i].playlist]),
                        !.n = FirstAfter(i)]
  IN  /\ pc = "recipients"
      /\ tick' = t
      /\ pc' = IF t.n # 0 THEN "recipients"
               ELSE IF /\ t.tracks = {}
                       /\ \E j \in Listed : t.heard[j] # t.rows[j].snapshot \/ Retry(j)
               THEN "listLate" ELSE "store"
      /\ UNCHANGED <<provVars, sync, row, call, history, counters>>

\* The source is listed now if a copy changed and it was not listed before.
ListSourceLate ==
  /\ pc = "listLate"
  /\ tick' = [tick EXCEPT !.tracks = Held(source)]
  /\ pc' = "store"
  /\ UNCHANGED <<provVars, sync, row, call, history, counters>>

\* The first updateSyncAutoState, before any import is worked on.  A tick with
\* nothing to do ends here, without planning the next poll.
StoreSnapshot ==
  /\ pc = "store"
  /\ sync' = [sync EXCEPT !.snapshot = tick.snapshot]
  /\ IF ShouldProcess
     THEN pc' = "prepare" /\ tick' = [tick EXCEPT !.n = FirstAfter(0)]
     ELSE pc' = "idle" /\ tick' = IdleTick
  /\ UNCHANGED <<provVars, row, call, history, counters>>

\* On to the next subscriber of the loop, then to the loop after it.
GoOn(phase, t) ==
  LET rest  == {j \in Listed : j > t.n /\ (phase = "prepare" \/ t.prepared[j])}
      ready == {j \in Listed : t.prepared[j]}
      clean == [t EXCEPT !.todo = {}, !.added = {}, !.here = {}]
  IN  IF rest # {}
      THEN pc' = phase /\ tick' = [clean EXCEPT !.n = Min(rest)]
      ELSE IF phase = "prepare" /\ ready # {}
      THEN pc' = "forward" /\ tick' = [clean EXCEPT !.n = Min(ready)]
      ELSE pc' = "plan" /\ tick' = [clean EXCEPT !.n = 0]

\* updateImportSyncState: null, and nothing written, once the row is gone.
UpdateRow(i, new) ==
  row' = IF Subscribed(i) THEN [row EXCEPT ![i] = new] ELSE row

Snapshot(i)   == IF TwoWay THEN tick.heard[i] ELSE tick.rows[i].snapshot
NothingNew(i) == ~SourceChanged /\ ~HeardNew(i) /\ ~Retry(i)
BackNeeded(i) == TwoWay /\ (HeardNew(i) \/ Retry(i))

\* A row that says completed and has an empty ledger is taken for one from
\* before that ledger existed: all there is now counts as synced.
Adopts(i, ledger) == ledger = {} /\ tick.rows[i].ran /\ tick.rows[i].status = "completed"

SkipImport ==
  LET i == tick.n
  IN  /\ pc = "prepare" /\ NothingNew(i)
      /\ UpdateRow(i, [row[i] EXCEPT !.snapshot = Snapshot(i), !.status = "completed",
                                     !.error = FALSE])
      /\ GoOn("prepare", tick)
      /\ UNCHANGED <<provVars, sync, call, history, counters>>

PrepareForward ==
  LET i == tick.n
  IN  /\ pc = "prepare" /\ ~NothingNew(i) /\ ~BackNeeded(i)
      /\ GoOn("prepare", [tick EXCEPT !.prepared[i] = TRUE])
      /\ UNCHANGED <<provVars, sync, row, call, history, counters>>

\* syncImportBackToSource, with the listing made before or, on Spotify, now.
StartBack ==
  LET i    == tick.n
      old  == tick.rows[i]
      list == IF i \in Spotify THEN Held(copy[i][old.playlist]) ELSE tick.heard[i][2]
      back == IF Adopts(i, old.back) THEN list ELSE old.back
  IN  /\ pc = "prepare" /\ ~NothingNew(i) /\ BackNeeded(i)
      /\ tick' = [tick EXCEPT !.rows[i].back = back, !.todo = list \ back]
      /\ pc' = "back"
      /\ UNCHANGED <<provVars, sync, row, call, history, counters>>

BothLedgers(t, i, s) == [t EXCEPT !.rows[i].ledger = @ \cup {s}, !.rows[i].back = @ \cup {s}]

NewToSourceAlways(r) == Back[tick.n][r] # NoSong  \* mutant
NewToSource(r) == r \notin tick.tracks /\ Back[tick.n][r] # NoSong

\* The add to the owner's playlist is carried out and answered with an error.
BackResent(r) ==
  LET m == Back[tick.n][r]
  IN  /\ pc = "back" /\ r \in tick.todo /\ NewToSource(r)
      /\ faults < MaxFaults /\ faults' = faults + 1
      /\ source' = PlusOne(source, {m})
      /\ Written(0)
      /\ resent' = [resent EXCEPT ![0] = @ \cup {m}]
      /\ UNCHANGED <<copy, made, sync, row, tickVars, call, disturbed, leftOut, unrecorded, again>>
      /\ UNCHANGED <<taken, own, ownAdds, uncopied, changes, imports>>

\* The owner's service refuses the song: it counts as added all the same.
BackRefused(r) ==
  /\ pc = "back" /\ r \in tick.todo /\ NewToSource(r)
  /\ faults < MaxFaults /\ faults' = faults + 1
  /\ tick' = [BothLedgers([tick EXCEPT !.todo = @ \ {r}], tick.n, r) EXCEPT !.added = @ \cup {r}]
  /\ UNCHANGED <<provVars, pc, sync, row, call, history, changes, imports>>

BackOne(r) ==
  LET i == tick.n
      t == [tick EXCEPT !.todo = @ \ {r}]
  IN  /\ pc = "back" /\ r \in tick.todo
      /\ IF NewToSource(r)
         THEN /\ source' = PlusOne(source, {Back[i][r]})
              /\ Written(0)
              /\ tick' = [BothLedgers(t, i, r) EXCEPT !.added = @ \cup {r}]
         ELSE /\ tick' = IF r \in tick.tracks THEN BothLedgers(t, i, r) ELSE t
              /\ UNCHANGED <<source, version>>
      /\ UNCHANGED <<copy, made, pc, sync, row, call, history, counters>>

\* mergeTracksByFingerprint: what went back is copied forward to the others.
EndBack ==
  /\ pc = "back" /\ tick.todo = {}
  /\ GoOn("prepare", [tick EXCEPT !.prepared[tick.n] = TRUE, !.tracks = @ \cup tick.added,
                                  !.grew = @ \/ tick.added # {}])
  /\ UNCHANGED <<provVars, sync, row, call, history, counters>>

ForwardNeeded(i) == tick.grew \/ SourceChanged \/ Retry(i)

\* syncSourceToImport: the copy is listed, what the ledger lacks is to be added.
StartForward ==
  LET i      == tick.n
      old    == tick.rows[i]
      ledger == IF Adopts(i, old.ledger) THEN tick.tracks ELSE old.ledger
  IN  /\ pc = "forward" /\ ForwardNeeded(i)
      /\ tick' = [tick EXCEPT !.rows[i].ledger = ledger, !.here = Held(copy[i][old.playlist]),
                              !.todo = Matchable(i, tick.tracks \ ledger)]
      /\ pc' = "copy"
      /\ uncopied' = [uncopied EXCEPT ![i] = @ \cup
           {s \in ledger \ old.ledger : Match[i][s] \notin Held(copy[i][old.playlist])}]
      /\ UNCHANGED <<provVars, sync, row, call, disturbed, leftOut, unrecorded, again, taken, own>>
      /\ UNCHANGED <<ownAdds, resent, counters>>

NotThereYetForgotten(s) == TRUE  \* mutant
NotThereYet(s) == Match[tick.n][s] \notin tick.here

\* Both ledgers get the song, and the pass takes it for being there.
CopyRecorded(s) ==
  tick' = [BothLedgers(tick, tick.n, s) EXCEPT !.todo = @ \ {s},
                                              !.here = @ \cup {Match[tick.n][s]}]

CopyOne(s) ==
  LET i == tick.n
      p == tick.rows[i].playlist
  IN  /\ pc = "copy" /\ s \in tick.todo
      /\ CopyRecorded(s)
      /\ IF NotThereYet(s)
         THEN copy' = [copy EXCEPT ![i][p] = PlusOne(@, {Match[i][s]})] /\ Written(i)
         ELSE UNCHANGED <<copy, version>>
      /\ UNCHANGED <<source, made, pc, sync, row, call, history, counters>>

\* The add to the copy is carried out and answered with an error.
CopyResent(s) ==
  LET i == tick.n
      p == tick.rows[i].playlist
  IN  /\ pc = "copy" /\ s \in tick.todo /\ NotThereYet(s)
      /\ faults < MaxFaults /\ faults' = faults + 1
      /\ copy' = [copy EXCEPT ![i][p] = PlusOne(@, {Match[i][s]})]
      /\ Written(i)
      /\ resent' = [resent EXCEPT ![i] = @ \cup {s}]
      /\ UNCHANGED <<source, made, sync, row, tickVars, call, disturbed, leftOut, unrecorded, again>>
      /\ UNCHANGED <<taken, own, ownAdds, uncopied, changes, imports>>

\* The subscriber's service refuses the song: it is recorded all the same.
CopyRefused(s) ==
  LET i == tick.n
  IN  /\ pc = "copy" /\ s \in tick.todo /\ NotThereYet(s)
      /\ faults < MaxFaults /\ faults' = faults + 1
      /\ CopyRecorded(s)
      /\ uncopied' = [uncopied EXCEPT ![i] = @ \cup {s}]
      /\ UNCHANGED <<provVars, pc, sync, row, call, disturbed, leftOut, unrecorded, again, taken>>
      /\ UNCHANGED <<own, ownAdds, resent, changes, imports>>

SaveRow ==
  LET i   == tick.n
      old == tick.rows[i]
  IN  /\ \/ pc = "forward" /\ ~ForwardNeeded(i)
         \/ pc = "copy" /\ tick.todo = {}
      /\ UpdateRow(i, [status |-> "completed", playlist |-> old.playlist, ledger |-> old.ledger,
                       back |-> old.back, snapshot |-> Snapshot(i), error |-> FALSE,
                       ran |-> TRUE])
      /\ GoOn("forward", tick)
      /\ UNCHANGED <<provVars, sync, call, history, counters>>

Failed(old) == [old EXCEPT !.status = "failed", !.error = TRUE]

\* A provider call of one import throws; the tick goes on with the next.
ImportFails ==
  LET i == tick.n
  IN  /\ \/ pc = "copy"
         \/ pc = "back" /\ (tick.todo # {} \/ i \in Spotify)
      /\ faults < MaxFaults /\ faults' = faults + 1
      /\ UpdateRow(i, Failed(row[i]))
      /\ GoOn(IF pc = "back" THEN "prepare" ELSE "forward",
              [tick EXCEPT !.failed = TRUE, !.prepared[i] = FALSE])
      /\ unrecorded' = [unrecorded EXCEPT ![i] =
                           @ \cup (tick.rows[i].ledger \ row[i].ledger) \cup tick.added]
      /\ UNCHANGED <<provVars, sync, call, disturbed, leftOut, again, taken, own, ownAdds>>
      /\ UNCHANGED <<addVars, changes, imports>>

\* computeNextPollPlan, in scheduler intervals.
Backoff[streak \in 0..MaxWait] == IF streak = 0 THEN 1 ELSE 2 * Backoff[streak - 1]
IntervalUncapped(streak) == Backoff[streak]  \* mutant
Interval(streak) == Min({Backoff[streak], MaxWait})

SeenNow == SnapshotOf(0, source)  \* mutant
Seen == tick.snapshot

HadChange == SourceChanged \/ tick.grew \/ \E i \in Listed : HeardNew(i)

PlanNextPoll ==
  /\ pc = "plan"
  /\ LET quiet  == ~HadChange /\ ~tick.failed
         streak == IF quiet THEN Min({tick.streak + 1, MaxWait}) ELSE 0
     IN  sync' = [sync EXCEPT !.snapshot = Seen, !.streak = streak,
                              !.wait = Interval(streak), !.error = tick.failed]
  /\ pc' = "idle" /\ tick' = IdleTick
  /\ UNCHANGED <<provVars, row, call, history, counters>>

\* A listing throws: the tick gives this synced playlist up until the next poll.
TickFails ==
  /\ pc \in {"snapshot", "list", "recipients", "listLate"}
  /\ faults < MaxFaults /\ faults' = faults + 1
  /\ sync' = [sync EXCEPT !.streak = 0, !.wait = Interval(0), !.error = TRUE]
  /\ pc' = "idle" /\ tick' = IdleTick
  /\ UNCHANGED <<provVars, row, call, history, changes, imports>>

-----------------------------------------------------------------------------
Clock ==
  /\ sync.wait > 0
  /\ sync' = [sync EXCEPT !.wait = @ - 1]
  /\ UNCHANGED <<provVars, row, tickVars, call, history, counters>>

\* The API process ends; the tick and the imports it was running are gone.
Restart ==
  /\ faults < MaxFaults /\ faults' = faults + 1
  /\ pc' = "idle" /\ tick' = IdleTick
  /\ call' = [i \in Subs |-> IdleCall]
  /\ disturbed' = [i \in Subs |-> disturbed[i] \/ pc # "idle"]
  /\ leftOut' = [i \in Subs |-> leftOut[i] \cup Matchable(i, call[i].listed)]
  /\ UNCHANGED <<provVars, sync, row, unrecorded, again, taken, own, ownAdds, addVars>>
  /\ UNCHANGED <<changes, imports>>

People ==
  \/ \E s \in OwnerSongs : OwnerAddsOrRemoves(s)
  \/ \E i \in Subs : \E s \in Songs : SubscriberAddsOrRemoves(i, s)
  \/ \E m \in Modes : SetMode(m)
  \/ \E r \in BOOLEAN : SetRevoked(r)
  \/ \E i \in Subs : Unsubscribe(i) \/ ImportBegin(i)

ImportStep(i) == ImportOpen(i) \/ ImportAdd(i) \/ ImportEnd(i)

TickStep ==
  \/ ReadSnapshot \/ ListSource \/ ReadRecipient \/ ListSourceLate \/ StoreSnapshot
  \/ SkipImport \/ PrepareForward \/ StartBack \/ EndBack
  \/ \E s \in Songs : BackOne(s) \/ CopyOne(s)
  \/ StartForward \/ SaveRow \/ PlanNextPoll

Fault ==
  \/ TickFails \/ ImportFails \/ Restart
  \/ \E i \in Subs : ImportThrows(i) \/ ImportAddResent(i)
  \/ \E s \in Songs : BackResent(s) \/ BackRefused(s) \/ CopyResent(s) \/ CopyRefused(s)

Next == People \/ Tick \/ TickStep \/ Clock \/ Fault \/ \E i \in Subs : ImportStep(i)

Spec == Init /\ [][Next]_vars

\* The scheduler's interval and the event loop.
FairSpec ==
  /\ Spec
  /\ WF_vars(Tick) /\ WF_vars(TickStep) /\ WF_vars(Clock)
  /\ \A i \in Subs : WF_vars(ImportStep(i))

-----------------------------------------------------------------------------
(***************************************************************************)
(* Properties                                                              *)
(***************************************************************************)
Snapshots == Nat \X SUBSET (Songs \cup {NoSong})

RowType ==
  [status : {"none", "pending", "completed", "failed"}, playlist : 0..MaxImports + 1,
   ledger : SUBSET Songs, back : SUBSET Songs, snapshot : Snapshots,
   error : BOOLEAN, ran : BOOLEAN]

\* Every variable stays within its type, and a row exists with a playlist or
\* not at all.
TypeOK ==
  /\ source \in [Songs -> 0..MaxCopies]
  /\ copy \in [Subs -> [Playlists -> [Songs -> 0..MaxCopies]]]
  /\ made \in [Subs -> 0..MaxImports + 1]
  /\ version \in [{0} \cup Subs -> Nat]
  /\ sync \in [mode : Modes, revoked : BOOLEAN, snapshot : Snapshots,
               streak : 0..MaxWait, wait : 0..MaxWait, error : BOOLEAN]
  /\ row \in [Subs -> RowType]
  /\ \A i \in Subs : Subscribed(i) <=> row[i].playlist # 0
  /\ pc \in {"idle", "snapshot", "list", "recipients", "listLate", "store", "prepare", "back",
             "forward", "copy", "plan"}
  /\ disturbed \in [Subs -> BOOLEAN]
  /\ leftOut \in [Subs -> SUBSET Songs]
  /\ taken \in [Subs -> SUBSET Songs]
  /\ unrecorded \in [Subs -> SUBSET Songs]
  /\ again \in [Subs -> SUBSET Songs]
  /\ own \in [Subs -> SUBSET Songs]
  /\ ownAdds \in [{0} \cup Subs -> SUBSET Songs]
  /\ resent \in [{0} \cup Subs -> SUBSET Songs]
  /\ uncopied \in [Subs -> SUBSET Songs]

\* Once the scheduler has stored the owner's list as seen, nobody looks at it
\* again until it changes.  So by then every subscriber's row must account for
\* every song that can be had there, except what an import reported as left
\* out, and except rows whose import ran during a tick, or a tick that was cut
\* off: those really are forgotten.
Resting(i) ==
  /\ pc = "idle" /\ call[i].at = "idle"
  /\ row[i].status = "completed" /\ ~row[i].error
  /\ SnapshotOf(0, source) = sync.snapshot

SeenMeansCopied ==
  \A i \in Subs : Resting(i) /\ ~disturbed[i] =>
    Matchable(i, Held(source)) \subseteq row[i].ledger \cup leftOut[i]

\* A subscriber's copy gets no song twice, however imports, ticks and the
\* subscriber's own changes follow each other, unless an import and a tick ran
\* together, the subscriber added that song at that very moment, or an import
\* copied what a tick or import that ended before it recorded it had copied, what
\* the subscriber had put there, or two songs matched to one (an import trusts
\* the ledger and does not look at the copy), or a request that had added the
\* song was answered with an error and sent again.
NoDoubles ==
  \A i \in Subs : ~disturbed[i] =>
    \A p \in Playlists : \A m \in Songs : copy[i][p][m] > 1 =>
      m \in {Match[i][s] : s \in again[i] \cup resent[i]} \cup ownAdds[i]

\* A song that is another on the way back: it comes as one the source does not have.
Echoes(i) == {Back[i][m] : m \in {t \in Songs : Back[i][t] # t}}

\* The copy back to the owner's playlist adds no song the owner already has,
\* whichever subscriber it comes from, unless it comes back as an echo, the
\* owner adds it at that very moment, the pass that had just added it failed and
\* the next subscriber's pass worked from the listing made before, or a request
\* that had added it was answered with an error and sent again.
OwnerListNotDoubled ==
  \A s \in Songs : source[s] > 1 =>
    \/ s \in ownAdds[0] \cup resent[0]
    \/ \E i \in Subs : s \in Echoes(i) \cup {Back[i][t] : t \in unrecorded[i]}

\* A song of the owner's that a row's ledger has as copied is in the copy,
\* unless its subscriber took it out or an import reported it as left out.
LedgerMeansCopied ==
  \A i \in Subs : \A s \in Matchable(i, row[i].ledger \cap OwnerSongs) \ leftOut[i] :
    Match[i][s] \in Held(copy[i][row[i].playlist]) \cup taken[i]

\* The copy has the song, or its match, unless the subscriber took it out.
InCopy(i, s) == {s, Match[i][s]} \cap (Held(copy[i][row[i].playlist]) \cup taken[i]) # {}

\* A song the owner keeps gets into the copy of every subscriber who stays, while
\* the link stays, whatever failed calls, changes of mode and poll intervals do.
\* Not if an import reported it as left out or ran during a tick, the service
\* refused the song without a word, or the tick took an empty ledger for one from
\* before there were ledgers: then it is recorded as copied and never will be.
Reached(i, s) ==
  Subscribed(i) /\ ~sync.revoked /\ source[s] > 0 /\ Match[i][s] # NoSong
    => \/ InCopy(i, s)
       \/ s \in leftOut[i] \/ Match[i][s] \in {Match[i][t] : t \in uncopied[i]}
       \/ disturbed[i]

AdditionsArrive == \A i \in Subs : \A s \in OwnerSongs : <>[]Reached(i, s)
=============================================================================
