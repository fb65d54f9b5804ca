---------------------------- MODULE ImportEngine ----------------------------
(***************************************************************************)
(* importSyncForRecipient: copy the source playlist of one sync into a     *)
(* playlist of one recipient, resumably.  What is known of earlier calls   *)
(* is the playlist_sync_imports row: the recipient's playlist and the      *)
(* ledger of source tracks already copied.  The transfer worker and the    *)
(* link import route call it, as often as they like.                       *)
(*                                                                         *)
(* A source track has a fingerprint (Fp) and a best match at the recipient *)
(* (Match); neither need be unique.  A playlist is what it holds of each   *)
(* recipient track, including copies the program does not know of.         *)
(***************************************************************************)
EXTENDS Naturals, Sequences, FiniteSets, Functions

CONSTANTS
  Callers,        \* who may be inside importSyncForRecipient at once
  Providers,      \* kinds of recipient: "youtube", "tidal", "chunked"
  T,              \* source tracks, in playlist order
  Fp,             \* buildTrackFingerprint of each
  Match,          \* the recipient track pickBestTrackMatch settles on
  ChunkSize,      \* tracks per add request of Spotify and Apple Music
  MaxCalls,       \* bound on calls
  MaxPlaylists,   \* bound on playlists created
  MaxCrashes,     \* bound on crashes
  MaxLost         \* bound on lost answers

Tracks       == 1..T
Fingerprints == {Fp[t] : t \in Tracks}
Matches      == {Match[t] : t \in Tracks}
Playlists    == 1..MaxPlaylists

ASSUME ProvidersAssumption == Providers \subseteq {"youtube", "tidal", "chunked"}
ASSUME TracksAssumption == /\ T \in Nat
                           /\ DOMAIN Fp = Tracks
                           /\ DOMAIN Match = Tracks
ASSUME SizesAssumption == /\ ChunkSize \in Nat \ {0}
                          /\ MaxCalls \in Nat
                          /\ MaxPlaylists \in Nat
                          /\ MaxCrashes \in Nat
                          /\ MaxLost \in Nat

VARIABLES
  provider,     \* the recipient's provider
  made,         \* playlists created at the provider, numbered from 1
  copies,       \* what each of them holds of each recipient track
  rowPlaylist,  \* recipient_provider_playlist_id; 0 is null, or no row
  ledger,       \* synced_source_track_fingerprints
  rowStatus,    \* status of the row; "none" without one
  matched,      \* matched_count
  skipped,      \* skipped_count
  pc,           \* where a caller is
  found,        \* the source tracks its searches found a match for
  target,       \* recipientProviderPlaylistId
  synced,       \* syncedSourceTrackFingerprints, the ledger it will write
  todo,         \* source tracks it still has to add
  pending,      \* pendingFingerprintsByTrackId
  singles,      \* tracks of a refused chunk left to add one by one
  calls, crashes, lost,  \* so far
  overlapped,   \* history: a call began while another was under way
  replaced      \* history: a first call stored its playlist over another's

provVars == <<provider, made, copies>>
rowVars  == <<rowPlaylist, ledger, rowStatus, matched, skipped>>
callVars == <<found, target, synced, todo, pending, singles>>
history  == <<overlapped, replaced>>
faults   == <<crashes, lost, history>>
vars     == <<provVars, rowVars, pc, callVars, calls, faults>>

NoPending == [m \in Matches |-> <<>>]

Init ==
  /\ provider \in Providers
  /\ made = 0
  /\ copies = [p \in Playlists |-> [m \in Matches |-> 0]]
  /\ rowPlaylist = 0 /\ ledger = <<>> /\ rowStatus = "none"
  /\ matched = 0 /\ skipped = 0
  /\ pc = [c \in Callers |-> "idle"]
  /\ found = [c \in Callers |-> {}]
  /\ target = [c \in Callers |-> 0]
  /\ synced = [c \in Callers |-> <<>>]
  /\ todo = [c \in Callers |-> <<>>]
  /\ pending = [c \in Callers |-> NoPending]
  /\ singles = [c \in Callers |-> 0]
  /\ calls = 0 /\ crashes = 0 /\ lost = 0
  /\ overlapped = FALSE /\ replaced = FALSE

-----------------------------------------------------------------------------
(***************************************************************************)
(* A call, up to the playlist it adds to                                   *)
(***************************************************************************)
Goto(c, label) == pc' = [pc EXCEPT ![c] = label]

\* The source is listed and every track searched; a search that fails only
\* leaves its track without a match.
Begin(c) ==
  /\ pc[c] = "idle" /\ calls < MaxCalls
  /\ calls' = calls + 1
  /\ \E f \in SUBSET Tracks : found' = [found EXCEPT ![c] = f]
  /\ Goto(c, "read")
  /\ overlapped' = (overlapped \/ \E d \in Callers \ {c} : pc[d] # "idle")
  /\ UNCHANGED <<provVars, rowVars, target, synced, todo, pending, singles>>
  /\ UNCHANGED <<crashes, lost, replaced>>

\* The numbers in s, in ascending order.
InOrder(s) ==
  CHOOSE f \in Bijection(1..Cardinality(s), s) : \A i, j \in DOMAIN f : i < j => f[i] < f[j]

DistinctForgotten(s) == <<>>  \* mutant

\* The ledger as the Set the code makes of it, in first-seen order.
Distinct(s) ==
  LET firsts == InOrder({i \in DOMAIN s : \A j \in 1..i - 1 : s[j] # s[i]})
  IN  [k \in DOMAIN firsts |-> s[firsts[k]]]

\* Where among the source tracks ts those are that match m, and how many.
Positions(ts, m) == {k \in DOMAIN ts : Match[ts[k]] = m}
Count(ts, m)     == Cardinality(Positions(ts, m))

\* The fingerprints of the tracks to add, queued by recipient track.
FpQueues(ts) ==
  [m \in Matches |->
    LET mine == InOrder(Positions(ts, m))
    IN  [k \in DOMAIN mine |-> Fp[ts[mine[k]]]]]

\* tracksToAdd: the tracks with a match that are not recorded as synced.
MissingAll(c, known) == found[c]  \* mutant
Missing(c, known) == {t \in found[c] : Fp[t] \notin Range(known)}

\* findImport: what an earlier call recorded as synced is left alone.
ReadImport(c) ==
  /\ pc[c] = "read"
  /\ LET known == Distinct(ledger)
         work  == InOrder(Missing(c, known))
     IN  /\ synced' = [synced EXCEPT ![c] = known]
         /\ todo' = [todo EXCEPT ![c] = work]
         /\ pending' = [pending EXCEPT ![c] = FpQueues(work)]
  /\ target' = [target EXCEPT ![c] = rowPlaylist]
  /\ Goto(c, IF rowPlaylist = 0 THEN "create" ELSE "add")
  /\ UNCHANGED <<provVars, rowVars, found, singles, calls, faults>>

\* The provider creates the playlist, or refuses and the call throws.
CreatePlaylist(c) ==
  /\ pc[c] = "create"
  /\ \/ /\ made < MaxPlaylists
        /\ made' = made + 1
        /\ target' = [target EXCEPT ![c] = made + 1]
        /\ Goto(c, "persist")
     \/ /\ Goto(c, "end")
        /\ UNCHANGED <<made, target>>
  /\ UNCHANGED <<provider, copies, rowVars, found, synced, todo, pending, singles>>
  /\ UNCHANGED <<calls, faults>>

PersistStatus(c) ==  \* mutant
  /\ pc[c] = "persist"
  /\ rowStatus' = "pending"
  /\ matched' = 0 /\ skipped' = 0
  /\ Goto(c, "add")
  /\ UNCHANGED <<provVars, rowPlaylist, ledger, callVars, calls, faults>>

\* upsertImport before any track is added: the ledger is left as it is, the
\* counts are those findImport returned, 0 when there was no row.
PersistPlaylist(c) ==
  /\ pc[c] = "persist"
  /\ rowPlaylist' = target[c]
  /\ rowStatus' = "pending"
  /\ matched' = 0 /\ skipped' = 0
  /\ Goto(c, "add")
  /\ replaced' = (replaced \/ rowPlaylist # 0)
  /\ UNCHANGED <<provVars, ledger, callVars, calls, crashes, lost, overlapped>>

-----------------------------------------------------------------------------
(***************************************************************************)
(* Adding the tracks                                                       *)
(***************************************************************************)
\* The provider adds the tracks ts to the caller's playlist.
Deliver(c, ts) ==
  copies' = [copies EXCEPT ![target[c]] = [m \in Matches |-> @[m] + Count(ts, m)]]

\* recordAdded: each added id takes the next fingerprint waiting for it.
Record(c, ts) ==
  /\ synced' = [synced EXCEPT ![c] = @ \o
       [k \in DOMAIN ts |->
         LET m == Match[ts[k]]
         IN  pending[c][m][Count(SubSeq(ts, 1, k), m)]]]
  /\ pending' = [pending EXCEPT ![c] = [m \in Matches |->
       SubSeq(@[m], Count(ts, m) + 1, Len(@[m]))]]

Adding(c, kind) == pc[c] = "add" /\ provider = kind /\ todo[c] # <<>>

LandRecordingAll(c, n) ==  \* mutant
  /\ Deliver(c, SubSeq(todo[c], 1, n))
  /\ Record(c, todo[c])
  /\ todo' = [todo EXCEPT ![c] = <<>>]

\* The first n tracks of todo land and are recorded.
Land(c, n) ==
  LET ts == SubSeq(todo[c], 1, n)
  IN  /\ Deliver(c, ts)
      /\ Record(c, ts)
      /\ todo' = [todo EXCEPT ![c] = SubSeq(@, n + 1, Len(@))]

Drop(c) == todo' = [todo EXCEPT ![c] = Tail(@)]

\* YouTube inserts one video per call; a missing one is passed over, any other
\* error that outlasts its retries ends the loop.
InsertVideo(c) ==
  /\ Adding(c, "youtube")
  /\ \/ /\ Land(c, 1)
        /\ UNCHANGED pc
     \/ /\ Drop(c)
        /\ UNCHANGED <<copies, synced, pending, pc>>
     \/ /\ Goto(c, "checkpoint")
        /\ UNCHANGED <<copies, synced, pending, todo>>
  /\ UNCHANGED <<provider, made, rowVars, found, target, singles, calls, faults>>

CheckpointCounts(c) ==  \* mutant
  /\ pc[c] = "checkpoint"
  /\ rowPlaylist' = target[c]
  /\ rowStatus' = "pending"
  /\ matched' = Len(synced[c])
  /\ skipped' = IF Len(synced[c]) < T THEN T - Len(synced[c]) ELSE 0
  /\ Goto(c, "end")
  /\ UNCHANGED <<provVars, ledger, callVars, calls, faults>>

\* The catch of the YouTube branch: write down what did land, and rethrow.
Checkpoint(c) ==
  /\ pc[c] = "checkpoint"
  /\ rowPlaylist' = target[c]
  /\ ledger' = synced[c]
  /\ rowStatus' = "pending"
  /\ matched' = Len(synced[c])
  /\ skipped' = IF Len(synced[c]) < T THEN T - Len(synced[c]) ELSE 0
  /\ Goto(c, "end")
  /\ UNCHANGED <<provVars, callVars, calls, faults>>

\* TIDAL takes all tracks in one request, or none: that error is thrown.
PostTidal(c) ==
  /\ Adding(c, "tidal")
  /\ \/ /\ Land(c, Len(todo[c]))
        /\ UNCHANGED pc
     \/ /\ Goto(c, "end")
        /\ UNCHANGED <<copies, synced, pending, todo>>
  /\ UNCHANGED <<provider, made, rowVars, found, target, singles, calls, faults>>

ChunkLen(c) == IF Len(todo[c]) < ChunkSize THEN Len(todo[c]) ELSE ChunkSize

\* Spotify and Apple Music take a chunk per request; a refused chunk is added
\* again track by track.
PostChunk(c) ==
  /\ Adding(c, "chunked") /\ singles[c] = 0
  /\ \/ /\ Land(c, ChunkLen(c))
        /\ UNCHANGED singles
     \/ /\ singles' = [singles EXCEPT ![c] = ChunkLen(c)]
        /\ UNCHANGED <<copies, synced, pending, todo>>
  /\ UNCHANGED <<provider, made, rowVars, pc, found, target, calls, faults>>

PostSingleTooMany(c) ==  \* mutant
  /\ Adding(c, "chunked") /\ singles[c] >= 0
  /\ singles' = [singles EXCEPT ![c] = @ - 1]
  /\ Land(c, 1) \/ (Drop(c) /\ UNCHANGED <<copies, synced, pending>>)
  /\ UNCHANGED <<provider, made, rowVars, pc, found, target, calls, faults>>

\* One track of a refused chunk: it lands, or is left out without an error.
PostSingle(c) ==
  /\ Adding(c, "chunked") /\ singles[c] > 0
  /\ singles' = [singles EXCEPT ![c] = @ - 1]
  /\ Land(c, 1) \/ (Drop(c) /\ UNCHANGED <<copies, synced, pending>>)
  /\ UNCHANGED <<provider, made, rowVars, pc, found, target, calls, faults>>

\* Nothing is left to add: the row is completed with the new ledger.
Finish(c) ==
  /\ pc[c] = "add" /\ todo[c] = <<>>
  /\ rowPlaylist' = target[c]
  /\ ledger' = synced[c]
  /\ rowStatus' = "completed"
  /\ matched' = Len(synced[c])
  /\ skipped' = IF Len(synced[c]) < T THEN T - Len(synced[c]) ELSE 0
  /\ Goto(c, "end")
  /\ UNCHANGED <<provVars, callVars, calls, faults>>

Forget(c) ==
  /\ Goto(c, "idle")
  /\ found' = [found EXCEPT ![c] = {}]
  /\ target' = [target EXCEPT ![c] = 0]
  /\ synced' = [synced EXCEPT ![c] = <<>>]
  /\ todo' = [todo EXCEPT ![c] = <<>>]
  /\ pending' = [pending EXCEPT ![c] = NoPending]
  /\ singles' = [singles EXCEPT ![c] = 0]

\* The call has returned, or thrown: nothing of it is left but the row.
End(c) ==
  /\ pc[c] = "end"
  /\ Forget(c)
  /\ UNCHANGED <<provVars, rowVars, calls, faults>>

-----------------------------------------------------------------------------
(***************************************************************************)
(* Faults                                                                  *)
(***************************************************************************)
\* The process dies, or a database call rejects and the call throws.
Crash(c) ==
  /\ crashes < MaxCrashes
  /\ crashes' = crashes + 1
  /\ pc[c] \notin {"idle", "end"}
  /\ Forget(c)
  /\ UNCHANGED <<provVars, rowVars, calls, lost, history>>

\* The provider adds what one request asked for, but its answer is an error.
\* YouTube and chunk requests are sent again; TIDAL's error is thrown.
LoseAnswer(c) ==
  /\ lost < MaxLost
  /\ lost' = lost + 1
  /\ pc[c] = "add" /\ todo[c] # <<>>
  /\ CASE provider = "youtube" -> Deliver(c, <<Head(todo[c])>>) /\ UNCHANGED pc
       [] provider = "tidal"   -> Deliver(c, todo[c]) /\ Goto(c, "end")
       [] provider = "chunked" ->
            /\ Deliver(c, SubSeq(todo[c], 1, IF singles[c] > 0 THEN 1 ELSE ChunkLen(c)))
            /\ UNCHANGED pc
  /\ UNCHANGED <<provider, made, rowVars, callVars, calls, crashes, history>>

-----------------------------------------------------------------------------
Step(c) ==
  \/ ReadImport(c) \/ CreatePlaylist(c) \/ PersistPlaylist(c)
  \/ InsertVideo(c) \/ Checkpoint(c) \/ PostTidal(c)
  \/ PostChunk(c) \/ PostSingle(c) \/ Finish(c) \/ End(c)

Next == \E c \in Callers : Begin(c) \/ Step(c) \/ Crash(c) \/ LoseAnswer(c)

Spec == Init /\ [][Next]_vars

-----------------------------------------------------------------------------
(***************************************************************************)
(* Properties                                                              *)
(***************************************************************************)
Labels == {"idle", "read", "create", "persist", "add", "checkpoint", "end"}

TypeOK ==
  /\ provider \in Providers
  /\ made \in 0..MaxPlaylists
  /\ copies \in [Playlists -> [Matches -> Nat]]
  /\ rowPlaylist \in 0..made
  /\ ledger \in Seq(Fingerprints)
  /\ rowStatus \in {"none", "pending", "completed"}
  /\ matched \in Nat /\ skipped \in 0..T
  /\ pc \in [Callers -> Labels]
  /\ found \in [Callers -> SUBSET Tracks]
  /\ target \in [Callers -> 0..made]
  /\ synced \in [Callers -> Seq(Fingerprints)]
  /\ todo \in [Callers -> Seq(Tracks)]
  /\ pending \in [Callers -> [Matches -> Seq(Fingerprints)]]
  /\ singles \in [Callers -> 0..ChunkSize]
  /\ calls \in 0..MaxCalls /\ crashes \in 0..MaxCrashes /\ lost \in 0..MaxLost
  /\ {overlapped, replaced} \subseteq BOOLEAN

Held(p) == SumFunction(copies[p])

\* A crash never orphans a playlist that has tracks in it: the row names the
\* playlist before the first track is added, so what a retry cannot find is
\* empty.  Two calls at once may each create one.
OrphansAreEmpty ==
  ~overlapped => \A p \in Playlists, m \in Matches : p # rowPlaylist => copies[p][m] = 0

\* An import never claims more than the playlist it names received, whatever
\* calls run at once, unless one of them stored the playlist it had created
\* over another's and under its ledger.
LedgerIsEarned ==
  ~replaced => Len(ledger) <= (IF rowPlaylist = 0 THEN 0 ELSE Held(rowPlaylist))

\* Progress is never forgotten: a source track recorded as synced stays so,
\* through failures, crashes and later calls.  Of two calls at once the later
\* writes the ledger it read first.
LedgerOnlyGrows == [][~overlapped => Range(ledger) \subseteq Range(ledger')]_ledger

\* How many copies of a recipient track the source playlist asks for.
Wanted(m) == Cardinality({t \in Tracks : Match[t] = m})

\* No recipient track is added more often than the source asks for it.
NeverTwice == \A p \in Playlists, m \in Matches : copies[p][m] <= Wanted(m)

Calm == crashes = 0 /\ lost = 0 /\ ~overlapped

\* As long as no process dies, no answer is lost and no two calls overlap,
\* however often a call fails and is repeated: one playlist, and no track in it twice.
RetriesTopUp == Calm => made <= 1 /\ NeverTwice

AtRest == \A c \in Callers : pc[c] = "idle"

\* Between calls, as long as nothing of that happens, the ledger
\* is the whole truth about a source without twins: as many of the source
\* tracks of a recipient track are recorded as there are copies of it.
NothingForgotten ==
  AtRest /\ Calm /\ rowPlaylist # 0 /\ Cardinality(Fingerprints) = T =>
    \A m \in Matches :
      Cardinality({t \in Tracks : Match[t] = m /\ Fp[t] \in Range(ledger)})
        = copies[rowPlaylist][m]

\* Twins count one each: between calls, a completed import counts as matched
\* what its playlist holds.
TwinsCount ==
  AtRest /\ rowStatus = "completed" => matched = Held(rowPlaylist)
=============================================================================
