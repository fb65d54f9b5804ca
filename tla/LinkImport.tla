----------------------------- MODULE LinkImport -----------------------------
(***************************************************************************)
(* One import of a link or a file: its external_imports row and the run    *)
(* that goes on in the API process after the request was answered.         *)
(*                                                                         *)
(* The tracks of the source are numbered; what the provider's search finds *)
(* for a track is one of its songs.                                        *)
(***************************************************************************)
EXTENDS Naturals, Sequences, FiniteSets

CONSTANTS
  LinkSongs,      \* of the provider
  MaxLinkTracks,  \* EXTERNAL_IMPORT_MAX_TRACKS
  FlushEvery,     \* PROGRESS_FLUSH_EVERY
  MaxLinkFaults   \* bound on calls that fail and on restarts

ASSUME LinkBounds ==
  /\ MaxLinkTracks \in Nat \ {0} /\ FlushEvery \in Nat \ {0} /\ MaxLinkFaults \in Nat

VARIABLES
  row,         \* external_imports
  linkRun,     \* the run, with its locals
  linkTracks,  \* the source: how many tracks it has
  playlist,    \* the playlist made for it, in order
  linkDropped, \* history: songs counted as added that the provider refused
  linkUnsure,  \* history: songs that landed by an add answered as failed
  linkTold,    \* history: what excuses the properties
  linkFaults

linkVars == <<row, linkRun, linkTracks, playlist, linkDropped, linkUnsure, linkTold, linkFaults>>

Lengths == 0..MaxLinkTracks

NoRun == [at |-> "none", i |-> 0, found |-> {}, added |-> {}, matched |-> 0, skipped |-> 0]

LinkInit ==
  /\ row = [status |-> "none", file |-> FALSE, total |-> 0, matched |-> 0, skipped |-> 0]
  /\ linkRun = NoRun
  /\ linkTracks = 0
  /\ playlist = <<>> /\ linkDropped = {} /\ linkUnsure = {}
  /\ linkTold = {} /\ linkFaults = 0

At(s) == [linkRun EXCEPT !.at = s]
Faulty == linkFaults < MaxLinkFaults /\ linkFaults' = linkFaults + 1

\* POST /syncs/external-imports and .../file.  An empty file is refused; the
\* length of a link's source is what its first page says.
CreateImport ==
  /\ row.status = "none"
  /\ \E n \in Lengths, file \in BOOLEAN :
       /\ file => n > 0
       /\ row' = [row EXCEPT !.status = "pending", !.file = file, !.total = n]
       /\ linkTracks' = n
  /\ linkRun' = At("start")
  /\ UNCHANGED <<playlist, linkDropped, linkUnsure, linkTold, linkFaults>>

\* findById, and the status that keeps a second run out.
StartImport ==
  /\ linkRun.at = "start"
  /\ IF row.status \in {"completed", "running"} THEN linkRun' = NoRun /\ UNCHANGED row
     ELSE linkRun' = At("fetch") /\ row' = [row EXCEPT !.status = "running"]
  /\ UNCHANGED <<linkTracks, playlist, linkDropped, linkUnsure, linkTold, linkFaults>>

\* A link is read again: it may have grown or shrunk since.
ReadTracks ==
  /\ linkRun.at = "fetch"
  /\ IF row.file THEN UNCHANGED linkTracks ELSE linkTracks' \in Lengths
  /\ row' = [row EXCEPT !.total = linkTracks']
  /\ linkRun' = At("make")
  /\ UNCHANGED <<playlist, linkDropped, linkUnsure, linkTold, linkFaults>>

\* createRecipientPlaylist, or a provider that cannot make one.
MakePlaylist ==
  /\ linkRun.at = "make"
  /\ \/ linkRun' = At("next") /\ UNCHANGED row
     \/ linkRun' = NoRun /\ row' = [row EXCEPT !.status = "failed"]
  /\ UNCHANGED <<linkTracks, playlist, linkDropped, linkUnsure, linkTold, linkFaults>>

\* matchedCount and skippedCount are written every so many tracks.
Flushed(r) ==
  IF r.i % FlushEvery = 0 THEN [row EXCEPT !.matched = r.matched, !.skipped = r.skipped] ELSE row

Counted(r) ==
  /\ linkRun' = r
  /\ row' = Flushed(r)

Skip == [linkRun EXCEPT !.at = "next", !.i = @ + 1, !.found = {}, !.skipped = @ + 1]

AddedNever(song) == FALSE  \* mutant
AlreadyAdded(song) == song \in linkRun.added

\* findProviderMatch: no song, one that was added for another track, or one to add.
Match ==
  /\ linkRun.at = "next" /\ linkRun.i < linkTracks
  /\ \/ Counted(Skip)
     \/ \E song \in LinkSongs :
          IF AlreadyAdded(song) THEN Counted(Skip)
          ELSE linkRun' = [linkRun EXCEPT !.at = "add", !.found = {song}] /\ UNCHANGED row
  /\ UNCHANGED <<linkTracks, playlist, linkDropped, linkUnsure, linkTold, linkFaults>>

Lands(song) == playlist' = Append(playlist, song)

\* addTracks is tolerant: a song the provider refuses is dropped without a word,
\* and what addedTrackIds says of it is not read, so it counts as matched.
AddSong ==
  /\ linkRun.at = "add"
  /\ \E song \in linkRun.found :
       /\ \/ Lands(song) /\ UNCHANGED linkDropped
          \/ linkDropped' = linkDropped \cup {song} /\ UNCHANGED playlist
       /\ Counted([linkRun EXCEPT !.at = "next", !.i = @ + 1, !.found = {},
                                  !.added = @ \cup {song}, !.matched = @ + 1])
  /\ UNCHANGED <<linkTracks, linkUnsure, linkTold, linkFaults>>

\* The song lands and the answer is an error that withProviderRetry, or the
\* second round of one request for each song, sends the add again for.
AddResent ==
  /\ linkRun.at = "add" /\ Faulty
  /\ \E song \in linkRun.found : Lands(song) /\ linkUnsure' = linkUnsure \cup {song}
  /\ UNCHANGED <<row, linkRun, linkTracks, linkDropped, linkTold>>

\* The add fails, landed or not: the track counts as skipped.
AddFails ==
  /\ linkRun.at = "add" /\ Faulty
  /\ Counted(Skip)
  /\ \/ UNCHANGED <<playlist, linkUnsure>>
     \/ \E song \in linkRun.found : Lands(song) /\ linkUnsure' = linkUnsure \cup {song}
  /\ UNCHANGED <<linkTracks, linkDropped, linkTold>>

Finish ==
  /\ linkRun.at = "next" /\ linkRun.i = linkTracks
  /\ linkRun' = NoRun
  /\ row' = [row EXCEPT !.status = "completed", !.matched = linkRun.matched,
                        !.skipped = linkRun.skipped]
  /\ UNCHANGED <<linkTracks, playlist, linkDropped, linkUnsure, linkTold, linkFaults>>

\* The source, the provider or the database refuses a call outside the loop's
\* own catch.
ToReportNothing == NoRun  \* mutant
ToReport == At("report")

ImportError ==
  /\ linkRun.at \in {"start", "fetch", "make", "next"} /\ Faulty
  /\ linkRun' = ToReport
  /\ UNCHANGED <<row, linkTracks, playlist, linkDropped, linkUnsure, linkTold>>

Report ==
  /\ linkRun.at = "report"
  /\ linkRun' = NoRun
  /\ row' = [row EXCEPT !.status = "failed"]
  /\ UNCHANGED <<linkTracks, playlist, linkDropped, linkUnsure, linkTold, linkFaults>>

\* The process stops, or the write of the report fails: nothing runs it again.
ImportLost ==
  /\ linkRun.at # "none" /\ Faulty
  /\ linkRun' = NoRun
  /\ linkTold' = linkTold \cup {"lost run"}
  /\ UNCHANGED <<row, linkTracks, playlist, linkDropped, linkUnsure>>

-----------------------------------------------------------------------------
LinkRun == \/ StartImport \/ ReadTracks \/ MakePlaylist \/ Match \/ AddSong \/ Finish \/ Report

LinkNext == CreateImport \/ LinkRun \/ AddResent \/ AddFails \/ ImportError \/ ImportLost

LinkSpec == LinkInit /\ [][LinkNext]_linkVars

\* The run goes on while its process lives.
LinkFairness == WF_linkVars(LinkRun)

-----------------------------------------------------------------------------
LinkTypeOK ==
  /\ row \in [status : {"none", "pending", "running", "completed", "failed"}, file : BOOLEAN,
              total : Lengths, matched : Lengths, skipped : Lengths]
  /\ linkRun \in [at : {"none", "start", "fetch", "make", "next", "add", "report"}, i : Lengths,
                  found : SUBSET LinkSongs, added : SUBSET LinkSongs,
                  matched : Lengths, skipped : Lengths]
  /\ linkTracks \in Lengths /\ playlist \in Seq(LinkSongs)
  /\ linkDropped \subseteq LinkSongs /\ linkUnsure \subseteq LinkSongs
  /\ linkTold \subseteq {"lost run"} /\ linkFaults \in 0..MaxLinkFaults

\* The songs the playlist has, or was refused.
Known == {playlist[i] : i \in DOMAIN playlist} \cup linkDropped

\* The progress shown claims no song but one the playlist has got or the
\* provider refused in silence, and the counts of a completed import account for
\* every track once and for every song but those whose add was answered as
\* failed: of these alone the playlist may hold two, or one that was skipped.
CountsAreTrue ==
  /\ row.matched + row.skipped <= row.total /\ row.matched <= Cardinality(Known)
  /\ \A i, j \in DOMAIN playlist :
       playlist[i] = playlist[j] /\ playlist[i] \notin linkUnsure => i = j
  /\ row.status = "completed" =>
       row.matched + row.skipped = row.total /\ Cardinality(Known \ linkUnsure) <= row.matched

\* An import that was accepted ends, completed or failed, unless its process
\* stopped or the database refused the last word; then it is "running" for ever.
ImportSettles ==
  row.status = "pending" ~> (row.status \in {"completed", "failed"} \/ "lost run" \in linkTold)
=============================================================================
