--------------------------- MODULE EventPlaylist ---------------------------
(***************************************************************************)
(* An event playlist: the events row, its event_tracks, the cover image,   *)
(* the playlist at the host's service, and the requests of guests and host *)
(* that are under way on them.  A slot is one request being answered, by   *)
(* whatever process; every step of it ends at an await.                    *)
(*                                                                         *)
(* A guest's request names the current link: any other answers 404.        *)
(***************************************************************************)
EXTENDS Naturals, FiniteSets

CONSTANTS
  Slots,        \* requests answered at a time
  Songs,
  NoSong,
  FirstSongs,   \* what the playlist holds at first
  Services,     \* where the host may host
  MaxRequests,  \* bound on the requests that change something
  MaxEdits,     \* bound on what the host does in the service's own app
  MaxFaults,    \* bound on requests cut off, refused, or answered an error in vain
  MaxTogether   \* bound on the three together

ASSUME SongsAssumption == FirstSongs \subseteq Songs /\ NoSong \notin Songs
ASSUME ServicesAssumption ==
  Services \subseteq {"spotify", "tidal", "apple", "youtube"} /\ Services # {}
ASSUME EventBounds ==
  MaxRequests \in Nat \ {0} /\ {MaxEdits, MaxFaults, MaxTogether} \subseteq Nat

VARIABLES
  service,   \* the host's, fixed when the event was created
  list,      \* the playlist there: how often it holds each song
  alive,     \* it still exists
  title,     \* its name there
  event,     \* the events row
  rows,      \* event_tracks, by song
  files,     \* the cover images on disk
  req,       \* the request in each slot, with its locals
  raced,     \* history: songs two adds were under way for at once
  missed,    \* history: songs the service held and the table had no row for
  resent,    \* history: songs added once more after an answer that was lost
  mistaken,  \* history: an add or a removal was told 404 by a playlist that exists
  crossed,   \* history: a close reason was written to an event open again
  spoilt,    \* history: covers deleted by a request that got no further
  requests, edits, faults   \* so far

provVars == <<service, list, alive, title>>
history  == <<raced, missed, resent, mistaken, crossed, spoilt>>
counters == <<requests, edits, faults>>
vars == <<provVars, event, rows, files, req, history, counters>>

Titles  == {"planned", "party", "theirs"}
Reasons == {"none", "provider_playlist_missing"}
NoCover == 0
Covers  == 1..MaxRequests
MaxCopies == 1 + MaxRequests + MaxEdits + MaxFaults

\* A removal of a song that is not there is answered 404.
AbsentIs404 == {"apple", "youtube"}
\* An add of a video YouTube has not got any more is answered 404.
MissingSongIs404 == {"youtube"}
\* A removal looks for the song among the first hundred entries only.
LooksAtFirstPage == {"apple"}
\* The adapters whose add of one song goes through withProviderRetry.
SentAgain == {"youtube"}
\* The adapters that tell what the playlist is called.
TellsDetails == {"apple"}

Held == {s \in Songs : list[s] > 0}

Idle == [at |-> "idle", song |-> NoSong, reason |-> "none", cover |-> NoCover,
         saved |-> NoCover, name |-> "planned", heard |-> {}, add |-> {}, drop |-> {}]

Init ==
  /\ service \in Services
  /\ list = [s \in Songs |-> IF s \in FirstSongs THEN 1 ELSE 0]
  /\ alive = TRUE
  /\ title = "planned"
  /\ event = [there |-> TRUE, status |-> "open", reason |-> "none",
              revoked |-> FALSE, name |-> "planned", cover |-> NoCover]
  /\ rows = FirstSongs
  /\ files = {}
  /\ req = [c \in Slots |-> Idle]
  /\ raced = {} /\ missed = {} /\ resent = {} /\ mistaken = FALSE /\ crossed = FALSE /\ spoilt = {}
  /\ requests = 0 /\ edits = 0 /\ faults = 0

-----------------------------------------------------------------------------
(* The parts requests are made of. *)

Together == requests + edits + faults < MaxTogether

\* A request that changes something is taken up in slot c, as r says.
Take(c, r) ==
  /\ req[c] = Idle /\ requests < MaxRequests /\ Together
  /\ requests' = requests + 1
  /\ req' = [req EXCEPT ![c] = r]
  /\ UNCHANGED <<edits, faults>>

\* Slot c goes on as r, or answers.
Go(c, r) == req' = [req EXCEPT ![c] = r]
Goto(c, at) == Go(c, [req[c] EXCEPT !.at = at])
Answer(c) == Go(c, Idle)

\* requireActiveMagicLinkEvent and requireOwnedEvent find the event.
LinkWorks == event.there /\ ~event.revoked
Owned == event.there

\* hasTrack
HasTrackLeftToIndex(s) == FALSE  \* mutant
HasTrack(s) == s \in rows

\* What a removal of s leaves: YouTube deletes one entry, the others all.
RemovedOne(s) == [list EXCEPT ![s] = @ - 1]  \* mutant
Removed(s) == IF service = "youtube" THEN [list EXCEPT ![s] = @ - 1] ELSE [list EXCEPT ![s] = 0]

\* replyProviderFailure takes a 404 as the end of the playlist, and only that.
MeansGoneAny(code) == code # 200  \* mutant
MeansGone(code) == code = 404

\* What became of the provider call of slot c: it is answered code.
Refused(c, code) ==
  IF MeansGone(code)
  THEN Go(c, [Idle EXCEPT !.at = "close", !.reason = "provider_playlist_missing"])
  ELSE Answer(c)

-----------------------------------------------------------------------------
(* A guest adds a song. *)

StartAdd(c) ==
  /\ LinkWorks /\ event.status = "open"
  /\ \E s \in Songs : Take(c, [Idle EXCEPT !.at = "add", !.song = s])
  /\ UNCHANGED <<provVars, event, rows, files, history>>

AddIsNew(c) ==
  LET s == req[c].song IN
  /\ req[c].at = "add"
  /\ IF HasTrack(s)
     THEN Answer(c) /\ UNCHANGED raced
     ELSE /\ Goto(c, "send")
          /\ raced' = IF \E d \in Slots \ {c} : req[d].at \in {"add", "send", "row"} /\ req[d].song = s
                      THEN raced \cup {s} ELSE raced
  /\ UNCHANGED <<provVars, event, rows, files, missed, resent, mistaken, crossed, spoilt, counters>>

\* addTrack at the service: a song it will not have fails the add.
SendAdd(c) ==
  LET s == req[c].song
      songGone == service \in MissingSongIs404 IN
  /\ req[c].at = "send"
  /\ \/ /\ alive
        /\ list' = [list EXCEPT ![s] = @ + 1]
        /\ Goto(c, "row")
        /\ UNCHANGED mistaken
     \/ /\ ~alive \/ songGone
        /\ Refused(c, 404)
        /\ mistaken' = (mistaken \/ alive)
        /\ UNCHANGED list
  /\ UNCHANGED <<service, alive, title, event, rows, files, raced, missed, resent, crossed, spoilt, counters>>

\* addTrackToEvent: a row that is there already is left, a lost event throws.
AddRow(c) ==
  /\ req[c].at = "row"
  /\ rows' = IF event.there THEN rows \cup {req[c].song} ELSE rows
  /\ Answer(c)
  /\ UNCHANGED <<provVars, event, files, history, counters>>

-----------------------------------------------------------------------------
(* The host removes a song. *)

StartRemove(c) ==
  /\ Owned
  /\ \E s \in Songs : Take(c, [Idle EXCEPT !.at = "remove", !.song = s])
  /\ UNCHANGED <<provVars, event, rows, files, history>>

RemoveIsKnown(c) ==
  /\ req[c].at = "remove"
  /\ IF req[c].song \in rows THEN Goto(c, "unsend") ELSE Answer(c)
  /\ UNCHANGED <<provVars, event, rows, files, history, counters>>

\* removeTrack at the service: what the adapter does not find is answered 404.
SendRemove(c) ==
  LET s == req[c].song
      absent == list[s] = 0 /\ service \in AbsentIs404
      unseen == service \in LooksAtFirstPage IN
  /\ req[c].at = "unsend"
  /\ \/ /\ alive /\ ~absent
        /\ list' = Removed(s)
        /\ Goto(c, "unrow")
        /\ UNCHANGED mistaken
     \/ /\ ~alive \/ absent \/ unseen
        /\ Refused(c, 404)
        /\ mistaken' = (mistaken \/ alive)
        /\ UNCHANGED list
  /\ UNCHANGED <<service, alive, title, event, rows, files, raced, missed, resent, crossed, spoilt, counters>>

\* removeTrackFromEvent
RemoveRow(c) ==
  LET s == req[c].song IN
  /\ req[c].at = "unrow"
  /\ rows' = rows \ {s}
  /\ missed' = IF list[s] > 0 THEN missed \cup {s} ELSE missed
  /\ Answer(c)
  /\ UNCHANGED <<provVars, event, files, raced, resent, mistaken, crossed, spoilt, counters>>

\* Any provider call of a request fails for a reason other than a 404.
ProviderFails(c) ==
  /\ faults < MaxFaults /\ Together /\ faults' = faults + 1
  /\ req[c].at \in {"send", "unsend"}
  /\ Refused(c, 502)
  /\ UNCHANGED <<provVars, event, rows, files, history, requests, edits>>

\* The service did what it was asked and its answer is an error, or is lost: an
\* add goes out again where the adapter sends it again, and else the request
\* fails, with the table none the wiser.
AnswerLost(c) ==
  LET s == req[c].song IN
  /\ alive
  /\ faults < MaxFaults /\ Together /\ faults' = faults + 1
  /\ \/ /\ req[c].at = "send"
        /\ list' = [list EXCEPT ![s] = @ + 1]
        /\ \/ /\ service \in SentAgain
              /\ resent' = resent \cup {s}
              /\ UNCHANGED <<req, missed>>
           \/ /\ Refused(c, 502)
              /\ missed' = missed \cup {s}
              /\ UNCHANGED resent
     \/ /\ req[c].at = "unsend" /\ list[s] > 0
        /\ list' = Removed(s)
        /\ Refused(c, 502)
        /\ UNCHANGED <<resent, missed>>
  /\ UNCHANGED <<service, alive, title, event, rows, files, raced, mistaken, crossed, spoilt, requests, edits>>

-----------------------------------------------------------------------------
(* Somebody opens the list: syncEventTracksFromProvider. *)

\* listProviderPlaylistTracks; any failure but a 404 changes nothing.
OpenList(c) ==
  /\ req[c] = Idle
  /\ Owned
  /\ IF alive THEN Go(c, [Idle EXCEPT !.at = "local", !.heard = Held]) ELSE Refused(c, 404)
  /\ UNCHANGED <<provVars, event, rows, files, history, counters>>

ToAdd(heard)  == heard \ rows
ToDropNone(heard) == {}  \* mutant
ToDrop(heard) == rows \ heard

ReadLocal(c) ==
  LET heard == req[c].heard IN
  /\ req[c].at = "local"
  /\ IF ToAdd(heard) \cup ToDrop(heard) = {} THEN Answer(c)
     ELSE Go(c, [Idle EXCEPT !.at = "write", !.add = ToAdd(heard), !.drop = ToDrop(heard)])
  /\ UNCHANGED <<provVars, event, rows, files, history, counters>>

\* One addTrackToEvent or removeTrackFromEvent; the additions come first.
WriteOne(c) ==
  LET r == req[c] IN
  /\ r.at = "write"
  /\ \/ \E s \in r.add :
          /\ rows' = IF event.there THEN rows \cup {s} ELSE rows
          /\ Go(c, IF ~event.there \/ r.add \cup r.drop = {s} THEN Idle
                   ELSE [r EXCEPT !.add = @ \ {s}])
          /\ UNCHANGED missed
     \/ \E s \in r.drop :
          /\ r.add = {}
          /\ rows' = rows \ {s}
          /\ missed' = IF list[s] > 0 THEN missed \cup {s} ELSE missed
          /\ Go(c, IF r.drop = {s} THEN Idle ELSE [r EXCEPT !.drop = @ \ {s}])
  /\ UNCHANGED <<provVars, event, files, raced, resent, mistaken, crossed, spoilt, counters>>

-----------------------------------------------------------------------------
(* Closing, by the host or because the playlist is taken to be gone. *)

StartClose(c) ==
  /\ Owned
  /\ Take(c, [Idle EXCEPT !.at = "close"])
  /\ UNCHANGED <<provVars, event, rows, files, history>>

\* closeEvent decides from the row it reads what it will write.
ReadToClose(c) ==
  /\ req[c].at = "close"
  /\ IF ~event.there \/ (event.status = "closed" /\ event.reason = req[c].reason)
     THEN Answer(c)
     ELSE Goto(c, IF event.status = "closed" THEN "reason" ELSE "closing")
  /\ UNCHANGED <<provVars, event, rows, files, history, counters>>

WriteClose(c) ==
  /\ req[c].at \in {"reason", "closing"}
  /\ Answer(c)
  /\ event' = IF ~event.there THEN event
              ELSE [event EXCEPT !.reason = req[c].reason,
                                 !.status = IF req[c].at = "closing" THEN "closed" ELSE @]
  /\ crossed' = (crossed \/ (req[c].at = "reason" /\ event.status = "open"))
  /\ UNCHANGED <<provVars, rows, files, raced, missed, resent, mistaken, spoilt, counters>>

\* reopenEvent: an event read as open is left alone.
StartReopen(c) ==
  /\ Owned /\ event.status = "closed"
  /\ Take(c, [Idle EXCEPT !.at = "reopen"])
  /\ UNCHANGED <<provVars, event, rows, files, history>>

ReopenedKeepingReason(e) == [e EXCEPT !.status = "open"]  \* mutant
Reopened(e) == [e EXCEPT !.status = "open", !.reason = "none"]

WriteReopen(c) ==
  /\ req[c].at = "reopen"
  /\ Answer(c)
  /\ event' = IF event.there THEN Reopened(event) ELSE event
  /\ UNCHANGED <<provVars, rows, files, history, counters>>

-----------------------------------------------------------------------------
(* The link, the name, the end. These write what does not depend on what   *)
(* they read.                                                              *)

AtOnce(c) ==
  /\ Owned /\ req[c] = Idle /\ requests < MaxRequests /\ Together
  /\ requests' = requests + 1
  /\ UNCHANGED <<provVars, files, req, history, edits, faults>>

Revoke(c) == AtOnce(c) /\ event' = [event EXCEPT !.revoked = TRUE] /\ UNCHANGED rows

Regenerate(c) ==
  /\ AtOnce(c) /\ event.revoked
  /\ event' = [event EXCEPT !.revoked = FALSE]
  /\ UNCHANGED rows

Rename(c) == AtOnce(c) /\ event' = [event EXCEPT !.name = "party"] /\ UNCHANGED rows

\* The rows of the tracks go with it, the file of the cover stays.
Delete(c) ==
  AtOnce(c) /\ event' = [event EXCEPT !.there = FALSE] /\ rows' = {}

\* The host's page of the event is opened: a name that differs is taken over.
OpenPage(c) ==
  /\ req[c] = Idle /\ Owned
  /\ alive /\ service \in TellsDetails /\ title # event.name
  /\ Go(c, [Idle EXCEPT !.at = "mirror", !.name = title])
  /\ UNCHANGED <<provVars, event, rows, files, history, counters>>

WriteName(c) ==
  /\ req[c].at = "mirror"
  /\ Answer(c)
  /\ event' = [event EXCEPT !.name = IF event.there THEN req[c].name ELSE @]
  /\ UNCHANGED <<provVars, rows, files, history, counters>>

-----------------------------------------------------------------------------
(* The cover: the old file is deleted, the new one saved, the row written. *)

StartUpload(c) ==
  /\ Owned
  /\ Take(c, [Idle EXCEPT !.at = IF event.cover = NoCover THEN "save" ELSE "unlink",
                          !.cover = event.cover, !.saved = requests + 1])
  /\ UNCHANGED <<provVars, event, rows, files, history>>

StartDropCover(c) ==
  /\ Owned
  /\ Take(c, [Idle EXCEPT !.at = IF event.cover = NoCover THEN "cover" ELSE "discard",
                          !.cover = event.cover])
  /\ UNCHANGED <<provVars, event, rows, files, history>>

DeleteFile(c) ==
  /\ req[c].at \in {"unlink", "discard"}
  /\ files' = files \ {req[c].cover}
  /\ Goto(c, IF req[c].at = "unlink" THEN "save" ELSE "cover")
  /\ UNCHANGED <<provVars, event, rows, history, counters>>

\* saveEventImage refuses what is no image or too large.
SaveFile(c) ==
  /\ req[c].at = "save"
  /\ \/ /\ files' = files \cup {req[c].saved}
        /\ Goto(c, "cover")
        /\ UNCHANGED spoilt
     \/ /\ Answer(c)
        /\ spoilt' = spoilt \cup {req[c].cover}
        /\ UNCHANGED files
  /\ UNCHANGED <<provVars, event, rows, raced, missed, resent, mistaken, crossed, counters>>

CoverWrittenIfSaved(r) == IF r.saved = NoCover THEN r.cover ELSE r.saved  \* mutant
CoverWritten(r) == r.saved

WriteCover(c) ==
  /\ req[c].at = "cover"
  /\ Answer(c)
  /\ event' = [event EXCEPT !.cover = IF event.there THEN CoverWritten(req[c]) ELSE @]
  /\ UNCHANGED <<provVars, rows, files, history, counters>>

-----------------------------------------------------------------------------
(* What the host does in the service's own app, and what goes wrong. *)

AppEdits ==
  /\ alive /\ edits < MaxEdits /\ Together /\ edits' = edits + 1
  /\ \/ \E s \in Songs :
          /\ list' = [list EXCEPT ![s] = @ + 1]
          /\ missed' = missed \cup {s}
          /\ UNCHANGED <<alive, title>>
     \/ \E s \in Held :
          /\ list' = [list EXCEPT ![s] = 0]
          /\ UNCHANGED <<alive, title, missed>>
     \/ alive' = FALSE /\ UNCHANGED <<list, title, missed>>
     \/ /\ service \in TellsDetails /\ title # "theirs"  \* of others nobody hears it
        /\ title' = "theirs"
        /\ UNCHANGED <<list, alive, missed>>
  /\ UNCHANGED <<service, event, rows, files, req, raced, resent, mistaken, crossed, spoilt, requests, faults>>

\* A database call of the request rejects, or its process stops.
CutOff(c) ==
  /\ req[c] # Idle
  /\ faults < MaxFaults /\ Together /\ faults' = faults + 1
  /\ Answer(c)
  /\ missed' = IF req[c].at = "row" THEN missed \cup {req[c].song} ELSE missed
  /\ spoilt' = IF req[c].at \in {"save", "cover"} THEN spoilt \cup {req[c].cover} ELSE spoilt
  /\ UNCHANGED <<provVars, event, rows, files, raced, resent, mistaken, crossed, requests, edits>>

-----------------------------------------------------------------------------
Begin(c) ==
  \/ StartAdd(c) \/ StartRemove(c) \/ StartClose(c) \/ StartReopen(c)
  \/ StartUpload(c) \/ StartDropCover(c)
  \/ Revoke(c) \/ Regenerate(c) \/ Rename(c) \/ Delete(c)

\* The request in slot c goes on.
Step(c) ==
  \/ AddIsNew(c) \/ SendAdd(c) \/ AddRow(c)
  \/ RemoveIsKnown(c) \/ SendRemove(c) \/ RemoveRow(c)
  \/ ReadLocal(c) \/ WriteOne(c)
  \/ ReadToClose(c) \/ WriteClose(c) \/ WriteReopen(c)
  \/ WriteName(c) \/ DeleteFile(c) \/ SaveFile(c) \/ WriteCover(c)

Next ==
  \/ AppEdits
  \/ \E c \in Slots :
       \/ Begin(c) \/ Step(c) \/ OpenList(c) \/ OpenPage(c)
       \/ ProviderFails(c) \/ AnswerLost(c) \/ CutOff(c)

Spec == Init /\ [][Next]_vars

\* A request that is neither cut off nor refused is answered; the pages of
\* the event go on being opened.
FairSpec ==
  /\ Spec
  /\ \A c \in Slots : WF_vars(Step(c))
  /\ SF_vars(\E c \in Slots : OpenList(c))
  /\ SF_vars(\E c \in Slots : OpenPage(c))

-----------------------------------------------------------------------------
Points == {"idle", "add", "send", "row", "remove", "unsend", "unrow", "local", "write",
           "close", "reason", "closing", "reopen", "mirror", "unlink", "discard", "save", "cover"}

Requests == [at : Points, song : Songs \cup {NoSong}, reason : Reasons,
             cover : Covers \cup {NoCover}, saved : Covers \cup {NoCover}, name : Titles,
             heard : SUBSET Songs, add : SUBSET Songs, drop : SUBSET Songs]

\* Types; a playlist never holds fewer than no copies of a song.
TypeOK ==
  /\ service \in Services /\ alive \in BOOLEAN /\ title \in Titles
  /\ list \in [Songs -> 0..MaxCopies]
  /\ event \in [there : BOOLEAN, status : {"open", "closed"}, reason : Reasons,
                revoked : BOOLEAN, name : Titles, cover : Covers \cup {NoCover}]
  /\ rows \subseteq Songs /\ files \subseteq Covers
  /\ req \in [Slots -> Requests]
  /\ {raced, missed, resent} \subseteq SUBSET Songs /\ spoilt \subseteq Covers \cup {NoCover}
  /\ {mistaken, crossed} \subseteq BOOLEAN
  /\ requests \in 0..MaxRequests /\ edits \in 0..MaxEdits /\ faults \in 0..MaxFaults

\* The playlist holds a song twice only if two adds of it were under way at
\* once, if the table had lost sight of it, or if an add whose answer was lost
\* was sent again: the hasTrack check covers the rest.
NoDoubles == event.there => \A s \in Songs : list[s] > 1 => s \in raced \cup missed \cup resent

\* An event is closed as having no playlist only when it has none, or when the
\* 404 was about a song: YouTube's of an add of a video it has not got any more
\* or of a removal that found no such entry, Apple Music's of a removal that
\* found the song not among the first hundred. Of Spotify and TIDAL a 404 is taken
\* to be about the playlist.
ClosedWhenGone ==
  event.reason = "provider_playlist_missing" =>
    ~alive \/ (mistaken /\ service \in AbsentIs404 \cup MissingSongIs404 \cup LooksAtFirstPage)

\* An open event carries no reason for being closed, unless a close that read
\* it as closed wrote its reason after it was opened again.
OpenHasNoReason == event.status = "open" /\ event.reason # "none" => crossed

\* The row names a cover that is on disk, except between the deletion of the
\* old file and the write of the row, and for good when the upload got no further.
CoverIsThere ==
  event.there => event.cover \in {NoCover} \cup files \cup spoilt
    \cup {req[c].cover : c \in {d \in Slots : req[d].at \in {"save", "cover"}}}

\* Whatever adds, removals and listings did to each other, an event whose pages
\* are opened ends with the songs and the name its playlist has, or is closed
\* as having lost it.
Settles ==
  <>[](event.there =>
         IF alive THEN rows = Held /\ (service \in TellsDetails => event.name = title)
         ELSE event.status = "closed" /\ event.reason = "provider_playlist_missing")
=============================================================================
