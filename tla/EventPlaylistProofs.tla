------------------------ MODULE EventPlaylistProofs ------------------------
(***************************************************************************)
(* What holds of an event playlist for any number of requests at a time,   *)
(* songs, edits in the service's app and requests cut off.                 *)
(***************************************************************************)
EXTENDS EventPlaylist, FiniteSetTheorems, TLAPS

\* The types the proofs need; how often the service holds a song is a number,
\* whatever the bounds.
EventRows == [there : BOOLEAN, status : {"open", "closed"}, reason : Reasons,
              revoked : BOOLEAN, name : Titles, cover : Covers \cup {NoCover}]

\* A request about a song names one.
AboutASong == {"add", "send", "row", "remove", "unsend", "unrow"}
Named == {r \in Requests : r.at \in AboutASong => r.song \in Songs}

ReqShape   == req \in [Slots -> Named]
EventShape == event \in EventRows
ListShape  == list \in [Songs -> Nat]
Counts     == requests \in 0..MaxRequests /\ title \in Titles
RowShape   == rows \subseteq Songs
Shape == ReqShape /\ EventShape /\ ListShape /\ Counts /\ RowShape

LEMMA IdleIsRequest == Idle \in Named
  BY DEF Idle, Named, AboutASong, Requests, Points, Reasons, NoCover, Titles

-----------------------------------------------------------------------------
(* Who writes what. *)

LEMMA ListWrites ==
  ASSUME [Next]_vars, <<list, alive>>' # <<list, alive>>
  PROVE  AppEdits \/ \E c \in Slots : SendAdd(c) \/ SendRemove(c) \/ AnswerLost(c)
<1> USE DEF provVars
<1>1. ~UNCHANGED vars  BY DEF vars
<1>2. ASSUME NEW c \in Slots PROVE ~Begin(c)
  BY DEF Begin, StartAdd, StartRemove, StartClose, StartReopen, StartUpload, StartDropCover,
         Revoke, Regenerate, Rename, Delete, AtOnce
<1>3. ASSUME NEW c \in Slots PROVE ~(OpenList(c) \/ OpenPage(c) \/ ProviderFails(c) \/ CutOff(c))
  BY DEF OpenList, OpenPage, ProviderFails, CutOff
<1>4. ASSUME NEW c \in Slots, Step(c) PROVE SendAdd(c) \/ SendRemove(c)
  BY <1>4 DEF Step, AddIsNew, AddRow, RemoveIsKnown, RemoveRow, ReadLocal, WriteOne, ReadToClose,
     WriteClose, WriteReopen, WriteName, DeleteFile, SaveFile, WriteCover
<1> QED BY <1>1, <1>2, <1>3, <1>4 DEF Next

LEMMA EventWrites ==
  ASSUME [Next]_vars, event' # event
  PROVE  \E c \in Slots : \/ WriteClose(c) \/ WriteReopen(c) \/ WriteName(c) \/ WriteCover(c)
                          \/ Revoke(c) \/ Regenerate(c) \/ Rename(c) \/ Delete(c)
<1>1. ~UNCHANGED vars  BY DEF vars
<1>2. ~AppEdits  BY DEF AppEdits
<1>3. ASSUME NEW c \in Slots, Begin(c) PROVE Revoke(c) \/ Regenerate(c) \/ Rename(c) \/ Delete(c)
  BY <1>3 DEF Begin, StartAdd, StartRemove, StartClose, StartReopen, StartUpload, StartDropCover
<1>4. ASSUME NEW c \in Slots PROVE ~(OpenList(c) \/ OpenPage(c) \/ ProviderFails(c) \/ AnswerLost(c) \/ CutOff(c))
  BY DEF OpenList, OpenPage, ProviderFails, AnswerLost, CutOff
<1>5. ASSUME NEW c \in Slots, Step(c)
      PROVE  WriteClose(c) \/ WriteReopen(c) \/ WriteName(c) \/ WriteCover(c)
  BY <1>5 DEF Step, AddIsNew, SendAdd, AddRow, RemoveIsKnown, SendRemove, RemoveRow, ReadLocal,
     WriteOne, ReadToClose, DeleteFile, SaveFile
<1> QED BY <1>1, <1>2, <1>3, <1>4, <1>5 DEF Next

-----------------------------------------------------------------------------
(* Shapes. *)

LEMMA InitShape == Init => Shape
<1> SUFFICES ASSUME Init PROVE Shape
  OBVIOUS
<1>1. ListShape   BY DEF Init, ListShape
<1>2. EventShape  BY DEF Init, EventShape, EventRows, Reasons, Titles, NoCover
<1>3. ReqShape    BY IdleIsRequest DEF Init, ReqShape
<1>4. Counts      BY EventBounds DEF Init, Counts, Titles
<1>5. RowShape    BY SongsAssumption DEF Init, RowShape
<1> QED BY <1>1, <1>2, <1>3, <1>4, <1>5 DEF Shape

LEMMA NextListShape == ListShape /\ [Next]_vars => ListShape'
<1> SUFFICES ASSUME ListShape, [Next]_vars, list' # list PROVE ListShape'
  BY DEF ListShape
<1>1. CASE AppEdits
  <2>1. \/ \E s \in Songs : list' = [list EXCEPT ![s] = @ + 1]
        \/ \E s \in Songs : list' = [list EXCEPT ![s] = 0]
        \/ list' = list
    BY <1>1 DEF AppEdits, Held
  <2> QED BY <2>1 DEF ListShape
<1>2. ASSUME NEW c \in Slots, SendAdd(c) PROVE ListShape'
  BY <1>2 DEF SendAdd, ListShape
<1>3. ASSUME NEW c \in Slots, SendRemove(c) PROVE ListShape'
  <2>1. CASE list' = Removed(req[c].song) /\ ~(list[req[c].song] = 0 /\ service \in AbsentIs404)
    BY <2>1 DEF Removed, AbsentIs404, ListShape
  <2> QED BY <1>3, <2>1 DEF SendRemove
<1>4. ASSUME NEW c \in Slots, AnswerLost(c) PROVE ListShape'
  <2>1. \/ list' = [list EXCEPT ![req[c].song] = @ + 1]
        \/ list' = Removed(req[c].song) /\ list[req[c].song] > 0
    BY <1>4 DEF AnswerLost
  <2>2. CASE list' = Removed(req[c].song) /\ list[req[c].song] > 0
    BY <2>2 DEF Removed, ListShape
  <2> QED BY <2>1, <2>2 DEF ListShape
<1> QED BY <1>1, <1>2, <1>3, <1>4, ListWrites

LEMMA NextCounts == Counts /\ [Next]_vars => Counts'
<1> SUFFICES ASSUME Counts, [Next]_vars PROVE Counts'
  OBVIOUS
<1>1. title' \in Titles
  <2>1. ASSUME NEW c \in Slots, Begin(c) PROVE title' = title
    BY <2>1 DEF Begin, StartAdd, StartRemove, StartClose, StartReopen, StartUpload,
       StartDropCover, Revoke, Regenerate, Rename, Delete, AtOnce, provVars
  <2>2. ASSUME NEW c \in Slots, OpenList(c) \/ OpenPage(c) \/ ProviderFails(c) \/ AnswerLost(c) \/ CutOff(c)
        PROVE  title' = title
    BY <2>2 DEF OpenList, OpenPage, ProviderFails, AnswerLost, CutOff, provVars
  <2>3. ASSUME NEW c \in Slots, Step(c) PROVE title' = title
    BY <2>3 DEF Step, AddIsNew, SendAdd, AddRow, RemoveIsKnown, SendRemove, RemoveRow, ReadLocal,
       WriteOne, ReadToClose, WriteClose, WriteReopen, WriteName, DeleteFile, SaveFile, WriteCover,
       provVars
  <2>4. ASSUME AppEdits PROVE title' \in {title, "theirs"}
    BY <2>4 DEF AppEdits
  <2> QED BY <2>1, <2>2, <2>3, <2>4 DEF Next, Counts, Titles, vars, provVars
<1>2. requests' \in 0..MaxRequests
  <2>1. ASSUME NEW c \in Slots, Begin(c)
        PROVE  requests' = requests + 1 /\ requests < MaxRequests
    BY <2>1 DEF Begin, StartAdd, StartRemove, StartClose, StartReopen, StartUpload,
       StartDropCover, Take, Revoke, Regenerate, Rename, Delete, AtOnce
  <2>2. ASSUME NEW c \in Slots, OpenList(c) \/ OpenPage(c) \/ ProviderFails(c) \/ AnswerLost(c) \/ CutOff(c)
        PROVE  requests' = requests
    BY <2>2 DEF OpenList, OpenPage, ProviderFails, AnswerLost, CutOff, counters
  <2>3. ASSUME NEW c \in Slots, Step(c) PROVE requests' = requests
    BY <2>3 DEF Step, AddIsNew, SendAdd, AddRow, RemoveIsKnown, SendRemove, RemoveRow, ReadLocal,
       WriteOne, ReadToClose, WriteClose, WriteReopen, WriteName, DeleteFile, SaveFile, WriteCover,
       counters
  <2>4. ASSUME AppEdits PROVE requests' = requests
    BY <2>4 DEF AppEdits
  <2> QED BY <2>1, <2>2, <2>3, <2>4, EventBounds DEF Next, Counts, vars, counters
<1> QED BY <1>1, <1>2 DEF Counts

LEMMA NextEventShape == ReqShape /\ EventShape /\ [Next]_vars => EventShape'
<1> SUFFICES ASSUME ReqShape, EventShape, [Next]_vars, event' # event PROVE EventShape'
  BY DEF EventShape
<1>1. PICK c \in Slots : \/ WriteClose(c) \/ WriteReopen(c) \/ WriteName(c) \/ WriteCover(c)
                         \/ Revoke(c) \/ Regenerate(c) \/ Rename(c) \/ Delete(c)
  BY EventWrites
<1>2. req[c] \in Requests
  BY DEF ReqShape, Named
<1> USE <1>2 DEF EventShape, EventRows
<1>3. CASE WriteClose(c)   BY <1>3 DEF WriteClose, Requests
<1>4. CASE WriteReopen(c)  BY <1>4 DEF WriteReopen, Reopened, Reasons
<1>5. CASE WriteName(c)    BY <1>5 DEF WriteName, Requests
<1>6. CASE WriteCover(c)   BY <1>6 DEF WriteCover, CoverWritten, Requests
<1>7. CASE Revoke(c)       BY <1>7 DEF Revoke
<1>8. CASE Regenerate(c)   BY <1>8 DEF Regenerate
<1>9. CASE Rename(c)       BY <1>9 DEF Rename, Titles
<1>10. CASE Delete(c)      BY <1>10 DEF Delete
<1> QED BY <1>1, <1>3, <1>4, <1>5, <1>6, <1>7, <1>8, <1>9, <1>10

LEMMA CoversAreNotAboutSongs == {"save", "unlink", "cover", "discard"} \cap AboutASong = {}
  BY DEF AboutASong

\* A slot is given what is a request.
LEMMA NextReq ==
  ASSUME Shape, [Next]_vars
  PROVE  \/ req' = req
         \/ \E c \in Slots, r \in Named : req' = [req EXCEPT ![c] = r]
<1> DEFINE Writes(c) == \E r \in Named : req' = [req EXCEPT ![c] = r]
<1>1. CASE UNCHANGED vars \/ AppEdits  BY <1>1 DEF vars, AppEdits
<1> SUFFICES ASSUME NEW c \in Slots,
                    Begin(c) \/ Step(c) \/ OpenList(c) \/ OpenPage(c) \/ ProviderFails(c) \/ AnswerLost(c) \/ CutOff(c)
             PROVE  req' = req \/ Writes(c)
  BY <1>1 DEF Next
<1> USE IdleIsRequest DEF Go, Goto, Answer, Take
<1>2. req[c] \in Named
  BY DEF Shape, ReqShape
<1>3. ASSUME NEW at \in Points, at \in AboutASong => req[c].at \in AboutASong
      PROVE  [req[c] EXCEPT !.at = at] \in Named
  <2>1. [req[c] EXCEPT !.at = at] \in Requests
    BY <1>2 DEF Named, Requests
  <2>2. /\ [req[c] EXCEPT !.at = at].at = at
        /\ [req[c] EXCEPT !.at = at].song = req[c].song
    BY <1>2 DEF Named, Requests
  <2> QED BY <1>2, <1>3, <2>1, <2>2 DEF Named
<1>4. ASSUME NEW at \in Points, NEW s \in Songs PROVE [Idle EXCEPT !.at = at, !.song = s] \in Named
  BY DEF Named, AboutASong, Requests
<1>5. [Idle EXCEPT !.at = "close", !.reason = "provider_playlist_missing"] \in Named
  BY DEF Named, AboutASong, Requests, Reasons, Points
<1>6. ASSUME NEW code, Refused(c, code) PROVE Writes(c)
  BY <1>5, <1>6 DEF Refused
<1>10. CASE Begin(c)
  <2>1. CASE StartAdd(c)     BY <2>1, <1>4 DEF StartAdd, Points
  <2>2. CASE StartRemove(c)  BY <2>2, <1>4 DEF StartRemove, Points
  <2>3. CASE StartClose(c)
    <3>1. [Idle EXCEPT !.at = "close"] \in Named  BY DEF Named, AboutASong, Requests, Points
    <3> QED BY <2>3, <3>1 DEF StartClose
  <2>4. CASE StartReopen(c)
    <3>1. [Idle EXCEPT !.at = "reopen"] \in Named  BY DEF Named, AboutASong, Requests, Points
    <3> QED BY <2>4, <3>1 DEF StartReopen
  <2>5. CASE StartUpload(c)
    <3>1. requests + 1 \in Covers /\ event.cover \in Covers \cup {NoCover}
      BY <2>5, EventBounds DEF StartUpload, Covers, Shape, Counts, EventShape, EventRows
    <3>2. [Idle EXCEPT !.at = IF event.cover = NoCover THEN "save" ELSE "unlink",
                       !.cover = event.cover, !.saved = requests + 1] \in Named
      BY <3>1, CoversAreNotAboutSongs DEF Named, Requests, Points
    <3> QED BY <2>5, <3>2 DEF StartUpload
  <2>6. CASE StartDropCover(c)
    <3>1. event.cover \in Covers \cup {NoCover}
      BY DEF Shape, EventShape, EventRows
    <3>2. [Idle EXCEPT !.at = IF event.cover = NoCover THEN "cover" ELSE "discard",
                       !.cover = event.cover] \in Named
      BY <3>1, CoversAreNotAboutSongs DEF Named, Requests, Points
    <3> QED BY <2>6, <3>2 DEF StartDropCover
  <2>7. CASE Revoke(c) \/ Regenerate(c) \/ Rename(c) \/ Delete(c)
    BY <2>7 DEF Revoke, Regenerate, Rename, Delete, AtOnce
  <2> QED BY <1>10, <2>1, <2>2, <2>3, <2>4, <2>5, <2>6, <2>7 DEF Begin
<1>11. CASE Step(c)
  <2>1. CASE AddIsNew(c)       BY <2>1, <1>3 DEF AddIsNew, Points, AboutASong
  <2>2. CASE SendAdd(c)        BY <2>2, <1>3, <1>6 DEF SendAdd, Points, AboutASong
  <2>3. CASE AddRow(c) \/ RemoveRow(c) \/ WriteClose(c) \/ WriteReopen(c) \/ WriteName(c) \/ WriteCover(c)
    BY <2>3 DEF AddRow, RemoveRow, WriteClose, WriteReopen, WriteName, WriteCover
  <2>4. CASE RemoveIsKnown(c)  BY <2>4, <1>3 DEF RemoveIsKnown, Points, AboutASong
  <2>5. CASE SendRemove(c)     BY <2>5, <1>3, <1>6 DEF SendRemove, Points, AboutASong
  <2>6. CASE ReadLocal(c)
    <3>1. [Idle EXCEPT !.at = "write", !.add = ToAdd(req[c].heard), !.drop = ToDrop(req[c].heard)]
            \in Named
      BY <1>2 DEF Named, AboutASong, Requests, Points, ToAdd, ToDrop, Shape, RowShape
    <3> QED BY <2>6, <3>1 DEF ReadLocal
  <2>7. CASE WriteOne(c)
    <3>1. ASSUME NEW s PROVE [req[c] EXCEPT !.add = @ \ {s}] \in Named
                          /\ [req[c] EXCEPT !.drop = @ \ {s}] \in Named
      BY <1>2 DEF Named, AboutASong, Requests
    <3> QED BY <2>7, <3>1 DEF WriteOne
  <2>8. CASE ReadToClose(c)    BY <2>8, <1>3 DEF ReadToClose, Points, AboutASong
  <2>9. CASE DeleteFile(c)     BY <2>9, <1>3 DEF DeleteFile, Points, AboutASong
  <2>10. CASE SaveFile(c)      BY <2>10, <1>3 DEF SaveFile, Points, AboutASong
  <2> QED BY <1>11, <2>1, <2>2, <2>3, <2>4, <2>5, <2>6, <2>7, <2>8, <2>9, <2>10 DEF Step
<1>12. CASE OpenList(c)
  <2>1. [Idle EXCEPT !.at = "local", !.heard = Held] \in Named
    BY DEF Named, AboutASong, Requests, Points, Held
  <2> QED BY <1>12, <2>1, <1>6 DEF OpenList
<1>13. CASE OpenPage(c)
  <2>1. [Idle EXCEPT !.at = "mirror", !.name = title] \in Named
    BY DEF Named, AboutASong, Requests, Points, Shape, Counts
  <2> QED BY <1>13, <2>1 DEF OpenPage
<1>14. CASE ProviderFails(c)  BY <1>14, <1>6 DEF ProviderFails
<1>15. CASE CutOff(c)         BY <1>15 DEF CutOff
<1>16. CASE AnswerLost(c)     BY <1>16, <1>6 DEF AnswerLost
<1> QED BY <1>10, <1>11, <1>12, <1>13, <1>14, <1>15, <1>16

LEMMA NextRowShape == Shape /\ [Next]_vars => RowShape'
<1> SUFFICES ASSUME Shape, [Next]_vars, ~(rows' \subseteq rows) PROVE RowShape'
  BY DEF Shape, RowShape
<1>1. ~UNCHANGED vars /\ ~AppEdits  BY DEF vars, AppEdits
<1>2. ASSUME NEW c \in Slots
      PROVE  ~(Begin(c) \/ OpenList(c) \/ OpenPage(c) \/ ProviderFails(c) \/ AnswerLost(c) \/ CutOff(c))
  BY DEF Begin, StartAdd, StartRemove, StartClose, StartReopen, StartUpload, StartDropCover,
     Revoke, Regenerate, Rename, Delete, AtOnce, OpenList, OpenPage, ProviderFails, AnswerLost, CutOff
<1>3. ASSUME NEW c \in Slots, Step(c) PROVE AddRow(c) \/ WriteOne(c)
  BY <1>3 DEF Step, AddIsNew, SendAdd, RemoveIsKnown, SendRemove, RemoveRow, ReadLocal,
     ReadToClose, WriteClose, WriteReopen, WriteName, DeleteFile, SaveFile, WriteCover
<1>4. PICK c \in Slots : AddRow(c) \/ WriteOne(c)
  BY <1>1, <1>2, <1>3 DEF Next
<1>5. req[c] \in Named  BY DEF Shape, ReqShape
<1>6. CASE WriteOne(c)
  <2>1. req[c].add \subseteq Songs  BY <1>5 DEF Named, Requests
  <2> QED BY <1>6, <2>1 DEF WriteOne, Shape, RowShape
<1>7. CASE AddRow(c)
  <2>1. req[c].song \in Songs  BY <1>5, <1>7 DEF AddRow, Named, AboutASong
  <2> QED BY <1>7, <2>1 DEF AddRow, Shape, RowShape
<1> QED BY <1>4, <1>6, <1>7

LEMMA NextShape == Shape /\ [Next]_vars => Shape'
<1> SUFFICES ASSUME Shape, [Next]_vars PROVE Shape'
  OBVIOUS
<1>1. ReqShape'
  BY NextReq DEF Shape, ReqShape
<1> QED BY <1>1, NextEventShape, NextListShape, NextCounts, NextRowShape DEF Shape

-----------------------------------------------------------------------------
(* Closing. *)

\* A playlist that is gone stays gone, a mistake stays made.
LEMMA GoneForGood ==
  ASSUME Shape, [Next]_vars
  PROVE  (alive' => alive) /\ (mistaken => mistaken') /\ (crossed => crossed') /\ service' = service
<1>1. CASE UNCHANGED vars  BY <1>1 DEF vars, provVars, history
<1>2. CASE AppEdits        BY <1>2 DEF AppEdits
<1>3. ASSUME NEW c \in Slots, Begin(c)
      PROVE  UNCHANGED <<alive, mistaken, crossed, service>>
  BY <1>3 DEF Begin, StartAdd, StartRemove, StartClose, StartReopen, StartUpload, StartDropCover,
     Revoke, Regenerate, Rename, Delete, AtOnce, provVars, history
<1>4. ASSUME NEW c \in Slots, OpenList(c) \/ OpenPage(c) \/ ProviderFails(c) \/ AnswerLost(c) \/ CutOff(c)
      PROVE  UNCHANGED <<alive, mistaken, crossed, service>>
  BY <1>4 DEF OpenList, OpenPage, ProviderFails, AnswerLost, CutOff, provVars, history
<1>5. ASSUME NEW c \in Slots, Step(c)
      PROVE  UNCHANGED <<alive, service>> /\ (mistaken => mistaken') /\ (crossed => crossed')
  <2>1. CASE SendAdd(c) \/ SendRemove(c)
    <3>1. UNCHANGED <<alive, crossed, service>>
      BY <2>1 DEF SendAdd, SendRemove
    <3>2. UNCHANGED mistaken \/ mistaken' = (mistaken \/ alive)
      BY <2>1 DEF SendAdd, SendRemove
    <3>3. mistaken => mistaken'
      BY <3>2, Zenon
    <3> QED BY <3>1, <3>3
  <2>2. CASE WriteClose(c)
    BY <2>2 DEF WriteClose, provVars
  <2> QED
    BY <1>5, <2>1, <2>2 DEF Step, AddIsNew, AddRow, RemoveIsKnown, RemoveRow, ReadLocal,
       WriteOne, ReadToClose, WriteReopen, WriteName, DeleteFile, SaveFile, WriteCover,
       provVars, history
<1> QED BY <1>1, <1>2, <1>3, <1>4, <1>5 DEF Next

\* The playlist is gone, or the service has said so of one of its songs.
Gone ==
  ~alive \/ (mistaken /\ service \in AbsentIs404 \cup MissingSongIs404 \cup LooksAtFirstPage)

\* Whoever carries a reason was told by the service that the playlist is gone.
GoneInv ==
  /\ ClosedWhenGone
  /\ \A c \in Slots : req[c].reason # "none" => Gone

\* A reason is carried on, or comes from the service's answer.
LEMMA ReasonsCarried ==
  ASSUME Shape, [Next]_vars, NEW d \in Slots, req'[d].reason # "none"
  PROVE  req[d].reason # "none" \/ Gone'
<1> SUFFICES ASSUME req[d].reason = "none" PROVE Gone'
  OBVIOUS
<1>1. req \in [Slots -> Requests]  BY DEF Shape, ReqShape, Named
<1>2. req' # req  OBVIOUS
<1>3. PICK c \in Slots :
        Begin(c) \/ Step(c) \/ OpenList(c) \/ OpenPage(c) \/ ProviderFails(c) \/ AnswerLost(c) \/ CutOff(c)
  BY <1>2 DEF Next, vars, AppEdits
<1>4. ASSUME NEW r, r.reason = "none" PROVE ~Go(c, r)
  BY <1>1, <1>4 DEF Go
<1>5. ASSUME NEW at PROVE ~Goto(c, at)
  <2>1. c = d => [req[c] EXCEPT !.at = at].reason = "none"
    BY <1>1 DEF Requests
  <2> QED BY <1>1, <2>1 DEF Goto, Go
<1>6. Idle.reason = "none" /\ ~Answer(c)
  BY <1>4 DEF Idle, Answer
<1>7. ~Begin(c)
  <2>1. ASSUME NEW r, r.reason = "none" PROVE req' # [req EXCEPT ![c] = r]
    BY <1>4, <2>1 DEF Go
  <2>2. ~StartAdd(c)        BY <2>1 DEF StartAdd, Take, Idle
  <2>3. ~StartRemove(c)     BY <2>1 DEF StartRemove, Take, Idle
  <2>4. ~StartClose(c)      BY <2>1 DEF StartClose, Take, Idle
  <2>5. ~StartReopen(c)     BY <2>1 DEF StartReopen, Take, Idle
  <2>6. ~StartUpload(c)     BY <2>1 DEF StartUpload, Take, Idle
  <2>7. ~StartDropCover(c)  BY <2>1 DEF StartDropCover, Take, Idle
  <2> QED BY <1>2, <2>2, <2>3, <2>4, <2>5, <2>6, <2>7 DEF Begin, Revoke, Regenerate, Rename, Delete, AtOnce
<1>8. ASSUME NEW code, Refused(c, code) PROVE code = 404
  BY <1>6, <1>8 DEF Refused, MeansGone
<1>9. CASE Step(c)
  <2>1. CASE SendAdd(c) \/ SendRemove(c)
    <3>1. /\ UNCHANGED <<alive, service>>
          /\ alive => service \in AbsentIs404 \cup MissingSongIs404 \cup LooksAtFirstPage
      BY <1>5, <2>1 DEF SendAdd, SendRemove
    <3>2. mistaken' = (mistaken \/ alive)
      BY <1>5, <2>1 DEF SendAdd, SendRemove
    <3>3. CASE ~alive  BY <3>1, <3>3 DEF Gone
    <3>4. CASE alive
      <4>1. mistaken'  BY <3>2, <3>4, Zenon
      <4> QED BY <3>1, <3>4, <4>1 DEF Gone
    <3> QED BY <3>3, <3>4
  <2>3. ~ReadLocal(c)  BY <1>4, <1>6 DEF ReadLocal, Idle
  <2>4. ~WriteOne(c)
    <3>1. ASSUME NEW s PROVE ~Go(c, [req[c] EXCEPT !.add = @ \ {s}]) /\ ~Go(c, [req[c] EXCEPT !.drop = @ \ {s}])
      <4>1. c = d => /\ [req[c] EXCEPT !.add = @ \ {s}].reason = "none"
                     /\ [req[c] EXCEPT !.drop = @ \ {s}].reason = "none"
        BY <1>1 DEF Requests
      <4> QED BY <1>1, <4>1 DEF Go
    <3>2. ~Go(c, Idle)  BY <1>6 DEF Answer
    <3> QED BY <3>1, <3>2 DEF WriteOne
  <2> QED BY <1>5, <1>6, <1>9, <2>1, <2>3, <2>4
          DEF Step, AddIsNew, AddRow, RemoveIsKnown, RemoveRow, ReadToClose, WriteClose,
              WriteReopen, WriteName, DeleteFile, SaveFile, WriteCover
<1>10. ~CutOff(c) /\ ~OpenPage(c)
  BY <1>4, <1>6 DEF CutOff, OpenPage, Idle
<1>11. ~ProviderFails(c)
  BY <1>8 DEF ProviderFails
<1>13. ~AnswerLost(c)
  BY <1>2, <1>8 DEF AnswerLost
<1>12. CASE OpenList(c)
  BY <1>4, <1>12 DEF OpenList, Idle, provVars, Gone
<1> QED BY <1>3, <1>7, <1>9, <1>10, <1>11, <1>12, <1>13

\* An event is closed as having no playlist only when it has none, or when the
\* 404 of an add or a removal was about a song: at YouTube or Apple Music, never
\* at Spotify or TIDAL. The two requests whose failure closes an event
\* (replyProviderFailure) and the listing close it for nothing else, neither for
\* another error nor for an answer that was lost, however they overlap with the
\* host's own closing and opening.
THEOREM ClosedOnlyWhenGone == Spec => []ClosedWhenGone
<1>1. Init => GoneInv
  BY DEF Init, GoneInv, ClosedWhenGone, Idle
<1>2. ASSUME Shape, GoneInv, [Next]_vars PROVE GoneInv'
  <2>1. Gone => Gone'
    <3>1. (alive' => alive) /\ (mistaken => mistaken') /\ service' = service
      BY <1>2, GoneForGood
    <3> QED BY <3>1 DEF Gone
  <2>2. ASSUME NEW d \in Slots, req'[d].reason # "none" PROVE Gone'
    BY <1>2, <2>1, <2>2, ReasonsCarried DEF GoneInv
  <2>3. ASSUME event'.reason = "provider_playlist_missing", event.reason # event'.reason
        PROVE  Gone'
    <3>1. PICK c \in Slots : \/ WriteClose(c) \/ WriteReopen(c) \/ WriteName(c) \/ WriteCover(c)
                             \/ Revoke(c) \/ Regenerate(c) \/ Rename(c) \/ Delete(c)
      BY <1>2, <2>3, EventWrites
    <3>2. event \in EventRows  BY <1>2 DEF Shape, EventShape
    <3>3. ~(WriteReopen(c) \/ WriteName(c) \/ WriteCover(c) \/ Revoke(c) \/ Regenerate(c)
             \/ Rename(c) \/ Delete(c))
      BY <2>3, <3>2 DEF EventRows, WriteReopen, Reopened, WriteName, WriteCover, Revoke, Regenerate,
         Rename, Delete
    <3>4. req[c].reason = "provider_playlist_missing"
      BY <2>3, <3>1, <3>2, <3>3 DEF WriteClose, EventRows
    <3> QED BY <1>2, <2>1, <3>4 DEF GoneInv
  <2> QED BY <1>2, <2>1, <2>2, <2>3 DEF GoneInv, ClosedWhenGone, Gone
<1>3. GoneInv => ClosedWhenGone
  BY DEF GoneInv
<1> QED BY <1>1, <1>2, <1>3, InitShape, NextShape, PTL DEF Spec

\* An open event carries no reason for being closed, unless a close that read
\* it as closed (closeEvent) wrote its reason after reopenEvent.
THEOREM OpenNeedsNoReason == Spec => []OpenHasNoReason
<1>1. Init => OpenHasNoReason
  BY DEF Init, OpenHasNoReason
<1>2. ASSUME Shape, OpenHasNoReason, [Next]_vars PROVE OpenHasNoReason'
  <2>1. crossed => crossed'
    BY <1>2, GoneForGood
  <2>2. SUFFICES ASSUME event' # event, ~crossed PROVE OpenHasNoReason'
    BY <1>2, <2>1 DEF OpenHasNoReason
  <2>3. PICK c \in Slots : \/ WriteClose(c) \/ WriteReopen(c) \/ WriteName(c) \/ WriteCover(c)
                           \/ Revoke(c) \/ Regenerate(c) \/ Rename(c) \/ Delete(c)
    BY <1>2, <2>2, EventWrites
  <2>4. event \in EventRows  BY <1>2 DEF Shape, EventShape
  <2> USE <1>2, <2>2, <2>4 DEF OpenHasNoReason, EventRows
  <2>5. CASE WriteClose(c)   BY <2>5 DEF WriteClose
  <2>6. CASE WriteReopen(c)  BY <2>6 DEF WriteReopen, Reopened
  <2>7. CASE WriteName(c) \/ WriteCover(c)
    BY <2>7 DEF WriteName, WriteCover
  <2>8. CASE Revoke(c) \/ Regenerate(c) \/ Rename(c) \/ Delete(c)
    BY <2>8 DEF Revoke, Regenerate, Rename, Delete
  <2> QED BY <2>3, <2>5, <2>6, <2>7, <2>8
<1> QED BY <1>1, <1>2, InitShape, NextShape, PTL DEF Spec

-----------------------------------------------------------------------------
(* How often the playlist holds a song. *)

\* Slot c, not at "row", goes on to something else than sending and writing.
Elsewhere(c) ==
  /\ req[c].at # "row" /\ req'[c].at \notin {"send", "row"}
  /\ \A d \in Slots \ {c} : req'[d] = req[d]

\* Slot c answers, or hands over to the closing of the event.
LEMMA Ending ==
  ASSUME Shape, NEW c \in Slots
  PROVE  /\ Answer(c) => req'[c] = Idle /\ \A d \in Slots \ {c} : req'[d] = req[d]
         /\ \A code : Refused(c, code) => /\ req'[c].at \in {"idle", "close"}
                                         /\ req'[c].cover = NoCover /\ req'[c].saved = NoCover
                                         /\ \A d \in Slots \ {c} : req'[d] = req[d]
<1>1. req \in [Slots -> Requests]
  BY DEF Shape, ReqShape, Named
<1>2. Answer(c) => req'[c] = Idle /\ \A d \in Slots \ {c} : req'[d] = req[d]
  BY <1>1 DEF Answer, Go
<1>3. Idle.at = "idle" /\ Idle.cover = NoCover /\ Idle.saved = NoCover
  BY DEF Idle
<1>4. ASSUME NEW code, Refused(c, code)
      PROVE  /\ req'[c].at \in {"idle", "close"}
             /\ req'[c].cover = NoCover /\ req'[c].saved = NoCover
             /\ \A d \in Slots \ {c} : req'[d] = req[d]
  <2>1. CASE MeansGone(code)   BY <1>1, <1>4, <2>1 DEF Refused, Go, Idle
  <2>2. CASE ~MeansGone(code)  BY <1>2, <1>3, <1>4, <2>2 DEF Refused
  <2> QED BY <2>1, <2>2
<1> QED BY <1>2, <1>4

\* What the steps that have no say in it do.
LEMMA Bystanders ==
  ASSUME Shape, NEW c \in Slots,
         \/ Begin(c) \/ OpenList(c) \/ OpenPage(c) \/ ProviderFails(c)
         \/ /\ Step(c)
            /\ ~(AddIsNew(c) \/ SendAdd(c) \/ AddRow(c) \/ SendRemove(c) \/ RemoveRow(c) \/ WriteOne(c))
  PROVE  /\ UNCHANGED <<list, raced, missed, resent>>
         /\ event'.there => event.there /\ rows' = rows
         /\ Elsewhere(c)
<1> USE Ending DEF Elsewhere
<1>1. req \in [Slots -> Requests] /\ event \in EventRows
  BY DEF Shape, ReqShape, EventShape, Named
<1>2. Idle.at = "idle"
  BY DEF Idle
<1>3. CASE Begin(c)
  <2>1. UNCHANGED <<list, raced, missed, resent>> /\ (event'.there => event.there /\ rows' = rows)
    BY <1>1, <1>3 DEF Begin, StartAdd, StartRemove, StartClose, StartReopen, StartUpload,
       StartDropCover, Revoke, Regenerate, Rename, Delete, AtOnce, provVars, history, EventRows
  <2>2. req[c] = Idle
    BY <1>3 DEF Begin, StartAdd, StartRemove, StartClose, StartReopen, StartUpload,
       StartDropCover, Revoke, Regenerate, Rename, Delete, AtOnce, Take
  <2>3. req'[c].at \notin {"send", "row"} /\ \A d \in Slots \ {c} : req'[d] = req[d]
    <3> USE <1>1 DEF Take, Idle
    <3>1. CASE StartAdd(c)                      BY <3>1 DEF StartAdd
    <3>6. CASE StartRemove(c)                   BY <3>6 DEF StartRemove
    <3>2. CASE StartClose(c) \/ StartReopen(c)  BY <3>2 DEF StartClose, StartReopen
    <3>3. CASE StartUpload(c)                   BY <3>3 DEF StartUpload
    <3>4. CASE StartDropCover(c)                BY <3>4 DEF StartDropCover
    <3>5. CASE Revoke(c) \/ Regenerate(c) \/ Rename(c) \/ Delete(c)
      BY <3>5 DEF Revoke, Regenerate, Rename, Delete, AtOnce
    <3> QED BY <1>3, <3>1, <3>2, <3>3, <3>4, <3>5, <3>6 DEF Begin
  <2> QED BY <1>2, <2>1, <2>2, <2>3
<1>4. CASE OpenList(c) \/ OpenPage(c)
  <2>1. UNCHANGED <<list, raced, missed, resent, event, rows>> /\ req[c] = Idle
    BY <1>4 DEF OpenList, OpenPage, provVars, history
  <2>2. CASE OpenList(c)
    <3>1. CASE alive
      <4>1. \A h : [Idle EXCEPT !.at = "local", !.heard = h].at = "local"
        BY DEF Idle
      <4>2. req' = [req EXCEPT ![c] = [Idle EXCEPT !.at = "local", !.heard = Held]]
        BY <2>2, <3>1 DEF OpenList, Go
      <4>3. req'[c].at = "local" /\ \A d \in Slots \ {c} : req'[d] = req[d]
        BY <1>1, <4>1, <4>2
      <4> QED BY <1>2, <2>1, <4>3
    <3>2. CASE ~alive  BY <1>2, <2>1, <2>2, <3>2 DEF OpenList
    <3> QED BY <3>1, <3>2
  <2>3. CASE OpenPage(c)  BY <1>1, <1>2, <2>1, <2>3 DEF OpenPage, Go, Idle
  <2> QED BY <1>4, <2>1, <2>2, <2>3
<1>5. CASE ProviderFails(c)
  BY <1>5 DEF ProviderFails, provVars, history
<1>6. CASE RemoveIsKnown(c) \/ ReadLocal(c) \/ ReadToClose(c)
  <2>1. UNCHANGED <<list, raced, missed, resent, event, rows>> /\ req[c].at # "row"
    BY <1>6 DEF RemoveIsKnown, ReadLocal, ReadToClose, provVars, history
  <2>2. Answer(c) => Elsewhere(c)
    BY <1>2, <2>1
  <2>3. CASE RemoveIsKnown(c)
    BY <1>1, <2>1, <2>2, <2>3 DEF RemoveIsKnown, Goto, Go, Requests
  <2>4. CASE ReadLocal(c)
    <3>1. ASSUME ~Answer(c) PROVE req'[c].at = "write" /\ \A d \in Slots \ {c} : req'[d] = req[d]
      BY <1>1, <2>4, <3>1 DEF ReadLocal, Go, Idle
    <3> QED BY <2>1, <2>2, <3>1
  <2>5. CASE ReadToClose(c)
    BY <1>1, <2>1, <2>2, <2>5 DEF ReadToClose, Goto, Go, Requests
  <2> QED BY <1>6, <2>1, <2>3, <2>4, <2>5
<1>7. CASE WriteClose(c) \/ WriteReopen(c) \/ WriteName(c) \/ WriteCover(c)
  <2>1. UNCHANGED <<list, raced, missed, resent, rows>> /\ req[c].at # "row" /\ Answer(c)
    BY <1>7 DEF WriteClose, WriteReopen, WriteName, WriteCover, provVars, history
  <2>2. event'.there = event.there
    BY <1>1, <1>7 DEF WriteClose, WriteReopen, Reopened, WriteName, WriteCover, EventRows
  <2> QED BY <1>2, <2>1, <2>2
<1>8. CASE DeleteFile(c) \/ SaveFile(c)
  <2>1. UNCHANGED <<list, raced, missed, resent, event, rows>> /\ req[c].at # "row"
    BY <1>8 DEF DeleteFile, SaveFile, provVars, history
  <2>2. CASE DeleteFile(c)  BY <1>1, <2>1, <2>2 DEF DeleteFile, Goto, Go, Requests
  <2>3. CASE SaveFile(c)    BY <1>1, <1>2, <2>1, <2>3 DEF SaveFile, Goto, Go, Requests
  <2> QED BY <1>8, <2>1, <2>2, <2>3
<1> QED BY <1>3, <1>4, <1>5, <1>6, <1>7, <1>8 DEF Step

\* Of a song that neither was raced for, nor added again, nor out of the table's sight.
Followed(s) ==
  /\ list[s] \in {0, 1}
  /\ list[s] = 1 => s \in rows \/ \E c \in Slots : req[c].at = "row" /\ req[c].song = s
  /\ \A c, d \in Slots : req[c].at \in {"send", "row"} /\ req[c].song = s
                        /\ req[d].at \in {"send", "row"} /\ req[d].song = s => c = d
  /\ \A c \in Slots : req[c].at = "send" /\ req[c].song = s => list[s] = 0

FollowedInv == event.there => \A s \in Songs \ (raced \cup missed \cup resent) : Followed(s)

LEMMA BystandersFollow ==
  ASSUME Shape, FollowedInv, NEW c \in Slots, Elsewhere(c), UNCHANGED <<list, raced, missed, resent>>,
         event'.there => event.there /\ rows' = rows
  PROVE  FollowedInv'
<1> SUFFICES ASSUME event'.there, NEW s \in Songs \ (raced \cup missed \cup resent) PROVE Followed(s)'
  BY DEF FollowedInv
<1>1. Followed(s)
  BY DEF FollowedInv
<1>2. \A d \in Slots : req'[d].at \in {"send", "row"} => req'[d] = req[d]
  BY DEF Elsewhere
<1>3. \A d \in Slots : req[d].at = "row" => req'[d] = req[d]
  BY DEF Elsewhere
<1> QED BY <1>1, <1>2, <1>3 DEF Followed

LEMMA FollowedNext == Shape /\ FollowedInv /\ [Next]_vars => FollowedInv'
<1> SUFFICES ASSUME Shape, FollowedInv, [Next]_vars, event'.there PROVE FollowedInv'
  BY DEF FollowedInv
<1>1. req \in [Slots -> Requests] /\ list \in [Songs -> Nat] /\ event \in EventRows
  BY DEF Shape, ReqShape, EventShape, ListShape, Named
<1>2. Idle.at = "idle"
  BY DEF Idle
<1>3. ASSUME NEW c \in Slots, req[c].at \in AboutASong PROVE req[c].song \in Songs
  BY <1>3 DEF Shape, ReqShape, Named
<1>4. CASE UNCHANGED vars
  BY <1>4 DEF vars, provVars, history, FollowedInv, Followed
<1>5. CASE AppEdits
  <2>1. UNCHANGED <<event, rows, req, raced, resent>>
    BY <1>5 DEF AppEdits
  <2>2. ASSUME NEW s \in Songs \ (raced \cup missed \cup resent)' PROVE s \notin raced \cup missed \cup resent /\ list'[s] \in {list[s], 0}
    <3>1. CASE \E x \in Songs : list' = [list EXCEPT ![x] = @ + 1] /\ missed' = missed \cup {x}
      BY <1>1, <2>1, <2>2, <3>1
    <3>2. CASE \E x \in Held : list' = [list EXCEPT ![x] = 0] /\ missed' = missed
      BY <1>1, <2>1, <2>2, <3>2 DEF Held
    <3>3. CASE UNCHANGED <<list, missed>>
      BY <2>1, <2>2, <3>3
    <3> QED BY <1>5, <3>1, <3>2, <3>3 DEF AppEdits
  <2> QED BY <2>1, <2>2 DEF FollowedInv, Followed
<1> SUFFICES ASSUME NEW c \in Slots,
                    Begin(c) \/ Step(c) \/ OpenList(c) \/ OpenPage(c) \/ ProviderFails(c) \/ AnswerLost(c) \/ CutOff(c)
             PROVE  FollowedInv'
  BY <1>4, <1>5 DEF Next
<1>6. CASE AddIsNew(c)
  <2>1. UNCHANGED <<list, rows, event, missed, resent>> /\ req[c].at = "add"
    BY <1>6 DEF AddIsNew, provVars
  <2>2. CASE req[c].song \in rows
    <3>1. UNCHANGED raced /\ Answer(c)
      BY <1>6, <2>2 DEF AddIsNew, HasTrack
    <3> QED BY <1>2, <2>1, <3>1, Ending, BystandersFollow DEF Elsewhere
  <2>3. CASE req[c].song \notin rows
    <3> DEFINE t == req[c].song
    <3>1. req' = [req EXCEPT ![c] = [req[c] EXCEPT !.at = "send"]]
      BY <1>6, <2>3 DEF AddIsNew, HasTrack, Goto, Go
    <3>2. /\ req'[c].at = "send" /\ req'[c].song = t
          /\ \A d \in Slots \ {c} : req'[d] = req[d]
      BY <1>1, <3>1 DEF Requests
    <3>3. raced \subseteq raced'
      BY <1>6, <2>3 DEF AddIsNew, HasTrack
    <3>4. ASSUME NEW d \in Slots \ {c}, req[d].at \in {"add", "send", "row"}, req[d].song = t
          PROVE  t \in raced'
      BY <1>6, <2>3, <3>4 DEF AddIsNew, HasTrack
    <3>5. SUFFICES ASSUME NEW s \in Songs \ (raced \cup missed \cup resent)' PROVE Followed(s)'
      BY DEF FollowedInv
    <3>6. Followed(s)
      BY <2>1, <3>3, <3>5 DEF FollowedInv
    <3>7. CASE s # t
      BY <2>1, <3>2, <3>6, <3>7 DEF Followed
    <3>8. CASE s = t
      <4>1. \A d \in Slots \ {c} : req[d].at \in {"add", "send", "row"} => req[d].song # t
        BY <3>4, <3>5, <3>8
      <4>2. list[t] = 0
        BY <2>1, <2>3, <3>6, <3>8, <4>1 DEF Followed
      <4> QED BY <2>1, <3>2, <3>8, <4>1, <4>2 DEF Followed
    <3> QED BY <3>7, <3>8
  <2> QED BY <2>2, <2>3
<1>7. CASE SendAdd(c)
  <2> DEFINE t == req[c].song
  <2>1. UNCHANGED <<rows, event, raced, missed, resent>> /\ req[c].at = "send" /\ t \in Songs
    BY <1>3, <1>7 DEF SendAdd, history, AboutASong
  <2>2. CASE list' = [list EXCEPT ![t] = @ + 1] /\ Goto(c, "row")
    <3>1. /\ list' = [list EXCEPT ![t] = @ + 1]
          /\ req' = [req EXCEPT ![c] = [req[c] EXCEPT !.at = "row"]]
      BY <2>2 DEF Goto, Go
    <3>2. /\ req'[c].at = "row" /\ req'[c].song = t
          /\ \A d \in Slots \ {c} : req'[d] = req[d]
      BY <1>1, <3>1 DEF Requests
    <3>3. SUFFICES ASSUME NEW s \in Songs \ (raced \cup missed \cup resent) PROVE Followed(s)'
      BY <2>1 DEF FollowedInv
    <3>4. Followed(s)
      BY <2>1, <3>3 DEF FollowedInv
    <3>5. CASE s # t
      <4>1. list'[s] = list[s]  BY <1>1, <3>1, <3>5
      <4> QED BY <2>1, <3>2, <3>4, <3>5, <4>1 DEF Followed
    <3>6. CASE s = t
      <4>1. list[t] = 0  BY <2>1, <3>4, <3>6 DEF Followed
      <4>2. list'[t] = 1  BY <1>1, <2>1, <3>1, <4>1
      <4> QED BY <2>1, <3>2, <3>4, <3>6, <4>2 DEF Followed
    <3> QED BY <3>5, <3>6
  <2>3. CASE Refused(c, 404) /\ UNCHANGED list
    <3>1. Refused(c, 404) /\ UNCHANGED list
      BY <2>3
    <3>2. Elsewhere(c)
      BY <2>1, <3>1, Ending DEF Elsewhere
    <3> QED BY <2>1, <3>1, <3>2, BystandersFollow
  <2> QED BY <1>7, <2>2, <2>3 DEF SendAdd
<1>8. CASE AddRow(c)
  <2>1. /\ UNCHANGED <<list, event, raced, missed, resent>> /\ req[c].at = "row"
        /\ rows' = rows \cup {req[c].song}
    BY <1>8 DEF AddRow, provVars, history
  <2>2. req'[c].at = "idle" /\ \A d \in Slots \ {c} : req'[d] = req[d]
    BY <1>2, <1>8, Ending DEF AddRow
  <2>3. SUFFICES ASSUME NEW s \in Songs \ (raced \cup missed \cup resent) PROVE Followed(s)'
    BY <2>1 DEF FollowedInv
  <2>4. Followed(s)
    BY <2>1, <2>3 DEF FollowedInv
  <2> QED BY <2>1, <2>2, <2>4 DEF Followed
<1>9. CASE SendRemove(c)
  <2> DEFINE t == req[c].song
  <2>1. UNCHANGED <<rows, event, raced, missed, resent>> /\ req[c].at = "unsend" /\ t \in Songs
    BY <1>3, <1>9 DEF SendRemove, AboutASong
  <2>2. Elsewhere(c)
    <3>1. CASE \E code : Refused(c, code)
      BY <2>1, <3>1, Ending DEF Elsewhere
    <3>2. CASE req' = [req EXCEPT ![c] = [req[c] EXCEPT !.at = "unrow"]]
      BY <1>1, <2>1, <3>2 DEF Elsewhere, Requests
    <3> QED BY <1>9, <3>1, <3>2 DEF SendRemove, Goto, Go
  <2>3. UNCHANGED list \/ list' = Removed(t)
    BY <1>9 DEF SendRemove
  <2>4. SUFFICES ASSUME list' = Removed(t), ~(list[t] = 0 /\ service \in AbsentIs404) PROVE FollowedInv'
    <3>1. CASE UNCHANGED list
      BY <2>1, <2>2, <3>1, BystandersFollow
    <3> QED BY <1>9, <2>4, <3>1 DEF SendRemove
  <2>5. SUFFICES ASSUME NEW s \in Songs \ (raced \cup missed \cup resent) PROVE Followed(s)'
    BY <2>1 DEF FollowedInv
  <2>6. Followed(s)
    BY <2>1, <2>5 DEF FollowedInv
  <2>7. list'[s] \in {list[s], 0}
    BY <1>1, <2>1, <2>4, <2>6 DEF Removed, AbsentIs404, Followed
  <2> QED BY <2>1, <2>2, <2>6, <2>7 DEF Followed, Elsewhere
<1>10. CASE RemoveRow(c)
  <2> DEFINE t == req[c].song
  <2>1. /\ UNCHANGED <<list, event, raced, resent>> /\ req[c].at = "unrow" /\ rows' = rows \ {t}
        /\ missed' = IF list[t] > 0 THEN missed \cup {t} ELSE missed
    BY <1>10 DEF RemoveRow, provVars
  <2>2. req'[c].at = "idle" /\ \A d \in Slots \ {c} : req'[d] = req[d]
    BY <1>2, <1>10, Ending DEF RemoveRow
  <2>3. SUFFICES ASSUME NEW s \in Songs \ (raced \cup missed \cup resent)' PROVE Followed(s)'
    BY DEF FollowedInv
  <2>4. Followed(s) /\ (s = t => list[s] = 0)
    BY <1>1, <2>1, <2>3 DEF FollowedInv
  <2> QED BY <2>1, <2>2, <2>4 DEF Followed
<1>11. CASE WriteOne(c)
  <2>1. UNCHANGED <<list, event, raced, resent>> /\ req[c].at = "write"
    BY <1>11 DEF WriteOne, provVars
  <2>2. req'[c].at \in {"idle", "write"} /\ \A d \in Slots \ {c} : req'[d] = req[d]
    <3>1. PICK s : \/ Go(c, Idle) \/ Go(c, [req[c] EXCEPT !.add = @ \ {s}])
                  \/ Go(c, [req[c] EXCEPT !.drop = @ \ {s}])
      BY <1>11 DEF WriteOne
    <3>2. /\ [req[c] EXCEPT !.add = @ \ {s}].at = "write"
          /\ [req[c] EXCEPT !.drop = @ \ {s}].at = "write"
      BY <1>1, <2>1 DEF Requests
    <3> QED BY <1>1, <1>2, <3>1, <3>2 DEF Go
  <2>3. ASSUME NEW s \in Songs \ (raced \cup missed \cup resent)'
        PROVE  s \notin raced \cup missed \cup resent /\ (s \in rows => s \in rows' \/ list[s] = 0)
    <3>1. CASE missed' = missed /\ rows \subseteq rows'
      BY <2>1, <2>3, <3>1
    <3>2. CASE \E x : /\ rows' = rows \ {x}
                      /\ missed' = IF list[x] > 0 THEN missed \cup {x} ELSE missed
      BY <1>1, <2>1, <2>3, <3>2
    <3> QED BY <1>11, <3>1, <3>2 DEF WriteOne
  <2>4. SUFFICES ASSUME NEW s \in Songs \ (raced \cup missed \cup resent)' PROVE Followed(s)'
    BY DEF FollowedInv
  <2>5. Followed(s)
    BY <2>1, <2>3, <2>4 DEF FollowedInv
  <2> QED BY <2>1, <2>2, <2>3, <2>4, <2>5 DEF Followed
<1>12. CASE CutOff(c)
  <2>1. /\ UNCHANGED <<list, event, rows, raced, resent>>
        /\ missed' = IF req[c].at = "row" THEN missed \cup {req[c].song} ELSE missed
    BY <1>12 DEF CutOff, provVars
  <2>2. req'[c].at = "idle" /\ \A d \in Slots \ {c} : req'[d] = req[d]
    BY <1>2, <1>12, Ending DEF CutOff
  <2>3. SUFFICES ASSUME NEW s \in Songs \ (raced \cup missed \cup resent)' PROVE Followed(s)'
    BY DEF FollowedInv
  <2>4. Followed(s) /\ (req[c].at = "row" => req[c].song # s)
    BY <2>1, <2>3 DEF FollowedInv
  <2> QED BY <2>1, <2>2, <2>4 DEF Followed
<1>14. CASE AnswerLost(c)
  <2> DEFINE t == req[c].song
  <2>1. UNCHANGED <<rows, event, raced>> /\ req[c].at \in {"send", "unsend"} /\ t \in Songs
    BY <1>3, <1>14 DEF AnswerLost, AboutASong
  <2>2. UNCHANGED req \/ Elsewhere(c)
    BY <1>14, <2>1, Ending DEF AnswerLost, Elsewhere
  <2>3. missed \subseteq missed' /\ resent \subseteq resent'
    BY <1>14 DEF AnswerLost
  <2>4. SUFFICES ASSUME NEW s \in Songs \ (raced \cup missed \cup resent)' PROVE Followed(s)'
    BY DEF FollowedInv
  <2>5. Followed(s)
    BY <2>1, <2>3, <2>4 DEF FollowedInv
  <2>6. list'[s] \in {list[s], 0}
    <3>1. CASE list' = [list EXCEPT ![t] = @ + 1] /\ t \in (missed \cup resent)'
      BY <1>1, <2>1, <2>4, <3>1
    <3>2. CASE list' = Removed(t) /\ list[t] > 0
      BY <1>1, <2>1, <2>5, <3>2 DEF Removed, Followed
    <3> QED BY <1>14, <3>1, <3>2 DEF AnswerLost
  <2>7. CASE UNCHANGED req
    BY <2>1, <2>5, <2>6, <2>7 DEF Followed
  <2>8. CASE Elsewhere(c)
    BY <2>1, <2>5, <2>6, <2>8 DEF Followed, Elsewhere
  <2> QED BY <2>2, <2>7, <2>8
<1>13. CASE ~(AddIsNew(c) \/ SendAdd(c) \/ AddRow(c) \/ SendRemove(c) \/ RemoveRow(c) \/ WriteOne(c)
              \/ CutOff(c) \/ AnswerLost(c))
  BY <1>13, Bystanders, BystandersFollow
<1> QED BY <1>6, <1>7, <1>8, <1>9, <1>10, <1>11, <1>12, <1>13, <1>14

\* While the event is there, the playlist holds a song twice only if two adds
\* of it were under way at once, the table had lost sight of it, or an add that
\* had landed was sent again for want of an answer: whatever else overlaps, the
\* hasTrack check and the order of the two writes suffice.
THEOREM NoDoublesButRaced == Spec => []NoDoubles
<1>1. Init => FollowedInv
  BY DEF Init, FollowedInv, Followed, Idle
<1>2. FollowedInv => NoDoubles
  BY DEF FollowedInv, Followed, NoDoubles
<1> QED BY <1>1, <1>2, InitShape, NextShape, FollowedNext, PTL DEF Spec

-----------------------------------------------------------------------------
(* The cover. *)

\* Every upload has a name of its own for its file, that nothing but it, and
\* later the row, has: so no request deletes what another has saved.
Numbered ==
  /\ event.cover <= requests
  /\ \A c \in Slots : req[c].cover <= requests /\ req[c].saved <= requests
OwnName(c) ==
  /\ event.cover # req[c].saved
  /\ \A d \in Slots : req[d].cover # req[c].saved /\ (d # c => req[d].saved # req[c].saved)
NamesOwned == \A c \in Slots : req[c].saved # NoCover => OwnName(c)
SavedIsThere ==
  \A c \in Slots : /\ req[c].at = "cover" /\ req[c].saved # NoCover => req[c].saved \in files
                   /\ req[c].at = "discard" => req[c].saved = NoCover
CoverInv == Numbered /\ NamesOwned /\ SavedIsThere /\ CoverIsThere

\* Slot c does nothing about a cover: it takes up no other, and neither is
\* nor gets where one is deleted, saved or written.
NoCoverWork(c) ==
  /\ req[c].at \notin {"save", "cover"} /\ req'[c].at \notin {"save", "cover", "discard"}
  /\ req'[c].cover \in {NoCover, req[c].cover} /\ req'[c].saved \in {NoCover, req[c].saved}
  /\ \A d \in Slots \ {c} : req'[d] = req[d]

LEMMA NoCoverWorkKeeps ==
  ASSUME Shape, CoverInv, NEW c \in Slots, NoCoverWork(c), requests' \in Nat, requests <= requests',
         UNCHANGED <<files, spoilt>>, event'.cover = event.cover, event'.there => event.there
  PROVE  CoverInv'
<1>1. req \in [Slots -> Requests] /\ event \in EventRows /\ requests \in Nat
  BY DEF Shape, ReqShape, EventShape, Counts, Named
<1>2. \A d \in Slots : req[d].cover \in Nat /\ req[d].saved \in Nat
  BY <1>1 DEF Requests, Covers, NoCover
<1>3. event.cover \in Nat
  BY <1>1 DEF EventRows, Covers, NoCover
<1>4. Numbered'
  BY <1>1, <1>2, <1>3 DEF CoverInv, Numbered, NoCoverWork, NoCover
<1>5. NamesOwned'
  BY <1>1, <1>2, <1>3 DEF CoverInv, NamesOwned, OwnName, NoCoverWork, NoCover
<1>6. SavedIsThere'
  BY DEF CoverInv, SavedIsThere, NoCoverWork
<1>7. CoverIsThere'
  <2>1. ASSUME NEW d \in Slots, req[d].at \in {"save", "cover"}
        PROVE  req'[d] = req[d]
    BY <2>1 DEF NoCoverWork
  <2> QED BY <2>1 DEF CoverInv, CoverIsThere
<1> QED BY <1>4, <1>5, <1>6, <1>7 DEF CoverInv

\* The steps that have nothing to do with a cover.
LEMMA CoverBystanders ==
  ASSUME Shape, NEW c \in Slots,
         \/ Begin(c) /\ ~(StartUpload(c) \/ StartDropCover(c))
         \/ OpenList(c) \/ OpenPage(c) \/ ProviderFails(c) \/ AnswerLost(c)
         \/ Step(c) /\ ~(DeleteFile(c) \/ SaveFile(c) \/ WriteCover(c))
  PROVE  /\ UNCHANGED <<files, spoilt>> /\ event'.cover = event.cover /\ (event'.there => event.there)
         /\ requests' \in {requests, requests + 1}
         /\ NoCoverWork(c)
<1>1. req \in [Slots -> Requests] /\ event \in EventRows
  BY DEF Shape, ReqShape, EventShape, Named
<1>2. Idle.at = "idle" /\ Idle.cover = NoCover /\ Idle.saved = NoCover
  BY DEF Idle
<1>3. Answer(c) /\ req[c].at \notin {"save", "cover"} => NoCoverWork(c)
  BY <1>2, Ending DEF NoCoverWork
<1>4. ASSUME NEW code, Refused(c, code), req[c].at \notin {"save", "cover"} PROVE NoCoverWork(c)
  BY <1>4, Ending DEF NoCoverWork
<1>5. ASSUME NEW at, at \notin {"save", "cover", "discard"}, req[c].at \notin {"save", "cover"},
             req' = [req EXCEPT ![c] = [req[c] EXCEPT !.at = at]]
      PROVE  NoCoverWork(c)
  <2>1. /\ [req[c] EXCEPT !.at = at].at = at
        /\ [req[c] EXCEPT !.at = at].cover = req[c].cover
        /\ [req[c] EXCEPT !.at = at].saved = req[c].saved
    BY <1>1 DEF Requests
  <2> QED BY <1>1, <1>5, <2>1 DEF NoCoverWork
<1>6. ASSUME NEW r, r.at \notin {"save", "cover", "discard"}, r.cover = NoCover, r.saved = NoCover,
             req[c].at \notin {"save", "cover"}, req' = [req EXCEPT ![c] = r]
      PROVE  NoCoverWork(c)
  BY <1>1, <1>6 DEF NoCoverWork
<1>7. CASE Begin(c) /\ ~(StartUpload(c) \/ StartDropCover(c))
  <2>1. /\ UNCHANGED <<files, spoilt>> /\ event'.cover = event.cover /\ (event'.there => event.there)
        /\ requests' = requests + 1 /\ req[c] = Idle
    <3>1. CASE StartAdd(c) \/ StartRemove(c) \/ StartClose(c) \/ StartReopen(c)
      BY <3>1 DEF StartAdd, StartRemove, StartClose, StartReopen, Take, history
    <3>2. CASE Revoke(c) \/ Regenerate(c) \/ Rename(c) \/ Delete(c)
      BY <1>1, <3>2 DEF Revoke, Regenerate, Rename, Delete, AtOnce, history, EventRows
    <3> QED BY <1>7, <3>1, <3>2 DEF Begin
  <2>2. NoCoverWork(c)
    <3> USE <1>2, <2>1 DEF Take, Idle
    <3>1. CASE StartAdd(c)     BY <1>6, <3>1 DEF StartAdd
    <3>2. CASE StartRemove(c)  BY <1>6, <3>2 DEF StartRemove
    <3>3. CASE StartClose(c)   BY <1>6, <3>3 DEF StartClose
    <3>4. CASE StartReopen(c)  BY <1>6, <3>4 DEF StartReopen
    <3>5. CASE Revoke(c) \/ Regenerate(c) \/ Rename(c) \/ Delete(c)
      BY <3>5 DEF Revoke, Regenerate, Rename, Delete, AtOnce, NoCoverWork
    <3> QED BY <1>7, <3>1, <3>2, <3>3, <3>4, <3>5 DEF Begin
  <2> QED BY <2>1, <2>2
<1>8. CASE OpenList(c) \/ OpenPage(c)
  <2>1. UNCHANGED <<files, spoilt, event, requests>> /\ req[c] = Idle
    BY <1>8 DEF OpenList, OpenPage, history, counters
  <2>2. CASE OpenList(c)
    <3>1. CASE alive
      <4>1. \A h : /\ [Idle EXCEPT !.at = "local", !.heard = h].at = "local"
                   /\ [Idle EXCEPT !.at = "local", !.heard = h].cover = NoCover
                   /\ [Idle EXCEPT !.at = "local", !.heard = h].saved = NoCover
        BY DEF Idle
      <4>2. req' = [req EXCEPT ![c] = [Idle EXCEPT !.at = "local", !.heard = Held]]
        BY <2>2, <3>1 DEF OpenList, Go
      <4>3. \E h : req' = [req EXCEPT ![c] = [Idle EXCEPT !.at = "local", !.heard = h]]
        BY <4>2
      <4>4. PICK h : req' = [req EXCEPT ![c] = [Idle EXCEPT !.at = "local", !.heard = h]]
        BY <4>3
      <4>5. NoCoverWork(c)
        BY <1>1, <1>2, <2>1, <4>1, <4>4 DEF NoCoverWork
      <4> QED BY <2>1, <4>5
    <3>2. CASE ~alive
      <4>1. Refused(c, 404)  BY <2>2, <3>2 DEF OpenList
      <4> QED BY <1>2, <1>4, <2>1, <4>1
    <3> QED BY <3>1, <3>2
  <2>3. CASE OpenPage(c)
    BY <1>2, <1>6, <2>1, <2>3 DEF OpenPage, Go, Idle
  <2> QED BY <1>8, <2>1, <2>2, <2>3
<1>9. CASE ProviderFails(c)
  BY <1>4, <1>9 DEF ProviderFails, history
<1>13. CASE AnswerLost(c)
  <2>1. UNCHANGED <<files, spoilt, event, requests>> /\ req[c].at \in {"send", "unsend"}
    BY <1>13 DEF AnswerLost
  <2>2. UNCHANGED req \/ Refused(c, 502)
    BY <1>13 DEF AnswerLost
  <2>3. CASE UNCHANGED req  BY <2>1, <2>3 DEF NoCoverWork
  <2> QED BY <1>4, <2>1, <2>2, <2>3
<1>10. CASE AddIsNew(c) \/ SendAdd(c) \/ AddRow(c) \/ RemoveIsKnown(c) \/ SendRemove(c) \/ RemoveRow(c)
  <2>1. UNCHANGED <<files, spoilt, event, requests>> /\ req[c].at \notin {"save", "cover"}
    BY <1>10 DEF AddIsNew, SendAdd, AddRow, RemoveIsKnown, SendRemove, RemoveRow, history, counters
  <2>2. \/ Answer(c) \/ Refused(c, 404)
        \/ \E at \in {"send", "row", "unsend", "unrow"} : req' = [req EXCEPT ![c] = [req[c] EXCEPT !.at = at]]
    BY <1>10 DEF AddIsNew, SendAdd, AddRow, RemoveIsKnown, SendRemove, RemoveRow, Goto, Go
  <2> QED BY <1>3, <1>4, <1>5, <2>1, <2>2
<1>11. CASE ReadLocal(c) \/ WriteOne(c)
  <2>1. UNCHANGED <<files, spoilt, event, requests>> /\ req[c].at \notin {"save", "cover", "discard"}
    BY <1>11 DEF ReadLocal, WriteOne, history, counters
  <2>2. CASE ReadLocal(c)
    <3>1. CASE Answer(c)  BY <1>3, <2>1, <3>1
    <3>2. CASE ~Answer(c)
      BY <1>6, <2>1, <2>2, <3>2 DEF ReadLocal, Go, Idle
    <3> QED BY <2>1, <3>1, <3>2
  <2>3. CASE WriteOne(c)
    <3>1. ASSUME NEW s
          PROVE  LET a == [req[c] EXCEPT !.add = @ \ {s}]  b == [req[c] EXCEPT !.drop = @ \ {s}] IN
                 /\ a.at = req[c].at /\ a.cover = req[c].cover /\ a.saved = req[c].saved
                 /\ b.at = req[c].at /\ b.cover = req[c].cover /\ b.saved = req[c].saved
      BY <1>1 DEF Requests
    <3>2. PICK s : \/ Go(c, Idle) \/ Go(c, [req[c] EXCEPT !.add = @ \ {s}])
                  \/ Go(c, [req[c] EXCEPT !.drop = @ \ {s}])
      BY <2>3 DEF WriteOne
    <3>3. NoCoverWork(c)
      <4>1. CASE Go(c, Idle)
        BY <1>3, <2>1, <4>1 DEF Answer
      <4>2. CASE Go(c, [req[c] EXCEPT !.add = @ \ {s}])
        BY <1>1, <2>1, <3>1, <4>2 DEF Go, NoCoverWork
      <4>3. CASE Go(c, [req[c] EXCEPT !.drop = @ \ {s}])
        BY <1>1, <2>1, <3>1, <4>3 DEF Go, NoCoverWork
      <4> QED BY <3>2, <4>1, <4>2, <4>3
    <3> QED BY <2>1, <3>3
  <2> QED BY <1>11, <2>2, <2>3
<1>12. CASE ReadToClose(c) \/ WriteClose(c) \/ WriteReopen(c) \/ WriteName(c)
  <2>1. UNCHANGED <<files, spoilt, requests>> /\ req[c].at \notin {"save", "cover"}
    BY <1>12 DEF ReadToClose, WriteClose, WriteReopen, WriteName, history, counters
  <2>2. event'.cover = event.cover /\ event'.there = event.there
    BY <1>1, <1>12 DEF ReadToClose, WriteClose, WriteReopen, Reopened, WriteName, EventRows
  <2>3. \/ Answer(c)
        \/ \E at \in {"reason", "closing"} : req' = [req EXCEPT ![c] = [req[c] EXCEPT !.at = at]]
    BY <1>12 DEF ReadToClose, WriteClose, WriteReopen, WriteName, Goto, Go
  <2> QED BY <1>3, <1>5, <2>1, <2>2, <2>3
<1> QED BY <1>7, <1>8, <1>9, <1>10, <1>11, <1>12, <1>13 DEF Step

LEMMA CoverNext == Shape /\ CoverInv /\ [Next]_vars => CoverInv'
<1> SUFFICES ASSUME Shape, CoverInv, [Next]_vars PROVE CoverInv'
  OBVIOUS
<1>1. req \in [Slots -> Requests] /\ event \in EventRows /\ requests \in Nat
  BY DEF Shape, ReqShape, EventShape, Counts, Named
<1>2. Idle.at = "idle" /\ Idle.cover = NoCover /\ Idle.saved = NoCover
  BY DEF Idle
<1>3. /\ \A d \in Slots : req[d].cover \in Nat /\ req[d].saved \in Nat
      /\ event.cover \in Nat /\ NoCover = 0
  BY <1>1 DEF Requests, EventRows, Covers, NoCover
<1>4. CASE UNCHANGED vars \/ AppEdits
  <2>1. UNCHANGED <<event, files, req, requests, spoilt>>
    BY <1>4 DEF vars, AppEdits, history, counters
  <2> QED BY <2>1 DEF CoverInv, Numbered, NamesOwned, OwnName, SavedIsThere, CoverIsThere
<1> SUFFICES ASSUME NEW c \in Slots,
                    Begin(c) \/ Step(c) \/ OpenList(c) \/ OpenPage(c) \/ ProviderFails(c) \/ AnswerLost(c) \/ CutOff(c)
             PROVE  CoverInv'
  BY <1>4 DEF Next
<1>6. CASE StartUpload(c)
  <2>1. /\ UNCHANGED <<event, files, spoilt>> /\ requests' = requests + 1 /\ req[c] = Idle
        /\ req' = [req EXCEPT ![c] = [Idle EXCEPT !.at = IF event.cover = NoCover THEN "save" ELSE "unlink",
                          !.cover = event.cover, !.saved = requests + 1]]
    BY <1>6 DEF StartUpload, Take, history
  <2>2. /\ req'[c].at # "cover" /\ req'[c].cover = event.cover /\ req'[c].saved = requests + 1
        /\ \A d \in Slots \ {c} : req'[d] = req[d]
    BY <1>1, <2>1 DEF Idle
  <2>3. Numbered'
    BY <1>1, <1>3, <2>1, <2>2 DEF CoverInv, Numbered
  <2>4. NamesOwned'
    BY <1>1, <1>3, <2>1, <2>2 DEF CoverInv, Numbered, NamesOwned, OwnName
  <2>5. SavedIsThere'
    BY <2>1, <2>2 DEF CoverInv, SavedIsThere
  <2>6. CoverIsThere'
    BY <1>2, <2>1, <2>2 DEF CoverInv, CoverIsThere
  <2> QED BY <2>3, <2>4, <2>5, <2>6 DEF CoverInv
<1>7. CASE StartDropCover(c)
  <2>1. /\ UNCHANGED <<event, files, spoilt>> /\ requests' = requests + 1 /\ req[c] = Idle
        /\ req' = [req EXCEPT ![c] = [Idle EXCEPT !.at = IF event.cover = NoCover THEN "cover" ELSE "discard",
                          !.cover = event.cover]]
    BY <1>7 DEF StartDropCover, Take, history
  <2>2. /\ req'[c].cover = event.cover /\ req'[c].saved = NoCover
        /\ \A d \in Slots \ {c} : req'[d] = req[d]
    BY <1>1, <2>1 DEF Idle
  <2>3. Numbered'
    BY <1>1, <1>3, <2>1, <2>2 DEF CoverInv, Numbered
  <2>4. NamesOwned'
    BY <1>1, <1>3, <2>1, <2>2 DEF CoverInv, Numbered, NamesOwned, OwnName
  <2>5. SavedIsThere'
    BY <2>1, <2>2 DEF CoverInv, SavedIsThere
  <2>6. CoverIsThere'
    BY <1>2, <2>1, <2>2 DEF CoverInv, CoverIsThere
  <2> QED BY <2>3, <2>4, <2>5, <2>6 DEF CoverInv
<1>8. CASE DeleteFile(c)
  <2> DEFINE at == IF req[c].at = "unlink" THEN "save" ELSE "cover"
  <2>1. /\ UNCHANGED <<event, spoilt, requests>> /\ files' = files \ {req[c].cover}
        /\ req[c].at \in {"unlink", "discard"} /\ req' = [req EXCEPT ![c] = [req[c] EXCEPT !.at = at]]
    BY <1>8 DEF DeleteFile, Goto, Go, history, counters
  <2>2. /\ req'[c].at = at /\ req'[c].cover = req[c].cover /\ req'[c].saved = req[c].saved
        /\ \A d \in Slots \ {c} : req'[d] = req[d]
    BY <1>1, <2>1 DEF Requests
  <2>3. Numbered' /\ NamesOwned'
    BY <1>1, <1>3, <2>1, <2>2 DEF CoverInv, Numbered, NamesOwned, OwnName
  <2>4. SavedIsThere'
    <3>1. ASSUME NEW d \in Slots \ {c}, req[d].saved # NoCover PROVE req[c].cover # req[d].saved
      BY <3>1 DEF CoverInv, NamesOwned, OwnName
    <3>2. req'[c].at = "cover" => req'[c].saved = NoCover
      BY <2>1, <2>2 DEF CoverInv, SavedIsThere
    <3>3. req'[c].at # "discard"
      BY <2>2
    <3> QED BY <2>1, <2>2, <3>1, <3>2, <3>3 DEF CoverInv, SavedIsThere
  <2>5. CoverIsThere'
    BY <2>1, <2>2 DEF CoverInv, CoverIsThere
  <2> QED BY <2>3, <2>4, <2>5 DEF CoverInv
<1>9. CASE SaveFile(c)
  <2>1. UNCHANGED <<event, requests>> /\ req[c].at = "save"
    BY <1>9 DEF SaveFile, counters
  <2>2. CASE /\ files' = files \cup {req[c].saved} /\ spoilt' = spoilt
             /\ req' = [req EXCEPT ![c] = [req[c] EXCEPT !.at = "cover"]]
    <3>1. /\ req'[c].at = "cover" /\ req'[c].cover = req[c].cover /\ req'[c].saved = req[c].saved
          /\ \A d \in Slots \ {c} : req'[d] = req[d]
      BY <1>1, <2>2 DEF Requests
    <3>2. Numbered' /\ NamesOwned'
      BY <1>1, <1>3, <2>1, <3>1 DEF CoverInv, Numbered, NamesOwned, OwnName
    <3>3. SavedIsThere'
      BY <2>2, <3>1 DEF CoverInv, SavedIsThere
    <3>4. CoverIsThere'
      BY <2>1, <2>2, <3>1 DEF CoverInv, CoverIsThere
    <3> QED BY <3>2, <3>3, <3>4 DEF CoverInv
  <2>3. CASE Answer(c) /\ UNCHANGED files /\ spoilt' = spoilt \cup {req[c].cover}
    <3>1. req'[c] = Idle /\ \A d \in Slots \ {c} : req'[d] = req[d]
      BY <2>3, Ending
    <3>2. Numbered' /\ NamesOwned'
      BY <1>1, <1>2, <1>3, <2>1, <3>1 DEF CoverInv, Numbered, NamesOwned, OwnName
    <3>3. SavedIsThere'
      BY <1>2, <2>3, <3>1 DEF CoverInv, SavedIsThere
    <3>4. CoverIsThere'
      BY <1>2, <2>1, <2>3, <3>1 DEF CoverInv, CoverIsThere
    <3> QED BY <3>2, <3>3, <3>4 DEF CoverInv
  <2> QED BY <1>9, <2>2, <2>3 DEF SaveFile, Goto, Go
<1>10. CASE WriteCover(c)
  <2>1. /\ UNCHANGED <<files, spoilt, requests>> /\ req[c].at = "cover"
        /\ event' = [event EXCEPT !.cover = IF event.there THEN req[c].saved ELSE @]
    BY <1>10 DEF WriteCover, CoverWritten, history, counters
  <2>2. req'[c] = Idle /\ \A d \in Slots \ {c} : req'[d] = req[d]
    BY <1>10, Ending DEF WriteCover
  <2>3. /\ event'.there = event.there /\ event'.cover \in {event.cover, req[c].saved}
        /\ event.there => event'.cover = req[c].saved
    BY <1>1, <2>1 DEF EventRows
  <2>4. Numbered' /\ NamesOwned'
    BY <1>1, <1>2, <1>3, <2>1, <2>2, <2>3 DEF CoverInv, Numbered, NamesOwned, OwnName
  <2>5. SavedIsThere'
    BY <1>2, <2>1, <2>2 DEF CoverInv, SavedIsThere
  <2>6. CoverIsThere'
    BY <2>1, <2>3 DEF CoverInv, SavedIsThere, CoverIsThere
  <2> QED BY <2>4, <2>5, <2>6 DEF CoverInv
<1>11. CASE CutOff(c)
  <2>1. /\ UNCHANGED <<event, files, requests>>
        /\ spoilt' = IF req[c].at \in {"save", "cover"} THEN spoilt \cup {req[c].cover} ELSE spoilt
    BY <1>11 DEF CutOff
  <2>2. req'[c] = Idle /\ \A d \in Slots \ {c} : req'[d] = req[d]
    BY <1>11, Ending DEF CutOff
  <2>3. Numbered' /\ NamesOwned'
    BY <1>1, <1>2, <1>3, <2>1, <2>2 DEF CoverInv, Numbered, NamesOwned, OwnName
  <2>4. SavedIsThere'
    BY <1>2, <2>1, <2>2 DEF CoverInv, SavedIsThere
  <2>5. CoverIsThere'
    BY <1>2, <2>1, <2>2 DEF CoverInv, CoverIsThere
  <2> QED BY <2>3, <2>4, <2>5 DEF CoverInv
<1>12. CASE ~(StartUpload(c) \/ StartDropCover(c) \/ DeleteFile(c) \/ SaveFile(c) \/ WriteCover(c)
              \/ CutOff(c))
  <2>1. /\ UNCHANGED <<files, spoilt>> /\ event'.cover = event.cover /\ (event'.there => event.there)
        /\ requests' \in {requests, requests + 1} /\ NoCoverWork(c)
    BY <1>12, CoverBystanders
  <2> QED BY <1>1, <2>1, NoCoverWorkKeeps
<1> QED BY <1>6, <1>7, <1>8, <1>9, <1>10, <1>11, <1>12

\* The row names a cover that is on disk, except from the deletion of the old
\* file to the write of the row, and for good when that upload got no further:
\* two uploads at once (uploadEventCover) cannot leave it without.
THEOREM CoverStaysThere == Spec => []CoverIsThere
<1>1. Init => CoverInv
  BY EventBounds DEF Init, CoverInv, Numbered, NamesOwned, SavedIsThere, CoverIsThere, Idle, NoCover
<1>2. CoverInv => CoverIsThere
  BY DEF CoverInv
<1> QED BY <1>1, <1>2, InitShape, NextShape, CoverNext, PTL DEF Spec
-----------------------------------------------------------------------------
(* Types, and how often the playlist may hold a song. *)

\* The requests that may still add a song.
Adding == {c \in Slots : req[c].at \in {"add", "send"}}

\* Every copy of a song but the first was paid for by a request, an edit or an
\* answer that was lost.
PaidFor ==
  /\ IsFiniteSet(Adding)
  /\ \A s \in Songs : list[s] + Cardinality(Adding) <= 1 + requests + edits + faults

\* An upload has a name for its file.
Uploading == \A c \in Slots : req[c].at \in {"unlink", "save"} => req[c].saved # NoCover

Playlist  == service \in Services /\ alive \in BOOLEAN /\ files \subseteq Covers
Counters  == edits \in 0..MaxEdits /\ faults \in 0..MaxFaults
Histories ==
  /\ raced \subseteq Songs /\ missed \subseteq Songs /\ resent \subseteq Songs /\ spoilt \subseteq Covers \cup {NoCover}
  /\ mistaken \in BOOLEAN /\ crossed \in BOOLEAN

TypeInv == PaidFor /\ Uploading /\ Playlist /\ Counters /\ Histories

\* A request under way goes on: only its own slot changes, and it neither
\* becomes an addition nor an upload.
LEMMA SlotGoesOn ==
  ASSUME Shape, NEW c \in Slots,
         Step(c) \/ OpenList(c) \/ OpenPage(c) \/ ProviderFails(c) \/ AnswerLost(c) \/ CutOff(c)
  PROVE  /\ \A d \in Slots \ {c} : req'[d] = req[d]
         /\ req'[c].at \notin {"add", "unlink"}
         /\ req'[c].at = "send" => req[c].at \in {"add", "send"}
         /\ req'[c].at = "save" => req[c].at = "unlink" /\ req'[c].saved = req[c].saved
<1> DEFINE Fine == /\ \A d \in Slots \ {c} : req'[d] = req[d]
                   /\ req'[c].at \notin {"add", "unlink"}
                   /\ req'[c].at = "send" => req[c].at \in {"add", "send"}
                   /\ req'[c].at = "save" => req[c].at = "unlink" /\ req'[c].saved = req[c].saved
<1>1. req \in [Slots -> Requests]
  BY DEF Shape, ReqShape, Named
<1>2. Answer(c) => Fine
  <2>1. Idle.at = "idle"  BY DEF Idle
  <2> QED BY <2>1, Ending
<1>3. ASSUME NEW code, Refused(c, code) PROVE Fine
  BY <1>3, Ending
<1>4. ASSUME NEW at, Goto(c, at), at \notin {"add", "unlink", "send", "save"} PROVE Fine
  <2>1. [req[c] EXCEPT !.at = at].at = at
    BY <1>1 DEF Requests
  <2> QED BY <1>1, <1>4, <2>1 DEF Goto, Go
<1>5. ASSUME NEW r, Go(c, r), r.at \notin {"add", "unlink", "send", "save"} PROVE Fine
  BY <1>1, <1>5 DEF Go
<1>6. CASE OpenList(c)
  <2>1. \A h : [Idle EXCEPT !.at = "local", !.heard = h].at = "local"
    BY DEF Idle
  <2> QED BY <1>3, <1>5, <1>6, <2>1 DEF OpenList
<1>7. CASE OpenPage(c)
  <2>1. \A n : [Idle EXCEPT !.at = "mirror", !.name = n].at = "mirror"
    BY DEF Idle
  <2> QED BY <1>5, <1>7, <2>1 DEF OpenPage
<1>8. CASE ProviderFails(c)
  BY <1>3, <1>8 DEF ProviderFails
<1>9. CASE CutOff(c)
  BY <1>2, <1>9 DEF CutOff
<1>20. CASE AnswerLost(c)
  <2>1. req[c].at \in {"send", "unsend"} /\ (UNCHANGED req \/ Refused(c, 502))
    BY <1>20 DEF AnswerLost
  <2> QED BY <1>3, <2>1
<1>10. CASE AddIsNew(c)
  <2>1. CASE Goto(c, "send")
    <3>1. req'[c].at = "send" /\ \A d \in Slots \ {c} : req'[d] = req[d]
      BY <1>1, <2>1 DEF Goto, Go, Requests
    <3> QED BY <1>10, <3>1 DEF AddIsNew
  <2> QED BY <1>2, <1>10, <2>1 DEF AddIsNew
<1>11. CASE SendAdd(c)
  BY <1>3, <1>4, <1>11 DEF SendAdd
<1>12. CASE AddRow(c) \/ RemoveRow(c) \/ WriteClose(c) \/ WriteReopen(c) \/ WriteName(c) \/ WriteCover(c)
  BY <1>2, <1>12 DEF AddRow, RemoveRow, WriteClose, WriteReopen, WriteName, WriteCover
<1>13. CASE RemoveIsKnown(c)
  BY <1>2, <1>4, <1>13 DEF RemoveIsKnown
<1>14. CASE SendRemove(c)
  BY <1>3, <1>4, <1>14 DEF SendRemove
<1>15. CASE ReadLocal(c)
  <2>1. \A a, d : [Idle EXCEPT !.at = "write", !.add = a, !.drop = d].at = "write"
    BY DEF Idle
  <2> QED BY <1>2, <1>5, <1>15, <2>1 DEF ReadLocal
<1>16. CASE WriteOne(c)
  <2>1. req[c].at = "write"
    BY <1>16 DEF WriteOne
  <2>2. \A s : /\ [req[c] EXCEPT !.add = @ \ {s}].at = "write"
               /\ [req[c] EXCEPT !.drop = @ \ {s}].at = "write"
    BY <1>1, <2>1 DEF Requests
  <2>3. PICK s : \/ Go(c, Idle) \/ Go(c, [req[c] EXCEPT !.add = @ \ {s}])
                 \/ Go(c, [req[c] EXCEPT !.drop = @ \ {s}])
    BY <1>16 DEF WriteOne
  <2> QED BY <1>2, <1>5, <2>2, <2>3 DEF Answer
<1>17. CASE ReadToClose(c)
  BY <1>2, <1>4, <1>17 DEF ReadToClose
<1>18. CASE DeleteFile(c)
  <2>1. CASE req[c].at = "discard"
    BY <1>4, <1>18, <2>1 DEF DeleteFile
  <2>2. CASE req[c].at = "unlink"
    <3>1. Goto(c, "save")
      BY <1>18, <2>2 DEF DeleteFile
    <3>2. /\ req'[c].at = "save" /\ req'[c].saved = req[c].saved
          /\ \A d \in Slots \ {c} : req'[d] = req[d]
      BY <1>1, <3>1 DEF Goto, Go, Requests
    <3> QED BY <2>2, <3>2
  <2> QED BY <1>18, <2>1, <2>2 DEF DeleteFile
<1>19. CASE SaveFile(c)
  BY <1>2, <1>4, <1>19 DEF SaveFile
<1> QED BY <1>6, <1>7, <1>8, <1>9, <1>10, <1>11, <1>12, <1>13, <1>14, <1>15, <1>16, <1>17, <1>18,
           <1>19, <1>20 DEF Step

\* A request that starts takes a slot and is counted.
LEMMA SlotStarts ==
  ASSUME Shape, NEW c \in Slots, Begin(c)
  PROVE  /\ \A d \in Slots \ {c} : req'[d] = req[d]
         /\ requests' = requests + 1 /\ UNCHANGED <<list, alive, service, files, edits, faults, history>>
         /\ req'[c].at \in {"unlink", "save"} => req'[c].saved = requests'
<1>1. req \in [Slots -> Requests]
  BY DEF Shape, ReqShape, Named
<1>2. /\ requests' = requests + 1 /\ UNCHANGED <<list, alive, service, files, edits, faults, history>>
      /\ req[c] = Idle
  BY DEF Begin, StartAdd, StartRemove, StartClose, StartReopen, StartUpload, StartDropCover, Take,
     Revoke, Regenerate, Rename, Delete, AtOnce, provVars
<1>3. ASSUME NEW r, req' = [req EXCEPT ![c] = r]
      PROVE  req'[c] = r /\ \A d \in Slots \ {c} : req'[d] = req[d]
  BY <1>1, <1>3
<1>4. CASE StartUpload(c)
  <2>1. requests' = requests + 1 /\ req' = [req EXCEPT ![c] =
          [Idle EXCEPT !.at = IF event.cover = NoCover THEN "save" ELSE "unlink",
                       !.cover = event.cover, !.saved = requests + 1]]
    BY <1>4 DEF StartUpload, Take
  <2>2. req'[c].saved = requests + 1 /\ \A d \in Slots \ {c} : req'[d] = req[d]
    BY <1>1, <2>1 DEF Idle
  <2> QED BY <1>2, <2>2
<1>5. CASE StartDropCover(c)
  <2>1. req' = [req EXCEPT ![c] = [Idle EXCEPT !.at = IF event.cover = NoCover THEN "cover" ELSE "discard",
                          !.cover = event.cover]]
    BY <1>5 DEF StartDropCover, Take
  <2>2. req'[c].at \in {"cover", "discard"} /\ \A d \in Slots \ {c} : req'[d] = req[d]
    BY <1>1, <2>1 DEF Idle
  <2> QED BY <1>2, <2>2
<1>6. CASE StartAdd(c) \/ StartRemove(c)
  <2>1. \A s : /\ [Idle EXCEPT !.at = "add", !.song = s].at = "add"
               /\ [Idle EXCEPT !.at = "remove", !.song = s].at = "remove"
    BY DEF Idle
  <2>2. PICK s : \/ req' = [req EXCEPT ![c] = [Idle EXCEPT !.at = "add", !.song = s]]
                 \/ req' = [req EXCEPT ![c] = [Idle EXCEPT !.at = "remove", !.song = s]]
    BY <1>6 DEF StartAdd, StartRemove, Take
  <2>3. req'[c].at \in {"add", "remove"} /\ \A d \in Slots \ {c} : req'[d] = req[d]
    <3>1. CASE req' = [req EXCEPT ![c] = [Idle EXCEPT !.at = "add", !.song = s]]
      BY <1>1, <2>1, <3>1
    <3>2. CASE req' = [req EXCEPT ![c] = [Idle EXCEPT !.at = "remove", !.song = s]]
      BY <1>1, <2>1, <3>2
    <3> QED BY <2>2, <3>1, <3>2
  <2> QED BY <1>2, <2>3
<1>7. CASE StartClose(c) \/ StartReopen(c)
  <2>1. [Idle EXCEPT !.at = "close"].at = "close" /\ [Idle EXCEPT !.at = "reopen"].at = "reopen"
    BY DEF Idle
  <2>2. \/ req' = [req EXCEPT ![c] = [Idle EXCEPT !.at = "close"]]
        \/ req' = [req EXCEPT ![c] = [Idle EXCEPT !.at = "reopen"]]
    BY <1>7 DEF StartClose, StartReopen, Take
  <2> QED BY <1>2, <1>3, <2>1, <2>2
<1>8. CASE Revoke(c) \/ Regenerate(c) \/ Rename(c) \/ Delete(c)
  <2>1. UNCHANGED req
    BY <1>8 DEF Revoke, Regenerate, Rename, Delete, AtOnce
  <2> QED BY <1>2, <2>1 DEF Idle
<1> QED BY <1>4, <1>5, <1>6, <1>7, <1>8 DEF Begin

LEMMA PaidForNext == Shape /\ PaidFor /\ Counters /\ [Next]_vars => PaidFor'
<1> SUFFICES ASSUME Shape, PaidFor, Counters, [Next]_vars PROVE PaidFor'
  OBVIOUS
<1>1. /\ req \in [Slots -> Requests] /\ list \in [Songs -> Nat] /\ list' \in [Songs -> Nat]
      /\ requests \in Nat /\ edits \in Nat /\ faults \in Nat
  BY EventBounds, NextShape DEF Shape, ReqShape, ListShape, Counts, Named, Counters
<1>2. IsFiniteSet(Adding) /\ Cardinality(Adding) \in Nat
  BY FS_CardinalityType DEF PaidFor
<1>3. ASSUME Adding' \subseteq Adding, requests' = requests, edits' = edits,
             faults' = faults \/ faults' = faults + 1,
             \A s \in Songs : list'[s] <= list[s]
      PROVE  PaidFor'
  <2>1. IsFiniteSet(Adding') /\ Cardinality(Adding') <= Cardinality(Adding)
    BY <1>2, <1>3, FS_Subset
  <2>2. Cardinality(Adding') \in Nat
    BY <2>1, FS_CardinalityType
  <2>3. ASSUME NEW s \in Songs PROVE list'[s] + Cardinality(Adding') <= 1 + requests' + edits' + faults'
    <3>1. list[s] + Cardinality(Adding) <= 1 + requests + edits + faults /\ list'[s] <= list[s]
      BY <1>3 DEF PaidFor
    <3>2. list[s] \in Nat /\ list'[s] \in Nat
      BY <1>1
    <3>3. faults <= faults' /\ faults' \in Nat
      BY <1>1, <1>3
    <3> HIDE DEF Adding
    <3> QED BY <1>1, <1>2, <1>3, <2>1, <2>2, <3>1, <3>2, <3>3
  <2> QED BY <1>3, <2>1, <2>3 DEF PaidFor
<1>4. CASE UNCHANGED vars
  <2>1. UNCHANGED <<req, list, requests, edits, faults>>
    BY <1>4 DEF vars, provVars, counters
  <2>2. Adding' = Adding
    BY <2>1 DEF Adding
  <2> QED BY <1>1, <1>3, <2>1, <2>2
<1>5. CASE AppEdits
  <2>1. UNCHANGED <<req, requests, faults>> /\ edits' = edits + 1
    BY <1>5 DEF AppEdits
  <2>2. Adding' = Adding
    BY <2>1 DEF Adding
  <2>3. \A s \in Songs : list'[s] <= list[s] + 1
    <3>1. \/ \E s \in Songs : list' = [list EXCEPT ![s] = @ + 1]
          \/ \E s \in Songs : list' = [list EXCEPT ![s] = 0]
          \/ list' = list
      BY <1>5 DEF AppEdits, Held
    <3> QED BY <1>1, <3>1
  <2>4. ASSUME NEW s \in Songs PROVE list'[s] + Cardinality(Adding') <= 1 + requests' + edits' + faults'
    <3>1. list[s] + Cardinality(Adding) <= 1 + requests + edits + faults
      BY DEF PaidFor
    <3>2. list[s] \in Nat /\ list'[s] \in Nat
      BY <1>1
    <3> HIDE DEF Adding
    <3> QED BY <1>1, <1>2, <2>1, <2>2, <2>3, <3>1, <3>2
  <2> QED BY <1>2, <2>2, <2>4 DEF PaidFor
<1>6. ASSUME NEW c \in Slots, Begin(c) PROVE PaidFor'
  <2>1. requests' = requests + 1 /\ UNCHANGED <<list, edits, faults>> /\ \A d \in Slots \ {c} : req'[d] = req[d]
    BY <1>6, SlotStarts
  <2>2. Adding' \subseteq Adding \cup {c}
    BY <2>1 DEF Adding
  <2>3. /\ IsFiniteSet(Adding \cup {c}) /\ Cardinality(Adding \cup {c}) \in Nat
        /\ Cardinality(Adding \cup {c}) <= Cardinality(Adding) + 1
    <3>1. IsFiniteSet(Adding \cup {c})
      BY <1>2, FS_AddElement
    <3>2. Cardinality(Adding \cup {c}) \in {Cardinality(Adding), Cardinality(Adding) + 1}
      BY <1>2, FS_AddElement
    <3> HIDE DEF Adding
    <3> QED BY <1>2, <3>1, <3>2
  <2>4. IsFiniteSet(Adding') /\ Cardinality(Adding') <= Cardinality(Adding \cup {c})
    BY <2>2, <2>3, FS_Subset
  <2>5. Cardinality(Adding') \in Nat
    BY <2>4, FS_CardinalityType
  <2>6. ASSUME NEW s \in Songs PROVE list'[s] + Cardinality(Adding') <= 1 + requests' + edits' + faults'
    <3>1. list[s] + Cardinality(Adding) <= 1 + requests + edits + faults
      BY DEF PaidFor
    <3>2. list[s] \in Nat /\ list'[s] = list[s]
      BY <1>1, <2>1
    <3> HIDE DEF Adding
    <3> QED BY <1>1, <1>2, <2>1, <2>3, <2>4, <2>5, <3>1, <3>2
  <2> QED BY <2>4, <2>6 DEF PaidFor
<1>7. ASSUME NEW c \in Slots, Step(c) \/ OpenList(c) \/ OpenPage(c) \/ ProviderFails(c) \/ AnswerLost(c) \/ CutOff(c)
      PROVE  PaidFor'
  <2>1. /\ \A d \in Slots \ {c} : req'[d] = req[d]
        /\ req'[c].at # "add" /\ (req'[c].at = "send" => req[c].at \in {"add", "send"})
    BY <1>7, SlotGoesOn
  <2>2. Adding' \subseteq Adding
    BY <2>1 DEF Adding
  <2>3. requests' = requests /\ edits' = edits
    BY <1>7 DEF Step, OpenList, OpenPage, ProviderFails, AnswerLost, CutOff, AddIsNew, SendAdd, AddRow,
       RemoveIsKnown, SendRemove, RemoveRow, ReadLocal, WriteOne, ReadToClose, WriteClose,
       WriteReopen, WriteName, DeleteFile, SaveFile, WriteCover, counters
  <2>8. faults' \in {faults, faults + 1}
    BY <1>7 DEF Step, OpenList, OpenPage, ProviderFails, AnswerLost, CutOff, AddIsNew, SendAdd, AddRow,
       RemoveIsKnown, SendRemove, RemoveRow, ReadLocal, WriteOne, ReadToClose, WriteClose,
       WriteReopen, WriteName, DeleteFile, SaveFile, WriteCover, counters
  <2>9. CASE AnswerLost(c)
    <3>1. faults' = faults + 1
      BY <2>9 DEF AnswerLost
    <3>2. \/ list' = [list EXCEPT ![req[c].song] = @ + 1]
          \/ list' = Removed(req[c].song) /\ list[req[c].song] > 0
      BY <2>9 DEF AnswerLost
    <3>3. \A s \in Songs : list'[s] <= list[s] + 1
      BY <1>1, <3>2 DEF Removed
    <3>4. IsFiniteSet(Adding') /\ Cardinality(Adding') <= Cardinality(Adding)
      BY <1>2, <2>2, FS_Subset
    <3>5. Cardinality(Adding') \in Nat
      BY <3>4, FS_CardinalityType
    <3>6. ASSUME NEW s \in Songs
          PROVE  list'[s] + Cardinality(Adding') <= 1 + requests' + edits' + faults'
      <4>1. list[s] + Cardinality(Adding) <= 1 + requests + edits + faults
        BY DEF PaidFor
      <4>2. list[s] \in Nat /\ list'[s] \in Nat /\ list'[s] <= list[s] + 1
        BY <1>1, <3>3
      <4> HIDE DEF Adding
      <4> QED BY <1>1, <1>2, <2>3, <3>1, <3>4, <3>5, <4>1, <4>2
    <3> QED BY <3>4, <3>6 DEF PaidFor
  <2>4. CASE UNCHANGED list
    BY <1>1, <1>3, <2>2, <2>3, <2>4, <2>8
  <2>5. CASE SendRemove(c)
    <3>1. UNCHANGED list \/ (list' = Removed(req[c].song) /\ ~(list[req[c].song] = 0 /\ service \in AbsentIs404))
      BY <2>5 DEF SendRemove
    <3>2. \A s \in Songs : list'[s] <= list[s]
      BY <1>1, <3>1 DEF Removed, AbsentIs404
    <3> QED BY <1>3, <2>2, <2>3, <2>8, <3>2
  <2>6. CASE SendAdd(c) /\ list' # list
    <3>1. list' = [list EXCEPT ![req[c].song] = @ + 1] /\ Goto(c, "row") /\ req[c].at = "send"
      BY <2>6 DEF SendAdd
    <3>2. req'[c].at = "row"
      BY <1>1, <3>1 DEF Goto, Go, Requests
    <3>3. c \in Adding /\ Adding' \subseteq Adding \ {c}
      BY <2>2, <3>1, <3>2 DEF Adding
    <3>4. IsFiniteSet(Adding \ {c}) /\ Cardinality(Adding \ {c}) = Cardinality(Adding) - 1
      BY <1>2, <3>3, FS_RemoveElement
    <3>5. IsFiniteSet(Adding') /\ Cardinality(Adding') <= Cardinality(Adding \ {c})
      BY <3>3, <3>4, FS_Subset
    <3>6. Cardinality(Adding') \in Nat
      BY <3>5, FS_CardinalityType
    <3>7. ASSUME NEW s \in Songs PROVE list'[s] + Cardinality(Adding') <= 1 + requests' + edits' + faults'
      <4>1. list[s] + Cardinality(Adding) <= 1 + requests + edits + faults
        BY DEF PaidFor
      <4>2. list[s] \in Nat /\ list'[s] \in Nat /\ list'[s] <= list[s] + 1
        BY <1>1, <3>1
      <4> HIDE DEF Adding
      <4> QED BY <1>1, <1>2, <2>3, <2>8, <3>4, <3>5, <3>6, <4>1, <4>2
    <3> QED BY <3>5, <3>7 DEF PaidFor
  <2>7. SendAdd(c) \/ SendRemove(c) \/ AnswerLost(c) \/ UNCHANGED list
    BY <1>7 DEF Step, OpenList, OpenPage, ProviderFails, AnswerLost, CutOff, AddIsNew, AddRow,
       RemoveIsKnown, RemoveRow, ReadLocal, WriteOne, ReadToClose, WriteClose,
       WriteReopen, WriteName, DeleteFile, SaveFile, WriteCover, provVars
  <2> QED BY <2>4, <2>5, <2>6, <2>7, <2>9
<1> QED BY <1>4, <1>5, <1>6, <1>7 DEF Next

LEMMA UploadingNext == Shape /\ Uploading /\ [Next]_vars => Uploading'
<1> SUFFICES ASSUME Shape, Uploading, [Next]_vars PROVE Uploading'
  OBVIOUS
<1>1. CASE UNCHANGED vars \/ AppEdits
  BY <1>1 DEF vars, AppEdits, Uploading
<1>2. ASSUME NEW c \in Slots, Begin(c) PROVE Uploading'
  <2>1. requests' = requests + 1 /\ requests \in Nat
    BY <1>2, SlotStarts, EventBounds DEF Shape, Counts
  <2>2. requests' # NoCover
    BY <2>1 DEF NoCover
  <2> QED BY <1>2, <2>2, SlotStarts DEF Uploading
<1>3. ASSUME NEW c \in Slots, Step(c) \/ OpenList(c) \/ OpenPage(c) \/ ProviderFails(c) \/ AnswerLost(c) \/ CutOff(c)
      PROVE  Uploading'
  BY <1>3, SlotGoesOn DEF Uploading
<1> QED BY <1>1, <1>2, <1>3 DEF Next

\* What each request keeps of the playlist, the files, the counters and the history.
LEMMA RestNext ==
  Shape /\ TypeInv /\ [Next]_vars => Playlist' /\ Counters' /\ Histories'
<1> SUFFICES ASSUME Shape, TypeInv, [Next]_vars PROVE Playlist' /\ Counters' /\ Histories'
  OBVIOUS
<1> USE DEF Playlist, Counters, Histories
<1>1. Playlist /\ Counters /\ Histories /\ Uploading
  BY DEF TypeInv
<1>2. req \in [Slots -> Requests]
  BY DEF Shape, ReqShape, Named
<1>3. CASE UNCHANGED vars
  BY <1>1, <1>3 DEF vars, provVars, history, counters
<1>4. CASE AppEdits
  <2>1. /\ UNCHANGED <<service, files, raced, resent, spoilt, mistaken, crossed, faults>>
        /\ edits < MaxEdits /\ edits' = edits + 1
    BY <1>4 DEF AppEdits
  <2>2. alive' \in BOOLEAN /\ missed' \subseteq Songs
    BY <1>1, <1>4 DEF AppEdits
  <2>3. edits' \in 0..MaxEdits
    BY <1>1, <2>1, EventBounds
  <2> QED BY <1>1, <2>1, <2>2, <2>3
<1>5. ASSUME NEW c \in Slots, Begin(c) PROVE Playlist' /\ Counters' /\ Histories'
  BY <1>1, <1>5, SlotStarts DEF history
<1>6. ASSUME NEW c \in Slots, Step(c) \/ OpenList(c) \/ OpenPage(c) \/ ProviderFails(c) \/ AnswerLost(c) \/ CutOff(c)
      PROVE  Playlist' /\ Counters' /\ Histories'
  <2>1. req[c] \in Requests /\ (req[c].at \in AboutASong => req[c].song \in Songs)
    BY DEF Shape, ReqShape, Named
  <2>2. req[c].cover \in Covers \cup {NoCover} /\ req[c].saved \in Covers \cup {NoCover}
    BY <2>1 DEF Requests
  <2>3. CASE UNCHANGED <<service, alive, files, edits, faults, history>>
    BY <1>1, <2>3 DEF history
  <2>4. CASE ProviderFails(c)
    <3>1. UNCHANGED <<service, alive, files, history, edits>> /\ faults < MaxFaults /\ faults' = faults + 1
      BY <2>4 DEF ProviderFails, provVars
    <3>2. faults' \in 0..MaxFaults
      BY <1>1, <3>1, EventBounds
    <3> QED BY <1>1, <3>1, <3>2 DEF history
  <2>5. CASE CutOff(c)
    <3>1. /\ UNCHANGED <<service, alive, files, raced, resent, mistaken, crossed, edits>>
          /\ faults < MaxFaults /\ faults' = faults + 1
      BY <2>5 DEF CutOff, provVars
    <3>2. faults' \in 0..MaxFaults
      BY <1>1, <3>1, EventBounds
    <3>3. missed' \subseteq Songs /\ spoilt' \subseteq Covers \cup {NoCover}
      BY <1>1, <2>1, <2>2, <2>5 DEF CutOff, AboutASong
    <3> QED BY <1>1, <3>1, <3>2, <3>3
  <2>6. CASE AddIsNew(c)
    <3>1. UNCHANGED <<service, alive, files, edits, faults, missed, resent, mistaken, crossed, spoilt>>
      BY <2>6 DEF AddIsNew, provVars, counters
    <3>2. raced' \subseteq Songs
      BY <1>1, <2>1, <2>6 DEF AddIsNew, AboutASong
    <3> QED BY <1>1, <3>1, <3>2
  <2>7. CASE SendAdd(c) \/ SendRemove(c)
    <3>1. UNCHANGED <<service, alive, files, edits, faults, raced, missed, resent, crossed, spoilt>>
      BY <2>7 DEF SendAdd, SendRemove, history, counters
    <3>2. UNCHANGED mistaken \/ mistaken' = (mistaken \/ alive)
      BY <2>7 DEF SendAdd, SendRemove
    <3>3. mistaken' \in BOOLEAN
      BY <1>1, <3>2, Zenon
    <3> QED BY <1>1, <3>1, <3>3
  <2>8. CASE RemoveRow(c) \/ WriteOne(c)
    <3>1. UNCHANGED <<service, alive, files, edits, faults, raced, resent, mistaken, crossed, spoilt>>
      BY <2>8 DEF RemoveRow, WriteOne, provVars, counters
    <3>2. req[c].drop \subseteq Songs
      BY <2>1 DEF Requests
    <3>3. missed' = missed \/ \E s \in Songs : missed' = missed \cup {s}
      <4>1. CASE RemoveRow(c)
        BY <2>1, <4>1 DEF RemoveRow, AboutASong
      <4>2. CASE WriteOne(c)
        BY <3>2, <4>2 DEF WriteOne
      <4> QED BY <2>8, <4>1, <4>2
    <3>4. missed' \subseteq Songs
      BY <1>1, <3>3
    <3> QED BY <1>1, <3>1, <3>4
  <2>9. CASE WriteClose(c)
    <3>1. UNCHANGED <<service, alive, files, edits, faults, raced, missed, resent, mistaken, spoilt>>
      BY <2>9 DEF WriteClose, provVars, counters
    <3>2. crossed' \in BOOLEAN
      <4>1. crossed' = (crossed \/ (req[c].at = "reason" /\ event.status = "open"))
        BY <2>9 DEF WriteClose
      <4> QED BY <1>1, <4>1, Zenon
    <3> QED BY <1>1, <3>1, <3>2
  <2>10. CASE DeleteFile(c)
    BY <1>1, <2>10 DEF DeleteFile, provVars, counters, history
  <2>11. CASE SaveFile(c)
    <3>1. UNCHANGED <<service, alive, edits, faults, raced, missed, resent, mistaken, crossed>> /\ req[c].at = "save"
      BY <2>11 DEF SaveFile, provVars, counters
    <3>2. req[c].saved \in Covers
      BY <1>1, <2>2, <3>1 DEF Uploading
    <3>3. files' \subseteq Covers /\ spoilt' \subseteq Covers \cup {NoCover}
      BY <1>1, <2>2, <2>11, <3>2 DEF SaveFile
    <3> QED BY <1>1, <3>1, <3>3
  <2>12. CASE AnswerLost(c)
    <3>1. /\ UNCHANGED <<service, alive, files, raced, mistaken, crossed, spoilt, edits>>
          /\ faults < MaxFaults /\ faults' = faults + 1
      BY <2>12 DEF AnswerLost
    <3>2. faults' \in 0..MaxFaults
      BY <1>1, <3>1, EventBounds
    <3>3. req[c].song \in Songs
      BY <2>1, <2>12 DEF AnswerLost, AboutASong
    <3>4. missed' \subseteq Songs /\ resent' \subseteq Songs
      BY <1>1, <2>12, <3>3 DEF AnswerLost
    <3> QED BY <1>1, <3>1, <3>2, <3>4
  <2>13. CASE OpenList(c) \/ OpenPage(c) \/ AddRow(c) \/ RemoveIsKnown(c) \/ ReadLocal(c)
              \/ ReadToClose(c) \/ WriteReopen(c) \/ WriteName(c) \/ WriteCover(c)
    BY <2>3, <2>13 DEF OpenList, OpenPage, AddRow, RemoveIsKnown, ReadLocal, ReadToClose,
       WriteReopen, WriteName, WriteCover, provVars, counters
  <2> QED BY <1>6, <2>4, <2>5, <2>6, <2>7, <2>8, <2>9, <2>10, <2>11, <2>12, <2>13 DEF Step
<1> QED BY <1>3, <1>4, <1>5, <1>6 DEF Next

\* Every variable keeps its type; a playlist holds a song no oftener than there
\* were requests, edits and lost answers that may have added it, and never less
\* than not at all: no removal takes out what is not there.
THEOREM EventTyped == Spec => []TypeOK
<1>1. Init => TypeInv
  <2> SUFFICES ASSUME Init PROVE TypeInv
    OBVIOUS
  <2>1. Adding = {}
    BY DEF Init, Adding, Idle
  <2>2. IsFiniteSet({}) /\ Cardinality({}) = 0
    BY FS_EmptySet
  <2>3. \A s \in Songs : list[s] \in {0, 1}
    BY DEF Init
  <2>4. PaidFor
    BY <2>1, <2>2, <2>3 DEF PaidFor, Init
  <2>5. Uploading
    BY DEF Init, Uploading, Idle
  <2>6. Playlist /\ Histories
    BY DEF Init, Playlist, Histories
  <2>7. Counters
    BY EventBounds DEF Init, Counters
  <2> QED BY <2>4, <2>5, <2>6, <2>7 DEF TypeInv
<1>2. Shape /\ TypeInv /\ [Next]_vars => TypeInv'
  BY PaidForNext, UploadingNext, RestNext DEF TypeInv
<1>3. Shape /\ TypeInv => TypeOK
  <2> SUFFICES ASSUME Shape, TypeInv PROVE TypeOK
    OBVIOUS
  <2>1. list \in [Songs -> 0..MaxCopies]
    <3>1. ASSUME NEW s \in Songs PROVE list[s] \in 0..MaxCopies
      <4>1. /\ list[s] + Cardinality(Adding) <= 1 + requests + edits + faults /\ Cardinality(Adding) \in Nat
            /\ list[s] \in Nat
        BY FS_CardinalityType DEF Shape, ListShape, TypeInv, PaidFor
      <4>2. /\ requests \in 0..MaxRequests /\ edits \in 0..MaxEdits /\ faults \in 0..MaxFaults
            /\ MaxRequests \in Nat /\ MaxEdits \in Nat /\ MaxFaults \in Nat
        BY EventBounds DEF Shape, Counts, TypeInv, Counters
      <4> HIDE DEF Adding
      <4> QED BY <4>1, <4>2 DEF MaxCopies
    <3> QED BY <3>1 DEF Shape, ListShape
  <2>2. req \in [Slots -> Requests]
    BY DEF Shape, ReqShape, Named
  <2> QED BY <2>1, <2>2 DEF TypeOK, Shape, EventShape, EventRows, Counts, RowShape, TypeInv,
             Playlist, Counters, Histories
<1> QED BY <1>1, <1>2, <1>3, InitShape, NextShape, PTL DEF Spec
=============================================================================
