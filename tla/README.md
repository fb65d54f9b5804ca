# Synqit in TLA+

Models of the parts of Synqit whose correctness depends on the order of things:
queued jobs, database rows written by several processes, provider playlists that
are changed by requests that may fail half way, timers that work from what they
read a while ago. Every definition is translated from the code under `src/`;
`PROJECT.json` maps each one to its lines.

    tlc -config TransfersTwo.cfg MCTransfers      # any run below
    tlapm AutoSyncProofs.tla                      # the proofs, likewise the other seven *Proofs

## 1. The system

Synqit is a TypeScript monorepo. `apps/api` (Fastify, Prisma/PostgreSQL, BullMQ on
Redis) holds all of the logic; `apps/worker` sends e-mail; `apps/web`, `admin` and
`site` are front ends. Several API processes may run at once. They share the
database, the queues and the users' playlists at four providers (Spotify, Apple
Music, TIDAL, YouTube). No transaction spans a database and a provider, and few
span two database calls, so **an awaited call is the unit of atomicity** in all
the models.

| Component | State | Operations | What is hard | What makes it correct | Module |
|---|---|---|---|---|---|
| Library transfers (`syncs/transfer-worker.ts`, `transfer-store.ts`, `jobs/transfers-queue.ts`, `routes.ts`) | batch, item, track rows; one BullMQ job per item | POST /transfers, the job handler, batch refresh | several processes, retries, stalled jobs, crashes, a refresh that reads and then writes | items and jobs agree; a completed item is complete; a batch closes once, with the right verdict | `Transfers` |
| Import engine (`syncs/import-engine.ts`) | import row: playlist id and ledger of fingerprints; the playlist itself | find, create, persist, add, record | add and record are apart; requests are sent again; YouTube stops half way; two imports at once | no track twice without a cause the code cannot see, none forgotten, no playlist lost | `ImportEngine` |
| Auto-sync (`syncs/auto-sync.ts`) | sync and import rows, poll plan | the tick, forward and backward copying | works from one old reading; failures per import; routes and imports run meanwhile | a change reaches every import that accepts it; what is stored as seen is accounted for; no song twice without a named cause | `AutoSync` |
| Synced playlist routes (`syncs/routes.ts`, `store.ts`) | sync rows, links, import rows | create, mode, revoke, regenerate, link import, unsubscribe | they run beside a tick | an import that a tick saw half done is not lost | `AutoSync`, partly |
| External imports (`syncs/external-import-runner.ts`) | row with status; in-memory running set | start, run, progress, end | restart between the two states, adds that are lost, repeated or refused in silence | every import ends; its counts claim what landed or was refused in silence | `LinkImport` |
| Event playlists (`events/`) | event, tracks, cover; the host's playlist | guest add, removal, copy from provider, close, reopen, cover | check-then-act with a provider call in between; stale lists; a 404 that is about a song | table and playlist agree; an event closes for the reason it states | `EventPlaylist` |
| Sessions and passwords (`auth/`) | refresh and reset tokens, two copies of a password | login, rotate, revoke, revoke all, change, reset | rotation against revocation, callers that share a cookie | one live successor per session; what is revoked stays so | `Account` |
| Account deletion, blocking (`jobs/account-deletion.ts`, `admin/routes.ts`) | user state, audit rows | request, purge, block, reactivate | three steps; requests that read before the purge | a purged account is empty; its purge is audited | `Account` |
| Weekly recap (`jobs/`, `apps/worker`) | claim row, queue | claim, build, enqueue, send | a cut-off after the claim | at most one recap per week, and one | `WeeklyRecap` |
| Usage counters, retry, pool (`analytics/`, `integrations/provider-throttle.ts`) | buffer | record, flush; retry | flush against flush | a call is counted once | `UsageCounters`; retry in `ImportEngine` |
| Provider tokens (`integrations/`) | token rows, OAuth states | refresh, consume | two refreshes at once | the newest token is kept | not modelled |
| Track matching, administration lists, front ends | none of their own | | | | not modelled |

Components meet in four places: the transfer worker and the link import route both
call the import engine; auto-sync works on the import rows the engine writes,
including those of transfers; auto-sync and its routes change the same rows; deleting
a user cascades into all rows while jobs are queued or running.

## 2. Modules

| Module | Models | State and actions |
|---|---|---|
| `Transfers` | the transfer request, its queue and the worker loop | database rows (`batchStatus`, `status`, `itemSync`, ...), queue (`job`, `attempts`, `lock`, `stalls`), and per process a program counter and the handler's local variables. One action per awaited call of `runTransferPlaylistJob`, in its order: `FindItem`, `MarkBatchRunning`, `MarkItemRunning`, `ResolveSync`, `LinkSync`, `Import`, `ReplaceTracks`, `CompleteItem` or `FailItem`, `RefreshRead`, `RefreshWrite`, `EndJob`. The request is `CreateBatch`, `Enqueue`, `EnqueueFails`; the faults are `Crash`, `DatabaseFails`, `JobStalls` |
| `TransferBatch` | what a client that polls is promised | a phase, an outcome per playlist, a verdict; `Submit`, `Settle`, `Close`, `Delete` |
| `ImportEngine` | `importSyncForRecipient` against one recipient | the import row (`rowPlaylist`, `ledger`, `rowStatus`, counts), the provider (`made`, `copies`), and per caller what the function holds. One action per awaited call or, in the adding loops, per request: `InsertVideo` (YouTube), `PostTidal`, `PostChunk` and `PostSingle` (Spotify and Apple Music); `Checkpoint` and `Finish` write the row; `Crash` and `LoseAnswer` are the faults |
| `AutoSync` | `runAutoSyncCycle` and one synced playlist, with its owner, its subscribers and the routes | the playlists (`source`, `copy`, `version`), the rows (`sync`, `row`), the tick's program counter and locals. `Tick` reads the rows once; `ReadSnapshot`, `ListSource`, `ReadRecipient`, `ListSourceLate` and `StoreSnapshot` find out what changed; then, per row, `SkipImport` or `PrepareForward`, the way back (`StartBack`, `BackOne`, `EndBack`), and after all of these the way there (`StartForward`, `CopyOne`, `SaveRow`); `PlanNextPoll`. `ImportFails`, `TickFails`, `Restart` and `ImportThrows` are the faults, and so are an add answered with an error after it landed (`ImportAddResent`, `BackResent`, `CopyResent`) and one refused in silence (`BackRefused`, `CopyRefused`). Meanwhile: `OwnerAddsOrRemoves`, `SubscriberAddsOrRemoves`, `SetMode`, `SetRevoked`, `Unsubscribe`, and a link import in four steps (`ImportBegin`, `ImportOpen`, `ImportAdd`, `ImportEnd`) |
| `EventPlaylist` | one event, its table of tracks, its cover and the host's playlist | `Slots` are requests being answered. A request is one `Start...` action (or `Revoke`, `Regenerate`, `Rename`, `Delete`) and its steps: `AddIsNew`, `SendAdd`, `AddRow`; `RemoveIsKnown`, `SendRemove`, `RemoveRow`; `OpenList` or `OpenPage`, `ReadLocal`, `WriteOne`; `ReadToClose`, `WriteClose`; `WriteReopen`; `DeleteFile`, `SaveFile`, `WriteCover`. `AppEdits` is the host in the service's own app; `ProviderFails`, `AnswerLost` and `CutOff` are the faults |
| `Account` | one account: row, password identity, refresh tokens; a browser; the administrator; the deletion job | callers that share a cookie jar: `Login`, `Logout`, `Refresh`, `ChangePassword`, `ResetPassword`, `Forgot` and their steps. A rotation is `Rotate` (the old row is locked) and `Commit` (the successor is visible), then `Arrive` (the browser has the cookie). `Block`, `Reactivate`, `RequestDeletion`, `ResetUserFlow`; `ComesDue`, `ListDue`, `Anonymize`, `Audit`; `CutOff`, `JobCutOff`, `AdminCutOff` |
| `WeeklyRecap` | the recap of each week: schedulers, claim row, queue, mail worker | `TimePasses`; `RecapTick`, `Claim`, `BuildDigests`, `EnqueueMail`, `RecapEnds`; `TakeMail`, `SendMail`; `RefuseMail`, `RecapCutOff`, `MailFails`, `WorkerGone` |
| `UsageCounters` | the buffer of provider calls and its flushes | `Record`, `Flush`, `Write`; `WriteRefused`, `UsageRestart` |
| `LinkImport` | one import of a link or file | `CreateImport`, `StartImport`, `ReadTracks`, `MakePlaylist`, `Match`, `AddSong`, `Finish`, `Report`; `AddResent`, `AddFails`, `ImportError`, `ImportLost` |
| `TransfersProofs` | theorems about `Transfers` under all faults, while only providers fail (`Calm`), and with one process (`Lone`) | |
| `ImportEngineProofs`, `AutoSyncProofs`, `EventPlaylistProofs`, `AccountProofs` | theorems about the module each is named for | |
| `AutoSyncCopiesProofs` | theorems about what `AutoSync` adds to the playlists | |
| `ServerProofs` | theorems about `WeeklyRecap`, `UsageCounters` and `LinkImport`, and about `MCServer` as a whole | |
| `SumLemmas` | sums over finite sets and sequences, cardinalities, and the least-counterexample argument behind them | |
| `MCTransfers`, `MCImportEngine`, `MCAutoSync`, `MCEventPlaylist` | values of the constants for TLC | |
| `MCServer` | `Account`, `WeeklyRecap`, `UsageCounters` and `LinkImport` in one run | they share no state, so a behaviour moves one of them, named by `part`: their states add up instead of multiplying |

Operators marked `mutant` stand in front of the definition they are a wrong version
of; no specification uses them. Each is what one property is there to catch.

### Choices and abstractions

*Transfers.* One batch: batches share no row and no job. `importSyncForRecipient` is
the single step `Import`, which returns or throws; `ImportEngine` is its inside, and
composing the two is left to do. An item's sync id is a number, counted per item.
`batchRow` stands for all rows of the batch: they are created together and go
together, by cascade, when the user is deleted (`DeleteBatch`); calls on rows
that are gone then do what `updateMany`, `findUnique` and foreign keys make of
them. BullMQ is external: an active job is locked by the process that took it; a
result is accepted only from the holder of the lock; `attemptsMade` counts ended
attempts; a job found stalled goes back to waiting, and fails without its handler
running when that happened more than `MaxStalls` times. A process takes one job at
a time (`TRANSFER_WORKER_CONCURRENCY`).
A rejected database call is one that was not applied.

*ImportEngine.* A track is its position. `Fp` and `Match` give its fingerprint and
the recipient track the search would settle on; which searches succeed is chosen
anew for each call (`Begin`), because a search that fails only skips its track.
Spotify and Apple Music share one shape, "chunked". Their fingerprints are recorded
when the loop returns, here with each chunk: the list is local until `Finish` writes
it, and is built in the same order. Two callers may run at once, as a transfer beside
a link import: `overlapped` remembers it, `replaced` that one of them stored its own
playlist over the other's. The recipient's provider does not change. Source
and recipient are connected and live; the mock mode without tokens is left out.

*AutoSync.* A song stands for its fingerprint. `Match` is what the search settles on at
a subscriber's service and `Back` the way back; where they return another song, the
fingerprint changed on the way (another title at the other service), and the song
comes back as one the owner does not have: an echo. A snapshot is the list and, on
Spotify, a version; other services compare lists only, so a list that changed and
changed back looks untouched, and an import that listed it in between is counted as
disturbed (`CanComeBack`). A link import is the engine with its requests taken
together; what the engine does inside is `ImportEngine`'s subject. One process runs the
scheduler: `isRunning` (`auto-sync.ts:900`) keeps the ticks of one process apart, not those
of several, and nothing here speaks of two API processes that both run it. Time is counted
in scheduler intervals.

*EventPlaylist.* The services differ in what a removal takes out, in what answers 404 and
in whether they tell the playlist's name; there is one of each kind in the runs. Rows
that are gone behave as the `updateMany`s, upserts and foreign keys make them.

*Adding and removing a song.* The code has two ways to add. `addTracks` (the import engine,
auto-sync, link and file imports) is tolerant by design (`provider-registry.ts:101-104`):
Spotify and Apple Music swallow every refusal, after a second round of one request for
each track; YouTube skips a video it has not got and throws otherwise; TIDAL throws. It
returns `addedTrackIds`, which only the import engine reads. So in `AutoSync` a song refused
in silence is recorded in both ledgers (`CopyRefused`, `BackRefused`; `uncopied` remembers
it), and in `LinkImport` it counts as matched (`AddSong`; `linkDropped`). `addTrack` (event
playlists) is strict. Behind both, `withProviderRetry` sends a request again after a 429 or
a 5xx, up to four times, and the error may be the answer to a request that was carried out:
the song is then added once more. Each module that adds songs has this, as a step that adds
and goes nowhere (`ImportAddResent`, `CopyResent`, `BackResent`, `AddResent`), or as one
that adds and is sent again or fails (`LoseAnswer`, `AnswerLost`); `resent` and `linkUnsure`
remember the songs. The four attempts are not counted: the bound on faults says how often it
happens. Retries cover the bulk adds of Spotify, Apple Music and YouTube and YouTube's single
add; TIDAL's adds, the single adds of Spotify and Apple Music and all removals are sent
once, so there the request fails. In `AutoSync`, where a subscriber's service is any of
them, what follows such an add may be the next attempt, a refusal or the failure of the pass.

*404s of an event's playlist.* Any 404 of an add or a removal closes the event
(`events/routes.ts:243-256`). YouTube also answers 404 to the add of a video that is gone
(`MissingSongIs404`) and, as Apple Music does, to the removal of an entry it does not find
(`AbsentIs404`); Apple Music looks among the first hundred only, and the status of its last
attempt to delete may be a 404 (`LooksAtFirstPage`), so there it may befall any song.
`mistaken` remembers a 404 of a playlist that exists. Of Spotify and TIDAL a 404 is taken to
be about the playlist. TIDAL's listing, one page only, is not in the run.

*Account.* PostgreSQL runs read committed. A rotation locks the row of the old token, so a
revocation of all tokens waits for that row but does not see the successor. Hashes
are numbers in the order they were made, tokens likewise. Time limits are reached when
`ComesDue` says so; a token does not expire by time.

*WeeklyRecap.* Time is counted in halves of weeks, before and after the send time; a tick
finds it passed and claims the week. *LinkImport.* A source is the number of its
tracks. *UsageCounters.* A bucket is a name.

*Exceptions the properties make.* Much of the code runs check-then-act steps without a
lock, and what it promises holds except where two of them crossed. History variables
say where: `disturbed`, `leftOut`, `unrecorded`, `again`, `own`, `ownAdds`, `taken`, `resent`,
`uncopied` in `AutoSync`; `overlapped`, `replaced` in `ImportEngine`; `raced`, `missed`, `resent`,
`mistaken`, `crossed`, `spoilt` in `EventPlaylist`; `left` and `told` in `Account`; `missed` in
`WeeklyRecap`; `linkTold`, `linkDropped`,
`linkUnsure` in `LinkImport`; `dropped` in `UsageCounters`. No guard reads
them. A property that names one states two things: that something may go wrong there,
and that nothing else leads there.

What an exception names is therefore *not* caught by the property that names it. The code
does nothing against these, and no property here forbids them:

* a stale handler, whose lock expired, that writes `queued` or `failed` over `completed`
  (`CompletedStays` excepts a job found stalled while another process is there), and a
  failed database call between creating a sync and linking it (`OneSyncPerItem` is about
  behaviours in which only providers fail);
* two imports of one recipient at once (`overlapped`, `replaced`), and an import beside a
  tick, or a tick cut off after it stored the source's snapshot (`disturbed`);
* copies made by a request that was sent again (`resent`, `linkUnsure`, `lost`), and songs
  refused in silence (`uncopied`, `linkDropped`);
* two guests who add one song at once (`raced`), a song whose row a late listing dropped
  (`missed`), a 404 about a song (`mistaken`), a closing that crosses an opening
  (`crossed`), an upload that is refused or cut off (`spoilt`);
* a refresh token that is being rotated while all are revoked (`left`), writes of a password
  that cross or are cut off, two refreshes with one token, a logout that crosses a refresh,
  a purge cut off before its audit row (`told`);
* a recap cut off after its claim (`missed` in `WeeklyRecap`), an import whose process stopped
  (`lost run`), counts dropped by a refused write or a restart (`dropped`).

The notes of the hazards in `PROJECT.json` say the same, each at its line.

## 3. What is checked

Each property has a comment in its module that says what it means.

| Run | Instance | Properties | What it shows |
|---|---|---|---|
| `transfers_two` | 2 processes, 2 playlists, 2 attempts, 1 fault of any kind | `TypeOK`, `CompletedHasDetails`, `JobMatchesItem`, `OneSyncPerItem`, `CompletedStays` | all interleavings of two handlers, on different items and, after a stall, on the same one; a completed item survives every later run of its job, but not the stale handler of a stalled one |
| `transfers_lone` | 1 process, 3 playlists, 3 attempts, no fault | `RestingBatchIsSummary`, `KeepsPromise`, `AcceptedBatchCloses` | a lone process implements `TransferBatch`, and accepted batches close |
| `transfers_faults` | 1 process, 2 playlists, 2 attempts, 2 faults | `JobsEnd` | jobs end |
| `transfers_race` | 2 processes, no fault | `SettledBatchIsClosed`, **violated** | finding 1 |
| `transfers_crash` | 1 process, 1 playlist, 1 fault | `SettledBatchIsClosed`, **violated** | finding 2 |
| `import_one` | 2 callers, 3 calls, 3 tracks two of which share a match, any provider, 2 crashes, 1 lost answer; three of these together once calls overlap | `TypeOK`, `OrphansAreEmpty`, `LedgerIsEarned`, `LedgerOnlyGrows`, `RetriesTopUp`, `NothingForgotten` | the engine resumes: one playlist, no repeats without a crash, and a ledger that never claims too much; what is left of that when two calls run at once |
| `import_twin` | two identical tracks, 2 calls | `TwinsCount`, **violated** | finding 3 |
| `import_crash` | 1 crash | `NeverTwice`, **violated** | finding 4 |
| `autosync` | an owner on Spotify, 2 subscribers at other services, one of whom has imported; at the other's service one song has another name; either mode; 1 change, 1 import, 1 fault | `TypeOK`, `SeenMeansCopied`, `NoDoubles`, `OwnerListNotDoubled`, `AdditionsArrive` | once the owner's list counts as seen every row accounts for it; which songs can come twice, and why no other can; which of the owner's songs may never get into a copy, and that every other does |
| `autosync_empty` | 1 subscriber, 1 change, 1 import, no fault | `LedgerMeansCopied`, **violated** | finding 5 |
| `events` | 2 requests at a time, 3 in all, 1 song, Spotify, Apple Music or YouTube, 1 edit in the app, 1 fault (a failed or lost answer, or a cut-off), four of these together | `TypeOK`, `NoDoubles`, `ClosedWhenGone`, `OpenHasNoReason`, `CoverIsThere`, `Settles` | what two requests at once can do to playlist, table, state and cover; that table and playlist agree in the end |
| `server` | accounts: 2 callers, 2 requests, 2 rulings, 1 fault; or 2 processes with the deletion job. Recap: 2 processes, 2 users, 2 weeks, 2 attempts, 1 fault. Counters: 2 buckets, 2 flushes at once, 3 calls, 1 fault. Imports: 3 tracks, 2 songs, 2 faults | `ServerTypeOK`; `OneLivePerSession`, `NoneOutlivesRevocation`, `PasswordsAgree`, `SignedOutForAReason`, `LogoutHolds`, `PurgedIsEmpty`, `PurgeIsAudited`, `DueIsPurged`; `OneRecapEach`, `RecapArrives`; `CountedOnce`; `CountsAreTrue`, `ImportSettles` | sessions, passwords and purges keep what they promise; a recap a week; each call counted once; an import ends, with counts that are true but for songs refused in silence and adds answered as failed |

Deadlock is not checked: these systems stop when the work is done (jobs ended, calls
made, the event or the account deleted) or when the bounds on what people do are reached.

### Bounds, and why they are enough

* Two playlists let one item be in every phase while the other is in any other; three
  in `transfers_lone` give the batch a first, a middle and a last item, and with them
  every verdict. Two attempts have a first that is not final and a last that is; the
  code's three are used in `transfers_lone`.
* Two processes are enough for a stale handler (its lock expired) beside the one that
  replaced it. `MaxFaults` bounds crashes, stalls of a live holder and failed database
  calls together. A stall whose holder is dead is not counted: it follows from a crash.
* `MaxStalls` is BullMQ's default, 1.
* Three tracks in chunks of two make a full and a partial chunk; two tracks with one
  match exercise the queue of fingerprints. Three calls are a first one, a resumed one
  and one that resumes the resumed.
* `MaxPlaylists` is 2: a refused creation ends the call, so the bound leaves out only a
  third playlist. `Together` bounds what is done once two calls have overlapped: two and
  a fault, or three. The two callers are alike (symmetry; the one temporal property is
  an action property).
* In `AutoSync` two subscribers are the one a pass is at and the one after it, whose copy
  may feed what the next gets, and one import beside a tick. One change is what the tick
  misses or finds; `MaxWait` 2 has a poll that comes next and one that does not. The copy
  counts were also simulated (100 million states each) with four or five changes, three
  imports and two faults, where subscribers add the owner's songs, two songs are matched to
  one and the way back is another: no violation. That was before adds were refused or sent
  again; with them the run has one such call, and the theorems below any number.
* In `EventPlaylist` two requests at a time make every crossing of two handlers; three in
  all let a third find what they left. `MaxTogether` keeps requests, edit and fault to four in
  all; the five together were explored once (950,808 states, no violation). One song is
  enough for every property: songs share no state but the pass over the table.
* In `Account` two callers hold the same cookie; two requests and two rulings cross each
  other and a purge. Three requests (1.4 million states) and two faults were explored.
* The recap has a claim to lose in two weeks and a mail to repeat in two attempts. The
  counters have a flush that overlaps another. An import of three tracks, with progress
  written each two, has a full and a partial stretch; two songs make two tracks share one.

### Fairness

`Transfers`: `FairSpec` assumes that a process whose handler can go on goes on, that delays
elapse, that the request gets through its loop, and that the stalled check finds a job
whose holder is dead: Node runs ready callbacks, BullMQ moves delayed jobs when they are
due, and every worker runs the stalled check each 30 seconds. Nothing is assumed of the
providers: `Import` may fail each time.

`AutoSync`: the scheduler's interval comes (`Tick`, `Clock`) and what was begun goes on
(`TickStep`, `ImportStep`). `EventPlaylist`: a request goes on; the host and guests go on
opening the pages of the event, and some of these openings are answered. Opening is
strongly fair, since it is possible only while a slot is free: without anybody opening a
page nothing brings table and playlist together. `Account`: requests, rulings and the
job's interval go on, and grace periods end. `WeeklyRecap`: the interval, the run and the
mail worker go on. `LinkImport`: the run goes on while its process lives.

No fault is fair anywhere, and no person has to do anything but open a page.

### Findings

1. *A batch reopened by an older reading* (`transfers_race`). `refreshBatchStatus` reads
   the items in one call and writes the batch in another. Two processes that settle the
   last two items can write in the opposite order of their reads; the batch then says
   `running` with no job left, against `docs/jobs.md:52-54`. With one process
   `RestingBatchIsSummary` shows it cannot happen.
2. *A batch that never closes after a crash* (`transfers_crash`). Between completing the
   last item and the refresh, a crash or a failed refresh leaves it to the repeated job,
   which returns at `item.status === 'completed'` without a refresh.
3. *Twins read as skipped* (`import_twin`). The ledger is read back as a `Set`, so a
   repeated import counts one of two identical tracks that both landed.
4. *Tracks added twice after a crash* (`import_crash`). Tracks are recorded after they
   are added; `docs/jobs.md:49-51` says that a retry does not duplicate.
5. *An import of an empty playlist* (`autosync_empty`). A link imported while the playlist
   is empty ends as completed with an empty ledger. `syncSourceToImport`
   (`auto-sync.ts:348`) takes that for a row from before there were ledgers and records
   what the owner has by then as synced, so these songs are never copied, against
   `docs/qa-checklist.md:55`.

Seen while modelling, and left to the code's authors: a one-way playlist that did not change
leaves the tick before its next poll is planned (`auto-sync.ts:623`), so quiet playlists do
not back off as `docs/qa-checklist.md:61` wants; a song a service refuses in silence is
recorded as copied or counted as matched, since nobody reads `addedTrackIds`
(`auto-sync.ts:310`, `external-import-runner.ts:147`); a video missing at YouTube, or a song
past the first hundred at Apple Music, closes a living event (`events/routes.ts:243`); a stale
handler's `catch` block takes a completed item back (`transfer-worker.ts:91`); a run of the
recap that is cut off after its claim is not taken up again that week; a cover is deleted
before the new one is known to be an image.

## 4. What is proved

All from the named assumptions on the constants in the module concerned: sets that are
not empty, numbers that are natural, a mark that is no member, and, where something is
counted, that callers, job processes and flushes are finite sets. No proof uses a bound
on how much happens.

What a sum, a cardinality or a recursive function yields for every input is proved by the
least counterexample: `NatLessThanWellFounded` with `WFMin` gives a smallest input at which
the claim fails, and the definition's step refutes it. `SumLemmas` does so once for sums and
counts; `BackoffExists` and the lemmas on the engine's ledger use it in the same way.

### `TransfersProofs`: any number of playlists and processes

Under all faults:

* `TypeCorrect`: `Spec => []TypeOK`. `attempts` stays within its limit only because a job
  that has used its attempts is failed, and the handler of a process is there for an
  item only because every step that starts it sets one. `QueueShape` and `HandlerShape`
  say so, and `IInv == TypeOK /\ QueueShape /\ HandlerShape` is inductive.
* `CompletedDetails`: `Spec => []CompletedHasDetails`. `Details` adds that a sync id is a
  sync of its item wherever it is held (row, handler's copy, in use) and that whoever is
  about to complete an item has stored its rows.
* `CompletedItemsStay`: `Spec => CompletedStays`. A job that was not found stalled is run by
  one process at a time (`Serialized`), and past `findItem` that process works on an item
  that is not completed (`Unfinished`). With one process the exception is empty. With two, a
  handler whose lock expired does take the item back, in its `catch` block.

While only providers fail (`Calm`). The invariant `CInv` has four parts. `Held`: the queue
serializes the runs of a job, so a process is alone with its item and knows its attempts.
`Requested`: what the request has been through is in the queue. `Agrees`: an item's status
is the one its job's state, or its process's place in the handler, stands for. `OneSync`: a
sync unknown to its item is about to be stored by the process that created it.

* `QueueAgrees`: `Spec => []JobMatchesItem`, from `Held`, `Requested` and `Agrees`.
* `AtMostOneSync`: `Spec => []OneSyncPerItem`. Creating a sync is safe because the copy
  `findItem` took is still the row's (`OneSync`), which needs `Held`: no second run of the
  job stores a sync in between.

With one process (`Lone`):

* `LoneRestingBatch`: `Spec => []RestingBatchIsSummary`, from `Rests`: the batch says what
  its items say except between the start of an item and the write of the summary, and then
  it is open, so no client sees it closed too early.
* `LoneKeepsPromise`: with `MaxFaults = 0`, `Spec => KeepsPromise`: the initial state maps to
  `TransferBatch`'s, and each step to a step of it or to none (`StepSeen`, `HandlerSeen`).

With two processes these two fail: the run `transfers_race` shows a summary overwritten by an
older one, which leaves a settled batch open.

### `ImportEngineProofs`: any source, provider and number of callers, calls, crashes and lost answers

Two invariants carry everything. `EngineInvs` holds whatever happens:

* `EngineTyped`: `Spec => []TypeOK`. `TypeInv` also says that what a caller takes from the
  queues of fingerprints is there.
* `NoOrphanHasTracks`: `Spec => []OrphansAreEmpty`. While calls do not overlap (`Tidy`) one
  caller at most is at work, and past `PersistPlaylist` the playlist it adds to is the one
  the row names.
* `NothingMadeUp`: `Spec => []LedgerIsEarned`, from `EarnedInv`: what the row and each
  caller have recorded is never longer than the playlist they record for.
* `NothingUnrecorded`: `Spec => LedgerOnlyGrows`, from `GrownInv`: a caller that will write
  the row holds a ledger with all the row has.

`CalmInv == Calm => Orderly` holds while no process dies, no answer is lost and no calls
overlap. `Orderly`: one playlist is made (`OnePlace`); the row's ledger stands for at least as
many source tracks of each match as the playlist holds copies of it (`Settled`), or a caller
that is ahead of the row (`Ahead`) will write one that does (`Queued`), its queues holding
fingerprints of other tracks (`Accounted`). With distinct fingerprints "at least" is "as
many".

* `RetriesAddNothingTwice`: `Spec => []RetriesTopUp`.
* `LedgerIsWhole`: `Spec => []NothingForgotten`, for a source without twins; the run
  `import_twin` shows why it needs that.

### `AutoSyncProofs`: any number of subscribers, songs, services, changes, imports and faults

* `SeenIsCopied`: `Spec => []SeenMeansCopied`. The snapshot is stored before the rows are
  worked on, so the property is not inductive. `SeenInv` carries it through the tick. A
  snapshot is outdated, or lists only what is there (`Snaps`); what the tick has read is what
  is in the database, but for rows deleted since (`TickReads`); what it takes as changed it
  has listed (`Lists`); a row it will still write is `Ready` (its copy in memory has no
  smaller ledger, and it will be worked on, or needs no work); a row it has written is
  `DoneWith` (it accounts for the snapshot, or carries an error that makes the next tick try
  again); an import brings its row up to what is stored (`Importing`). When the tick ends all
  rows are done with, which is `RowsCover`.
* `SchedulerTyped`: `Spec => []TypeOK`, from `TypedInv`. A row exists with its playlist, in the
  database and in the tick's memory (`GoodRow`); a pass back works on a copy that has been
  listed (`Heard`); a playlist is made within an import (`CallTyped`). The back-off doubles
  (`BackoffExists`) and is cut to its limit (`IntervalTyped`).

### `AutoSyncCopiesProofs`: likewise, and whatever the services match a song to

* `OwnerGetsNoDoubles`: `Spec => []OwnerListNotDoubled`, from `OwnerInv`: once a copy is to be
  taken back (`Wanted`), what is in the owner's list has been listed in this tick or added by
  the pass under way (`Known`), but for what the exceptions of the property name (`Unknown`).
  When a pass ends, what it added joins what the tick has listed; when it fails, it is
  `unrecorded`.
* `CopiesGetNoDoubles`: `Spec => []NoDoubles`, from `DoublesInv`. A playlist is empty until it
  is made, and until then no row, tick or import knows of it (`Fresh`). As long as a row is
  undisturbed its ledger, or the one a tick or an import is about to write to it, says where
  each song of the copy came from (`Accounted`): it is the subscriber's own, or matched to by
  a song of the ledger, one left out, one unrecorded, or one sent again. So what an import
  doubles is `again`. A tick knows which playlist the copy is (`TickKnows`) and what is in the
  one it is adding to (`Here`), so it doubles only what the subscriber adds meanwhile or a
  request that is sent again has added.

Both say "more than one", so that `PlusOne` stops counting at two takes nothing from them.

### `EventPlaylistProofs`: any number of requests at a time, songs, edits and faults

* `EventTyped`: `Spec => []TypeOK`. Every copy of a song but the first is paid for by a
  request, an edit or a lost answer, the requests still adding included (`PaidFor`); an upload
  has a name for its file (`Uploading`).
* `ClosedOnlyWhenGone` (`GoneInv`): whoever carries the reason "playlist missing" had it from a
  404 of a playlist that is gone, or of one about a song, which only the services named in
  the property answer (`Gone`).
* `OpenNeedsNoReason`: inductive with the types.
* `NoDoublesButRaced` (`FollowedInv`): every song the playlist holds is in the table, or the
  one add of it is about to write its row, but for those raced, missed or resent; so a second
  add is refused by `hasTrack`.
* `CoverStaysThere` (`CoverInv`): covers are named by number (`Numbered`), each by one request
  (`NamesOwned`), and a saved one is on disk until its request ends (`SavedIsThere`).

### `AccountProofs`: any number of callers, job processes, requests, rulings and faults

* `OneSuccessor` and `RevokedStaysRevoked` from `SessionInv`: tokens are handed out in order
  (`Numbered`), a rotation under way holds the lock of its live token (`Holds`), and no two
  hold one session (`Apart`).
* `PurgeEmpties` (`PurgeInv`) and `CopiesAgree` (`PasswordInv`): no request is about to
  write to a purged account (`Emptied`); whoever is about to write the second copy of a
  password holds the first, and the two differ only while somebody is (`Copied`).
* `AccountTyped`: `Spec => []TypeOK`. Tokens and hashes do not outnumber what was asked for,
  with the callers that are about to make one (`Within`), and audit rows the rulings, with
  the processes that still owe one (`Owing`); passwords in use were made (`Hashed`).
* `PurgeAudited`: `Spec => []PurgeIsAudited` (`AuditInv`): a purge without an audit row has a
  process about to write it, and as long as one process purges at a time there is one row.
* `StaysSignedIn`: `Spec => []SignedOutForAReason`, from `SignedIn`: as long as nothing ended
  the session, whoever refreshes holds a live token nobody else holds (`Sole`), what is
  answered is live, and the jar's token is, or its successor is on the way.
* `LoggedOutForGood`: `Spec => []LogoutHolds`, from `LeftBehind`: a session that was left has
  no live token, no rotation about to be committed, and is in the jar only while the answer
  that clears the jar is on its way (`InJar`).

### `ServerProofs`: any number of processes, users, weeks, attempts, flushes, tracks and faults

* `NobodyTwice`: `Spec => []OneRecapEach`, from `RecapInv`: a week claimed has one run at most
  (`OneRun`), and that run queues only for whom nobody has queued; a mail sent is its job's
  one success or goes with a fault (`SentOnce`).
* `CallsCountedOnce`: `Spec => []CountedOnce`: the table, the buffer, the flushes under way and
  what was dropped add up to the calls recorded.
* `ImportCountsAreTrue`: `Spec => []CountsAreTrue`, from `LinkInv`: the run counts every track
  it passes (`RunCounts`), and as matched only songs the playlist has or the provider refused
  in silence; it knows the playlist's songs, but those whose add was answered as failed
  (`RunKnows`); the row is never ahead of it (`RowFollows`, `RowClaims`).
* `ServerRunsItsParts`: `ServerSpec` implements the specification of each part, since a step of
  one is a stutter of the others; so each theorem about a part is one about the server, and
  `ServerTyped` is `ServerSpec => []ServerTypeOK`.

### Only model-checked

Liveness: `AcceptedBatchCloses`, `JobsEnd`, `AdditionsArrive`, `Settles`, `DueIsPurged`,
`RecapArrives` and `ImportSettles` need fairness and `ENABLED`. The five violated properties
are shown violated by a trace each. Every invariant and every action property of a passing
run is stated by a theorem above.

## 5. What is not modelled

* Provider tokens and OAuth states. What two refreshes at once lead to depends on how each
  provider rotates its tokens, which the code does not say.
* Creating an event with its playlist, drafts, followers and visits, the search, cloning an
  event to another service; registration, profile and avatar; mails that are not recaps;
  Apple's content hash in place of a version; a recipient who changes provider (both services'
  playlists would share a row); several processes that run the scheduler; TIDAL's listing of
  an event's playlist, which is one page only; several synced playlists in one tick (they
  share only the tick's order); the pool that limits concurrent calls.
* Track matching and the parsing of external pages: text heuristics whose results are
  constants here.
* Lists, search, dashboards, analytics, rate limits, roles and permissions of the
  administration: queries and updates of single rows.
* The front ends, the client packages, translations and schemas: views, request wrappers and
  declarations. The one protocol among them, refreshing a session on a 401, is `Refresh` in
  `Account`.

The last three make up most of the repository's lines, and so does, within the modelled
files, what talks to a provider or shapes an answer. The models stand for about 3,900
lines, those in which the order of steps decides what happens.

What would come next: `Transfers` with `ImportEngine` in the place of `Import`; database
calls that are applied although their answer is lost; provider tokens, once a provider's
rotation is known; several synced playlists in a tick, for the error that ends a tick early
(`auto-sync.ts:875`).
