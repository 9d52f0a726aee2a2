# RoosterX in TLA+

RoosterX is a media centre for one household: a Go program that watches media
folders, matches the files to titles of TMDB, finds and downloads torrents, and
serves all of it to browsers over a web socket. This directory holds TLA+
models of the parts of it where several goroutines, libtorrent, the file system
or a restart get in each other's way, the TLC runs that check them, and the
theorems TLAPS has proved about them.

Paths below are relative to `src/`.

## 1. The system

### Components

| Component | Source | State it keeps | Operations | Modelled |
|---|---|---|---|---|
| Torrent engine, preparation | `engine/engine.go`, `files.go`, `loop.go`, `lt/` | `sessions` (one entry per info hash), libtorrent's handles, the files and their names | add (magnet, .torrent), Remove, onMetadata, fixPartNames, finishPreparing, onRenamed, healPartNames, handleEvents | `Engine` |
| Torrent engine, persistence | `engine.go` 81-117, 377-407, `lt/shim.cpp` 243-264, 687-714 | session file, `<hash>.fastresume`, `<hash>.torrent`, `dirty`, `pending_resume` | Start, Stop, add, Remove, flushSession, SaveResume | `EngineStore` |
| Torrent engine, seeding limits | `loop.go` 65-111, `settings.go` | limits per torrent and for all, paused flags | seedingFinished, endSeeding, SetPaused, settings | `EngineStore`, without settings and arithmetic |
| Torrent engine, streaming | `engine/stream.go`, `lt/lt.go` 370-397, `lt/shim.cpp` 171-177, 230-242, 620-684 | `reads`: piece reads under way and their waiters | set the readahead's deadlines, read a piece, time out, read again | `Streams` |
| Peer counts | `engine/scrape.go`, `server/torrent_peers.go` | seeders, leechers, when they were read | scrape, read again after 48 h | no |
| Watcher and sweeps | `walker/walker.go` | timers of the debounce, `sweep.lock`, table `mediaFile` | event, callback, Sweep, FullSweep, resync, removeDeletedMediaFiles | `Library` |
| Event bus | `event-bus/EventBus.go`, `main.go` 79-100 | `dataChannel`, requests waiting for an answer | SendEvent, ReceiveData, answer | `Library` |
| Feeds | `db/feed.go` | `feed_folders`, `feed_torrents` | rebuild of each, warm-up at start | `Library`, `Torrents` |
| Torrent sweep | `torrents/torrent-fetcher.go`, `tpb/search.go` | table `torrentFile` | Lookup, select-insert-stamp, titles, rebuild | `Torrents` |
| Info hash migration | `db/torrentInfoHashMigration.go` | column `infoHash` and its unique index | backfill, dedupe, index, at every start | `Torrents` |
| TMDB matching | `tmdb/get_media_from_tmdb.go`, `match.go`, `rematch.go` | `metaData`, `episode`, the links of `mediaFile` and `torrentFile` to them | match a file or torrent, rematch a torrent and its siblings, drop what is left | `Matches`; choosing a candidate is not |
| TMDB enrichment, ratings, trailers | `tmdb/enrich.go`, `server/helper_funcs.go`, `message_controller.go` 766-818 | columns of `metaData` | EnrichOne, sweep, rating poll, trailers | `Titles`; episodes are not |
| Web socket server | `server/server.go`, `message_router.go`, `helper_funcs.go` | clients, write locks, requests in flight | connect, route, answer in chunks, broadcast, disconnect | `Requests`, `Connections` |
| Browser IPC | `renderer/common/lib/ipcPromise/RendererPromiseIpc.ts` | pending promises, connection | send, chunk, answer, time-out, reconnect | `Requests`, `Promised` |
| Users and profiles | `server/users_controller.go`, `setup_controller.go` | `user` and what hangs on it, whether setup is through | save, delete, finish setup | `Users` |
| Lists | `server/lists_controller.go` | `list`, `listItem` with positions | add, remove, reorder, delete | `Lists` |
| Watch progress | `db/watchProgressMigration.go`, `server/progress_controller.go`, `message_controller.go` 496-505, 624-734 | `watchProgress`, `userEpisode`, `userMetaData` | report of a player, mark an episode or a series watched | `Users`, `Watched` |
| Schema and migrations | `db/createTables.go`, `db/*Migration.go` | tables and their shape, `user_version` | the sequence run at start | `Matches` (TMDB ids per kind, long episodes), `Torrents` (info hashes) |
| Setup, configuration, schedule, tray, HTTP streams, certificates, IPTV, views | `config`, `scheduler`, `iptv`, `server/*.go`, `renderer` | little or none | I/O, rendering | no, see section 8 |

`models/*.go` and `rooster-icon.go` are generated, `parse-torrent-name` is
third-party code.

### How the components interact

- A browser's message runs on a goroutine of the server and calls the engine,
  the database or a sweep directly. The tray, the schedule and `main` start the
  same sweeps on goroutines of their own.
- libtorrent runs its own threads. `lt/shim.cpp` collects its alerts in a queue;
  the engine's loop empties it every second and after that checks the seeding
  limits, heals part names and flushes the session file.
- fsnotify delivers events to one goroutine, which keeps one timer per path; the
  callback of a timer runs on a goroutine of its own.
- A sweep ends with an event on the bus, which one listener goroutine of `main`
  answers; the sender waits for the answer.
- Sweeps and rematches change rows, then rebuild the feed tables, then tell all
  browsers to reload; a browser reads the feed only then.
- All of it shares one SQLite database. Statements are atomic; most operations
  are several statements without a transaction.

### What is hard about it

The hazards are listed one by one, with their lines, in `PROJECT.json`. In short:

- **The engine** must not let libtorrent create an unfinished file under its real
  name. It gets there by holding a torrent in upload mode while renames, which
  are asynchronous, are counted down from events that carry nothing but the info
  hash, while the same torrent may be added again or removed.
- **The library** turns bursts of file events into single callbacks and runs
  sweeps that read, look things up for a long time, and write.
- **The event bus** answers a sender that may not be listening yet.
- **The torrent sweep** selects, inserts and stamps in three statements, may
  overlap with itself, and may be killed in between; a migration is to tidy up.
- **Household data** (lists, progress, users) is changed by several browsers at
  once, mostly without transactions.
- **Persistence** of the engine is spread over three kinds of files that are
  written at different times.

### What makes each component correct

| Component | Correct when |
|---|---|
| Engine, preparation | a preparing torrent downloads nothing; unfinished data has no real name; data on disk is noticed; each torrent in the client has an entry; preparation ends; finished files get their names |
| Engine, persistence | what was running before a stop or a kill runs after it, with a session file that is never half written and resume data of the right torrent |
| Seeding | a torrent the user has resumed is not paused for a limit it had reached before |
| Streaming | a reader gets the piece it asked for or an error, and none waits for ever |
| Library | when nothing is going on, the rows are the files on disk and the browser shows the rows with titles; one full sweep at a time; no sweep hangs |
| Torrent sweep, migration | one row per torrent; the feed counts what is there |
| Matching, migrations | every file is on a title of its kind, one of a series on its own episode, whatever was dropped or added meanwhile |
| Enrichment | every title gets its details and rating in the end, whatever writes over whatever |
| Requests | what `send()` returned settles once and in time; a streamed result is whole; one writer per connection; a connection whose browser has gone is closed and its lock is not left behind |
| Users, lists, progress | an admin remains; nothing of a deleted user does; positions are distinct and the order given stays; a finished episode stays finished; a series is watched when its episodes are |

## 2. Modules

| Module | Models | Run by |
|---|---|---|
| `Engine` | preparation of torrents: requests, loop, libtorrent, disk | `MCEngine` |
| `EngineProofs` | theorems about `Engine` | TLAPS |
| `EngineStore` | session file, resume data, .torrent files, start, stop, kill, seeding limits | `MCEngineStore` |
| `EngineStoreProofs` | theorems about `EngineStore` | TLAPS |
| `Streams` | readers of one piece, the alert loop, a torrent that goes and comes back | `MCEngineLive` |
| `StreamsProofs` | theorems about `Streams` | TLAPS |
| `Library` | watcher, sweeps, `sweep.lock`, event bus, feed and reload | `MCFiles`, `MCLibrary` |
| `Matches` | matching, rematching, dropping titles, two migrations | `MCFiles` |
| `LibraryProofs` | theorems about `Library`, `Matches` and the two together (`MCFiles`) | TLAPS |
| `Torrents` | torrent sweeps, the info hash migration, kill and restart | `MCRows`, `MCTorrents` |
| `TorrentsProofs` | theorems about `Torrents`, and about all rows together (`MCRows`) | TLAPS |
| `Users` | users, what belongs to them, progress, setup | `MCRows` |
| `Lists` | the items of lists and their order | `MCRows` |
| `Watched` | watched flags of the episodes of a series and of the series | `MCRows` |
| `RowsProofs` | theorems about `Users`, `Watched` and `Lists` | TLAPS |
| `Requests` | a request and its answer, from `send()` to the handler and back, over a connection that breaks | `MCServer` |
| `Promised` | what `send()` promises: the abstract specification `Requests` implements | `MCServer` |
| `RequestsProofs` | theorems about `Requests` | TLAPS |
| `Connections` | write locks, broadcasts, closing | `MCServer` |
| `Titles` | enrichment, ratings and trailers of titles | `MCServer` |
| `ConnectionsProofs` | theorems about `Connections`, `Titles` and the server together (`MCServer`) | TLAPS |

`MCFiles`, `MCRows`, `MCServer` and `MCEngineLive` put modules that share no state
side by side: a variable `part`, chosen at the start, says which one moves. Every
behaviour is one of one module, so a run checks each module as if alone, and
costs the sum of their states and not the product.

Every model has actors with a label (`pc`, or `at` in the record of the actor):
the next call the goroutine makes. One
action is what happens between two points at which another actor can see or
change something: one hold of the mutex `mu`, one SQL statement, one call into
libtorrent, one channel operation. Local variables that outlive such a point are
in `loc` or that record. An operator named as a mutant in its comment is a plausible bug in the
definition that follows it; it is no part of the specification.

### Engine

| State | Code |
|---|---|
| `sessions[t]` | `Engine.sessions[hash]`: `preparing`, `pendingRenames`, `recheck`; `id` tells a pointer to this entry from one to a later entry |
| `client[t]` | libtorrent's handle: has metadata, upload mode, checking, the name and completeness of each file |
| `disk[t][f]` | where the file's data is (real name, part name, nowhere) and whether it is all there |
| `renames` | renames libtorrent has been asked for, carried out in order |
| `events` | alerts the shim has collected |
| `doomed` | torrents whose files `deleteWithRetry` is deleting |
| `odd[t]` | history only: what unusual things befell the torrent. No guard reads it |

| Action | Code |
|---|---|
| `Add`, `AddStatus`, `AddInsert` | `add`: the client gets the torrent, its status is read, the entry is written |
| `OnMetadata`, `FixPartNames`, `RenameFile`, `SetPending` | `onMetadata` and the `fixPartNames` it calls |
| `FinishPreparing`, `ForceRecheck`, `LeaveUploadMode` | `finishPreparing` |
| `RemoveFromClient`, `RemoveEntry`, `DeleteWithRetry` | `Remove` |
| `HandleMetadata`, `HandleProgress`, `HandleRenamed`, `HealPartNames` | the loop |
| `MetadataReceived`, `TorrentChecked`, `PieceWritten`, `FileCompleted`, `FileRenamed`, `FileRenameFailed` | libtorrent, as the shim hears of it |

The loop takes events one at a time from the queue, where the code takes the
whole batch first: since libtorrent only appends, the order in which they are
handled is the same.

### EngineStore

`Engine` and `EngineStore` look at the same code for different questions: in
`Engine` a torrent's way out of upload mode has many steps and files are names; in
`EngineStore` it is one step (`FinishPreparing`), and files are what a restart
finds.

| State | Code |
|---|---|
| `phase` | the program: down, in `Start`, up, in `Stop` |
| `sessions[t]`, `dirty` | `Engine.sessions[hash]`: has a magnet, was resumed, is preparing; `id` tells it from the entry of a later add |
| `client[t]` | libtorrent's torrent: upload mode, paused outright and by whom, finished, and `unsaved` (need_save_resume_data) |
| `over[t]` | `seedingDone`, by what the entry says |
| `alerts`, `pending` | resume data libtorrent has been asked for, in order; `pending_resume` |
| `sessionFile`, `resumeFile[t]`, `torrentFile[t]` | the three kinds of files. The session file is written in place, hence `torn`; resume data goes to a temporary file that is renamed, and is never torn |
| `odd` | history only: what unusual things happened. No guard reads it |

| Action | Code |
|---|---|
| `Start`, `StartAdd`, `StartDone` | `loadSession` and an `add` for each torrent in the list |
| `Stop`, `Close`, `Kill` | `Stop` called by `onExit` up to its `SaveResume`; the client closed and `os.Exit`; the process killed. Requests go on in all phases but "down", as the server is up before `Start` and during `Stop` |
| `Add`, `AddInsert`, `KeepTorrentFile` | `Add` or `AddTorrentFile`: the client, the entry, the name of the .torrent file |
| `Pause`, `Unpause`, `UnpauseStatus`, `UnpauseUpdate` | `SetPaused` |
| `RemoveRequest`, `RemoveEntry`, `RemoveResumeFile`, `RemoveTorrentFile` | `Remove` |
| `Statuses`, `SeedingFinished`, `EndSeeding`, `SeedingEnded` | a tick's seeding limits; whether resume data is saved in this tick |
| `SaveResume`, `AllAskedFor`, `AwaitResume`, `SaveAlert` | `lt_save_resume` per torrent, its wait (which may time out), and the alert thread that writes the file |
| `FlushSession`, `TruncateSession`, `WriteSession`, `WriteFails` | `flushSession` |
| `FinishPreparing`, `Finished`, `LimitReached` | what becomes of a torrent meanwhile |

The loop, main's goroutine in `Start` and that of `onExit` in `Stop` are one actor,
because each begins when the one before has ended.

### Library

| State | Code |
|---|---|
| `disk`, `rows` | the files, and the table `mediaFile` (row id, has a title) |
| `timers`, `orphans` | the map of timers in `debounceWatch`, with the event each closure captured; timers that still run and that the map no longer has |
| `lock` | the file `sweep.lock` |
| `queue`, `replying` | `dataChannel` and the request the listener is at |
| `feed`, `ui`, `reloading` | `feed_folders`, what the browser shows, a reload it has been told of |

The watcher's callbacks and the full sweeps share the steps of `Sweep`:
`Walk`, `ReadKnown`, `Insert`, `ReadUnmatched`, `Match`, `SweepDone`, and of
`removeAllDeletedMediaFiles`: `ListRows`, then `Look` (the file) and `DeleteRow` (its
row, by id) for each row, and `PruneDone`; then
`RebuildFeeds` and `BroadcastReload`. A sweep that finds no files takes the early
return: `Unlock`, `Send`, `AwaitReply`, and `Resume` when it is answered.

### Torrents

`rows` is the table `torrentFile` by magnet (there, hash stamped, has a title),
`index` the unique index, `boot` what the migration does next. `Restart` may
happen at any point and throws away the goroutines. The migration runs before
anything else starts, as in `main`.

### Streams

One piece of one torrent. `slot` is its entry in `lt_session::reads`, `cell` the
`piece_read`s at their addresses (whether done, how many waiters), `wanted` and
`replies` what libtorrent owes and the alerts under way. `Join`, `AskPiece`,
`Wake` and `TimedOut` are `lt_read_piece` up to its unlock before
`set_piece_deadline`, that call, and the two ways its wait ends; a reader that
timed out is `ReadPiece` coming `again`. `HandleAlert` is the shim's
`read_piece_alert`. `SetDeadlines` is another stream of the torrent that has the
piece in its readahead: its deadline comes with flags of its own, and the alert
asked for before is no longer owed. `unasked` is history, the reasons why nobody
will be told of the piece: a request threw, went with the torrent (`gone`), or was
`overwritten`.

### Matches

| State | Code |
|---|---|
| `titles`, `episodes` | the rows of `metaData` and `episode`. A row is its title and a number that tells it from an earlier row of the same title |
| `link[f]` | `metaDataId` and `episodeId` of a `mediaFile` or `torrentFile` |
| `stage`, `left`, `rebuilt`, `version` | where the migrations are, the links they have taken away, whether `metaData` has been rebuilt, `user_version` |
| `job[j]` | a sweep matching a file, or a rematch: what it has found and is about to save |
| `halfway` | history: a kill came between the rebuild and the end of its unlinking |

Matching is five statements: find the title (`FindTitle`), find the episode
(`FindEpisode`), save what is new (`SaveTitle`, `SaveEpisode`) and link
(`SaveLink`). A torrent's episode is found before its title is saved, a media
file's after. `RematchTorrent` is that without the title there was, then
`FindSiblings` and `NextSibling` for the torrents of the same name and `DropOld`
for what they leave; a step that fails gives the torrent its links back
(`Restore`). Unique indexes and foreign keys refuse rows (`SaveTitle`,
`SaveEpisode`, `MayLink`). The database starts as older versions may have left
it (`OldLinks`).

### Users, Lists, Watched

A request is a record that goes through the statements of its handler.
`saveUser` and `deleteUser` are transactions that read and then write: `stale`
says that another commit came in between, upon which SQLite refuses the write.
`Ping` is a report of a player; any may come at any time, also after the user is
gone (`late`). `Lists` keeps `wished`, the order last asked for, as the pairs of
items of which the first was to come before the second, and `mixed`, the lists in
which an addition was overtaken. `Watched` is one user and one series:
`mark` a request, `adding` the episodes matching has inserted without having
unmarked the series yet. `strayed` is history: why the series' row may not be what
its episodes say (a verdict overtaken, a series marked by itself, an episode
dropped, a kill, or an episode marked before matching unmarked the series).

### Requests, Promised, Connections

`outcome`, `queue`, `heard`, `socket` are the browser's side
(`RendererPromiseIpc`), `handler` the server's goroutine of each request, `up` and
`down` what is under way. `Break` loses any of the requests and a tail of the
frames; the browser notices later (`Closed`) and opens a new socket (`Reconnect`).
A handler is told apart only by how it answers: chunks and one answer, or twice.
`Promised` has two variables and five actions; `P == INSTANCE Promised WITH call
<- outcome, parts <- heard`, and `KeepsPromises == P!Spec` is checked with its
fairness.

`Connections` looks at the same connection for who writes to it: `writeWS` takes
a lock out of the map (`TakeLock`), waits for it (`Lock`) and writes (`Written`),
while `BroadcastMessage` holds `Server.mutex` and writes to one client after the
other and `wsHandler` runs its deferred calls (`LeaveClients`, `DeleteLock`,
`Close`). A client that stays connected may stop reading (`StopsReading`); a write to
it does not end, since no write has a deadline.

### Titles

A row of `metaData` by what is fetched later: enriched, details, an IMDb id, a
rating. `poll`, `sweep` and `asker` hold the rows they have read; all but the poll
write the whole row back. A sweep's list is the set of the rows it has read, of
which it takes the newest: ids grow with time, and the list is in their order.
`known` is the IMDb id TMDB names for each title, and titles that share one clash
(`Clashes`): the column is unique. `Update` is any write of a row: the id of another
row refuses it each time, and `MaxFailures` writes fail for other reasons, after
which the writer gives up and leaves the row as it was.

## 3. Runs

| Run | Question | Instance | Result |
|---|---|---|---|
| `engine_prepare` | Is preparation safe under every interleaving? | 1 torrent, 2 files, 2 requests at a time, 2 adds, 1 refused rename | holds, 1 286 000 states |
| `engine_live` | Does preparation end, do finished files get their names, does a stream go on? | 1 torrent, 1 file, 1 request at a time; 3 readers of a piece and the readahead of others, a torrent added twice, 2 alerts under way | holds, 23 000 states |
| `engine_lost` | Is data on disk rechecked when request and loop both run onMetadata? | 1 torrent, 2 files, 1 add | **violated**, finding 1 |
| `engine_store` | Is what was there before a stop or kill there after it? | 1 torrent, 1 request at a time, 3 requests, 2 stops or kills, 1 failed write | holds, 2 180 000 states |
| `resume_undone` | Do seeding limits start anew when the user resumes? | 1 torrent, 2 requests | **violated**, finding 5 |
| `library` | Do rows, screen and lock come out right? Is every file on a title of its kind? | 2 files in a folder, 2 full sweeps, 1 callback at a time, 3 changes or sweeps; 2 torrents of an episode, 2 series of which one has the TMDB id of a movie, a sweep and a rematch, 2 lives of each row | holds, 2 126 000 states |
| `lost_create` | Is every file in the library? | 1 file, 1 full sweep, 2 changes | **violated**, finding 3 |
| `sender_stuck` | Does a sender go on? | 1 file, 1 full sweep, 1 change | **violated**, finding 2 |
| `torrents` | One row per torrent, and a feed that follows? An admin, nothing left of others, orders that stay, a series that follows its episodes? | 3 torrents under 4 magnets, 3 sweeps of which 2 at once, 1 kill; 2 users, 2 requests; a list, 2 titles, 3 requests; 2 episodes, 2 marks | holds, 2 035 000 states |
| `torrents_dup` | Does a start tidy up duplicates? | the same magnets, 2 sweeps | **violated**, finding 4 |
| `server` | Do promises settle, once and whole? One writer, and no lock left? Does every title get its rating? | 2 promises, 2 chunks, 2 sockets; 2 connections of which any may stop reading, 2 handlers, a broadcaster, 1 write each; 2 titles that may share an IMDb id, 1 poll, 1 request, 1 failed write | holds, 314 000 states |
| `stream_timeout` | Does a streamed answer go on while its chunks come? | 1 promise, 2 chunks, 1 socket | **violated**, finding 6 |

### Bounds

- `MaxAdds`, `MaxChanges`, `MaxSweeps`, `MaxRefusals`, `MaxCrashes` bound what the
  environment does. One repetition is enough for each race: an add and an add, an
  add and a Remove, a file that goes and comes back, a sweep and another one.
- `MaxQueue` bounds the events up to which peers and the healing add more. It is
  no bound on renames: what the engine asks for is always carried out.
- Two files in `engine_prepare` are what it takes for "first rename" and "last
  rename" to differ, and for one file to be there while the other is not.
- `FirstLife` (`engine_prepare`) ends exploration at a torrent on which a Remove
  ran into another call, or that was added again after a Remove. The properties
  except the type invariant say nothing of those. The theorems of section 6 do
  not need the constraint.
- `ThreeThings` (`library`) allows two changes and a full sweep, or one change and
  two full sweeps.
- `OneOddity` (`engine_store`) explores two ends of the program, or one end and one
  unusual event (a timeout, a failed write, a call during `Stop` and so on);
  and nothing after two calls on one torrent have overlapped, of which every
  property but the type invariant and `PendingCounts` says nothing (`Engine` is about those).
  Requests of one caller still overlap with the loop, the alerts, `Start` and
  `Stop`. `TwoAlerts`: at most two saves of the torrent are on their way, which
  takes a save that has timed out and the next one.
- `engine_store` has one torrent. Torrents share `dirty`, the session file, the
  count of alerts and, in `Start`, the loop that is at one of them while another
  waits; the run does not see the last. The theorems of section 6 are about any
  number, and `ToStart` and `Crosses` say what they say because of a second torrent.
- In `torrents`, two magnets carry one hash (one torrent under two names), one
  another hash, and one row of an old database has none.
- `MaxParts` and `MaxSockets` 2 (`server`): a first and a last chunk, and a
  connection that breaks and one that is opened again. Two promises are enough
  for frames of one to come between those of the other.
- `MaxWrites` 1 (`server`): a write of each of three goroutines to two connections
  is a writer that has the lock, one that waits for it, and one that makes a new
  one. It also keeps anybody from writing for ever, which `ConnectionCloses`
  needs: nothing in the code promises a mutex to the one who waits longest. The
  theorems have no such bound.
- `MaxFailures` 1 (`server`): one write that fails for a time, of any of the writers, is
  enough to see who tries again; writes refused for their IMDb id are not bounded.
- `MaxTitle` 2, `MaxAsked` 1 (`server`): the poll takes the newest title, so a
  second one shows whether the first is ever reached.
- `MaxAdded`, `MaxReplies` 2 (`engine_live`): a late alert of an earlier life of the
  torrent beside one of this life. Three readers: one who asks, one who shares
  and times out, one who joins in between. `Addresses` has one more.
- `MaxLives` 2 (`library`): a title or episode that is dropped and comes back. Two
  torrents of one episode are a torrent and its sibling, and share the episode
  each may drop. A series, the movie with its TMDB id, and another series are
  what a link of the wrong kind and a rematch need. A file that is no torrent
  saves a new series before its episode; `MediaFiles` is empty in this run.
- `MaxPosition` 3 (`torrents`): two titles, and positions past a gap.
- Symmetry is used for callers, sweepers, watchers and torrents of equal name only, in runs without
  liveness properties: no definition tells them apart.
- The runs switch the deadlock check off: with the bounds used up, and in a
  house where nobody does anything, nothing is left to do.

## 4. Fairness

`FairSpec` of `Engine`: each goroutine goes on once it has begun (weak fairness of
`Continue`), since it holds no lock for good and calls nothing that blocks; the
loop's ticker comes back for events and for healing however busy it is in
between (strong fairness, because handling an event disables both for a while);
libtorrent carries out renames and checks. Nobody promises that requests come,
that peers send metadata or pieces, or that a refused rename is refused only
once: `MaxRefusals` bounds that.

`StreamsSpec`: a reader's call goes on, libtorrent answers for a piece it has, and
alerts are handled. Nobody has to add the torrent, send the piece or watch it, and
nobody's readahead has to come or to stay away.
`PieceComes` assumes what the code relies on, that from some time on half a second
is enough for libtorrent to answer.

`RequestsSpec`: timers fire (`Timeout`, `SendAgain`). The network and the handlers owe
nothing: that a promise settles rests on its timer alone.

`ConnectionsSpec`: the deferred calls run, and goroutines that write go on, except in
a write to a client that has stopped reading. `server.go` sets no write deadline, and
TCP does not give up on a live client: such a write need not end. `ConnectionCloses`
excepts the one case in which it holds up others, a broadcast that is at such a
client with `Server.mutex` in its hand (`Stuck`).

`TitlesSpec`: the schedule starts the poll and the sweep again and again, and
requests end. TMDB and IMDb need not know anything. Writes may fail, but not for
ever (`MaxFailures`), unless the row is one the database refuses.

`FairSpec` of `Library`: goroutines, the listener, timers and the browser's
reload. Nobody has to touch a file or ask for a sweep.

## 5. What is not as the code's comments say

Each of these is a run that TLC finds violated.

1. `DataRechecked` (`engine/files.go:46`). `onMetadata` stores what its own
   `fixPartNames` found, whatever was stored before. When the metadata of a magnet
   comes while `add` is under way, the request and the loop both run it: the second
   one finds the files renamed by the first, stores a count of 0 and no recheck, and
   lets the torrent go over data on disk it does not know. The same line stores the
   count after the renames have been asked for: a `file_renamed` the loop has handled
   before is not counted ("early"), and a torrent whose count never comes down to 0
   stays in upload mode for ever. `DataOnDiskKnown` excepts the first case,
   `PreparationEnds` both.
2. `SendersGoOn` (`main.go:94`). The listener's answer is a non-blocking send on
   an unbuffered channel. Between the two lines of `SendEvent` nobody receives,
   the answer is dropped and the sender waits for ever; a full sweep, or a
   watcher's callback with its timer still in the map.
3. `FilesTracked` (`walker/walker.go:195`). The timer remembers the first event of
   a burst. A file that is removed and put back within a second is handled as a
   removal; when its row had been deleted before it came back, it has none.
   `TrackedWhenQuiet` holds with bursts of mixed events excluded, and two callbacks
   of one path at once: an event resets a timer whose callback still runs, so that a
   second one starts, and the first to end deletes the timer they share from the
   map (walker.go 159-162).
4. `CleanAfterBoot` (`db/torrentInfoHashMigration.go:40`). Two sweeps at once can
   leave two rows of a torrent, the second without its hash because the index
   refuses it. The backfill of the next start then fails on that same index and
   the migration returns before it removes duplicates. `NoDuplicates` holds for
   sweeps that do not overlap.
5. `LimitsCountFromResume` (`engine/loop.go:27`). `SetPaused(hash, false)` hands the
   torrent to the queue and only then records the resume from which the limits
   count. A tick in between still finds the torrent over the limit, and
   `endSeeding`, which does not look again, pauses it (or removes it) at once.
6. `StreamingGoesOn` (`renderer/common/lib/ipcPromise/RendererPromiseIpc.ts:129`). A
   comment says that streaming requests "should not error out as long as they're still
   producing chunks". The timer (`ipc.service.ts` 13: 120 s) does not look whether
   chunks come, and no chunk puts it off: such a request is rejected, and what comes
   later finds no entry.

### What the other properties except

A property that holds only beside a known weakness names it, as a member of a
history variable (`odd`, `unasked`, `strayed`, `mixed`, `halfway`) that is set where
the weakness bites. TLC shows "unlisted", "readded", "crossed" (without `FirstLife`),
"overwritten", "stale", "leaked", "miscounted", "returned" and the last of `strayed` as
soon as the name is taken out of the property.

Of the engine:

- "unlisted" (`engine/files.go` 59, `HiddenUntilFinished`, `PreparationEnds`): libtorrent
  has a torrent from `lt_add` on and the entry comes later, so the loop may handle its
  'checked' before. It then asks for the renames, the request only for those that
  are left, and the renames' events end the preparation while a real name is left.
- "readded" (`engine/loop.go` 47, 54, every safety property of
  preparation but `EntriesMatchClient`, and `PreparationEnds`): events carry the
  info hash only, so those of a torrent that was removed are taken for the one added
  after it, and may end its preparation.
- "crossed" (`engine/engine.go` 295, most properties): `Remove` takes the torrent from
  the client first and from `sessions` last. An `add` in between leaves a torrent that
  runs and is not in the list, or an entry without a torrent.
- "refused" (`DataOnDiskKnown`, `HiddenUntilFinished`): the disk refuses a rename. It
  counts as done, and the file keeps the name it has until `healPartNames`.
- "stale" (`engine/engine.go` 302, `OwnResume`): an alert that was asked for before
  `Remove` deleted the resume data writes it again, and it is there when another
  torrent of that hash is added.
- "leaked" (`lt/shim.cpp` 703, `PendingCounts`): a torrent that is removed while
  `lt_save_resume` asks for its data leaves `pending_resume` one too high for good, so
  every later save waits out its time.
- "failed", "unkept", "listed" (`DirtyTells`, `Restartable`): a write of the session file
  that fails, or is cut short by a kill, loses changes or the whole list; a kill
  between an entry being flushed and its .torrent file getting its name leaves an
  entry no start can add.
- "overwritten" (`lt/shim.cpp` 627, `AnswerOwed`, `PieceComes`): every read of a stream
  sets deadlines for the pieces ahead without asking for an alert. libtorrent
  overwrites the flags of a piece that has a deadline, so an answer another stream is
  waiting for is not sent, and its readers time out although the piece came, as often
  as the streams meet. "threw" and "gone": `lt_read_piece` does not count a waiter out
  when `set_piece_deadline` throws (`shim.cpp` 659, 680), and a removed torrent answers
  nobody; the `piece_read` stays, not done, until an alert of somebody else's comes.

Of the library and the rows:

- "miscounted" (`walker/walker.go` 337, `ShownWhenCounted`): a sweep learns that a file
  got a title from the number of rows without one being smaller than before. A
  failed lookup should have marked its row (`metaDataId` 0), but the foreign key
  refuses that and the error is dropped (`tmdb/get_media_from_tmdb.go` 556), so a file
  that another sweep inserts and cannot match in between evens the count out, and
  the browser is not told of the title.
- "returned" (`walker/walker.go` 284, 286, `TrackedWhenQuiet`): the file is looked for
  and its row deleted in two steps. A file that comes back in between, and whose row
  the watcher's sweep still finds, ends without one.
- `strayed` (`SeriesFollows`): a verdict of `setWatchedEpisode` that another mark
  overtakes, `setWatchedMeta`, a dropped episode, a kill, and an episode the user has
  marked after matching inserted it and before matching unmarks its series
  (`tmdb/get_media_from_tmdb.go` 636, 736) leave the series' flag different from its
  episodes' until the next mark.
- `mixed` (`OwnPosition`): two `AddListItem` at once can give two items one position;
  the next reordering repairs it.
- `halfway` (`LinksFit`): `MigrateTmdbIdPerKind` ("Safe to run multiple times") unlinks
  only in the start that rebuilds the table (`db/tmdbIdPerKindMigration.go` 33-41): a
  kill after the rebuild leaves the wrong links for good.
- `FeedFollows` is said of a program that has not been killed: a kill between a sweep's
  rows and its rebuild, or rows the migration drops, leave the feed behind until the
  next rebuild.

Of the server:

- `Stuck` (`ConnectionCloses`): `BroadcastMessage` holds `Server.mutex` while it writes
  to each client (`server/server.go` 233-258), and no write has a deadline. A client
  that stays connected and does not read holds up connecting and disconnecting of
  all others for as long as it likes.
- `Clashes` (`EndsComplete`): a sweep writes the whole row (`tmdb/enrich.go` 429). If
  TMDB names an IMDb id another row has, the unique column refuses it; nothing of the
  title is stored, and it is fetched again in every sweep.

### Seen while modelling, without a property

- `reprocess-genres` (`message_controller.go` 596-602) rejects and then resolves; the
  second answer finds no entry. An answer that cannot be marshalled
  (`helper_funcs.go` 33-36) is not sent at all, so only the time-out settles.
- `EnrichOne`, `GetTrailer` and `GetImdbRating` write whole rows they read before
  asking a server: what the poll stored meanwhile is lost and fetched again.
- `GetEpisodeFromTMDB` looks an episode up by the series' TMDB id, not its row
  (`get_media_from_tmdb.go` 98-102). That the episode found belongs to the row that
  is linked rests on the unique index on `(tmdbId, series)`; `SaveTitleTwice` is the
  mutant without it.
- A kill between relinking and `DropUnused`, and a sweep that links a file it read
  before a rematch, leave a title without links; nothing removes it.

## 6. What is proved

Without the constraints and bounds of the runs, from the assumptions on the
constants alone (there is a torrent, a magnet or an entry, the loop is no caller, a
sweeper is no watcher, there are finitely many files, bounds are natural numbers).

**Engine**, for every number of torrents, files and callers:

- `TypeCorrect`: `Spec => []TypeOK`. `TypeOK` is inductive; the work is that the
  queues stay sequences of well-typed records, that what a loop asks for is a
  sequence of renames, and that the count of renames does not go below 0
  (`HandleRenamed` checks it).
- `PreparingCorrect`: `Spec => []PreparingHolds`, a torrent whose entry says
  preparing is in upload mode. `PreparingHolds` is not inductive: whether the mode
  may be left depends on who is where. The invariant `PreparingInv` says, of every
  torrent on which no Remove ran into another call and that was not added again
  (`Clean`): a handle of the client is in upload mode if its entry is preparing
  *or not written yet* (`Held`); whoever is between `onMetadata` and the end of
  `finishPreparing` works on a torrent that has an entry, and whoever is about to
  recheck it or to leave upload mode has cleared `preparing` before (`Working`).
  `Adding` says that an `add` under way will write an entry, and not none.
- `EntriesCorrect`: `Spec => []EntriesMatchClient`. `EntriesInv` says that while
  the two differ somebody is on the way to bring them together
  (`BroughtTogether`): an entry without a handle has a Remove between its two
  steps, a handle without an entry an `add` that has not got to its end; and that
  either finds in the client what it expects there (`AddsWhatIsHere`).

- `DataKnownCorrect`: `Spec => []DataOnDiskKnown`. What makes it true is spread over
  the whole preparation, so the invariant `DataInv` says of every torrent that nothing
  odd but an early event has befallen (`Plain`) which phase it is in and what holds
  there. While it is
  preparing (`Preparing`) nobody has looked at the files yet (`Waiting`), or one
  goroutine is in `onMetadata` (`Naming`), or the renames are being counted
  (`Counting`), or the loop is about to finish (`Counted`), or there was nothing to
  rename (`NothingToName`); afterwards it is `Prepared`. In each, a file that does
  not have its right name has a rename queued or still to be asked for, and as soon
  as a file that is on disk under its part name is one of them, the local or the
  stored `recheck` is set. The renames queued and the events of those carried out,
  counted together (`Uncounted`), are never more than the entry counts or the local
  variable `n` will: that is why the last event finds the queue empty. A count that
  is too high (an early event) does no harm here. It is a theorem about torrents that
  nothing worse than an early event has befallen: no refused rename, no event before
  the entry, no two runs of `onMetadata` at once (finding 1), no Remove across another
  call and no second add. `RecheckInv` says that whoever is
  about to recheck holds the torrent in upload mode. `Hits` and its lemmas count the
  elements of a sequence that have a property, by the cardinality of their places.
- `HiddenCorrect`: `Spec => HiddenUntilFinished`, an action property, from `Prepared`:
  once a torrent may download, a file that is nowhere on disk has its part name
  (`Tidy`), under which its first data is written. It excepts the same torrents as
  `DataKnownCorrect`.

Each of these proofs has a lemma per group of actions (requests, calls that go on, events,
libtorrent), a frame lemma for the steps that touch nothing of a torrent, and
`OddGrows`: the history only grows, which lets a step from an excluded state be
dismissed.

**EngineStore**, for every number of torrents and callers:

- `TypeCorrect` and `PendingCorrect`: `Spec => []TypeOK` and
  `Spec => []PendingCounts`. They are proved together by `Inv`: that the count of
  alerts to come is a natural number needs that it is not less than the number of
  alerts on their way, also after a request has been counted and not made
  (`Counted`), where `PendingCounts` says nothing any more.
- The five others rest on `ControlInvariant`: `Control` says where the actors can be
  in each phase of the program and that a start works through the list it has read,
  `Shape` what an entry or a torrent that is not there looks like. Most steps only
  tinker with a torrent (`Tinkers`) and are dealt with once for each invariant.
- `UploadPrepared`: `UploadIsPreparing`.
- `RestartPossible`: `Restartable`, from `RestartInv`: what the engine knows, or has
  listed and yet to start, has resume data, a magnet or a .torrent file, or somebody
  is about to give the .torrent file its name (`Restorable`). `Magnets` says that
  the entry in `sessions`, in the file, in what is being written and in what is about to be
  inserted are of one kind if they are of one add.
- `ResumeOwned`: `OwnResume`, from `OwnInv`: a resume file is of the torrent the
  client has, or that torrent is just being removed, or it waits for `Start` and the
  session file has that very entry. It says nothing once a late alert has written a
  removed torrent's file ("stale"), or two calls on a torrent have overlapped.
- `DirtyCorrect`: `DirtyTells`, from `DirtyInv`: without `dirty` each entry of
  `sessions` is in the file, or in the list that is being written (`InFile`), also
  in the middle of a start; a start may skip only what cannot be added (`Skipped`).
- `StopSaved`: `Spec => StopKeeps`, an action property. `SaveInv`: while a stop saves, the
  last alert under way for a torrent, or its file if there is none, is what the
  client has (`OnItsWay`); when `flush` begins no alert is left, and when the file
  has been written nothing is dirty.

**Library**, for every finite set of files, however they lie in entries, and every
number of sweepers, watchers, changes and full sweeps:

- `TypeCorrect`: `Spec => []TypeOK`. Files are finitely many so that they can be
  given ids at first and the rows without a title can be counted.
- `OneFullSweepCorrect`: `Spec => []OneFullSweep`. The invariant is `Guarded`:
  unless one of the two ways around the lock has been taken ("unlocked" in `odd`),
  a full sweep that works has the file, nobody else works, and nobody else is
  between looking for the file and making it (`Alone`). That a lock is only taken
  away by its owner or by a sweep without files needs `Errands`: a watcher's
  callback gets to `releaseLock` only when it found no files.
- `ShownCorrect`: `Spec => []ShownWhenCounted`. `FeedInv`: the feed is the titled rows,
  or a goroutine that will rebuild it is under way (`Owes`), or a title has been
  miscounted; `UiInv`: the browser has the feed, or has been told to reload, or is
  about to be told.
- `TrackedCorrect`: `Spec => []TrackedWhenQuiet`. `TrackInv` has three parts, for as long
  as no timer kept a wrong event and no callbacks overlapped: a file without a row
  has a timer that will handle its coming or a goroutine that will insert it
  (`MissingInv`); a row without a file one that handles its going or will prune it
  (`GhostInv`); and who is about to insert a file that has gone meanwhile has a timer
  after it (`StrayInv`). Which timers are on the map and which run on without it is
  most of the work. Between `Look` and `DeleteRow` a row without a file may get its
  file back; from then on the theorem says nothing ("returned").

**Streams**, for every finite set of readers:

- `StreamsTypes`, and `StreamsShare`: `StreamsSpec => []ReadersShare`. The invariant
  `OneCell` says that who waits does so at the entry there is, and that a fresh
  address is nobody's; `Counted` that the waiters counted are at least the readers
  that wait, which is why the last one to leave is the last one there is. A
  request that throws leaves the count too high, hence "at least".
- `StreamsAnswerOwed`: `AnswerOwed` is inductive together with these. It is about an
  entry nothing has taken the answer from: no throw, no Remove, and no deadline of
  another stream ("overwritten").

**Requests**, for any promises, chunks and sockets:

- `RequestsTypes`; `RequestsEntries`: `EntryUntilSettled` is inductive.
- `RequestsWholeResult`: `WholeResult` needs `HeardInv`: for each promise that is
  open, the chunks heard, those under way and those still to be sent make up
  `1 .. n` in this order, as long as the handler's connection is the browser's; once
  it is not, nothing more comes. `UpOnce` and `BySockets` say that a request is
  either under way or with a handler, and by which socket.
- `RequestsPromised`: `RequestsSpec => P!Init /\ [][P!Next]_(P!vars)`, the safety half
  of the refinement. That `Hear` always adds the next part is `HeardInv` again. The
  fairness half stays with the run.

**Connections**, for any connections, handlers and broadcasters:

- `ConnectionsTypes`, `ConnectionsOneWriter`, `ConnectionsLockGone`. The invariant
  `LocksInv`: whoever waits or writes with a lock has the one of the present
  generation (`LockIsCurrent`), handlers write to their own connection
  (`OwnConnection`), a connection past `LeaveClients` is in no broadcast
  (`LeftAlone`), and one past `Drained` has no handler (`Drains`).

- `TitlesTypes` (`Titles`, for any number of titles, polls and requests): the types, and
  that whoever works on a title works on one that is there.

**Users, Watched and Lists** (`RowsProofs`), for any users, requests, episodes, marks,
lists and finite sets of titles:

- `UsersAdminRemains`. `ReadsHold`: what a transaction that is not stale has read of
  the admins is still so; so whichever of two commits first makes the other stale.
- `UsersNothingLeft`, `UsersFinishedStays`, `UsersTypes`.
- `WatchedSeriesFollows`. `VerdictsTrue`: a verdict that is not stale is what the
  episodes say; `RightOrUnderway`: the series' row is right, or has strayed, or a
  mark or a match that will write it is under way. `WatchedTypes`. Whatever sets
  `strayed` does so by what it is (an event of another actor in between), and never
  by looking at whether the row is right.
- `ListsOwnPosition`, `ListsOrderStays`, `ListsTypes`. The invariant `Ahead`: the
  position an addition has read and nobody has overtaken is after all in its list;
  and `AskedItems`: the order asked for is one of items. That `MAX(position)` is there to be
  read is `Highest`, from the well-foundedness of `<`. An order that does not name all
  items leaves the others where they were, so positions may clash (`mixed`).

**Matches** (`LibraryProofs`), for any titles, files, numbers of episodes, sweeps and
rematches, lives of rows, and whatever older versions linked:

- `MatchesTypes`. `GoodJobs` says what is right of a file being matched wherever it
  has got to: from `FindTitle` on the title is of the file's kind (`RightTitle`), from
  `FindEpisode` on the episode is of that title and has the file's number
  (`RightEpisode`). `RowsInv`: a title has one row, and an episode's title is there.
- `MatchesLinksFit`: `MatchesSpec => []LinksFit`. A job may hold a title's row that
  has been dropped and added again meanwhile; then its episode is of another row of
  the title, but what `SaveLink` writes has passed the foreign keys, so both rows are
  there, and by `RowsInv` the episode's title is the title (`NewLink`). `Sound`: what a
  rematch goes back to fits, since it was linked when the job began. `LinksInv` says
  for every stage of the migrations what they have put right so far: kinds after
  `wrong`, series' episodes after `stray`, the rest after `clear` and `long`. It does
  not hold after a kill from `wrong` to `clear`, whence `halfway`.

**Torrents**, for every set of magnets, however they share hashes, and every number
of sweepers, sweeps and kills:

- `TypeCorrect`: only rows that are there and whose magnet has a hash are ever
  stamped. It needs `Orderly`: a sweep stamps a row that is there, which holds as
  rows are only deleted by the migration, before any sweep begins.
- `OneRowCorrect`: `Spec => []NoDuplicates`. The invariant `KeptApart` holds until
  two sweeps overlap: at most one sweeper is busy; rows are distinct once the index
  is to be made, exists, or the program is up; every row that could be stamped is,
  except the one being inserted (`AllStamped`, which is what makes `SelectByHash`
  see every row of the torrent); and what is about to be inserted has no row.
  A kill between INSERT and stamp breaks `AllStamped`, so it is only claimed from
  the backfill on, which with distinct rows cannot be refused.

- `FeedCorrect`: `Spec => []FeedFollows`, of a program that was not killed, by `FeedInv`:
  a sweep ends with a rebuild of the feed, and the migration, which drops rows without
  one, then runs only before the first sweep.

**Together.** `RowsParts` (`TorrentsProofs`), `FilesParts` (`LibraryProofs`) and
`ServerParts` (`ConnectionsProofs`) say that a behaviour of the compositions
`MCRows`, `MCFiles` and `MCServer` is one of each of their parts, so that the
theorems about the parts hold of what the runs check. `RowsTypes`, `FilesTypes` and
`ServerTypes` are their type invariants. Of the server this is the safety part: fairness
is asked only of the part that moves.

### What the proofs changed

Proving for any number of torrents, files and goroutines what the runs check of one
or two has put the models right in three places, each checked against the source
again:

- `EngineStore`: with a second torrent `Start` is past "start" while a torrent still
  waits; a request on it then overlaps with `Start`, which `Crosses` saw only in
  between; and a torrent that `Start` was inserting was taken for one left behind.
  `DirtyTells` had to name that overlap ("crossed").
- `Library`: two callbacks of a path may run at once, and the first to end takes the
  timer of the other off the map ("overlapped", finding 3); it takes more changes
  than the run has.
- `Lists` and `Titles` kept orders as sequences made with `SelectSeq`, of which nothing
  can be proved for any length; they are sets of pairs and of rows now, with the
  same behaviours.

## 7. What is only model-checked

Liveness under fairness: `PreparationEnds`, `FinishedFilesShown`, `PieceComes`,
`ConnectionCloses`, `EndsComplete` and the fairness in
`KeepsPromises`. It is out of the prover's reach, as is ENABLED. Every invariant and
action property of a passing run is a theorem.

The runs that expect a violation show what is not so; there is nothing to prove.

## 8. What is not modelled and why

- `rooster-icon.go` is the bytes of a picture, 33 805 of the implementation's 59 871
  lines, and `models/*.go` are some 16 000 lines that sqlboiler generates, of which
  the program uses a statement at a time. They hold no logic of this program;
  what the modules cover is a share of the some 10 000 lines that are left.
- Of those, most handlers of `message_controller.go`, `lists_controller.go` and
  `search.go`, the queries of `db/feed.go` and the status of the engine read, filter and
  format. They change nothing, and what they show is decided where it is written.
- Parsing of file names and scoring TMDB's candidates: functions without state.
  `Matches` lets a search find any title of the file's kind, or none.
- Piece priorities, the order of download and `pieceReader`'s offsets: no property
  depends on them. Of deadlines, `Streams` has what they do to the alerts other
  streams wait for, and not what libtorrent fetches first.
- libtorrent itself beyond what the shim relies on: files are checked after
  metadata, renames are carried out in order, a rename for a removed handle is
  nothing, a `read_piece_alert` comes once for a piece that was asked for.
- Refreshing the episodes of running series, peer counts, the other migrations
  (each one statement that adds a column or a table): rows written whole, by one
  writer.
- Configuration, TLS, HTTP proxying and streaming of files, IPTV, the schedule and
  the tray, rendering, the playback queue of the browser: I/O, or state of one page.
- Panics, but for those of a handler, which answer (`Requests`).

## 9. What could come next

An abstract engine, of which `Engine` and `EngineStore` are two refinements; what a
queue of renames computes as a lemma about sequences rather than about their places;
a start of the program that runs the migrations, `Start` of the engine and
the first sweep together, with the lock file a killed process leaves; refreshing of
episodes beside the marks of `Watched`; the handlers of requests that query.
