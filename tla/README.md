# A TLA+ model of the aeordb client's synchronisation engine

The aeordb client keeps local folders and the tree of a remote aeordb database
in step. This directory holds TLA+ modules for the part of it that decides what
is transferred, deleted, moved, remembered and retried, and for the services
around it: configuration, tokens, event sources, activity log, self-update; TLC configurations that check
them on small instances; and TLAPS proofs of the central properties for every
value of the constants. Paths below are relative to
`src/aeordb-client-lib/src/` of the repository unless they start with `src/`.

## 1. The system

A *relationship* ties a folder to a remote path, with a direction (pull, push,
both), a filter and two flags for the propagation of deletions. A *loop* per
enabled relationship reacts to file-system events, to events of the remote and
to timers, and runs *passes*: a pull, a push, or a pull and then a push. What a
pass learns is kept in per-file *records* (size, modification time, hash) and a
*checkpoint* (the root hash of the remote tree that the last pull worked
through), both in an embedded state database. Handlers of a local HTTP API
change the configuration, start and stop loops, and synchronise by hand.

| component | state | operations | interacts with |
|---|---|---|---|
| Push (`sync/push.rs`) | none of its own; per pass: seen paths, work lists, batch, pending records | walk, inspect, hash, batch, commit, isolate, delete | folder, remote, records |
| Pull (`sync/pull.rs`) | checkpoint; per pass: wanted files, planned local chunks | diff, plan, fetch, assemble, record, remove, checkpoint | folder, remote, records |
| Replication (`sync/replication.rs`) | none | pull, then push | Pull, Push |
| SyncRunner (`sync/runner.rs`) | map of running loops, execution guards; per loop: retry flag and delay, sleep | start, stop, stop_all, resume_all, run_sync_loop | Replication, watchers, configuration |
| Sync routes (`api/routes/sync.rs`) | none | create, update, delete, enable, disable, start, stop, trigger, force | SyncRunner, configuration, metadata |
| SyncMetadataStore (`sync/metadata.rs`) | records in three formats, checkpoint, path-migration marker | get, list, set batch, delete, migrate, clear | StateStore |
| Path migration (`push.rs`, `metadata.rs`, `api/routes/sync.rs`) | a marker with the old root | store the marker with a root change, rename or adopt remote files, forget old records, clear the marker | Push, records |
| Relationships, Connections (`sync/relationships.rs`, `connections.rs`) | entries of the configuration | create, update, delete, enable, disable; a probe that upgrades URLs | ConfigStore |
| ConfigStore (`config.rs`) | the configuration, in memory and in a file | get, update | disk |
| StateStore (`state/`) | files of the embedded database | store, read, list, delete | disk |
| RemoteClient, JwtCache (`remote/mod.rs`) | one cached token per connection | the requests of both directions; one retry after 401 | remote |
| Filter (`sync/filter.rs`) | none | a pure function of names | Push, Pull |
| Hierarchy (`sync/hierarchy.rs`) | none | the folders and remote paths of child relationships | Push, Pull |
| FsWatcher, SseListener (`sync/fs_watcher.rs`, `sync/sse_listener.rs`) | pending events, the stream of a connection | debounce, coalesce, reconnect | SyncRunner |
| Activity log (`sync/activity.rs`) | one file per event, an index of the latest, progress in memory | log, list, backfill | StateStore |
| Health pinger (`health.rs`) | health of every connection | tick, broadcast | configuration |
| Updater (`update.rs`, `api/routes/update.rs`, `main.rs`) | offer, staged file, the executable, the single-instance lock | check, download, verify, spawn the relaunching script, exit | release server, shell |
| Preferences, server, other routes, CLI, desktop shell, web UI | see PROJECT.json | presentation, proxying, wiring | all |

What makes this code hard, and what the properties are aimed at:

* **Other programs keep writing.** The folder changes between the walk, the
  inspection, the hashing and the upload of a file, and between the planning,
  the assembly and the recording of one.
* **Records are trusted.** A lite scan skips a file whose size and mtime are
  those of its record. A wrong record is a lost edit that nobody notices, and a
  wrongly missing sight of a file is a remote deletion.
* **Requests have unknown outcomes.** A commit or a deletion can be applied and
  its reply lost; a batch that is refused is taken apart file by file; a task is
  aborted or the process dies between the commit and the records.
* **Failures are partial and the checkpoint moves on.** A pull stores the
  new root whatever failed on the way.
* **Handlers and loops interleave.** Configuration and runner are changed in
  two steps; stopping a loop does not wait for its task for ever; manual runs
  and loops of one relationship exclude each other only by the guard.
* **A change of the root is spread over passes.** Remote files are renamed one by
  one, each rename followed by its records, while everything unseen is about to
  be deleted; the marker that prevents it is stored after the new root.
* **Shared slots without locks.** One token per connection is dropped and minted
  by concurrent requests; an index of events is read, changed and written by
  loops, handlers and reads; two applies of an update share one staged file.
* **Storage has three formats** with a migration between them, removals of two
  writes and clears of many, without transactions.

`hazards` in PROJECT.json lists each of these at its line, with the properties
that watch it, or the reason why none does yet.

## 2. The modules

```
SyncState ─┬─ PushSync ── PushSyncProofs             SyncRunner ── SyncRunnerProofs
           ├─ PullSync ── PullSyncProofs
           └─ FileSync ── FileSyncProofs            RecordStore <── MetadataStore ── MetadataStoreProofs
              (PushSync and PullSync as INSTANCEs,    (refinement)
               their proofs as INSTANCEs)

OutsideEvents ─┬─ Connections ─┬─ Configuration ─┐
               │               └─ Credentials ───┴─ ConnectionsProofs ──┐
               ├─ PathMigration ─────────────────── PathMigrationProofs ┤
               ├─ ActivityLog ──────────────────────────────────────────┼─ ServicesProofs
               ├─ Updater ──────────────────────────────────────────────┤
               └─ EventFlow ────────────────────────────────────────────┘
Services = the six of them, for one run
```

Each `MC…` module names the model values of an instance; the `.cfg` of the same
name is its main run. A `.cfg` named after a property is a run in which the code
does not keep that property (section 4).

**SyncState.** The world both directions work on: the folder `local`, the
remote tree `remote`, the records `meta`, the set `included` of files the filter
matches, what `child` relationships own, and writes and removals by local
programs. A child owns files in its folder and files under its remote path; the
two need not be the same files, for a child's folder may lie inside this
relationship's folder while its remote path lies elsewhere, and the reverse. A file in the folder and a
record are both a *version*, a content and an mtime. `LiteUnchanged` is
`can_lite_fast_skip` (`push.rs:1290`): size and mtime, not the content.

**PushSync.** `push_sync`, one action per step at which something else can
happen in between: the walk of each entry, its inspection (unreadable, filtered,
vanished, skipped, queued), its hashing, the flush of a batch, the commits of a
per-file isolation, the writing of records, each deletion. `seen`, `batch`,
`pend` and `succ` are `seen_remote_paths`, `pending_batch`,
`pending_metadata_updates` and `successful_files`. A commit can succeed, be
rejected, or be applied without its outcome ever being recorded. `PushAbort` is
any early end: transient errors, a failed metadata write, stop, a crash.
A file whose manifest is too large for a commit (`Oversized` contents) is streamed
instead: a batch of its own, sent as it is on disk at that moment, while the record
keeps the hash and mtime of the earlier inspection. The walk leaves out the folders
of children, the deletions their remote paths.
`unacked`, `gone` and `unreadable` are history variables that properties need.

**PullSync.** `pull_sync`: a diff against the checkpoint, the plan of reusable
local chunks, the fetch of the others, and for every wanted file assembly,
rename and record as separate steps, then removals and the checkpoint. A content
is a function from chunk numbers to chunks, so that reusing a chunk at a planned
offset of a file that has changed since is expressible. `stray` (the last pass
left something there that the checkpoint does not say), `touched` (not as the
engine last wrote it) and `raced` (changed between the rename and the reading of
its mtime) are history.

**FileSync.** Both modules as instances over one set of variables, with the job
that holds the execution guard: `sync_relationship`, a pull for an event of the
remote, a lite push for an event of the folder.

**SyncRunner.** The map of loops, loops (`run_sync_loop`) with their retry flag,
delay and safety-net sleep, the guard, and the handlers. A handler that
writes the configuration and then calls the runner is two actions with others in
between (`toStart`, `toStop`). `stop_all` is as many steps as it has loops to abort, and
one before: `StopAll` empties the map and gives up its lock, `StopAllNext` aborts one of
the drained loops (`stopping`), in any order and with anything in between, for the code
waits up to five seconds for each. `StopAllDropped` is a client that goes away while
the pausing handler waits: its future is dropped, the handles of the remaining loops are
detached, and these run on out of reach (`deserted`, history).

**MetadataStore, RecordStore.** The three record formats (one file per record;
one index; buckets with a manifest), the checkpoint, and `clear_relationship_state`,
each database write an action. `RecordStore` is what its users believe in: one
map. `ActsAsOneMap` is the refinement, with `records <- List` and
`limbo <- Limbo`, where limbo holds the files whose record is hidden from every
reader but was not removed.

**PathMigration.** `update_relationship` for a changed root and the push passes
that follow. A remote path is a root, an entry and a spelling (older clients
recorded paths with the separators of another platform; those files are renamed
in the same way). A pass inspects each entry, then for every file renames it from
its old path, adopts what is already at the new path, uploads it, or finds it
refused, with the writes of the records as steps of their own; symbolic links are
created again after the files and their records are written last; then it deletes,
drops the records of the old root, and clears the marker if nothing went wrong.
Each request can be refused, or applied without its reply; a pass can be aborted
anywhere; the user edits entries and changes the root again meanwhile. `exposed`
(history) is set by a root change that the stored marker does not tell of.

**Configuration.** `ConfigStore` (memory, then file, either of which can be
ahead after a failed save, and a restart loads the file), the connection and
relationship managers over it, the startup probe and the health pinger.

**Credentials.** `JwtCache` and `RemoteClient`: requests with a client that copied
its connection when it was made, the token slot shared per connection, exchange,
401, invalidation and the single retry; streamed uploads are not retried. The
engine (which host and key a token is for, expiry, revocation) is external.

**ActivityLog.** One relationship's events: a file each, the index of the latest
ones (`NoIndex` while there is none), progress in memory, reads that take the index or scan and store it. Every
access to the state database is a step.

**EventFlow.** The watcher (pending map, debounce and maximal wait, bounded
channel), the SSE listener (connecting, open, waiting with a doubling delay) and
the loop that reads from both and does not read while it synchronises.

**Updater.** Offers, applies that write blocks to one staged file, the check of
the sum, the script that waits for the process to end and moves the file into
place, quitting and relaunching, and the lock that a second instance takes over.
A signature is valid or not; the script is that of Linux.

**OutsideEvents, Connections, Services.** `None` and a bounded supply of outside
events (`spare`); the names of connections, hosts and keys; the disjunction of
the six services. They share no state that the models keep, so a behaviour of
`Services` runs one of them (`Only`), and one run checks all of them.

The `map` of PROJECT.json gives the source lines of every definition.

### Abstractions and assumptions

* A hash is its content: hashes do not collide. A root hash is its tree.
* Every local write gets an mtime that no earlier version of the file had. Two
  writes of equal length within the resolution of the file system's clock are
  outside the model (listed as a hazard).
* The execution guard makes the pass the only writer of the records, so
  `metadata_by_path`, the pass's own copy, is `meta` overlaid with `pend`.
  `OneSyncAtATime` of SyncRunner is what justifies it, and is proved.
* A batch may be flushed whenever it is not empty; the limits of files, bytes
  and chunks only choose among those moments, except that an oversized content is
  alone in its batch. A stream takes the file as it is at one moment: a write in
  the middle of it would send a mixture.
* A pass works on the filter and the list of relationships it was started with,
  so both change between passes. In `push` nobody else writes to the remote, not
  even the children; in `filesync` another client may change any remote file.
* A commit answered with a *non-transient* error is taken as not applied; lost
  replies are transient errors. Diff and plan of a pull are one step. All chunk
  batches of a pull are one fetch that succeeds or fails.
* Files of PushSync and PullSync are regular files. The push of symbolic links is
  in PathMigration; their pull is not modelled.
* PathMigration compares contents where a lite scan compares size and mtime,
  which `LiteSkipSound` justifies; deletions propagate to the remote (the setting
  under which a mistake is costly); there are no children; one upload stands for
  its batch.
* In EventFlow no tick passes while the watcher's task has something to do: its
  sleeps are measured, its computation takes no time. `raw` is the channel of 1024 events
  and the system's queue behind its blocked sender, without a bound. Kinds are those that
  the watcher makes of notifications: a file renamed away is a `Modified` path.
* The configuration file is written at once or not at all. The code writes it in
  place, so a crash in the middle of the write can leave half a file, which the
  next start refuses to load.
* An aborted loop does nothing more and holds its guard until the abort takes
  effect, which can be after its successor has started: `stop` waits for the
  task only for a bounded time.
* A connection can be deleted only while no relationship refers to it, except
  for the race while a relationship is being created: `Init` of SyncRunner
  starts with or without the connection.
* Old storage formats appear in MetadataStore's initial states, one at a time: a
  version of the program writes one format and the later ones read it.

## 3. The runs that pass

| run | instance | distinct states | what it checks |
|---|---|---|---|
| `push` | 2 files (one the server may refuse), 2 contents of equal size and an oversized one, 2 user writes, no child or children in the folder with one file nested remotely as well, 1 fault or change of settings | 2.3 M | `LiteSkipSound`, `MetaMatchesRemote`, `RemoteDeletesExplained`, `PushConverges`, `RefusedGoesQuiet` |
| `pull` | 2 files of 1 chunk, 2 values of a chunk, 2 changes, no child or one, 1 fault or change of settings | 1.3 M | `CheckpointHonest`, `LiteSkipSound`, `PullConverges` |
| `filesync` | 1 file, 2 contents, 2 changes by users and other clients together, children nested in any way, 2 faults or changes of settings, deletions both ways | 1.4 M | `LiteSkipSound`, `BothSidesAgree` |
| `runner` | 2 relationships, of which one has the full set of handlers, errors and events, 2 task identities, delays 2 and 3, an interval of 1, 1 event | 0.7 M | `OneSyncAtATime`, `NoOrphanLoop`, `SuccessClearsBackoff`, `DisabledLoopEnds`, `SafetyNetRuns` |
| `metadata` | 3 files in 2 buckets, 2 record values, 2 moves, 1 fault | 1.0 M | `RemovedStaysRemoved`, `ReadsAgree`, `StartsFromScratch`, `ActsAsOneMap`, and the absence of deadlock |
| `services` | the six services, each with 1 to 3 outside events | 0.7 M | see below |

`services` has, for *configuration*, a connection and a relationship, 2 events
(`RelationshipsResolve`, `DeletedLeavesHealth`); for *requests*, 2 concurrent
ones, 2 hosts and 2 keys, 2 events (`RefusalsExplained`, `TokenRecovers`); for
*activity*, 2 loggers, a reader, an index of 2, 4 timestamps, 1 event
(`ProgressEnds`, `LoggedIsListed`); for *update*, 2 appliers, 3 builds of 2
blocks, 3 events (`InstalledIsVerified`, `UpdateTakesEffect`); for *events*, 2
paths, a debounce of 2 and a maximal wait of 3 ticks, channels of 1, 3 events
(`QuietPathWaits`, `LatestKindDelivered`, `ListenerReturns`); for *migration*, a
file that an older client may have recorded and a link, 2 roots of which
one lies in the other, 2 events (`RecordsHonest`, `DeletesAreOfThisRoot`,
`EntriesArrive`, `MigrationEnds`). Hosts, keys and contents are interchangeable,
so `MCInit` starts from one of each.

**What they show.**

* *A lite scan never skips an edit* (`LiteSkipSound`). The record keeps the
  mtime of the scan, which is older than the hash, so the race between them can
  only cause another upload. The puller is less careful: it reads the mtime
  after the rename, and a write in that window gives the record the mtime of the
  user's content and the hash of the engine's. These files are `raced`, and
  excluded by name.
* *Records say what the remote holds* (`MetaMatchesRemote`), apart from files
  whose last change has no recorded outcome, files the server answers 403 for, and
  files that changed between their hashing and their streaming.
* *Every remote deletion has a reason in its own pass* (`RemoteDeletesExplained`):
  the file was missing at some moment, was unreadable, is out of the filter, or
  lies in the folder of a child; and it is never under a child's remote path.
* *Passes converge* (`PushConverges`, `PullConverges`, `BothSidesAgree`): once
  users and faults are done, each file ends as it should, except in named states
  that no later pass repairs. They are part of the statement because the
  code has them: `Shadowed` (an unacknowledged file, because its commit's
  outcome was lost or its stream took a later content, whose folder was then put
  back to what the record says), `stray` (a pull failed on
  the file and the checkpoint moved past it), `raced`, and `Unnoticed`
  (a pushed change undone by another client so that the remote is back at the
  checkpointed root). Whoever makes the engine repair one of them can drop
  it from the property and see the run pass.
* *The runner* never lets two synchronisations of a relationship overlap, forgets
  backoff after a success, and its loops end when disabled and run when enabled.
  Every loop in execution is in the map, has been aborted, or is yet to be aborted by a
  `stop_all` under way (`NoOrphanLoop`); the exception by name are the loops that
  a dropped `stop_all` left behind. While `stop_all` is under way a relationship can have
  two unaborted loops, the drained one and one that `start` has put in the map since;
  only the guard keeps them apart, and `OneSyncAtATime` covers them and the deserted ones.
* *The metadata store* behaves as one map whatever the format, however an
  operation is cut short, and a removed record stays removed unless an earlier
  removal failed midway.

* *A change of the root* deletes nothing of the old root and leaves honest records
  (`DeletesAreOfThisRoot`, `RecordsHonest`), every entry arrives at its new path
  whatever happened in between (`EntriesArrive`), and the migration ends unless a
  record is left whose remote file is gone (`MigrationEnds`). The exception of the
  first, `exposed`, is three sequences that the code does not protect: section 4.
* *The configuration* never holds a relationship without its connection, in
  memory or on disk, except for one created while its connection is being
  deleted; the health of a deleted connection goes with the next tick.
* *Requests* are refused only for a reason: after the single retry there is no
  valid key, or the exchange failed, tokens expired, a key was revoked or another
  request filled the slot in between (`RefusalsExplained`). Once the engine and the
  user are done, a good key is refused only while some client still works with an
  outdated copy of its connection (`TokenRecovers`).
* *The activity log* does not show a synchronisation as running to whoever asks
  after its end was logged, and an event whose index update overlapped no other
  is listed.
* *Events*: the coalescing map holds a path for less than the maximal wait plus the
  debounce after its last event, however the other paths go on changing
  (`QuietPathWaits`). This is no bound on the time from a change to its delivery: a path
  that goes on changing starts anew with every event (section 4), and neither the time
  before the watcher receives an event nor that in a flush behind a full channel
  is counted. Without bounds on time, the last kind of each path's changes reaches the
  loop, and the listener is connected again in the end.
* *The update* replaces the executable only by a whole and newer build that some response
  had announced under a valid signature (`vouched`, a history written from the responses
  and not from what the code makes of them), and one that was applied takes effect in
  the end, also if the user quits or starts the client in between; overlapping applies
  are excepted by name, and can install anything.

**Bounds.** `MaxClock`, `MaxFaults`, `MaxEvents`, `MaxMoves` bound the changes by
users, faults, events and moves; everything else is finite by itself, and passes
are unbounded in number, so liveness is about infinite behaviours. Two files are
needed where files of one pass are treated differently (a batch in which one
is refused; one deleted, one skipped); FileSync's job is the interplay of the two
directions on a file, for which one is enough, the two-file interplay within a
direction being covered by `push` and `pull`. Two contents of one size are
the least with which a lite scan could be wrong. `MaxClock = 3` leaves two
changes after the initial state, the number it takes to change a file and put it
back. The children of `push` are the ones whose folder the walk leaves out, one with
its remote path below this relationship's and one with it elsewhere; its two small
contents are interchangeable, so no file starts with the second, and one file may start
oversized. A child on the remote side only matters for the pull (`pull`) and the two together
(`filesync`). One fault is enough to reach every error path, and `filesync` has
two because its losses need an error in each direction. Three files in two buckets have
a shared bucket and one of its own. `MaxDelay = 3` is not a power of two times the
initial delay, so that doubling does not meet the cap exactly. The second relationship
of `runner` is there so that `stop_all` has two loops to abort: it is paused and resumed
with the first, its loop has neither errors nor events, and nothing else happens to it;
one `stop_all` is under way at a time, dropped only when live loops of the first
relationship alone are left to it, and no start is asked for that would be the second
one pending. Two task identities let a second loop of a relationship start while the
first is drained and unaborted. The theorems about the runner have none of these bounds.

`CHECK_DEADLOCK FALSE` is set where the environment may simply be done: no more
changes, no relationship left.

**Fairness.** `push`, `pull`: weak fairness of the pass's steps: the runner
starts passes again and again by its timer, and a pass is a sequential task that
is polled. `filesync`: the same for a job under way, and strong fairness for
starting the full cycle, since event-driven jobs may hold the guard whenever
somebody looks, but not for ever, and waiters are served in turn.
`runner`: handlers, loops, sleeps and aborts are polled, a synchronisation
returns (the HTTP client has timeouts), and acquiring the guard is strongly fair
because a tokio mutex is a FIFO queue. Nothing is assumed about events, retries,
users or successes. `services`: the tasks of a service are polled (health tick,
script, watcher, pass), the loop takes what is in its channels and its
synchronisations return, the listener tries again after its delay, and each
request proceeds. Nothing is assumed of probes, edits, reads or what the engine
answers. No fairness is assumed of a fault *not* happening: their
number is bounded.

## 4. Where the code differs from what is said of it

Six runs expect a counterexample. Each checks one sentence of the repository's
comments or documents; PROJECT.json quotes them.

* `DeletesOnlyWhatIsGone`: "File exists in metadata but not on filesystem -- it
  was deleted" (`push.rs:924`). The test is that the pass has not *seen* it:
  a file out of a narrowed filter, or one whose metadata could not be read,
  is still there and is deleted remotely. So is a file in the folder of a child
  whose remote path lies elsewhere: the walk goes by the child's folder, the
  protection from deletion by its remote path.
* `TornAssembly`: `assemble_file` cannot leave a torn file, and its hash matches
  the remote's. A chunk to be reused is read again after it was planned and its
  hash is not compared again, unlike on the push side. This run has files of two
  chunks, so that a mixture of both contents can result.
* `UnsyncedEdits`: a file changed on both sides is to be paused and synchronised
  in neither direction. The pull overwrites the local edit.
* `TrackedTasks`: the runner "tracks running sync tasks". A loop that ends by
  itself leaves its entry in the map; after the relationship is enabled again,
  start is refused as already running until somebody stops it.
* `EventStorm`: the safety net runs "at a bounded interval". Its sleep is made
  anew in every turn of `select!`, so events that the filter drops postpone it.
  `runner` passes the same property when such events are finitely many; here
  they do not end, on a smaller instance.
* `StaleCheckpoint`: after clearing "the next pull starts from scratch". The
  handler that changes paths does not take the guard, and a manual
  synchronisation under way stores the checkpoint of the old paths after the
  clear. `metadata` passes the same property with `Overlap = FALSE`, on a larger
  instance and with a fault.

### A divergence without a run

`sync-engine.yaml` says of the watcher: "100ms quiet window, but hard flush at 500ms if
changes keep coming" (`src/bot-docs/plan/sync-engine.yaml:93-95`) and "500ms hard cap"
(line 367); `fs_watcher.rs:25` calls `max_wait_ms` the "Maximum wait before flushing". The
code does something else. `pending.insert` overwrites the time of a path's earlier event
(`fs_watcher.rs:95`), so the oldest event of the map is that of the path that has been quiet
the longest: while one path alone keeps changing within the debounce, nothing is flushed,
for as long as it goes on. Nor does a flush that has begun end within any time, for it
waits for room in the channel to the loop, which the loop does not read while it
synchronises. No run shows this as a counterexample; the model has both behaviours,
and `QuietPathWaits` claims no more than what is left of the cap, the bound on paths that
have become quiet.

### Observations

Behaviour met while modelling that no sentence of the repository contradicts, or
that stays within a property's named exceptions:

* A root change whose marker is not stored (a crash or a failing store after the
  configuration was saved), a second root change before the migration of the
  first has ended, and a manual pass overtaken by a root change leave records
  that the marker does not describe; the next pass deletes their files remotely.
  These are the ways to `exposed`. A pass also clears whatever marker is
  stored when it ends, be it newer than the one it read.
* A deletion answered 404 is an error, so a record whose remote file is gone keeps
  every pass from clearing the marker. A refused rename leaves its file
  where it was until the user renames it or the refusal ends.
* "A 401 after re-mint means the underlying api_key is genuinely bad"
  (`remote/mod.rs:328`) has the exceptions that `RefusalsExplained` names. Edits
  and deletions of a connection leave its token in the slot; `drop_slot` is unused.
* The URL probe stores what it listed at startup over an edit made meanwhile
  (`connections.rs:471`). A refused or missing update still writes the file.
* Event-driven passes work with the connection and relationship that the
  loop captured when it started (`runner.rs:480`).
* `update_apply` ends the process even if the apply failed
  (`api/routes/update.rs:61`), and then nothing starts it again. Overlapping applies
  share one staged file. An old build that still runs after its executable was
  replaced may install a version older than the installed one.
* `stop_all` (`runner.rs:248`) takes all loops out of the map before it aborts the first. Until
  it gets to them, up to five seconds per loop, status says that they are not running,
  `stop` answers that there is nothing to stop, and `start` makes a second loop. If the
  client of `pause` disconnects meanwhile, the loops not yet aborted run on: the tasks are
  in nobody's hands, and end only when their relationship is disabled or deleted, or with the
  program.
* The listener's delay is not reset by a
  connection that ended with an error, and the listener notices only at its next
  matching event that its loop has gone (`sse_listener.rs:153`).
* Concurrent changes of the activity index lose events, and a log written to a
  directory without an index hides the older ones until it is rebuilt.

## 5. Proofs

TLAPS proves the type invariant of every module, and every safety invariant and
action property of the passing runs, for all files, contents, relationships, tasks,
tokens, events and builds, without the bounds of the runs. The assumptions are the
named `ASSUME`s of the modules, which TLC evaluates in every run: `None` is not a
value (`NoneIsFresh`, `NoneIsNoConnection`, `NoneIsNoEntry`, `NoneIsNoBuild`,
`NoRecordFile`, ...), sizes and bounds are numbers, flags are Booleans, a content is a
sequence of at least one chunk, `InitialDelay <= MaxDelay`, `Shown <= Kept`. Only the
theorems about MetadataStore have a further hypothesis, `~Overlap`.

Hardly any of the properties is inductive as it stands. Each proof has a lemma for
the initial states of the stronger invariant and one for the steps, with a step per
action, and the theorem puts them together. The invariants were model-checked first.

**PushSyncProofs.** `TypeCorrect`, and with it three inductive invariants:

* `Stamps` for `LiteSkipSound`, stated file by file: every version the engine holds,
  in a record, in `pend`, in the batch or as a queued mtime, carries an mtime not
  newer than the clock (`Timely`), and where it equals the mtime of the file in the
  folder the contents agree (`Fitting`). The property alone is not inductive: a
  record comes out of the batch, and a batch entry out of a queued mtime and a later
  hash. FileSyncProofs needs the second part for some of the files only.
* `Ledger` for `MetaMatchesRemote`: a file is in one place of the pass at a time
  (`OnePlace`), what `pend` will write is what the record already says
  (`PendingKnown`), and during an isolation the files that went through hold
  remotely what the batch says, or are oversized, and are marked unacknowledged
  (`Isolation`).
* `Coverage` for `RemoteDeletesExplained`: in every phase a file is still to be looked
  at, seen, or explained (missing, unreadable, filtered out or in a child's folder,
  and not under a child's remote path); in the deletion phase the work list is
  explained. `OnlyDeletionsDelete` says that no action but a deletion makes a remote
  file disappear, and `DeletionsAreExplained` follows from both.

**PullSyncProofs.** `TypeCorrect` needs `Shape` (what is wanted or to be recorded is a
file of the new root) and that assembly yields a content: `OffsetOf` takes the last
position of a chunk, and `LastPosition` shows by a well-founded minimum that
there is one. `AssemblyIsFaithful` is the other side of the `TornAssembly` run: a file
that still has the content it was planned with is assembled to what the remote
holds. `Stamps` for `LiteSkipSound` is about files and records, both of which
this direction writes, outside `raced`. `CheckpointIsHonest` follows from `Kept`
(outside `stray` the records say what the checkpoint says) and `Delivered` (what the
pass has brought is recorded as the new root has it, and the file between its rename
and its record already counts as stray).

**FileSyncProofs.** The component proofs are instances as the components are
(`PushT`, `PullT`), so a step of a pass keeps its types and stamps by the lemmas
proved there; `SamePush` and `SamePull` say that the two instances of a module are one
and the same. `StepKinds` sorts the steps of the composition: a push, a pull or
another client, a local program, a change of settings. What is left to show is that
each keeps the invariant of the other: a pull replaces the file and the record
under what a push has queued (`StampsPull`), which is sound because the file gets a
time that nothing known of it has. `LiteSkipsAreSound` is then `LiteSkipSound` of the
composition, where `raced` files are excepted from `Fitting`, but not from `Timely`.

**MetadataStoreProofs.** `TypeCorrect` holds in every case; the other theorems assume
`~Overlap`: no pass runs while a handler clears the state. Without it they are
false, and the `StaleCheckpoint` run shows how. Then `Discipline` holds: what a pass
has read is still so when it acts on it (`PassKnows`), what a clear has listed is all
there is (`ClearKnows`), and the formats agree where two of them name a file
(`Formats`). On it rest `PullsStartFromScratch` (from `Scratch`: a pass stores
the number of the paths it was started for), and `RemovalsLast` and
`GetAgreesWithList` (from `Removals`: a removed record is in no bucket, and, without
the manifest, in no older format; what a clear has left over belongs to `torn`).
`MigrationsKeepRecords` says that the migration changes nothing a reader sees.
`StoreRefinesMap` is the refinement of RecordStore, with one lemma for each write: as
the formats are, the same write is a put, a removal, a step of a clear, a recovery
from limbo, or nothing.

**SyncRunnerProofs.** `TypeCorrect` (the retry delay stays in its range);
`SyncsExcludeEachOther` from `GuardHeld`, which says that every task within a
synchronisation, aborted or not, is the holder of its relationship's guard;
`LoopsAreTracked` and `SuccessForgetsFailures`, whose properties are inductive
given the type invariant. For the first, the steps of `stop_all` (`StopsAll`) move a loop
from the map to a set of `stopping`, and from there to `aborting` or `deserted`; a loop
that starts has an identity that no `stop_all` still holds. `ReturnsEffect`, `SyncEffect` and `TimerEffect` state
what the steps of a loop do to the fields of its record, once for all proofs.

**PathMigrationProofs.** `MoveTypeCorrect`; `RootChangeDeletesNothing` from `Owned`:
unless `exposed`, every record is of a confirmed path of the present root or lies
under the marker's old root (`Settled`), a running pass works on the stored root
and marker and has seen, queued and listed for deletion only confirmed paths
(`Running`), and between passes nothing is left of one (`AtRest`); `DeletesFromTheList`
says which steps delete at all. The property speaks of deletions only, and the record
that leads to one is written passes earlier, hence the invariant. `RecordsAreHonest`
from `Honest`: the property together with `LinksThere`, that the links pushed so far,
whose records are still to be written, are on the remote.

**ConnectionsProofs.** For Configuration: `ConfTypeCorrect`, and
`RelationshipsAreResolved` from `Resolved`: besides memory and file, the connection
that a pending creation has found is there or the creation is marked as raced
(`PendingResolve`). For Credentials: `CredTypeCorrect`, with the bound on eras
(`Supply`) and that a minted header is a token; `RefusalsAreExplained` from
`Justified`, which follows a request without an excuse through its second try: until
it goes on, the slot it emptied is empty, and the header it then mints and sends is
one the engine accepts, unless it has no valid key.

**ServicesProofs.** The theorems about `Services`, and with them the proofs for the
three services that have no module of proofs of their own:

* `QuietPathsWait` from `Waits`: a pending path is never older, since the watcher received
  its last event, than the maximal wait plus the ticks of the present sleep (a path that has
  waited longer is drained when the sleep ends), and nothing is pending while a drained map
  is passed on (`draining`). It bounds neither a path that keeps changing nor the time
  in the channels.
* `InstallsAreVerified` from `Told` and `Alone`: a stored offer that `update_apply` accepts
  names a build that was announced under a valid signature; unless applies overlapped, at
  most one apply and one script are under way, an apply writes the staged file of such a
  version above the running build, which is the installed one (`Careful`), and a script
  that waits or is due has a whole, signed and newer build to put in place (`Replaces`).
* `EndedIsNotShown` from `Separate` (no two loggers share a synchronisation, and
  none that is running, or whose progress is known, has a logged end) and `Ongoing`
  (what a reader took from memory had not ended when it began to read).
* `EventsAreListed` from `Indexes` and `Answers`: the events that are certain, those
  whose index update overlapped no other, are each in the index, or at least
  as many newer ones are as it keeps; the same of the lists that loggers are about to
  write, and of what a reader returns. `NewestCovers` says that taking the newest n
  of a list keeps this. It counts entries, so it rests on the finite sets of
  the library and on the existence of a newest entry (`NewestExists`).
* `OtherServicesKeepTheirInvariants` and `MigrationDeletesOnlyItsOwn` carry the results
  of the other modules over. `Sound` joins the invariants of all services;
  `Still` says that a service that does not run keeps its own, for `SoundStep` has only
  to look at the one that runs. `Justified` bounds the eras of tokens by the events that
  are left, which the other services use up as well, so it is kept for a run of
  *requests* only; elsewhere what it implies is.

**Only model-checked:** the liveness properties (`PushConverges`, `RefusedGoesQuiet`,
`PullConverges`, `BothSidesAgree`, `DisabledLoopEnds`, `SafetyNetRuns`,
`DeletedLeavesHealth`, `TokenRecovers`, `UpdateTakesEffect`, `LatestKindDelivered`,
`ListenerReturns`, `EntriesArrive`, `MigrationEnds`), since fairness and `ENABLED` are
out of the prover's reach.

## 6. What is not modelled, and the plan

Not modelled because there is no protocol in it, only I/O or presentation:
preferences, the file browser and the other proxying routes, server wiring, the
command line, the desktop shell, the web UI, the thin layer over the embedded
database. `matches_filter` is character matching; its result is `included`.

What remains of the modelled parts, in the order in which it is worth doing:

1. Proofs beyond the properties of the runs: for FileSync, what the records say of
   the remote and of the checkpoint while both directions and other clients write;
   for MetadataStore, what holds even when a pass overlaps a clear.
2. The settings a loop has captured when it started, in SyncRunner: direction,
   filter and deletion flags against the configuration of the moment.
3. Symbolic links in the pull; a stream that mixes two contents of a file.
4. Children in PathMigration, and a root change that makes one
   relationship the child of another.

Of the hazards, the captured settings of a loop (`runner.rs:480`) wait for the second
of these; two writes within the resolution of the clock (`push.rs:1290`) stay outside
the model.
