# Verification of QX

QX is a desktop media player shell. An Electron process (TypeScript, `src/src`)
loads configurations that name *sources* (sites), runs the code of each source in
an engine (HTTP, QuickJS, a JavaScript worker thread, Python and JVM child
processes), plays what they find with mpv, and keeps history, follows, a cache,
downloads and backups in SQLite and in files. A Tauri/Rust line (`src/src-tauri`)
reimplements part of the shell.

This directory holds TLA+ models of the parts whose correctness depends on the
*order* of things: promises that settle in any order, timers that race answers,
child processes and threads that die, and a process that is killed between two
writes. Paths below are relative to the repository.

- [1. Inventory](#1-inventory)
- [2. Plan](#2-plan)
- [3. How the code is modelled](#3-how-the-code-is-modelled)
- [4. The modules](#4-the-modules)
- [5. The runs](#5-the-runs)
- [6. What is proved](#6-what-is-proved)
- [7. Where code and documents disagree](#7-where-code-and-documents-disagree)
- [8. What is not modelled](#8-what-is-not-modelled)

Files: `X.tla` is the model of a component, `MCX.tla` an instance for TLC where one is
needed (symmetry, several components in one run), `*.cfg` the runs, `...Proofs.tla` the
theorems with their proofs (section 6 has a table of them). To repeat a result: `tlc -config RegistrySafety.cfg
MCSourceSessionRegistry`, `tlapm SourceSessionRegistryProofs.tla`; `PROJECT.json` lists
which module goes with which cfg.

## 1. Inventory

Node runs JavaScript to completion between two `await`s, so two handlers of one
process interleave only at awaits. They do so freely: `src/desktop/spider-ui.ts`
and `src/electron/main.ts` hand every HTTP or IPC request to the services without
serialising them.

| Component | State | Operations | What is hard | Correct means | Module |
|---|---|---|---|---|---|
| **Source session registry** `src/engine/source-session-registry.ts` | maps of entries and of creations, a count of slots with a queue of waiters, reference counts, idle timers, `closed` | acquire, release, initialize, destroy, destroyAll | acquire, release, timers and shutdown cross in every await of a creation or destruction | one client per key; never more than `maxActiveSessions`; a lease is on a live client; nobody waits for ever; after shutdown nothing lives | `SourceSessionRegistry` |
| **Leased client** `src/engine/engine-router.ts` | whether it was released, its pending init | init, requests, destroy | a session closed while its init is pending | release exactly once, after its init | `SourceSessionRegistry` |
| **Download service** `src/downloads/download-service.ts` over `download-repository.ts` | table `download_tasks`, `closed` | add, pause, resume, cancel, retry, remove, refresh, close | each reads its row before an await and writes a copy back after it; restart after a crash | a row controls its own download; nothing pretends to be active; close ends | `Downloads` |
| **aria2 backend** `src/downloads/download-backend.ts` | the child process, the promise of its start, metadata for retries | addUri, pause, unpause, remove, retry, status, shutdown over JSON-RPC | process exits, RPC timeouts, shutdown or reset during a start | at most one process; shutdown leaves none | `Downloads` |
| **Backup restore** `src/data/backup-restore.ts` | data files, moved-aside files, protective copy, staged backup | export, preview, restore | each file operation may throw; the process may be killed between any two | nothing the user had is lost; a failed restore changes nothing; a finished one leaves no mix | `BackupRestore` |
| **JavaScript worker client** `src/spider/js-spider-worker-client.ts` | state, the worker thread, pending requests with timers | start, five requests, destroy | a timer that gives the thread up under all other requests; destroy during start; crashes | every call settles once; no thread is lost; destroyed means quiet | `JsSpiderWorker` |
| **JVM and Python sidecars** `src/spider/jvm-sidecar.ts`, `python-sidecar.ts` | child process, start and destroy promises, pending requests, a temporary directory | start, requests, destroy | as the worker, plus startup deadline, bad lines, exit events, kill | as the worker, and nothing is left on disk or running | `Sidecar` |
| **Desktop spider sessions** `src/desktop/spider-session.ts`, `spider-import.ts`, `src/spider/spider-runtime.ts` | the current session and the one in the map, openings, a cache of runtimes | open, requests, destroy, select, reinitialise, import, cancel | `open` checks for a client, then awaits one; a reset meanwhile | the code of a site runs at most once; "ready" can be used | `SpiderSessions` |
| **Push service** `src/push/push-service.ts` | pending confirmations, queue, recent list, generation | submit, confirm, cancel, reject, drain, configure, close | confirmations and drains await the player; close raises the generation | each push is in one place; the queue is served | `Push` |
| **Playback, fallback, proxy sessions** `src/desktop/playback.ts`, `spider-ui.ts`, `playback-proxy.ts`, `src/health/playback-health.ts` | the player, its session, the proxy session, candidates tried | play, stop, local, push, approve, choose, events | events and attempts of a request that was given up | bounded attempts, no candidate twice; what is served is what plays | `Playback` |
| **Aggregate search, source health** `src/search/aggregate-search.ts`, `src/health/source-health.ts` | the active run, its snapshot, the circuit of each source | search, cancel, timeout, cooldown | results of an old run arrive in the next | a run changes only its own snapshot and ends | `AggregateSearch` |
| **Follow service** `src/follow/follow-service.ts` | followed titles, a check in progress, two limiters | follow, unfollow, marks, check | the check writes after its await | the limits hold and nobody is forgotten in a limiter | `Follow` |
| **History and its writer** `src/history/history-progress.ts`, `src/data/progress-writer.ts` | active episode, pending record, two timers | begin, sync, flush, stop, pause, delete | deletions and changes of episode around a pending write; a kill | the newest position is written or armed; nothing deleted comes back | `History` |
| **Cast** `src/cast` | session, tokens of the bridge, its server | discover, cast, stop, disconnect, expiry | every SOAP call is awaited; calls overlap | tokens belong to a session that can revoke them | `Cast` |
| **Local media folders** `src/local-media/local-media-service.ts` | table of roots, the scan's abort handle and state | add, rescan, rescan all, remove, cancel | a scan awaits each directory; others replace it | a scan can be cancelled; a row that says "scanning" has one | `LocalMedia` |
| **Tauri playback proxy** `src-tauri/src/playback_proxy.rs` | sessions, address and abort handle, a lock each; streams | start, close, connections | tasks on several threads between any two locks | no stream outlives its session | `PlaybackProxy` |
| Player backend `src/desktop/player-backend.ts` | mpv process and IPC socket | load, commands, events | events of an earlier file | events change only their session | - |
| QuickJS engine `src/spider/quickjs-engine.ts` | an interpreter | evaluate | an interrupt deadline | bounded | - |
| Cache `src/cache/cache-service.ts` | table of entries, files, set `inUse` | put, get, acquire, prune, clear | a file deleted under a lease | a leased file stays | - |
| State persistence `src/desktop/state-persistence.ts` | the state file | patch, save | a kill between temporary file and rename | the file is whole | - |
| Web control `src/web-control` | one server, tokens | start, reconfigure, close | these overlap | one server | - |
| SQLite layer and repositories `src/data` | tables | synchronous SQL, migrations | none concurrent in one process | - | - |
| Favorites, Jellyfin, danmaku | tables | CRUD, HTTP | - | - | - |
| Configuration, import, routing `src/config`, `src/desktop/source-router.ts` | documents | decode, normalise, trust | formats | - | - |
| Parse chain, resolvers, isolated sniffer `src/desktop`, `src/electron` | per request, hidden windows | rewrite, sniff | formats, Chromium | bounded | - |
| Spider artifact cache | files with checksums | fetch | two fetches of one artifact | the file is whole | - |
| HTTP shell and Electron entry `src/desktop/spider-ui.ts`, `src/electron/main.ts` | services | routing, order of shutdown | handlers overlap | closes services before the data layer | its handlers in `Playback`, `Push`, `SpiderSessions` |
| Rest of the Tauri line `src-tauri/src` | own state | own services | threads and locks | as the TypeScript services | - |
| Renderer `src/renderer` | view | - | - | - | - |

How they interact. `main.ts` builds the services and the data layer and tears them
down in a fixed order (`closeDataLayer`, `requestBackupRestore`: close the
downloads, then the database, then restore, then relaunch). A desktop session asks
the runtime manager for a runtime; that one asks the `EngineRouter` for a client; the
router leases it from the registry, which calls the engine's factory; engines own
threads or child processes and talk to them in messages. The download service calls
its backend, which talks to aria2 over HTTP. Push, cast, web control and the fallback
all end in the playback controller, and every medium it plays goes through a session
of the playback proxy. The aggregate search opens the sessions of sources that the
window also opens.

What a model takes from its neighbour: `SpiderSessions` contains the runtime cache and
treats an engine's client as a runtime that starts, fails or is destroyed; `Push`
contains the player it plays into; `Playback` contains the fallback and the proxy
sessions; `AggregateSearch` contains the health registry; `History` contains its writer;
`Cast` contains its bridge; `Downloads` contains aria2. `Sidecar` and
`JsSpiderWorker` are shown to keep one promise to their callers, `RequestService`.

The hazards of this code are listed with their lines in `PROJECT.json`, each with
the properties that guard against it, or the reason why none does.

## 2. Plan

Order by what loses most when it is wrong, and by what other modules build on.

Done: 1. `SourceSessionRegistry` with its leased client. 2. `Downloads` with
its aria2 backend. 3. `BackupRestore`. 4. `JsSpiderWorker`, and after it
`RequestService`, the abstract specification that it and 5. `Sidecar` implement.
6. `SpiderSessions`. 7. `Push` with the serialised player. 8. `Playback` with fallback
and proxy sessions. 9. `AggregateSearch` with source health, `Follow`. 10. `History` with
the progress writer. 11. `Cast`. 12. `LocalMedia`. 13. `PlaybackProxy` of the Rust line.

Left to model: the player backend's IPC with mpv, the overlap of web control's
starts, the artifact cache's shared temporary file, the sniffer's limits, and the rest of
the Rust line, whose services would each need a module of their own.

Proved: every invariant that a passing run checks, and the step simulations of
`RequestService` by the worker and by the sidecar (section 6).

Left to prove, in this order:

1. The abstract specification of the registry as a counting semaphore of `MaxActive`
   permits (refinement mapping: permits held = `Holders`), for the behaviours without a lease
   on a dying client, and its step simulation from the invariant `SlotAccounting`.
2. Action properties: what a step may never do, which no invariant says. In the restore,
   that the protective copy never shrinks once it is whole; in the downloads, that an id is
   never handed to a second task; in the push service, that a record which says rejected,
   cancelled or failed never changes.

## 3. How the code is modelled

*One action is one synchronous stretch of code*: from a call, a timer or a settled
promise to the next await; in the Rust line, what happens under one lock. Where promise
reactions are known to run before any other handler (a resolved `await` continues in the
microtask queue), the model gives them that precedence (`Resuming` in the registry,
`Quiet` in the downloads, `Continues` in the sidecar, `SsContinues` in the sessions);
where they are not, every order is possible.

*Objects* are named by the call that creates them (an entry by the session whose
acquire made it, a token by its cast, a row of a folder by the call that added it), so
the models need no allocation. *Outcomes* of external work (a factory, a client's
destroy, an RPC, code of a source, a file operation, a SOAP call, a bind) are
nondeterministic. *Times* are abstracted: a timer that is armed may fire at any
moment, which includes every real delay.

*History variables* record what a property needs to know of the past and no action
reads: `dyingLease` and `issued` (section 4); `ssMet`, `pbMet` and `castMet` record that
calls met, `pushMet.undrained` that the last session ended by an error or a stop and
no drain has followed, `sc.lost` where a sidecar left a directory. A property that fails once calls meet is
stated for the behaviours where they did not; what happens else is in section 7.

*Mutants*: operators named `Mut...` stand before the definition they vary. They are not
used by any specification; they record the plausible mistake each property was
found to detect.

*Lanes.* Components that do not meet are checked in one run by a module (`MCDesktop`,
`MCSettles`) whose behaviours are each a behaviour of *one* of them, chosen at the start by
the variable `lane`. A violation found there is one of the component alone, and the
state space is the sum of the components', not their product. Since a lane is one
disjunct of the next-state relation, TLC's counts per action were taken from runs of
each component by itself, in which every action occurs.

## 4. The modules

### SourceSessionRegistry

| Model | Code |
|---|---|
| `entries`, `creating` | the maps `entries` and `creating` |
| `obj` | the fields of an `InternalEntry`; `timer` is `idleTimer`, `orphans` counts armed timers that `idleTimer` no longer refers to; `destroying` is `destroyPromise`, `init` is `initPromise` |
| `waiters`, `woken` | `slotWaiters`, and those whose promise is resolved but that have not run yet |
| `pc`, `lease`, `want`, `initOf` | the sessions: `acquire` in progress, the leased client, its key, its pending init |
| `AcquireExisting`, `AcquireJoin`, `AcquireCreate`, `AcquireResumes` | the branches of `acquire` |
| `TakeSlot`, `Park`, `WokenRetries`, `ReleaseSlot` | `acquireSlot` and `releaseSlot` |
| `FactoryDone`, `FactoryFails`, `FactoryDoneClosed`, `ClosedClientDestroyed` | `createEntry` after its factory |
| `InitStarts`, `InitSettles` | `initialize` |
| `Release`, `IdleTimerFires`, `OrphanTimerFires`, `DestroySettles` | `release`, its timer, `destroyEntry` and its `finally` |
| `DestroyKey`, `DestroyAll`, `DestroyAllEnds` | `destroy`, `destroyAll` |
| `LeasedDestroy` | `RegistryLeasedClient.destroy` |

`dyingLease` is a history variable: it records that a session was left with a lease on
a client in destruction. That does happen (section 7); the properties that fail
after it are stated for the behaviours before it, so that they still say something of
all others. `ExplicitDestroy` says whether the registry's `destroy(key)` is ever called.

### Downloads

The table is `rows`; a request of the user is a record in `calls` with the copy of the
row it read (`seen`), the method it has sent and its reply. `Mutate` is the common
shape of pause, resume, cancel, retry and remove (`mutate` in the service),
`Refresh` walks the active rows. `EnsureStarted`, `Spawn`, `StartReady` and
`StartFails` are `ensureStarted`; `Sends`, `Handles`, `Unanswered` a JSON-RPC request;
`Close`, `PauseAll`, `ShutdownEnds` and `CloseEnds` the way down. aria2 is external
and modelled from the methods the backend calls: a download is running, paused,
complete, in error or removed. `Crash` ends the whole application; `Restart` runs the
constructor, which pauses what the last run left active.

`issued` is a history variable: which task and run a download id belongs to. `alive`
counts the processes spawned and not ended, whatever the backend thinks of them.
`MCDownloadsSafety` runs two instances side by side: `Many`, several requests at once over a
restart and with lost answers, and `One`, one request after the other without them, for
the property that needs that.

### BackupRestore

`Script` is `restore()` written as data: which file operations, in which order, in
which of its four stretches, and what the rollback undoes. Every action performs the
operation `Current`; `CopyThrows`, `RestoreThrows` and `RollbackThrows` let it throw
instead, having removed part of a directory if it removes one. `Crash` stops
between any two. `before`, `live`, `prev`, `copy` and `stage` say what lies at each path:
nothing, old data, new data, an empty directory or half of one.

### RequestService, JsSpiderWorker, Sidecar

`RequestService` is what a caller may rely on when the code of a source runs elsewhere:
the executor lives once ("new", "up", "down"); a call is settled once, answered only
while it is up, failed at any time; and every call that was made is settled.

`JsSpiderWorker`: one object, its thread, any number of calls of `start`, of the five
requests and of `destroy`. `pending` is the map of the same name; an id is the call that
made the request (`"create"` for the one of `startInternal`). `inbox` and `outbox` are the
two directions of the message port. `RejectPending` contains what the rejections set off
in the same turn: the `catch` of `startInternal` and the `finally` of `destroy`, both of
which terminate the thread. `Exit` is the exit handler with `failWorker`. The state
`terminated` may be overwritten by a start that was overtaken (`Created`,
`CreateFails`), as in the code; `DestroyedIsQuiet` shows that it does no harm.

`Sidecar` is both sidecar clients, which differ in how they start: `sc.kind` says which
one a behaviour is about. `sc.start` and `sc.destroy` say in which await `startInternal`
and `destroyInternal` are. `Terminated` is `terminate`: it rejects everything that waits
and turns a start under way into one that waits for the exit. `Answer` and `BadLine` are
`consumeLine`; `ScExit` and `SpawnFails` the child's `exit` and `error` events;
`DestroyOver` and `StartOverFailed` the ends of `waitForExit`. `PythonStartInternal`,
`ScriptReady` and `ScriptFails` are the preparation of the script, during which the state is
still "new": the Python client is given a file (kind "file") or downloads one into a
directory of its own (kind "download"). `SpawnThrows` is a spawn that throws in its own turn
(`Unspawned`). `sc.lost` says which directory stays on the disk: "unwritten" where `mkdtemp`
succeeded and `writeFile` threw, so that no field names it (`LeftOnDisk`), "unremoved" where
the removal at the end of a destroy threw (`Cleaned`, `DestroyEndsWith`).

Each has `INSTANCE RequestService` with `life` taken from the thread or the process and
`call` from what became of the calls of `start` and of the requests; `WorkerServes` and
`SidecarServes` say that the refinement holds, with its liveness.

### SpiderSessions

`ssImp` is the importer (`entry` the session in its map, `current` the one of the
window, `opening` the promise in `openings`), `ssSes` the status and runtime of every
session ever made, `ssMgr` the runtime manager with its cache. `Open` is
`DesktopSpiderSession.open` up to the await of `getRuntime`, `GotRuntime`, `InitEnds` and
`Closed` its continuations; `Request` and `RequestEnds` are `invokeRuntime`;
`EnsureSiteSession` and `SearchOpened` what the aggregate search does; `SelectSite`,
`ReleaseSessions`, `Released`, `ManagerDestroy`, `ManagerDestroyed` and `LoadEnds` are the
ways in which an importer lets its sessions go. One site is modelled; sites share only the manager.

### Push

`push.lock` is the promise chain of `serializePlayback`, its head the holder; `entered` and
`stale` say that the holder has read the generation and that `close` has raised it since.
`AcceptThrows`, `AcceptRejects`, `AcceptQueues` and `AcceptPlays` are `acceptUnlocked` for
every conflict mode; `DrainStarts`, `DrainTakes`, `DrainEnds` are `drainQueue`;
`PlayStops` and `PlayEnds` the two awaits of `replacePush`. `PlaybackCompletes`,
`PlayerStops`/`StopDrains` and `PushRefresh` are what starts a drain in
`spider-ui.ts`; `PlayerStopsOnly` are the stops that start none: of the web control, of
`/api/switch` and `/api/close`, and of `/api/player` where another user interface plays.
`PlayerFails` is an error of the player, after which nothing drains either.

### Playback

A medium is the number of its playback session. `StartAttempt`, `PlayerContent`,
`Prepared`, `Load` and `DanmakuLoaded` are the awaits of `runPlayerAttempt`; `Fail`, `Unwind`
and `Succeed` what follows, recursion included (`depth`). `TakeNext`, `Trigger`,
`FbBegun`, `FbCancelled` are the coordinator's methods as functions of its state.
`Approve`, `Choose`, `Stop`, `LocalLoads` (which the player may refuse), `PushStarts`, `Close`
are requests,
`PbCompleted` and `MediaFails` events of the media element, `Expire` the coordinator's
deadline. `pxy` is the set of sessions the proxy serves.

### AggregateSearch

`part[q][s]` is what search `q` knows of source `s`: `inner` the session's answer under
way, `outer` the race with the timeout. `Record` is what either level of tracking does to
the health of the source; `CircuitOpen` skips a source in cooldown; `LateEnd` is an answer
after the timeout has won. `shown` is the snapshot.

### Follow

`chain` says where a series is in the check under way: behind another of its source, in the
queue of the limiter, being asked, done. `Enters`, `TurnComes` and `Lets` are the
limiter; `CheckOne` is `checkOne` with `applyDetail` after its await; `ShowFollows` the
sync from the history.

### History

`hs` is the service (active episode, started, latest position), `writer` the
`PlaybackProgressWriter` (pending record, debounce and interval timer), `hdb` the rows of
the history and the setting that pauses the recording. `FlushedDb` and `FlushedWriter` are
a flush; `Begin`, `Sync`, `StopHistory`, `SetPaused`, `Delete` and `DeleteProgress` the
operations with the flush or discard each contains. `Killed` ends the process: what waits
is lost, at most one interval of it.

### Cast

`CastBegins` up to `CastSeeks` are the awaits of `cast`, `CastFails` its `catch` (the
SOAP error, the server that does not start); `Discover`, `Disconnect`, `StopAsks` and
`StopEnds` the other operations. `bridge.live` are the tokens `CastMediaBridge` serves,
`caster.held` those each session object knows of. A server has the name of the token whose
creation started it: `bridge.server` is the one the field refers to (a set of at most
one), `bridge.up` are those that listen. `Revoked` is what `revoke` does: with the last
token it lets go of the server, and closes it only if it listens. One that is let go of
before it listens comes up all the same, and no field refers to it.

### LocalMedia

`row` is the table by path, `abort` the field `scanAbort`, `root` is `scanState.rootId`.
`Begins` starts a scan and aborts the one that is named; `ScanSucceeds` and `ScanFails` are
its end (of a scan that was aborted, "cancelled", or "error" where the database fails too),
which writes the row unless another record has that path (`Writable`: `root_path`
is UNIQUE) and clears `scanAbort` if it is still its own (`LetsGo`).

### PlaybackProxy

`Registers`, `EntersServer`, `Binds` and `Publishes` are the stretches of `start` and
`ensure_server` between locks; `Removes`, `Cancels`, `StopsListener` and `ClearsUrl` those
of `close` and `stop_server`; `Connects`, `LooksUp`, `Subscribes`, `IsCut`, `StreamEnds` a
connection. `guard` is the mutex held across the bind.

## 5. The runs

Deadlock checking is off in all of them: calls are finite and timers need not fire, so
each system may really stop. What must not stop is stated as liveness instead.

| Run | Question | Bounds |
|---|---|---|
| `RegistrySafety` | slots, leases, inits, creations and shutdown stay consistent | 3 sessions, 2 keys, 1 slot: two sessions share a key while a third waits for the slot; explicit destroys |
| `RegistryLiveness` | every acquire settles, destroyAll comes to an end | the same without explicit destroy, no symmetry |
| `RegistryActiveLimit` | may the limit be exceeded? (yes) | 4 sessions: one to re-lease, two to fill the slots given back |
| `DownloadsSafety` | rows stay wired to their downloads over concurrent requests, a crash and a restart; alone, no download goes on without an owner | 2 tasks, 3 gids, 2 runs, 3 calls at once with lost answers, or 4 in sequence without |
| `DownloadsLiveness` | adds and close come to an end, also after a crash | 2 tasks, 2 calls, 2 gids, 2 runs, lost answers |
| `DownloadsShutdown` | does shutdown leave no process? (no) | 1 task, 3 calls |
| `BackupFailureRetains` | does a failed restore retain the state? (no) | exact |
| `JsSpiderWorker` | is a thread lost, a destroyed object active, a call stuck or settled twice? | 2 calls each of start, request and destroy |
| `Settles` | do sidecar, playback, search, restore and the Rust proxy end, leaving nothing? | sidecar: 2 requests, 2 starts, 2 destroys; playback: 2 calls, 2 candidates, 2 attempts, 6 media; search: 2 of 1 source, threshold 2; restore: exact; proxy: 2 starts, 2 closes, 1 connection |
| `Desktop` | do sessions, pushes, follows, history, cast, search and scans keep their state apart? | sessions: 1 call of the window, 2 searches, 2 resets, of which 4 are made, 3 sessions, 3 runtimes; 3 pushes, 2 pending, 2 queued, 1 reconfiguration, 1 session of the user; 2 series, 1 check at a time; 2 episodes, 3 positions; 2 casts; 2 searches of 2 sources; 2 folders, 3 scans |
| `SessionsRuntime` | can a site that failed once be opened again? (no) | 2 calls of the window, 1 search, 1 reset |
| `PlaybackStop` | does a stop release what plays? (no) | 3 calls, 4 media |

`BackupRestore` has no bounds: the five files of the code, every failure point, every set of
files present. Symmetry is used in the safety runs only.

Why the bounds are enough. In the registry an interference needs one session to hold,
one to join or re-lease, and one on the other key to be blocked; a fourth is given only
where a fourth client must exist. One slot makes every second creation wait. In the
downloads, the stale write needs a reader, a writer between its read and its write
and, for an id that was freed, a third call that takes it; three gids allow a retry
that replaces one. Two runs are one crash and one recovery; nothing carries over from an
earlier run but the table. In the worker and the sidecar, two of each kind let a call be
overtaken by another of its kind and of both other kinds. In the sessions, a search, a reset
and the window's open are the three parties; four calls in all let each be followed by one
more. Three pushes fill a queue of two and leave one to be refused or drained; the
serialised chain is exercised by any two. Two series on one source test the chain, on two
the limiter; both limits at once need a third series, which exceeds what a run can hold, and
are shown by the theorem (`ChecksArePaced`). Two searches are an old and a new one; two sources let one of them settle
while the other is late. Two casts overlap in every pair of awaits. Three scans are one that
was superseded, the one in its place, and one started after the folder's removal. In the
playback two calls meet at each await of the other, and two candidates are exhausted
within them. In the Rust proxy two starts and two closes cross at every lock, and a
connection falls between any of their steps. The theorems of section 6 remove the
bounds for every invariant; they remain for liveness.

What the properties say beyond their types:

- *Registry.* `SlotAccounting`: the slots counted are exactly the creations under way
  and the entries stored. `SingleCreation`: no second client for a key. `LeaseSound`: a
  lease is on the live entry of its key, no timer of which can fire, and the reference
  count is exact. `InitBeforeDestroy`, `NoLostWakeup`, `CloseCleansUp`. `AcquireSettles`
  holds *if* sessions give their leases back; that premise is the environment's.
  `ShutdownCompletes`: nobody is left waiting.
- *Downloads.* `ActiveRowsAreReal`: a row that says it is downloading has a download of this
  run, and one that is queued is being added. `GidsWired`: a request on one task never
  reaches the download of another. `SingleProcess`. `AloneAreOwned`: what aria2
  still holds is what its row names; without lost answers, since an `addUri` that aria2
  obeyed but whose answer timed out leaves a download nobody owns, and nothing in the
  repository promises otherwise. `AddsSettle`, `CloseSettles`.
- *BackupRestore.* `OldRecoverable`: at every moment, after any failure, what the user
  had is still on the disk. `NoForeignWal`: the old log never lies beside the new
  database. `RestoreIsAtomic`: one that has ended has replaced everything, or put
  everything back, or says that it could do neither.
- *Worker and sidecar.* `ThreadOwned`, `DestroyedIsQuiet`, and the refinements
  `WorkerServes` and `SidecarServes`. `SidecarLeavesNothing`: after a destroy there is no
  process, no waiter, and no directory but one whose script could not be
  written or that could not be removed, of which a caller was told.
- *Sessions.* `OneLiveRuntime`: however opens, searches and resets meet, the code of a site
  runs in at most one runtime (two imports excepted, section 7). `ReadyMeansUsable`.
- *Push.* `PushAccounted`: a record tells where its push is, and it is in one place only.
  `QueueIsServed`: where nothing plays and nothing is about to, the queue is empty, unless the
  last session ended by an error or by a stop that does not drain.
- *Playback.* `ServedIsPlayed`: the proxy serves the loaded medium and nothing else.
  `PlaybackSettles`: attempts that failures start come to an end.
- *Search.* `SearchIsolated`: late answers of a replaced search never show.
  `SearchSettles`: a search returns though no source answers.
- *Follow, history, cast, local media.* `FollowPaced`, `ProgressKept`, `ScansAreOwned`.
  `BridgeOwned`: a live token is one of the session or of a cast under way, and, until calls
  met, the servers that listen are the one that is referred to, which is there exactly
  while a token is live.
- *Rust proxy.* `StreamsEnd`: the stream of a closed session is cut whatever steps of the
  connection the close falls between, and a start comes to its answer.

Fairness. Assumed: the event loop (in the Rust proxy, the runtime) runs continuations
that are ready; a timer that stays armed fires; the operations a client performs settle
(each is bounded by its own timeout: `requestTimeoutMs` of the engines, the fetch timeout
of the RPC, the deadlines of `waitForRpcReady`, of a sidecar's startup and exit and of
shutdown, the timeout of a source in a search); `terminate()` ends a thread. In
`Playback`, `Continue`: the source's answer, the danmaku and a load each end, in success or
not; in `PlaybackProxy`, a bind returns and the reading of a request ends; a stream need
never end by itself. Not assumed: that users act, that sources, devices or processes
answer, that aria2 lives or replies, that a factory succeeds. Idle timers are fair in
the registry, because a session blocked by idle entries depends on them, and only on them.
`MCSettles` has the fairness of all its parts; the actions of those that do not move are
never enabled in a lane that is not theirs.

## 6. What is proved

Every invariant that a passing run checks is the invariant of a theorem, for every value
of the constants: any number of keys, sessions, tasks, calls, requests, media, searches,
episodes, folders or connections, and any bound on queues and attempts. What a theorem
assumes are the modules' `ASSUME`s and nothing else: bounds are numbers, at least 1 where
zero would be meaningless; a set is finite where the code counts it (`Keys`, `Sessions`,
`Sources`, `Series`, `SsResets`); the name that stands for "nobody" or "no row" is not the name of somebody; calls of
different kinds are different.

| Module | Theorems | Over |
|---|---|---|
| `SourceSessionRegistryProofs` | types, slots, creations, leases, inits, wake-ups, closing | `SourceSessionRegistry` |
| `DownloadsProofs` | types, one process, wiring of ids, rows are real, downloads are owned | `MCDownloadsSafety` (`Downloads` and its two instances) |
| `JsSpiderWorkerProofs`, `SidecarProofs` | threads and processes are owned, destroyed means quiet, both implement `RequestService` | `JsSpiderWorker`, `Sidecar` |
| `SessionsProofs` | one live runtime, ready means usable | `SpiderSessions` |
| `ServicesProofs` | searches, pushes, checks, progress | `AggregateSearch`, `Push`, `Follow`, `History` |
| `DesktopProofs` | cast, folders; types of the composition | `Cast`, `LocalMedia`, `MCDesktop` |
| `SettlesProofs` | playback, restore, Rust proxy; types of the composition | `Playback`, `BackupRestore`, `PlaybackProxy`, `MCSettles` |

Each proof has the same shape. The property is seldom inductive; an invariant that implies it
and is inductive was found, checked by TLC on the run's instance, and proved: the initial
states have it, and each action keeps it, with one lemma per action or per kind of step. The
last step is temporal. What follows says, for each, what had to be added and why.

### SourceSessionRegistryProofs

None of the properties is inductive alone: that slots are accounted for needs to know who
waits where, and that a lease is sound needs to know that no forgotten timer is about. `IInv`
is the conjunction of

- `TypeOK` and `Wired` (`CreationWired`, `EntryWired`, `SessionWired`, `InitWired`,
  `ShutdownWired`): the maps, the objects and the sessions agree: a key is stored or
  being created, never both; the entry of a creation is untouched until it is made; a
  lease refers to an entry of its own key; after closing, everything still stored is
  among what `destroyAll` waits for;
- `Queued` and `NoLostWakeup`: what is in a queue is a creation in phase "slot", at one
  place only, and something is parked only when all slots are taken;
- `OpenDiscipline`: while the registry is open and no dying lease was given, references
  are exact, a leased entry has no timer, and none is orphaned;
- `ClosedDiscipline`: after closing there are no timers, and the entries being destroyed
  are those still stored;
- `NoIdleDiscipline`: with `idleMs = 0` there are no timers and only stored entries are
  being destroyed;
- `SlotAccounting`.

From it: `TypeCorrect`, `SlotsAccounted`, `CreationsUnique`, `LeasesSound`, `InitsSafe`,
`WakeupsKept`, `ClosingCleansUp`, and `LimitWithoutIdle`: with `idleMs = 0` the limit
of active sessions holds unconditionally, which places the violation of section 7 in the
idle timer. Actions that change a slot use lemmas on the cardinality of `Holders`.

### DownloadsProofs

A request carries copies of rows, a download id and an answer across its awaits, and
writes them back. That a row only knows ids of its own task (`GidsWired`) therefore rests
on what the copies know: `CallOK` says of each request that its copies and its id are wired
to its task, that it still has something to write back, and that an answer which is no
refusal names a download of this run. `RowsWired` says the same of the table and of
what `close` keeps of it; `AriaOfRun`, that aria2 holds only what this run handed in;
`Processes`, that a process is spawned only where none is up. `IInv` is these with
`ActiveRowsAreReal`. They hold whatever crosses: any number of requests, lost answers,
crashes and restarts, closes.

`AloneAreOwned` is about the instance `One` of `MCDownloadsSafety`. `OneIsOne` shows first
that each of its steps is a step of `Downloads`, so that all of the above holds there.
`AloneInv` then adds that at most one request is under way; that with no process there
is nothing aria2 holds (`AriaDown`); that a start is under way only for a request that
awaits it (`StartAwaited`), so that no process appears behind the back of a finished
request; that a download which was issued is of a task that still has its row
(`IssuedKept`); and, for the one request, `CallAlone`: the copies it carries are what the
table says, its id is the row's or a new one that it is about to write there, and where it
gives up the row's id, aria2 holds that download no more. The hard cases are a retry, which
hands the source in again under a new id, and a refresh, which carries copies of all the
rows left to visit over each await.
`BothInvariance` and `DownloadsOwned` are the results for both instances side by side.

### JsSpiderWorkerProofs and SidecarProofs

For the worker, `IInv` is `TypeOK`, `ThreadOwned` and `Fresh` (before the start
there is neither thread nor destroy), `Creating` (while the start waits, the thread is held
and no destroy has overtaken it to its end), `Terminating` (a state "terminated" over a
held thread has a destroy at work) and `Released` (when the last destroy has returned, the
thread is let go). `DestroyedIsQuiet` cannot be shown from `ThreadOwned` alone: a destroy
returns at once if the state already says "terminated", and it is `Terminating` that
says another destroy is then still working.

For the sidecar, what holds at the end of a destroy (`SidecarLeavesNothing`) rests on
what holds during it: past its wait for the start it has no start beside it
(`Ordered`), the object lets go only of a process that is gone or killed (`Reaped`),
nothing begins again after a destroy (`Inert`), and who waits for what (`Waits`). That a
directory left behind is one a caller was told of is `Heard`: a start or a destroy that
failed goes with every directory that is lost.

`Implements`, in both, is the refinement of `RequestService` without its fairness: the
initial states map to initial states, and each action to a step or a stutter
of it. It needs the invariants: that a request is answered only by a thread or process that
lives is not visible in the guards of the code, which looks the answer up in `pending`.

### SessionsProofs

`SsInv` has three layers, because the properties hold under different premises. `SsShape`
holds whatever meets: a runtime that is cached or awaited was made, and only a call that
joined waits for an open. `SsCached` holds as long as no two imports met: every
runtime that is being made or lives is the one that the manager caches. `OneLiveRuntime`
follows. `SsAlone` and `SsOwned` hold as long as calls came one after another: then only the
session of the map has a runtime, which lives, and one that says "ready" has
it or is being released. `ReadyMeansUsable` follows. A layer may only be given up by the step
that makes calls meet; that this step is recorded, and by nothing else, is part of each lemma.

### ServicesProofs

- `SearchInv`: `SearchIsolated`, and why it goes on to hold: the active run is the one shown,
  was not cancelled, and each source it has not heard of is still waited for. Late answers
  of other runs do not touch `shown` (`OuterEndsStep`, `LateEndStep`).
- `PushInv`: for each push, its place (`PushPlace`): pending, queued, in the playback chain,
  being drained, playing or over, and never in two of them; for the service
  (`PushShape`), that chain, drain and the play under way fit together. That the queue is
  served needs also that whoever holds the chain will look at the queue at its end, and
  that where nobody will, something plays or `undrained` says why not.
  Sequences without repetition get lemmas of their own.
- `FollowInv`: who is asked or waits for the limiter in a check, that the limiter's queue is
  exactly the ones that wait, and that a source's chain has one series at a time
  (`CheckGood`). The limit is a cardinality, so each step that starts or ends an inquiry
  has a lemma on it.
- `HistoryInv`: `ProgressKept`, and that what the active episode has in the history is
  its latest position, or the writer still holds it.

### DesktopProofs

`CastInv` adds to `BridgeOwned` that a cast under way is the session unless another took
its place, and, while no calls met, `ServerGood`: a cast that waits for its server has the
bridge to itself, and otherwise what listens is what is referred to and is there exactly
while a token is live (`BridgeGood`). `LmInv` adds to `ScansAreOwned` that an id is of one folder
(`OneFolder`) and who still knows the id of a folder, which may have been removed and
added again, under another id, while a scan of it walked (`Knows`, `MadeBy`). `DesktopInv`
joins these with the invariants of the sessions and services, and `DesktopStep` shows that
a step of the composition is a step of one part and leaves the rest.

### SettlesProofs

`ServedIsPlayed` speaks of the state at rest. While a call is under way, what is served
depends on where it is: what had been served is released before a medium is prepared, what is
prepared is served before it is loaded, and whoever fails after that releases it
before the next attempt or the end (`PbPlace`). An attempt may fail into another one inside it;
`PbIds` says that the inner one is of the later medium. `PbServes` holds until two calls or
events met, and a lemma `PbKept` reduces each step to what the moving call owes.

`RestoreInv` has one conjunct for each stretch of the script (`CopyGood`, `MoveGood`,
`InstallGood`, `CleanGood`, `RollbackGood`): what the operations so far have done to the
files, and, in the rollback, which were moved aside before the failure. `OldRecoverable`
follows because the protective copy is whole (`Copied`) before anything is moved. It holds
for every set of files present before, every point of failure and every point at which the
process dies, without enumeration.

`PxInv` of the Rust proxy says that a token that is used was started and is live, or its
stream was told of the close. It has two theorems no run's property states:
`StreamsHearOfClose`, the safety part of `StreamsEnd`, and `OneListenerIsBound`.
`SettlesInv` joins the parts, as in `DesktopProofs`.

### Only model-checked

- Liveness: `AcquireSettles`, `ShutdownCompletes`, `AddsSettle`, `CloseSettles`,
  `PlaybackSettles`, `SearchSettles`, `StreamsEnd`, and the fairness in `WorkerServes` and
  `SidecarServes`. They need `ENABLED` of fair actions, which the prover does not treat. The
  safety part of the two refinements is proved.
- The counterexamples of section 7. They are traces, which TLC finds.

## 7. Where code and documents disagree

Each of these is a run that ends in a counterexample; the trace is the explanation.

1. **More clients than the limit** (`ActiveLimit`, run `RegistryActiveLimit`). `acquire`
   returns the entry found in the map without looking at `destroyPromise`: a session that
   acquires while the idle entry of its key is being destroyed holds a client that is torn
   down under it. When that lease is released the entry is destroyed again, and each
   destruction gives a slot back.
2. **A process after shutdown** (`ShutdownStopsProcess`, run `DownloadsShutdown`).
   `shutdown` returns at once while `process` is not yet set; the start under way then
   spawns aria2 and nobody stops it.
3. **A failed restore that retained nothing** (`FailureRetains`, run
   `BackupFailureRetains`). The moved-aside files are removed inside the `try`: if a later
   removal fails, the rollback deletes the new database when the old one is already
   gone. The protective copy still has it (`OldRecoverable`).
4. **A site that failed stays failed** (`FailedRuntimeIsInvalidated`, run
   `SessionsRuntime`). An `open` whose init fails destroys the runtime and leaves it in the
   cache; the next open is handed a runtime that refuses everything. `destroyRuntime`,
   which would take it out, is called by nobody.
5. **A stop that does not stop** (`StopReleases`, run `PlaybackStop`). `playLocalMedia`
   begins with a stop and awaits it. If the user stops, or the window closes, in that await,
   it goes on afterwards and loads the file: something is loaded that no later step
   releases. An attempt that awaits the source's `playerContent` while the user stops goes
   on in the same way, which is not the trace of this run.

Other behaviours met in the models, in the code but in no run of its own. They bound what
the properties may say, and each is why one of them has its premise:

- A lease on a client in destruction, as in 1 (`LeaseSound` holds before it).
- A cancel writes back the row it read before its await; meanwhile a refresh had seen the
  download removed, which freed the name, and a new task took it: two tasks with one name.
- Two imports at a time drop each other's manager with the runtime it runs
  (`OneLiveRuntime`).
- `destroy()` during an `open` leaves a session that is not `destroyed`, unlike
  `docs/spike-13-desktop-integration.md:38`; `ensureSiteSession` opens again a session that
  is loading or in error, which throws "already open" (`ReadyMeansUsable`).
- A stop by the web control, `/api/switch`, `/api/close`, or `/api/player` with another user
  interface calls no `drainQueue` (`spider-ui.ts:1940-1943`, `2594-2609`, `2572-2574`), so a
  queued push waits until something else drains it, although
  `docs/CODEX_GOALS.md:1423` has the queue consumed after a stop (`QueueIsServed`).
- A downloaded script whose `writeFile` fails leaves the directory `mkdtemp` made, which no
  field names (`python-sidecar.ts:338-341`); one whose removal fails stays too
  (`SidecarLeavesNothing`).
- A last token revoked while the server is about to listen leaves a listener that no field
  refers to and nobody closes (`cast-media-bridge.ts:250-261`, `345-350`).
- A disconnect during a cast leaves a live token until the cast ends; of two overlapping
  casts the second may get an empty base URL while the server starts, and the replaced
  session is never closed (`BridgeOwned`, `castMet`).
- A stop followed at once by a play can load a medium whose proxy session was revoked, and
  `finishAttempt(true)` of an attempt under way turns a cancelled fallback into a recovered one
  (`ServedIsPlayed`, `pbMet`).
- A failing search counts twice in the health of its source, once per level of tracking, and
  the late success of a search that timed out closes the circuit again.
- A scan that ends after its folder was removed puts the row back
  (`docs/spike-63-local-media.md:32-33` speaks of removal); a superseded scan overwrites
  `scanState`, after which `cancelScan` does not match the new one; a crash leaves a row
  "scanning".
- In the Rust proxy, a close between the address and the abort handle of a start leaves the
  listener bound with no session; a start that finds the address just before it is
  cleared gets a URL nobody serves; a bind that fails leaves the session registered.

## 8. What is not modelled

The map covers about 7 % of the implementation's 65 thousand lines. Most of the others are
the user interface, the HTTP routes and views, the formats (configurations, manifests,
danmaku, ZIP, DLNA), CRUD over SQLite and end-to-end scripts, with little state of their own
and no interleaving, where unit tests do well; and 39 thousand belong to the Tauri
line, which repeats the services with locks and threads and needs models of its own.

Within the modelled components: the choice of the target directory, and the
validation of URLs and names (no await between check and use); files already on
the disk in `uniqueFilename`; progress, speed and sizes of downloads;
`FakeDownloadBackend` (a fixture); the ZIP format, export and preview of backups (they only
provide the staged files); log files SQLite opens while validating a database; the engine
a site is routed to and what its operations compute; an exception of
`new Worker(...)` itself; the remembered response of an init; the sequence numbers and
stderr of a sidecar; the push listener with its rate limit, and LAN settings; seeking,
tracks and metrics of the player; grouping and ranking of search results; the follow
notifier and its schedule; queries and durations of the history; ranges of the cast
bridge and the close of the cast service; items of local media; fetching and rewriting in both proxies.

Components without a module:

- *Player backend (mpv)*: `Playback` has media that load, complete or fail at any moment;
  the IPC below it, whose hazard is an event of an earlier file, is still to be done.
- *QuickJS engine*: runs inside the process, one evaluation at a time; its deadline is
  checked by the interpreter.
- *Cache*: every caller takes and returns its lease within one synchronous stretch, so no
  interleaving reaches its set `inUse`.
- *State persistence*: synchronous; a kill between the two writes leaves the old file.
- *Web control, artifact cache, isolated sniffer*: starts that overlap, a temporary file
  shared by two fetches, hidden windows with limits and timers; to be done, the last
  mostly Chromium's.
- *SQLite layer, favorites, Jellyfin, danmaku, configuration, routing, parse chain,
  renderer*: formats, CRUD and views.
- *Electron entry*: the order of shutdown, which the models assume.
- *The Tauri line but for its playback proxy*: other code.
