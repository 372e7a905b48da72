# A verification of wfcli

wfcli is a suite around the game Warframe: a daemon in Erlang (`wfdaemon`) that
caches game data, runs queries and plans and talks to the market; a companion in
Rust (`wfcompanion`) that observes a running game and publishes what it sees to
the daemon; a command line, an MCP client and a desktop GUI that are clients of
the daemon. This directory holds TLA+ models of the parts whose correctness
depends on the order of events, the TLC instances that check them, and TLAPS
proofs of what matters most about them.

    tlc -workers 2 -config ws_safety.cfg MCWorldstateService     # any run below
    tlapm WorldstateServiceProofs.tla                            # the proofs

Line numbers refer to the sources under `src/`. `PROJECT.json` maps every
definition to the lines it models and lists the hazards, the findings and, for
every property, a fault of the code that the property catches; the faulty forms
stand next to the right ones, under a comment that begins with `Fault:`.

## 1. Inventory

### 1.1 The daemon's processes

`wfcli_sup` starts 17 permanent children, one for one. Nearly all are gen_servers:
a handler runs to its end before the next message is taken, messages of one
sender keep their order, those of different senders do not. Slow work is done by
processes a server spawns and monitors (or links), which post their result and
end. So the hard behaviours are the same all over: a result, a `'DOWN'` of the
worker, a `'DOWN'` of the client and a timer may be handled in any order; messages
the server sent itself may be out of date when they are read; a restarted server
has forgotten what others believe it knows.

| component (source) | state | operations | what makes it correct | model |
|---|---|---|---|---|
| worldstate service (`worldstate/wfcli_worldstate_service.erl`) | snapshots and fetch workers per dataset; one-shots and watches; poll and idle timers; leases of other services | submit, subscribe, unsubscribe, fetch results, polls, activity start and end, idle policy, idle timeout, `'DOWN'`s | one answer to each one-shot; no forgotten waiter; a refresh is a refresh (see 5 for when it is not); a watch misses no change; polling goes on while there are watches; the daemon stops when idle and only then | `WorldstateService` |
| query service (`query/wfcli_query_service.erl`) | queue, workers, client monitors | submit, result, worker and client `'DOWN'` | each query has one place, one end, one lease; the pool is full while queries wait, never overfull | `QueryService` |
| forma planner queue (`forma/wfcli_forma_service.erl`) | queue, current planner | submit, `process_queue`, result, `'DOWN'`s | the same with one planner; no lost `process_queue` | `FormaService` |
| source manager (`catalog/wfcli_source_manager.erl`) | queue, current job, refresh timer | `ensure_catalog`, submit, `process_queue`, periodic check, result, `'DOWN'`s | every call returns; periodic jobs neither pile up nor stop; a lease per waiting refresh | `SourceManager` |
| player inventory and store (`player/wfcli_player_inventory.erl`, `wfcli_player_service.erl`) | the sources of the player snapshot, subscriptions, a cache file | publish, clear, subscribe, flush, load | what is shown is one full inventory with a read that belongs to it; never back to an older one; persisted | `InventorySync` |
| hot update (`runtime/wfcli_hot_update.erl`) | loaded code, pending migrations, build identity | apply, suspend, load, change code, resume, recover | no failed migration is forgotten; an identity is committed only when all is migrated; services are resumed (until two updaters run at once, see 5) | `HotUpdate`, `HotUpdates` |
| daemon front (`runtime/wfcli_daemon.erl`) | update under way, artifact id | requests, status, artifact checks, manual updates | no update is locked out; it starts no second updater beside one it has forgotten (it does, see 5) | `HotUpdate`, `HotUpdates` (updates) |
| local API (`runtime/wfcli_local_api.erl`) | connections, worker permits, subscriptions | accept, acquire, release, `'DOWN'`s | permits neither leak nor strand | planned |
| exports store (`catalog/wfcli_exports_store.erl`) | cache with signatures, a pool of workers, groups of equal requests | submit, result, `'DOWN'`s | a late worker replaces nothing newer; a group outlives its first client; no answer older than the question | `CatalogStore` |
| market presence (`market/wfcli_market_presence_service.erl`) | token, mode, connection and phase, last status, player subscription, hold on the daemon | mode, token changes, socket events, player updates, connect timer | always connected or about to be; the status others see follows the game and the mode; the hold follows both | `MarketPresence` |
| asset, market, market account, market limiter (`market/`) | queues, caches, a token, a rate | submit, results, account changes | one writer; prices not older than asked for | planned |
| build service (`build/wfcli_build_service.erl`) | cached replies, groups with revisions | get, mutate group, results, persist | an edit on an old revision is refused; written before acknowledged | planned |
| notification service (`worldstate/wfcli_notification_service.erl`) | settings, one watch | settings, matches, `'DOWN'` | exactly one watch while it is wanted | planned |
| companion diagnostics (`runtime/wfcli_companion_diagnostics.erl`) | requests of clients by number, their credits and deadlines | submit, consume, cancel, replies, timeouts | one sample awaits its client; no watch goes on for nobody | `CompanionDiagnostics` |
| metadata, resolution issues, data cache | registers, a derived registry, a lock file | | | see 6 |
| pure code: queries, projections, parsing, forma search, recommendations | none | | forma search: optimal within its budget, deterministic | see 6 |

### 1.2 The companion

`wfcompanion` is one process of threads that share little: each owns its state, and they
hand each other messages through bounded queues that coalesce, drop or refuse, each in its
own way. What they read is the memory of a game that runs on, without a lock. The same
binary is the inspector, a set of commands for developers of the companion.

| component (source) | state | what makes it correct | model |
|---|---|---|---|
| inventory (`inventory.rs`, `inventory/*.rs`) | stream, sequence number, baseline, last native read | observations are stamped in order; native reads only on the baseline they fit | `InventorySync` |
| response sampler (`observation/gep.rs`, `game_observer/gep.rs`) | the buffer looked at, what was sent, what may have been dropped; a mailbox that drops its oldest | what the game holds arrives, although it is overwritten while it is read | `ResponseSampler` |
| connection (`daemon.rs`, `daemon/*.rs`) | outbox, latest publications, replay; requests by number | nothing published is lost or reordered over reconnects and reloads; each request has one end and its own answer | `InventorySync`, `DaemonRequests` |
| relic scenes (`relic/*.rs`) | contexts with generations, two workers, one waiting trigger, the inbox, the scene on screen | one context at a time; what ends is noticed; the screen never goes back; the layout that names most cards is shown | `RelicScenes`, `ScreenReading` |
| evidence captures (`relic/evidence.rs`, `observation/`) | an armed recording, jobs with budgets, frozen memory, files | one outcome, last, and true | `EvidenceCaptures`, `EvidenceGraph` |
| game observer (`observer.rs`, `observation/`, `runtime/session.rs`) | the game, its session, three collectors and their queues | nothing of one game reaches the next; gaps are told; collectors come back | `Observer` |
| overlay (`overlay/*.rs`) | surface, buffers, frames, images, callbacks | what is on screen is what is wanted | `OverlaySurface`, `RelicScenes` |
| runtime (`main.rs`, `runtime/*.rs`) | services, the launched game, signals, the installed build | nothing observed is lost in a replacement; the end of the game ends the companion | `CompanionRuntime` |
| diagnostics (`runtime/diagnostics.rs`) | watches with a credit and a deadline | see 1.1 | `CompanionDiagnostics` |
| memory reads (`game_observer/*.rs`) | none but the structure being read | what is read twice is of one moment, and what is read once belongs to it | `MemoryReads`, `GameCatalog`, `ScreenReading` |
| memory scans (`game_observer/ui/`, `inspect/memory.rs`) | chunk, overlap, limits, where a range begins | nothing is missed unless said, but for one kind of range (see 5) | `MemoryScan` |
| recordings and walks (`memory/recording.rs`, `inspect/query.rs`, `inspect/capture.rs`) | ranges read, limits, blocks | a replay answers as the game did | `RecordedReads`, `InspectWalk` |
| incident log (`incident.rs`) | two counters, a channel, a writer | what is lost is counted, once | `IncidentLog` |
| scripts (`inspect/luau/`) | blobs and manifests under a lock | a snapshot is one version, or says otherwise; changes are found; rewritten code is the same code; what is inferred of new opcodes is true | `ScriptSnapshots`, `ScriptOpcodes` |
| cache files (`inspect/cache.rs`) | tables, blocks, a search | what a command asks for is unpacked and searched, or counted | `CacheFiles` |
| inspector watches (`inspect/gep.rs`, `inspect/daemon.rs`) | payload files, a subscription | what is reported is there | `InspectorWatches` |

### 1.3 How the parts interact

* Services tell the worldstate service of work by casts (`activity_start/0`,
  `activity_end/0`); it counts them per owner, monitors the owners, and stops the
  virtual machine 20 ms after its idle timer found nothing to do.
* A client is a process, a connection of the local API for those outside. Services
  monitor it and drop its work when it dies.
* `wfcli_daemon` calls services synchronously for its status reply, checks the
  installed artifact periodically and starts an updater process, which suspends the
  services, itself included, through `sys`. The updater outlives a crash of
  `wfcli_daemon`, and the one restarted knows nothing of it.
* The companion keeps one connection to the local API, repeats the latest
  publication of each source on every new one, and is restarted or reloaded apart
  from the daemon. The daemon orders what it receives by stamps, not by arrival.
* In the companion the observer feeds the relic coordinator (`relic/inbox.rs`) and the
  connection; the coordinator feeds the overlay through a bounded channel
  (`runtime/presentation.rs`); the overlay tells the coordinator what the user does. The
  context of a scene and the session of a game are shared flags: whoever holds one may
  find it cancelled at any time.
* A replacement of the companion by a newer build asks the overlay and the coordinator
  whether they are idle, stops all services, and hands its state to the new process.
* The supervisor restarts a crashed service with an empty state; nobody registers
  again what the old one knew, except the companion's replay.

## 2. The models

| module | role |
|---|---|
| `WorldstateService` | the gen_server, its fetch workers, timers, clients and lease owners |
| `WorldstateServiceProofs` | proofs about it |
| `JobQueue` | abstract: a job is accepted, then answered or dropped, and holds one lease in between |
| `JobConstants` | parameters and assumptions of the job services |
| `QueryService`, `FormaService`, `CatalogStore` | the services that implement `JobQueue` |
| `SourceManager` | the fourth job service, which does not (see 5) |
| `CatalogStoreProofs`, `JobServicesProofs` | proofs about these |
| `InventorySync` | game, decoder, outbox, connection, the daemon's rules for combining observations, and its restarts |
| `InventorySyncProofs` | proofs about it |
| `HotUpdate` | an updater, services as `sys` sees them, `wfcli_daemon` |
| `HotUpdates` | the updater of `HotUpdate` and a second one of the same daemon |
| `MarketPresence` | the gen_server, its connection, the website, the player service |
| `DaemonServicesProofs` | proofs about these three |
| `RelicScenes` | coordinator, workers, inbox, channel and overlay of the relic scenes |
| `RelicScenesProofs` | proofs about it |
| `Observer` | the observer's loop over games, with its collectors |
| `OverlaySurface` | surface, renderer, loader and compositor |
| `CompanionRuntime` | the process, its signals and replacement |
| `DaemonRequests` | requests over the connection to the daemon |
| `CompanionDiagnostics` | watches across client, daemon and companion |
| `EvidenceCaptures` | recordings of rewards |
| `CompanionProofs` | proofs about these six |
| `ResponseSampler` | sampler, mailbox and decoder |
| `CompanionConstants` | parameters and assumptions of these, from `Observer` on |
| `MemoryReads`, `MemoryScan`, `EvidenceGraph`, `RecordedReads`, `InspectWalk`, `GameCatalog`, `ScreenReading` | what reads the memory of the game or its screen |
| `IncidentLog`, `ScriptSnapshots`, `ScriptOpcodes`, `CacheFiles`, `InspectorWatches` | what reads and writes files and frames |
| `EvidenceProofs` | proofs about `MemoryReads`, `IncidentLog`, `ScriptSnapshots`, `InspectorWatches` |
| `EvidenceConstants` | parameters and assumptions of the last three rows |
| `MC...` | instances for TLC; `MCJobServices` (with the worldstate service and the synchronisation), `MCDaemonServices`, `MCCompanion` and `MCEvidence` hold several modules side by side, of which a behaviour moves one |

An action is one clause of `handle_call`, `handle_cast` or `handle_info` with
everything it calls, or one step of the world around the server: a worker ends, a
timer fires, time passes, a process dies. A handler that sends itself a message
puts it in a set or counter of pending messages; cancelling a timer removes a
running one but not a message already sent, as `erlang:cancel_timer/1` does.

### 2.1 WorldstateService

`status` says where a request is: not submitted, in `one_shots` or `watches`,
closed, or lost in a restart of the server. `snapshot`, `stale`, `expired` and
`fetch` are the dataset map; a snapshot is one value, and everything computed from
it (the reply, the comparison of a watch, the normalised variants) is a function
of it. `selfMsg` holds the `dispatch_one_shot` and `evaluate_watch` messages.
`pollTimer` and `idleTimer` are the fields of the state, `pollArmed` and
`idleArmed` the running timers, `pollMail` and `idleMail` the messages of timers
that fired. `external` is what the server counts for an owner, `held` what the
owner believes, `castQ` the casts between them in order. `reply`, `seen` and
`served` are observations: what a client was told, and whether a successful fetch
ended after a request came.

A fetch is told at its start whether it has to go to the network (`fetch_opts/3`): a poll and
a refresh force it, and so does any request if there is a snapshot already; the first request
for a dataset does not. `fetch` is `"unforced"` or `"forced"` while it runs, and then what
it brought: data of the network, the data of a young file (`"cached"`, only if unforced), the
data of an old file because the network failed (`"cachedStale"`, which the server marks), or
nothing. Who comes while a fetch runs joins it, whatever it was told. So `RefreshHonoured`
has one exception, the refreshes in `joined`: they may be answered with the data of the file,
as fresh, which `ws_refresh_cached` shows.

`Restart` (in `RestartSpec`) is a crash of the server
and its `init/1`.

A cast still on its way does not keep the daemon up, so both parts of
`LeasesHonoured` speak of owners with an empty `castQ`: that is what this protocol
can promise.

### 2.2 The job services

All four keep a queue, processes and client monitors. `QueryService` and `CatalogStore`
fill free workers in every handler that frees one; `FormaService` and `SourceManager` send
themselves `process_queue`, which does nothing while a job runs, so whatever ends a
job must send the next one. What a job computes is abstracted to its end. `Fate`
maps a job of the first three to the states of `JobQueue`, and `ImplementsJobQueue`
says every step is one of its steps or a stutter. Their `code_change/3` rewrites only
states of older versions, so it is no action.

`CatalogStore` answers equal queries together: a group is a sequence of queries on one
worker, which the code keeps as an item with followers, and a worker is named by the
first query of its group as it started. The worker is modelled in two steps, the
signature of the file and then its content, with changes of the file in between. The
cache has one entry, since keys do not influence each other, and the version of the file
stands for its signature and its content: time or size differ whenever the content does.
So what is left out is a file rewritten in one second at the same size. `since` is an
observation, the oldest version a query may be answered with. A query that joins a
running worker may be answered with the file as it was when that worker began.

### 2.3 InventorySync

An observation is the stamp the companion gives it (stream, sequence number, the
number of its baseline, when it was made and the game's `LastInventorySync`) with
a version of the inventory as content. `stream` stands for the pair of the game's
start and the stream number, which the daemon compares in this order; boot, process
and generation are the same in a stream and differ between streams. The path is
sampler (`Capture`), reader (`NativeRead`), decoder (`Accept`, `Native`), outbox
(`Enqueue`), connection worker (`RetainOutbound`, `Connect`, `Send`, `EndSession`),
two connections that the daemon may be reading at once (`wire`, `oldWire`), store and
cache file. `Faults` names what a run lets go wrong.

Abstractions: the observer's inbox and the outbox coalesce in the same way and are
one queue; a native read and a server response are atomic; the game retains one
response and the sampler's mailbox holds one sample (`ResponseSampler` has both in full);
requests and diagnostics are in `DaemonRequests` and `CompanionDiagnostics`; size limits
are left out; capture outcomes stand for all publications
that are no snapshots.

### 2.4 HotUpdate

A service is running, suspended or down, handles a request or none, and has a state
of some version. It reads system messages (`sysQ`) only between its own handlers. A
`sys` call that times out leaves its message in the mailbox (`live` becomes false).
`wfcli_daemon` is a service that also waits for others (`work` is the service it
calls). `aged` marks messages that have waited over one of its own five-second calls:
the second such wait is what makes `sys`'s timeout possible. The updater is a program
with a program counter `pc`, each `case` of the code an action. Every build changes every
service, so one number is the version of all modules; the checks of the bundles are
one way for `Decide` to fail; a restart by the updater is atomic. `Living` is
`stateful_processes/1`: the services that are up, in their order. When a suspend fails, those
before it are resumed in that order, later in the reverse.

`HotUpdate` is about one updater, `Me`, and its guard against a second is that of the code:
`update_in_progress/1` looks at what this `wfcli_daemon` has started. Its process outlives a
crash of `wfcli_daemon`, so the one restarted may start another. `HotUpdates` has both: the
first is `HotUpdate` itself, the second an instance of it, and they share services, loaded
code, pending migrations and `wfcli_daemon`. A crash, or a stop of a service by one of them,
is seen by both: the other's call to it is left unanswered. An updater is under way until
its process has ended, so between its result and its end, too. `overlapped` says that two
have run at once: what an update promises of migrations is true until then, and false
afterwards (`hot_forgotten`); that each comes to a result and that no later update is
refused for one that is over is true however many run.

### 2.5 MarketPresence

The state of the server is the state of the code; `connected` says that `connection` is
a pid and `failed` that `last_error` is set. A timer is the one of the field
(`retryTimer`), a loose one the field no longer refers to (`looseTimers`), or a message
(`connects`). `link` is the connection and how far the website has followed it,
`toSite` and `toService` what is on its way in both directions. The website is external:
it answers a sign-in by the token, sets or refuses a status, and sets one by itself for
another client. A user is offline at the website when no connection is signed in.
`left` is a connection that a sign-out forgot: `disconnect(State, false)` neither closes
nor keeps it, so it stays signed in until the website ends it. Backoff, wording of
errors, subscribers and the mode file's failures are left out.

### 2.6 The companion's threads

`MCCompanion` holds eight modules, of which a behaviour moves one. The state of each is
the state of its thread with the queues into it; what the other threads, the game, the
user, the compositor or the daemon do to it is among its actions. Windows of time are
choices made when the code compares with them.

`RelicScenes` is the coordinator of `relic/lifecycle.rs` (`owner`, one `Iterate` for each
turn of its loop), its workers (`Work`, step by step from probe to the last scene), the
inbox with its three classes of entries and their limits, the channel to the overlay and
what the overlay shows. `contexts` is the flag that coordinator, workers and overlay share.
A gap replaces the gap that is queued and takes the last place. `ControlItems` exceeds twice
the number of workers, as the code's 8 exceeds twice its `MAX_WORKERS`: completions and a
gap always find room. `Observer` is `observer.rs`: a turn of its loop is `Scan`, `Collect`,
`DrainQueues`, `Receive`; the collectors deliver, fail and close in between.
`OverlaySurface` follows the one thread of the overlay through `dispatch`, `events`, `sync`.
`CompanionRuntime` is `run()` with its services, `Game`, the signals and `reload`; a build
is a number. The thread that watches for builds (in debug builds) ends for good when it
cannot open or read a file (`WatchFails`): no build is handed over any more, and `run()`
ends with its error, but not before something else ends it. Whether the companion is `idle`,
which a replacement waits for, is up to the coordinator and the user (`IdleChanges`), who
may keep it busy for ever. `DaemonRequests` has callers that wait, one connection worker,
and the end of both; the code's `shutdown` is `closing` there, and `RequestReply::failure`
is `HasFailed`. `CompanionDiagnostics` is one model over three processes: client and daemon
(`wfcli_companion_diagnostics.erl`), and the companion. It extends `DaemonRequests`, whose
connection it shares. `MCCompanion` extends both, with the five other modules that there are
theorems about; `ResponseSampler` is an instance in it. Names of `RelicScenes` are those of
the code unless another of these modules has them (`reloadGate` is `Gate`, `triggers` the
inbox, `SendScene` is `send_scene`). `EvidenceCaptures` has the armed recording, the jobs
with their budgets, and a game that may be another one by the time memory is frozen.
`ResponseSampler` reads a response piece by piece while the game overwrites it.

`ObserverTrue` and the other properties are about what two of these threads believe of
each other, or what a thread believes of a game that has moved on.

### 2.7 Reading and keeping

`MCEvidence` holds sixteen parts, in twelve modules, of code that reads what it does not
control: the memory of a running game, the files of the game, a stream. Here the environment
chooses each value when it is read, within the limits that the code enforces, and may change
it between two reads. The limits of the code are constants, small enough to be met. What the
modules keep besides the variables of the code is the truth the result is compared with:
versions of cells (`MemoryReads`), the text scanned (`MemoryScan`), what a reader was told
(`RecordedReads`), what was stored (`ScriptSnapshots`). `MCEvidence` extends the four
modules that `EvidenceProofs` proves about; the others are instances in it. A behaviour
moves one part, and the others stay in the state they begin in.

`MemoryReads` gives a cell a version that never comes back, so a value that changes and
changes back between two reads is left out. Most cells are read twice. `Unchecked` are those
that are not, and that are read before the last new cell: the strings of foundry jobs that
are stored apart, which `jobs()` follows a pointer to, and the header of the platform's
identifier when it is empty, for which the primary identifier is taken. The rows that point
at such a string, and the profile that holds the header, are read again. So they may be of
another moment than the rest, but belong to rows or to a profile that were there, and
`OneMoment` says both. The same holds of an account whose identifier is within the profile
and is the last thing read: it is of the moment it was read at.

`MemoryScan` scans memory that does not change. A range begins anywhere (`begins`): a query
may choose any of the game, and a capture has ranges that were chosen or that a walk reached
from an unaligned root; the ranges of the game as it lists them are pages. What is aligned
is the address, not the place in the range. A read of the game may fall short at the end of
a page; one of a capture does not. `InspectWalk` leaves out the ranges a capture may select
besides its walks, `ScriptSnapshots` the import of scripts from a directory.

`ScriptOpcodes` compares scripts of two versions of a game that numbers its opcodes
anew. What becomes of each script is a choice: kept, changed, dropped, or left beside one
that looks like it. A comparison can mislead only where something is gone and a look-alike
is left, so the property is about runs without one (`faithful`); the
inference sees bodies, never the game's numbering. `ScreenReading` reads the cards of a
screen in one layout after another. The cards are centred, so a layout of two cards fewer
reads the ones in the middle, which is how a wrong layout names something. A match the
daemon is sure of is taken for right.

## 3. Runs

| run | module | distinct states | shows |
|---|---|---|---|
| `ws_safety` | `MCWorldstateService` | 340,952 | the safety properties of the worldstate service |
| `ws_refresh_cached` | `MCWorldstateService` | violation | a refresh answered with the file on disk |
| `job_services` | `MCJobServices` | 277,973 | places, limits, accounting, refinement and liveness of the job services; freshness of catalog answers and of the catalog cache; one-shots are answered, watches catch up over restarts of the server, the daemon converges to the game |
| `source_double_release` | `MCJobServices` | violation | a lease released twice |
| `sync_safety` | `InventorySync` | 1,324,856 | ordering and retention of observations under faults |
| `sync_outcomes` | `InventorySync` | violation | one capture outcome replaces another |
| `daemon_services` | `MCDaemonServices` | 258,192 | migrations, resumption, commit and termination of updates, one at a time and two at once; reconnection, status and hold of the presence service |
| `hot_never_resumed` | `MCDaemonServices` | violation | `wfcli_daemon` stays suspended |
| `hot_forgotten` | `MCDaemonServices` | violation | a second updater makes the first one's migrations forgotten |
| `companion` | `MCCompanion` | 1,514,947 | safety of seven parts of the companion |
| `companion_live` | `MCCompanion` | 250,720 | eight parts settle, and nothing stays due |
| `evidence` | `MCEvidence` | 1,205,269 | what is read is true, what is searched is found or called incomplete, what is kept stands |

A property of a run that holds several modules joins the properties of their parts
(`CallsAnswered` is four formulas of two modules, both of which hold whichever moves): the
parts are named formulas of their modules, and each has been broken by a fault of its own.

### 3.1 Bounds

* **`ws_safety`** plays one of three scenes, chosen in the initial state (`scene`): two
  one-shots, one of them a refresh, with a watch on one dataset; two watches, one that
  ends after its first update, with three timers; one owner with up to two leases and two
  casts in flight beside a one-shot, under both idle policies. The scenes interact
  only through the emptiness tests of `Idle`, and each scene has the parties of the
  properties it is there for; the proofs need no such split. Two contents are enough to
  tell changed from unchanged; `Contents` is a symmetry. `Timer` bounds how many
  timers run or have an unread message: a third is needed only when two stale messages
  are queued. The server restarts at any point of the first two scenes; the third has
  no restart because there the accounting does not survive one (see 5). The first scene has
  what a refresh meets: no snapshot, an unforced fetch under way, one that is forced.
* **`job_services`**: three jobs on two workers (a job waits, and a freed worker is given
  away), three plans on one planner, three catalog queries of which two are equal, on one or
  two workers, over a file that changes once, and one `ensure_catalog` call, two refreshes
  and two names for periodic jobs. The services share nothing, so a behaviour moves one of
  them (`service`). `MaxNudges` says the hourly timer does not fire while two
  `process_queue` messages are unread. Jobs are interchangeable: that each ends is checked
  for one; in the catalog store for one of the equal pair. Two versions and two workers are
  what it takes for a slow worker to hold old content beside a fast one that has cached the
  new. Two more services are moved: the worldstate service, with one one-shot, one watch,
  two contents, two timers and restarts of the server at any point; and the synchronisation,
  with one fault, two frames, one full inventory and an outcome that takes part in the
  replay. There is no deadlock check because all jobs come to their end.
* **`sync_safety`**: two faults out of seven (`MaxFaults`), two streams, three observations
  in each, two full inventories, two versions, and one frame in each socket (`MaxWire`):
  enough for a frame of an old connection to arrive after one of the new, for a native
  read to be overtaken by a full inventory, and for a restart on each side. This run stops
  when the bounded inventory history is used up.
* **`daemon_services`** moves updates one at a time, two updates, or the presence service
  (`service`), which share nothing. Updates: two services, of which one has handlers longer
  than the timeout, and `wfcli_daemon`; two builds; at most one system message left over
  (`MaxStale`) in a mailbox when an update starts. An update that fails, one that recovers
  and one to the next build fit. Two at once: one build, and the slow service does not let
  calls time out; anything may happen until the second starts, which it does while services
  are suspended; from then on only the two go on, until both are over, because what is
  checked of them is that they end and leave no lock. Presence: a token the website accepts
  and one it refuses, the modes `auto` and `online`, two connect timers or messages, and one
  fault (a connection that cannot be opened or breaks, an error of the website, a restart of
  either service). The website and the game start a change only when nothing else of theirs
  is on its way (`MaxMessages`); what the service sends meanwhile still crosses it, as do
  calls.
* **`companion`**: two contexts, so that one is replaced and its worker reports late, two
  runs of the game, both workers busy, one entry of data and five of control in the inbox
  and two in the channel to the overlay, so that entries are dropped and the gap is told, and
  a user who dismisses, toggles and closes at any point until generations are used up (relic
  scenes); two games with two faults (observer); two oddities of the compositor and
  three events of the scene (overlay); three builds, one signal and one fault, of
  the installation or of the watcher (runtime);
  two callers and two sessions (requests); two clients over one connection that breaks
  once (diagnostics); two recordings, one job at a time, two games (captures).
  **`companion_live`** has the same with one caller, one session and one relic worker, and
  two responses of two pieces, one of them too large to share the mailbox (sampler).
* **`evidence`**: each limit of the code is set where a bounded environment meets it. A
  chunk is two pointers long, ranges straddle it and begin aligned or not; two changes of
  the game fall anywhere into a read; the blocks, ranges, bytes and depths of captures run
  out; two threads and the writer share a log of two entries; two inspectors cross two
  versions of each file of the game, with two kills, damages or failures; code is read from
  at most five bytes, opcodes are inferred from scripts of up to two out of six bodies, and
  rewards are read for up to three players (the game has four; three is where a smaller
  layout first reads a card in the middle).

In `job_services`, in the two runs of `InventorySync` and in those of `MCCompanion` and
`MCEvidence` the deadlock check is off: bounded counters, and parts that have done their
work, stop.

### 3.2 Fairness

Weak fairness of message handling (a gen_server takes every message in its mailbox in time),
of workers (every call they make has a timeout) and of timers. The handlers of a job service
are one disjunction under weak fairness: the server goes on as long as there is a message,
and the messages are finitely many. In `InventorySync` the threads of the companion and its
reconnection are weakly fair; faults, the game and `Persist` are not. `HotUpdate` has strong
fairness for handling a system message, because a handler of the service may come between
any number of times, but the message is taken whenever the handler ends; and weak fairness
for the timeout of a call. Two updaters have it each. Nothing is assumed of `Restart` of the
worldstate service, neither that it comes nor that it stops: what is registered in the
server that came last is answered, and a request that a restart forgot is over. A client is
never assumed to send or to stay. Nothing is assumed of `BeginHandler`, `CallService`,
`ArtifactCheck`, `ManualUpdate`, crashes or staging.

In `MarketPresence` connect messages, connection events, player messages and timers are
handled, and the network and the website answer what was sent to them; users, other
clients and faults do as they like.

In the companion a loop of a thread goes on (weak fairness of its step), its timers fire,
and a job of a recording works on, because its budget of time ends it. Two assumptions
are strong. The observer's `Receive` alternates with deliveries of the collectors, which
may keep the queue full, but a turn of its loop takes a bounded number. The compositor's
`configure` may be preceded by any number of other events, but a compositor does answer a
commit. A request has a deadline of its own at its caller; what is assumed of the worker
is that it heeds the flag to halt. An idle companion comes to look at the reload gate, but
nothing makes it idle. The user, the game, the signals, the failures and the
installation of builds are never assumed.

Some liveness properties state their own conditions. `PresenceFollows` speaks of a good
token, a mode and a game that stay, and of a service that reports no error: after an
error in reply to a status the code rests until the next event. `Behind` speaks of a
dataset that stops changing. `Diverged` speaks of an inventory that stops changing, with a
decoder that has the current full inventory and a bounded sequence number to spare
(`seq < MaxSeq`, a bound of the model); and the run leaves out `clear`, after which the
code waits for the next full inventory of the game's server, which need not come.
`PartsSettle` speaks of the end of the disturbances, which the bounds bring about; of an
installed build it says that it had its turn unless the watcher has failed (`HadItsTurn`) or
the companion is busy again and again, which is its first disjunct.

## 4. Proofs

All proof modules hold for every value of the constants that satisfies the named
assumptions: finite or infinite sets of requests, owners and datasets, any bounds.

`WorldstateServiceProofs`

* `TypeCorrect` and `TypeCorrectRestart`: one step per action.
* `EveryRequestServed` follows from `RequestInv`, the parts of `RequestsServed` together
  with `RefreshForced` and `selfMsg \cap Refresh = {}`, and from `SeenInv`. The last is needed
  because a refresh must never be served by a message to self, which would not wait for data;
  `RefreshForced` says that a refresh that waits and is not in `joined` waits for a fetch that
  was forced, so that what comes is from the network or marked;
  the others need each other because the handler that answers also ends the fetch
  another waiter relies on.
* `LeasesAlwaysHonoured` follows from `LeaseInv`: the casts in
  flight from an owner form a chain from what the server counts to what the owner
  holds. `LeaseAccounting` is its case with an empty queue and is not inductive itself.
  It is a theorem of `Spec`, without restarts, and false of `RestartSpec`.
* `TimersNeverForgotten` follows from `PollInv` and `IdleInv`: the
  timer field is always the identity of a timer that runs or whose message is queued.
  It holds over restarts.

`InventorySyncProofs`

* `EffectiveInventoryCorrect` is inductive with types, through `PublishKeeps`: each of
  `ApplyHttp` and `ApplyNative` keeps `Consistent`. `NeverBack` follows from types and
  the order of stamps alone, whatever the frames are: it does not depend on the
  companion being right.
* `PublicationsAlwaysKept` follows from `SyncInv`, three parts that need each
  other: `OutboxInv` (one observation of each kind, in order, none newer than the
  decoder), `LatestInv` (what is repeated is of its kind, and what a session still has to
  repeat is what is retained) and `HeldInv` (the decoder's last observation of each kind is in
  the outbox with nothing newer, or retained with nothing of its kind in the outbox).

`CompanionProofs`

* `ObservationAlwaysKept` follows from `KeptInv`: all services run from the start of an
  iteration until they are joined, none runs otherwise, and the connection is the last to be
  joined, so that whoever publishes has a connection to publish to.
* `CapturesAlwaysHonest` follows from `CapturesInv`: an outcome is the last thing said, a
  recording is open exactly while it is armed or has a job, and a job that has verified
  an image or a memory has that of its game. The lemmas say of each way to speak what it
  leaves: `SaysMore`, `ArmLeaves` and the cases of a job's steps.

* `CallsAlwaysAnswered` is a theorem of both specifications together, since requests and
  watches share no state. It follows from `CallsInv`.
  * `RequestsInv`, of the requests: two numbers on the way are of different requests
    (`NumbersTell`: among what awaits an answer, is being written and is with the daemon; a
    new session may start its numbers again only because nothing is on the way then), and
    an attempt that has not been made is in no place (`UnmadeNowhere`). The first is what
    makes an answer fit, the second what lets a caller ask again. `WorkerKeeps` reduces each
    step of the worker to what it does with one request (`Handled`): it stays held, or
    leaves its place and is told one outcome. `PickedIs` and `UnexpiredIs` say that a queue
    from which items expire holds the others as often as before.
  * `DiagnosticsInv`, of the watches: `OneSampleAwaits` is not inductive, because a command to
    watch is the first right to send a sample and is not counted in it. `Credits` counts it
    too; in each queue, and in both one after the other, the cancellation of a watch comes
    after the command (`InOrder`); and a watch whose end is on its way to the daemon is in
    no place any more, unless something of it was lost (`WatchKept`): the daemon, which then
    forgets it without a cancellation, orphans nothing.

* `ObserverAlwaysTrue` and `StreamsAlwaysKept` follow from `ObserverInv`: whatever waits is
  of the session that is held, because a collector that runs, and a reader that has not
  seen the end, were started in it; and the coordinator has heard of no other session. The
  four kinds of queue need each other, since the end of a session empties them all.
* `PixelsNeverStale` follows from `PixelsInv`: what is cached, the static frame and the
  pixels of each buffer that has a key, was drawn with the images that are installed. The
  property says nothing of what may be shown later from a cache, so it is not inductive.

`JobServicesProofs`, with `CatalogStoreProofs` about the store alone

* `TypesKept`, `InOrder`, `JobsFinishedOnce`, `CacheStaysTrue` are about the run's
  specification, in which one service moves. `EachRuns` says that a behaviour of it is, for
  each service, a behaviour of that service alone; each then has an inductive invariant.
* `QueryInv` joins places and limits with what processes exist (`QueryProcesses`: one that
  runs is of a job at work, and none is of a job that waits or was not submitted) and with
  what is owed (`QueryAccounts`: a job in hand is unanswered, and there is a lease for each).
  Places and limits alone are not inductive: the end of a process is handled as the end of
  the job at work. `FormaInv` and `SourceInv` add that a job waits only beside a running job or
  an unread `process_queue`; `SourceInv` that one job at most is in hand.
* The store's `Inv` says that the queries with a client are those of the groups, each in
  one, and that a query that waits leads no worker (`Groups`), that a group waits only when all
  workers are busy (`Room`), and that each query in hand has a lease and no reply (`Accounts`);
  `CacheTrue` needs `Versions` besides: a worker carries a version between the one its first
  query may be answered with and the present one, and an entry of the cache is of its
  signature.
* `JobsFinishedOnce` is the refinement of `JobQueue`: every step of the three services
  changes the fate of its jobs as a step of `JobQueue` or not at all. `LeasePerUnfinishedJob`
  says of the three what an abstract queue promises in every state: the leases held are as many
  as the unfinished jobs.

`DaemonServicesProofs`

* `PresenceHolds` follows from `PresenceInv`: beside the property, that nothing is under way
  without a connection (`Quiet`), and that the status others see has been taken from the
  mailbox or is the last report in it (`StatusKnown`): without it a report that comes late
  could break `ReadyMeansDesired`.
* `UpdatesHold` and `ServiceTypesKept` speak of both updaters. No update is locked out
  (`NeverLockedOut`), and the types of the presence service hold, at all times; what else an
  update promises, and the types of the updaters, until two run at once (`overlapped`).
  Afterwards the promise is false, see `hot_forgotten`. `UpdatesInv` joins the two: as long
  as nothing has overlapped, the second updater stands where it began (`SecondIdle`), and
  the first has `UpdateInv`; `AloneStep` says that a step of `HotUpdates` is then one of
  `HotUpdate`.
* `UpdateInv`: at most one system message has its caller
  waiting (`OneCall`), a service that is down or has state of another version is noted
  (`Accounted`), each value of `pc` has its own facts about the updater's lists (`Phases`), and
  a service that answers in time is suspended only while it is on a list to be resumed
  (`Prompts`). The formulas of `UpdatesSafe` are read off the steps from there.

`RelicScenesProofs`

* `NoCompletionLost`, `ContextsStayInOrder` and `ScenesStayInOrder` follow from `RelicInv`.
  `InboxInv` is about the bounded queue: of each worker there are at most two control
  messages, the completion last, and there is at most one gap, so that together they
  are fewer than `ControlItems`. `MailInv` explains each of them by a worker that keeps its
  slot and has got that far; both need each other, since a message that found no room would
  leave a slot taken forever. `OwnerInv` says that no context is open but the
  coordinator's. `OverlayInv` ties the pointer, the scene and the reload gate.

`EvidenceProofs`

* `ReadsAlwaysOfOneMoment` follows from `ReadsInv`. Of the plans of reading it needs what
  `InOrderAt` says, which is proved of each: a cell comes after the one that points at it,
  which is looked at again later unless it is the profile; and when a new cell is met that
  is not read once, all others but those read once are still to be looked at again. What has
  moved since it was seen never comes back, and what is behind it has moved too. So a cell
  that passes its second look held the same when the last new cell was read, the `middle`,
  or the way to it has moved (`Excused`): at a cell whose own second look is to come, which
  then fails, or at the profile. Of a cell that is read once, that says that no stale
  pointer led to it (`Right`).
* `LogAlwaysAccounts` follows from `LogInv`: for each level, what was taken and is in no
  final place (`Owed`) is either counted as dropped and not yet told, or with a thread, in
  the channel or with the writer (`Pending`); a writer that is done has seen every thread
  gone, an empty channel and all drops told. The property says nothing while the writer
  works. `Balance` is the difference of the two sides; each step, of a thread (`SendKeeps`)
  or of the writer (`LogKeeps`), takes from one place what it adds to another.
* `SnapshotsAlwaysStand` follows from `CorpusInv`, which says of a capture at each of its
  steps (`Stands`) what its manifest may rely on: what it names is stored, scripts it has not
  visited are in packages it still has to read or are covered by an error, and before
  the last stamp is compared, all was read from versions between the first stamp and now.
  So equal stamps mean one version. The lock (one owner) is not needed for it: a manifest
  speaks of what its own capture did, and blobs are never removed.
* `CapturesBuildOnIntact` needs only the types of `CorpusInv`: each action that adds a script
  to a manifest has verified or written its blob in the same step.
* `OutputsAlwaysStand` is a theorem of a watch of payloads and a subscription together, which
  share no state. `PayloadInv`: a watch that writes or removes a file has made it, no other
  has, and so a file of which something was reported is not removed by whoever fails beside
  it. `StreamInv`: what was printed, followed by the frames on the wire, is the answer and
  the events up to the last one sent (`GoesOnFrom`), from the answer to the subscription on.

Not proved but checked by TLC: all liveness properties (`ServicesSettle`, `JobsFinish`,
`DaemonCatchesUp`, `PartsSettle`, `NothingStaysDue`), which are out of the prover's
reach; `TypeOK` of `MCCompanion` and of `MCEvidence`, which join the types of all their
parts (those of the modules the proofs are about are parts of the invariants above); and
`SearchesMissNothing`, `CapturesReplay` and `MeaningKept`, whose parts fold
over sequences or compute by recursive functions, where a proof would be an induction over
data.

## 5. Findings and remarks

Each finding is a run that TLC ends with a counterexample, against a sentence of the
documentation.

1. `ws_refresh_cached`: a one-shot without refresh, the first for its dataset, starts a fetch
   that may be answered from a young file; a refresh that comes meanwhile joins it
   (`wfcli_worldstate_service.erl:327`) and is told that file's data as fresh.
   `wfcli_mcp_tools.erl:73` says of the option "Force a worldstate network refresh."
2. `source_double_release`: a refresh whose client died while it was at work gives its lease
   back twice; the second is the lease of another refresh. (`SourceManager` is therefore not
   checked against `JobQueue`.)
3. `sync_outcomes`: publications not sent when a session ends are retained by their
   source, capture outcomes too: one replaces another.
4. `hot_never_resumed`: a `sys:suspend` that timed out is obeyed later. `wfcli_daemon` is
   waiting for services the updater has just suspended, so it is the one to be late.
5. `hot_forgotten`: `update_in_progress/1` (`wfcli_daemon.erl:356`) reads the state of its
   own process. A `wfcli_daemon` that crashes and is restarted starts a second updater
   beside one that runs; its `recover_pending/0` erases the list of the first, which crashes
   on it and resumes services that were not migrated. Nothing notes them, although
   `docs/developer/daemon.md:161-163` says that failed or interrupted migrations stay
   pending.

Two more can be seen by adding a property to a run. `IdleIsReplaceable` as an
invariant of `companion`: when the overlay ends while it is interactive
(`overlay/runtime.rs:142` and `:1007`) nobody tells the reload gate, and no build
replaces the companion any more (`docs/developer/companion.md:350`).
`StopHonoured` as a property of `companion_live`: a SIGTERM that arrives while an installed file
is hashed (`runtime/reload.rs:321`) is forgotten by the replacement
(`docs/developer/companion.md:301`).

Met on the way, without a run: an `idle_timeout` message queued when work begins is handled
after the work has ended and stops a daemon that has not been idle for ten minutes
(`wfcli_worldstate_service.erl:196`, `docs/daemon.md:21`); the leases of other services do
not survive a restart of the worldstate service (`:74`, `docs/daemon.md:25`); unsubscribing
and subscribing around a queued `poll` leaves two chains of poll timers (`:192`,
`docs/developer/daemon.md:71`). A lease in flight does not prevent a stop; the stop is not
revoked by work that arrives in its last 20 ms; most services do not trap exits, so
`terminate/2` does not run on a supervisor shutdown; a restarted `wfcli_daemon` takes a
staged build for the loaded one; after a clear the daemon rejects the native reads of a
companion that goes on with its own baseline; a reload of the companion is refused once an
outcome is retained; a sign-out leaves the presence connection signed in; a refused token is
not followed by a sign-in with its successor; `docs/developer/worldstate.md:53` says that a
watch honours the cache's age between ticks, while every poll forces a fetch;
`docs/developer/daemon.md:74` says the exports store serializes its queries, which it runs
on up to `catalog_workers` workers.

In the companion: an armed recording that is replaced by another, and one cancelled by a gap
of the intake, never say an outcome; the end of a game that is lost in a gap leaves running
captures uncancelled; a credit or a cancellation of a watch that arrives late leaves the
watch to its deadline, and a sample lost by a full channel spends its credit; scans for
aligned pointers keep no overlap and miss one that lies across two chunks of a range of a
capture that begins unaligned, without calling themselves truncated (`refs.rs:54`,
`text.rs:232`, `ui/mod.rs:380`; `NothingMissed` states this exception, and without it TLC
finds the miss); the strings of foundry jobs and the empty identifier of the platform are
read once, so a result may join them with rows of another moment (`inventory.rs:183` and
`:196`, `account.rs:73`; `OneMoment` states it); a build watcher that cannot read a file
ends silently, which `run()` reports when it ends (`runtime/reload.rs:231`,
`runtime/mod.rs:119`); the store's items are read without a second look
(`game_observer/metadata.rs:229`); a watch that is killed while it writes leaves a partial
payload file, and every later watch that meets the payload fails; a deadline that passes
between its test and `set_read_timeout` makes a subscription fail instead of end; scripts'
packages are listed before the first stamp of the cache is taken; a layout of the rewards
that names nothing ends the scan (`relic.rs:751`, `:762` and `:783`), so what other layouts
named is not shown and the rest are not tried, although
`docs/developer/overwolf-alecaframe-overlay-research.md:230` speaks of an "exhaustive 1-4
layout OCR" (`NamesMostCards` states what does hold).

## 6. Not modelled, and the plan

In this order; each becomes a part of an existing run where the instances are small.

1. **Permits of the local API**, with connections that outlive a restart of the server.
2. **Asset service**, **build service**, **market service** with its limiter and account.
3. **Notification service** as a client of `WorldstateService`; the stop in its 20 ms.
4. The **lock file** of the data cache.
5. **Forma search** as a pure algorithm: budgets add up, and the split among workers
   gives the plan of the sequential search.
6. Proofs: what the readers' folds compute.

Left out for good: formatting of the command line, the GUI's widgets, the layout and
drawing of the overlay; parsing of downloads, projections and entity queries, which are
pure functions whose results the models take as values; metadata and resolution issues,
whose handlers are atomic; commands of the inspector that only print; the start of the
daemon by its clients, and size limits of frames and payloads.
