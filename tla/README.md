# A TLA+ verification of ai-home-assistant

ai-home-assistant (v0.1.0, "listen only") is one asyncio process that listens to
a Home Assistant instance over its WebSocket API, stamps every `state_changed`
event with the area its entity is in, stores it in SQLite, archives it as JSONL
and shows it on a web page. All of it runs on one event loop: a step of a task
runs alone up to its next `await`, and everything else may happen at that
`await`. The process may be killed at any moment; docker starts it again on the
files it left.

The modules of this directory model the parts that keep state across awaits,
failures or restarts. Each is written from the code in `src/src/ai_ha`;
`PROJECT.json` gives, for each definition, the lines it stands for.

## 1. The system

| part | state | operations | talks to |
|---|---|---|---|
| `ha_adapter/ws_client.py` HAWSClient | connected, backoff, disconnect_count, last_error_kind, _next_id, _stop | run, _connect_and_loop, stop | calls `on_ws_event` of `main.py`, one message at a time |
| `ingest/pipeline.py` IngestPipeline, `counters.py` | _buffer, _first_added, _lock, _hide, the flush task | start, submit, _periodic_flush, flush, _commit_locked, stop | reads EntityIndex; writes events, counters_per_area, entities, privacy_drops by StoreDAO |
| `ha_adapter/topology_fetcher.py`, `topology/*` | topology_snapshots, areas, devices, entities; EntityIndex._map | fetch_once, insert_if_changed, apply, _upsert_all, rebuild_async, lookup | called by two tasks: `initial_sync` and `on_ws_event` |
| `store/db.py` Database, `migrations/*.sql` | sqlite_master, kv_meta.schema_version | open, _verify_integrity, _ensure_kv_meta_table, _apply_migrations | first thing `main._run` does |
| `store/dao.py` StoreDAO | none of its own; one transaction per call | upserts, inserts, counters, list queries | everything above, and the web routes |
| `archive/jsonl_writer.py` | open file, its day | append, flush, close | `on_ws_event`, shutdown |
| `web/routes/stream.py` EventBroadcaster | one bounded queue per client | publish, subscribe | `on_ws_event`, web clients |
| `config/*`, `web/routes/settings.py` | config.toml, the hide patterns | load_config, ConfigWatcher.run, save | replaces `pipeline._hide` |
| `health/metrics.py` | rolling hour of events, flags, counters | record_event, setters, snapshot | `main.py`, `/api/health` |
| `main.py` | the tasks | startup order, `on_ws_event`, `initial_sync`, `on_cfg_change`, shutdown order | everything |
| events and entities routes | none | cursor paging over `StoreDAO.list_events` | web clients |
| areas, topology, page routes, templates, orphan detector, admin token, REST client | none that changes, or one file | read and format | web clients |

What is hard here:

* **Awaits inside critical work.** `_commit_locked` makes a DAO call for the rows,
  one for each area and one for each entity, and clears the buffer after the last.
  New events, a shutdown, a rebuild of the index, a new hide pattern and a failing
  call may come between any two of them.
* **Two refreshes at once.** `initial_sync` and `on_ws_event` both run
  `TopologyOrchestrator.apply` on the same tables and index, with no lock, each from
  three registry lists fetched one after the other.
* **Failure half way.** A commit and a refresh are several transactions, a
  migration script is many, and a session is a handshake and four subscriptions.
* **Files others write.** config.toml is written by an editor and by the settings page,
  is left half written by a kill or a full disk, and is read at the start and 200 ms after a
  change, if polling whole-second modification times notices one; a gzip archive is cut
  off wherever the process died or the disk was full.
* **Ends.** A dropped session must be opened again, `stop()` must end everything
  that is waiting, and what was accepted must reach the disk first.

For each part, what makes it correct:

* pipeline: what is cleared was inserted; nothing accepted is lost while the process
  lives; aggregates agree with the rows; `stop()` drains and ends;
* topology: a snapshot id always leads back to the attribution it was stamped with;
  history is append-only; the index catches up with Home Assistant;
* client: `connected` tells the truth, events come in order, ids grow, it gives up
  only when told to and comes back otherwise;
* database: the version never claims more than exists; what opens is complete;
* archive: what can be read stays readable, a failed rollover heals, a shutdown in
  order loses at most the event in hand, apart from what failed and was logged and the
  days whose file lost bytes;
* broadcaster: a queue is bounded, holds the newest events without a gap, and is
  given up when its client is gone; a client that stays catches up;
* configuration: what is enforced is a list somebody set out to write (or the empty one of
  a half-written file), is what the page shows, and is the last usable file that
  polling could notice;
* shutdown: it ends, whatever the other tasks are doing;
* reads: a page put together from several queries, across an hour boundary and
  between two transactions of a commit, counts what its label says; a cursor leads to
  older events.

## 2. The modules

| module | models | state and actions |
|---|---|---|
| `EventLog` | the promise to the caller of `submit()` | sets `pending` and `stored` of event ids; Accept, Commit, ProcessEnds |
| `IngestPipeline` | pipeline.py, counters.py, the DAO calls it makes | tasks `ws`, `flush`, `stop` with a place each (`pc`), `buffer`, `firstAdded`, the FIFO lock `lockQ`, the locals of the commit in progress (`commit`), and the tables. One action for each stretch between two awaits, one for each DAO call, and one for the failure of each |
| `Topology` | topology_fetcher, snapshot_store, orchestrator, entity_index, and their two callers in main.py | tasks `init` and `ws` with `pc`, `payload`, `sid`; the tables; `index`; Home Assistant's registries (`ha`) and the announcements of their changes |
| `WsClient` | ws_client.py | `pc` through run() and _connect_and_loop(), the fields of the client, the session (`link`, `subs`, `inbox`), and what `on_event` was given |
| `DatabaseOpen` | db.py and the shape of the migrations | `pc` through open(), `file`, `stmt`, `objects`, `version`, `corrupt`; kills and docker's restarts |
| `Archive` | jsonl_writer.py with `compress=True` | the `handle` with its day, what its buffers hold (`buf`), the gzip members on disk (`files`); AppendLine, its four failures CloseFails, OpenFails, WriteFails and FlushFails, CloseArchive, Spill, Abandon. No Next of its own |
| `Broadcaster` | stream.py | for each client its handler task, `queue`, the event in `hand` and the last one `seen`; Publish, Connect, Take, Send, SendRaises, Finalise, Disconnect. No Next of its own |
| `Listener` | on_ws_event and the `finally` of main._run | extends Archive and Broadcaster and instantiates EventLog for the pipeline: the ws task, the flush task, the place of `_run` (`main`), SIGTERM, a close that raises, kills, restarts. Histories: the events this process `taken`, those whose handling `raised`, and the `spoilt` days |
| `ConfigReload` | loader.py, watcher.py, settings.py, hide_matcher.py, the start and on_cfg_change in main.py | the contents of the file and what an editor is writing to it, its mtime as far as polling tells it apart (`fresh`, `stale`), the watcher task, the list in the pipeline (`hide`) and on the page (`shown`); polls, edits, posts that are done, fail half way or are killed there |
| `WebReads` | rooms page and /api/v1/areas, /api/v1/events, /api/health, over the tables and the rolling hour | the clock, a fault-free commit and a refresh step by step, and three readers, query by query |
| `MC...` | | values for the constants of a run |
| `..._proofs` | | the theorems about the module in front of the underscore: `IngestPipeline`, `Topology`, `WsClient`, `DatabaseOpen`, `Listener` (with `Archive` and `Broadcaster`), `ConfigReload`, `WebReads` |
| `CountingTheorems` | | lemmas about least elements, cardinalities and sums over finite sets, on which the proofs that count rest |

Granularity. A DAO call is one SQLite transaction and one step: `executemany`
followed by `commit()` takes effect as a whole, or raises and has none. The one
exception is `executescript`, which runs in autocommit mode: in `DatabaseOpen`
every statement is a step. An uncontended `asyncio.Lock` does not suspend, so taking
it is part of the step that asks for it; a contended one makes the task wait in FIFO
order (`Wait`, `Granted`).

Data. An event is its number, entity, time and snapshot id. A payload is the set of
areas and what the service keeps of devices and entities (the hash of a payload
identifies it); a device without `device_id` is a flag, because that is all the code
notices of it. A hide pattern list is the set of entities it matches. A migration is
its number and the objects it creates. Times are ticks, an hour is `HourLen` of them.

`IngestPipeline.RebuildIndex` stands for the whole of `apply()`, which `Topology`
gives in detail. The abstract specification `EventLog` says that an accepted event
stays pending until it is stored, and that only the end of the process may lose a
pending one; `IngestPipeline` implements it with
`pending <- BufferIds \ StoredIds`, `stored <- StoredIds`.

`Listener` takes the pipeline from that abstract specification instead of repeating its
locks: `Log == INSTANCE EventLog`, and a submit, a commit, a drain and the end of the
process are its Accept, Commit and ProcessEnds. `submit()` is the only await of
`on_ws_event` that suspends; the archive's and the broadcaster's locks and queues are free
or made free before they are used, so that the rest of the handler is one step.

`append()` raises in four ways, each with what it leaves behind: the old day's file cannot be
closed (what its buffers held is lost, and the day is spoilt), the new one cannot be opened, the
line cannot be encoded, or `write()` has to flush and the disk is full. After the last the
compressed stream has a hole (`hurt`): nothing behind it can be read, although later calls of
`write()` on the same handle return. A close that raises in the shutdown skips the rest of the
`finally`.

A configuration file is its kind, as far as the readers tell files apart, and the pattern list
of its `[privacy]`. The kinds: everything there (`full`), no `[ha]` or half of it (`bare`; valid
when HA_URL and HA_TOKEN are set), refused by AppConfig (`invalid`), `ha` not a table
(`odd`; a ConfigError, but with HA_URL set a TypeError, which ends the watcher), not TOML
(`broken`), not UTF-8 (`binary`, which also ends the watcher). A file without `[privacy]` has
the default list, which hides nothing. Both environments are initial states.

While a file is being written, a reader finds any first part of it (`HalfWritten`): nothing, or
one that ends after a line, in a line or in a character. A part that ends after a line is TOML;
it may have the whole of `[ha]` and no `[privacy]`, and then loads and hides nothing. The editor
and the settings page both truncate first: an edit is two steps, and a post is written in
full, fails with part of it written (`UpdateFails`), or is killed there (`KilledInUpdate`).

Polling is modelled as `tests/unit/test_config_watcher.py` describes it: the poller compares
modification times in whole seconds. A write is noticed (`stale`, then `Poll`) unless it falls into
a second whose earlier write was already polled (`missed`). `SecondPasses` is the clock.

`WebReads` keeps one entity for each area and runs one reader at a time, since readers
share nothing. The clock never steps back; `Epoch` puts time stamps above event ids,
as they are in fact.

Each module's mutants (plausible mistakes in a definition) stand in front of the
definition they replace and are used by no action.

## 3. The runs

Passing runs:

| run | question | what it shows |
|---|---|---|
| `ingest_faults` | 3 events, batches of 2, one failing DAO call, SIGTERM, one kill and restart | the commit in progress always has exactly the buffer that it will clear (`BatchIsBuffer`), counters and totals never run ahead of the rows, rows stay in order and single without faults, `stop()` drains, and `EventLog` is implemented |
| `ingest_live` | 2 events, hide pattern reloaded at any time, hour boundary, failing call, SIGTERM, fairness | counters are exact between commits, no event is both dropped and stored or neither, an accepted event is stored, `stop()` ends |
| `topology_race` | 2 changes, overlapping refreshes, an unkeyed device, failing call, disconnect, restart | the index and every row of areas, devices and entities agree with the snapshot they name; history is kept |
| `topology_settle` | 3 changes among 3 registries, none while `initial_sync` runs; fairness | the index is current whenever all is quiet, also after a return to earlier contents, and catches up |
| `ws_session` | 3 events, 3 faults (refusals and breaks), a deadline, stop at any await, fairness | `connected` is truthful, delivery is in order and without gaps in a session, at most one event after stop, the client gives up only when told, ids grow, it reconnects, and run() ends after stop |
| `database_kills` | 3 migrations with a gap in the numbers, 3 kills, 2 failures at any statement | the version is truthful, an opened database is sound and complete, opening fails only after a fault |
| `listener_life` | 2 events over 2 days, a browser with a queue of 1, two failing calls, SIGTERM, two kills and restarts, fairness | when SIGTERM has ended the process in order, all its visible events but one are in the database whatever failed, and the archive lacks no other event except those logged as failed and the days whose file was or became spoilt (`AtMostOneLost`); a failed rollover heals; a readable line stays readable; queues keep their size and hold the newest events; a connected client catches up and a gone one is forgotten; the shutdown ends once no handler is left, also when closing the archive raises |
| `config_reload` | 1 edit of two steps, 2 posts, 1 end of the process, 2 lists (one of them empty) and a bad one, both environments, fairness | what is enforced is a list somebody set out to write, or the empty one after an edit or a cut write, and is shown on the page; when the watcher rests and polling has nothing to tell the file is in force; posts that are done keep the file usable; a usable file whose change polling can tell comes into force, unless it is replaced, the process ends or the watcher has died of a file that is not UTF-8 or whose `ha` is no table |
| `web_reads` | 2 events in 2 areas, hours of 2 ticks, a day of 2 hours, ten minutes of 2 ticks, a refresh | the number of a room covers a day less at most an hour and never more than a day; an event in the last ten minutes, less the time of a refresh, makes a room active; events_per_hour is exact |

Runs that refute what the repository says (each is a finding in `PROJECT.json`):

| run | statement refuted | trace |
|---|---|---|
| `ingest_retry` | one row per event (design G4: "diff = 0") | rows inserted, a counter update raises, the retry inserts the rows again |
| `listener_hidden` | a hidden event leaves no trace in the archive (design, G7) | `submit()` drops it, the next statement archives it |
| `page_cursor` | "cursor is an event_id; ... (older page)" (dao.py) | next_cursor is a time stamp, above every event id: the second page is the first again |

Further disagreements between the code and what is said of it, which have no run.
The models show the first five of these, and the two about watcher.py, when the statement is
given to TLC as a property:

* One failed commit ends the flush task, which has no handler; a lone event then waits in
  memory for ever (pipeline.py:127; its docstring promises a commit after
  batch_interval_ms). `AcceptedIsStored` therefore asks for no failed commit.
* The snapshot id of a row is taken in `submit()`, its area in the commit; an index rebuilt in
  between gives a row whose area is not the one of its snapshot (pipeline.py:92; the design
  says old events can always be joined to their area).
* A change after the first fetch of `initial_sync` is applied by the ws task and then
  overwritten by the older payload (main.py:162, 174). `SettledIndexIsCurrent` is checked
  with `Overlap = FALSE` for this reason.
* "successful run resets backoff" (ws_client.py:59) is reached only after `stop()`; the
  delay stays at its maximum once it got there.
* A failed migration is not rolled back (db.py:119 against its docstring): executescript
  runs in autocommit mode, and the next open fails on the tables that exist.
* `insert_if_changed` compares with all snapshots where its docstring says the most recent.
* A failed `initial_sync` is not retried though main.py announces a background retry.
* A corrupted file is refused on every start where db.py's docstring announces a rename.
* An event that the ws task submits after the final flush of `stop()` stays in memory
  (`StopDrains` speaks of what was accepted before, `AtMostOneLost` bounds the loss).
* JsonlWriter says "Flush is explicit (called by ingest batch commit)"; nobody calls it, so
  that a kill loses what the buffers hold, and what later processes append to the same
  day is behind a member without its end.
* After SIGTERM `serve()` waits for the stream handlers, and one whose client is gone waits
  in `q.get()` until another event is published: with an open page and a quiet home the
  shutdown waits for docker's SIGKILL. `ShutdownEnds` starts where no handler is left.
* "force_polling=True + poll_delay_ms=50 ensure reliable change detection" (watcher.py:39):
  two posts in one second, with a poll and a reload between them, leave the mtime as the
  poller knows it. The file and the page's answer have the new list, the pipeline the
  old one until the file changes again. `SettledIsInForce` and `LastWriteApplied` name the
  exception.
* "half-write protection per spec §11 risk #8" (watcher.py:3; the design: a failed read keeps
  the old configuration): a file that ends before `[privacy]` does not fail to load. With the
  layout of config/default.toml an editor that has written `[ha]` when the debounce ends, or a
  kill or a full disk in the settings page's write, switches hiding off. With HA_URL and HA_TOKEN
  set (as docker-compose.yml does) even an empty file does. `InForceWasWritten` names
  the exception.
* JsonlWriter says "if disk fills, OSError surfaces to caller". It does once; the later lines of
  that day return normally and cannot be read (`spoilt` in `AtMostOneLost`).
* The design has `web` settings reloaded without a restart; `on_cfg_change` takes the patterns only.
  A ConfigError in a reload is not counted in config_reload_fail_total, since main.py passes
  no on_error.
* A refresh makes every room "active" for ten minutes, since it writes last_seen_at.
  event_count_24h of an entity is never reduced, and ws_connected never becomes false.

### Bounds

* Events: two fill a batch, a third arrives while it is being committed. More only
  repeats this. With one fault the interesting retries happen; a second would repeat
  them. One restart is enough to meet every table left by a kill.
* Time: two hours are enough for a batch that spans buckets.
* Registries: the device moves, or disappears while the entity gets an area of its
  own. These two are enough for a fetch torn between two lists, and three changes for
  a return to earlier contents.
* WebSocket: three events, one in each of three sessions or all in one; the delay
  1, 2, 3 has a limit which doubling overshoots.
* Migrations: three files, one with several statements, and a gap in the numbers; three kills
  meet every pair of statements.
* Listener: two events overflow a queue of one and meet a day change before, between and
  after a failed rollover; two faults give a failure of the archive before or after one
  of a commit, or two of the archive; two restarts, each on whatever archive was left. The
  safety properties are theorems for any number of each.
* Configuration: an edit of two steps and two posts give every order of a half-written file, a
  bad one and a good one around the debounce and the polls; one end meets a start in each of them.
  Of the lists that compile only "hides nothing" and one other are told apart.
* Reads: with hours, days and ten minutes of two units each, four ticks reach
  both sides of every boundary; two events make a batch that spans an hour, or a full page
  and an older one.

`MaxEvents`, `MaxTime`, `MaxDay`, `MaxEdits`, `MaxPosts`, `MaxEnds`, `MaxPages`, `MaxRefreshes`, `MaxFaults`, `MaxRestarts`, `MaxChanges`, `MaxDisconnects`
and `MaxKills` are bounds of the model, not of the code. `MayStop` and `Overlap`
choose the environment of a run. Deadlock is checked in every run: the only places where nothing more
happens are explicit stuttering actions (`Exited`, `Ended`, `Waiting`, `Down`, `Idle`).

### Fairness

* `IngestPipeline`: weak fairness of each task and of the DAO calls. asyncio runs every ready
  task, the lock is FIFO, SQLite calls end (a `PRAGMA busy_timeout` turns a wait
  into an exception), and the interval elapses. No fairness for failures, SIGTERM,
  new events, rebuilds or reloads.
* `Topology`: weak fairness of the steps of both tasks and of taking an announcement;
  none for Home Assistant's changes, disconnects and failures.
* `WsClient`: weak fairness of run(). It takes for granted that Home Assistant
  answers a handshake or is found dead by the pings; `recv()` in the handshake has
  no timeout of its own, and a peer that answers pings and nothing else would hold it.
  Nothing obliges Home Assistant to accept the token.
* `DatabaseOpen`, `WebReads`: the runs need none.
* `Listener`: weak fairness of `_run` (its waits are bounded by 15 s or by a commit),
  of a commit in progress, and of each stream handler, that is of clients that
  are connected and read. None for the rest of the ws task: `on_ws_event` may hang
  in a registry fetch, which has no timeout, and `ShutdownEnds` holds all the same.
* `ConfigReload`: weak fairness of the poller, a thread that looks every 50 ms, and of the
  watcher. Nothing is assumed about which writes are noticed; `LastWriteApplied` starts
  from a file whose mtime differs from the one last polled.

## 4. The theorems

Every invariant and every action property that a passing run checks is also a theorem. All hold
for every value of the constants that satisfies the `ASSUME` of the module
(`ConstantsAssumption`, `TopologyAssumption`, `WsAssumption`, `FilesAssumption`,
`ConfigAssumption`, `WebAssumption`, and those of `Archive`, `Broadcaster` and `Listener`:
positive sizes, distinct sentinels, numbered migrations that create different objects), so
also for any number of events, clients, faults and restarts. The runs evaluate the
assumptions, and the inductive invariants hold in every reachable state of the runs
as well.

**IngestPipeline_proofs.** `TypeCorrect`, `BatchIsBufferCorrect`,
`PipelineImplementsEventLog`, `AggregatesCorrect`, `StopDrainsCorrect`,
`RowsInOrderCorrect`, `CountersExactCorrect`, `AccountingCorrect`.

* The inductive invariant `IndInv` adds to the type and `BatchIsBuffer` that only the head
  of the lock's queue commits (`LockHeld`; without it two commits could share the buffer),
  that an inserted batch is stored (`InsertedIsStored`; needed when the buffer is
  cleared) and that the event in hand is a new one (`IdsFresh`; needed for Accept).
  Refinement: each step is Accept, Commit, ProcessEnds or a stutter of `EventLog`.
* `AggregatesInv` counts what the commit in progress has yet to add: "counter + still to
  add <= rows" is inductive where "counter <= rows" is not. `ExactInv` has the same with
  "=", as long as nothing fails; it also has to say that a commit that has not inserted
  its rows has all its counters to add, since the index may be swapped before it does.
* `OrderInv`: table and buffer are in the order of arrival and the buffer comes after the
  table, except between the insert of a batch and its clearing.
* `EveryEventAccountedFor` is preserved by every step that `IndInv` allows. The proof
  follows each event from `submit()` to a drop, which adds one to a sum over all
  keys of `privacy_drops`, or to a new id among those buffered and stored.

**Topology_proofs.** `TaskHoldsSnapshotCorrect` (a task between its insert and its rebuild
holds the payload its id names), `IndexFromSnapshotCorrect`, `RowsResolvableCorrect`,
`HistoryKeptCorrect`, `SettledIndexIsCurrentCorrect`.

* One invariant `SnapInv`: snapshots are only appended, so an id keeps its payload while
  the other task inserts; each upsert writes rows of the snapshot its task holds.
* `SettledIndexIsCurrentCorrect` has the hypothesis `Calm`, which the constants of
  `topology_settle` satisfy: no change while `initial_sync` runs (the overwriting by the
  older payload, section 3, is real) and no device without an id (it makes every refresh
  fail). Its invariant `CurrentInv` says that as long as no announcement waits, none was
  missed and nothing failed, every list a task has fetched is the one Home Assistant has,
  and that a snapshot is recorded once, so that a return to earlier contents finds it.

**WsClient_proofs.** `TypeCorrect`, `ConnectedIsSubscribedCorrect`,
`OneEventAfterStopCorrect`, `GivesUpOnlyWhenToldCorrect`, `IdsGrowCorrect`,
`DeliveredInOrderCorrect`.

* `WsInv`: how far the session is at each place of run() (`SessionShape`), that the next
  id is above all that were sent (`IdsFree`), and where the loop can be after a late
  event (`LateLeaves`).
* `OrderInv` relates what waits in the session to what was handed over: what waits is in
  order, all of it after the last event delivered, and within a session all that occurred
  since then is waiting.

**DatabaseOpen_proofs.** `TypeCorrect`, `VersionIsTruthfulCorrect`,
`OpenedIsMigratedCorrect`, `FailsOnlyAfterFaultCorrect`.

* `OpenInv`: the files before the one at hand are recorded, the statements before the
  next one have taken effect. `Checked`: nothing is done to a file whose integrity was
  not verified.
* `CleanInv`: as long as nothing failed, nothing exists but what recorded migrations and
  the statements of the running script created, and a script runs only while it is not
  recorded. So no CREATE meets an object that exists.

**Listener_proofs.** `ListenerImplementsEventLog`, `QueueIsNewestCorrect`,
`FailedOpenHealsCorrect`, `ReadableStaysCorrect`, `AtMostOneLostCorrect`.

* `EventInv`: the event in hand is the newest, of today, and accepted once. With it every
  step of the process is a step or a stutter of `EventLog`.
* `StreamInv`: a handler that is gone has no queue, so that a client that comes back starts
  with an empty one, which is a suffix of whatever was published.
* `ArchiveInv`: an open handle belongs to a day that is not after today, a begun one has
  its member on disk, a closed one is of an earlier day.
* `SafeInv`: while the process is up, the only member without its end, on a day that is not
  spoilt, is the one the handle is writing (`WholeFiles`); each event it received, unless in
  hand, logged as failed or of a spoilt day, can be read or is in the buffers of the open
  handle (`LinesSafe`); and each visible one, unless still in `submit()`, is stored or pending
  (`AcceptedSafe`). Once `stop()` has drained and closed, all that is missing is the event
  then in hand (`LateLoss`). The theorem bounds the loss by one without a bound on events,
  days, failures and earlier processes.

**ConfigReload_proofs.** `TypeCorrect`, `InForceWasWrittenCorrect`,
`ShownIsInForceCorrect`, `SettledIsInForceCorrect`, `PostsKeepFileUsableCorrect`, from
`IInv`: a usable file has a list somebody set out to write, or the empty one after an edit or a
cut write, and what an editor is writing is of the first kind (`FileWritten`; a reload takes its
list from the file); a watcher runs exactly while the process is up (`WatcherIsUp`; so that
every write it could miss is `stale`, `missed` or a `gap`); until its first look what was loaded
is in force (`LoadedIsInForce`); and there is no editor before the first edit
(`EditsCounted`).

**WebReads_proofs.** `EventsPerHourCorrect`, `ActiveAfterEventCorrect`,
`DayWindowCorrect`, for any length of the hour, the day and the ten minutes.

* `ClockInv`: what was recorded is in the order of time, an event that waits for the lock
  is not older than the ones recorded, and the log is a suffix of what was recorded that
  lacks only events older than an hour. The order is needed because popleft() stops at the
  first entry it keeps.
* `SeenInv`: the buffer is in the order of time; as long as an entity waits for its bump
  nothing newer was bumped; and a refresh in progress began at most `RefreshTime` ago.
* `CountInv`: for each area and hour, the counter and what the commit in progress has yet to
  add to it from the buffer make up the rows, and the rows a page found counted are still
  covered. With the arithmetic of whole hours (`WindowOfHours`) and the bound of a
  sum by a count (`SumCounts`) this gives both sides of the window.

**CountingTheorems.** The community modules define a sum by recursion over a finite set. The
library's induction theorems take an operator and cannot be used here; the lemmas take a set in its
place. That a non-empty set of naturals has a least element (`NatLeast`) gives induction
over naturals (`NatSetInduction`) and over the subsets of a finite set
(`SubsetInduction`), hence that the recursion has a solution (`FoldExists`), what adding to
one term does to a sum (`SumAdd`), and that a sum of counts by key is the count over all
keys (`SumCounts`).

The type invariants are conjuncts of the inductive invariants and are proved with them.
`WebTypes` and `EventInv` type only the variables that their theorems are about.

Only model-checked: liveness (`AcceptedIsStored`, `StopEnds`, `IndexConverges`,
`Reconnects`, `StopEndsRun`, `CatchesUp`, `GoneIsForgotten`, `ShutdownEnds`,
`LastWriteApplied`), which needs ENABLED and fairness and is beyond the prover; and the
refuted statements, of which TLC gives the counterexamples.

## 5. Not modelled, and the plan

Not modelled: the room, entities, timeline and topology pages (one query, or two
independent ones, and its formatting), templates, the admin token (one file written once), the REST
client, `find_orphans`, `get_meta`, `set_meta` and `get_privacy_drops_24h` (nothing in the
program calls them), the archive without compression, logging, the text of regular
expressions, the contents of JSON messages, and SQLite itself beyond "a transaction is atomic
and durable". A clock that steps back is left out of `WebReads` and `Archive`.

What is left: no safety property that a run checks is without its theorem. The liveness
properties stay with TLC. The next results worth having are that of the two modules
that repeat the commit, the fault-free one of `WebReads` is a special case of `IngestPipeline`, and
`SettledIndexIsCurrent` with devices that have no id, where what can be said is that the index
keeps the last refresh that succeeded.
