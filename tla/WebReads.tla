------------------------------ MODULE WebReads ------------------------------
(***************************************************************************)
(* What the web side shows while the ingest task and a topology refresh     *)
(* write: the rooms page (also /api/v1/areas), the pages of /api/v1/events   *)
(* and events_per_hour of /api/health.  Each await of a route is a step of   *)
(* its own, so rows are inserted, counted and stamped between two queries of *)
(* one page, and the clock moves.  Writes do not fail here (IngestPipeline   *)
(* is about that), an area has one entity, and the clock never steps back.   *)
(* Readers share nothing, so the model puts one page together at a time.     *)
(***************************************************************************)
EXTENDS Integers, Sequences, FiniteSets, FiniteSetsExt

CONSTANTS Areas,        \* numbered in the order of their names
          None,
          Epoch,        \* the wall clock at time 0, far above any event_id
          HourLen,      \* ticks in an hour
          DayHours,     \* hours in the window of the counters: 24
          ActiveTime,   \* ticks in ten minutes
          RefreshTime,  \* the longest time from a refresh's time stamp to its last upsert
          BatchSize,    \* IngestPipeline(batch_size)
          Limit,        \* the page size the client asks for
          MaxTime, MaxEvents, MaxPages, MaxRefreshes   \* bounds of the model

ASSUME WebAssumption ==
  /\ {HourLen, DayHours, ActiveTime, BatchSize, Limit} \subseteq Nat \ {0}
  /\ {RefreshTime, MaxTime, MaxEvents, MaxPages, MaxRefreshes} \subseteq Nat
  /\ Areas \subseteq Nat /\ Epoch \in Nat /\ Epoch > MaxEvents /\ None \notin Int

VARIABLES
  now,
  ws,         \* the event on_ws_event is handling, and how far it is
  recent,     \* HealthMetrics._event_log_recent
  buffer,     \* IngestPipeline._buffer
  commit,     \* the keys and the entities _commit_locked has not written yet
  rows,       \* table events; event_id is the position
  counters,   \* table counters_per_area
  lastSeen,   \* entities.last_seen_at, of the entity of each area
  refresh,    \* ts_ms of the apply() in progress, or None
  refreshes,
  page,       \* the rooms page being put together
  walk,       \* a client following next_cursor through the events of an area
  recorded,   \* history: every time stamp given to record_event
  newest      \* history: the latest time stamp written by a bump, per area

ingest == <<ws, buffer, commit, rows, counters>>
vars == <<now, ingest, recent, lastSeen, refresh, refreshes, page, walk,
          recorded, newest>>

Bucket(ts) == ts \div HourLen
Keys == Areas \X {Bucket(t) : t \in 0..MaxTime}
KeyOf(row) == <<row.area, Bucket(row.ts)>>
Idle == [at |-> "recv", row |-> None]
NoCommit == [keys |-> {}, ents |-> {}]
Uncounted == {i \in DOMAIN rows : KeyOf(rows[i]) \in commit.keys}
Blank == [a \in Areas |-> None]
NoPage == [at |-> None, counted |-> {}, cutoff |-> None, shown |-> Blank,
           active |-> Blank]
NoWalk == [area |-> None, cursor |-> None, pages |-> <<>>]

Init ==
  /\ now = 0 /\ ws = Idle
  /\ recent = <<>> /\ buffer = <<>> /\ commit = NoCommit
  /\ rows = <<>> /\ counters = [k \in Keys |-> 0]
  /\ lastSeen = [a \in Areas |-> 0] /\ refresh = None /\ refreshes = 0
  /\ page = NoPage /\ walk = NoWalk
  /\ recorded = <<>> /\ newest = [a \in Areas |-> 0]

Tick ==
  /\ now < MaxTime /\ (refresh # None => now < refresh + RefreshTime)
  /\ now' = now + 1
  /\ UNCHANGED <<ingest, recent, lastSeen, refresh, refreshes, page, walk,
                 recorded, newest>>

-----------------------------------------------------------------------------
(* The writers: on_ws_event, the commit, and the topology refresh. *)
(* Mutant: an event exactly one hour old is dropped. *)
PruneAtHour(log, t) ==
  LET kept == {i \in DOMAIN log : log[i] > t - HourLen}
  IN  SubSeq(log, Min(kept \cup {Len(log) + 1}), Len(log))

(* The "while" loop of record_event and snapshot: popleft() until the first  *)
(* entry is in the hour.                                                     *)
Prune(log, t) ==
  LET kept == {i \in DOMAIN log : log[i] >= t - HourLen}
  IN  SubSeq(log, Min(kept \cup {Len(log) + 1}), Len(log))

(* health.record_event *)
Record(ts) == /\ recent' = Prune(Append(recent, ts), ts)
              /\ recorded' = Append(recorded, ts)

(* submit() with the lock: a full batch is committed before it returns, and  *)
(* on_ws_event goes on to record_event without another suspension.           *)
AddToBuffer(row) ==
  /\ buffer' = Append(buffer, row)
  /\ IF Len(buffer') >= BatchSize
     THEN ws' = [at |-> "commit", row |-> row] /\ UNCHANGED <<recent, recorded>>
     ELSE ws' = Idle /\ Record(row.ts)

(* on_ws_event stamps an event; submit() waits while a commit holds the lock. *)
Receive(a) ==
  /\ ws = Idle /\ Len(recorded) < MaxEvents
  /\ IF commit = NoCommit
     THEN AddToBuffer([area |-> a, ts |-> now])
     ELSE /\ ws' = [at |-> "submit", row |-> [area |-> a, ts |-> now]]
          /\ UNCHANGED <<buffer, recent, recorded>>
  /\ UNCHANGED <<now, commit, rows, counters, lastSeen, refresh, refreshes, page, walk, newest>>

SubmitResumes ==
  /\ ws.at = "submit" /\ commit = NoCommit
  /\ AddToBuffer(ws.row)
  /\ UNCHANGED <<now, commit, rows, counters, lastSeen, refresh, refreshes, page, walk, newest>>

SubmitReturns ==
  /\ ws.at = "commit" /\ buffer = <<>>
  /\ ws' = Idle /\ Record(ws.row.ts)
  /\ UNCHANGED <<now, buffer, commit, rows, counters, lastSeen, refresh, refreshes, page,
                 walk, newest>>

(* _commit_locked, of a full batch or of the periodic flush. *)
InsertEvents ==
  /\ commit = NoCommit /\ buffer # <<>>
  /\ rows' = rows \o buffer
  /\ commit' = [keys |-> {KeyOf(buffer[i]) : i \in DOMAIN buffer},
                ents |-> {buffer[i].area : i \in DOMAIN buffer}]
  /\ UNCHANGED <<now, ws, recent, buffer, counters, lastSeen, refresh, refreshes,
                 page, walk, recorded, newest>>

IncrementCounter(k) ==
  /\ k \in commit.keys
  /\ counters' = [counters EXCEPT
       ![k] = @ + Cardinality({i \in DOMAIN buffer : KeyOf(buffer[i]) = k})]
  /\ commit' = [commit EXCEPT !.keys = @ \ {k}]
  /\ UNCHANGED <<now, ws, recent, buffer, rows, lastSeen, refresh, refreshes,
                 page, walk, recorded, newest>>

(* Mutant: setdefault() in place of the assignment to per_entity_last. *)
FirstOfBatch(a) == Min({buffer[i].ts : i \in {j \in DOMAIN buffer : buffer[j].area = a}})

(* per_entity_last: the last time stamp of the batch. *)
LastOfBatch(a) == buffer[Max({i \in DOMAIN buffer : buffer[i].area = a})].ts

BumpEntity(a) ==
  /\ commit.keys = {} /\ a \in commit.ents
  /\ lastSeen' = [lastSeen EXCEPT ![a] = LastOfBatch(a)]
  /\ newest' = [newest EXCEPT
       ![a] = Max({@} \cup {buffer[i].ts : i \in {j \in DOMAIN buffer : buffer[j].area = a}})]
  /\ commit' = [commit EXCEPT !.ents = @ \ {a}]
  /\ buffer' = IF commit.ents = {a} THEN <<>> ELSE buffer
  /\ UNCHANGED <<now, ws, recent, rows, counters, refresh, refreshes, page, walk,
                 recorded>>

(* apply(payload, ts_ms=now): upsert_entities comes several awaits later. *)
BeginRefresh ==
  /\ refresh = None /\ refreshes < MaxRefreshes
  /\ refresh' = now /\ refreshes' = refreshes + 1
  /\ UNCHANGED <<now, ingest, recent, lastSeen, page, walk, recorded, newest>>

UpsertEntities ==
  /\ refresh # None
  /\ lastSeen' = [a \in Areas |-> refresh]
  /\ refresh' = None
  /\ UNCHANGED <<now, ingest, recent, refreshes, page, walk, recorded, newest>>

-----------------------------------------------------------------------------
(* GET /api/health *)
Health ==
  /\ recent' = Prune(recent, now)          \* and events_per_hour is its length
  /\ UNCHANGED <<now, ingest, lastSeen, refresh, refreshes, page, walk, recorded, newest>>

(* GET / and /api/v1/areas: the areas, then the hour, then the counters. *)
OpenRooms ==
  /\ page.at = None /\ walk = NoWalk
  /\ page' = [NoPage EXCEPT !.at = now, !.counted = DOMAIN rows \ Uncounted]
  /\ UNCHANGED <<now, ingest, recent, lastSeen, refresh, refreshes, walk,
                 recorded, newest>>

(* Mutant: ">=" for ">" in the WHERE clause. *)
FromHourBefore(hour) == {k \in Keys : k[2] >= hour - DayHours}
GetCounters24h(hour) == {k \in Keys : k[2] > hour - DayHours}

PerArea(keys) ==
  [a \in Areas |-> SumFunctionOnSet(counters, {k \in keys : k[1] = a})]

QueryCounters ==
  /\ page.at # None /\ page.cutoff = None
  /\ page' = [page EXCEPT !.shown = PerArea(GetCounters24h(Bucket(page.at))),
                          !.cutoff = now - ActiveTime]
  /\ UNCHANGED <<now, ingest, recent, lastSeen, refresh, refreshes, walk,
                 recorded, newest>>

ReadEntities(a) ==
  /\ page.cutoff # None /\ page.active[a] = None
  /\ \A b \in Areas : b < a => page.active[b] # None        \* ORDER BY name
  /\ page' = [page EXCEPT !.active[a] = lastSeen[a] > page.cutoff]
  /\ UNCHANGED <<now, ingest, recent, lastSeen, refresh, refreshes, walk,
                 recorded, newest>>

RoomsShown ==
  /\ \A a \in Areas : page.active[a] # None
  /\ page' = NoPage
  /\ UNCHANGED <<now, ingest, recent, lastSeen, refresh, refreshes, walk,
                 recorded, newest>>

(* StoreDAO.list_events: the newest rows below the cursor. *)
ListEvents(a, cursor, limit) ==
  LET match == {i \in DOMAIN rows : rows[i].area = a /\ (cursor = None \/ i < cursor)}
  IN  {i \in match : Cardinality({j \in match : j > i}) < limit}

(* next_cursor: the time stamp of the last row of a full page. *)
NextCursor(ids) == IF Cardinality(ids) = Limit THEN Epoch + rows[Min(ids)].ts ELSE None

FirstPage(a) ==
  /\ walk = NoWalk /\ page.at = None
  /\ LET ids == ListEvents(a, None, Limit) IN
     walk' = [area |-> a, cursor |-> NextCursor(ids), pages |-> <<ids>>]
  /\ UNCHANGED <<now, ingest, recent, lastSeen, refresh, refreshes, page,
                 recorded, newest>>

FollowCursor ==
  /\ walk.cursor # None /\ Len(walk.pages) < MaxPages
  /\ LET ids == ListEvents(walk.area, walk.cursor, Limit) IN
     walk' = [walk EXCEPT !.cursor = NextCursor(ids), !.pages = Append(@, ids)]
  /\ UNCHANGED <<now, ingest, recent, lastSeen, refresh, refreshes, page,
                 recorded, newest>>

EndWalk ==
  /\ walk # NoWalk /\ walk' = NoWalk
  /\ UNCHANGED <<now, ingest, recent, lastSeen, refresh, refreshes, page, recorded, newest>>

-----------------------------------------------------------------------------
Ingest == \/ \E a \in Areas : Receive(a) \/ BumpEntity(a)
          \/ SubmitResumes \/ SubmitReturns \/ InsertEvents
          \/ \E k \in Keys : IncrementCounter(k)
Rooms == OpenRooms \/ QueryCounters \/ RoomsShown \/ \E a \in Areas : ReadEntities(a)
Paging == FollowCursor \/ EndWalk \/ \E a \in Areas : FirstPage(a)

Next == Tick \/ Ingest \/ BeginRefresh \/ UpsertEntities \/ Health \/ Rooms \/ Paging

Spec == Init /\ [][Next]_vars

-----------------------------------------------------------------------------
(* The number of a room for the last day (events_per_hour_24h of the rooms  *)
(* page): every row that was counted when the page took its hour and was    *)
(* then at most a day less an hour old is in it, and no row as old as a day, *)
(* wherever in their hours the two were, and whatever was written between   *)
(* taking the hour and reading the counters.                                *)
DayWindow ==
  [][QueryCounters =>
       \A a \in Areas :
         LET since(S, t) == Cardinality({i \in S : rows[i].area = a /\ rows[i].ts >= t}) IN
         /\ page'.shown[a] >= since(page.counted, page.at - (DayHours - 1) * HourLen)
         /\ page'.shown[a] <= since(DOMAIN rows, page.at - DayHours * HourLen + 1)]_vars

(* is_active of a room: an event written before its entities were read and  *)
(* stamped in the last ten minutes, less the time a refresh takes, makes the *)
(* room active.  The refresh comes in because upsert_entities writes the    *)
(* time it began over a later last_seen_at, and a batch may be older still.  *)
ActiveAfterEvent ==
  [][\A a \in Areas : ReadEntities(a) /\ newest[a] > page.cutoff + RefreshTime
                        => page'.active[a]]_vars

(* events_per_hour of /api/health is the number of events recorded in the   *)
(* last hour to the millisecond, though record_event prunes by the time of   *)
(* an event and snapshot by the time of the request.                        *)
EventsPerHourExact ==
  [][Health => Len(recent') = Cardinality({i \in DOMAIN recorded :
                                             recorded[i] >= now - HourLen})]_vars

(* "cursor is an event_id; return rows with event_id < cursor (older page)"  *)
(* (dao.py): following next_cursor leads to older events, and shows no event *)
(* twice.  The route puts a time stamp in it.                               *)
OlderPage ==
  \A m, n \in DOMAIN walk.pages : m < n => walk.pages[m] \cap walk.pages[n] = {}
=============================================================================
