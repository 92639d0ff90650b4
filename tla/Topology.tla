------------------------------ MODULE Topology ------------------------------
(***************************************************************************)
(* The topology refresh: TopologyFetcher, SnapshotStore,                    *)
(* TopologyOrchestrator and EntityIndex, driven by the two tasks of         *)
(* main._run that call them without any lock between them:                  *)
(*   "init"  initial_sync(), once per process;                              *)
(*   "ws"    on_ws_event(), once per *_registry_updated event received.     *)
(* Every request to Home Assistant and every DAO call is a step of its own, *)
(* so the two tasks interleave between them, Home Assistant may change      *)
(* between two of the three registry lists, and a call may fail or the      *)
(* process may be killed after any of them.                                 *)
(***************************************************************************)
EXTENDS Naturals, Sequences, FiniteSets, Functions

CONSTANTS Areas, Devices, Entities,
          None,         \* no area, or no device
          Registries,   \* the contents Home Assistant's registries may have
          Overlap,      \* whether they may change while initial_sync runs
          MaxChanges, MaxFaults, MaxDisconnects, MaxRestarts  \* bounds of the model

(* A payload: the three lists, a list being a function from ids to what the *)
(* service keeps of an item.  unkeyed: some device has no "device_id".      *)
Partial(S, T) == UNION {[D -> T] : D \in SUBSET S}
Payload == [areas : SUBSET Areas, devices : Partial(Devices, Areas \cup {None}),
            unkeyed : BOOLEAN,
            entities : Partial(Entities, [device : Devices \cup {None}, area : Areas \cup {None}])]
EmptyMap == [x \in {} |-> None]
EmptyPayload == [areas |-> {}, devices |-> EmptyMap, unkeyed |-> FALSE, entities |-> EmptyMap]

ASSUME TopologyAssumption ==
  /\ Registries \subseteq Payload /\ Registries # {}
  /\ None \notin Areas /\ None \notin Devices
  /\ Overlap \in BOOLEAN
  /\ {MaxChanges, MaxFaults, MaxDisconnects, MaxRestarts} \subseteq Nat

VARIABLES
  ha,           \* the registries, in Home Assistant
  changes,      \* how often they changed: the clock of the model
  subscribed,   \* the WebSocket is subscribed to *_registry_updated
  notices,      \* such events sent and not yet taken by the ws task
  missed,       \* a change was made that no event announces and no fetch saw
  pc, payload, sid,  \* each task's place and locals of apply()
  snapshots,    \* table topology_snapshots; snapshot_id is the position
  areaRows, deviceRows, entityRows,  \* tables areas, devices, entities
  index,        \* EntityIndex._map: what it was built from; sid 0 while empty
  health,       \* HealthMetrics: topology snapshot id and ws_connected
  faults, disconnects, restarts

world == <<ha, changes, subscribed, notices, missed>>
tables == <<snapshots, areaRows, deviceRows, entityRows>>
vars == <<world, pc, payload, sid, tables, index, health, faults, disconnects, restarts>>

Tasks == {"init", "ws"}
Fetching == {"areas", "devices", "entities"}
Applying == {"upsertAreas", "upsertDevices", "upsertEntities", "rebuild"}
Busy == Fetching \cup {"select", "insert"} \cup Applying
Ended(t) == IF t = "init" THEN "done" ELSE "idle"

(***************************************************************************)
(* The area of an entity: its own, else its device's if that is listed.     *)
(* _build (for the index) and _upsert_all (for the table) compute the same. *)
(***************************************************************************)
DeviceArea(p, d) == IF d \in DOMAIN p.devices THEN p.devices[d] ELSE None
AreaIn(p, e) == IF p.entities[e].area # None THEN p.entities[e].area
                ELSE DeviceArea(p, p.entities[e].device)

(* EntityIndex.lookup *)
Lookup(e) == IF e \in DOMAIN index.payload.entities
             THEN [sid |-> index.sid, area |-> AreaIn(index.payload, e)]
             ELSE [sid |-> 0, area |-> None]

Init ==
  /\ ha \in Registries /\ changes = 0 /\ subscribed = FALSE /\ notices = 0 /\ missed = FALSE
  /\ pc = [t \in Tasks |-> IF t = "init" THEN "areas" ELSE "idle"]
  /\ payload = [t \in Tasks |-> EmptyPayload] /\ sid = [t \in Tasks |-> 0]
  /\ snapshots = <<>> /\ areaRows = EmptyMap /\ deviceRows = EmptyMap /\ entityRows = EmptyMap
  /\ index = [sid |-> 0, payload |-> EmptyPayload]
  /\ health = [snapshot |-> 0, connected |-> FALSE]
  /\ faults = 0 /\ disconnects = 0 /\ restarts = 0

Goto(t, from, to) == pc[t] = from /\ pc' = [pc EXCEPT ![t] = to]

-----------------------------------------------------------------------------
(* on_ws_event takes a *_registry_updated event. *)
TakeNotice ==
  /\ notices > 0 /\ notices' = notices - 1
  /\ Goto("ws", "idle", "areas")
  /\ UNCHANGED <<ha, changes, subscribed, missed, payload, sid, tables, index, health,
                 faults, disconnects, restarts>>

(* fetch_once: three requests, each answered with the list as it is then. *)
FetchAreas(t) ==
  /\ Goto(t, "areas", "devices")
  /\ payload' = [payload EXCEPT ![t] = [EmptyPayload EXCEPT !.areas = ha.areas]]
  /\ missed' = FALSE
  /\ UNCHANGED <<ha, changes, subscribed, notices, sid, tables, index, health, faults,
                 disconnects, restarts>>

FetchDevices(t) ==
  /\ Goto(t, "devices", "entities")
  /\ payload' = [payload EXCEPT ![t].devices = ha.devices, ![t].unkeyed = ha.unkeyed]
  /\ UNCHANGED <<world, sid, tables, index, health, faults, disconnects, restarts>>

FetchEntities(t) ==
  /\ Goto(t, "entities", "select")
  /\ payload' = [payload EXCEPT ![t].entities = ha.entities]
  /\ UNCHANGED <<world, sid, tables, index, health, faults, disconnects, restarts>>

-----------------------------------------------------------------------------
(* insert_if_changed: a SELECT by hash over all snapshots, then an INSERT   *)
(* that the UNIQUE constraint refuses when another task was faster.         *)
Stored(p) == {s \in DOMAIN snapshots : snapshots[s] = p}

(* Mutant: apply() is left early when the snapshot is known, index untouched. *)
SkipKnown(t) ==
  /\ Goto(t, "select", IF Stored(payload[t]) # {} THEN Ended(t) ELSE "insert")
  /\ UNCHANGED <<world, payload, sid, tables, index, health, faults, disconnects, restarts>>

FindSnapshot(t) ==
  /\ pc[t] = "select"
  /\ IF Stored(payload[t]) # {}
     THEN /\ sid' = [sid EXCEPT ![t] = CHOOSE s \in Stored(payload[t]) : TRUE]
          /\ Goto(t, "select", "rebuild")
     ELSE Goto(t, "select", "insert") /\ UNCHANGED sid
  /\ UNCHANGED <<world, payload, tables, index, health, faults, disconnects, restarts>>

InsertSnapshot(t) ==
  /\ Stored(payload[t]) = {}
  /\ Goto(t, "insert", "upsertAreas")
  /\ snapshots' = Append(snapshots, payload[t])
  /\ sid' = [sid EXCEPT ![t] = Len(snapshots) + 1]
  /\ UNCHANGED <<world, payload, areaRows, deviceRows, entityRows, index, health, faults,
                 disconnects, restarts>>

InsertRefused(t) ==
  /\ Stored(payload[t]) # {}
  /\ Goto(t, "insert", Ended(t))
  /\ UNCHANGED <<world, payload, sid, tables, index, health, faults, disconnects, restarts>>

-----------------------------------------------------------------------------
(* _upsert_all.  INSERT ... ON CONFLICT DO UPDATE keeps first_seen_at only. *)
(* Mutant: INSERT OR REPLACE. *)
Replace(rows, new) == [k \in DOMAIN rows \cup DOMAIN new |->
                         IF k \in DOMAIN new THEN new[k] ELSE rows[k]]
(* Mutant: the snapshot id is not in the UPDATE. *)
UpsertKeepsSid(rows, new) ==
  [k \in DOMAIN rows \cup DOMAIN new |->
     IF k \notin DOMAIN new THEN rows[k]
     ELSE IF k \notin DOMAIN rows THEN new[k]
     ELSE [new[k] EXCEPT !.first = rows[k].first, !.sid = rows[k].sid]]
Upsert(rows, new) ==
  [k \in DOMAIN rows \cup DOMAIN new |->
     IF k \notin DOMAIN new THEN rows[k]
     ELSE IF k \notin DOMAIN rows THEN new[k]
     ELSE [new[k] EXCEPT !.first = rows[k].first]]

AreaRowsOf(p, s) == [a \in p.areas |-> [sid |-> s, area |-> a, first |-> changes]]
DeviceRowsOf(p, s) == [d \in DOMAIN p.devices |->
                         [sid |-> s, area |-> p.devices[d], first |-> changes]]
EntityRowsOf(p, s) == [e \in DOMAIN p.entities |->
                         [sid |-> s, area |-> AreaIn(p, e), first |-> changes]]

UpsertAreas(t) ==
  /\ Goto(t, "upsertAreas", "upsertDevices")
  /\ areaRows' = Upsert(areaRows, AreaRowsOf(payload[t], sid[t]))
  /\ UNCHANGED <<world, payload, sid, snapshots, deviceRows, entityRows, index, health,
                 faults, disconnects, restarts>>

(* The device_to_area of the next statement raises KeyError on an unkeyed device. *)
UpsertDevices(t) ==
  /\ Goto(t, "upsertDevices", IF payload[t].unkeyed THEN Ended(t) ELSE "upsertEntities")
  /\ deviceRows' = Upsert(deviceRows, DeviceRowsOf(payload[t], sid[t]))
  /\ UNCHANGED <<world, payload, sid, snapshots, areaRows, entityRows, index, health,
                 faults, disconnects, restarts>>

UpsertEntities(t) ==
  /\ Goto(t, "upsertEntities", "rebuild")
  /\ entityRows' = Upsert(entityRows, EntityRowsOf(payload[t], sid[t]))
  /\ UNCHANGED <<world, payload, sid, snapshots, areaRows, deviceRows, index, health,
                 faults, disconnects, restarts>>

(* Mutant: the index is stamped with the latest snapshot instead of its own. *)
RebuildWithLatest(t) ==
  /\ Goto(t, "rebuild", Ended(t))
  /\ index' = [sid |-> Len(snapshots), payload |-> payload[t]]
  /\ health' = [snapshot |-> sid[t], connected |-> health.connected \/ t = "init"]
  /\ UNCHANGED <<world, payload, sid, tables, faults, disconnects, restarts>>

(* rebuild_async, and what the caller of apply() does with its result. *)
RebuildIndex(t) ==
  /\ Goto(t, "rebuild", Ended(t))
  /\ index' = [sid |-> sid[t], payload |-> payload[t]]
  /\ health' = [snapshot |-> sid[t], connected |-> health.connected \/ t = "init"]
  /\ UNCHANGED <<world, payload, sid, tables, faults, disconnects, restarts>>

(* A request or a DAO call raises; both callers log it and give up. *)
SyncFails(t) ==
  /\ pc[t] \in Busy \ {"rebuild"} /\ faults < MaxFaults
  /\ faults' = faults + 1
  /\ pc' = [pc EXCEPT ![t] = Ended(t)]
  /\ UNCHANGED <<world, payload, sid, tables, index, health, disconnects, restarts>>

-----------------------------------------------------------------------------
(* Home Assistant and the WebSocket, as the code uses them; the process. *)
RegistryChanges(r) ==
  /\ changes < MaxChanges /\ r # ha
  /\ Overlap \/ pc["init"] = "done"
  /\ ha' = r /\ changes' = changes + 1
  /\ IF subscribed THEN notices' = notices + 1 /\ UNCHANGED missed
                   ELSE missed' = TRUE /\ UNCHANGED notices
  /\ UNCHANGED <<subscribed, pc, payload, sid, tables, index, health, faults, disconnects,
                 restarts>>

(* _connect_and_loop subscribes; nothing is fetched on a reconnect. *)
Subscribe ==
  /\ ~subscribed /\ pc["ws"] = "idle" /\ subscribed' = TRUE
  /\ UNCHANGED <<ha, changes, notices, missed, pc, payload, sid, tables, index, health,
                 faults, disconnects, restarts>>

Disconnect ==
  /\ subscribed /\ disconnects < MaxDisconnects
  /\ subscribed' = FALSE /\ disconnects' = disconnects + 1
  /\ notices' = 0 /\ missed' = (missed \/ notices > 0)
  /\ UNCHANGED <<ha, changes, pc, payload, sid, tables, index, health, faults, restarts>>

Restart ==
  /\ restarts < MaxRestarts /\ restarts' = restarts + 1
  /\ subscribed' = FALSE /\ notices' = 0 /\ missed' = FALSE
  /\ pc' = [t \in Tasks |-> IF t = "init" THEN "areas" ELSE "idle"]
  /\ payload' = [t \in Tasks |-> EmptyPayload] /\ sid' = [t \in Tasks |-> 0]
  /\ index' = [sid |-> 0, payload |-> EmptyPayload]
  /\ health' = [snapshot |-> 0, connected |-> FALSE]
  /\ UNCHANGED <<ha, changes, tables, faults, disconnects>>

Settled == pc["init"] = "done" /\ pc["ws"] = "idle" /\ notices = 0
Waiting == Settled /\ UNCHANGED vars

Step(t) == \/ FetchAreas(t) \/ FetchDevices(t) \/ FetchEntities(t)
           \/ FindSnapshot(t) \/ InsertSnapshot(t) \/ InsertRefused(t)
           \/ UpsertAreas(t) \/ UpsertDevices(t) \/ UpsertEntities(t) \/ RebuildIndex(t)

Next == \/ TakeNotice \/ (\E t \in Tasks : Step(t) \/ SyncFails(t))
        \/ (\E r \in Registries : RegistryChanges(r))
        \/ Subscribe \/ Disconnect \/ Restart \/ Waiting

Spec == Init /\ [][Next]_vars

(* Requests and DAO calls end; the event loop runs both tasks. *)
FairSpec == Spec /\ (\A t \in Tasks : WF_vars(Step(t))) /\ WF_vars(TakeNotice)

-----------------------------------------------------------------------------
(* A task between its insert and its rebuild holds the snapshot its id names. *)
TaskHoldsSnapshot ==
  \A t \in Tasks : pc[t] \in Applying =>
    sid[t] \in DOMAIN snapshots /\ snapshots[sid[t]] = payload[t]

(* What the index answers can be looked up again: the snapshot id it stamps *)
(* on events names a stored snapshot that gives the very same attribution,  *)
(* whichever task rebuilt it last and whatever failed in between.           *)
IndexFromSnapshot ==
  index.sid # 0 => /\ index.sid \in DOMAIN snapshots
                   /\ snapshots[index.sid] = index.payload

AreaRowsResolve ==
  \A a \in DOMAIN areaRows : LET s == areaRows[a].sid IN
    s \in DOMAIN snapshots /\ a \in snapshots[s].areas
DeviceRowsResolve ==
  \A d \in DOMAIN deviceRows : LET s == deviceRows[d].sid IN
    /\ s \in DOMAIN snapshots /\ d \in DOMAIN snapshots[s].devices
    /\ deviceRows[d].area = snapshots[s].devices[d]
EntityRowsResolve ==
  \A e \in DOMAIN entityRows : LET s == entityRows[e].sid IN
    /\ s \in DOMAIN snapshots /\ e \in DOMAIN snapshots[s].entities
    /\ entityRows[e].area = AreaIn(snapshots[s], e)

(* Every row of areas, devices and entities agrees with the snapshot it     *)
(* names, although two tasks write the tables one by one and may stop       *)
(* half way.                                                                *)
RowsResolvable == AreaRowsResolve /\ DeviceRowsResolve /\ EntityRowsResolve

(* No refresh rewrites history: snapshots are only appended, a row once     *)
(* there stays, and keeps the time it was first seen at.                    *)
Keeps(rows, new) == \A k \in DOMAIN rows : k \in DOMAIN new /\ new[k].first = rows[k].first
HistoryKept ==
  [][/\ SubSeq(snapshots', 1, Len(snapshots)) = snapshots
     /\ Keeps(areaRows, areaRows') /\ Keeps(deviceRows, deviceRows')
     /\ Keeps(entityRows, entityRows')]_vars

(* When all is quiet the index shows Home Assistant as it is: provided no   *)
(* call failed and no change went unannounced, in particular after the      *)
(* registries returned to contents they had before.                         *)
SettledIndexIsCurrent ==
  (Settled /\ ~missed /\ faults = 0) => index.sid # 0 /\ index.payload = ha

(* The index catches up with the last change of the registries, unless a    *)
(* call failed or that change went unannounced.                             *)
IndexConverges == <>[]((~missed /\ faults = 0) => index.sid # 0 /\ index.payload = ha)
=============================================================================
