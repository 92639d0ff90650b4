-------------------------- MODULE Topology_proofs --------------------------
(***************************************************************************)
(* Theorems about Topology, for every value of its constants.               *)
(***************************************************************************)
EXTENDS Topology, SequenceTheorems, TLAPS

(* The part of the types that the argument about snapshots needs. *)
Places == Busy \cup {"idle", "done"}
CoreOK ==
  /\ ha \in Registries
  /\ pc \in [Tasks -> Places]
  /\ payload \in [Tasks -> Payload] /\ sid \in [Tasks -> Nat]
  /\ snapshots \in Seq(Payload)

SnapInv == CoreOK /\ TaskHoldsSnapshot /\ IndexFromSnapshot /\ RowsResolvable

-----------------------------------------------------------------------------
LEMMA EmptyPayloadType == EmptyPayload \in Payload
<1>1. EmptyMap \in [{} -> Areas \cup {None}]
      /\ EmptyMap \in [{} -> [device : Devices \cup {None}, area : Areas \cup {None}]]
  BY DEF EmptyMap
<1>2. {} \in SUBSET Devices /\ {} \in SUBSET Entities
  OBVIOUS
<1>. QED BY <1>1, <1>2 DEF EmptyPayload, Payload, Partial

LEMMA RegistryType == ASSUME NEW r \in Registries PROVE r \in Payload
BY TopologyAssumption

LEMMA EndedPlace == ASSUME NEW t \in Tasks PROVE Ended(t) \in Places /\ Ended(t) \notin Applying
BY DEF Ended, Places, Applying

(* What a list of upserts makes of a table. *)
LEMMA UpsertRows ==
  ASSUME NEW rows, NEW new
  PROVE  /\ DOMAIN Upsert(rows, new) = DOMAIN rows \cup DOMAIN new
         /\ \A k \in DOMAIN rows \ DOMAIN new : Upsert(rows, new)[k] = rows[k]
BY DEF Upsert

(* An upserted row has the snapshot id and the area it was given. *)
LEMMA UpsertNew ==
  ASSUME NEW rows, NEW new, NEW k \in DOMAIN new,
         new[k] = [sid |-> new[k].sid, area |-> new[k].area, first |-> new[k].first]
  PROVE  /\ Upsert(rows, new)[k].sid = new[k].sid
         /\ Upsert(rows, new)[k].area = new[k].area
<1>1. CASE k \notin DOMAIN rows
  <2>1. Upsert(rows, new)[k] = new[k]
    BY <1>1 DEF Upsert
  <2>. QED BY <2>1
<1>2. CASE k \in DOMAIN rows
  <2>1. Upsert(rows, new)[k] = [new[k] EXCEPT !.first = rows[k].first]
    BY <1>2 DEF Upsert
  <2>. QED BY <2>1
<1>. QED BY <1>1, <1>2

-----------------------------------------------------------------------------
(* What depends on a snapshot survives every step that keeps the snapshots. *)
Grows == \A s \in DOMAIN snapshots : s \in DOMAIN snapshots' /\ snapshots'[s] = snapshots[s]

LEMMA IndexFrame ==
  ASSUME IndexFromSnapshot, Grows, UNCHANGED index
  PROVE  IndexFromSnapshot'
BY DEF IndexFromSnapshot, Grows

LEMMA AreaFrame ==
  ASSUME AreaRowsResolve, Grows, UNCHANGED areaRows
  PROVE  AreaRowsResolve'
BY DEF AreaRowsResolve, Grows

LEMMA DeviceFrame ==
  ASSUME DeviceRowsResolve, Grows, UNCHANGED deviceRows
  PROVE  DeviceRowsResolve'
BY DEF DeviceRowsResolve, Grows

LEMMA EntityFrame ==
  ASSUME EntityRowsResolve, Grows, UNCHANGED entityRows
  PROVE  EntityRowsResolve'
BY DEF EntityRowsResolve, Grows, AreaIn, DeviceArea

LEMMA TaskFrame ==
  ASSUME TaskHoldsSnapshot, Grows,
         \A t \in Tasks : pc'[t] \in Applying =>
           pc[t] \in Applying /\ sid'[t] = sid[t] /\ payload'[t] = payload[t]
  PROVE  TaskHoldsSnapshot'
BY DEF TaskHoldsSnapshot, Grows

(* A step that touches none of the tables nor the index. *)
LEMMA QuietStep ==
  ASSUME SnapInv, CoreOK', UNCHANGED <<tables, index>>,
         \A t \in Tasks : pc'[t] \in Applying =>
           pc[t] \in Applying /\ sid'[t] = sid[t] /\ payload'[t] = payload[t]
  PROVE  SnapInv'
<1>1. Grows
  BY DEF tables, Grows
<1>2. UNCHANGED areaRows /\ UNCHANGED deviceRows /\ UNCHANGED entityRows /\ UNCHANGED index
  BY DEF tables
<1>. QED
  BY <1>1, <1>2, IndexFrame, AreaFrame, DeviceFrame, EntityFrame, TaskFrame
     DEF SnapInv, RowsResolvable

-----------------------------------------------------------------------------
(* The steps of a task keep the core types. *)
LEMMA GotoPlace ==
  ASSUME CoreOK, NEW t \in Tasks, NEW from, NEW to \in Places, Goto(t, from, to)
  PROVE  pc' \in [Tasks -> Places]
BY DEF CoreOK, Goto

LEMMA StepCore ==
  ASSUME CoreOK, NEW t \in Tasks, Step(t)
  PROVE  CoreOK'
<1> USE DEF world, tables
<1>0. Busy \subseteq Places /\ Ended(t) \in Places
  BY EndedPlace DEF Places
<1>1. CASE FetchAreas(t)
  <2>1. ha.areas \in SUBSET Areas
    BY RegistryType DEF CoreOK, Payload
  <2>2. [EmptyPayload EXCEPT !.areas = ha.areas] \in Payload
    BY <2>1, EmptyPayloadType DEF Payload
  <2>3. payload' \in [Tasks -> Payload]
    BY <1>1, <2>2 DEF FetchAreas, CoreOK
  <2>4. pc' \in [Tasks -> Places]
    BY <1>1, GotoPlace DEF FetchAreas, Places, Busy, Fetching
  <2>. QED BY <1>1, <2>3, <2>4 DEF FetchAreas, CoreOK
<1>2. CASE FetchDevices(t)
  <2>1. ha \in Payload /\ payload[t] \in Payload
    BY RegistryType DEF CoreOK
  <2>2. [payload[t] EXCEPT !.devices = ha.devices, !.unkeyed = ha.unkeyed] \in Payload
    BY <2>1 DEF Payload
  <2>3. payload' = [payload EXCEPT ![t] =
                      [payload[t] EXCEPT !.devices = ha.devices, !.unkeyed = ha.unkeyed]]
    BY <1>2 DEF FetchDevices, CoreOK
  <2>4. payload' \in [Tasks -> Payload]
    BY <2>2, <2>3 DEF CoreOK
  <2>5. pc' \in [Tasks -> Places]
    BY <1>2, GotoPlace DEF FetchDevices, Places, Busy, Fetching
  <2>. QED BY <1>2, <2>4, <2>5 DEF FetchDevices, CoreOK
<1>3. CASE FetchEntities(t)
  <2>1. ha \in Payload /\ payload[t] \in Payload
    BY RegistryType DEF CoreOK
  <2>2. [payload[t] EXCEPT !.entities = ha.entities] \in Payload
    BY <2>1 DEF Payload
  <2>3. payload' \in [Tasks -> Payload]
    BY <1>3, <2>2 DEF FetchEntities, CoreOK
  <2>4. pc' \in [Tasks -> Places]
    BY <1>3, GotoPlace DEF FetchEntities, Places, Busy
  <2>. QED BY <1>3, <2>3, <2>4 DEF FetchEntities, CoreOK
<1>4. CASE FindSnapshot(t)
  <2>1. pc' \in [Tasks -> Places]
    BY <1>4, GotoPlace DEF FindSnapshot, Places, Busy, Applying
  <2>2. sid' \in [Tasks -> Nat]
    <3>1. CASE Stored(payload[t]) = {}
      BY <1>4, <3>1 DEF FindSnapshot, CoreOK
    <3>2. CASE Stored(payload[t]) # {}
      <4>1. (CHOOSE s \in Stored(payload[t]) : TRUE) \in Stored(payload[t])
        BY <3>2
      <4>2. Stored(payload[t]) \subseteq Nat
        BY DEF Stored, CoreOK
      <4>. QED BY <1>4, <3>2, <4>1, <4>2 DEF FindSnapshot, CoreOK
    <3>. QED BY <3>1, <3>2
  <2>. QED BY <1>4, <2>1, <2>2 DEF FindSnapshot, CoreOK
<1>5. CASE InsertSnapshot(t)
  <2>1. pc' \in [Tasks -> Places]
    BY <1>5, GotoPlace DEF InsertSnapshot, Places, Busy, Applying
  <2>2. sid' \in [Tasks -> Nat] /\ snapshots' \in Seq(Payload)
    BY <1>5 DEF InsertSnapshot, CoreOK
  <2>. QED BY <1>5, <2>1, <2>2 DEF InsertSnapshot, CoreOK
<1>6. CASE InsertRefused(t)
  BY <1>0, <1>6, GotoPlace DEF InsertRefused, CoreOK
<1>7. CASE UpsertAreas(t) \/ UpsertEntities(t)
  <2>1. pc' \in [Tasks -> Places]
    BY <1>7, GotoPlace DEF UpsertAreas, UpsertEntities, Places, Busy, Applying
  <2>. QED BY <1>7, <2>1 DEF UpsertAreas, UpsertEntities, CoreOK
<1>8. CASE UpsertDevices(t)
  <2>1. pc' \in [Tasks -> Places]
    <3>1. (IF payload[t].unkeyed THEN Ended(t) ELSE "upsertEntities") \in Places
      BY <1>0 DEF Places, Busy, Applying
    <3>. QED BY <1>8, <3>1, GotoPlace DEF UpsertDevices
  <2>. QED BY <1>8, <2>1 DEF UpsertDevices, CoreOK
<1>9. CASE RebuildIndex(t)
  BY <1>0, <1>9, GotoPlace DEF RebuildIndex, CoreOK
<1>. QED BY <1>1, <1>2, <1>3, <1>4, <1>5, <1>6, <1>7, <1>8, <1>9 DEF Step

-----------------------------------------------------------------------------
(* A step that moves t and leaves the other task alone. *)
LEMMA OtherTask ==
  ASSUME CoreOK, NEW t \in Tasks, NEW u \in Tasks, u # t, NEW from, NEW to, Goto(t, from, to)
  PROVE  pc'[u] = pc[u]
BY DEF CoreOK, Goto

LEMMA MovedTask ==
  ASSUME CoreOK, NEW t \in Tasks, NEW from, NEW to, Goto(t, from, to)
  PROVE  pc[t] = from /\ pc'[t] = to
BY DEF CoreOK, Goto

(* The steps of a task keep the invariant. *)
LEMMA StepInv ==
  ASSUME SnapInv, NEW t \in Tasks, Step(t)
  PROVE  SnapInv'
<1> USE DEF world
<1>0. CoreOK /\ CoreOK'
  BY StepCore DEF SnapInv
<1>1. CASE FetchAreas(t) \/ FetchDevices(t) \/ FetchEntities(t)
  <2>1. /\ UNCHANGED <<tables, index, sid>>
        /\ \E from, to : Goto(t, from, to) /\ to \notin Applying
        /\ \A u \in Tasks : u # t => payload'[u] = payload[u]
    <3>1. \E from, to : Goto(t, from, to) /\ to \notin Applying
      BY <1>1 DEF FetchAreas, FetchDevices, FetchEntities, Applying
    <3>2. UNCHANGED <<tables, index, sid>>
      BY <1>1 DEF FetchAreas, FetchDevices, FetchEntities
    <3>3. \A u \in Tasks : u # t => payload'[u] = payload[u]
      BY <1>0, <1>1 DEF FetchAreas, FetchDevices, FetchEntities, CoreOK
    <3>. QED BY <3>1, <3>2, <3>3
  <2>. QED BY <1>0, <2>1, OtherTask, MovedTask, QuietStep
<1>2. CASE FindSnapshot(t)
  <2>1. UNCHANGED <<tables, index, payload>> /\ Grows
    BY <1>2 DEF FindSnapshot, tables, Grows
  <2>2. TaskHoldsSnapshot'
    <3>1. ASSUME NEW u \in Tasks, u # t, pc'[u] \in Applying
          PROVE  sid'[u] \in DOMAIN snapshots' /\ snapshots'[sid'[u]] = payload'[u]
      <4>1. pc'[u] = pc[u] /\ sid'[u] = sid[u]
        BY <1>0, <1>2, <3>1, OtherTask DEF FindSnapshot, CoreOK
      <4>. QED BY <2>1, <3>1, <4>1 DEF SnapInv, TaskHoldsSnapshot, tables
    <3>2. ASSUME pc'[t] \in Applying
          PROVE  sid'[t] \in DOMAIN snapshots' /\ snapshots'[sid'[t]] = payload'[t]
      <4>1. Stored(payload[t]) # {}
        BY <1>0, <1>2, <3>2, MovedTask DEF FindSnapshot, Applying
      <4>2. sid'[t] \in Stored(payload[t])
        BY <1>0, <1>2, <4>1 DEF FindSnapshot, CoreOK
      <4>. QED BY <2>1, <4>2 DEF Stored, tables
    <3>. QED BY <3>1, <3>2 DEF TaskHoldsSnapshot
  <2>3. IndexFromSnapshot' /\ RowsResolvable'
    BY <2>1, IndexFrame, AreaFrame, DeviceFrame, EntityFrame DEF tables, SnapInv, RowsResolvable
  <2>. QED BY <1>0, <2>2, <2>3 DEF SnapInv
<1>3. CASE InsertSnapshot(t)
  <2>1. /\ snapshots \in Seq(Payload) /\ snapshots' = Append(snapshots, payload[t])
        /\ payload[t] \in Payload /\ UNCHANGED <<payload, areaRows, deviceRows, entityRows, index>>
        /\ sid' = [sid EXCEPT ![t] = Len(snapshots) + 1]
    BY <1>0, <1>3 DEF InsertSnapshot, CoreOK
  <2>2. Grows
    BY <2>1 DEF Grows
  <2>3. sid'[t] \in DOMAIN snapshots' /\ snapshots'[sid'[t]] = payload'[t]
    <3>1. sid'[t] = Len(snapshots) + 1
      BY <1>0, <2>1 DEF CoreOK
    <3>. QED BY <2>1, <3>1
  <2>4. TaskHoldsSnapshot'
    <3>1. ASSUME NEW u \in Tasks, u # t, pc'[u] \in Applying
          PROVE  sid'[u] \in DOMAIN snapshots' /\ snapshots'[sid'[u]] = payload'[u]
      <4>1. pc'[u] = pc[u] /\ sid'[u] = sid[u]
        BY <1>0, <1>3, <3>1, OtherTask DEF InsertSnapshot, CoreOK
      <4>. QED BY <2>1, <2>2, <3>1, <4>1 DEF SnapInv, TaskHoldsSnapshot, Grows
    <3>. QED BY <2>3, <3>1 DEF TaskHoldsSnapshot
  <2>5. IndexFromSnapshot' /\ RowsResolvable'
    BY <2>1, <2>2, IndexFrame, AreaFrame, DeviceFrame, EntityFrame DEF SnapInv, RowsResolvable
  <2>. QED BY <1>0, <2>4, <2>5 DEF SnapInv
<1>4. CASE InsertRefused(t)
  <2>1. UNCHANGED <<tables, index, payload, sid>> /\ Goto(t, "insert", Ended(t))
    BY <1>4 DEF InsertRefused
  <2>. QED BY <1>0, <2>1, OtherTask, MovedTask, EndedPlace, QuietStep
<1>u. ASSUME UNCHANGED <<snapshots, payload, sid, index>>,
             NEW from \in Applying, NEW to, Goto(t, from, to)
      PROVE  /\ Grows /\ TaskHoldsSnapshot' /\ IndexFromSnapshot'
             /\ sid[t] \in DOMAIN snapshots /\ snapshots[sid[t]] = payload[t]
  <2>1. Grows
    BY <1>u DEF Grows
  <2>2. \A u \in Tasks : pc'[u] \in Applying => pc[u] \in Applying
    BY <1>0, <1>u, OtherTask, MovedTask
  <2>3. TaskHoldsSnapshot'
    BY <1>u, <2>1, <2>2, TaskFrame DEF SnapInv
  <2>4. IndexFromSnapshot'
    BY <1>u, <2>1, IndexFrame DEF SnapInv
  <2>5. sid[t] \in DOMAIN snapshots /\ snapshots[sid[t]] = payload[t]
    BY <1>0, <1>u, MovedTask DEF SnapInv, TaskHoldsSnapshot
  <2>. QED BY <2>1, <2>3, <2>4, <2>5
<1>5. CASE UpsertAreas(t)
  <2>1. /\ UNCHANGED <<snapshots, payload, sid, index>> /\ UNCHANGED deviceRows /\ UNCHANGED entityRows
        /\ Goto(t, "upsertAreas", "upsertDevices") /\ "upsertAreas" \in Applying
        /\ areaRows' = Upsert(areaRows, AreaRowsOf(payload[t], sid[t]))
    BY <1>5 DEF UpsertAreas, Applying
  <2>2. /\ Grows /\ TaskHoldsSnapshot' /\ IndexFromSnapshot'
        /\ sid[t] \in DOMAIN snapshots /\ snapshots[sid[t]] = payload[t]
    BY <1>u, <2>1
  <2>3. AreaRowsResolve'
    <3> DEFINE new == AreaRowsOf(payload[t], sid[t])
    <3>1. DOMAIN new = payload[t].areas
      BY DEF AreaRowsOf
    <3> HIDE DEF new
    <3>2. /\ DOMAIN areaRows' = DOMAIN areaRows \cup DOMAIN new
          /\ \A k \in DOMAIN areaRows \ DOMAIN new : areaRows'[k] = areaRows[k]
      BY <2>1, UpsertRows DEF new
    <3>3. ASSUME NEW k \in DOMAIN new
          PROVE  areaRows'[k].sid = sid[t] /\ areaRows'[k].area = k
      <4>1. areaRows' = Upsert(areaRows, new)
        BY <2>1 DEF new
      <4>2. new[k].sid = sid[t] /\ new[k].area = k
        BY DEF new, AreaRowsOf
      <4>3. new[k] = [sid |-> new[k].sid, area |-> new[k].area, first |-> new[k].first]
        BY DEF new, AreaRowsOf
      <4>. QED BY <4>1, <4>2, <4>3, UpsertNew
    <3>. QED BY <2>1, <2>2, <3>1, <3>2, <3>3 DEF SnapInv, RowsResolvable, AreaRowsResolve
  <2>. QED BY <1>0, <2>1, <2>2, <2>3, DeviceFrame, EntityFrame DEF SnapInv, RowsResolvable
<1>6. CASE UpsertDevices(t)
  <2>1. /\ UNCHANGED <<snapshots, payload, sid, index>> /\ UNCHANGED areaRows /\ UNCHANGED entityRows
        /\ \E to : Goto(t, "upsertDevices", to)
        /\ "upsertDevices" \in Applying
        /\ deviceRows' = Upsert(deviceRows, DeviceRowsOf(payload[t], sid[t]))
    BY <1>6 DEF UpsertDevices, Applying
  <2>2. /\ Grows /\ TaskHoldsSnapshot' /\ IndexFromSnapshot'
        /\ sid[t] \in DOMAIN snapshots /\ snapshots[sid[t]] = payload[t]
    BY <1>u, <2>1
  <2>3. DeviceRowsResolve'
    <3> DEFINE new == DeviceRowsOf(payload[t], sid[t])
    <3>1. DOMAIN new = DOMAIN payload[t].devices
      BY DEF DeviceRowsOf
    <3> HIDE DEF new
    <3>2. /\ DOMAIN deviceRows' = DOMAIN deviceRows \cup DOMAIN new
          /\ \A k \in DOMAIN deviceRows \ DOMAIN new : deviceRows'[k] = deviceRows[k]
      BY <2>1, UpsertRows DEF new
    <3>3. ASSUME NEW k \in DOMAIN new
          PROVE  deviceRows'[k].sid = sid[t] /\ deviceRows'[k].area = payload[t].devices[k]
      <4>1. deviceRows' = Upsert(deviceRows, new)
        BY <2>1 DEF new
      <4>2. new[k].sid = sid[t] /\ new[k].area = payload[t].devices[k]
        BY DEF new, DeviceRowsOf
      <4>3. new[k] = [sid |-> new[k].sid, area |-> new[k].area, first |-> new[k].first]
        BY DEF new, DeviceRowsOf
      <4>. QED BY <4>1, <4>2, <4>3, UpsertNew
    <3>. QED BY <2>1, <2>2, <3>1, <3>2, <3>3 DEF SnapInv, RowsResolvable, DeviceRowsResolve
  <2>. QED BY <1>0, <2>1, <2>2, <2>3, AreaFrame, EntityFrame DEF SnapInv, RowsResolvable
<1>7. CASE UpsertEntities(t)
  <2>1. /\ UNCHANGED <<snapshots, payload, sid, index>> /\ UNCHANGED areaRows /\ UNCHANGED deviceRows
        /\ Goto(t, "upsertEntities", "rebuild") /\ "upsertEntities" \in Applying
        /\ entityRows' = Upsert(entityRows, EntityRowsOf(payload[t], sid[t]))
    BY <1>7 DEF UpsertEntities, Applying
  <2>2. /\ Grows /\ TaskHoldsSnapshot' /\ IndexFromSnapshot'
        /\ sid[t] \in DOMAIN snapshots /\ snapshots[sid[t]] = payload[t]
    BY <1>u, <2>1
  <2>3. EntityRowsResolve'
    <3> DEFINE new == EntityRowsOf(payload[t], sid[t])
    <3>1. DOMAIN new = DOMAIN payload[t].entities
      BY DEF EntityRowsOf
    <3> HIDE DEF new
    <3>2. /\ DOMAIN entityRows' = DOMAIN entityRows \cup DOMAIN new
          /\ \A k \in DOMAIN entityRows \ DOMAIN new : entityRows'[k] = entityRows[k]
      BY <2>1, UpsertRows DEF new
    <3>3. ASSUME NEW k \in DOMAIN new
          PROVE  entityRows'[k].sid = sid[t] /\ entityRows'[k].area = AreaIn(payload[t], k)
      <4>1. entityRows' = Upsert(entityRows, new)
        BY <2>1 DEF new
      <4>2. new[k].sid = sid[t] /\ new[k].area = AreaIn(payload[t], k)
        BY DEF new, EntityRowsOf
      <4>3. new[k] = [sid |-> new[k].sid, area |-> new[k].area, first |-> new[k].first]
        BY DEF new, EntityRowsOf
      <4>. QED BY <4>1, <4>2, <4>3, UpsertNew
    <3>4. ASSUME NEW k \in DOMAIN entityRows'
          PROVE  /\ entityRows'[k].sid \in DOMAIN snapshots
                 /\ k \in DOMAIN snapshots[entityRows'[k].sid].entities
                 /\ entityRows'[k].area = AreaIn(snapshots[entityRows'[k].sid], k)
      <4>1. CASE k \in DOMAIN new
        BY <2>2, <3>1, <3>3, <4>1
      <4>2. CASE k \notin DOMAIN new
        BY <3>2, <4>2 DEF SnapInv, RowsResolvable, EntityRowsResolve
      <4>. QED BY <4>1, <4>2
    <3>5. snapshots' = snapshots
      BY <2>1
    <3>. QED BY <3>4, <3>5 DEF EntityRowsResolve, AreaIn, DeviceArea
  <2>. QED BY <1>0, <2>1, <2>2, <2>3, AreaFrame, DeviceFrame DEF SnapInv, RowsResolvable
<1>8. CASE RebuildIndex(t)
  <2>1. /\ UNCHANGED <<tables, payload, sid>> /\ Goto(t, "rebuild", Ended(t))
        /\ index' = [sid |-> sid[t], payload |-> payload[t]] /\ Grows
    BY <1>8 DEF RebuildIndex, tables, Grows
  <2>2. sid[t] \in DOMAIN snapshots /\ snapshots[sid[t]] = payload[t]
    BY <1>0, <2>1, MovedTask DEF SnapInv, TaskHoldsSnapshot, Applying
  <2>3. IndexFromSnapshot'
    BY <2>1, <2>2 DEF IndexFromSnapshot, tables
  <2>4. \A u \in Tasks : pc'[u] \in Applying => pc[u] \in Applying
    BY <1>0, <2>1, OtherTask, MovedTask, EndedPlace
  <2>5. TaskHoldsSnapshot'
    BY <2>1, <2>4, TaskFrame DEF SnapInv
  <2>. QED BY <1>0, <2>1, <2>3, <2>5, AreaFrame, DeviceFrame, EntityFrame
           DEF SnapInv, RowsResolvable, tables
<1>. QED BY <1>1, <1>2, <1>3, <1>4, <1>5, <1>6, <1>7, <1>8 DEF Step

-----------------------------------------------------------------------------
(* The other steps touch neither the tables nor what a task writes from. *)
LEMMA OtherInv ==
  ASSUME SnapInv,
         \/ TakeNotice \/ (\E t \in Tasks : SyncFails(t))
         \/ (\E r \in Registries : RegistryChanges(r))
         \/ Subscribe \/ Disconnect \/ Restart \/ UNCHANGED vars
  PROVE  SnapInv'
<1>1. CASE TakeNotice
  <2>1. /\ UNCHANGED <<tables, index, payload, sid, ha>>
        /\ Goto("ws", "idle", "areas") /\ "areas" \in Places /\ "areas" \notin Applying
        /\ "ws" \in Tasks
    BY <1>1 DEF TakeNotice, Places, Busy, Fetching, Applying, Tasks
  <2>2. CoreOK'
    BY <2>1, GotoPlace DEF SnapInv, CoreOK, tables
  <2>. QED BY <2>1, <2>2, OtherTask, MovedTask, QuietStep DEF SnapInv
<1>2. ASSUME NEW t \in Tasks, SyncFails(t) PROVE SnapInv'
  <2>1. /\ UNCHANGED <<tables, index, payload, sid, ha>> /\ pc' = [pc EXCEPT ![t] = Ended(t)]
    BY <1>2 DEF SyncFails, world
  <2>2. CoreOK'
    BY <2>1, EndedPlace DEF SnapInv, CoreOK, tables
  <2>3. \A u \in Tasks : pc'[u] \in Applying => pc[u] \in Applying
    BY <2>1, EndedPlace DEF SnapInv, CoreOK
  <2>. QED BY <2>1, <2>2, <2>3, QuietStep
<1>3. ASSUME NEW r \in Registries, RegistryChanges(r) PROVE SnapInv'
  <2>1. UNCHANGED <<tables, index, pc, payload, sid>> /\ ha' \in Registries
    BY <1>3 DEF RegistryChanges
  <2>2. CoreOK'
    BY <2>1 DEF SnapInv, CoreOK, tables
  <2>. QED BY <2>1, <2>2, QuietStep
<1>4. CASE Subscribe \/ Disconnect \/ UNCHANGED vars
  <2>1. UNCHANGED <<tables, index, pc, payload, sid, ha>>
    BY <1>4 DEF Subscribe, Disconnect, vars, world
  <2>2. CoreOK'
    BY <2>1 DEF SnapInv, CoreOK, tables
  <2>. QED BY <2>1, <2>2, QuietStep
<1>5. CASE Restart
  <2>1. /\ UNCHANGED <<tables, ha>> /\ UNCHANGED snapshots /\ UNCHANGED areaRows
        /\ UNCHANGED deviceRows /\ UNCHANGED entityRows
        /\ pc' = [u \in Tasks |-> IF u = "init" THEN "areas" ELSE "idle"]
        /\ payload' = [u \in Tasks |-> EmptyPayload] /\ sid' = [u \in Tasks |-> 0]
        /\ index' = [sid |-> 0, payload |-> EmptyPayload]
    BY <1>5 DEF Restart, tables
  <2>2. CoreOK'
    BY <2>1, EmptyPayloadType DEF SnapInv, CoreOK, Places, Busy, Fetching
  <2>3. TaskHoldsSnapshot'
    BY <2>1 DEF TaskHoldsSnapshot, Applying
  <2>4. IndexFromSnapshot'
    BY <2>1 DEF IndexFromSnapshot
  <2>5. Grows
    BY <2>1 DEF Grows
  <2>. QED BY <2>1, <2>2, <2>3, <2>4, <2>5, AreaFrame, DeviceFrame, EntityFrame
           DEF SnapInv, RowsResolvable
<1>. QED BY <1>1, <1>2, <1>3, <1>4, <1>5

-----------------------------------------------------------------------------
LEMMA InitInv == Init => SnapInv
<1> SUFFICES ASSUME Init PROVE SnapInv
  OBVIOUS
<1>1. CoreOK
  BY EmptyPayloadType DEF Init, CoreOK, Places, Busy, Fetching
<1>2. TaskHoldsSnapshot
  BY DEF Init, TaskHoldsSnapshot, Applying
<1>3. IndexFromSnapshot
  BY DEF Init, IndexFromSnapshot
<1>4. RowsResolvable
  BY DEF Init, EmptyMap, RowsResolvable, AreaRowsResolve, DeviceRowsResolve, EntityRowsResolve
<1>. QED BY <1>1, <1>2, <1>3, <1>4 DEF SnapInv

LEMMA Inductive == SnapInv /\ [Next]_vars => SnapInv'
BY StepInv, OtherInv DEF Next, Waiting

LEMMA AlwaysSnapInv == Spec => []SnapInv
BY InitInv, Inductive, PTL DEF Spec

(* Between insert_if_changed and the rebuild, a task's snapshot id names a  *)
(* stored snapshot whose contents are exactly the payload it fetched, also  *)
(* when the other task inserts in between.                                  *)
THEOREM TaskHoldsSnapshotCorrect == Spec => []TaskHoldsSnapshot
BY AlwaysSnapInv, PTL DEF SnapInv

(* EntityIndex never shows a mixture: what it holds is what the snapshot it *)
(* stamps events with holds, for any registries and any interleaving of     *)
(* initial_sync and on_ws_event.                                            *)
THEOREM IndexFromSnapshotCorrect == Spec => []IndexFromSnapshot
BY AlwaysSnapInv, PTL DEF SnapInv

(* Every row _upsert_all writes agrees with the snapshot it names, whatever *)
(* fails half way and whichever task wrote last.                            *)
THEOREM RowsResolvableCorrect == Spec => []RowsResolvable
BY AlwaysSnapInv, PTL DEF SnapInv

-----------------------------------------------------------------------------
(* An upsert drops no row and keeps when each was first seen. *)
LEMMA UpsertKeeps ==
  ASSUME NEW rows, NEW new,
         \A k \in DOMAIN new :
           new[k] = [sid |-> new[k].sid, area |-> new[k].area, first |-> new[k].first]
  PROVE  Keeps(rows, Upsert(rows, new))
<1> SUFFICES ASSUME NEW k \in DOMAIN rows
             PROVE  k \in DOMAIN Upsert(rows, new) /\ Upsert(rows, new)[k].first = rows[k].first
  BY DEF Keeps
<1>1. k \in DOMAIN Upsert(rows, new)
  BY UpsertRows
<1>2. CASE k \notin DOMAIN new
  BY <1>1, <1>2, UpsertRows
<1>3. CASE k \in DOMAIN new
  <2>1. Upsert(rows, new)[k] = [new[k] EXCEPT !.first = rows[k].first]
    BY <1>3 DEF Upsert
  <2>. QED BY <1>1, <1>3, <2>1
<1>. QED BY <1>2, <1>3

LEMMA KeepsSame == ASSUME NEW rows PROVE Keeps(rows, rows)
BY DEF Keeps

(* What a step does to the tables. *)
LEMMA TableSteps ==
  ASSUME [Next]_vars
  PROVE  /\ snapshots' = snapshots \/ \E t \in Tasks : snapshots' = Append(snapshots, payload[t])
         /\ areaRows' = areaRows
            \/ \E t \in Tasks : areaRows' = Upsert(areaRows, AreaRowsOf(payload[t], sid[t]))
         /\ deviceRows' = deviceRows
            \/ \E t \in Tasks : deviceRows' = Upsert(deviceRows, DeviceRowsOf(payload[t], sid[t]))
         /\ entityRows' = entityRows
            \/ \E t \in Tasks : entityRows' = Upsert(entityRows, EntityRowsOf(payload[t], sid[t]))
<1> USE DEF tables
<1>1. ASSUME NEW t \in Tasks, FetchAreas(t) \/ FetchDevices(t) \/ FetchEntities(t) \/ FindSnapshot(t)
                              \/ InsertRefused(t) \/ RebuildIndex(t) \/ SyncFails(t)
      PROVE  UNCHANGED <<snapshots, areaRows, deviceRows, entityRows>>
  BY <1>1 DEF FetchAreas, FetchDevices, FetchEntities, FindSnapshot, InsertRefused, RebuildIndex, SyncFails
<1>2. ASSUME NEW t \in Tasks, InsertSnapshot(t)
      PROVE  /\ snapshots' = Append(snapshots, payload[t])
             /\ UNCHANGED <<areaRows, deviceRows, entityRows>>
  BY <1>2 DEF InsertSnapshot
<1>3. ASSUME NEW t \in Tasks, UpsertAreas(t)
      PROVE  /\ areaRows' = Upsert(areaRows, AreaRowsOf(payload[t], sid[t]))
             /\ UNCHANGED <<snapshots, deviceRows, entityRows>>
  BY <1>3 DEF UpsertAreas
<1>4. ASSUME NEW t \in Tasks, UpsertDevices(t)
      PROVE  /\ deviceRows' = Upsert(deviceRows, DeviceRowsOf(payload[t], sid[t]))
             /\ UNCHANGED <<snapshots, areaRows, entityRows>>
  BY <1>4 DEF UpsertDevices
<1>5. ASSUME NEW t \in Tasks, UpsertEntities(t)
      PROVE  /\ entityRows' = Upsert(entityRows, EntityRowsOf(payload[t], sid[t]))
             /\ UNCHANGED <<snapshots, areaRows, deviceRows>>
  BY <1>5 DEF UpsertEntities
<1>6. CASE TakeNotice \/ Subscribe \/ Disconnect \/ Restart \/ Waiting \/ UNCHANGED vars
           \/ \E r \in Registries : RegistryChanges(r)
  BY <1>6 DEF TakeNotice, Subscribe, Disconnect, Restart, Waiting, RegistryChanges, vars
<1>7. CASE \E t \in Tasks : Step(t) \/ SyncFails(t)
  <2>1. PICK t \in Tasks : Step(t) \/ SyncFails(t)
    BY <1>7
  <2>. QED BY <1>1, <1>2, <1>3, <1>4, <1>5, <2>1 DEF Step
<1>. QED BY <1>6, <1>7 DEF Next

(* No refresh, restart or failure rewrites what insert_if_changed and        *)
(* _upsert_all stored: snapshots are only appended, rows stay and keep the   *)
(* time they were first seen at.                                             *)
THEOREM HistoryKeptCorrect == Spec => HistoryKept
<1>1. SnapInv /\ [Next]_vars =>
        [/\ SubSeq(snapshots', 1, Len(snapshots)) = snapshots
         /\ Keeps(areaRows, areaRows') /\ Keeps(deviceRows, deviceRows')
         /\ Keeps(entityRows, entityRows')]_vars
  <2> SUFFICES ASSUME SnapInv, [Next]_vars
               PROVE  /\ SubSeq(snapshots', 1, Len(snapshots)) = snapshots
                      /\ Keeps(areaRows, areaRows') /\ Keeps(deviceRows, deviceRows')
                      /\ Keeps(entityRows, entityRows')
    OBVIOUS
  <2>1. SubSeq(snapshots', 1, Len(snapshots)) = snapshots
    <3>1. snapshots \in Seq(Payload) /\ \A t \in Tasks : payload[t] \in Payload
      BY DEF SnapInv, CoreOK
    <3>2. CASE snapshots' = snapshots
      BY <3>1, <3>2, SubSeqFull
    <3>3. ASSUME NEW t \in Tasks, snapshots' = Append(snapshots, payload[t])
          PROVE  SubSeq(snapshots', 1, Len(snapshots)) = snapshots
      <4> DEFINE n == Len(snapshots)  cut == SubSeq(snapshots', 1, n)
      <4>1. /\ snapshots' \in Seq(Payload) /\ Len(snapshots') = n + 1 /\ n \in Nat
            /\ \A i \in 1..n : snapshots'[i] = snapshots[i]
        BY <3>1, <3>3, AppendProperties
      <4>2. \A i \in 1..n : snapshots'[i] \in Payload
        BY <3>1, <4>1
      <4>3. cut \in Seq(Payload) /\ Len(cut) = n /\ \A i \in 1..n : cut[i] = snapshots'[i]
        BY <4>1, <4>2, SubSeqProperties
      <4> HIDE DEF cut
      <4>4. cut = snapshots
        BY <3>1, <4>1, <4>3, SeqEqual
      <4>. QED BY <4>4 DEF cut
    <3>. QED BY <3>2, <3>3, TableSteps
  <2>2. Keeps(areaRows, areaRows')
    BY TableSteps, KeepsSame, UpsertKeeps DEF AreaRowsOf
  <2>3. Keeps(deviceRows, deviceRows')
    BY TableSteps, KeepsSame, UpsertKeeps DEF DeviceRowsOf
  <2>4. Keeps(entityRows, entityRows')
    BY TableSteps, KeepsSame, UpsertKeeps DEF EntityRowsOf
  <2>. QED BY <2>1, <2>2, <2>3, <2>4
<1>. QED BY <1>1, AlwaysSnapInv, PTL DEF Spec, HistoryKept

-----------------------------------------------------------------------------
(* The index is current when all is quiet.  The conditions are those of the  *)
(* run: no change while initial_sync runs, and every device has an id.       *)
Calm == Overlap = FALSE /\ \A r \in Registries : r.unkeyed = FALSE

(* Then only one task is under way at a time, none loses the race for its    *)
(* insert, and none raises on an unkeyed device.                             *)
OneAtATime ==
  /\ pc["init"] # "done" => pc["ws"] = "idle" /\ notices = 0
  /\ pc["init"] # "idle" /\ pc["ws"] # "done"
NoneTwice == \A t \in Tasks : pc[t] = "insert" => Stored(payload[t]) = {}
AllKeyed == \A t \in Tasks : payload[t].unkeyed = FALSE

(* A change makes the last fetch stale, and always leaves a mark: a notice   *)
(* that waits, or missed.  Without one, what was fetched is what there is.   *)
Read == {"select", "insert"} \cup Applying
SeenSoFar(t) ==
  /\ pc[t] \in {"devices", "entities"} => payload[t].areas = ha.areas
  /\ pc[t] = "entities" => payload[t].devices = ha.devices /\ payload[t].unkeyed = ha.unkeyed
  /\ pc[t] \in Read => payload[t] = ha
Unmarked == missed = FALSE /\ notices = 0 /\ faults = 0
IndexCurrent == index.sid # 0 /\ index.payload = ha
UpToDate ==
  Unmarked => /\ \A t \in Tasks : SeenSoFar(t)
              /\ pc["init"] = "done" /\ pc["ws"] = "idle" => IndexCurrent

CurrentInv == /\ notices \in Nat /\ faults \in Nat /\ missed \in BOOLEAN
              /\ OneAtATime /\ NoneTwice /\ AllKeyed /\ UpToDate

(* What every step of a task has in common. *)
LEMMA StepShape ==
  ASSUME CoreOK, NEW t \in Tasks, Step(t)
  PROVE  /\ pc[t] \in Busy /\ (pc'[t] \in Busy \/ pc'[t] = Ended(t))
         /\ \A u \in Tasks : u # t => pc'[u] = pc[u]
         /\ UNCHANGED <<ha, notices, faults>> /\ (missed' = missed \/ missed' = FALSE)
<1> USE DEF world
<1>1. UNCHANGED <<ha, notices, faults>> /\ (missed' = missed \/ missed' = FALSE)
  BY DEF Step, FetchAreas, FetchDevices, FetchEntities, FindSnapshot, InsertSnapshot,
     InsertRefused, UpsertAreas, UpsertDevices, UpsertEntities, RebuildIndex
<1>2. \E from, to : /\ Goto(t, from, to)
                    /\ from \in Busy /\ (to \in Busy \/ to = Ended(t))
  <2>1. CASE FetchAreas(t) \/ FetchDevices(t) \/ FetchEntities(t)
    BY <2>1 DEF FetchAreas, FetchDevices, FetchEntities, Busy, Fetching
  <2>2. CASE FindSnapshot(t) \/ InsertSnapshot(t) \/ InsertRefused(t)
    BY <2>2 DEF FindSnapshot, InsertSnapshot, InsertRefused, Busy, Applying
  <2>3. CASE UpsertAreas(t) \/ UpsertDevices(t) \/ UpsertEntities(t) \/ RebuildIndex(t)
    BY <2>3 DEF UpsertAreas, UpsertDevices, UpsertEntities, RebuildIndex, Busy, Applying
  <2>. QED BY <2>1, <2>2, <2>3 DEF Step
<1>3. PICK from, to : Goto(t, from, to) /\ from \in Busy /\ (to \in Busy \/ to = Ended(t))
  BY <1>2
<1>. QED BY <1>1, <1>3, MovedTask, OtherTask

LEMMA OtherRests ==
  ASSUME CoreOK, OneAtATime, NEW t \in Tasks, pc[t] \in Busy, NEW u \in Tasks, u # t
  PROVE  pc[u] \in {"idle", "done"}
BY DEF CoreOK, OneAtATime, Tasks, Busy, Fetching, Applying

LEMMA StepOneAtATime ==
  ASSUME CoreOK, OneAtATime, NEW t \in Tasks, Step(t)
  PROVE  OneAtATime'
<1>1. /\ pc[t] \in Busy /\ (pc'[t] \in Busy \/ pc'[t] = Ended(t)) /\ notices' = notices
      /\ \A u \in Tasks : u # t => pc'[u] = pc[u]
  BY StepShape
<1>2. "init" \in Tasks /\ "ws" \in Tasks /\ "done" \notin Busy /\ "idle" \notin Busy
  BY DEF Tasks, Busy, Fetching, Applying
<1>3. CASE t = "init"
  BY <1>1, <1>2, <1>3 DEF OneAtATime, Ended
<1>4. CASE t = "ws"
  BY <1>1, <1>2, <1>4 DEF OneAtATime, Ended
<1>. QED BY <1>3, <1>4 DEF Tasks

LEMMA StepKeyed ==
  ASSUME Calm, CoreOK, AllKeyed, NEW t \in Tasks, Step(t)
  PROVE  AllKeyed'
<1>1. CASE FetchAreas(t)
  <2>1. [EmptyPayload EXCEPT !.areas = ha.areas].unkeyed = FALSE
    BY DEF EmptyPayload
  <2>. QED BY <1>1, <2>1 DEF FetchAreas, AllKeyed, CoreOK
<1>2. CASE FetchDevices(t)
  <2>1. payload' = [payload EXCEPT ![t] =
                      [payload[t] EXCEPT !.devices = ha.devices, !.unkeyed = ha.unkeyed]]
    BY <1>2 DEF FetchDevices, CoreOK
  <2>2. ha.unkeyed = FALSE /\ payload[t] \in Payload
    BY DEF Calm, CoreOK
  <2>3. [payload[t] EXCEPT !.devices = ha.devices, !.unkeyed = ha.unkeyed].unkeyed = FALSE
    BY <2>2 DEF Payload
  <2>. QED BY <2>1, <2>3 DEF AllKeyed, CoreOK
<1>3. CASE FetchEntities(t)
  <2>1. [payload[t] EXCEPT !.entities = ha.entities].unkeyed = FALSE
    BY DEF AllKeyed, CoreOK, Payload
  <2>. QED BY <1>3, <2>1 DEF FetchEntities, AllKeyed, CoreOK
<1>4. CASE payload' = payload
  BY <1>4 DEF AllKeyed
<1>5. FetchAreas(t) \/ FetchDevices(t) \/ FetchEntities(t) \/ payload' = payload
  BY DEF Step, FindSnapshot, InsertSnapshot, InsertRefused, UpsertAreas, UpsertDevices,
     UpsertEntities, RebuildIndex
<1>. QED BY <1>1, <1>2, <1>3, <1>4, <1>5

LEMMA StepNoneTwice ==
  ASSUME CoreOK, OneAtATime, NoneTwice, NEW t \in Tasks, Step(t)
  PROVE  NoneTwice'
<1>1. ASSUME NEW u \in Tasks, u # t PROVE pc'[u] # "insert"
  <2>1. pc[u] \in {"idle", "done"} /\ pc'[u] = pc[u]
    BY <1>1, StepShape, OtherRests
  <2>. QED BY <2>1
<1>2. ASSUME pc'[t] = "insert" PROVE FindSnapshot(t) /\ Stored(payload[t]) = {}
  <2>1. FindSnapshot(t)
    <3>1. ~(FetchAreas(t) \/ FetchDevices(t) \/ FetchEntities(t))
      BY <1>2, MovedTask DEF FetchAreas, FetchDevices, FetchEntities
    <3>2. ~(InsertSnapshot(t) \/ InsertRefused(t))
      BY <1>2, MovedTask DEF InsertSnapshot, InsertRefused, Ended
    <3>3. ~(UpsertAreas(t) \/ UpsertDevices(t) \/ UpsertEntities(t) \/ RebuildIndex(t))
      BY <1>2, MovedTask DEF UpsertAreas, UpsertDevices, UpsertEntities, RebuildIndex, Ended
    <3>. QED BY <3>1, <3>2, <3>3 DEF Step
  <2>. QED BY <1>2, <2>1, MovedTask DEF FindSnapshot
<1>3. pc'[t] = "insert" => snapshots' = snapshots /\ payload' = payload
  BY <1>2 DEF FindSnapshot, tables
<1>. QED BY <1>1, <1>2, <1>3 DEF NoneTwice, Stored

(* A payload with the lists of the registries is the registries. *)
LEMMA PayloadEqual ==
  ASSUME NEW p \in Payload, NEW q \in Payload, p.areas = q.areas, p.devices = q.devices,
         p.unkeyed = q.unkeyed, p.entities = q.entities
  PROVE  p = q
BY DEF Payload

LEMMA StepUpToDate ==
  ASSUME SnapInv, CurrentInv, NEW t \in Tasks, Step(t)
  PROVE  UpToDate'
<1>0. CoreOK /\ OneAtATime /\ NoneTwice /\ AllKeyed /\ UpToDate
  BY DEF SnapInv, CurrentInv
<1>1. /\ pc[t] \in Busy /\ (pc'[t] \in Busy \/ pc'[t] = Ended(t))
      /\ \A u \in Tasks : u # t => pc'[u] = pc[u]
      /\ UNCHANGED <<ha, notices, faults>>
  BY <1>0, StepShape
<1>2. ha \in Payload /\ payload[t] \in Payload
  BY <1>0, RegistryType DEF CoreOK
<1>3. "done" \notin Busy /\ "idle" \notin Busy /\ "init" \in Tasks /\ "ws" \in Tasks
  BY DEF Busy, Fetching, Applying, Tasks
<1>4. ASSUME NEW u \in Tasks, u # t PROVE SeenSoFar(u)'
  <2>1. pc'[u] \in {"idle", "done"}
    BY <1>0, <1>1, <1>4, OtherRests
  <2>. QED BY <2>1 DEF SeenSoFar, Read, Applying
<1>5. SUFFICES ASSUME Unmarked'
               PROVE  /\ SeenSoFar(t)'
                      /\ pc'[t] \notin Busy => IndexCurrent'
  BY <1>1, <1>3, <1>4 DEF UpToDate, Tasks
<1>6. CASE FetchAreas(t)
  <2>1. pc'[t] = "devices" /\ payload'[t] = [EmptyPayload EXCEPT !.areas = ha.areas]
    BY <1>0, <1>6, MovedTask DEF FetchAreas, CoreOK
  <2>2. payload'[t].areas = ha.areas
    BY <2>1 DEF EmptyPayload
  <2>. QED BY <1>1, <2>1, <2>2 DEF SeenSoFar, Read, Applying, Busy, Fetching
<1>7. CASE ~FetchAreas(t)
  <2>0. Unmarked /\ SeenSoFar(t)
    <3>1. missed' = missed
      BY <1>7 DEF Step, FetchDevices, FetchEntities, FindSnapshot, InsertSnapshot, world,
         InsertRefused, UpsertAreas, UpsertDevices, UpsertEntities, RebuildIndex
    <3>. QED BY <1>0, <1>1, <1>5, <3>1 DEF Unmarked, UpToDate
  <2>1. CASE FetchDevices(t)
    <3>1. /\ pc[t] = "devices" /\ pc'[t] = "entities"
          /\ payload'[t] = [payload[t] EXCEPT !.devices = ha.devices, !.unkeyed = ha.unkeyed]
      BY <1>0, <2>1, MovedTask DEF FetchDevices, CoreOK
    <3>2. /\ payload'[t].areas = ha.areas /\ payload'[t].devices = ha.devices
          /\ payload'[t].unkeyed = ha.unkeyed
      BY <1>2, <2>0, <3>1 DEF SeenSoFar, Payload
    <3>. QED BY <1>1, <3>1, <3>2 DEF SeenSoFar, Read, Applying, Busy, Fetching
  <2>2. CASE FetchEntities(t)
    <3>1. /\ pc[t] = "entities" /\ pc'[t] = "select"
          /\ payload'[t] = [payload[t] EXCEPT !.entities = ha.entities]
      BY <1>0, <2>2, MovedTask DEF FetchEntities, CoreOK
    <3>2. /\ payload'[t].areas = ha.areas /\ payload'[t].devices = ha.devices
          /\ payload'[t].unkeyed = ha.unkeyed /\ payload'[t].entities = ha.entities
          /\ payload'[t] \in Payload
      BY <1>2, <2>0, <3>1 DEF SeenSoFar, Payload
    <3>3. payload'[t] = ha
      BY <1>2, <3>2, PayloadEqual
    <3>. QED BY <1>1, <3>1, <3>3 DEF SeenSoFar, Read, Applying, Busy
  <2>3. CASE RebuildIndex(t)
    <3>1. /\ pc[t] = "rebuild" /\ pc'[t] = Ended(t) /\ payload' = payload
          /\ index' = [sid |-> sid[t], payload |-> payload[t]]
      BY <1>0, <2>3, MovedTask DEF RebuildIndex
    <3>2. payload[t] = ha /\ sid[t] \in DOMAIN snapshots
      BY <2>0, <3>1 DEF SeenSoFar, Read, Applying, SnapInv, TaskHoldsSnapshot
    <3>3. sid[t] # 0
      BY <1>0, <3>2 DEF CoreOK
    <3>4. IndexCurrent'
      BY <1>1, <3>1, <3>2, <3>3 DEF IndexCurrent
    <3>5. SeenSoFar(t)'
      BY <1>1, <3>1, <3>2 DEF SeenSoFar
    <3>. QED BY <3>4, <3>5
  <2>4. CASE \/ FindSnapshot(t) \/ InsertSnapshot(t) \/ InsertRefused(t)
             \/ UpsertAreas(t) \/ UpsertDevices(t) \/ UpsertEntities(t)
    <3>1. pc[t] \in Read /\ payload' = payload
      BY <1>0, <2>4, MovedTask DEF FindSnapshot, InsertSnapshot, InsertRefused, UpsertAreas,
         UpsertDevices, UpsertEntities, Read, Applying
    <3>2. payload'[t] = ha
      BY <2>0, <3>1 DEF SeenSoFar
    <3>3. pc'[t] \in Read
      <4>1. CASE FindSnapshot(t) \/ InsertSnapshot(t) \/ UpsertAreas(t) \/ UpsertEntities(t)
        BY <1>0, <4>1, MovedTask DEF FindSnapshot, InsertSnapshot, UpsertAreas, UpsertEntities,
           Read, Applying
      <4>2. CASE InsertRefused(t)
        BY <1>0, <4>2, MovedTask DEF InsertRefused, NoneTwice
      <4>3. CASE UpsertDevices(t)
        BY <1>0, <4>3, MovedTask DEF UpsertDevices, AllKeyed, Read, Applying
      <4>. QED BY <2>4, <4>1, <4>2, <4>3
    <3>4. pc'[t] \in Busy /\ pc'[t] \notin {"devices", "entities"}
      BY <3>3 DEF Read, Busy, Applying
    <3>. QED BY <1>1, <3>2, <3>3, <3>4 DEF SeenSoFar
  <2>. QED BY <1>7, <2>1, <2>2, <2>3, <2>4 DEF Step
<1>. QED BY <1>6, <1>7

LEMMA CurrentStep ==
  ASSUME Calm PROVE SnapInv /\ CurrentInv /\ [Next]_vars => CurrentInv'
<1> SUFFICES ASSUME SnapInv, CurrentInv, [Next]_vars PROVE CurrentInv'
  OBVIOUS
<1>0. /\ CoreOK /\ OneAtATime /\ NoneTwice /\ AllKeyed /\ UpToDate
      /\ notices \in Nat /\ faults \in Nat /\ missed \in BOOLEAN
      /\ "init" \in Tasks /\ "ws" \in Tasks
  BY DEF SnapInv, CurrentInv, Tasks
<1>1. ASSUME NEW t \in Tasks, Step(t) PROVE CurrentInv'
  <2>1. OneAtATime' /\ NoneTwice' /\ AllKeyed' /\ UpToDate'
    BY <1>0, <1>1, StepOneAtATime, StepNoneTwice, StepKeyed, StepUpToDate
  <2>2. notices' \in Nat /\ faults' \in Nat /\ missed' \in BOOLEAN
    BY <1>0, <1>1, StepShape
  <2>. QED BY <2>1, <2>2 DEF CurrentInv
<1>2. CASE TakeNotice
  <2>1. /\ notices > 0 /\ notices' = notices - 1 /\ pc["ws"] = "idle" /\ pc'["ws"] = "areas"
        /\ pc'["init"] = pc["init"]
        /\ UNCHANGED <<ha, missed, payload, snapshots, index, faults>>
    BY <1>0, <1>2, MovedTask, OtherTask DEF TakeNotice, tables
  <2>2. OneAtATime' /\ pc["init"] = "done"
    BY <1>0, <2>1 DEF OneAtATime
  <2>3. NoneTwice' /\ AllKeyed'
    BY <1>0, <2>1 DEF NoneTwice, AllKeyed, Stored, Tasks
  <2>4. UpToDate'
    BY <2>1, <2>2 DEF UpToDate, SeenSoFar, Read, Applying, Tasks
  <2>. QED BY <1>0, <2>1, <2>2, <2>3, <2>4 DEF CurrentInv
<1>3. ASSUME NEW t \in Tasks, SyncFails(t) PROVE CurrentInv'
  <2>1. /\ pc[t] \in Busy /\ pc'[t] = Ended(t) /\ faults' = faults + 1
        /\ \A u \in Tasks : u # t => pc'[u] = pc[u]
        /\ UNCHANGED <<ha, missed, notices, payload, snapshots, index>>
    BY <1>0, <1>3 DEF SyncFails, tables, world, CoreOK
  <2>2. OneAtATime'
    <3>1. "idle" \notin Busy /\ "done" \notin Busy
      BY DEF Busy, Fetching, Applying
    <3>. QED BY <1>0, <2>1, <3>1 DEF OneAtATime, Ended, Tasks
  <2>3. NoneTwice' /\ AllKeyed'
    BY <1>0, <2>1 DEF NoneTwice, AllKeyed, Stored, Ended
  <2>4. ~Unmarked'
    BY <1>0, <2>1 DEF Unmarked
  <2>. QED BY <1>0, <2>1, <2>2, <2>3, <2>4 DEF CurrentInv, UpToDate
<1>4. ASSUME NEW r \in Registries, RegistryChanges(r) PROVE CurrentInv'
  <2>1. /\ pc["init"] = "done"
        /\ UNCHANGED <<pc, payload, snapshots, faults>>
        /\ (notices' = notices + 1 /\ missed' = missed) \/ (missed' = TRUE /\ notices' = notices)
    BY <1>4 DEF RegistryChanges, tables, Calm
  <2>2. ~Unmarked' /\ notices' \in Nat /\ missed' \in BOOLEAN
    <3>1. notices' \in Nat /\ (notices' = notices + 1 => notices' # 0)
      BY <1>0, <2>1
    <3>2. missed' \in BOOLEAN
      BY <1>0, <2>1, Zenon
    <3>. QED BY <2>1, <3>1, <3>2, Zenon DEF Unmarked
  <2>3. OneAtATime' /\ NoneTwice' /\ AllKeyed'
    BY <1>0, <2>1 DEF OneAtATime, NoneTwice, AllKeyed, Stored
  <2>. QED BY <1>0, <2>1, <2>2, <2>3 DEF CurrentInv, UpToDate
<1>5. CASE Subscribe \/ Disconnect \/ UNCHANGED vars
  <2>1. /\ UNCHANGED <<pc, payload, snapshots, faults, ha, index>>
        /\ \/ UNCHANGED <<notices, missed>>
           \/ notices' = 0 /\ missed' = (missed \/ notices > 0)
    BY <1>5 DEF Subscribe, Disconnect, vars, world, tables
  <2>2. notices' \in Nat /\ missed' \in BOOLEAN /\ (Unmarked' => Unmarked)
        /\ (notices = 0 => notices' = 0)
    <3>1. notices' \in Nat /\ (notices = 0 => notices' = 0)
      BY <1>0, <2>1
    <3>2. notices > 0 \/ notices = 0
      BY <1>0
    <3>3. missed' \in BOOLEAN /\ (missed' = FALSE /\ notices' = 0 => missed = FALSE /\ notices = 0)
      BY <1>0, <2>1, <3>2, Zenon
    <3>. QED BY <2>1, <3>1, <3>3 DEF Unmarked
  <2>3. OneAtATime' /\ NoneTwice' /\ AllKeyed'
    BY <1>0, <2>1, <2>2 DEF OneAtATime, NoneTwice, AllKeyed, Stored
  <2>4. UpToDate'
    BY <1>0, <2>1, <2>2 DEF UpToDate, SeenSoFar, IndexCurrent
  <2>. QED BY <1>0, <2>1, <2>2, <2>3, <2>4 DEF CurrentInv
<1>6. CASE Restart
  <2>1. /\ notices' = 0 /\ missed' = FALSE /\ pc'["init"] = "areas" /\ pc'["ws"] = "idle"
        /\ \A t \in Tasks : payload'[t] = EmptyPayload
        /\ faults' = faults
    BY <1>0, <1>6 DEF Restart
  <2>2. OneAtATime' /\ NoneTwice'
    BY <2>1 DEF OneAtATime, NoneTwice, Tasks
  <2>3. AllKeyed'
    BY <2>1 DEF AllKeyed, EmptyPayload
  <2>4. UpToDate'
    BY <2>1 DEF UpToDate, SeenSoFar, Read, Applying, Tasks
  <2>. QED BY <1>0, <2>1, <2>2, <2>3, <2>4 DEF CurrentInv
<1>. QED BY <1>1, <1>2, <1>3, <1>4, <1>5, <1>6 DEF Next, Waiting

(* When the two tasks are at rest, EntityIndex holds Home Assistant as it    *)
(* is: for any registries whose devices all have an id, provided they do not *)
(* change while initial_sync runs, no call failed and no change went         *)
(* unannounced; in particular when they return to contents they had before.  *)
THEOREM SettledIndexIsCurrentCorrect ==
  ASSUME Calm PROVE Spec => []SettledIndexIsCurrent
<1>1. Init => CurrentInv
  <2> SUFFICES ASSUME Init PROVE CurrentInv
    OBVIOUS
  <2>1. /\ notices = 0 /\ missed = FALSE /\ faults = 0 /\ pc["init"] = "areas" /\ pc["ws"] = "idle"
        /\ \A t \in Tasks : payload[t] = EmptyPayload
    BY DEF Init, Tasks
  <2>2. OneAtATime /\ NoneTwice /\ AllKeyed
    BY <2>1 DEF OneAtATime, NoneTwice, AllKeyed, EmptyPayload, Tasks
  <2>3. UpToDate
    BY <2>1 DEF UpToDate, SeenSoFar, Read, Applying, Tasks
  <2>. QED BY <2>1, <2>2, <2>3 DEF CurrentInv
<1>2. CurrentInv => SettledIndexIsCurrent
  BY DEF CurrentInv, UpToDate, Unmarked, IndexCurrent, SettledIndexIsCurrent, Settled
<1>3. SnapInv /\ CurrentInv /\ [Next]_vars => CurrentInv'
  BY CurrentStep
<1>. QED BY <1>1, <1>2, <1>3, AlwaysSnapInv, PTL DEF Spec

=============================================================================
