--------------------------- MODULE IngestPipeline ---------------------------
(***************************************************************************)
(* ai_ha.ingest.IngestPipeline over the tables its DAO calls write.         *)
(*                                                                          *)
(* Three asyncio tasks share the in-memory buffer under one FIFO lock:      *)
(*   "ws"     the WebSocket loop, which hands every event to submit();      *)
(*   "flush"  _periodic_flush(), which wakes every 100 ms;                  *)
(*   "stop"   the shutdown path of main._run, which calls stop().           *)
(* A step is what one task does between two awaits that really suspend: a   *)
(* contended lock, the 100 ms sleep, or one DAO call.  A DAO call is one    *)
(* SQLite transaction: it takes effect completely, or raises and has none.  *)
(* The process may be killed between any two steps; the tables survive.     *)
(***************************************************************************)
EXTENDS Naturals, Sequences, FiniteSets, Functions

CONSTANTS Entities, Areas,
          None,         \* no area: an orphan entity
          Unknown,      \* the entity is not in the index
          Snapshots,    \* the ids of the topology snapshots, positive
          AreaOf,       \* AreaOf[s][e]: area of e in snapshot s
          HidePatterns, \* the hide lists that may be configured, as the sets they match
          BatchSize,    \* IngestPipeline(batch_size)
          HourLen,      \* clock ticks in an hour bucket
          MayStop,      \* whether SIGTERM may arrive
          MaxEvents, MaxTime, MaxFaults, MaxRestarts  \* bounds of the model

ASSUME ConstantsAssumption ==
  /\ Snapshots \subseteq Nat \ {0}
  /\ None \notin Areas /\ Unknown \notin Areas
  /\ AreaOf \in [Snapshots -> [Entities -> Areas \cup {None, Unknown}]]
  /\ HidePatterns \subseteq SUBSET Entities /\ HidePatterns # {}
  /\ BatchSize \in Nat \ {0} /\ HourLen \in Nat \ {0}
  /\ MayStop \in BOOLEAN /\ Entities # {}
  /\ {MaxEvents, MaxTime, MaxFaults, MaxRestarts} \subseteq Nat

VARIABLES
  now,         \* wall clock
  nextId,      \* number of events received so far; names the latest one
  index,       \* EntityIndex: the snapshot it was built from, 0 while empty
  hide,        \* IngestPipeline._hide: the entities its patterns match
  pc,          \* where each task is
  cur,         \* the event the ws task is handling, with the id submit() stamped
  buffer,      \* IngestPipeline._buffer
  firstAdded,  \* _first_added: "none", "fresh", or "due" once the interval is over
  lockQ,       \* _lock: the holder, then the waiters in FIFO order
  commit,      \* the locals of the _commit_locked() in progress
  events,      \* table events; event_id is the position
  counters,    \* table counters_per_area
  entityRows,  \* the entities that have a row in table entities
  totals,      \* entities.total_event_count
  drops,       \* table privacy_drops
  faults, restarts

tables == <<events, counters, entityRows, totals, drops>>
vars == <<now, nextId, index, hide, pc, cur, buffer, firstAdded, lockQ, commit,
          tables, faults, restarts>>

Tasks == {"ws", "flush", "stop"}
States == {"recv", "handle", "drop", "wait", "commit", "sleep", "done", "failed",
           "off", "join", "returned", "raised"}
Idle == [t \in Tasks |-> CASE t = "ws" -> "recv" [] t = "flush" -> "sleep"
                            [] t = "stop" -> "off"]
Bucket(ts) == ts \div HourLen
Buckets == {Bucket(t) : t \in 0..MaxTime}
Keys == Areas \X Buckets

(***************************************************************************)
(* EntityIndex.lookup, and the row an event becomes.  The snapshot id is    *)
(* looked up when the event is submitted, the area when it is committed.    *)
(***************************************************************************)
Known(e) == index # 0 /\ AreaOf[index][e] # Unknown
SidOf(e) == IF Known(e) THEN index ELSE 0
AreaNow(e) == IF Known(e) THEN AreaOf[index][e] ELSE None

RowsOf(buf) == [i \in 1..Len(buf) |->
                  [id |-> buf[i].id, entity |-> buf[i].entity, ts |-> buf[i].ts,
                   sid |-> buf[i].sid, area |-> AreaNow(buf[i].entity)]]

Matching(rows, k) == {i \in DOMAIN rows : /\ rows[i].area = k[1]
                                          /\ Bucket(rows[i].ts) = k[2]}
PerArea(rows) == {k \in Keys : Matching(rows, k) # {}}
OfEntity(rows, e) == {i \in DOMAIN rows : rows[i].entity = e}

NoCommit == [inserted |-> FALSE, rows |-> <<>>, areas |-> {}, ents |-> {}]
NoEvent == [id |-> 0, entity |-> CHOOSE e \in Entities : TRUE, ts |-> 0, sid |-> 0]

Init ==
  /\ now = 0 /\ nextId = 0 /\ index = 0 /\ hide \in HidePatterns
  /\ pc = Idle
  /\ cur = NoEvent /\ buffer = <<>> /\ firstAdded = "none"
  /\ lockQ = <<>> /\ commit = NoCommit
  /\ events = <<>> /\ counters = [k \in Keys |-> 0]
  /\ entityRows = {} /\ totals = [e \in Entities |-> 0]
  /\ drops = [b \in Buckets |-> 0]
  /\ faults = 0 /\ restarts = 0

(***************************************************************************)
(* Leaving the pipeline.  The ws loop logs an exception and goes on; the    *)
(* flush task has no handler and ends; stop() passes it on to _run.         *)
(***************************************************************************)
Stopping == pc["stop"] # "off"
Returned(t) == CASE t = "ws" -> "recv"
                 [] t = "flush" -> IF Stopping THEN "done" ELSE "sleep"
                 [] t = "stop" -> "returned"
Raised(t) == CASE t = "ws" -> "recv" [] t = "flush" -> "failed" [] t = "stop" -> "raised"

Granted(t) == pc[t] = "wait" /\ lockQ # <<>> /\ Head(lockQ) = t
Release(t, q, where) == lockQ' = Tail(q) /\ pc' = [pc EXCEPT ![t] = where]

(* _commit_locked() up to its first await, for task t at the head of q. *)
BeginCommit(t, q, buf) ==
  IF buf = <<>>
  THEN Release(t, q, Returned(t)) /\ UNCHANGED commit
  ELSE LET rows == RowsOf(buf) IN
       /\ commit' = [inserted |-> FALSE, rows |-> rows,
                     areas |-> PerArea(rows),
                     ents |-> {rows[i].entity : i \in DOMAIN rows}]
       /\ lockQ' = q /\ pc' = [pc EXCEPT ![t] = "commit"]

Wait(t) == /\ lockQ' = Append(lockQ, t) /\ pc' = [pc EXCEPT ![t] = "wait"]
           /\ UNCHANGED <<buffer, firstAdded, commit>>

-----------------------------------------------------------------------------
(* The ws task: receive an event, then on_ws_event stamps it and calls submit(). *)
Receive(e) ==
  /\ pc["ws"] = "recv" /\ ~Stopping /\ nextId < MaxEvents
  /\ nextId' = nextId + 1
  /\ cur' = [NoEvent EXCEPT !.id = nextId + 1, !.entity = e]
  /\ pc' = [pc EXCEPT !["ws"] = "handle"]
  /\ UNCHANGED <<now, index, hide, buffer, firstAdded, lockQ, commit, tables,
                 faults, restarts>>

(* The loop finds the stop flag set and leaves with the event unhandled. *)
Discard ==
  /\ pc["ws"] = "handle" /\ Stopping
  /\ pc' = [pc EXCEPT !["ws"] = "recv"]
  /\ UNCHANGED <<now, nextId, index, hide, cur, buffer, firstAdded, lockQ, commit,
                 tables, faults, restarts>>

(* The body of "async with self._lock" in submit(). *)
AddToBuffer(entry, q) ==
  /\ buffer' = Append(buffer, entry)
  /\ firstAdded' = IF firstAdded = "none" THEN "fresh" ELSE firstAdded
  /\ IF Len(buffer') >= BatchSize
     THEN BeginCommit("ws", q, buffer')
     ELSE Release("ws", q, "recv") /\ UNCHANGED commit

(* HideMatcher.matches *)
Hidden(e) == e \in hide

SubmitHidden ==
  /\ pc["ws"] = "handle" /\ Hidden(cur.entity)
  /\ cur' = [cur EXCEPT !.ts = now]
  /\ pc' = [pc EXCEPT !["ws"] = "drop"]
  /\ UNCHANGED <<now, nextId, index, hide, buffer, firstAdded, lockQ, commit,
                 tables, faults, restarts>>

(* Mutant: the event is appended outside "async with self._lock". *)
SubmitWithoutLock ==
  /\ pc["ws"] = "handle" /\ ~Hidden(cur.entity)
  /\ cur' = [cur EXCEPT !.ts = now, !.sid = SidOf(cur.entity)]
  /\ IF lockQ = <<>> THEN AddToBuffer(cur', <<"ws">>)
     ELSE /\ buffer' = Append(buffer, cur') /\ pc' = [pc EXCEPT !["ws"] = "recv"]
          /\ UNCHANGED <<firstAdded, lockQ, commit>>
  /\ UNCHANGED <<now, nextId, index, hide, tables, faults, restarts>>

SubmitVisible ==
  /\ pc["ws"] = "handle" /\ ~Hidden(cur.entity)
  /\ cur' = [cur EXCEPT !.ts = now, !.sid = SidOf(cur.entity)]
  /\ IF lockQ = <<>> THEN AddToBuffer(cur', <<"ws">>) ELSE Wait("ws")
  /\ UNCHANGED <<now, nextId, index, hide, tables, faults, restarts>>

SubmitResumes ==
  /\ Granted("ws")
  /\ AddToBuffer(cur, lockQ)
  /\ UNCHANGED <<now, nextId, index, hide, cur, tables, faults, restarts>>

(* Mutant: submit() goes on after the drop, its "return" missing. *)
DropThenSubmit ==
  /\ pc["ws"] = "drop"
  /\ drops' = [drops EXCEPT ![Bucket(cur.ts)] = @ + 1]
  /\ IF lockQ = <<>> THEN AddToBuffer(cur, <<"ws">>) ELSE Wait("ws")
  /\ UNCHANGED <<now, nextId, index, hide, cur, events, counters, entityRows, totals,
                 faults, restarts>>

IncrementPrivacyDrop ==
  /\ pc["ws"] = "drop"
  /\ drops' = [drops EXCEPT ![Bucket(cur.ts)] = @ + 1]
  /\ pc' = [pc EXCEPT !["ws"] = "recv"]
  /\ UNCHANGED <<now, nextId, index, hide, cur, buffer, firstAdded, lockQ, commit,
                 events, counters, entityRows, totals, faults, restarts>>

PrivacyDropRaises ==
  /\ pc["ws"] = "drop" /\ faults < MaxFaults
  /\ faults' = faults + 1
  /\ pc' = [pc EXCEPT !["ws"] = "recv"]
  /\ UNCHANGED <<now, nextId, index, hide, cur, buffer, firstAdded, lockQ, commit,
                 tables, restarts>>

-----------------------------------------------------------------------------
(* The periodic flush task. *)
(* Mutant: "return" for "continue" when there is nothing to flush. *)
FlushOrReturn(q) == IF firstAdded = "due" THEN BeginCommit("flush", q, buffer)
                    ELSE Release("flush", q, "done") /\ UNCHANGED commit

FlushIfDue(q) == IF firstAdded = "due" THEN BeginCommit("flush", q, buffer)
                 ELSE Release("flush", q, Returned("flush")) /\ UNCHANGED commit

FlushTick ==
  /\ pc["flush"] = "sleep"
  /\ IF lockQ = <<>>
     THEN FlushIfDue(<<"flush">>) /\ UNCHANGED <<buffer, firstAdded>>
     ELSE Wait("flush")
  /\ UNCHANGED <<now, nextId, index, hide, cur, tables, faults, restarts>>

FlushResumes ==
  /\ Granted("flush")
  /\ FlushIfDue(lockQ)
  /\ UNCHANGED <<now, nextId, index, hide, cur, buffer, firstAdded, tables,
                 faults, restarts>>

FlushSeesStop ==
  /\ pc["flush"] = "sleep" /\ Stopping
  /\ pc' = [pc EXCEPT !["flush"] = "done"]
  /\ UNCHANGED <<now, nextId, index, hide, cur, buffer, firstAdded, lockQ, commit,
                 tables, faults, restarts>>

-----------------------------------------------------------------------------
(* stop(): set the flag, await the flush task, flush what is left. *)
Stop ==
  /\ MayStop /\ pc["stop"] = "off"
  /\ pc' = [pc EXCEPT !["stop"] = "join"]
  /\ UNCHANGED <<now, nextId, index, hide, cur, buffer, firstAdded, lockQ, commit,
                 tables, faults, restarts>>

(* Mutant: stop() does not flush. *)
StopWithoutFlush ==
  /\ pc["stop"] = "join" /\ pc["flush"] = "done"
  /\ pc' = [pc EXCEPT !["stop"] = "returned"]
  /\ UNCHANGED <<now, nextId, index, hide, cur, buffer, firstAdded, lockQ, commit,
                 tables, faults, restarts>>

StopFlushes ==
  /\ pc["stop"] = "join" /\ pc["flush"] = "done"
  /\ IF lockQ = <<>>
     THEN BeginCommit("stop", <<"stop">>, buffer) /\ UNCHANGED <<buffer, firstAdded>>
     ELSE Wait("stop")
  /\ UNCHANGED <<now, nextId, index, hide, cur, tables, faults, restarts>>

StopResumes ==
  /\ Granted("stop")
  /\ BeginCommit("stop", lockQ, buffer)
  /\ UNCHANGED <<now, nextId, index, hide, cur, buffer, firstAdded, tables,
                 faults, restarts>>

(* Awaiting a flush task that ended with an exception raises it again. *)
StopRaises ==
  /\ pc["stop"] = "join" /\ pc["flush"] = "failed"
  /\ pc' = [pc EXCEPT !["stop"] = "raised"]
  /\ UNCHANGED <<now, nextId, index, hide, cur, buffer, firstAdded, lockQ, commit,
                 tables, faults, restarts>>

-----------------------------------------------------------------------------
(***************************************************************************)
(* The DAO calls of _commit_locked(), by the lock's holder: all rows in one *)
(* transaction, then one transaction per area counter, then one per entity. *)
(* The dicts are walked in some order.  The last one clears the buffer.     *)
(***************************************************************************)
Committing == lockQ # <<>> /\ pc[Head(lockQ)] = "commit"

InsertEvents ==
  /\ Committing /\ ~commit.inserted
  /\ events' = events \o commit.rows
  /\ commit' = [commit EXCEPT !.inserted = TRUE]
  /\ UNCHANGED <<now, nextId, index, hide, pc, cur, buffer, firstAdded, lockQ,
                 counters, entityRows, totals, drops, faults, restarts>>

(* Mutants: the counters are bumped before the rows are inserted, or by one. *)
CountsFirst == Committing
InsertedRows == Committing /\ commit.inserted
CountsOnce(k) == 1
HitsIn(k) == Cardinality(Matching(commit.rows, k))

IncrementCounter(k) ==
  /\ InsertedRows /\ k \in commit.areas
  /\ counters' = [counters EXCEPT ![k] = @ + HitsIn(k)]
  /\ commit' = [commit EXCEPT !.areas = @ \ {k}]
  /\ UNCHANGED <<now, nextId, index, hide, pc, cur, buffer, firstAdded, lockQ,
                 events, entityRows, totals, drops, faults, restarts>>

(* Mutant: the buffer is not cleared. *)
EndWithoutClear ==
  /\ firstAdded' = "none" /\ commit' = NoCommit /\ UNCHANGED buffer
  /\ Release(Head(lockQ), lockQ, Returned(Head(lockQ)))
EndCommit ==
  /\ buffer' = <<>> /\ firstAdded' = "none" /\ commit' = NoCommit
  /\ Release(Head(lockQ), lockQ, Returned(Head(lockQ)))

BumpEntity(e) ==
  /\ InsertedRows /\ commit.areas = {} /\ e \in commit.ents
  /\ totals' = [totals EXCEPT ![e] = IF e \in entityRows THEN @ + 1 ELSE @]
  /\ IF commit.ents = {e}
     THEN EndCommit
     ELSE /\ commit' = [commit EXCEPT !.ents = @ \ {e}]
          /\ UNCHANGED <<buffer, firstAdded, lockQ, pc>>
  /\ UNCHANGED <<now, nextId, index, hide, cur, events, counters, entityRows, drops,
                 faults, restarts>>

(* Mutants: the buffer is cleared in a "finally", or the lock is not released. *)
RaiseAndClear ==
  /\ Committing /\ faults < MaxFaults
  /\ faults' = faults + 1
  /\ commit' = NoCommit /\ buffer' = <<>> /\ firstAdded' = "none"
  /\ Release(Head(lockQ), lockQ, Raised(Head(lockQ)))
  /\ UNCHANGED <<now, nextId, index, hide, cur, tables, restarts>>

RaiseWithLock ==
  /\ Committing /\ faults < MaxFaults
  /\ faults' = faults + 1
  /\ commit' = NoCommit
  /\ pc' = [pc EXCEPT ![Head(lockQ)] = Raised(Head(lockQ))]
  /\ UNCHANGED <<now, nextId, index, hide, cur, buffer, firstAdded, lockQ, tables,
                 restarts>>

(* Any of them raises (database is locked, disk full): the lock is released *)
(* and the buffer keeps every event, those already inserted included.       *)
CommitRaises ==
  /\ Committing /\ faults < MaxFaults
  /\ faults' = faults + 1
  /\ commit' = NoCommit
  /\ Release(Head(lockQ), lockQ, Raised(Head(lockQ)))
  /\ UNCHANGED <<now, nextId, index, hide, cur, buffer, firstAdded, tables, restarts>>

-----------------------------------------------------------------------------
(* The environment: clocks, the topology orchestrator, the config watcher. *)
Tick ==
  /\ now < MaxTime
  /\ now' = now + 1
  /\ UNCHANGED <<nextId, index, hide, pc, cur, buffer, firstAdded, lockQ, commit,
                 tables, faults, restarts>>

IntervalElapses ==
  /\ firstAdded = "fresh"
  /\ firstAdded' = "due"
  /\ UNCHANGED <<now, nextId, index, hide, pc, cur, buffer, lockQ, commit, tables,
                 faults, restarts>>

(* TopologyOrchestrator.apply: the index is swapped, after the entities of s   *)
(* were upserted if s is a snapshot the database did not hold yet.             *)
RebuildIndex(s) ==
  /\ index # s
  /\ index' = s
  /\ \/ entityRows' = entityRows \cup {e \in Entities : AreaOf[s][e] # Unknown}
     \/ UNCHANGED entityRows
  /\ UNCHANGED <<now, nextId, hide, pc, cur, buffer, firstAdded, lockQ, commit,
                 events, counters, totals, drops, faults, restarts>>

(* main.on_cfg_change replaces the matcher. *)
ReloadPattern(h) ==
  /\ hide # h
  /\ hide' = h
  /\ UNCHANGED <<now, nextId, index, pc, cur, buffer, firstAdded, lockQ, commit,
                 tables, faults, restarts>>

(* The process is killed, or exits after stop(); a new one starts on the tables. *)
Restart ==
  /\ restarts < MaxRestarts
  /\ restarts' = restarts + 1
  /\ index' = 0 /\ cur' = NoEvent /\ buffer' = <<>> /\ firstAdded' = "none"
  /\ pc' = Idle
  /\ lockQ' = <<>> /\ commit' = NoCommit
  /\ UNCHANGED <<now, nextId, hide, tables, faults>>

Exited == pc["stop"] \in {"returned", "raised"} /\ UNCHANGED vars

WsStep == \/ Discard \/ SubmitHidden \/ SubmitVisible \/ SubmitResumes
          \/ IncrementPrivacyDrop
FlushStep == FlushTick \/ FlushResumes \/ FlushSeesStop
StopStep == StopFlushes \/ StopResumes \/ StopRaises
CommitStep == \/ InsertEvents
              \/ \E k \in Keys : IncrementCounter(k)
              \/ \E e \in Entities : BumpEntity(e)
Environment == \/ \E e \in Entities : Receive(e)
               \/ \E s \in Snapshots : RebuildIndex(s)
               \/ \E h \in HidePatterns : ReloadPattern(h)
               \/ Tick \/ Stop \/ Restart \/ PrivacyDropRaises \/ CommitRaises

Next == \/ WsStep \/ FlushStep \/ StopStep \/ CommitStep \/ IntervalElapses
        \/ Environment \/ Exited

Spec == Init /\ [][Next]_vars

(* The event loop runs every ready task, DAO calls end, and time passes. *)
FairSpec == /\ Spec
            /\ WF_vars(WsStep) /\ WF_vars(FlushStep) /\ WF_vars(StopStep)
            /\ WF_vars(CommitStep) /\ WF_vars(IntervalElapses)

-----------------------------------------------------------------------------
BufferIds == {buffer[i].id : i \in DOMAIN buffer}
StoredIds == {events[i].id : i \in DOMAIN events}

Entry == [id : 0..MaxEvents, entity : Entities, ts : 0..MaxTime, sid : Snapshots \cup {0}]
Row == [id : 0..MaxEvents, entity : Entities, ts : 0..MaxTime,
        sid : Snapshots \cup {0}, area : Areas \cup {None}]

(* Every variable keeps its type; the counters are natural numbers. *)
TypeOK ==
  /\ now \in 0..MaxTime /\ nextId \in 0..MaxEvents
  /\ index \in Snapshots \cup {0} /\ hide \in HidePatterns
  /\ pc \in [Tasks -> States]
  /\ cur \in Entry /\ buffer \in Seq(Entry)
  /\ firstAdded \in {"none", "fresh", "due"} /\ lockQ \in Seq(Tasks)
  /\ commit \in [inserted : BOOLEAN, rows : Seq(Row), areas : SUBSET Keys,
                  ents : SUBSET Entities]
  /\ events \in Seq(Row) /\ counters \in [Keys -> Nat]
  /\ entityRows \subseteq Entities /\ totals \in [Entities -> Nat]
  /\ drops \in [Buckets -> Nat]
  /\ faults \in Nat /\ restarts \in Nat

(* _commit_locked() builds its rows before the first await and clears the   *)
(* buffer after the last one: in between, through every await, the buffer   *)
(* still holds exactly the events of those rows, so that clear() discards   *)
(* nothing that was not inserted.  This is what the lock in submit() is for. *)
BatchIsBuffer ==
  Committing => /\ Len(commit.rows) = Len(buffer)
                /\ \A i \in DOMAIN buffer : /\ commit.rows[i].id = buffer[i].id
                                            /\ commit.rows[i].ts = buffer[i].ts
                                            /\ commit.rows[i].sid = buffer[i].sid

(***************************************************************************)
(* The inductive invariant behind the theorems: a commit is run by the      *)
(* holder of the lock, its batch is the buffer, what it has inserted is     *)
(* stored, and an event in hand is one the pipeline has not seen yet.       *)
(***************************************************************************)
LockHeld == \A t \in Tasks : pc[t] = "commit" => lockQ # <<>> /\ Head(lockQ) = t
InsertedIsStored == Committing /\ commit.inserted => BufferIds \subseteq StoredIds
IdsFresh ==
  /\ BufferIds \cup StoredIds \subseteq 1..nextId
  /\ pc["ws"] \in {"handle", "drop", "wait"} =>
       nextId > 0 /\ cur.id = nextId /\ nextId \notin BufferIds \cup StoredIds
IndInv == TypeOK /\ LockHeld /\ BatchIsBuffer /\ InsertedIsStored /\ IdsFresh

(* The counters and totals lag behind the events table and never run ahead  *)
(* of it, whatever fails and whenever the process is killed: _commit_locked *)
(* inserts the rows before it bumps anything, and a retry inserts again.    *)
AggregatesNeverExceedRows ==
  /\ \A k \in Keys : counters[k] <= Cardinality(Matching(events, k))
  /\ \A e \in Entities : totals[e] <= Cardinality(OfEntity(events, e))

(* Its inductive form: what the commit in progress has yet to add is stored. *)
AggregatesInv ==
  /\ \A k \in Keys : counters[k] + (IF InsertedRows /\ k \in commit.areas THEN HitsIn(k) ELSE 0)
                       <= Cardinality(Matching(events, k))
  /\ \A e \in Entities : totals[e] + (IF InsertedRows /\ e \in commit.ents THEN 1 ELSE 0)
                           <= Cardinality(OfEntity(events, e))
  /\ Committing => \A e \in commit.ents : OfEntity(commit.rows, e) # {}

(* As long as no call failed and the process was not killed, then between   *)
(* two commits each counter of an area is exactly the number of its rows.   *)
CountersExactWithoutFaults ==
  (faults = 0 /\ restarts = 0 /\ ~Committing) =>
    \A k \in Keys : counters[k] = Cardinality(Matching(events, k))

(* As long as no call failed, event_id grows in the order of arrival and no *)
(* event has two rows, across batches, kills and restarts.                  *)
RowsInOrderWithoutFaults ==
  faults = 0 => \A i, j \in DOMAIN events : i < j => events[i].id < events[j].id

(* No event is both dropped and stored, or neither: as long as the process  *)
(* runs and no call fails, the events received are those counted in         *)
(* privacy_drops, those accepted (buffered or stored) and the one in hand.  *)
EveryEventAccountedFor ==
  (faults = 0 /\ restarts = 0 /\ ~Stopping) =>
    nextId = SumFunction(drops)
             + Cardinality(BufferIds \cup StoredIds)
             + (IF pc["ws"] \in {"handle", "drop", "wait"} THEN 1 ELSE 0)

(* When stop() returns normally, every event accepted so far is in the      *)
(* events table, the ones submit() was still committing included.           *)
StopDrains ==
  [][(pc["stop"] # "returned" /\ pc'["stop"] = "returned")
       => BufferIds \subseteq StoredIds']_vars

(* The pipeline implements the promise made to the caller of submit().      *)
Log == INSTANCE EventLog WITH Ids <- 1..MaxEvents, pending <- BufferIds \ StoredIds,
                              stored <- StoredIds, ended <- restarts
ImplementsEventLog == Log!Spec

(* Every accepted event reaches the events table: by a full batch or by the *)
(* flush task, as the batch policy of the module's docstring says, as long  *)
(* as no call fails and no shutdown begins.                                 *)
AcceptedIsStored ==
  \A id \in 1..MaxEvents :
    id \in BufferIds ~> (id \in StoredIds \/ faults > 0 \/ Stopping)

(* Once shutdown has begun stop() ends, normally or with the exception of   *)
(* the flush task: the flag, the FIFO lock and the join never wait on each  *)
(* other, even when a commit raises.                                        *)
StopEnds == (pc["stop"] = "join") ~> (pc["stop"] \in {"returned", "raised"})

(* Contradicted by the code: one row per event, whatever fails.             *)
OneRowPerEvent ==
  \A i, j \in DOMAIN events : events[i].id = events[j].id => i = j
=============================================================================
