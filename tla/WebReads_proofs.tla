-------------------------- MODULE WebReads_proofs --------------------------
(***************************************************************************)
(* Theorems about WebReads, for every value of its constants: the windows   *)
(* of an hour, of ten minutes and of a day hold what they promise.          *)
(***************************************************************************)
EXTENDS WebReads, SequenceTheorems, CountingTheorems, TLAPS

Event == [area : Areas, ts : 0..MaxTime]
Page == [at : Nat \cup {None}, counted : SUBSET Nat, cutoff : Int \cup {None},
         shown : [Areas -> Nat \cup {None}], active : [Areas -> BOOLEAN \cup {None}]]

(* The types of the variables the theorems are about. *)
WebTypes ==
  /\ now \in 0..MaxTime
  /\ ws = Idle \/ ws \in [at : {"submit", "commit"}, row : Event]
  /\ buffer \in Seq(Event) /\ rows \in Seq(Event)
  /\ commit \in [keys : SUBSET Keys, ents : SUBSET Areas]
  /\ counters \in [Keys -> Nat]
  /\ lastSeen \in [Areas -> Nat] /\ newest \in [Areas -> Nat]
  /\ refresh \in Nat \cup {None}
  /\ page \in Page
  /\ recorded \in Seq(Nat) /\ recent \in Seq(Nat)

LEMMA Bounds ==
  /\ MaxTime \in Nat /\ HourLen \in Nat \ {0} /\ DayHours \in Nat \ {0} /\ ActiveTime \in Nat
  /\ RefreshTime \in Nat /\ BatchSize \in Nat /\ None \notin Int
BY WebAssumption

LEMMA KeyType == ASSUME NEW e \in Event PROVE KeyOf(e) \in Keys
BY DEF Event, KeyOf, Keys

LEMMA KeysOf ==
  ASSUME NEW s \in Seq(Event)
  PROVE  /\ {KeyOf(s[i]) : i \in DOMAIN s} \subseteq Keys
         /\ {s[i].area : i \in DOMAIN s} \subseteq Areas
<1>1. \A i \in DOMAIN s : s[i] \in Event
  OBVIOUS
<1>2. \A i \in DOMAIN s : KeyOf(s[i]) \in Keys /\ s[i].area \in Areas
  BY <1>1, KeyType DEF Event
<1>. QED BY <1>2

-----------------------------------------------------------------------------
(* popleft() takes entries from the front while they are older than an hour. *)
LEMMA PruneDrops ==
  ASSUME NEW log \in Seq(Nat), NEW t \in Nat
  PROVE  \E d \in 0..Len(log) :
           /\ Prune(log, t) \in Seq(Nat) /\ Len(Prune(log, t)) = Len(log) - d
           /\ \A i \in 1..(Len(log) - d) : Prune(log, t)[i] = log[d + i]
           /\ \A i \in 1..d : log[i] < t - HourLen
           /\ d < Len(log) => log[d + 1] >= t - HourLen
<1> DEFINE kept == {i \in DOMAIN log : log[i] >= t - HourLen}
           T == kept \cup {Len(log) + 1}
           m == Min(T)
<1>0. HourLen \in Nat /\ Len(log) \in Nat /\ DOMAIN log = 1..Len(log)
      /\ \A i \in DOMAIN log : log[i] \in Nat
  BY Bounds
<1>1. T \subseteq Nat /\ T # {}
  BY <1>0
<1>2. m \in T /\ \A y \in T : m <= y
  <2> HIDE DEF T
  <2>. QED BY <1>1, MinIsLeast
<1>p. Prune(log, t) = SubSeq(log, m, Len(log))
  BY DEF Prune
<1> HIDE DEF m
<1>3. m \in 1..(Len(log) + 1)
  BY <1>0, <1>2
<1>4. \A i \in 1..(m - 1) : log[i] < t - HourLen
  <2> SUFFICES ASSUME NEW i \in 1..(m - 1) PROVE log[i] < t - HourLen
    OBVIOUS
  <2>1. i \in DOMAIN log /\ ~(m <= i)
    BY <1>0, <1>3
  <2>2. i \notin kept
    BY <1>2, <2>1
  <2>. QED BY <1>0, <2>1, <2>2
<1>5. m - 1 < Len(log) => log[m] >= t - HourLen
  BY <1>0, <1>2, <1>3
<1>6. /\ SubSeq(log, m, Len(log)) \in Seq(Nat)
      /\ Len(SubSeq(log, m, Len(log))) = Len(log) - (m - 1)
      /\ \A i \in 1..(Len(log) - (m - 1)) : SubSeq(log, m, Len(log))[i] = log[(m - 1) + i]
  <2>1. \A i \in m..Len(log) : log[i] \in Nat
    BY <1>0, <1>3
  <2>2. /\ SubSeq(log, m, Len(log)) \in Seq(Nat)
        /\ Len(SubSeq(log, m, Len(log))) = IF m <= Len(log) THEN Len(log) - m + 1 ELSE 0
        /\ \A i \in 1..(Len(log) - m + 1) : SubSeq(log, m, Len(log))[i] = log[m + i - 1]
    BY <1>0, <1>3, <2>1, SubSeqProperties
  <2>3. Len(log) - (m - 1) = Len(log) - m + 1 /\ \A i \in Nat : (m - 1) + i = m + i - 1
    BY <1>0, <1>3
  <2>. QED BY <1>0, <1>3, <2>2, <2>3
<1>7. (m - 1) \in 0..Len(log) /\ (m - 1) + 1 = m
  BY <1>0, <1>3
<1>. QED BY <1>p, <1>4, <1>5, <1>6, <1>7
-----------------------------------------------------------------------------
(* Types. *)
LEMMA RecordType ==
  ASSUME WebTypes, NEW ts \in 0..MaxTime, Record(ts)
  PROVE  recorded' \in Seq(Nat) /\ recent' \in Seq(Nat)
<1>1. ts \in Nat /\ recorded \in Seq(Nat) /\ recent \in Seq(Nat)
  BY Bounds DEF WebTypes
<1>2. Append(recent, ts) \in Seq(Nat) /\ recorded' \in Seq(Nat)
  BY <1>1 DEF Record
<1>3. Prune(Append(recent, ts), ts) \in Seq(Nat)
  BY <1>1, <1>2, PruneDrops
<1>. QED BY <1>2, <1>3 DEF Record

LEMMA AddToBufferType ==
  ASSUME WebTypes, NEW row \in Event, AddToBuffer(row)
  PROVE  /\ buffer' \in Seq(Event) /\ recorded' \in Seq(Nat) /\ recent' \in Seq(Nat)
         /\ ws' = Idle \/ ws' \in [at : {"submit", "commit"}, row : Event]
<1>1. buffer' \in Seq(Event)
  BY DEF AddToBuffer, WebTypes
<1>2. CASE Len(buffer') >= BatchSize
  BY <1>1, <1>2 DEF AddToBuffer, WebTypes
<1>3. CASE ~(Len(buffer') >= BatchSize)
  <2>1. Record(row.ts) /\ ws' = Idle /\ row.ts \in 0..MaxTime
    BY <1>3 DEF AddToBuffer, Event
  <2>. QED BY <1>1, <2>1, RecordType
<1>. QED BY <1>2, <1>3

LEMMA IngestType ==
  ASSUME WebTypes, \/ (\E a \in Areas : Receive(a)) \/ SubmitResumes \/ SubmitReturns
                   \/ InsertEvents \/ (\E k \in Keys : IncrementCounter(k))
  PROVE  WebTypes'
<1>1. ASSUME NEW a \in Areas, Receive(a) PROVE WebTypes'
  <2>1. [area |-> a, ts |-> now] \in Event
    BY DEF WebTypes, Event
  <2>2. CASE commit = NoCommit
    <3>1. AddToBuffer([area |-> a, ts |-> now])
      BY <1>1, <2>2 DEF Receive
    <3>2. UNCHANGED <<now, commit, rows, counters, lastSeen, refresh, page, newest>>
      BY <1>1 DEF Receive
    <3>. QED BY <2>1, <3>1, <3>2, AddToBufferType DEF WebTypes
  <2>3. CASE commit # NoCommit
    BY <1>1, <2>1, <2>3 DEF Receive, WebTypes
  <2>. QED BY <2>2, <2>3
<1>2. CASE SubmitResumes
  <2>1. ws.row \in Event
    BY <1>2 DEF SubmitResumes, WebTypes, Idle
  <2>2. /\ AddToBuffer(ws.row)
        /\ UNCHANGED <<now, commit, rows, counters, lastSeen, refresh, page, newest>>
    BY <1>2 DEF SubmitResumes
  <2>. QED BY <2>1, <2>2, AddToBufferType DEF WebTypes
<1>3. CASE SubmitReturns
  <2>1. ws.row \in Event
    BY <1>3 DEF SubmitReturns, WebTypes, Idle
  <2>2. /\ Record(ws.row.ts) /\ ws' = Idle /\ ws.row.ts \in 0..MaxTime
        /\ UNCHANGED <<now, buffer, commit, rows, counters, lastSeen, refresh, page, newest>>
    BY <1>3, <2>1 DEF SubmitReturns, Event
  <2>. QED BY <2>2, RecordType DEF WebTypes
<1>4. CASE InsertEvents
  <2>1. /\ rows' = rows \o buffer /\ rows' \in Seq(Event)
        /\ commit' = [keys |-> {KeyOf(buffer[i]) : i \in DOMAIN buffer},
                      ents |-> {buffer[i].area : i \in DOMAIN buffer}]
        /\ UNCHANGED <<now, ws, recent, buffer, counters, lastSeen, refresh, page, recorded, newest>>
    BY <1>4 DEF InsertEvents, WebTypes
  <2>2. commit' \in [keys : SUBSET Keys, ents : SUBSET Areas]
    BY <2>1, KeysOf DEF WebTypes
  <2>. QED BY <2>1, <2>2 DEF WebTypes
<1>5. ASSUME NEW k \in Keys, IncrementCounter(k) PROVE WebTypes'
  <2>1. Cardinality({i \in DOMAIN buffer : KeyOf(buffer[i]) = k}) \in Nat
    <3>1. IsFiniteSet(1..Len(buffer)) /\ DOMAIN buffer = 1..Len(buffer)
      BY FS_Interval DEF WebTypes
    <3>2. IsFiniteSet({i \in DOMAIN buffer : KeyOf(buffer[i]) = k})
      BY <3>1, FS_Subset
    <3>. QED BY <3>2, FS_CardinalityType
  <2>2. /\ counters' = [counters EXCEPT
             ![k] = @ + Cardinality({i \in DOMAIN buffer : KeyOf(buffer[i]) = k})]
        /\ commit' = [commit EXCEPT !.keys = @ \ {k}]
        /\ UNCHANGED <<now, ws, recent, buffer, rows, lastSeen, refresh, page, recorded, newest>>
    BY <1>5 DEF IncrementCounter
  <2>3. counters' \in [Keys -> Nat]
    BY <2>1, <2>2 DEF WebTypes
  <2>4. commit' \in [keys : SUBSET Keys, ents : SUBSET Areas]
    BY <2>2 DEF WebTypes
  <2>. QED BY <2>2, <2>3, <2>4 DEF WebTypes
<1>. QED BY <1>1, <1>2, <1>3, <1>4, <1>5
(* An entity the commit has yet to write has an event in the batch. *)
BatchEntities == \A a \in commit.ents : \E i \in DOMAIN buffer : buffer[i].area = a

Stamps(a) == {buffer[i].ts : i \in {j \in DOMAIN buffer : buffer[j].area = a}}

LEMMA BumpStamps ==
  ASSUME WebTypes, BatchEntities, NEW a \in commit.ents
  PROVE  /\ a \in Areas /\ Stamps(a) \subseteq 0..MaxTime
         /\ Max({newest[a]} \cup Stamps(a)) \in {newest[a]} \cup Stamps(a)
         /\ \A y \in {newest[a]} \cup Stamps(a) : y <= Max({newest[a]} \cup Stamps(a))
         /\ \E m \in DOMAIN buffer :
              /\ buffer[m].area = a /\ LastOfBatch(a) = buffer[m].ts
              /\ \A i \in DOMAIN buffer : buffer[i].area = a => i <= m
<1>0. /\ a \in Areas /\ newest[a] \in Nat /\ Len(buffer) \in Nat /\ MaxTime \in Nat
      /\ DOMAIN buffer = 1..Len(buffer) /\ \A i \in DOMAIN buffer : buffer[i] \in Event
  BY Bounds DEF WebTypes
<1>1. Stamps(a) \subseteq 0..MaxTime
  BY <1>0 DEF Stamps, Event
<1>2. /\ Max({newest[a]} \cup Stamps(a)) \in {newest[a]} \cup Stamps(a)
      /\ \A y \in {newest[a]} \cup Stamps(a) : y <= Max({newest[a]} \cup Stamps(a))
  <2> DEFINE T == {newest[a]} \cup Stamps(a)
  <2>1. T \subseteq Nat /\ T # {} /\ newest[a] + MaxTime \in Nat
        /\ \A y \in T : y <= newest[a] + MaxTime
    BY <1>0, <1>1
  <2> HIDE DEF T
  <2>2. Max(T) \in T /\ \A y \in T : y <= Max(T)
    BY <2>1, MaxIsGreatest
  <2>. QED BY <2>2 DEF T
<1>3. \E m \in DOMAIN buffer :
        /\ buffer[m].area = a /\ LastOfBatch(a) = buffer[m].ts
        /\ \A i \in DOMAIN buffer : buffer[i].area = a => i <= m
  <2> DEFINE T == {i \in DOMAIN buffer : buffer[i].area = a}
  <2>1. T \subseteq Nat /\ T # {} /\ \A y \in T : y <= Len(buffer)
    BY <1>0 DEF BatchEntities
  <2>2. LastOfBatch(a) = buffer[Max(T)].ts
    BY DEF LastOfBatch
  <2>3. Max(T) \in T /\ \A y \in T : y <= Max(T)
    <3> HIDE DEF T
    <3>. QED BY <1>0, <2>1, MaxIsGreatest
  <2>. QED BY <2>2, <2>3
<1>. QED BY <1>0, <1>1, <1>2, <1>3

LEMMA BumpType ==
  ASSUME WebTypes, BatchEntities, NEW a \in Areas, BumpEntity(a)
  PROVE  WebTypes'
<1>1. /\ a \in commit.ents
      /\ lastSeen' = [lastSeen EXCEPT ![a] = LastOfBatch(a)]
      /\ newest' = [newest EXCEPT ![a] = Max({@} \cup Stamps(a))]
      /\ commit' = [commit EXCEPT !.ents = @ \ {a}]
      /\ buffer' = <<>> \/ buffer' = buffer
      /\ UNCHANGED <<now, ws, recent, rows, counters, refresh, page, recorded>>
  BY DEF BumpEntity, Stamps
<1>2. Max({newest[a]} \cup Stamps(a)) \in Nat /\ LastOfBatch(a) \in Nat
  <2>1. newest[a] \in Nat /\ MaxTime \in Nat
    BY Bounds DEF WebTypes
  <2>2. \A i \in DOMAIN buffer : buffer[i] \in Event
    BY DEF WebTypes
  <2>3. \A i \in DOMAIN buffer : buffer[i].ts \in Nat
    BY <2>1, <2>2 DEF Event
  <2>4. LastOfBatch(a) \in Nat
    BY <1>1, <2>3, BumpStamps
  <2>5. Stamps(a) \subseteq 0..MaxTime
        /\ Max({newest[a]} \cup Stamps(a)) \in {newest[a]} \cup Stamps(a)
    BY <1>1, BumpStamps
  <2>. QED BY <2>1, <2>4, <2>5
<1>3. newest' = [newest EXCEPT ![a] = Max({newest[a]} \cup Stamps(a))]
  BY <1>1
<1>4. lastSeen' \in [Areas -> Nat] /\ newest' \in [Areas -> Nat]
  BY <1>1, <1>2, <1>3 DEF WebTypes
<1>5. commit' \in [keys : SUBSET Keys, ents : SUBSET Areas]
  BY <1>1 DEF WebTypes
<1>6. buffer' \in Seq(Event)
  <2>1. buffer \in Seq(Event) /\ <<>> \in Seq(Event)
    BY DEF WebTypes
  <2>. QED BY <1>1, <2>1
<1>. QED BY <1>1, <1>4, <1>5, <1>6 DEF WebTypes

(* An area has finitely many hours. *)
LEMMA HoursFinite == ASSUME NEW a, NEW S \in SUBSET Keys PROVE IsFiniteSet({k \in S : k[1] = a})
<1>1. IsFiniteSet(0..MaxTime)
  BY Bounds, FS_Interval
<1> DEFINE K == {<<a, Bucket(t)>> : t \in 0..MaxTime}
           f == [t \in 0..MaxTime |-> <<a, Bucket(t)>>]
<1>2. f \in Surjection(0..MaxTime, K)
  BY DEF Surjection
<1>3. IsFiniteSet(K)
  <2> HIDE DEF f, K
  <2>. QED BY <1>1, <1>2, FS_Surjection
<1>4. {k \in S : k[1] = a} \subseteq K
  BY DEF Keys
<1>. QED BY <1>3, <1>4, FS_Subset

LEMMA ReadType ==
  ASSUME WebTypes, Rooms \/ Health \/ Paging
  PROVE  WebTypes'
<1>1. CASE Health
  <2>1. recent' \in Seq(Nat)
    BY <1>1, Bounds, PruneDrops DEF Health, WebTypes
  <2>. QED BY <1>1, <2>1 DEF Health, WebTypes, ingest
<1>2. CASE Paging
  BY <1>2 DEF Paging, FollowCursor, EndWalk, FirstPage, WebTypes, ingest
<1>p. ASSUME Rooms PROVE UNCHANGED <<now, ingest, recent, lastSeen, refresh, recorded, newest>>
  BY <1>p DEF Rooms, OpenRooms, QueryCounters, RoomsShown, ReadEntities
<1>3. ASSUME Rooms, page' \in Page PROVE WebTypes'
  BY <1>p, <1>3 DEF WebTypes, ingest
<1>n. NoPage \in Page
  BY DEF NoPage, Page, Blank
<1>4. CASE OpenRooms
  <2>1. DOMAIN rows \ Uncounted \in SUBSET Nat /\ now \in Nat
    BY Bounds DEF WebTypes
  <2>2. page' \in Page
    BY <1>4, <1>n, <2>1 DEF OpenRooms, Page
  <2>. QED BY <1>3, <1>4, <2>2 DEF Rooms
<1>5. CASE QueryCounters
  <2>1. PerArea(GetCounters24h(Bucket(page.at))) \in [Areas -> Nat]
    <3>1. ASSUME NEW a \in Areas, NEW S \in SUBSET Keys
          PROVE  SumFunctionOnSet(counters, {k \in S : k[1] = a}) \in Nat
      <4>1. \A k \in {k \in S : k[1] = a} : counters[k] \in Nat
        BY DEF WebTypes
      <4>. QED BY <4>1, HoursFinite, SumType
    <3>2. GetCounters24h(Bucket(page.at)) \in SUBSET Keys
      BY DEF GetCounters24h
    <3>. QED BY <3>1, <3>2 DEF PerArea
  <2>2. now - ActiveTime \in Int
    BY Bounds DEF WebTypes
  <2>3. page' \in Page
    BY <1>5, <2>1, <2>2 DEF QueryCounters, Page, WebTypes
  <2>. QED BY <1>3, <1>5, <2>3 DEF Rooms
<1>6. ASSUME NEW a \in Areas, ReadEntities(a) PROVE WebTypes'
  <2> DEFINE b == lastSeen[a] > page.cutoff
             act == [page.active EXCEPT ![a] = b]
  <2>1. b \in BOOLEAN /\ page \in Page /\ page' = [page EXCEPT !.active[a] = b]
    BY <1>6 DEF ReadEntities, WebTypes
  <2> HIDE DEF b
  <2>2. page.active \in [Areas -> BOOLEAN \cup {None}]
    BY <2>1 DEF Page
  <2>3. act \in [Areas -> BOOLEAN \cup {None}]
    BY <2>1, <2>2
  <2>4. page' = [page EXCEPT !.active = act]
    BY <2>1
  <2> HIDE DEF act
  <2>5. page' \in Page
    BY <2>1, <2>3, <2>4 DEF Page
  <2>. QED BY <1>3, <1>6, <2>5 DEF Rooms
<1>7. CASE RoomsShown
  BY <1>3, <1>7, <1>n DEF RoomsShown, Rooms
<1>. QED BY <1>1, <1>2, <1>4, <1>5, <1>6, <1>7 DEF Rooms

LEMMA NextType ==
  ASSUME WebTypes, BatchEntities, [Next]_vars
  PROVE  WebTypes'
<1>1. CASE Tick
  BY <1>1, Bounds DEF Tick, WebTypes, ingest
<1>2. CASE BeginRefresh \/ UpsertEntities
  <2>1. now \in Nat
    BY Bounds DEF WebTypes
  <2>. QED BY <1>2, <2>1 DEF BeginRefresh, UpsertEntities, WebTypes, ingest
<1>3. CASE UNCHANGED vars
  BY <1>3 DEF vars, WebTypes, ingest
<1>. QED BY <1>1, <1>2, <1>3, IngestType, BumpType, ReadType DEF Next, Ingest

LEMMA InitType == Init => WebTypes /\ BatchEntities
BY Bounds DEF Init, WebTypes, BatchEntities, Idle, NoCommit, NoPage, Page, Blank

(* The batch does not change while it is committed. *)
LEMMA NextBatch ==
  ASSUME WebTypes, BatchEntities, [Next]_vars
  PROVE  BatchEntities'
<1>1. CASE UNCHANGED <<buffer, commit>>
  BY <1>1 DEF BatchEntities
<1>2. ASSUME commit = NoCommit, UNCHANGED commit PROVE BatchEntities'
  BY <1>2 DEF BatchEntities, NoCommit
<1>3. CASE (\E a \in Areas : Receive(a)) \/ SubmitResumes
  BY <1>1, <1>2, <1>3 DEF Receive, SubmitResumes
<1>4. CASE InsertEvents
  BY <1>4 DEF InsertEvents, BatchEntities
<1>5. ASSUME NEW k \in Keys, IncrementCounter(k) PROVE BatchEntities'
  BY <1>5 DEF IncrementCounter, BatchEntities, WebTypes
<1>6. ASSUME NEW a \in Areas, BumpEntity(a) PROVE BatchEntities'
  <2>1. /\ commit'.ents = commit.ents \ {a}
        /\ buffer' = IF commit.ents = {a} THEN <<>> ELSE buffer
    BY <1>6 DEF BumpEntity, WebTypes
  <2>. QED BY <2>1 DEF BatchEntities
<1>7. CASE Tick \/ SubmitReturns \/ BeginRefresh \/ UpsertEntities \/ Health \/ Rooms \/ Paging
           \/ UNCHANGED vars
  <2>1. UNCHANGED <<buffer, commit>>
    BY <1>7 DEF Tick, SubmitReturns, BeginRefresh, UpsertEntities, Health, Rooms, Paging, OpenRooms,
                QueryCounters, RoomsShown, ReadEntities, FollowCursor, EndWalk, FirstPage, vars, ingest
  <2>. QED BY <1>1, <2>1
<1>. QED BY <1>3, <1>4, <1>5, <1>6, <1>7 DEF Next, Ingest
LEMMA TypesInductive == Spec => [](WebTypes /\ BatchEntities)
<1>1. WebTypes /\ BatchEntities /\ [Next]_vars => (WebTypes /\ BatchEntities)'
  BY NextType, NextBatch
<1>. QED BY <1>1, InitType, PTL DEF Spec

-----------------------------------------------------------------------------
(***************************************************************************)
(* The rolling hour.  Events are recorded in the order of their time        *)
(* stamps, none of them later than the event in hand or than now; the log   *)
(* is what is left of them when some that are over an hour old are gone.    *)
(***************************************************************************)
RecordedInOrder ==
  /\ \A i, j \in DOMAIN recorded : i < j => recorded[i] <= recorded[j]
  /\ \A i \in DOMAIN recorded : recorded[i] <= now /\ (ws # Idle => recorded[i] <= ws.row.ts)
  /\ ws # Idle => ws.row.ts <= now

IsSuffix(log, all, d, t) ==
  /\ d \in 0..Len(all) /\ Len(log) = Len(all) - d
  /\ \A i \in 1..(Len(all) - d) : log[i] = all[d + i]
  /\ \A i \in 1..d : all[i] < t - HourLen

RecentIsSuffix == \E d \in Nat : IsSuffix(recent, recorded, d, now)

ClockInv == RecordedInOrder /\ RecentIsSuffix

(* Pruning a suffix by a time t that is not after "now" leaves a suffix, and *)
(* if the log is in order, all that is in the hour before t.                 *)
LEMMA PruneSuffix ==
  ASSUME NEW all \in Seq(Nat), NEW log \in Seq(Nat), NEW d \in Nat, NEW u \in Nat, NEW t \in Nat,
         IsSuffix(log, all, d, u), t <= u,
         \A i, j \in DOMAIN all : i < j => all[i] <= all[j]
  PROVE  \E e \in Nat : /\ IsSuffix(Prune(log, t), all, e, u)
                        /\ \A i \in (e + 1)..Len(all) : all[i] >= t - HourLen
<1>0. /\ HourLen \in Nat /\ Len(all) \in Nat /\ DOMAIN all = 1..Len(all)
      /\ \A i \in DOMAIN all : all[i] \in Nat
      /\ d \in 0..Len(all) /\ Len(log) = Len(all) - d
      /\ \A i \in 1..(Len(all) - d) : log[i] = all[d + i]
      /\ \A i \in 1..d : all[i] < u - HourLen
  BY Bounds DEF IsSuffix
<1>1. PICK c \in 0..Len(log) :
             /\ Prune(log, t) \in Seq(Nat) /\ Len(Prune(log, t)) = Len(log) - c
             /\ \A i \in 1..(Len(log) - c) : Prune(log, t)[i] = log[c + i]
             /\ \A i \in 1..c : log[i] < t - HourLen
             /\ c < Len(log) => log[c + 1] >= t - HourLen
  BY PruneDrops
<1>2. d + c \in 0..Len(all) /\ Len(Prune(log, t)) = Len(all) - (d + c) /\ c \in Nat
  BY <1>0, <1>1
<1>3. ASSUME NEW i \in 1..(Len(all) - (d + c)) PROVE Prune(log, t)[i] = all[(d + c) + i]
  <2>1. i \in 1..(Len(log) - c) /\ c + i \in 1..(Len(all) - d) /\ d + (c + i) = (d + c) + i
    BY <1>0, <1>2, <1>3
  <2>. QED BY <1>0, <1>1, <2>1
<1>4. ASSUME NEW i \in 1..(d + c) PROVE all[i] < u - HourLen
  <2>1. CASE i <= d
    BY <1>0, <2>1
  <2>2. CASE i > d
    <3>1. i - d \in 1..c /\ i - d \in 1..(Len(all) - d) /\ d + (i - d) = i
      BY <1>0, <1>2, <2>2
    <3>2. log[i - d] = all[i]
      BY <1>0, <3>1
    <3>3. log[i - d] < t - HourLen
      BY <1>1, <3>1
    <3>4. all[i] \in Nat
      BY <1>0, <1>2, <3>1
    <3>. QED BY <1>0, <3>2, <3>3, <3>4
  <2>. QED BY <1>0, <1>2, <2>1, <2>2
<1>5. ASSUME NEW i \in ((d + c) + 1)..Len(all) PROVE all[i] >= t - HourLen
  <2> DEFINE first == d + (c + 1)
  <2>1. c < Len(log) /\ c + 1 \in 1..(Len(all) - d) /\ first \in DOMAIN all
        /\ i \in DOMAIN all /\ (first < i \/ first = i)
    BY <1>0, <1>2, <1>5
  <2>2. all[first] = log[c + 1]
    BY <1>0, <2>1
  <2> HIDE DEF first
  <2>3. all[first] >= t - HourLen /\ all[first] \in Nat /\ all[i] \in Nat
    BY <1>0, <1>1, <2>1, <2>2
  <2>4. all[first] <= all[i]
    BY <2>1, <2>3
  <2>. QED BY <1>0, <2>3, <2>4
<1>6. IsSuffix(Prune(log, t), all, d + c, u) /\ d + c \in Nat
  BY <1>2, <1>3, <1>4 DEF IsSuffix
<1>. QED BY <1>5, <1>6

LEMMA AppendInOrder ==
  ASSUME NEW all \in Seq(Nat), NEW log \in Seq(Nat), NEW d \in Nat, NEW u \in Nat, NEW t \in Nat,
         IsSuffix(log, all, d, u), \A i \in DOMAIN all : all[i] <= t,
         \A i, j \in DOMAIN all : i < j => all[i] <= all[j]
  PROVE  /\ IsSuffix(Append(log, t), Append(all, t), d, u)
         /\ \A i, j \in DOMAIN Append(all, t) : i < j => Append(all, t)[i] <= Append(all, t)[j]
         /\ \A i \in DOMAIN Append(all, t) : Append(all, t)[i] <= t
<1> DEFINE A == Append(all, t)
           L == Append(log, t)
<1>0. /\ Len(all) \in Nat /\ Len(log) \in Nat /\ DOMAIN all = 1..Len(all)
      /\ DOMAIN A = 1..(Len(all) + 1) /\ Len(A) = Len(all) + 1 /\ Len(L) = Len(log) + 1
      /\ \A i \in 1..Len(all) : A[i] = all[i]
      /\ \A i \in 1..Len(log) : L[i] = log[i]
      /\ A[Len(all) + 1] = t /\ L[Len(log) + 1] = t
      /\ \A i \in DOMAIN all : all[i] \in Nat
  OBVIOUS
<1>1. /\ d \in 0..Len(all) /\ Len(log) = Len(all) - d
      /\ \A i \in 1..(Len(all) - d) : log[i] = all[d + i]
      /\ \A i \in 1..d : all[i] < u - HourLen
  BY DEF IsSuffix
<1> HIDE DEF A, L
<1>2. ASSUME NEW i \in 1..(Len(A) - d) PROVE L[i] = A[d + i]
  <2>1. CASE i <= Len(log)
    <3>1. i \in 1..(Len(all) - d) /\ i \in 1..Len(log) /\ d + i \in 1..Len(all)
      BY <1>0, <1>1, <1>2, <2>1
    <3>. QED BY <1>0, <1>1, <3>1
  <2>2. CASE i > Len(log)
    <3>1. i = Len(log) + 1 /\ d + i = Len(all) + 1
      BY <1>0, <1>1, <1>2, <2>2
    <3>. QED BY <1>0, <3>1
  <2>. QED BY <1>0, <2>1, <2>2
<1>3. \A i \in 1..d : A[i] < u - HourLen
  BY <1>0, <1>1
<1>4. IsSuffix(L, A, d, u)
  BY <1>0, <1>1, <1>2, <1>3 DEF IsSuffix
<1>5. \A i \in DOMAIN A : A[i] <= t /\ A[i] \in Nat
  <2> SUFFICES ASSUME NEW i \in DOMAIN A PROVE A[i] <= t /\ A[i] \in Nat
    OBVIOUS
  <2>1. i \in 1..Len(all) \/ i = Len(all) + 1
    BY <1>0
  <2>. QED BY <1>0, <2>1
<1>6. \A i, j \in DOMAIN A : i < j => A[i] <= A[j]
  <2> SUFFICES ASSUME NEW i \in DOMAIN A, NEW j \in DOMAIN A, i < j PROVE A[i] <= A[j]
    OBVIOUS
  <2>1. i \in 1..Len(all) /\ (j \in 1..Len(all) \/ j = Len(all) + 1)
    BY <1>0
  <2>. QED BY <1>0, <1>5, <2>1
<1>. QED BY <1>4, <1>5, <1>6 DEF A, L

(* record_event, for the event in hand. *)
LEMMA RecordClock ==
  ASSUME WebTypes, ClockInv, NEW t \in 0..MaxTime, Record(t), t <= now, now' = now,
         \A i \in DOMAIN recorded : recorded[i] <= t, ws' = Idle
  PROVE  ClockInv'
<1>0. /\ recorded \in Seq(Nat) /\ recent \in Seq(Nat) /\ now \in Nat /\ t \in Nat
      /\ \A i, j \in DOMAIN recorded : i < j => recorded[i] <= recorded[j]
  BY Bounds DEF WebTypes, ClockInv, RecordedInOrder
<1>1. PICK d \in Nat : IsSuffix(recent, recorded, d, now)
  BY DEF ClockInv, RecentIsSuffix
<1> DEFINE A == Append(recorded, t)
           L == Append(recent, t)
<1>2. /\ IsSuffix(L, A, d, now) /\ A \in Seq(Nat) /\ L \in Seq(Nat)
      /\ \A i, j \in DOMAIN A : i < j => A[i] <= A[j]
      /\ \A i \in DOMAIN A : A[i] <= t /\ A[i] \in Nat
  <2>1. A \in Seq(Nat) /\ L \in Seq(Nat)
    BY <1>0
  <2>2. \A i \in DOMAIN A : A[i] \in Nat
    <3> HIDE DEF A
    <3>. QED BY <2>1
  <2>3. /\ IsSuffix(L, A, d, now) /\ \A i, j \in DOMAIN A : i < j => A[i] <= A[j]
        /\ \A i \in DOMAIN A : A[i] <= t
    BY <1>0, <1>1, AppendInOrder
  <2>. QED BY <2>1, <2>2, <2>3
<1>3. recorded' = A /\ recent' = Prune(L, t)
  BY DEF Record
<1> HIDE DEF A, L
<1>4. \E e \in Nat : IsSuffix(Prune(L, t), A, e, now)
  BY <1>0, <1>2, PruneSuffix
<1>5. RecordedInOrder'
  <2>1. \A i \in DOMAIN A : A[i] <= now
    BY <1>0, <1>2
  <2>. QED BY <1>2, <1>3, <2>1 DEF RecordedInOrder
<1>. QED BY <1>3, <1>4, <1>5 DEF ClockInv, RecentIsSuffix

LEMMA ClockFrame ==
  ASSUME ClockInv, UNCHANGED <<now, ws, recent, recorded>>
  PROVE  ClockInv'
BY DEF ClockInv, RecordedInOrder, RecentIsSuffix

LEMMA ClockAdd ==
  ASSUME WebTypes, ClockInv, NEW row \in Event, AddToBuffer(row), row.ts <= now, now' = now,
         \A i \in DOMAIN recorded : recorded[i] <= row.ts
  PROVE  ClockInv'
<1>1. CASE Len(buffer') >= BatchSize
  <2>1. ws' = [at |-> "commit", row |-> row] /\ UNCHANGED <<now, recent, recorded>>
    BY <1>1 DEF AddToBuffer
  <2>2. ws'.row = row
    BY <2>1
  <2>3. RecordedInOrder'
    BY <2>1, <2>2 DEF ClockInv, RecordedInOrder
  <2>4. RecentIsSuffix'
    BY <2>1 DEF ClockInv, RecentIsSuffix
  <2>. QED BY <2>3, <2>4 DEF ClockInv
<1>2. CASE ~(Len(buffer') >= BatchSize)
  <2>1. ws' = Idle /\ Record(row.ts) /\ row.ts \in 0..MaxTime
    BY <1>2 DEF AddToBuffer, Event
  <2>. QED BY <2>1, RecordClock
<1>. QED BY <1>1, <1>2

LEMMA ClockNext ==
  ASSUME WebTypes, ClockInv, [Next]_vars
  PROVE  ClockInv'
<1>0. /\ now \in Nat /\ recorded \in Seq(Nat) /\ recent \in Seq(Nat)
      /\ \A i \in DOMAIN recorded : recorded[i] \in Nat
  BY Bounds DEF WebTypes
<1>h. ws # Idle => ws.row \in Event /\ ws.row.ts \in 0..MaxTime /\ ws.row.ts \in Nat
  BY Bounds DEF WebTypes, Event
<1>1. CASE Tick
  <2>1. now' = now + 1 /\ UNCHANGED <<ws, recent, recorded>>
    BY <1>1 DEF Tick, ingest
  <2>2. RecordedInOrder'
    <3>1. \A i \in DOMAIN recorded : recorded[i] <= now + 1
      BY <1>0 DEF ClockInv, RecordedInOrder
    <3>2. ws # Idle => ws.row.ts <= now + 1
      BY <1>0, <1>h DEF ClockInv, RecordedInOrder
    <3>. QED BY <2>1, <3>1, <3>2 DEF ClockInv, RecordedInOrder
  <2>3. RecentIsSuffix'
    <3>1. PICK d \in Nat : IsSuffix(recent, recorded, d, now)
      BY DEF ClockInv, RecentIsSuffix
    <3>2. \A i \in 1..d : recorded[i] < (now + 1) - HourLen
      <4>1. \A i \in 1..d : i \in DOMAIN recorded /\ recorded[i] < now - HourLen
        BY <1>0, <3>1 DEF IsSuffix
      <4>. QED BY <1>0, <4>1, Bounds
    <3>. QED BY <2>1, <3>1, <3>2 DEF IsSuffix, RecentIsSuffix
  <2>. QED BY <2>2, <2>3 DEF ClockInv
<1>2. ASSUME NEW a \in Areas, Receive(a) PROVE ClockInv'
  <2> DEFINE row == [area |-> a, ts |-> now]
  <2>1. row \in Event /\ row.ts = now /\ now' = now /\ ws = Idle
    BY <1>2 DEF WebTypes, Event, Receive
  <2>2. \A i \in DOMAIN recorded : recorded[i] <= row.ts
    BY <2>1 DEF ClockInv, RecordedInOrder
  <2>3. CASE commit = NoCommit
    <3>1. AddToBuffer(row)
      BY <1>2, <2>3 DEF Receive
    <3>2. row.ts <= now
      BY <1>0, <2>1
    <3> HIDE DEF row
    <3>. QED BY <2>1, <2>2, <3>1, <3>2, ClockAdd
  <2>4. CASE commit # NoCommit
    <3>1. ws' = [at |-> "submit", row |-> row] /\ UNCHANGED <<recent, recorded>>
      BY <1>2, <2>4 DEF Receive
    <3>2. ws'.row.ts = now
      BY <3>1
    <3>3. RecordedInOrder'
      BY <1>0, <2>1, <3>1, <3>2 DEF ClockInv, RecordedInOrder
    <3>4. RecentIsSuffix'
      BY <2>1, <3>1 DEF ClockInv, RecentIsSuffix
    <3>. QED BY <3>3, <3>4 DEF ClockInv
  <2>. QED BY <2>3, <2>4
<1>3. CASE SubmitResumes
  <2>1. ws # Idle /\ AddToBuffer(ws.row) /\ now' = now
    BY <1>3 DEF SubmitResumes, Idle
  <2>2. ws.row \in Event /\ ws.row.ts <= now /\ \A i \in DOMAIN recorded : recorded[i] <= ws.row.ts
    BY <1>h, <2>1 DEF ClockInv, RecordedInOrder
  <2>. QED BY <2>1, <2>2, ClockAdd
<1>4. CASE SubmitReturns
  <2>1. ws # Idle /\ Record(ws.row.ts) /\ now' = now /\ ws' = Idle
    BY <1>4 DEF SubmitReturns, Idle
  <2>2. ws.row.ts \in 0..MaxTime /\ ws.row.ts <= now
        /\ \A i \in DOMAIN recorded : recorded[i] <= ws.row.ts
    BY <1>h, <2>1 DEF ClockInv, RecordedInOrder
  <2>. QED BY <2>1, <2>2, RecordClock
<1>5. CASE Health
  <2>1. recent' = Prune(recent, now) /\ UNCHANGED <<now, ws, recorded>>
    BY <1>5 DEF Health, ingest
  <2>2. PICK d \in Nat : IsSuffix(recent, recorded, d, now)
    BY DEF ClockInv, RecentIsSuffix
  <2>3. \E e \in Nat : IsSuffix(Prune(recent, now), recorded, e, now)
    BY <1>0, <2>2, PruneSuffix DEF ClockInv, RecordedInOrder
  <2>4. RecentIsSuffix'
    BY <2>1, <2>3 DEF RecentIsSuffix
  <2>. QED BY <2>1, <2>4 DEF ClockInv, RecordedInOrder
<1>6. CASE \/ InsertEvents \/ (\E k \in Keys : IncrementCounter(k)) \/ (\E a \in Areas : BumpEntity(a))
           \/ BeginRefresh \/ UpsertEntities \/ Rooms \/ Paging \/ UNCHANGED vars
  <2>1. UNCHANGED <<now, ws, recent, recorded>>
    BY <1>6 DEF InsertEvents, IncrementCounter, BumpEntity, BeginRefresh, UpsertEntities, Rooms,
                Paging, OpenRooms, QueryCounters, RoomsShown, ReadEntities, FollowCursor, EndWalk,
                FirstPage, vars, ingest
  <2>. QED BY <2>1, ClockFrame
<1>. QED BY <1>1, <1>2, <1>3, <1>4, <1>5, <1>6 DEF Next, Ingest

(* events_per_hour of /api/health is exact to the millisecond: neither the  *)
(* pruning of record_event, by the time of an event that waited for the     *)
(* lock, nor that of an earlier request drops an event still in the hour,   *)
(* and none that has left it is counted.                                    *)
THEOREM EventsPerHourCorrect == Spec => EventsPerHourExact
<1>1. Init => ClockInv
  <2> SUFFICES ASSUME Init PROVE ClockInv
    OBVIOUS
  <2>1. RecordedInOrder
    BY DEF Init, RecordedInOrder
  <2>2. IsSuffix(recent, recorded, 0, now)
    BY DEF Init, IsSuffix
  <2>. QED BY <2>1, <2>2 DEF ClockInv, RecentIsSuffix
<1>2. WebTypes /\ ClockInv /\ [Next]_vars => ClockInv'
  BY ClockNext
<1>3. ASSUME WebTypes, ClockInv, Health
      PROVE  Len(recent') = Cardinality({i \in DOMAIN recorded : recorded[i] >= now - HourLen})
  <2>0. /\ now \in Nat /\ recorded \in Seq(Nat) /\ recent \in Seq(Nat) /\ Len(recorded) \in Nat
        /\ DOMAIN recorded = 1..Len(recorded) /\ \A i \in DOMAIN recorded : recorded[i] \in Nat
        /\ recent' = Prune(recent, now)
    BY <1>3, Bounds DEF WebTypes, Health
  <2>1. PICK d \in Nat : IsSuffix(recent, recorded, d, now)
    BY <1>3 DEF ClockInv, RecentIsSuffix
  <2>2. PICK e \in Nat : /\ IsSuffix(Prune(recent, now), recorded, e, now)
                         /\ \A i \in (e + 1)..Len(recorded) : recorded[i] >= now - HourLen
    <3>1. now <= now /\ \A i, j \in DOMAIN recorded : i < j => recorded[i] <= recorded[j]
      BY <1>3, <2>0 DEF ClockInv, RecordedInOrder
    <3>. QED BY <2>0, <2>1, <3>1, PruneSuffix
  <2>3. e \in 0..Len(recorded) /\ Len(recent') = Len(recorded) - e
        /\ \A i \in 1..e : recorded[i] < now - HourLen
    BY <2>0, <2>2 DEF IsSuffix
  <2>4. {i \in DOMAIN recorded : recorded[i] >= now - HourLen} = (e + 1)..Len(recorded)
    <3>1. \A i \in DOMAIN recorded : recorded[i] >= now - HourLen => i \in (e + 1)..Len(recorded)
      <4> SUFFICES ASSUME NEW i \in DOMAIN recorded, i \notin (e + 1)..Len(recorded)
                   PROVE  ~(recorded[i] >= now - HourLen)
        OBVIOUS
      <4>1. i \in 1..e /\ recorded[i] \in Nat
        BY <2>0
      <4>. QED BY <2>0, <2>3, <4>1, Bounds
    <3>2. \A i \in (e + 1)..Len(recorded) : i \in DOMAIN recorded
      BY <2>0, <2>3
    <3>. QED BY <2>2, <3>1, <3>2
  <2>5. Cardinality((e + 1)..Len(recorded)) = Len(recorded) - e
    <3> DEFINE a == e + 1
               b == Len(recorded)
    <3>1. a \in Int /\ b \in Int
      BY <2>0
    <3>2. Cardinality(a..b) = IF a > b THEN 0 ELSE b - a + 1
      <4> HIDE DEF a, b
      <4>. QED BY <3>1, FS_Interval
    <3>. QED BY <2>0, <2>3, <3>2
  <2>. QED BY <2>3, <2>4, <2>5
<1>4. WebTypes /\ ClockInv /\ [Next]_vars =>
        [Health => Len(recent') = Cardinality({i \in DOMAIN recorded :
                                                 recorded[i] >= now - HourLen})]_vars
  BY <1>3
<1>. QED BY <1>1, <1>2, <1>4, TypesInductive, PTL DEF Spec, EventsPerHourExact
-----------------------------------------------------------------------------
(***************************************************************************)
(* Activity.  The buffer is in the order of the time stamps, and what is    *)
(* stamped but not in it yet comes after it.  An entity the commit has not  *)
(* bumped yet has no bump later than its events in the batch, so that the   *)
(* last of them is its newest; only a refresh writes an older time, and not *)
(* older than the refresh takes.                                            *)
(***************************************************************************)
BufferInOrder ==
  /\ \A i, j \in DOMAIN buffer : i < j => buffer[i].ts <= buffer[j].ts
  /\ \A i \in DOMAIN buffer : buffer[i].ts <= now /\ (ws.at = "submit" => buffer[i].ts <= ws.row.ts)
  /\ ws.at = "submit" => ws.row.ts <= now

NewestBehind ==
  /\ \A a \in Areas : newest[a] <= now /\ (ws.at = "submit" => newest[a] <= ws.row.ts)
  /\ commit # NoCommit => commit.ents # {}
  /\ \A i \in DOMAIN buffer :
       commit = NoCommit \/ buffer[i].area \in commit.ents => newest[buffer[i].area] <= buffer[i].ts

LastSeenClose ==
  /\ refresh # None => refresh <= now /\ now <= refresh + RefreshTime
  /\ \A a \in Areas : newest[a] <= lastSeen[a] + RefreshTime

SeenInv == BufferInOrder /\ NewestBehind /\ LastSeenClose

(* The facts about numbers that the steps below need. *)
LEMMA SeenNumbers ==
  ASSUME WebTypes
  PROVE  /\ now \in Nat /\ RefreshTime \in Nat /\ Len(buffer) \in Nat /\ DOMAIN buffer = 1..Len(buffer)
         /\ \A i \in DOMAIN buffer : buffer[i].ts \in Nat /\ buffer[i].area \in Areas
         /\ \A a \in Areas : newest[a] \in Nat /\ lastSeen[a] \in Nat
         /\ ws.at = "submit" => ws.row \in Event /\ ws.row.ts \in Nat
         /\ refresh # None => refresh \in Nat
<1>1. \A i \in DOMAIN buffer : buffer[i] \in Event
  BY DEF WebTypes
<1>2. \A e \in Event : e.ts \in Nat /\ e.area \in Areas
  BY Bounds DEF Event
<1>3. ws.at = "submit" => ws.row \in Event
  BY DEF WebTypes, Idle
<1>4. now \in Nat /\ RefreshTime \in Nat /\ Len(buffer) \in Nat /\ DOMAIN buffer = 1..Len(buffer)
  BY Bounds DEF WebTypes
<1>5. \A a \in Areas : newest[a] \in Nat /\ lastSeen[a] \in Nat
  BY DEF WebTypes
<1>6. refresh # None => refresh \in Nat
  BY DEF WebTypes
<1>. QED BY <1>1, <1>2, <1>3, <1>4, <1>5, <1>6

LEMMA SeenAdd ==
  ASSUME WebTypes, SeenInv, NEW row \in Event, AddToBuffer(row), commit = NoCommit, row.ts <= now,
         \A i \in DOMAIN buffer : buffer[i].ts <= row.ts, \A a \in Areas : newest[a] <= row.ts,
         UNCHANGED <<now, commit, lastSeen, refresh, newest>>
  PROVE  SeenInv'
<1>0. /\ Len(buffer) \in Nat /\ DOMAIN buffer = 1..Len(buffer) /\ buffer' = Append(buffer, row)
      /\ DOMAIN buffer' = 1..(Len(buffer) + 1) /\ ws'.at # "submit"
      /\ \A i \in DOMAIN buffer : buffer'[i] = buffer[i]
      /\ buffer'[Len(buffer) + 1] = row /\ row.area \in Areas
  <2>1. buffer \in Seq(Event) /\ buffer' = Append(buffer, row)
    BY DEF WebTypes, AddToBuffer
  <2>2. /\ Len(buffer) \in Nat /\ DOMAIN buffer = 1..Len(buffer)
        /\ DOMAIN buffer' = 1..(Len(buffer) + 1)
        /\ \A i \in DOMAIN buffer : buffer'[i] = buffer[i]
        /\ buffer'[Len(buffer) + 1] = row
    BY <2>1
  <2>3. ws'.at # "submit"
    <3>1. ws' = [at |-> "commit", row |-> row] \/ ws' = [at |-> "recv", row |-> None]
      BY DEF AddToBuffer, Idle
    <3>. QED BY <3>1
  <2>4. row.area \in Areas
    BY DEF Event
  <2>. QED BY <2>1, <2>2, <2>3, <2>4
<1>1. BufferInOrder'
  <2>1. ASSUME NEW i \in DOMAIN buffer', NEW j \in DOMAIN buffer', i < j
        PROVE  buffer'[i].ts <= buffer'[j].ts
    <3>1. i \in DOMAIN buffer /\ (j \in DOMAIN buffer \/ j = Len(buffer) + 1)
      BY <1>0, <2>1
    <3>. QED BY <1>0, <2>1, <3>1 DEF SeenInv, BufferInOrder
  <2>2. ASSUME NEW i \in DOMAIN buffer' PROVE buffer'[i].ts <= now
    <3>1. i \in DOMAIN buffer \/ i = Len(buffer) + 1
      BY <1>0, <2>2
    <3>. QED BY <1>0, <3>1 DEF SeenInv, BufferInOrder
  <2>. QED BY <1>0, <2>1, <2>2 DEF BufferInOrder
<1>2. NewestBehind'
  <2>1. ASSUME NEW i \in DOMAIN buffer' PROVE newest[buffer'[i].area] <= buffer'[i].ts
    <3>1. i \in DOMAIN buffer \/ i = Len(buffer) + 1
      BY <1>0, <2>1
    <3>. QED BY <1>0, <3>1 DEF SeenInv, NewestBehind
  <2>. QED BY <1>0, <2>1 DEF SeenInv, NewestBehind
<1>3. LastSeenClose'
  BY DEF SeenInv, LastSeenClose
<1>. QED BY <1>1, <1>2, <1>3 DEF SeenInv

LEMMA SeenBump ==
  ASSUME WebTypes, BatchEntities, SeenInv, NEW a \in Areas, BumpEntity(a)
  PROVE  SeenInv'
<1>0. /\ commit.keys = {} /\ a \in commit.ents
      /\ lastSeen' = [lastSeen EXCEPT ![a] = LastOfBatch(a)]
      /\ newest' = [newest EXCEPT ![a] = Max({newest[a]} \cup Stamps(a))]
      /\ commit' = [commit EXCEPT !.ents = @ \ {a}]
      /\ buffer' = IF commit.ents = {a} THEN <<>> ELSE buffer
      /\ UNCHANGED <<now, ws, refresh>>
  BY DEF BumpEntity, Stamps
<1>1. PICK m \in DOMAIN buffer :
              /\ buffer[m].area = a /\ LastOfBatch(a) = buffer[m].ts
              /\ \A i \in DOMAIN buffer : buffer[i].area = a => i <= m
  BY <1>0, BumpStamps
<1>n. /\ buffer[m].ts \in Nat /\ newest[a] \in Nat /\ Len(buffer) \in Nat
      /\ DOMAIN buffer = 1..Len(buffer) /\ \A i \in DOMAIN buffer : buffer[i].ts \in Nat
      /\ now \in Nat /\ RefreshTime \in Nat
  BY SeenNumbers
<1>2. newest[a] <= buffer[m].ts /\ buffer[m].ts <= now
      /\ (ws.at = "submit" => buffer[m].ts <= ws.row.ts)
  BY <1>0, <1>1 DEF SeenInv, NewestBehind, BufferInOrder
<1>3. \A y \in Stamps(a) : y <= buffer[m].ts
  <2>1. ASSUME NEW i \in DOMAIN buffer, buffer[i].area = a PROVE buffer[i].ts <= buffer[m].ts
    <3>1. i < m \/ i = m
      BY <1>1, <1>n, <2>1
    <3>. QED BY <1>n, <3>1 DEF SeenInv, BufferInOrder
  <2>. QED BY <2>1 DEF Stamps
<1>4. Max({newest[a]} \cup Stamps(a)) = buffer[m].ts
  <2> DEFINE x == Max({newest[a]} \cup Stamps(a))
  <2>1. /\ x \in {newest[a]} \cup Stamps(a) /\ \A y \in {newest[a]} \cup Stamps(a) : y <= x
        /\ Stamps(a) \subseteq 0..MaxTime
    BY <1>0, BumpStamps
  <2>2. buffer[m].ts \in Stamps(a)
    BY <1>1 DEF Stamps
  <2> HIDE DEF x
  <2>3. x <= buffer[m].ts /\ buffer[m].ts <= x /\ x \in Nat
    BY <1>2, <1>3, <1>n, <2>1, <2>2
  <2>4. x = buffer[m].ts
    BY <1>n, <2>3
  <2>. QED BY <2>4 DEF x
<1>5. /\ newest'[a] = buffer[m].ts /\ lastSeen'[a] = buffer[m].ts
      /\ \A b \in Areas : b # a => newest'[b] = newest[b] /\ lastSeen'[b] = lastSeen[b]
  BY <1>0, <1>1, <1>4 DEF WebTypes
<1>6. BufferInOrder'
  <2>1. CASE buffer' = <<>>
    BY <1>0, <2>1 DEF SeenInv, BufferInOrder
  <2>2. CASE buffer' = buffer
    BY <1>0, <2>2 DEF SeenInv, BufferInOrder
  <2>. QED BY <1>0, <2>1, <2>2
<1>7. NewestBehind'
  <2>1. \A b \in Areas : newest'[b] <= now /\ (ws.at = "submit" => newest'[b] <= ws.row.ts)
    BY <1>2, <1>5 DEF SeenInv, NewestBehind
  <2>2. commit'.keys = {} /\ commit'.ents = commit.ents \ {a}
    BY <1>0 DEF WebTypes
  <2>3. commit' # NoCommit => commit'.ents # {}
    <3>1. commit' = [keys |-> commit'.keys, ents |-> commit'.ents]
      BY <1>0 DEF WebTypes
    <3>. QED BY <2>2, <3>1 DEF NoCommit
  <2>4. ASSUME NEW i \in DOMAIN buffer', commit' = NoCommit \/ buffer'[i].area \in commit'.ents
        PROVE  newest'[buffer'[i].area] <= buffer'[i].ts
    <3>1. buffer' = buffer /\ commit.ents # {a}
      BY <1>0, <2>4
    <3>2. commit' # NoCommit
      <4>1. commit'.ents # {}
        BY <1>0, <2>2, <3>1
      <4>. QED BY <4>1 DEF NoCommit
    <3>3. buffer[i].area \in commit.ents /\ buffer[i].area # a /\ i \in DOMAIN buffer
      BY <2>2, <2>4, <3>1, <3>2
    <3>4. buffer[i].area \in Areas /\ newest[buffer[i].area] <= buffer[i].ts
      BY <3>3, SeenNumbers DEF SeenInv, NewestBehind
    <3>. QED BY <1>5, <3>1, <3>3, <3>4
  <2>. QED BY <1>0, <2>1, <2>3, <2>4 DEF NewestBehind
<1>8. LastSeenClose'
  <2>1. newest'[a] <= lastSeen'[a] + RefreshTime
    BY <1>5, <1>n
  <2>. QED BY <1>0, <1>5, <2>1 DEF SeenInv, LastSeenClose
<1>. QED BY <1>6, <1>7, <1>8 DEF SeenInv

LEMMA SeenFrame ==
  ASSUME SeenInv, UNCHANGED <<now, ws, buffer, commit, lastSeen, refresh, newest>>
  PROVE  SeenInv'
BY DEF SeenInv, BufferInOrder, NewestBehind, LastSeenClose

LEMMA SeenNext ==
  ASSUME WebTypes, BatchEntities, SeenInv, [Next]_vars
  PROVE  SeenInv'
<1>0. /\ now \in Nat /\ RefreshTime \in Nat /\ Len(buffer) \in Nat /\ DOMAIN buffer = 1..Len(buffer)
      /\ \A i \in DOMAIN buffer : buffer[i].ts \in Nat /\ buffer[i].area \in Areas
      /\ \A a \in Areas : newest[a] \in Nat /\ lastSeen[a] \in Nat
      /\ ws.at = "submit" => ws.row \in Event /\ ws.row.ts \in Nat
      /\ refresh # None => refresh \in Nat
  BY SeenNumbers
<1>1. CASE Tick
  <2>1. /\ now' = now + 1 /\ (refresh # None => now < refresh + RefreshTime)
        /\ UNCHANGED <<ws, buffer, commit, lastSeen, refresh, newest>>
    BY <1>1 DEF Tick, ingest
  <2>2. BufferInOrder'
    <3>1. \A i \in DOMAIN buffer : buffer[i].ts <= now + 1
      BY <1>0 DEF SeenInv, BufferInOrder
    <3>2. ws.at = "submit" => ws.row.ts <= now + 1
      BY <1>0 DEF SeenInv, BufferInOrder
    <3>. QED BY <2>1, <3>1, <3>2 DEF SeenInv, BufferInOrder
  <2>3. NewestBehind'
    <3>1. \A a \in Areas : newest[a] <= now + 1
      BY <1>0 DEF SeenInv, NewestBehind
    <3>. QED BY <2>1, <3>1 DEF SeenInv, NewestBehind
  <2>4. LastSeenClose'
    <3>1. refresh # None => refresh <= now + 1 /\ now + 1 <= refresh + RefreshTime
      BY <1>0, <2>1 DEF SeenInv, LastSeenClose
    <3>. QED BY <2>1, <3>1 DEF SeenInv, LastSeenClose
  <2>. QED BY <2>2, <2>3, <2>4 DEF SeenInv
<1>2. ASSUME NEW a \in Areas, Receive(a) PROVE SeenInv'
  <2> DEFINE row == [area |-> a, ts |-> now]
  <2>1. row \in Event /\ row.ts = now /\ UNCHANGED <<now, commit, lastSeen, refresh, newest>>
    BY <1>2 DEF WebTypes, Event, Receive
  <2>2. /\ row.ts <= now /\ \A i \in DOMAIN buffer : buffer[i].ts <= row.ts
        /\ \A b \in Areas : newest[b] <= row.ts
    BY <1>0, <2>1 DEF SeenInv, BufferInOrder, NewestBehind
  <2>3. CASE commit = NoCommit
    <3>1. AddToBuffer(row)
      BY <1>2, <2>3 DEF Receive
    <3> HIDE DEF row
    <3>. QED BY <2>1, <2>2, <2>3, <3>1, SeenAdd
  <2>4. CASE commit # NoCommit
    <3>1. ws' = [at |-> "submit", row |-> row] /\ UNCHANGED buffer
      BY <1>2, <2>4 DEF Receive
    <3>2. ws'.row.ts = now /\ ws'.at = "submit" /\ now <= now
      BY <1>0, <3>1
    <3>3. BufferInOrder'
      BY <2>1, <3>1, <3>2 DEF SeenInv, BufferInOrder
    <3>4. NewestBehind'
      BY <2>1, <3>1, <3>2 DEF SeenInv, NewestBehind
    <3>5. LastSeenClose'
      BY <2>1 DEF SeenInv, LastSeenClose
    <3>. QED BY <3>3, <3>4, <3>5 DEF SeenInv
  <2>. QED BY <2>3, <2>4
<1>3. CASE SubmitResumes
  <2>1. /\ ws.at = "submit" /\ commit = NoCommit /\ AddToBuffer(ws.row)
        /\ UNCHANGED <<now, commit, lastSeen, refresh, newest>>
    BY <1>3 DEF SubmitResumes
  <2>2. /\ ws.row \in Event /\ ws.row.ts <= now /\ \A i \in DOMAIN buffer : buffer[i].ts <= ws.row.ts
        /\ \A a \in Areas : newest[a] <= ws.row.ts
    BY <1>0, <2>1 DEF SeenInv, BufferInOrder, NewestBehind
  <2>. QED BY <2>1, <2>2, SeenAdd
<1>4. CASE SubmitReturns
  <2>1. ws'.at # "submit" /\ UNCHANGED <<now, buffer, commit, lastSeen, refresh, newest>>
    BY <1>4 DEF SubmitReturns, Idle
  <2>. QED BY <2>1 DEF SeenInv, BufferInOrder, NewestBehind, LastSeenClose
<1>5. CASE InsertEvents
  <2>1. /\ commit = NoCommit /\ buffer # <<>>
        /\ commit'.ents = {buffer[i].area : i \in DOMAIN buffer}
        /\ UNCHANGED <<now, ws, buffer, lastSeen, refresh, newest>>
    BY <1>5 DEF InsertEvents
  <2>2. commit'.ents # {}
    <3>1. 1 \in DOMAIN buffer
      BY <1>0, <2>1 DEF WebTypes
    <3>. QED BY <2>1, <3>1
  <2>3. BufferInOrder' /\ LastSeenClose'
    BY <2>1 DEF SeenInv, BufferInOrder, LastSeenClose
  <2>4. NewestBehind'
    BY <2>1, <2>2 DEF SeenInv, NewestBehind
  <2>. QED BY <2>3, <2>4 DEF SeenInv
<1>6. ASSUME NEW k \in Keys, IncrementCounter(k) PROVE SeenInv'
  <2>1. /\ commit.keys # {} /\ commit'.ents = commit.ents
        /\ UNCHANGED <<now, ws, buffer, lastSeen, refresh, newest>>
    BY <1>6 DEF IncrementCounter, WebTypes
  <2>2. commit # NoCommit /\ commit.ents # {} /\ commit' # NoCommit
    BY <2>1 DEF SeenInv, NewestBehind, NoCommit
  <2>3. BufferInOrder' /\ LastSeenClose'
    BY <2>1 DEF SeenInv, BufferInOrder, LastSeenClose
  <2>4. NewestBehind'
    BY <2>1, <2>2 DEF SeenInv, NewestBehind
  <2>. QED BY <2>3, <2>4 DEF SeenInv
<1>7. ASSUME NEW a \in Areas, BumpEntity(a) PROVE SeenInv'
  BY <1>7, SeenBump
<1>8. CASE BeginRefresh
  <2>1. refresh' = now /\ UNCHANGED <<now, ws, buffer, commit, lastSeen, newest>>
    BY <1>8 DEF BeginRefresh, ingest
  <2>2. BufferInOrder' /\ NewestBehind'
    BY <2>1 DEF SeenInv, BufferInOrder, NewestBehind
  <2>3. LastSeenClose'
    BY <1>0, <2>1 DEF SeenInv, LastSeenClose
  <2>. QED BY <2>2, <2>3 DEF SeenInv
<1>9. CASE UpsertEntities
  <2>1. /\ refresh # None /\ lastSeen' = [a \in Areas |-> refresh] /\ refresh' = None
        /\ UNCHANGED <<now, ws, buffer, commit, newest>>
    BY <1>9 DEF UpsertEntities, ingest
  <2>2. BufferInOrder' /\ NewestBehind'
    BY <2>1 DEF SeenInv, BufferInOrder, NewestBehind
  <2>3. \A a \in Areas : newest[a] <= refresh + RefreshTime
    BY <1>0, <2>1 DEF SeenInv, LastSeenClose, NewestBehind
  <2>4. LastSeenClose'
    BY <2>1, <2>3 DEF LastSeenClose
  <2>. QED BY <2>2, <2>4 DEF SeenInv
<1>10. CASE Health \/ Rooms \/ Paging \/ UNCHANGED vars
  <2>1. UNCHANGED <<now, ws, buffer, commit, lastSeen, refresh, newest>>
    BY <1>10 DEF Health, Rooms, Paging, OpenRooms, QueryCounters, RoomsShown, ReadEntities,
                 FollowCursor, EndWalk, FirstPage, vars, ingest
  <2>. QED BY <2>1, SeenFrame
<1>. QED BY <1>1, <1>2, <1>3, <1>4, <1>5, <1>6, <1>7, <1>8, <1>9, <1>10 DEF Next, Ingest

(* A room is shown active whenever one of its events was written before its *)
(* entities were read and is less than ten minutes, less the time of a      *)
(* refresh, old: bump_entity never goes back in time, whatever the order of *)
(* the batches, and upsert_entities goes back by at most that time.         *)
THEOREM ActiveAfterEventCorrect == Spec => ActiveAfterEvent
<1>1. Init => SeenInv
  <2> SUFFICES ASSUME Init PROVE SeenInv
    OBVIOUS
  <2>1. /\ buffer = <<>> /\ now = 0 /\ ws.at = "recv" /\ commit = NoCommit /\ refresh = None
        /\ \A a \in Areas : newest[a] = 0 /\ lastSeen[a] = 0
    BY DEF Init, Idle
  <2>. QED BY <2>1, Bounds DEF SeenInv, BufferInOrder, NewestBehind, LastSeenClose
<1>2. WebTypes /\ BatchEntities /\ SeenInv /\ [Next]_vars => SeenInv'
  BY SeenNext
<1>3. ASSUME WebTypes, SeenInv, NEW a \in Areas, ReadEntities(a),
             newest[a] > page.cutoff + RefreshTime
      PROVE  page'.active[a]
  <2>1. /\ newest[a] \in Nat /\ lastSeen[a] \in Nat /\ RefreshTime \in Nat
        /\ newest[a] <= lastSeen[a] + RefreshTime
    BY <1>3, SeenNumbers DEF SeenInv, LastSeenClose
  <2>2. page \in Page /\ page.cutoff \in Int
    BY <1>3 DEF WebTypes, Page, ReadEntities
  <2>3. lastSeen[a] > page.cutoff
    BY <1>3, <2>1, <2>2
  <2>4. page'.active[a] = (lastSeen[a] > page.cutoff)
    BY <1>3, <2>2 DEF ReadEntities, Page
  <2>. QED BY <2>3, <2>4
<1>4. WebTypes /\ SeenInv /\ [Next]_vars =>
        [\A a \in Areas : ReadEntities(a) /\ newest[a] > page.cutoff + RefreshTime
                            => page'.active[a]]_vars
  BY <1>3
<1>. QED BY <1>1, <1>2, <1>4, TypesInductive, PTL DEF Spec, ActiveAfterEvent
-----------------------------------------------------------------------------
(***************************************************************************)
(* The day.  What a commit has inserted and not counted yet is still in the *)
(* buffer, which nobody appends to meanwhile: per key, the counter and that *)
(* part of the buffer make up the rows.  A page keeps the rows that were    *)
(* counted when it took its hour, and counters only grow after that.        *)
(***************************************************************************)
RowsAt(S, k) == {i \in S : KeyOf(rows[i]) = k}
BufferAt(k) == {i \in DOMAIN buffer : KeyOf(buffer[i]) = k}
Pending(k) == IF k \in commit.keys THEN Cardinality(BufferAt(k)) ELSE 0

RowsCounted ==
  \A k \in Keys : counters[k] + Pending(k) = Cardinality(RowsAt(DOMAIN rows, k))

PageCounted ==
  /\ page.counted \subseteq DOMAIN rows
  /\ \A k \in Keys : Cardinality(RowsAt(page.counted, k)) <= counters[k]

CountInv == RowsCounted /\ PageCounted

(* An hour is the quotient of a time: what is in a window of whole hours.   *)
LEMMA BucketBounds ==
  ASSUME NEW x \in Nat
  PROVE  Bucket(x) \in Nat /\ Bucket(x) * HourLen <= x /\ x < Bucket(x) * HourLen + HourLen
<1>0. HourLen \in Nat \ {0}
  BY Bounds
<1>1. x \div HourLen \in Nat
  BY <1>0
<1>2. (x \div HourLen) * HourLen <= x
  BY <1>0
<1>3. x < (x \div HourLen) * HourLen + HourLen
  BY <1>0
<1>. QED BY <1>1, <1>2, <1>3 DEF Bucket

LEMMA TimesMonotone ==
  ASSUME NEW x \in Int, NEW y \in Int, NEW h \in Nat, x <= y
  PROVE  x * h <= y * h
OBVIOUS

LEMMA TimesDifference ==
  ASSUME NEW x \in Int, NEW y \in Int, NEW h \in Int
  PROVE  (x - y) * h = x * h - y * h /\ (x + 1) * h = x * h + h /\ x * h \in Int
OBVIOUS

LEMMA WindowOfHours ==
  ASSUME NEW t \in Nat, NEW at \in Nat
  PROVE  /\ t >= at - (DayHours - 1) * HourLen => Bucket(t) > Bucket(at) - DayHours
         /\ Bucket(t) > Bucket(at) - DayHours => t >= at - DayHours * HourLen + 1
<1> DEFINE b == Bucket(t)
           c == Bucket(at)
           D == DayHours
           H == HourLen
<1>1. /\ b \in Nat /\ c \in Nat /\ b * H <= t /\ t < b * H + H /\ c * H <= at /\ at < c * H + H
  BY BucketBounds
<1>2. D \in Nat /\ H \in Nat
  BY Bounds
<1> HIDE DEF b, c, D, H
<1>3. ASSUME b <= c - D PROVE t < at - (D - 1) * H
  <2>1. (b + 1) * H <= (c - (D - 1)) * H
    BY <1>1, <1>2, <1>3, TimesMonotone
  <2>2. (b + 1) * H = b * H + H /\ (c - (D - 1)) * H = c * H - (D - 1) * H
        /\ b * H \in Int /\ c * H \in Int /\ (D - 1) * H \in Int
    BY <1>1, <1>2, TimesDifference
  <2>. QED BY <1>1, <1>2, <2>1, <2>2
<1>4. ASSUME b > c - D PROVE t >= at - D * H + 1
  <2>1. ((c + 1) - D) * H <= b * H
    BY <1>1, <1>2, <1>4, TimesMonotone
  <2>2. ((c + 1) - D) * H = (c + 1) * H - D * H /\ (c + 1) * H = c * H + H
        /\ b * H \in Int /\ c * H \in Int /\ D * H \in Int
    BY <1>1, <1>2, TimesDifference
  <2>. QED BY <1>1, <1>2, <2>1, <2>2
<1>5. (D - 1) * H \in Int
  BY <1>2
<1>. QED BY <1>1, <1>2, <1>3, <1>4, <1>5 DEF b, c, D, H

LEMMA CountTypes ==
  ASSUME WebTypes
  PROVE  /\ IsFiniteSet(DOMAIN rows) /\ IsFiniteSet(DOMAIN buffer)
         /\ \A k \in Keys : counters[k] \in Nat
         /\ \A S \in SUBSET DOMAIN rows, k \in Keys :
              Cardinality(RowsAt(S, k)) \in Nat
              /\ Cardinality(RowsAt(S, k)) <= Cardinality(RowsAt(DOMAIN rows, k))
         /\ \A k \in Keys : Cardinality(BufferAt(k)) \in Nat /\ Pending(k) \in Nat
<1>1. IsFiniteSet(DOMAIN rows) /\ IsFiniteSet(DOMAIN buffer)
  <2>1. DOMAIN rows = 1..Len(rows) /\ DOMAIN buffer = 1..Len(buffer)
        /\ Len(rows) \in Nat /\ Len(buffer) \in Nat
    BY DEF WebTypes
  <2>. QED BY <2>1, FS_Interval
<1>2. \A k \in Keys : counters[k] \in Nat
  BY DEF WebTypes
<1>3. ASSUME NEW S \in SUBSET DOMAIN rows, NEW k \in Keys
      PROVE  Cardinality(RowsAt(S, k)) \in Nat
             /\ Cardinality(RowsAt(S, k)) <= Cardinality(RowsAt(DOMAIN rows, k))
  <2>1. RowsAt(S, k) \subseteq RowsAt(DOMAIN rows, k) /\ RowsAt(DOMAIN rows, k) \subseteq DOMAIN rows
    BY DEF RowsAt
  <2>2. IsFiniteSet(RowsAt(DOMAIN rows, k))
    BY <1>1, <2>1, FS_Subset
  <2>. QED BY <2>1, <2>2, FS_Subset, FS_CardinalityType
<1>4. ASSUME NEW k \in Keys PROVE Cardinality(BufferAt(k)) \in Nat
  <2>1. BufferAt(k) \subseteq DOMAIN buffer
    BY DEF BufferAt
  <2>. QED BY <1>1, <2>1, FS_Subset, FS_CardinalityType
<1>. QED BY <1>1, <1>2, <1>3, <1>4 DEF Pending

(* rows, counters and page as they are, and no key waits or the batch stays. *)
LEMMA CountFrame ==
  ASSUME CountInv, UNCHANGED <<rows, counters, commit, page>>,
         UNCHANGED buffer \/ commit = NoCommit
  PROVE  CountInv'
<1>1. \A k \in Keys : Pending(k)' = Pending(k)
  BY DEF Pending, BufferAt, NoCommit
<1>2. \A S, k : RowsAt(S, k)' = RowsAt(S', k)
  BY DEF RowsAt
<1>3. RowsCounted'
  BY <1>1 DEF CountInv, RowsCounted, RowsAt
<1>4. PageCounted'
  BY DEF CountInv, PageCounted, RowsAt
<1>. QED BY <1>3, <1>4 DEF CountInv

LEMMA CountInsert ==
  ASSUME WebTypes, CountInv, InsertEvents
  PROVE  CountInv'
<1>0. /\ commit = NoCommit /\ rows' = rows \o buffer
      /\ commit'.keys = {KeyOf(buffer[i]) : i \in DOMAIN buffer}
      /\ UNCHANGED <<buffer, counters, page>> /\ rows \in Seq(Event) /\ buffer \in Seq(Event)
  BY DEF InsertEvents, WebTypes
<1>1. /\ Len(rows) \in Nat /\ Len(buffer) \in Nat
      /\ DOMAIN rows = 1..Len(rows) /\ DOMAIN buffer = 1..Len(buffer)
      /\ DOMAIN rows' = DOMAIN rows \cup Shift(DOMAIN buffer, Len(rows))
      /\ \A i \in DOMAIN rows : rows'[i] = rows[i]
      /\ \A i \in DOMAIN buffer : rows'[Len(rows) + i] = buffer[i]
  BY <1>0, ConcatPositions
<1>2. ASSUME NEW k \in Keys
      PROVE  (counters[k] + Pending(k) = Cardinality(RowsAt(DOMAIN rows, k)))'
  <2>1. RowsAt(DOMAIN rows, k)' = RowsAt(DOMAIN rows, k) \cup Shift(BufferAt(k), Len(rows))
    BY <1>1 DEF RowsAt, BufferAt, Shift
  <2>2. RowsAt(DOMAIN rows, k) \in SUBSET (1..Len(rows)) /\ BufferAt(k) \in SUBSET (1..Len(buffer))
    BY <1>1 DEF RowsAt, BufferAt
  <2>3. /\ Cardinality(RowsAt(DOMAIN rows, k)')
             = Cardinality(RowsAt(DOMAIN rows, k)) + Cardinality(BufferAt(k))
        /\ Cardinality(BufferAt(k)) \in Nat
    <3>1. /\ Cardinality(RowsAt(DOMAIN rows, k) \cup Shift(BufferAt(k), Len(rows)))
               = Cardinality(RowsAt(DOMAIN rows, k)) + Cardinality(BufferAt(k))
          /\ Cardinality(RowsAt(DOMAIN rows, k)) \in Nat /\ Cardinality(BufferAt(k)) \in Nat
      <4> DEFINE A == RowsAt(DOMAIN rows, k)
                 B == BufferAt(k)
                 n == Len(rows)
                 m == Len(buffer)
      <4>1. n \in Nat /\ m \in Nat /\ A \in SUBSET (1..n) /\ B \in SUBSET (1..m)
        BY <1>1, <2>2
      <4>2. /\ Cardinality(A \cup Shift(B, n)) = Cardinality(A) + Cardinality(B)
            /\ Cardinality(A) \in Nat /\ Cardinality(B) \in Nat
        <5> HIDE DEF A, B, n, m
        <5>. QED BY <4>1, SplitCardinality
      <4>. QED BY <4>2
    <3>. QED BY <2>1, <3>1
  <2>4. Pending(k)' = Cardinality(BufferAt(k))
    <3>1. CASE k \in commit'.keys
      BY <1>0, <3>1 DEF Pending, BufferAt
    <3>2. CASE k \notin commit'.keys
      <4>1. BufferAt(k) = {}
        BY <1>0, <3>2 DEF BufferAt
      <4>. QED BY <3>2, <4>1, FS_EmptySet DEF Pending
    <3>. QED BY <3>1, <3>2
  <2>5. counters[k] + 0 = Cardinality(RowsAt(DOMAIN rows, k)) /\ counters[k] \in Nat
    BY <1>0, CountTypes DEF CountInv, RowsCounted, Pending, NoCommit
  <2>. QED BY <1>0, <2>3, <2>4, <2>5
<1>3. PageCounted'
  <2>1. \A k : RowsAt(page.counted, k)' = RowsAt(page.counted, k)
    BY <1>0, <1>1 DEF RowsAt, CountInv, PageCounted
  <2>. QED BY <1>0, <1>1, <2>1 DEF CountInv, PageCounted
<1>. QED BY <1>2, <1>3 DEF CountInv, RowsCounted

LEMMA CountIncrement ==
  ASSUME WebTypes, CountInv, NEW k \in Keys, IncrementCounter(k)
  PROVE  CountInv'
<1>0. /\ k \in commit.keys /\ counters' = [counters EXCEPT ![k] = @ + Cardinality(BufferAt(k))]
      /\ commit'.keys = commit.keys \ {k} /\ UNCHANGED <<buffer, rows, page>>
      /\ counters \in [Keys -> Nat]
  BY DEF IncrementCounter, BufferAt, WebTypes
<1>1. ASSUME NEW l \in Keys
      PROVE  /\ counters'[l] + Pending(l)' = counters[l] + Pending(l)
             /\ counters[l] <= counters'[l] /\ counters[l] \in Nat /\ counters'[l] \in Nat
  <2>1. Cardinality(BufferAt(l)) \in Nat /\ counters[l] \in Nat
    BY CountTypes
  <2>2. Cardinality(BufferAt(l)') = Cardinality(BufferAt(l))
    BY <1>0 DEF BufferAt
  <2>3. CASE l = k
    <3>1. counters'[l] = counters[l] + Cardinality(BufferAt(l)) /\ Pending(l)' = 0
          /\ Pending(l) = Cardinality(BufferAt(l))
      BY <1>0, <2>3 DEF Pending
    <3>. QED BY <2>1, <3>1
  <2>4. CASE l # k
    <3>1. counters'[l] = counters[l] /\ Pending(l)' = Pending(l)
      BY <1>0, <2>2, <2>4 DEF Pending
    <3>. QED BY <2>1, <3>1
  <2>. QED BY <2>3, <2>4
<1>2. RowsCounted'
  BY <1>0, <1>1 DEF CountInv, RowsCounted, RowsAt
<1>3. PageCounted'
  <2>1. page.counted \subseteq DOMAIN rows
    BY DEF CountInv, PageCounted
  <2>2. ASSUME NEW l \in Keys PROVE Cardinality(RowsAt(page.counted, l)) <= counters'[l]
    <3>1. Cardinality(RowsAt(page.counted, l)) \in Nat
          /\ Cardinality(RowsAt(page.counted, l)) <= counters[l]
      BY <2>1, CountTypes DEF CountInv, PageCounted
    <3>. QED BY <1>1, <3>1
  <2>. QED BY <1>0, <2>1, <2>2 DEF PageCounted, RowsAt
<1>. QED BY <1>2, <1>3 DEF CountInv

(* A page takes the rows that are counted when it takes its hour. *)
LEMMA CountOpen ==
  ASSUME WebTypes, CountInv, OpenRooms
  PROVE  CountInv'
<1>0. /\ page'.counted = DOMAIN rows \ Uncounted /\ UNCHANGED <<rows, counters, commit, buffer>>
  BY DEF OpenRooms, ingest, NoPage
<1>1. RowsCounted'
  BY <1>0 DEF CountInv, RowsCounted, RowsAt, Pending, BufferAt
<1>2. ASSUME NEW k \in Keys PROVE Cardinality(RowsAt(DOMAIN rows \ Uncounted, k)) <= counters[k]
  <2>1. CASE k \in commit.keys
    <3>1. RowsAt(DOMAIN rows \ Uncounted, k) = {}
      BY <2>1 DEF RowsAt, Uncounted
    <3>2. Cardinality(RowsAt(DOMAIN rows \ Uncounted, k)) = 0 /\ counters[k] \in Nat
      BY <3>1, FS_EmptySet, CountTypes
    <3>. QED BY <3>2
  <2>2. CASE k \notin commit.keys
    <3>1. counters[k] + 0 = Cardinality(RowsAt(DOMAIN rows, k)) /\ counters[k] \in Nat
      BY <2>2, CountTypes DEF CountInv, RowsCounted, Pending
    <3>2. Cardinality(RowsAt(DOMAIN rows \ Uncounted, k)) <= Cardinality(RowsAt(DOMAIN rows, k))
      BY CountTypes
    <3>. QED BY <3>1, <3>2
  <2>. QED BY <2>1, <2>2
<1>3. PageCounted'
  BY <1>0, <1>2 DEF PageCounted, RowsAt
<1>. QED BY <1>1, <1>3 DEF CountInv

LEMMA CountNext ==
  ASSUME WebTypes, CountInv, [Next]_vars
  PROVE  CountInv'
<1>1. CASE InsertEvents
  BY <1>1, CountInsert
<1>2. ASSUME NEW k \in Keys, IncrementCounter(k) PROVE CountInv'
  BY <1>2, CountIncrement
<1>3. ASSUME NEW a \in Areas, BumpEntity(a) PROVE CountInv'
  <2>1. /\ commit.keys = {} /\ commit'.keys = {} /\ UNCHANGED <<rows, counters, page>>
    BY <1>3 DEF BumpEntity, WebTypes
  <2>2. RowsCounted'
    BY <2>1 DEF CountInv, RowsCounted, RowsAt, Pending
  <2>3. PageCounted'
    BY <2>1 DEF CountInv, PageCounted, RowsAt
  <2>. QED BY <2>2, <2>3 DEF CountInv
<1>4. ASSUME NEW a \in Areas, Receive(a) PROVE CountInv'
  <2>1. UNCHANGED <<rows, counters, commit, page>> /\ (UNCHANGED buffer \/ commit = NoCommit)
    BY <1>4 DEF Receive
  <2>. QED BY <2>1, CountFrame
<1>5. CASE SubmitResumes
  <2>1. UNCHANGED <<rows, counters, commit, page>> /\ commit = NoCommit
    BY <1>5 DEF SubmitResumes
  <2>. QED BY <2>1, CountFrame
<1>6. CASE OpenRooms
  BY <1>6, CountOpen
<1>7. CASE QueryCounters \/ \E a \in Areas : ReadEntities(a)
  <2>1. UNCHANGED <<rows, counters, commit, buffer>> /\ page'.counted = page.counted
    BY <1>7 DEF QueryCounters, ReadEntities, ingest, WebTypes, Page
  <2>. QED BY <2>1 DEF CountInv, RowsCounted, PageCounted, RowsAt, Pending, BufferAt
<1>8. CASE RoomsShown
  <2>1. UNCHANGED <<rows, counters, commit, buffer>> /\ page'.counted = {}
    BY <1>8 DEF RoomsShown, ingest, NoPage
  <2>2. RowsCounted'
    BY <2>1 DEF CountInv, RowsCounted, RowsAt, Pending, BufferAt
  <2>3. \A k \in Keys : RowsAt(page.counted, k)' = {} /\ counters[k] \in Nat
    BY <2>1, CountTypes DEF RowsAt
  <2>4. PageCounted'
    BY <2>1, <2>3, FS_EmptySet DEF PageCounted
  <2>. QED BY <2>2, <2>4 DEF CountInv
<1>9. CASE Tick \/ SubmitReturns \/ BeginRefresh \/ UpsertEntities \/ Health \/ Paging
           \/ UNCHANGED vars
  <2>1. UNCHANGED <<rows, counters, commit, page, buffer>>
    BY <1>9 DEF Tick, SubmitReturns, BeginRefresh, UpsertEntities, Health, Paging, FollowCursor,
                EndWalk, FirstPage, vars, ingest
  <2>. QED BY <2>1, CountFrame
<1>. QED BY <1>1, <1>2, <1>3, <1>4, <1>5, <1>6, <1>7, <1>8, <1>9 DEF Next, Ingest, Rooms

(* The sum of the query, between the rows of the page and all of them. *)
LEMMA ShownSum ==
  ASSUME WebTypes, CountInv, NEW S, S \subseteq Keys, NEW a \in Areas, \A k \in S : k[1] = a
  PROVE  /\ SumFunctionOnSet(counters, S) \in Nat
         /\ SumFunctionOnSet(counters, S) >= Cardinality({i \in page.counted : KeyOf(rows[i]) \in S})
         /\ SumFunctionOnSet(counters, S) <= Cardinality({i \in DOMAIN rows : KeyOf(rows[i]) \in S})
<1> DEFINE key == [i \in DOMAIN rows |-> KeyOf(rows[i])]
<1>1. IsFiniteSet(S) /\ (\A k \in S : counters[k] \in Nat) /\ IsFiniteSet(DOMAIN rows)
  <2>1. {k \in S : k[1] = a} = S
    OBVIOUS
  <2>2. IsFiniteSet(S)
    BY <2>1, HoursFinite
  <2>. QED BY <2>2, CountTypes
<1>2. page.counted \subseteq DOMAIN rows /\ IsFiniteSet(page.counted)
  BY <1>1, FS_Subset DEF CountInv, PageCounted
<1>3. ASSUME NEW C \in SUBSET DOMAIN rows, NEW s
      PROVE  WithKey(C, key, s) = {i \in C : KeyOf(rows[i]) \in s}
  BY DEF WithKey
<1>4. \A C \in SUBSET DOMAIN rows, k \in S : WithKey(C, key, {k}) = RowsAt(C, k)
  BY <1>3 DEF RowsAt
<1>5. \A k \in S : /\ counters[k] >= Cardinality(WithKey(page.counted, key, {k}))
                   /\ counters[k] <= Cardinality(WithKey(DOMAIN rows, key, {k}))
  <2> SUFFICES ASSUME NEW k \in S
               PROVE  /\ counters[k] >= Cardinality(RowsAt(page.counted, k))
                      /\ counters[k] <= Cardinality(RowsAt(DOMAIN rows, k))
    BY <1>2, <1>4
  <2>1. counters[k] + Pending(k) = Cardinality(RowsAt(DOMAIN rows, k))
        /\ Cardinality(RowsAt(page.counted, k)) <= counters[k]
    BY DEF CountInv, RowsCounted, PageCounted
  <2>2. counters[k] \in Nat /\ Pending(k) \in Nat /\ Cardinality(RowsAt(page.counted, k)) \in Nat
    BY <1>2, CountTypes
  <2>. QED BY <2>1, <2>2
<1> HIDE DEF key
<1>6. SumFunctionOnSet(counters, S) >= Cardinality(WithKey(page.counted, key, S))
  BY <1>1, <1>2, <1>5, SumCounts
<1>7. SumFunctionOnSet(counters, S) <= Cardinality(WithKey(DOMAIN rows, key, S))
  BY <1>1, <1>5, SumCounts
<1>8. SumFunctionOnSet(counters, S) \in Nat
  BY <1>1, SumType
<1>. QED BY <1>2, <1>3, <1>6, <1>7, <1>8

(* The number of a room for the last day holds every row that was counted   *)
(* when the page took its hour and is at most a day less an hour old, and   *)
(* none as old as a day, though rows are inserted and counted key by key    *)
(* between two queries of the page.                                         *)
THEOREM DayWindowCorrect == Spec => DayWindow
<1>1. Init => CountInv
  <2> SUFFICES ASSUME Init PROVE CountInv
    OBVIOUS
  <2>1. /\ rows = <<>> /\ page.counted = {} /\ commit.keys = {} /\ \A k \in Keys : counters[k] = 0
    BY DEF Init, NoPage, NoCommit
  <2>2. \A S, k : S = {} => RowsAt(S, k) = {}
    BY DEF RowsAt
  <2>3. DOMAIN rows = {} /\ Cardinality({}) = 0
    BY <2>1, FS_EmptySet
  <2>4. \A k \in Keys : Pending(k) = 0 /\ Cardinality(RowsAt(DOMAIN rows, k)) = 0
                        /\ Cardinality(RowsAt(page.counted, k)) = 0
    BY <2>1, <2>2, <2>3 DEF Pending
  <2>5. RowsCounted
    BY <2>1, <2>4 DEF RowsCounted
  <2>6. PageCounted
    BY <2>1, <2>4 DEF PageCounted
  <2>. QED BY <2>5, <2>6 DEF CountInv
<1>2. WebTypes /\ CountInv /\ [Next]_vars => CountInv'
  BY CountNext
<1>3. ASSUME WebTypes, CountInv, QueryCounters, NEW a \in Areas
      PROVE  /\ page'.shown[a] >= Cardinality({i \in page.counted : rows[i].area = a
                                   /\ rows[i].ts >= page.at - (DayHours - 1) * HourLen})
             /\ page'.shown[a] <= Cardinality({i \in DOMAIN rows : rows[i].area = a
                                   /\ rows[i].ts >= page.at - DayHours * HourLen + 1})
  <2> DEFINE S == {k \in GetCounters24h(Bucket(page.at)) : k[1] = a}
             inPage == {i \in page.counted : KeyOf(rows[i]) \in S}
             inRows == {i \in DOMAIN rows : KeyOf(rows[i]) \in S}
             young == {i \in page.counted : rows[i].area = a
                         /\ rows[i].ts >= page.at - (DayHours - 1) * HourLen}
             inDay == {i \in DOMAIN rows : rows[i].area = a
                         /\ rows[i].ts >= page.at - DayHours * HourLen + 1}
  <2>1. page.at \in Nat /\ page'.shown[a] = SumFunctionOnSet(counters, S)
    <3>1. page \in Page /\ page.at \in Nat
      BY <1>3 DEF QueryCounters, WebTypes, Page
    <3>2. page'.shown = PerArea(GetCounters24h(Bucket(page.at)))
      BY <1>3, <3>1 DEF QueryCounters, Page
    <3>. QED BY <3>1, <3>2 DEF PerArea
  <2>2. S \subseteq Keys /\ \A k \in S : k[1] = a
    BY DEF GetCounters24h
  <2>3. \A i \in DOMAIN rows : KeyOf(rows[i]) \in S <=>
          rows[i].area = a /\ Bucket(rows[i].ts) > Bucket(page.at) - DayHours
    <3>1. \A i \in DOMAIN rows : KeyOf(rows[i]) \in Keys
      BY <1>3, KeyType DEF WebTypes
    <3>. QED BY <3>1 DEF GetCounters24h, KeyOf
  <2>4. \A i \in DOMAIN rows : rows[i].ts \in Nat
    <3>1. \A i \in DOMAIN rows : rows[i] \in Event
      BY <1>3 DEF WebTypes
    <3>. QED BY <3>1, Bounds DEF Event
  <2>5. IsFiniteSet(DOMAIN rows) /\ page.counted \subseteq DOMAIN rows
    BY <1>3, CountTypes DEF CountInv, PageCounted
  <2>6. young \subseteq inPage /\ inRows \subseteq inDay
    BY <2>1, <2>3, <2>4, <2>5, WindowOfHours
  <2>7. IsFiniteSet(inPage) /\ IsFiniteSet(inDay)
    <3>1. inPage \subseteq DOMAIN rows /\ inDay \subseteq DOMAIN rows
      BY <2>5
    <3>. QED BY <2>5, <3>1, FS_Subset
  <2>8. /\ SumFunctionOnSet(counters, S) \in Nat
        /\ SumFunctionOnSet(counters, S) >= Cardinality(inPage)
        /\ SumFunctionOnSet(counters, S) <= Cardinality(inRows)
    <3> HIDE DEF S
    <3>. QED BY <1>3, <2>2, ShownSum
  <2>9. Cardinality(young) <= Cardinality(inPage) /\ Cardinality(inRows) <= Cardinality(inDay)
        /\ Cardinality(young) \in Nat /\ Cardinality(inPage) \in Nat
        /\ Cardinality(inRows) \in Nat /\ Cardinality(inDay) \in Nat
    <3> HIDE DEF young, inPage, inRows, inDay
    <3>1. IsFiniteSet(young) /\ IsFiniteSet(inRows)
      BY <2>6, <2>7, FS_Subset
    <3>. QED BY <2>6, <2>7, <3>1, FS_Subset, FS_CardinalityType
  <2>10. page'.shown[a] >= Cardinality(young) /\ page'.shown[a] <= Cardinality(inDay)
    <3> HIDE DEF S, young, inPage, inRows, inDay
    <3>. QED BY <2>1, <2>8, <2>9
  <2>. QED BY <2>10
<1>4. WebTypes /\ CountInv /\ [Next]_vars =>
        [QueryCounters =>
           \A a \in Areas :
             LET since(S, t) == Cardinality({i \in S : rows[i].area = a /\ rows[i].ts >= t}) IN
             /\ page'.shown[a] >= since(page.counted, page.at - (DayHours - 1) * HourLen)
             /\ page'.shown[a] <= since(DOMAIN rows, page.at - DayHours * HourLen + 1)]_vars
  BY <1>3
<1>. QED BY <1>1, <1>2, <1>4, TypesInductive, PTL DEF Spec, DayWindow
=============================================================================
