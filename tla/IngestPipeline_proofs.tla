----------------------- MODULE IngestPipeline_proofs -----------------------
(***************************************************************************)
(* Theorems about IngestPipeline, for every value of its constants.         *)
(***************************************************************************)
EXTENDS IngestPipeline, SequenceTheorems, FiniteSetTheorems, CountingTheorems, TLAPS

-----------------------------------------------------------------------------
(* Lemmas about the operators of the model. *)

(* The bounds are natural numbers and there is an entity. *)
LEMMA BoundsType == /\ MaxEvents \in Nat /\ MaxTime \in Nat /\ MaxFaults \in Nat
                    /\ MaxRestarts \in Nat /\ Entities # {}
BY ConstantsAssumption

(* What the index answers is an area or none, and a snapshot id or 0. *)
LEMMA LookupType ==
  ASSUME index \in Snapshots \cup {0}, NEW e \in Entities
  PROVE  AreaNow(e) \in Areas \cup {None} /\ SidOf(e) \in Snapshots \cup {0}
BY ConstantsAssumption DEF AreaNow, SidOf, Known

(* The rows built from a buffer are rows, one per buffered event. *)
LEMMA RowsType ==
  ASSUME index \in Snapshots \cup {0}, NEW buf \in Seq(Entry)
  PROVE  RowsOf(buf) \in Seq(Row) /\ Len(RowsOf(buf)) = Len(buf)
<1>1. \A i \in 1..Len(buf) : buf[i] \in Entry
  OBVIOUS
<1>2. \A i \in 1..Len(buf) : AreaNow(buf[i].entity) \in Areas \cup {None}
  BY <1>1, LookupType DEF Entry
<1>3. \A i \in 1..Len(buf) : RowsOf(buf)[i] \in Row
  BY <1>1, <1>2 DEF RowsOf, Entry, Row
<1>4. Len(buf) \in Nat
  OBVIOUS
<1>. QED
  BY <1>3, <1>4 DEF RowsOf

(* The entities of a sequence of rows are entities. *)
LEMMA EntitiesOfRows ==
  ASSUME NEW rows \in Seq(Row)
  PROVE  {rows[i].entity : i \in DOMAIN rows} \subseteq Entities
<1>1. \A i \in DOMAIN rows : rows[i] \in Row
  OBVIOUS
<1>. QED
  BY <1>1 DEF Row

(* Appending an event adds its id to the ids of a buffer. *)
LEMMA IdsOfAppend ==
  ASSUME NEW b \in Seq(Entry), NEW x \in Entry
  PROVE  {Append(b, x)[i].id : i \in DOMAIN Append(b, x)}
           = {b[i].id : i \in DOMAIN b} \cup {x.id}
<1>1. DOMAIN Append(b, x) = DOMAIN b \cup {Len(b) + 1} /\ DOMAIN b = 1..Len(b)
  OBVIOUS
<1>2. /\ \A i \in DOMAIN b : Append(b, x)[i] = b[i]
      /\ Append(b, x)[Len(b) + 1] = x
  OBVIOUS
<1>. QED BY <1>1, <1>2

(* Concatenating two tables unites their ids. *)
LEMMA IdsOfConcat ==
  ASSUME NEW a \in Seq(Row), NEW b \in Seq(Row)
  PROVE  {(a \o b)[i].id : i \in DOMAIN (a \o b)}
           = {a[i].id : i \in DOMAIN a} \cup {b[i].id : i \in DOMAIN b}
<1>1. /\ DOMAIN (a \o b) = 1..(Len(a) + Len(b)) /\ DOMAIN a = 1..Len(a)
      /\ DOMAIN b = 1..Len(b) /\ Len(a) \in Nat /\ Len(b) \in Nat
  OBVIOUS
<1>2. /\ \A i \in DOMAIN a : (a \o b)[i] = a[i]
      /\ \A i \in DOMAIN b : (a \o b)[Len(a) + i] = b[i]
  OBVIOUS
<1>3. \A i \in DOMAIN (a \o b) : i \in DOMAIN a \/ \E j \in DOMAIN b : i = Len(a) + j
  <2>1. \A i \in 1..(Len(a) + Len(b)) : i \in 1..Len(a) \/ i - Len(a) \in 1..Len(b)
    BY <1>1
  <2>2. \A i \in 1..(Len(a) + Len(b)) : i = Len(a) + (i - Len(a))
    BY <1>1
  <2>. QED BY <1>1, <2>1, <2>2
<1>4. /\ \A i \in DOMAIN a : i \in DOMAIN (a \o b)
      /\ \A j \in DOMAIN b : Len(a) + j \in DOMAIN (a \o b)
  BY <1>1
<1>. QED BY <1>2, <1>3, <1>4

(* The positions of a sequence that match a key are finitely many. *)
LEMMA MatchingFinite ==
  ASSUME NEW rows \in Seq(Row), NEW k
  PROVE  IsFiniteSet(Matching(rows, k))
<1>1. IsFiniteSet(1..Len(rows))
  BY FS_Interval
<1>2. Matching(rows, k) \subseteq 1..Len(rows)
  BY DEF Matching
<1>. QED BY <1>1, <1>2, FS_Subset

(* The hour of every clock value of the model is one of its buckets. *)
LEMMA BucketType == ASSUME NEW ts \in 0..MaxTime PROVE Bucket(ts) \in Buckets
BY DEF Buckets

-----------------------------------------------------------------------------
(* Each building block of the actions keeps the types of what it changes. *)

LEMMA ReleaseType ==
  ASSUME pc \in [Tasks -> States], NEW t \in Tasks, NEW q \in Seq(Tasks), q # <<>>,
         NEW where \in States, Release(t, q, where)
  PROVE  pc' \in [Tasks -> States] /\ lockQ' \in Seq(Tasks)
BY DEF Release

LEMMA StatesType ==
  ASSUME NEW t \in Tasks
  PROVE  Returned(t) \in States /\ Raised(t) \in States
BY DEF Tasks, States, Returned, Raised

LEMMA WaitType ==
  ASSUME TypeOK, NEW t \in Tasks, Wait(t)
  PROVE  pc' \in [Tasks -> States] /\ lockQ' \in Seq(Tasks)
BY DEF Wait, TypeOK, States

CommitType == [inserted : BOOLEAN, rows : Seq(Row), areas : SUBSET Keys,
               ents : SUBSET Entities]

LEMMA BeginCommitType ==
  ASSUME TypeOK, NEW t \in Tasks, NEW q \in Seq(Tasks), q # <<>>,
         NEW buf \in Seq(Entry), BeginCommit(t, q, buf)
  PROVE  /\ pc' \in [Tasks -> States] /\ lockQ' \in Seq(Tasks)
         /\ commit' \in CommitType
<1>1. CASE buf = <<>>
  BY <1>1, ReleaseType, StatesType DEF BeginCommit, TypeOK, CommitType
<1>2. CASE buf # <<>>
  <2>1. RowsOf(buf) \in Seq(Row)
    BY RowsType DEF TypeOK
  <2>2. {RowsOf(buf)[i].entity : i \in DOMAIN RowsOf(buf)} \subseteq Entities
    BY <2>1, EntitiesOfRows
  <2>3. PerArea(RowsOf(buf)) \subseteq Keys
    BY DEF PerArea
  <2>4. commit' \in CommitType
    <3> DEFINE r == RowsOf(buf)
               as == PerArea(r)
               es == {r[i].entity : i \in DOMAIN r}
    <3>1. commit' = [inserted |-> FALSE, rows |-> r, areas |-> as, ents |-> es]
      BY <1>2 DEF BeginCommit
    <3>2. r \in Seq(Row) /\ as \in SUBSET Keys /\ es \in SUBSET Entities
      BY <2>1, <2>2, <2>3
    <3> HIDE DEF r, as, es
    <3>. QED BY <3>1, <3>2 DEF CommitType
  <2>5. pc' \in [Tasks -> States] /\ lockQ' \in Seq(Tasks)
    BY <1>2 DEF BeginCommit, TypeOK, States
  <2>. QED BY <2>4, <2>5
<1>. QED BY <1>1, <1>2

LEMMA AddToBufferType ==
  ASSUME TypeOK, NEW entry \in Entry, NEW q \in Seq(Tasks), q # <<>>,
         AddToBuffer(entry, q)
  PROVE  /\ buffer' \in Seq(Entry) /\ firstAdded' \in {"none", "fresh", "due"}
         /\ pc' \in [Tasks -> States] /\ lockQ' \in Seq(Tasks)
         /\ commit' \in CommitType
<1>1. buffer' \in Seq(Entry) /\ firstAdded' \in {"none", "fresh", "due"}
  BY DEF AddToBuffer, TypeOK
<1>2. "ws" \in Tasks /\ "recv" \in States
  BY DEF Tasks, States
<1>3. CASE Len(buffer') >= BatchSize
  BY <1>1, <1>2, <1>3, BeginCommitType DEF AddToBuffer
<1>4. CASE ~(Len(buffer') >= BatchSize)
  BY <1>2, <1>4, ReleaseType DEF AddToBuffer, TypeOK, CommitType
<1>. QED BY <1>1, <1>3, <1>4

-----------------------------------------------------------------------------
LEMMA InitType == Init => TypeOK
<1> SUFFICES ASSUME Init PROVE TypeOK
  OBVIOUS
<1> USE ConstantsAssumption DEF Init
<1>1. NoEvent \in Entry
  BY DEF NoEvent, Entry
<1>2. NoCommit \in CommitType
  BY DEF NoCommit, CommitType
<1>3. Idle \in [Tasks -> States]
  BY DEF Idle, Tasks, States
<1>4. buffer \in Seq(Entry) /\ lockQ \in Seq(Tasks) /\ events \in Seq(Row)
  OBVIOUS
<1>5. drops \in [Buckets -> Nat] /\ counters \in [Keys -> Nat] /\ totals \in [Entities -> Nat]
  OBVIOUS
<1>. QED
  BY <1>1, <1>2, <1>3, <1>4, <1>5 DEF TypeOK, CommitType

LEMMA WsType == TypeOK /\ (WsStep \/ PrivacyDropRaises \/ \E e \in Entities : Receive(e)) => TypeOK'
<1> SUFFICES ASSUME TypeOK, WsStep \/ PrivacyDropRaises \/ \E e \in Entities : Receive(e)
             PROVE  TypeOK'
  OBVIOUS
<1> USE BoundsType DEF tables
<1>0. "ws" \in Tasks /\ {"recv", "handle", "drop"} \subseteq States
  BY DEF Tasks, States
<1>1. ASSUME NEW e \in Entities, Receive(e) PROVE TypeOK'
  <2>1. nextId' \in 0..MaxEvents /\ nextId' = nextId + 1
    <3>1. nextId \in 0..MaxEvents
      BY DEF TypeOK
    <3>2. nextId < MaxEvents /\ nextId' = nextId + 1
      BY <1>1 DEF Receive
    <3>. QED BY <3>1, <3>2, BoundsType
  <2>2. cur' = [id |-> nextId', entity |-> e, ts |-> 0, sid |-> 0]
    BY <1>1 DEF Receive, NoEvent
  <2>3. cur' \in Entry
    BY <2>1, <2>2 DEF Entry
  <2>. QED BY <1>0, <1>1, <2>1, <2>3 DEF Receive, TypeOK
<1>2. CASE Discard
  BY <1>0, <1>2 DEF Discard, TypeOK
<1>3. CASE SubmitHidden
  <2>1. cur' \in Entry
    BY <1>3 DEF SubmitHidden, Entry, TypeOK
  <2>. QED BY <1>0, <1>3, <2>1 DEF SubmitHidden, TypeOK
<1>4. CASE SubmitVisible
  <2>1. cur' \in Entry
    BY <1>4, LookupType DEF SubmitVisible, Entry, TypeOK
  <2>2. CASE lockQ = <<>>
    <3>1. AddToBuffer(cur', <<"ws">>)
      BY <1>4, <2>2 DEF SubmitVisible
    <3>2. <<"ws">> \in Seq(Tasks) /\ <<"ws">> # <<>>
      BY <1>0
    <3>. QED BY <1>4, <2>1, <3>1, <3>2, AddToBufferType DEF SubmitVisible, TypeOK, CommitType
  <2>3. CASE lockQ # <<>>
    BY <1>0, <1>4, <2>1, <2>3, WaitType DEF SubmitVisible, Wait, TypeOK
  <2>. QED BY <2>2, <2>3
<1>5. CASE SubmitResumes
  <2>1. cur \in Entry /\ lockQ \in Seq(Tasks) /\ lockQ # <<>> /\ AddToBuffer(cur, lockQ)
    BY <1>5 DEF SubmitResumes, Granted, TypeOK
  <2>. QED BY <1>5, <2>1, AddToBufferType DEF SubmitResumes, TypeOK, CommitType
<1>6. CASE IncrementPrivacyDrop
  <2>1. Bucket(cur.ts) \in Buckets
    BY BucketType DEF TypeOK, Entry
  <2>2. drops' \in [Buckets -> Nat]
    BY <1>6, <2>1 DEF IncrementPrivacyDrop, TypeOK
  <2>. QED BY <1>0, <1>6, <2>2 DEF IncrementPrivacyDrop, TypeOK
<1>7. CASE PrivacyDropRaises
  BY <1>0, <1>7 DEF PrivacyDropRaises, TypeOK
<1>. QED BY <1>1, <1>2, <1>3, <1>4, <1>5, <1>6, <1>7 DEF WsStep

LEMMA TimerType == TypeOK /\ (FlushStep \/ StopStep \/ Stop) => TypeOK'
<1> SUFFICES ASSUME TypeOK, FlushStep \/ StopStep \/ Stop PROVE TypeOK'
  OBVIOUS
<1> USE BoundsType DEF tables
<1>0. /\ "flush" \in Tasks /\ "stop" \in Tasks /\ {"done", "join", "raised"} \subseteq States
      /\ <<"flush">> \in Seq(Tasks) /\ <<"stop">> \in Seq(Tasks)
      /\ <<"flush">> # <<>> /\ <<"stop">> # <<>>
  BY DEF Tasks, States
<1>f. ASSUME NEW q \in Seq(Tasks), q # <<>>, FlushIfDue(q)
      PROVE  /\ pc' \in [Tasks -> States] /\ lockQ' \in Seq(Tasks)
             /\ commit' \in CommitType
  <2>1. CASE firstAdded = "due"
    BY <1>0, <1>f, <2>1, BeginCommitType DEF FlushIfDue, TypeOK
  <2>2. CASE firstAdded # "due"
    BY <1>0, <1>f, <2>2, ReleaseType, StatesType DEF FlushIfDue, TypeOK, CommitType
  <2>. QED BY <2>1, <2>2
<1>1. CASE FlushTick
  <2>1. CASE lockQ = <<>>
    BY <1>0, <1>1, <1>f, <2>1 DEF FlushTick, TypeOK, CommitType
  <2>2. CASE lockQ # <<>>
    BY <1>0, <1>1, <2>2, WaitType DEF FlushTick, Wait, TypeOK
  <2>. QED BY <2>1, <2>2
<1>2. CASE FlushResumes
  BY <1>2, <1>f DEF FlushResumes, Granted, TypeOK, CommitType
<1>3. CASE FlushSeesStop
  BY <1>0, <1>3 DEF FlushSeesStop, TypeOK
<1>4. CASE Stop
  BY <1>0, <1>4 DEF Stop, TypeOK
<1>5. CASE StopFlushes
  <2>1. CASE lockQ = <<>>
    <3>1. BeginCommit("stop", <<"stop">>, buffer) /\ buffer \in Seq(Entry)
      BY <1>5, <2>1 DEF StopFlushes, TypeOK
    <3>. QED BY <1>0, <1>5, <2>1, <3>1, BeginCommitType DEF StopFlushes, TypeOK, CommitType
  <2>2. CASE lockQ # <<>>
    BY <1>0, <1>5, <2>2, WaitType DEF StopFlushes, Wait, TypeOK
  <2>. QED BY <2>1, <2>2
<1>6. CASE StopResumes
  <2>1. BeginCommit("stop", lockQ, buffer) /\ buffer \in Seq(Entry) /\ lockQ \in Seq(Tasks)
        /\ lockQ # <<>>
    BY <1>6 DEF StopResumes, Granted, TypeOK
  <2>. QED BY <1>0, <1>6, <2>1, BeginCommitType DEF StopResumes, TypeOK, CommitType
<1>7. CASE StopRaises
  BY <1>0, <1>7 DEF StopRaises, TypeOK
<1>. QED BY <1>1, <1>2, <1>3, <1>4, <1>5, <1>6, <1>7 DEF FlushStep, StopStep

LEMMA CommitStepType == TypeOK /\ (CommitStep \/ CommitRaises) => TypeOK'
<1> SUFFICES ASSUME TypeOK, CommitStep \/ CommitRaises PROVE TypeOK'
  OBVIOUS
<1> USE BoundsType DEF tables
<1>0. commit \in CommitType /\ NoCommit \in CommitType
  BY DEF CommitType, NoCommit, TypeOK
<1>h. ASSUME Committing
      PROVE  lockQ \in Seq(Tasks) /\ lockQ # <<>> /\ Head(lockQ) \in Tasks
  BY <1>h DEF Committing, TypeOK
<1>1. CASE InsertEvents
  <2>1. events' \in Seq(Row)
    BY <1>0, <1>1 DEF InsertEvents, TypeOK, CommitType
  <2>2. commit' \in CommitType
    BY <1>0, <1>1 DEF InsertEvents, CommitType
  <2>. QED BY <1>1, <2>1, <2>2 DEF InsertEvents, TypeOK, CommitType
<1>2. ASSUME NEW k \in Keys, IncrementCounter(k) PROVE TypeOK'
  <2>1. commit' \in CommitType
    BY <1>0, <1>2 DEF IncrementCounter, CommitType
  <2>2. HitsIn(k) \in Nat
    BY <1>0, MatchingFinite, FS_CardinalityType DEF HitsIn, CommitType
  <2>3. counters' \in [Keys -> Nat]
    <3>1. counters \in [Keys -> Nat] /\ counters' = [counters EXCEPT ![k] = @ + HitsIn(k)]
      BY <1>2 DEF IncrementCounter, TypeOK
    <3>. QED BY <2>2, <3>1
  <2>. QED BY <1>2, <2>1, <2>3 DEF IncrementCounter, TypeOK, CommitType
<1>3. ASSUME NEW e \in Entities, BumpEntity(e) PROVE TypeOK'
  <2>1. totals' \in [Entities -> Nat]
    <3>1. totals \in [Entities -> Nat] /\ totals[e] \in Nat
      BY DEF TypeOK
    <3>2. totals' = [totals EXCEPT ![e] = IF e \in entityRows THEN @ + 1 ELSE @]
      BY <1>3 DEF BumpEntity
    <3>. QED BY <3>1, <3>2
  <2>2. CASE commit.ents = {e}
    <3>1. EndCommit /\ Committing
      BY <1>3, <2>2 DEF BumpEntity, InsertedRows
    <3>2. pc' \in [Tasks -> States] /\ lockQ' \in Seq(Tasks)
      BY <1>h, <3>1, ReleaseType, StatesType DEF EndCommit, TypeOK
    <3>3. /\ buffer' \in Seq(Entry) /\ firstAdded' \in {"none", "fresh", "due"}
          /\ commit' \in CommitType
      BY <1>0, <3>1 DEF EndCommit
    <3>. QED
      BY <1>3, <2>1, <3>2, <3>3 DEF BumpEntity, TypeOK, CommitType
  <2>3. CASE commit.ents # {e}
    <3>1. commit' \in CommitType
      <4>1. commit' = [commit EXCEPT !.ents = @ \ {e}]
        BY <1>3, <2>3 DEF BumpEntity
      <4>. QED BY <1>0, <4>1 DEF CommitType
    <3>. QED BY <1>3, <2>1, <2>3, <3>1 DEF BumpEntity, TypeOK, CommitType
  <2>. QED BY <2>2, <2>3
<1>4. CASE CommitRaises
  <2>1. Committing /\ Release(Head(lockQ), lockQ, Raised(Head(lockQ))) /\ commit' = NoCommit
    BY <1>4 DEF CommitRaises
  <2>2. pc' \in [Tasks -> States] /\ lockQ' \in Seq(Tasks)
    BY <1>h, <2>1, ReleaseType, StatesType DEF TypeOK
  <2>3. faults' \in Nat
    BY <1>4 DEF CommitRaises, TypeOK
  <2>. QED BY <1>0, <1>4, <2>1, <2>2, <2>3 DEF CommitRaises, TypeOK, CommitType
<1>. QED BY <1>1, <1>2, <1>3, <1>4 DEF CommitStep

LEMMA EnvironmentType ==
  TypeOK /\ (IntervalElapses \/ Tick \/ Restart \/ Exited
             \/ (\E s \in Snapshots : RebuildIndex(s))
             \/ (\E h \in HidePatterns : ReloadPattern(h))) => TypeOK'
<1> SUFFICES ASSUME TypeOK, IntervalElapses \/ Tick \/ Restart \/ Exited
                    \/ (\E s \in Snapshots : RebuildIndex(s))
                    \/ (\E h \in HidePatterns : ReloadPattern(h))
             PROVE TypeOK'
  OBVIOUS
<1> USE BoundsType DEF tables
<1>1. CASE IntervalElapses
  BY <1>1 DEF IntervalElapses, TypeOK
<1>2. CASE Tick
  BY <1>2 DEF Tick, TypeOK
<1>3. CASE Restart
  <2>1. NoEvent \in Entry
    BY DEF NoEvent, Entry
  <2>2. NoCommit \in CommitType
    BY DEF NoCommit, CommitType
  <2>3. Idle \in [Tasks -> States]
    BY DEF Idle, Tasks, States
  <2>4. <<>> \in Seq(Entry) /\ <<>> \in Seq(Tasks)
    OBVIOUS
  <2>. QED BY <1>3, <2>1, <2>2, <2>3, <2>4 DEF Restart, TypeOK, CommitType
<1>4. CASE Exited
  BY <1>4 DEF Exited, vars, TypeOK
<1>5. ASSUME NEW s \in Snapshots, RebuildIndex(s) PROVE TypeOK'
  BY <1>5 DEF RebuildIndex, TypeOK
<1>6. ASSUME NEW h \in HidePatterns, ReloadPattern(h) PROVE TypeOK'
  BY <1>6 DEF ReloadPattern, TypeOK
<1>. QED BY <1>1, <1>2, <1>3, <1>4, <1>5, <1>6

LEMMA NextType == TypeOK /\ [Next]_vars => TypeOK'
<1>1. TypeOK /\ UNCHANGED vars => TypeOK'
  BY DEF TypeOK, vars, tables
<1>. QED
  BY <1>1, WsType, TimerType, CommitStepType, EnvironmentType DEF Next, Environment

(* Type correctness: no interleaving of the tasks, failure of a DAO call or *)
(* restart takes a variable of the pipeline out of its type.                *)
THEOREM TypeCorrect == Spec => []TypeOK
BY InitType, NextType, PTL DEF Spec

-----------------------------------------------------------------------------
(***************************************************************************)
(* The lock.  A task that takes the free lock, or whose turn it is, finds   *)
(* nobody committing; when it leaves, nobody is committing either.          *)
(***************************************************************************)
Takes(t, q) == \/ lockQ = <<>> /\ q = <<t>>
               \/ lockQ # <<>> /\ Head(lockQ) = t /\ q = lockQ
NobodyCommits == \A u \in Tasks : pc[u] # "commit"


(* What a step outside a commit may do to one: leave it alone, or begin one. *)
FreshBatch == /\ ~commit.inserted /\ commit.areas = PerArea(commit.rows)
              /\ \A e \in commit.ents : OfEntity(commit.rows, e) # {}
Quiet == Committing' => (Committing /\ commit' = commit) \/ FreshBatch'

LEMMA NobodyCommitsLock ==
  ASSUME lockQ \in Seq(Tasks), NobodyCommits
  PROVE  LockHeld /\ ~Committing
BY DEF NobodyCommits, LockHeld, Committing

LEMMA ReleaseLock ==
  ASSUME TypeOK, LockHeld, NEW t \in Tasks, NEW q, Takes(t, q),
         NEW where, where # "commit", Release(t, q, where)
  PROVE  NobodyCommits'
BY DEF TypeOK, LockHeld, Takes, Release, NobodyCommits

LEMMA StatesNotCommit ==
  ASSUME NEW t \in Tasks
  PROVE  Returned(t) # "commit" /\ Raised(t) # "commit"
BY DEF Tasks, Returned, Raised

LEMMA BeginCommitLock ==
  ASSUME TypeOK, TypeOK', LockHeld, NEW t \in Tasks, NEW q, Takes(t, q),
         BeginCommit(t, q, buffer')
  PROVE  LockHeld' /\ BatchIsBuffer' /\ (Committing => FreshBatch)'
<1>1. CASE buffer' = <<>>
  <2>1. NobodyCommits'
    BY <1>1, ReleaseLock, StatesNotCommit DEF BeginCommit
  <2>. QED BY <2>1, NobodyCommitsLock DEF BatchIsBuffer, TypeOK, NobodyCommits, LockHeld, Committing
<1>2. CASE buffer' # <<>>
  <2>1. LockHeld'
    BY <1>2 DEF BeginCommit, Takes, TypeOK, LockHeld
  <2>2. commit'.rows = RowsOf(buffer') /\ commit'.inserted = FALSE
    BY <1>2 DEF BeginCommit
  <2>3. BatchIsBuffer'
    BY <2>2, RowsType DEF BatchIsBuffer, RowsOf, TypeOK
  <2>4. FreshBatch'
    <3>1. /\ commit'.ents = {commit'.rows[i].entity : i \in DOMAIN commit'.rows}
          /\ commit'.areas = PerArea(commit'.rows)
      BY <1>2 DEF BeginCommit
    <3>2. \A e \in commit'.ents : OfEntity(commit'.rows, e) # {}
      BY <3>1 DEF OfEntity
    <3>. QED BY <2>2, <3>1, <3>2 DEF FreshBatch
  <2>. QED BY <2>1, <2>3, <2>4
<1>. QED BY <1>1, <1>2

-----------------------------------------------------------------------------
(* A step that leaves alone everything the invariant is about preserves it. *)
core == <<nextId, pc, cur, buffer, lockQ, commit, events>>

LEMMA CoreFrame ==
  ASSUME IndInv, TypeOK', UNCHANGED core
  PROVE  IndInv' /\ Quiet
BY DEF IndInv, core, Quiet, LockHeld, BatchIsBuffer, InsertedIsStored, IdsFresh, Committing,
       BufferIds, StoredIds

(* A step of a task that neither commits nor holds the lock, and that only  *)
(* moves the task or queues it behind the holder, disturbs no commit.       *)
LEMMA CommitFrame ==
  ASSUME IndInv, TypeOK', UNCHANGED <<buffer, commit, events>>,
         NEW t \in Tasks, NEW where, pc[t] # "commit", where # "commit",
         pc' = [pc EXCEPT ![t] = where],
         lockQ' = lockQ \/ (lockQ # <<>> /\ lockQ' = Append(lockQ, t))
  PROVE  LockHeld' /\ BatchIsBuffer' /\ InsertedIsStored' /\ Quiet
<1>0. lockQ \in Seq(Tasks) /\ pc \in [Tasks -> States]
  BY DEF IndInv, TypeOK
<1>1. (lockQ # <<>> <=> lockQ' # <<>>) /\ (lockQ # <<>> => Head(lockQ') = Head(lockQ))
  BY <1>0
<1>2. LockHeld'
  BY <1>0, <1>1 DEF IndInv, LockHeld
<1>3. Committing' => Committing
  BY <1>0, <1>1 DEF Committing
<1>4. buffer' = buffer /\ commit' = commit /\ events' = events
  OBVIOUS
<1>5. BatchIsBuffer'
  BY <1>3, <1>4 DEF IndInv, BatchIsBuffer
<1>6. InsertedIsStored'
  BY <1>3, <1>4 DEF IndInv, InsertedIsStored, BufferIds, StoredIds
<1>. QED
  BY <1>2, <1>3, <1>4, <1>5, <1>6 DEF Quiet

(* submit() under the lock: the new id joins the ids of the buffer. *)
LEMMA AddToBufferInv ==
  ASSUME IndInv, TypeOK', NEW entry \in Entry, NEW q, Takes("ws", q),
         AddToBuffer(entry, q), UNCHANGED <<events, nextId>>,
         nextId > 0, entry.id = nextId
  PROVE  IndInv' /\ Quiet /\ BufferIds' = BufferIds \cup {nextId}
<1>0. "ws" \in Tasks
  BY DEF Tasks
<1>b. buffer \in Seq(Entry) /\ buffer' = Append(buffer, entry)
  BY DEF AddToBuffer, IndInv, TypeOK
<1>1. BufferIds' = BufferIds \cup {nextId}
  BY <1>b, IdsOfAppend DEF BufferIds
<1>2. CASE Len(buffer') >= BatchSize
  <2>1. BeginCommit("ws", q, buffer')
    BY <1>2 DEF AddToBuffer
  <2>2. LockHeld' /\ BatchIsBuffer' /\ InsertedIsStored' /\ Quiet
    BY <1>0, <2>1, BeginCommitLock DEF IndInv, InsertedIsStored, FreshBatch, Quiet
  <2>3. buffer' # <<>>
    BY <1>b
  <2>4. pc'["ws"] = "commit"
    BY <1>0, <2>1, <2>3 DEF BeginCommit, IndInv, TypeOK
  <2>5. IdsFresh'
    BY <1>1, <2>4 DEF IndInv, IdsFresh, StoredIds, TypeOK
  <2>. QED BY <1>1, <2>2, <2>5 DEF IndInv
<1>3. CASE ~(Len(buffer') >= BatchSize)
  <2>1. Release("ws", q, "recv")
    BY <1>3 DEF AddToBuffer
  <2>2. NobodyCommits'
    BY <1>0, <2>1, ReleaseLock DEF IndInv
  <2>3. LockHeld' /\ ~Committing'
    BY <2>2, NobodyCommitsLock DEF TypeOK, NobodyCommits, LockHeld, Committing
  <2>4. pc'["ws"] = "recv"
    BY <1>0, <2>1 DEF Release, IndInv, TypeOK
  <2>5. IdsFresh'
    BY <1>1, <2>4 DEF IndInv, IdsFresh, StoredIds, TypeOK
  <2>. QED BY <1>1, <2>3, <2>5 DEF IndInv, BatchIsBuffer, InsertedIsStored, Quiet
<1>. QED BY <1>2, <1>3

LEMMA WsInv ==
  ASSUME IndInv, TypeOK', WsStep \/ PrivacyDropRaises \/ \E e \in Entities : Receive(e)
  PROVE  IndInv' /\ Quiet
<1> USE DEF tables
<1>0. "ws" \in Tasks
  BY DEF Tasks
<1>1. ASSUME NEW e \in Entities, Receive(e) PROVE IndInv' /\ Quiet
  <2>1. LockHeld' /\ BatchIsBuffer' /\ InsertedIsStored' /\ Quiet
    <3>1. pc["ws"] # "commit" /\ pc' = [pc EXCEPT !["ws"] = "handle"] /\ lockQ' = lockQ
          /\ UNCHANGED <<buffer, commit, events>>
      BY <1>1 DEF Receive
    <3>. QED BY <1>0, <3>1, CommitFrame
  <2>2. nextId \in Nat /\ nextId' = nextId + 1 /\ cur'.id = nextId' /\ UNCHANGED <<buffer, events>>
    <3>1. nextId \in Nat
      BY BoundsType DEF IndInv, TypeOK
    <3>2. /\ nextId' = nextId + 1 /\ UNCHANGED <<buffer, events>>
          /\ cur' = [NoEvent EXCEPT !.id = nextId + 1, !.entity = e]
      BY <1>1 DEF Receive
    <3>3. cur'.id = nextId + 1
      BY <3>2 DEF NoEvent
    <3>. QED BY <3>1, <3>2, <3>3
  <2>3. IdsFresh'
    BY <2>2 DEF IndInv, IdsFresh, BufferIds, StoredIds
  <2>. QED BY <2>1, <2>3 DEF IndInv
<1>2. CASE Discard \/ IncrementPrivacyDrop \/ PrivacyDropRaises
  <2>1. /\ pc["ws"] # "commit" /\ pc' = [pc EXCEPT !["ws"] = "recv"] /\ lockQ' = lockQ
        /\ UNCHANGED <<buffer, commit, events, nextId, cur>>
    BY <1>2 DEF Discard, IncrementPrivacyDrop, PrivacyDropRaises
  <2>2. LockHeld' /\ BatchIsBuffer' /\ InsertedIsStored' /\ Quiet
    BY <1>0, <2>1, CommitFrame
  <2>3. IdsFresh'
    BY <1>0, <2>1 DEF IndInv, TypeOK, IdsFresh, BufferIds, StoredIds
  <2>. QED BY <2>2, <2>3 DEF IndInv
<1>3. CASE SubmitHidden
  <2>1. /\ pc["ws"] = "handle" /\ pc' = [pc EXCEPT !["ws"] = "drop"] /\ lockQ' = lockQ
        /\ UNCHANGED <<buffer, commit, events, nextId>>
    BY <1>3 DEF SubmitHidden
  <2>2. cur'.id = cur.id
    BY <1>3 DEF SubmitHidden, IndInv, TypeOK, Entry
  <2>3. LockHeld' /\ BatchIsBuffer' /\ InsertedIsStored' /\ Quiet
    BY <1>0, <2>1, CommitFrame
  <2>4. IdsFresh'
    BY <1>0, <2>1, <2>2 DEF IndInv, TypeOK, IdsFresh, BufferIds, StoredIds
  <2>. QED BY <2>3, <2>4 DEF IndInv
<1>4. CASE SubmitVisible
  <2>1. cur'.id = cur.id /\ cur' \in Entry
    BY <1>4 DEF SubmitVisible, IndInv, TypeOK, Entry
  <2>2. nextId > 0 /\ cur.id = nextId /\ UNCHANGED <<nextId, events>>
    BY <1>4 DEF SubmitVisible, IndInv, IdsFresh
  <2>3. CASE lockQ = <<>>
    <3>1. AddToBuffer(cur', <<"ws">>) /\ Takes("ws", <<"ws">>)
      BY <1>4, <2>3 DEF SubmitVisible, Takes
    <3>. QED BY <2>1, <2>2, <3>1, AddToBufferInv
  <2>4. CASE lockQ # <<>>
    <3>1. Wait("ws") /\ pc["ws"] = "handle"
      BY <1>4, <2>4 DEF SubmitVisible
    <3>2. /\ pc' = [pc EXCEPT !["ws"] = "wait"] /\ lockQ' = Append(lockQ, "ws")
          /\ UNCHANGED <<buffer, commit, events>>
      BY <2>2, <3>1 DEF Wait
    <3>3. LockHeld' /\ BatchIsBuffer' /\ InsertedIsStored' /\ Quiet
      BY <1>0, <2>4, <3>1, <3>2, CommitFrame
    <3>4. IdsFresh'
      BY <1>0, <2>1, <2>2, <3>1, <3>2 DEF IndInv, TypeOK, IdsFresh, BufferIds, StoredIds
    <3>. QED BY <3>3, <3>4 DEF IndInv
  <2>. QED BY <2>3, <2>4
<1>5. CASE SubmitResumes
  <2>1. /\ AddToBuffer(cur, lockQ) /\ Takes("ws", lockQ) /\ cur \in Entry
        /\ UNCHANGED <<nextId, events>>
    BY <1>5 DEF SubmitResumes, Granted, Takes, IndInv, TypeOK
  <2>2. nextId > 0 /\ cur.id = nextId
    BY <1>5 DEF SubmitResumes, Granted, IndInv, IdsFresh
  <2>. QED BY <2>1, <2>2, AddToBufferInv
<1>. QED BY <1>1, <1>2, <1>3, <1>4, <1>5 DEF WsStep

(* flush(), by whichever task calls it, leaves the ids alone. *)
LEMMA BeginCommitInv ==
  ASSUME IndInv, TypeOK', NEW t \in Tasks, t # "ws", NEW q, Takes(t, q),
         BeginCommit(t, q, buffer) \/ (Release(t, q, Returned(t)) /\ UNCHANGED commit),
         UNCHANGED <<buffer, events, nextId, cur>>
  PROVE  IndInv' /\ Quiet
<1>1. buffer' = buffer /\ events' = events /\ nextId' = nextId /\ cur' = cur
  OBVIOUS
<1>2. LockHeld' /\ BatchIsBuffer' /\ InsertedIsStored' /\ Quiet
  <2>1. CASE BeginCommit(t, q, buffer)
    BY <1>1, <2>1, BeginCommitLock DEF IndInv, InsertedIsStored, FreshBatch, Quiet
  <2>2. CASE Release(t, q, Returned(t))
    <3>1. NobodyCommits'
      BY <2>2, ReleaseLock, StatesNotCommit DEF IndInv
    <3>2. LockHeld' /\ ~Committing'
      BY <3>1, NobodyCommitsLock DEF TypeOK, NobodyCommits, LockHeld, Committing
    <3>. QED BY <3>2 DEF BatchIsBuffer, InsertedIsStored, Quiet
  <2>. QED BY <2>1, <2>2
<1>3. pc'["ws"] = pc["ws"]
  <2>1. \E where : pc' = [pc EXCEPT ![t] = where]
    BY DEF BeginCommit, Release
  <2>. QED BY <2>1 DEF IndInv, TypeOK, Tasks
<1>4. IdsFresh'
  BY <1>1, <1>3 DEF IndInv, IdsFresh, BufferIds, StoredIds
<1>. QED BY <1>2, <1>4 DEF IndInv

(* Queueing for the lock, and the moves of the flush and stop tasks outside it. *)
LEMMA MoveInv ==
  ASSUME IndInv, TypeOK', NEW t \in Tasks, t # "ws", NEW where,
         pc[t] # "commit", where # "commit", pc' = [pc EXCEPT ![t] = where],
         lockQ' = lockQ \/ (lockQ # <<>> /\ lockQ' = Append(lockQ, t)),
         UNCHANGED <<buffer, commit, events, nextId, cur>>
  PROVE  IndInv' /\ Quiet
<1>1. LockHeld' /\ BatchIsBuffer' /\ InsertedIsStored' /\ Quiet
  BY CommitFrame
<1>2. pc'["ws"] = pc["ws"]
  BY DEF IndInv, TypeOK, Tasks
<1>3. IdsFresh'
  BY <1>2 DEF IndInv, IdsFresh, BufferIds, StoredIds
<1>. QED BY <1>1, <1>3 DEF IndInv

LEMMA TimerInv ==
  ASSUME IndInv, TypeOK', FlushStep \/ StopStep \/ Stop
  PROVE  IndInv' /\ Quiet
<1> USE DEF tables
<1>0. "flush" \in Tasks /\ "stop" \in Tasks
  BY DEF Tasks
<1>1. CASE FlushTick
  <2>1. CASE lockQ = <<>>
    <3>1. Takes("flush", <<"flush">>) /\ FlushIfDue(<<"flush">>)
          /\ UNCHANGED <<buffer, events, nextId, cur>>
      BY <1>1, <2>1 DEF FlushTick, Takes
    <3>. QED BY <1>0, <3>1, BeginCommitInv DEF FlushIfDue
  <2>2. CASE lockQ # <<>>
    <3>1. /\ pc["flush"] = "sleep" /\ Wait("flush")
          /\ UNCHANGED <<buffer, commit, events, nextId, cur>>
      BY <1>1, <2>2 DEF FlushTick, Wait
    <3>. QED BY <1>0, <2>2, <3>1, MoveInv DEF Wait
  <2>. QED BY <2>1, <2>2
<1>2. CASE FlushResumes
  <2>1. Takes("flush", lockQ) /\ FlushIfDue(lockQ) /\ UNCHANGED <<buffer, events, nextId, cur>>
    BY <1>2 DEF FlushResumes, Granted, Takes
  <2>. QED BY <1>0, <2>1, BeginCommitInv DEF FlushIfDue
<1>3. CASE FlushSeesStop
  BY <1>0, <1>3, MoveInv DEF FlushSeesStop
<1>4. CASE Stop
  BY <1>0, <1>4, MoveInv DEF Stop
<1>5. CASE StopFlushes
  <2>1. CASE lockQ = <<>>
    <3>1. Takes("stop", <<"stop">>) /\ BeginCommit("stop", <<"stop">>, buffer)
          /\ UNCHANGED <<buffer, events, nextId, cur>>
      BY <1>5, <2>1 DEF StopFlushes, Takes
    <3>. QED BY <1>0, <3>1, BeginCommitInv
  <2>2. CASE lockQ # <<>>
    <3>1. /\ pc["stop"] = "join" /\ Wait("stop")
          /\ UNCHANGED <<buffer, commit, events, nextId, cur>>
      BY <1>5, <2>2 DEF StopFlushes, Wait
    <3>. QED BY <1>0, <2>2, <3>1, MoveInv DEF Wait
  <2>. QED BY <2>1, <2>2
<1>6. CASE StopResumes
  <2>1. /\ Takes("stop", lockQ) /\ BeginCommit("stop", lockQ, buffer)
        /\ UNCHANGED <<buffer, events, nextId, cur>>
    BY <1>6 DEF StopResumes, Granted, Takes
  <2>. QED BY <1>0, <2>1, BeginCommitInv
<1>7. CASE StopRaises
  BY <1>0, <1>7, MoveInv DEF StopRaises
<1>. QED BY <1>1, <1>2, <1>3, <1>4, <1>5, <1>6, <1>7 DEF FlushStep, StopStep

(* The lock holder ends its commit, normally or not. *)
LEMMA EndInv ==
  ASSUME IndInv, TypeOK', Committing, NEW where, where \in {Returned(Head(lockQ)), Raised(Head(lockQ))},
         Release(Head(lockQ), lockQ, where),
         BufferIds' \subseteq BufferIds, UNCHANGED <<events, nextId, cur>>
  PROVE  IndInv' /\ Quiet
<1>0. Head(lockQ) \in Tasks /\ Takes(Head(lockQ), lockQ)
  BY DEF IndInv, TypeOK, Committing, Takes
<1>1. where # "commit"
  BY <1>0, StatesNotCommit
<1>2. NobodyCommits'
  BY <1>0, <1>1, ReleaseLock DEF IndInv
<1>3. LockHeld' /\ ~Committing'
  BY <1>2, NobodyCommitsLock DEF TypeOK, NobodyCommits, LockHeld, Committing
<1>4. pc'["ws"] \in {"handle", "drop", "wait"} => pc["ws"] \in {"handle", "drop", "wait"}
  <2>1. CASE Head(lockQ) = "ws"
    BY <2>1, <1>0 DEF Release, IndInv, TypeOK, Returned, Raised, Tasks
  <2>2. CASE Head(lockQ) # "ws"
    BY <2>2, <1>0 DEF Release, IndInv, TypeOK, Tasks
  <2>. QED BY <2>1, <2>2
<1>5. StoredIds' = StoredIds /\ nextId' = nextId /\ cur' = cur
  BY DEF StoredIds
<1>6. IdsFresh'
  BY <1>4, <1>5 DEF IndInv, IdsFresh
<1>. QED BY <1>3, <1>6 DEF IndInv, BatchIsBuffer, InsertedIsStored, Quiet

(* The rows of the commit in progress carry the ids of the buffer. *)
LEMMA RowIds ==
  ASSUME IndInv, Committing
  PROVE  {commit.rows[i].id : i \in DOMAIN commit.rows} = BufferIds
<1>1. DOMAIN commit.rows = DOMAIN buffer /\ \A i \in DOMAIN buffer : commit.rows[i].id = buffer[i].id
  BY DEF IndInv, BatchIsBuffer, TypeOK
<1>. QED BY <1>1 DEF BufferIds

(* insert_events adds the ids of the buffer to the ids of the table. *)
LEMMA InsertIds ==
  ASSUME IndInv, InsertEvents
  PROVE  StoredIds' = StoredIds \cup BufferIds
<1>1. events \in Seq(Row) /\ commit.rows \in Seq(Row) /\ events' = events \o commit.rows
  BY DEF IndInv, TypeOK, InsertEvents
<1>2. StoredIds' = StoredIds \cup {commit.rows[i].id : i \in DOMAIN commit.rows}
  <2> DEFINE a == events
             b == commit.rows
  <2>1. {(a \o b)[i].id : i \in DOMAIN (a \o b)}
          = {a[i].id : i \in DOMAIN a} \cup {b[i].id : i \in DOMAIN b}
    <3> HIDE DEF a, b
    <3>1. a \in Seq(Row) /\ b \in Seq(Row)
      BY <1>1 DEF a, b
    <3>. QED BY <3>1, IdsOfConcat
  <2>. QED BY <1>1, <2>1 DEF StoredIds
<1>. QED BY <1>2, RowIds DEF InsertEvents

LEMMA CommitStepInv ==
  ASSUME IndInv, TypeOK', CommitStep \/ CommitRaises
  PROVE  IndInv'
<1> USE DEF tables
<1>1. CASE InsertEvents
  <2>1. StoredIds' = StoredIds \cup BufferIds
    BY <1>1, InsertIds
  <2>2. BufferIds' = BufferIds /\ UNCHANGED <<nextId, pc, cur, lockQ, buffer>>
    BY <1>1 DEF InsertEvents, BufferIds
  <2>3. LockHeld' /\ IdsFresh' /\ InsertedIsStored'
    BY <2>1, <2>2 DEF IndInv, LockHeld, IdsFresh, InsertedIsStored
  <2>4. Committing' = Committing /\ commit'.rows = commit.rows
    BY <1>1, <2>2 DEF InsertEvents, Committing, IndInv, TypeOK
  <2>5. BatchIsBuffer'
    BY <2>2, <2>4 DEF IndInv, BatchIsBuffer
  <2>. QED BY <2>3, <2>5 DEF IndInv
<1>p. ASSUME UNCHANGED <<nextId, pc, cur, lockQ, buffer, events>>,
             commit'.rows = commit.rows, commit'.inserted = commit.inserted
      PROVE  IndInv'
  BY <1>p DEF IndInv, LockHeld, IdsFresh, InsertedIsStored, BatchIsBuffer, Committing,
              BufferIds, StoredIds
<1>2. ASSUME NEW k \in Keys, IncrementCounter(k) PROVE IndInv'
  BY <1>2, <1>p DEF IncrementCounter, IndInv, TypeOK
<1>3. ASSUME NEW e \in Entities, BumpEntity(e) PROVE IndInv'
  <2>1. CASE commit.ents = {e}
    <3>1. EndCommit /\ Committing /\ UNCHANGED <<events, nextId, cur>>
      BY <1>3, <2>1 DEF BumpEntity, InsertedRows
    <3>2. BufferIds' = {}
      BY <3>1 DEF EndCommit, BufferIds
    <3>. QED BY <3>1, <3>2, EndInv DEF EndCommit
  <2>2. CASE commit.ents # {e}
    BY <1>3, <1>p, <2>2 DEF BumpEntity, IndInv, TypeOK
  <2>. QED BY <2>1, <2>2
<1>4. CASE CommitRaises
  <2>1. BufferIds' = BufferIds
    BY <1>4 DEF CommitRaises, BufferIds
  <2>2. /\ Committing /\ Release(Head(lockQ), lockQ, Raised(Head(lockQ)))
        /\ UNCHANGED <<events, nextId, cur>>
    BY <1>4 DEF CommitRaises
  <2>. QED BY <2>1, <2>2, EndInv
<1>. QED BY <1>1, <1>2, <1>3, <1>4 DEF CommitStep

LEMMA EnvironmentInv ==
  ASSUME IndInv, TypeOK', IntervalElapses \/ Tick \/ Restart \/ Exited
                    \/ (\E s \in Snapshots : RebuildIndex(s))
                    \/ (\E h \in HidePatterns : ReloadPattern(h))
  PROVE  IndInv' /\ Quiet
<1> USE DEF tables
<1>1. CASE Restart
  <2>1. /\ pc' = Idle /\ lockQ' = <<>> /\ buffer' = <<>> /\ events' = events
        /\ nextId' = nextId
    BY <1>1 DEF Restart
  <2>2. NobodyCommits'
    BY <2>1 DEF NobodyCommits, Idle, Tasks
  <2>3. LockHeld' /\ ~Committing'
    BY <2>1, <2>2 DEF NobodyCommits, LockHeld, Committing
  <2>4. pc'["ws"] = "recv" /\ BufferIds' = {} /\ StoredIds' = StoredIds
    BY <2>1 DEF Idle, Tasks, BufferIds, StoredIds
  <2>5. IdsFresh'
    BY <2>1, <2>4 DEF IndInv, IdsFresh
  <2>. QED BY <2>3, <2>5 DEF IndInv, BatchIsBuffer, InsertedIsStored, Quiet
<1>2. CASE ~Restart
  <2>1. UNCHANGED core
    BY <1>2 DEF IntervalElapses, Tick, Exited, vars, RebuildIndex, ReloadPattern, core
  <2>. QED BY <2>1, CoreFrame
<1>. QED BY <1>1, <1>2

LEMMA InitInv == Init => IndInv
<1> SUFFICES ASSUME Init PROVE IndInv
  OBVIOUS
<1>1. TypeOK
  BY InitType
<1>2. pc = Idle /\ lockQ = <<>> /\ buffer = <<>> /\ events = <<>> /\ nextId = 0
  BY DEF Init
<1>3. LockHeld /\ ~Committing /\ pc["ws"] = "recv"
  BY <1>2 DEF LockHeld, Committing, Idle, Tasks
<1>4. BufferIds = {} /\ StoredIds = {}
  BY <1>2 DEF BufferIds, StoredIds
<1>. QED
  BY <1>1, <1>2, <1>3, <1>4 DEF IndInv, BatchIsBuffer, InsertedIsStored, IdsFresh

LEMMA NextInv == IndInv /\ [Next]_vars => IndInv'
<1> SUFFICES ASSUME IndInv, [Next]_vars PROVE IndInv'
  OBVIOUS
<1>1. TypeOK'
  BY NextType DEF IndInv
<1>2. CASE UNCHANGED vars
  BY <1>1, <1>2, CoreFrame DEF vars, core, tables
<1>3. CASE Next
  BY <1>1, <1>3, WsInv, TimerInv, CommitStepInv, EnvironmentInv DEF Next, Environment
<1>. QED BY <1>2, <1>3

LEMMA Inductive == Spec => []IndInv
BY InitInv, NextInv, PTL DEF Spec

(* The batch a commit inserts is the buffer it clears, at every await of    *)
(* _commit_locked(): no event submitted meanwhile is thrown away by clear(). *)
THEOREM BatchIsBufferCorrect == Spec => []BatchIsBuffer
<1>1. IndInv => BatchIsBuffer
  BY DEF IndInv
<1>. QED BY <1>1, Inductive, PTL

-----------------------------------------------------------------------------
(***************************************************************************)
(* The pipeline implements EventLog: an append accepts the event in hand,   *)
(* insert_events commits whatever is pending (nothing, when a retry finds   *)
(* all of it stored already), a restart ends the process, and every other   *)
(* step is invisible: clearing the buffer in particular, as all of it is    *)
(* stored by then.                                                          *)
(***************************************************************************)
Pending == BufferIds \ StoredIds
logVars == <<Pending, StoredIds, restarts>>

LEMMA SubmitAccepts ==
  ASSUME IndInv, TypeOK', SubmitVisible \/ SubmitResumes
  PROVE  Log!Accept \/ UNCHANGED logVars
<1> USE DEF tables
<1>1. /\ nextId > 0 /\ nextId \in 1..MaxEvents /\ cur.id = nextId
      /\ nextId \notin BufferIds \cup StoredIds
      /\ UNCHANGED <<events, nextId, restarts>>
  BY BoundsType DEF SubmitVisible, SubmitResumes, Granted, IndInv, IdsFresh, TypeOK
<1>2. StoredIds' = StoredIds
  BY <1>1 DEF StoredIds
<1>3. BufferIds' = BufferIds \/ BufferIds' = BufferIds \cup {nextId}
  <2>1. CASE SubmitResumes
    <3>1. AddToBuffer(cur, lockQ) /\ Takes("ws", lockQ) /\ cur \in Entry
      BY <2>1 DEF SubmitResumes, Granted, Takes, IndInv, TypeOK
    <3>. QED BY <1>1, <3>1, AddToBufferInv
  <2>2. CASE SubmitVisible /\ lockQ = <<>>
    <3>1. AddToBuffer(cur', <<"ws">>) /\ Takes("ws", <<"ws">>)
      BY <2>2 DEF SubmitVisible, Takes
    <3>2. cur' \in Entry /\ cur'.id = nextId
      BY <1>1, <2>2 DEF SubmitVisible, IndInv, TypeOK, Entry
    <3>. QED BY <1>1, <3>1, <3>2, AddToBufferInv
  <2>3. CASE SubmitVisible /\ lockQ # <<>>
    BY <2>3 DEF SubmitVisible, Wait, BufferIds
  <2>. QED BY <2>1, <2>2, <2>3
<1>4. CASE BufferIds' = BufferIds
  BY <1>1, <1>2, <1>4 DEF logVars, Pending
<1>5. CASE BufferIds' = BufferIds \cup {nextId}
  <2>1. Pending' = Pending \cup {nextId}
    BY <1>1, <1>2, <1>5 DEF Pending
  <2>2. nextId \in (1..MaxEvents) \ (Pending \cup StoredIds)
    BY <1>1 DEF Pending
  <2>. QED BY <1>1, <1>2, <2>1, <2>2 DEF Log!Accept, Pending
<1>. QED BY <1>3, <1>4, <1>5

LEMMA CommitCommits ==
  ASSUME IndInv, CommitStep
  PROVE  Log!Commit \/ UNCHANGED logVars
<1> USE DEF tables
<1>1. CASE InsertEvents
  <2>1. StoredIds' = StoredIds \cup BufferIds /\ BufferIds' = BufferIds /\ restarts' = restarts
    BY <1>1, InsertIds DEF InsertEvents, BufferIds
  <2>2. Pending' = {} /\ StoredIds' = StoredIds \cup Pending
    BY <2>1 DEF Pending
  <2>. QED BY <2>1, <2>2 DEF Log!Commit, Pending, logVars
<1>2. ASSUME NEW k \in Keys, IncrementCounter(k) PROVE UNCHANGED logVars
  BY <1>2 DEF IncrementCounter, logVars, Pending, BufferIds, StoredIds
<1>3. ASSUME NEW e \in Entities, BumpEntity(e) PROVE UNCHANGED logVars
  <2>1. BufferIds \subseteq StoredIds /\ StoredIds' = StoredIds /\ restarts' = restarts
    BY <1>3 DEF BumpEntity, InsertedRows, IndInv, InsertedIsStored, StoredIds
  <2>2. BufferIds' = {} \/ BufferIds' = BufferIds
    BY <1>3 DEF BumpEntity, EndCommit, BufferIds
  <2>. QED BY <2>1, <2>2 DEF logVars, Pending
<1>. QED BY <1>1, <1>2, <1>3 DEF CommitStep

LEMMA RestartEnds == ASSUME Restart, IndInv PROVE Log!ProcessEnds
<1>1. buffer' = <<>> /\ events' = events /\ restarts' = restarts + 1
  BY DEF Restart, tables
<1>2. BufferIds' = {} /\ StoredIds' = StoredIds
  BY <1>1 DEF BufferIds, StoredIds
<1>. QED BY <1>1, <1>2 DEF Log!ProcessEnds

LEMMA OthersStutter ==
  ASSUME UNCHANGED <<buffer, events, restarts>>
  PROVE  UNCHANGED logVars
BY DEF logVars, Pending, BufferIds, StoredIds

LEMMA StepImplements ==
  ASSUME IndInv, [Next]_vars
  PROVE  [Log!Next]_logVars
<1> USE DEF tables
<1>0. TypeOK'
  BY NextType DEF IndInv
<1>1. CASE SubmitVisible \/ SubmitResumes
  BY <1>0, <1>1, SubmitAccepts DEF Log!Next
<1>2. CASE CommitStep
  BY <1>2, CommitCommits DEF Log!Next
<1>3. CASE Restart
  BY <1>3, RestartEnds DEF Log!Next
<1>4. CASE FlushStep \/ StopStep \/ Stop
  <2>1. UNCHANGED <<buffer, events, restarts>>
    BY <1>4 DEF FlushStep, FlushTick, FlushResumes, FlushSeesStop, StopStep, StopFlushes,
                StopResumes, StopRaises, Stop, Wait
  <2>. QED BY <2>1, OthersStutter
<1>5. CASE Discard \/ SubmitHidden \/ IncrementPrivacyDrop \/ PrivacyDropRaises
           \/ CommitRaises \/ IntervalElapses \/ Tick \/ Exited \/ UNCHANGED vars
  <2>1. UNCHANGED <<buffer, events, restarts>>
    BY <1>5 DEF Discard, SubmitHidden, IncrementPrivacyDrop, PrivacyDropRaises,
                CommitRaises, IntervalElapses, Tick, Exited, vars
  <2>. QED BY <2>1, OthersStutter
<1>6. CASE \/ \E e \in Entities : Receive(e)
           \/ \E s \in Snapshots : RebuildIndex(s)
           \/ \E h \in HidePatterns : ReloadPattern(h)
  <2>1. UNCHANGED <<buffer, events, restarts>>
    BY <1>6 DEF Receive, RebuildIndex, ReloadPattern
  <2>. QED BY <2>1, OthersStutter
<1>. QED
  BY <1>1, <1>2, <1>3, <1>4, <1>5, <1>6 DEF Next, WsStep, Environment

(* The pipeline implements the promise of submit(): nothing accepted is     *)
(* lost while the process lives, whatever DAO call fails and however the    *)
(* tasks interleave; a commit stores all of it or nothing.                  *)
THEOREM PipelineImplementsEventLog == Spec => ImplementsEventLog
<1>1. Init => Log!Init
  BY DEF Init, Log!Init, BufferIds, StoredIds
<1>2. IndInv /\ [Next]_vars => [Log!Next]_<<BufferIds \ StoredIds, StoredIds, restarts>>
  BY StepImplements DEF logVars, Pending
<1>. QED BY <1>1, <1>2, Inductive, PTL DEF Spec, ImplementsEventLog, Log!Spec

-----------------------------------------------------------------------------
(* Counting the rows of a table that a batch has been appended to. *)

LEMMA MatchingConcat ==
  ASSUME NEW a \in Seq(Row), NEW b \in Seq(Row), NEW k
  PROVE  /\ Cardinality(Matching(a \o b, k))
               = Cardinality(Matching(a, k)) + Cardinality(Matching(b, k))
         /\ Cardinality(Matching(a, k)) \in Nat /\ Cardinality(Matching(b, k)) \in Nat
<1>0. /\ DOMAIN (a \o b) = DOMAIN a \cup Shift(DOMAIN b, Len(a))
      /\ \A i \in DOMAIN a : (a \o b)[i] = a[i]
      /\ \A i \in DOMAIN b : (a \o b)[Len(a) + i] = b[i]
  BY ConcatPositions
<1>1. Matching(a \o b, k) = Matching(a, k) \cup Shift(Matching(b, k), Len(a))
  BY <1>0 DEF Matching, Shift
<1>2. Matching(a, k) \in SUBSET (1..Len(a)) /\ Matching(b, k) \in SUBSET (1..Len(b))
  BY DEF Matching
<1>3. Len(a) \in Nat /\ Len(b) \in Nat
  OBVIOUS
<1>4. /\ Cardinality(Matching(a, k) \cup Shift(Matching(b, k), Len(a)))
            = Cardinality(Matching(a, k)) + Cardinality(Matching(b, k))
      /\ Cardinality(Matching(a, k)) \in Nat /\ Cardinality(Matching(b, k)) \in Nat
  BY <1>2, <1>3, SplitCardinality
<1>. QED BY <1>1, <1>4

LEMMA OfEntityConcat ==
  ASSUME NEW a \in Seq(Row), NEW b \in Seq(Row), NEW e
  PROVE  /\ Cardinality(OfEntity(a \o b, e))
               = Cardinality(OfEntity(a, e)) + Cardinality(OfEntity(b, e))
         /\ Cardinality(OfEntity(a, e)) \in Nat
         /\ Cardinality(OfEntity(b, e)) \in Nat
         /\ OfEntity(b, e) # {} => Cardinality(OfEntity(b, e)) >= 1
<1>1. OfEntity(a \o b, e) = OfEntity(a, e) \cup Shift(OfEntity(b, e), Len(a))
  BY ConcatPositions DEF OfEntity, Shift
<1>2. OfEntity(a, e) \in SUBSET (1..Len(a)) /\ OfEntity(b, e) \in SUBSET (1..Len(b))
  BY ConcatPositions DEF OfEntity
<1>3. Len(a) \in Nat /\ Len(b) \in Nat
  OBVIOUS
<1>4. IsFiniteSet(1..Len(b))
  BY <1>3, FS_Interval
<1>5. IsFiniteSet(OfEntity(b, e))
  BY <1>2, <1>4, FS_Subset
<1>6. Cardinality(OfEntity(b, e)) = 0 => OfEntity(b, e) = {}
  BY <1>5, FS_EmptySet
<1>7. /\ Cardinality(OfEntity(a, e) \cup Shift(OfEntity(b, e), Len(a)))
            = Cardinality(OfEntity(a, e)) + Cardinality(OfEntity(b, e))
      /\ Cardinality(OfEntity(a, e)) \in Nat /\ Cardinality(OfEntity(b, e)) \in Nat
  BY <1>2, <1>3, SplitCardinality
<1>. QED BY <1>1, <1>6, <1>7

-----------------------------------------------------------------------------
(***************************************************************************)
(* The counters never run ahead of the table.  A step outside a commit      *)
(* leaves tables and counters alone, and at most forgets what the commit in *)
(* progress had yet to add.                                                 *)
(***************************************************************************)
LEMMA AggregatesTypes ==
  ASSUME TypeOK, NEW k \in Keys, NEW e \in Entities
  PROVE  /\ counters[k] \in Nat /\ totals[e] \in Nat /\ HitsIn(k) \in Nat
         /\ Cardinality(Matching(events, k)) \in Nat
         /\ Cardinality(OfEntity(events, e)) \in Nat
<1>1. events \in Seq(Row) /\ commit.rows \in Seq(Row)
  BY DEF TypeOK
<1>2. HitsIn(k) \in Nat /\ Cardinality(Matching(events, k)) \in Nat
  BY <1>1, MatchingConcat DEF HitsIn
<1>3. Cardinality(OfEntity(events, e)) \in Nat
  BY <1>1, OfEntityConcat
<1>4. counters[k] \in Nat /\ totals[e] \in Nat
  BY DEF TypeOK
<1>. QED BY <1>2, <1>3, <1>4

LEMMA AggregatesFrame ==
  ASSUME TypeOK, AggregatesInv, Quiet, UNCHANGED <<events, counters, totals>>
  PROVE  AggregatesInv'
<1>1. events' = events /\ counters' = counters /\ totals' = totals
  OBVIOUS
<1>2. InsertedRows' => InsertedRows /\ commit' = commit
  BY DEF Quiet, FreshBatch, InsertedRows
<1>3. ASSUME NEW k \in Keys
      PROVE  (counters[k] + (IF InsertedRows /\ k \in commit.areas THEN HitsIn(k) ELSE 0)
                <= Cardinality(Matching(events, k)))'
  <2>1. /\ counters[k] \in Nat /\ HitsIn(k) \in Nat /\ Cardinality(Matching(events, k)) \in Nat
        /\ counters[k] + (IF InsertedRows /\ k \in commit.areas THEN HitsIn(k) ELSE 0)
              <= Cardinality(Matching(events, k))
    BY BoundsType, AggregatesTypes DEF AggregatesInv
  <2>2. CASE InsertedRows'
    BY <1>1, <1>2, <2>1, <2>2 DEF HitsIn
  <2>3. CASE ~InsertedRows'
    BY <1>1, <2>1, <2>3
  <2>. QED BY <2>2, <2>3
<1>4. ASSUME NEW e \in Entities
      PROVE  (totals[e] + (IF InsertedRows /\ e \in commit.ents THEN 1 ELSE 0)
                <= Cardinality(OfEntity(events, e)))'
  <2>1. totals[e] \in Nat /\ Cardinality(OfEntity(events, e)) \in Nat
    <3>1. events \in Seq(Row) /\ totals[e] \in Nat
      BY DEF TypeOK
    <3>. QED BY <3>1, OfEntityConcat
  <2>2. totals[e] + (IF InsertedRows /\ e \in commit.ents THEN 1 ELSE 0)
              <= Cardinality(OfEntity(events, e))
    BY DEF AggregatesInv
  <2>. QED BY <1>1, <1>2, <2>1, <2>2
<1>5. (Committing => \A e \in commit.ents : OfEntity(commit.rows, e) # {})'
  BY DEF Quiet, FreshBatch, AggregatesInv
<1>. QED BY <1>3, <1>4, <1>5 DEF AggregatesInv

LEMMA AggregatesCommit ==
  ASSUME IndInv, AggregatesInv, CommitStep
  PROVE  AggregatesInv'
<1> USE DEF tables
<1>t. TypeOK /\ events \in Seq(Row) /\ commit.rows \in Seq(Row)
  BY DEF IndInv, TypeOK
<1>1. CASE InsertEvents
  <2>1. /\ events' = events \o commit.rows /\ commit'.rows = commit.rows
        /\ commit'.areas = commit.areas /\ commit'.ents = commit.ents
        /\ counters' = counters /\ totals' = totals /\ ~InsertedRows /\ Committing
    BY <1>1, <1>t DEF InsertEvents, TypeOK, InsertedRows
  <2>2. ASSUME NEW k \in Keys
        PROVE  (counters[k] + (IF InsertedRows /\ k \in commit.areas THEN HitsIn(k) ELSE 0)
                  <= Cardinality(Matching(events, k)))'
    <3>1. /\ Cardinality(Matching(events, k))' =
                Cardinality(Matching(events, k)) + HitsIn(k)
          /\ HitsIn(k)' = HitsIn(k)
      BY <1>t, <2>1, MatchingConcat DEF HitsIn
    <3>2. /\ counters[k] \in Nat /\ HitsIn(k) \in Nat
          /\ Cardinality(Matching(events, k)) \in Nat
          /\ counters[k] <= Cardinality(Matching(events, k))
      BY <1>t, <2>1, BoundsType, AggregatesTypes DEF AggregatesInv
    <3>. QED BY <2>1, <3>1, <3>2
  <2>3. ASSUME NEW e \in Entities
        PROVE  (totals[e] + (IF InsertedRows /\ e \in commit.ents THEN 1 ELSE 0)
                  <= Cardinality(OfEntity(events, e)))'
    <3>1. /\ Cardinality(OfEntity(events, e))' =
                Cardinality(OfEntity(events, e)) + Cardinality(OfEntity(commit.rows, e))
          /\ Cardinality(OfEntity(commit.rows, e)) \in Nat
          /\ Cardinality(OfEntity(events, e)) \in Nat
          /\ e \in commit.ents => Cardinality(OfEntity(commit.rows, e)) >= 1
      BY <1>t, <2>1, OfEntityConcat DEF AggregatesInv
    <3>2. totals[e] \in Nat /\ totals[e] <= Cardinality(OfEntity(events, e))
      BY <1>t, <2>1 DEF AggregatesInv, TypeOK
    <3>. QED BY <2>1, <3>1, <3>2
  <2>4. (Committing => \A e \in commit.ents : OfEntity(commit.rows, e) # {})'
    BY <2>1 DEF AggregatesInv
  <2>. QED BY <2>2, <2>3, <2>4 DEF AggregatesInv
<1>2. ASSUME NEW k \in Keys, IncrementCounter(k) PROVE AggregatesInv'
  <2>1. /\ events' = events /\ commit'.rows = commit.rows /\ commit'.inserted = commit.inserted
        /\ commit'.areas = commit.areas \ {k} /\ commit'.ents = commit.ents
        /\ totals' = totals /\ InsertedRows /\ InsertedRows' /\ k \in commit.areas
        /\ Committing' = Committing
        /\ counters' = [counters EXCEPT ![k] = @ + HitsIn(k)]
    BY <1>2, <1>t DEF IncrementCounter, InsertedRows, Committing, TypeOK
  <2>2. ASSUME NEW j \in Keys
        PROVE  (counters[j] + (IF InsertedRows /\ j \in commit.areas THEN HitsIn(j) ELSE 0)
                  <= Cardinality(Matching(events, j)))'
    <3>1. /\ counters[j] \in Nat /\ HitsIn(j) \in Nat
          /\ Cardinality(Matching(events, j)) \in Nat /\ HitsIn(j)' = HitsIn(j)
          /\ counters[j] + (IF j \in commit.areas THEN HitsIn(j) ELSE 0)
                <= Cardinality(Matching(events, j))
      BY <1>t, <2>1, BoundsType, AggregatesTypes DEF AggregatesInv, HitsIn
    <3>2. counters'[j] = IF j = k THEN counters[j] + HitsIn(j) ELSE counters[j]
      BY <1>t, <2>1 DEF TypeOK
    <3>. QED BY <2>1, <3>1, <3>2
  <2>3. \A e \in Entities :
          (totals[e] + (IF InsertedRows /\ e \in commit.ents THEN 1 ELSE 0)
             <= Cardinality(OfEntity(events, e)))'
    BY <2>1 DEF AggregatesInv
  <2>4. (Committing => \A e \in commit.ents : OfEntity(commit.rows, e) # {})'
    BY <2>1 DEF AggregatesInv
  <2>. QED BY <2>2, <2>3, <2>4 DEF AggregatesInv
<1>3. ASSUME NEW e \in Entities, BumpEntity(e) PROVE AggregatesInv'
  <2>1. /\ events' = events /\ counters' = counters /\ InsertedRows
        /\ commit.areas = {} /\ e \in commit.ents
        /\ totals' = [totals EXCEPT ![e] = IF e \in entityRows THEN @ + 1 ELSE @]
    BY <1>3 DEF BumpEntity
  <2>2. \/ ~Committing'
        \/ /\ commit'.rows = commit.rows /\ commit'.areas = {} /\ e \notin commit'.ents
           /\ commit'.ents \subseteq commit.ents /\ Committing
    <3>1. CASE commit.ents = {e}
      <4>1. EndCommit /\ Committing
        BY <1>3, <3>1 DEF BumpEntity, InsertedRows
      <4>2. Head(lockQ) \in Tasks /\ Takes(Head(lockQ), lockQ)
        BY <4>1 DEF IndInv, TypeOK, Committing, Takes
      <4>3. NobodyCommits'
        BY <4>1, <4>2, StatesNotCommit, ReleaseLock DEF EndCommit, IndInv
      <4>4. lockQ' \in Seq(Tasks)
        BY <4>1, <4>2 DEF EndCommit, Release, IndInv, TypeOK, Committing
      <4>. QED BY <4>3, <4>4 DEF NobodyCommits, Committing
    <3>2. CASE commit.ents # {e}
      <4>1. commit' = [commit EXCEPT !.ents = @ \ {e}] /\ Committing
        BY <1>3, <3>2 DEF BumpEntity, InsertedRows
      <4>2. commit \in CommitType
        BY <1>t DEF TypeOK, CommitType
      <4>. QED BY <2>1, <4>1, <4>2 DEF CommitType
    <3>. QED BY <3>1, <3>2
  <2>3. ASSUME NEW k \in Keys
        PROVE  (counters[k] + (IF InsertedRows /\ k \in commit.areas THEN HitsIn(k) ELSE 0)
                  <= Cardinality(Matching(events, k)))'
    <3>1. ~(InsertedRows /\ k \in commit.areas)'
      BY <2>2 DEF InsertedRows
    <3>2. counters[k] \in Nat /\ counters[k] <= Cardinality(Matching(events, k))
      BY <1>t, <2>1 DEF AggregatesInv, TypeOK
    <3>. QED BY <2>1, <3>1, <3>2
  <2>4. ASSUME NEW d \in Entities
        PROVE  (totals[d] + (IF InsertedRows /\ d \in commit.ents THEN 1 ELSE 0)
                  <= Cardinality(OfEntity(events, d)))'
    <3>1. /\ totals[d] \in Nat /\ Cardinality(OfEntity(events, d)) \in Nat
          /\ totals[d] + (IF d \in commit.ents THEN 1 ELSE 0)
                <= Cardinality(OfEntity(events, d))
      <4>1. totals[d] \in Nat
        BY <1>t DEF TypeOK
      <4>. QED BY <1>t, <2>1, <4>1, OfEntityConcat DEF AggregatesInv
    <3>2. d \in commit'.ents /\ Committing' => d \in commit.ents /\ d # e
      BY <2>2
    <3>3. CASE d = e
      <4>1. totals'[d] <= totals[d] + 1 /\ totals'[d] \in Nat
        BY <1>t, <2>1, <3>1, <3>3 DEF TypeOK
      <4>. QED BY <2>1, <3>1, <3>2, <3>3, <4>1 DEF InsertedRows
    <3>4. CASE d # e
      <4>1. totals'[d] = totals[d]
        BY <1>t, <2>1, <3>4 DEF TypeOK
      <4>. QED BY <2>1, <3>1, <3>2, <4>1 DEF InsertedRows
    <3>. QED BY <3>3, <3>4
  <2>5. (Committing => \A d \in commit.ents : OfEntity(commit.rows, d) # {})'
    BY <2>2 DEF AggregatesInv
  <2>. QED BY <2>3, <2>4, <2>5 DEF AggregatesInv
<1>. QED BY <1>1, <1>2, <1>3 DEF CommitStep

LEMMA AggregatesNext ==
  ASSUME IndInv, AggregatesInv, [Next]_vars
  PROVE  AggregatesInv'
<1> USE DEF tables
<1>0. TypeOK /\ TypeOK'
  BY NextType DEF IndInv
<1>1. CASE CommitStep
  BY <1>1, AggregatesCommit
<1>2. CASE WsStep \/ PrivacyDropRaises \/ \E e \in Entities : Receive(e)
  <2>1. Quiet
    BY <1>0, <1>2, WsInv
  <2>2. UNCHANGED <<events, counters, totals>>
    BY <1>2 DEF WsStep, Discard, SubmitHidden, SubmitVisible, SubmitResumes,
                IncrementPrivacyDrop, PrivacyDropRaises, Receive
  <2>. QED BY <1>0, <2>1, <2>2, AggregatesFrame
<1>3. CASE FlushStep \/ StopStep \/ Stop
  <2>1. Quiet
    BY <1>0, <1>3, TimerInv
  <2>2. UNCHANGED <<events, counters, totals>>
    BY <1>3 DEF FlushStep, FlushTick, FlushResumes, FlushSeesStop, StopStep, StopFlushes,
                StopResumes, StopRaises, Stop
  <2>. QED BY <1>0, <2>1, <2>2, AggregatesFrame
<1>4. CASE CommitRaises
  <2>1. /\ Committing /\ Release(Head(lockQ), lockQ, Raised(Head(lockQ)))
        /\ BufferIds' = BufferIds /\ UNCHANGED <<events, nextId, cur>>
    BY <1>4 DEF CommitRaises, BufferIds
  <2>2. Quiet
    BY <1>0, <2>1, EndInv
  <2>3. UNCHANGED <<events, counters, totals>>
    BY <1>4 DEF CommitRaises
  <2>. QED BY <1>0, <2>2, <2>3, AggregatesFrame
<1>5. CASE IntervalElapses \/ Tick \/ Restart \/ Exited
           \/ (\E s \in Snapshots : RebuildIndex(s))
           \/ (\E h \in HidePatterns : ReloadPattern(h))
  <2>1. Quiet
    BY <1>0, <1>5, EnvironmentInv
  <2>2. UNCHANGED <<events, counters, totals>>
    BY <1>5 DEF IntervalElapses, Tick, Restart, Exited, vars, RebuildIndex, ReloadPattern
  <2>. QED BY <1>0, <2>1, <2>2, AggregatesFrame
<1>6. CASE UNCHANGED vars
  <2>1. Quiet /\ UNCHANGED <<events, counters, totals>>
    BY <1>0, <1>6, CoreFrame DEF vars, core
  <2>. QED BY <1>0, <2>1, AggregatesFrame
<1>. QED BY <1>1, <1>2, <1>3, <1>4, <1>5, <1>6 DEF Next, Environment

(* No counter of an area and no total of an entity ever exceeds the rows it *)
(* summarises: _commit_locked() inserts first and counts afterwards, and    *)
(* neither a failure, a retry nor a kill in between can reverse that.       *)
THEOREM AggregatesCorrect == Spec => []AggregatesNeverExceedRows
<1>1. Init => AggregatesInv
  <2> SUFFICES ASSUME Init PROVE AggregatesInv
    OBVIOUS
  <2>1. TypeOK
    BY InitType
  <2>2. ~Committing /\ (\A k \in Keys : counters[k] = 0) /\ (\A e \in Entities : totals[e] = 0)
    BY DEF Init, Committing
  <2>3. \A k \in Keys : Cardinality(Matching(events, k)) \in Nat
    BY <2>1, BoundsType, AggregatesTypes
  <2>4. \A e \in Entities : Cardinality(OfEntity(events, e)) \in Nat
    BY <2>1, OfEntityConcat DEF TypeOK
  <2>. QED BY <2>2, <2>3, <2>4 DEF AggregatesInv, InsertedRows
<1>2. IndInv /\ AggregatesInv /\ [Next]_vars => AggregatesInv'
  BY AggregatesNext
<1>3. IndInv /\ AggregatesInv => AggregatesNeverExceedRows
  <2> SUFFICES ASSUME IndInv, AggregatesInv PROVE AggregatesNeverExceedRows
    OBVIOUS
  <2>1. ASSUME NEW k \in Keys PROVE counters[k] <= Cardinality(Matching(events, k))
    BY BoundsType, AggregatesTypes DEF IndInv, AggregatesInv
  <2>2. ASSUME NEW e \in Entities PROVE totals[e] <= Cardinality(OfEntity(events, e))
    <3>1. totals[e] \in Nat /\ events \in Seq(Row)
      BY DEF IndInv, TypeOK
    <3>. QED BY <3>1, OfEntityConcat DEF AggregatesInv
  <2>. QED BY <2>1, <2>2 DEF AggregatesNeverExceedRows
<1>. QED BY <1>1, <1>2, <1>3, Inductive, PTL DEF Spec

(* When stop() returns, the buffer it leaves behind is stored: either it    *)
(* found nothing to flush, or its commit has inserted all of the buffer.    *)
THEOREM StopDrainsCorrect == Spec => StopDrains
<1> USE DEF tables
<1>1. ASSUME IndInv, Next, pc["stop"] # "returned", pc'["stop"] = "returned"
      PROVE  BufferIds \subseteq StoredIds'
  <2>0. pc \in [Tasks -> States] /\ "stop" \in Tasks /\ "ws" \in Tasks /\ "flush" \in Tasks
    BY <1>1 DEF IndInv, TypeOK, Tasks
  <2>b. ASSUME NEW q, BeginCommit("stop", q, buffer) PROVE BufferIds = {}
    <3>1. CASE buffer = <<>>
      BY <3>1 DEF BufferIds
    <3>2. CASE buffer # <<>>
      BY <1>1, <2>0, <2>b, <3>2 DEF BeginCommit
    <3>. QED BY <3>1, <3>2
  <2>1. CASE StopStep
    BY <1>1, <2>0, <2>1, <2>b DEF StopStep, StopFlushes, StopResumes, StopRaises, Wait
  <2>2. CASE CommitStep
    <3>1. ASSUME NEW e \in Entities, BumpEntity(e) PROVE BufferIds \subseteq StoredIds'
      BY <1>1, <3>1 DEF BumpEntity, InsertedRows, IndInv, InsertedIsStored, StoredIds
    <3>2. pc' = pc \/ \E e \in Entities : BumpEntity(e)
      BY <2>2 DEF CommitStep, InsertEvents, IncrementCounter
    <3>. QED BY <1>1, <3>1, <3>2
  <2>3. CASE CommitRaises
    <3>1. Head(lockQ) \in Tasks /\ pc' = [pc EXCEPT ![Head(lockQ)] = Raised(Head(lockQ))]
      BY <1>1, <2>3 DEF CommitRaises, Release, Committing, IndInv, TypeOK
    <3>. QED BY <1>1, <2>0, <3>1 DEF Raised
  <2>4. CASE WsStep \/ PrivacyDropRaises \/ \E e \in Entities : Receive(e)
    <3>1. \E where : pc' = [pc EXCEPT !["ws"] = where]
      BY <2>4 DEF WsStep, Discard, SubmitHidden, SubmitVisible, SubmitResumes, AddToBuffer,
                  BeginCommit, Release, Wait, IncrementPrivacyDrop, PrivacyDropRaises, Receive
    <3>. QED BY <1>1, <2>0, <3>1
  <2>5. CASE FlushStep
    <3>1. \E where : pc' = [pc EXCEPT !["flush"] = where]
      BY <2>5 DEF FlushStep, FlushTick, FlushResumes, FlushSeesStop, FlushIfDue, BeginCommit,
                  Release, Wait
    <3>. QED BY <1>1, <2>0, <3>1
  <2>6. CASE Stop \/ Restart
    BY <1>1, <2>0, <2>6 DEF Stop, Restart, Idle
  <2>7. CASE IntervalElapses \/ Tick \/ Exited \/ (\E s \in Snapshots : RebuildIndex(s))
             \/ (\E h \in HidePatterns : ReloadPattern(h))
    BY <1>1, <2>7 DEF IntervalElapses, Tick, Exited, vars, RebuildIndex, ReloadPattern
  <2>. QED BY <1>1, <2>1, <2>2, <2>3, <2>4, <2>5, <2>6, <2>7 DEF Next, Environment
<1>2. IndInv /\ [Next]_vars =>
        [(pc["stop"] # "returned" /\ pc'["stop"] = "returned")
           => BufferIds \subseteq StoredIds']_vars
  BY <1>1
<1>. QED BY <1>2, Inductive, PTL DEF Spec, StopDrains
-----------------------------------------------------------------------------
(***************************************************************************)
(* Runs without a failed call.  A commit that has inserted its rows goes on *)
(* to its end: no other task can take the lock from it.                     *)
(***************************************************************************)
LEMMA StillInserted ==
  ASSUME IndInv, TypeOK',
         \/ WsStep \/ PrivacyDropRaises \/ (\E e \in Entities : Receive(e))
         \/ FlushStep \/ StopStep \/ Stop \/ IntervalElapses \/ Tick \/ Exited
         \/ (\E s \in Snapshots : RebuildIndex(s))
         \/ (\E h \in HidePatterns : ReloadPattern(h)),
         InsertedRows
  PROVE  InsertedRows' /\ UNCHANGED <<buffer, events, commit>>
<1> USE DEF tables
<1>0. /\ lockQ # <<>> /\ lockQ \in Seq(Tasks) /\ pc \in [Tasks -> States]
      /\ pc[Head(lockQ)] = "commit" /\ commit.inserted
      /\ "ws" \in Tasks /\ "flush" \in Tasks /\ "stop" \in Tasks
      /\ \A t \in Tasks : ~Granted(t)
  BY DEF IndInv, TypeOK, InsertedRows, Committing, Granted, Tasks
<1>1. ASSUME NEW t \in Tasks, NEW where, pc[t] # "commit", pc' = [pc EXCEPT ![t] = where],
             lockQ' = lockQ \/ lockQ' = Append(lockQ, t), UNCHANGED <<buffer, events, commit>>
      PROVE  InsertedRows' /\ UNCHANGED <<buffer, events, commit>>
  <2>1. lockQ' # <<>> /\ Head(lockQ') = Head(lockQ) /\ Head(lockQ) # t /\ Head(lockQ) \in Tasks
    BY <1>0, <1>1
  <2>. QED BY <1>0, <1>1, <2>1 DEF InsertedRows, Committing
<1>2. CASE WsStep \/ PrivacyDropRaises \/ \E e \in Entities : Receive(e)
  <2>1. /\ pc["ws"] # "commit" /\ \E where : pc' = [pc EXCEPT !["ws"] = where]
        /\ lockQ' = lockQ \/ lockQ' = Append(lockQ, "ws")
        /\ UNCHANGED <<buffer, events, commit>>
    BY <1>0, <1>2 DEF WsStep, Discard, SubmitHidden, SubmitVisible, SubmitResumes, Wait,
                      IncrementPrivacyDrop, PrivacyDropRaises, Receive
  <2>. QED BY <1>0, <1>1, <2>1
<1>3. CASE FlushStep
  <2>1. /\ pc["flush"] # "commit" /\ \E where : pc' = [pc EXCEPT !["flush"] = where]
        /\ lockQ' = lockQ \/ lockQ' = Append(lockQ, "flush")
        /\ UNCHANGED <<buffer, events, commit>>
    BY <1>0, <1>3 DEF FlushStep, FlushTick, FlushResumes, FlushSeesStop, Wait
  <2>. QED BY <1>0, <1>1, <2>1
<1>4. CASE StopStep \/ Stop
  <2>1. /\ pc["stop"] # "commit" /\ \E where : pc' = [pc EXCEPT !["stop"] = where]
        /\ lockQ' = lockQ \/ lockQ' = Append(lockQ, "stop")
        /\ UNCHANGED <<buffer, events, commit>>
    BY <1>0, <1>4 DEF StopStep, StopFlushes, StopResumes, StopRaises, Stop, Wait
  <2>. QED BY <1>0, <1>1, <2>1
<1>5. CASE \/ IntervalElapses \/ Tick \/ Exited \/ (\E s \in Snapshots : RebuildIndex(s))
           \/ (\E h \in HidePatterns : ReloadPattern(h))
  <2>1. UNCHANGED <<pc, lockQ, buffer, events, commit>>
    BY <1>5 DEF IntervalElapses, Tick, Exited, vars, RebuildIndex, ReloadPattern
  <2>. QED BY <1>0, <2>1 DEF InsertedRows, Committing
<1>. QED BY <1>2, <1>3, <1>4, <1>5

(***************************************************************************)
(* As long as no call fails, the table and the buffer are in the order of   *)
(* arrival and the buffer comes after the table, except while the commit in *)
(* progress has inserted the buffer and not yet cleared it.                 *)
(***************************************************************************)
Increasing(s) == \A i, j \in DOMAIN s : i < j => s[i].id < s[j].id
BufferAfterTable == \A i \in DOMAIN events, j \in DOMAIN buffer : events[i].id < buffer[j].id
OrderInv ==
  faults = 0 => Increasing(events) /\ Increasing(buffer) /\ (InsertedRows \/ BufferAfterTable)

LEMMA IncreasingConcat ==
  ASSUME NEW a \in Seq(Row), NEW b \in Seq(Row), Increasing(a), Increasing(b),
         \A i \in DOMAIN a, j \in DOMAIN b : a[i].id < b[j].id
  PROVE  Increasing(a \o b)
<1> SUFFICES ASSUME NEW i \in DOMAIN (a \o b), NEW j \in DOMAIN (a \o b), i < j
             PROVE  (a \o b)[i].id < (a \o b)[j].id
  BY DEF Increasing
<1>0. /\ Len(a) \in Nat /\ Len(b) \in Nat /\ DOMAIN a = 1..Len(a) /\ DOMAIN b = 1..Len(b)
      /\ \A x \in DOMAIN a : (a \o b)[x] = a[x]
      /\ \A x \in DOMAIN b : (a \o b)[Len(a) + x] = b[x]
      /\ i \in DOMAIN a \/ i \in Shift(DOMAIN b, Len(a))
      /\ j \in DOMAIN a \/ j \in Shift(DOMAIN b, Len(a))
  BY ConcatPositions
<1>1. CASE i \in DOMAIN a /\ j \in DOMAIN a
  BY <1>0, <1>1 DEF Increasing
<1>2. CASE i \in DOMAIN a /\ j \in Shift(DOMAIN b, Len(a))
  BY <1>0, <1>2 DEF Shift
<1>3. CASE i \in Shift(DOMAIN b, Len(a)) /\ j \in DOMAIN a
  BY <1>0, <1>3 DEF Shift
<1>4. CASE i \in Shift(DOMAIN b, Len(a)) /\ j \in Shift(DOMAIN b, Len(a))
  <2>1. PICK x \in DOMAIN b, y \in DOMAIN b : i = Len(a) + x /\ j = Len(a) + y
    BY <1>4 DEF Shift
  <2>2. x < y
    BY <1>0, <2>1
  <2>. QED BY <1>0, <2>1, <2>2 DEF Increasing
<1>. QED BY <1>0, <1>1, <1>2, <1>3, <1>4

(* submit() appends the latest event received, after everything in the      *)
(* buffer and in the table.                                                 *)
LEMMA OrderAppend ==
  ASSUME IndInv, OrderInv, NEW entry \in Entry, buffer' = Append(buffer, entry), ~InsertedRows,
         entry.id = nextId, nextId \notin BufferIds \cup StoredIds, UNCHANGED <<events, faults>>
  PROVE  OrderInv'
<1> SUFFICES ASSUME faults = 0 PROVE Increasing(events) /\ Increasing(buffer)' /\ BufferAfterTable'
  BY DEF OrderInv, Increasing
<1>1. Increasing(events) /\ Increasing(buffer) /\ BufferAfterTable
  BY DEF OrderInv
<1>2. /\ buffer \in Seq(Entry) /\ Len(buffer) \in Nat /\ DOMAIN buffer = 1..Len(buffer)
      /\ DOMAIN buffer' = 1..(Len(buffer) + 1)
      /\ \A i \in DOMAIN buffer : buffer'[i] = buffer[i]
      /\ buffer'[Len(buffer) + 1] = entry
  BY DEF IndInv, TypeOK
<1>3. \A i \in DOMAIN buffer : buffer[i].id < nextId
  <2>1. \A i \in DOMAIN buffer : buffer[i].id \in BufferIds
    BY DEF BufferIds
  <2>. QED BY <2>1 DEF IndInv, IdsFresh, TypeOK
<1>4. \A i \in DOMAIN events : events[i].id < nextId
  <2>1. \A i \in DOMAIN events : events[i].id \in StoredIds
    BY DEF StoredIds
  <2>. QED BY <2>1 DEF IndInv, IdsFresh, TypeOK
<1>5. Increasing(buffer)'
  <2> SUFFICES ASSUME NEW i \in DOMAIN buffer', NEW j \in DOMAIN buffer', i < j
               PROVE  buffer'[i].id < buffer'[j].id
    BY DEF Increasing
  <2>1. i \in DOMAIN buffer /\ (j \in DOMAIN buffer \/ j = Len(buffer) + 1)
    BY <1>2
  <2>. QED BY <1>1, <1>2, <1>3, <2>1 DEF Increasing
<1>6. BufferAfterTable'
  <2> SUFFICES ASSUME NEW i \in DOMAIN events, NEW j \in DOMAIN buffer'
               PROVE  events[i].id < buffer'[j].id
    BY DEF BufferAfterTable
  <2>1. j \in DOMAIN buffer \/ j = Len(buffer) + 1
    BY <1>2
  <2>. QED BY <1>1, <1>2, <1>4, <2>1 DEF BufferAfterTable
<1>. QED BY <1>1, <1>5, <1>6

LEMMA OrderFrame ==
  ASSUME OrderInv, faults' = 0 => faults = 0, events' = events,
         buffer' = <<>> \/ (buffer' = buffer /\ (InsertedRows => InsertedRows'))
  PROVE  OrderInv'
BY DEF OrderInv, Increasing, BufferAfterTable

LEMMA OrderWs ==
  ASSUME IndInv, TypeOK', OrderInv, WsStep \/ PrivacyDropRaises \/ \E e \in Entities : Receive(e)
  PROVE  OrderInv'
<1> USE DEF tables
<1>0. InsertedRows => InsertedRows'
  BY StillInserted
<1>1. CASE UNCHANGED <<buffer, events, faults>>
  BY <1>0, <1>1, OrderFrame
<1>2. CASE PrivacyDropRaises
  <2>1. UNCHANGED <<buffer, events>> /\ faults' = faults + 1 /\ faults \in Nat
    BY <1>2 DEF PrivacyDropRaises, IndInv, TypeOK
  <2>. QED BY <1>0, <2>1, OrderFrame
<1>3. CASE (SubmitVisible /\ lockQ = <<>>) \/ SubmitResumes
  <2>1. /\ cur.id = nextId /\ nextId \notin BufferIds \cup StoredIds /\ ~InsertedRows
        /\ UNCHANGED <<events, faults>>
    BY <1>3 DEF SubmitVisible, SubmitResumes, Granted, IndInv, IdsFresh, InsertedRows, Committing
  <2>2. \E entry \in Entry : entry.id = cur.id /\ buffer' = Append(buffer, entry)
    <3>1. CASE SubmitVisible /\ lockQ = <<>>
      <4>1. cur' \in Entry /\ cur'.id = cur.id /\ buffer' = Append(buffer, cur')
        BY <3>1 DEF SubmitVisible, AddToBuffer, IndInv, TypeOK, Entry
      <4>. QED BY <4>1
    <3>2. CASE SubmitResumes
      BY <3>2 DEF SubmitResumes, AddToBuffer, IndInv, TypeOK
    <3>. QED BY <1>3, <3>1, <3>2
  <2>. QED BY <2>1, <2>2, OrderAppend
<1>. QED
  BY <1>1, <1>2, <1>3 DEF WsStep, Discard, SubmitHidden, SubmitVisible, Wait,
                          IncrementPrivacyDrop, Receive

LEMMA OrderCommit ==
  ASSUME IndInv, TypeOK', OrderInv, CommitStep
  PROVE  OrderInv'
<1> USE DEF tables
<1>1. CASE InsertEvents
  <2>1. /\ events \in Seq(Row) /\ commit.rows \in Seq(Row) /\ events' = events \o commit.rows
        /\ UNCHANGED <<buffer, faults, pc, lockQ>> /\ commit'.inserted /\ ~InsertedRows
        /\ Committing /\ Committing'
    BY <1>1 DEF InsertEvents, IndInv, TypeOK, InsertedRows, Committing
  <2>2. SUFFICES ASSUME faults = 0 PROVE Increasing(events') /\ Increasing(buffer)
    BY <2>1 DEF OrderInv, Increasing, InsertedRows
  <2>3. Increasing(events) /\ Increasing(buffer) /\ BufferAfterTable
    BY <2>1, <2>2 DEF OrderInv
  <2>4. /\ DOMAIN commit.rows = DOMAIN buffer
        /\ \A i \in DOMAIN buffer : commit.rows[i].id = buffer[i].id
    BY <2>1 DEF IndInv, BatchIsBuffer, TypeOK
  <2>5. Increasing(commit.rows) /\ \A i \in DOMAIN events, j \in DOMAIN commit.rows :
                                      events[i].id < commit.rows[j].id
    BY <2>3, <2>4 DEF Increasing, BufferAfterTable
  <2>6. Increasing(events \o commit.rows)
    BY <2>1, <2>3, <2>5, IncreasingConcat
  <2>. QED BY <2>1, <2>3, <2>6
<1>2. ASSUME NEW k \in Keys, IncrementCounter(k) PROVE OrderInv'
  <2>1. UNCHANGED <<events, buffer, faults>> /\ InsertedRows'
    BY <1>2 DEF IncrementCounter, InsertedRows, Committing, IndInv, TypeOK
  <2>. QED BY <2>1, OrderFrame
<1>3. ASSUME NEW e \in Entities, BumpEntity(e) PROVE OrderInv'
  <2>1. UNCHANGED <<events, faults>>
    BY <1>3 DEF BumpEntity
  <2>2. buffer' = <<>> \/ (buffer' = buffer /\ InsertedRows')
    <3>1. CASE commit.ents = {e}
      BY <1>3, <3>1 DEF BumpEntity, EndCommit
    <3>2. CASE commit.ents # {e}
      BY <1>3, <3>2 DEF BumpEntity, InsertedRows, Committing, IndInv, TypeOK
    <3>. QED BY <3>1, <3>2
  <2>. QED BY <2>1, <2>2, OrderFrame
<1>. QED BY <1>1, <1>2, <1>3 DEF CommitStep

LEMMA OrderNext ==
  ASSUME IndInv, OrderInv, [Next]_vars
  PROVE  OrderInv'
<1> USE DEF tables
<1>0. TypeOK /\ TypeOK'
  BY NextType DEF IndInv
<1>1. CASE CommitStep
  BY <1>0, <1>1, OrderCommit
<1>2. CASE WsStep \/ PrivacyDropRaises \/ \E e \in Entities : Receive(e)
  BY <1>0, <1>2, OrderWs
<1>3. CASE \/ FlushStep \/ StopStep \/ Stop \/ IntervalElapses \/ Tick \/ Exited
           \/ (\E s \in Snapshots : RebuildIndex(s))
           \/ (\E h \in HidePatterns : ReloadPattern(h))
  <2>1. InsertedRows => InsertedRows'
    BY <1>0, <1>3, StillInserted
  <2>2. UNCHANGED <<buffer, events, faults>>
    BY <1>3 DEF FlushStep, FlushTick, FlushResumes, FlushSeesStop, StopStep, StopFlushes,
                StopResumes, StopRaises, Stop, Wait, IntervalElapses, Tick, Exited, vars,
                RebuildIndex, ReloadPattern
  <2>. QED BY <2>1, <2>2, OrderFrame
<1>4. CASE CommitRaises
  <2>1. faults' = faults + 1 /\ faults \in Nat
    BY <1>0, <1>4 DEF CommitRaises, TypeOK
  <2>. QED BY <2>1 DEF OrderInv
<1>5. CASE Restart
  <2>1. buffer' = <<>> /\ UNCHANGED <<events, faults>>
    BY <1>5 DEF Restart
  <2>. QED BY <2>1, OrderFrame
<1>6. CASE UNCHANGED vars
  <2>1. UNCHANGED <<buffer, events, faults, pc, lockQ, commit>>
    BY <1>6 DEF vars
  <2>. QED BY <2>1, OrderFrame DEF InsertedRows, Committing
<1>. QED BY <1>1, <1>2, <1>3, <1>4, <1>5, <1>6 DEF Next, Environment

(* As long as no DAO call fails, insert_events numbers the events in the    *)
(* order of arrival and stores none twice, however submit(), the flush task *)
(* and stop() interleave, and across kills and restarts.                    *)
THEOREM RowsInOrderCorrect == Spec => []RowsInOrderWithoutFaults
<1>1. Init => OrderInv
  BY DEF Init, OrderInv, Increasing, BufferAfterTable
<1>2. IndInv /\ OrderInv /\ [Next]_vars => OrderInv'
  BY OrderNext
<1>3. OrderInv => RowsInOrderWithoutFaults
  BY DEF OrderInv, Increasing, RowsInOrderWithoutFaults
<1>. QED BY <1>1, <1>2, <1>3, Inductive, PTL DEF Spec

-----------------------------------------------------------------------------
(***************************************************************************)
(* As long as no call fails and the process is not killed, each counter is  *)
(* the number of its rows, less what the commit in progress has yet to add; *)
(* a commit that has not inserted its rows has all its counters to add.     *)
(***************************************************************************)
ToAdd(k) == IF InsertedRows /\ k \in commit.areas THEN HitsIn(k) ELSE 0
ExactInv ==
  faults = 0 /\ restarts = 0 =>
    /\ \A k \in Keys : counters[k] + ToAdd(k) = Cardinality(Matching(events, k))
    /\ Committing /\ ~commit.inserted => commit.areas = PerArea(commit.rows)

LEMMA ExactFrame ==
  ASSUME ExactInv, Quiet, UNCHANGED <<events, counters>>, InsertedRows => InsertedRows',
         faults' = 0 => faults = 0, restarts' = 0 => restarts = 0
  PROVE  ExactInv'
<1> SUFFICES ASSUME faults' = 0, restarts' = 0
             PROVE  /\ \A k \in Keys : (counters[k] + ToAdd(k) = Cardinality(Matching(events, k)))'
                    /\ (Committing /\ ~commit.inserted => commit.areas = PerArea(commit.rows))'
  BY DEF ExactInv
<1>1. InsertedRows' => InsertedRows /\ commit' = commit
  BY DEF Quiet, FreshBatch, InsertedRows
<1>2. ASSUME NEW k \in Keys PROVE ToAdd(k)' = ToAdd(k)
  BY <1>1 DEF ToAdd, HitsIn
<1>3. (Committing /\ ~commit.inserted => commit.areas = PerArea(commit.rows))'
  BY DEF Quiet, FreshBatch, ExactInv
<1>. QED BY <1>2, <1>3 DEF ExactInv

LEMMA ExactCommit ==
  ASSUME IndInv, TypeOK', ExactInv, CommitStep
  PROVE  ExactInv'
<1> USE DEF tables
<1>t. TypeOK /\ events \in Seq(Row) /\ commit.rows \in Seq(Row) /\ commit \in CommitType
  BY DEF IndInv, TypeOK, CommitType
<1>f. UNCHANGED <<faults, restarts>>
  BY DEF CommitStep, InsertEvents, IncrementCounter, BumpEntity
<1>0. SUFFICES ASSUME faults = 0, restarts = 0
               PROVE  /\ \A k \in Keys : (counters[k] + ToAdd(k) = Cardinality(Matching(events, k)))'
                      /\ (Committing /\ ~commit.inserted => commit.areas = PerArea(commit.rows))'
  BY <1>f DEF ExactInv
<1>e. /\ \A k \in Keys : counters[k] + ToAdd(k) = Cardinality(Matching(events, k))
      /\ Committing /\ ~commit.inserted => commit.areas = PerArea(commit.rows)
  BY <1>0 DEF ExactInv
<1>n. ASSUME NEW k \in Keys
      PROVE  /\ counters[k] \in Nat /\ HitsIn(k) \in Nat
             /\ Cardinality(Matching(events, k)) \in Nat
  BY <1>t, BoundsType, AggregatesTypes
<1>1. CASE InsertEvents
  <2>1. /\ events' = events \o commit.rows /\ commit'.rows = commit.rows
        /\ commit'.areas = commit.areas /\ commit'.inserted
        /\ counters' = counters /\ ~InsertedRows /\ InsertedRows'
        /\ commit.areas = PerArea(commit.rows)
    BY <1>1, <1>t, <1>e DEF InsertEvents, CommitType, InsertedRows, Committing
  <2>2. ASSUME NEW k \in Keys
        PROVE  (counters[k] + ToAdd(k) = Cardinality(Matching(events, k)))'
    <3>1. Cardinality(Matching(events', k)) = Cardinality(Matching(events, k)) + HitsIn(k)
      BY <1>t, <2>1, MatchingConcat DEF HitsIn
    <3>2. HitsIn(k)' = HitsIn(k) /\ counters[k] = Cardinality(Matching(events, k))
      BY <1>e, <1>n, <2>1 DEF HitsIn, ToAdd
    <3>3. k \notin commit.areas => HitsIn(k) = 0
      BY <2>1, FS_EmptySet DEF HitsIn, PerArea
    <3>4. ToAdd(k)' = HitsIn(k)
      BY <1>n, <2>1, <3>2, <3>3 DEF ToAdd
    <3>. QED BY <1>n, <2>1, <3>1, <3>2, <3>4
  <2>. QED BY <2>1, <2>2
<1>2. ASSUME NEW k \in Keys, IncrementCounter(k)
      PROVE  /\ \A j \in Keys : (counters[j] + ToAdd(j) = Cardinality(Matching(events, j)))'
             /\ (Committing /\ ~commit.inserted => commit.areas = PerArea(commit.rows))'
  <2>1. /\ events' = events /\ commit'.rows = commit.rows /\ commit'.inserted
        /\ commit'.areas = commit.areas \ {k} /\ InsertedRows /\ InsertedRows'
        /\ k \in commit.areas /\ counters' = [counters EXCEPT ![k] = @ + HitsIn(k)]
    BY <1>2, <1>t DEF IncrementCounter, InsertedRows, Committing, CommitType
  <2>2. ASSUME NEW j \in Keys
        PROVE  (counters[j] + ToAdd(j) = Cardinality(Matching(events, j)))'
    <3>1. HitsIn(j)' = HitsIn(j)
      BY <2>1 DEF HitsIn
    <3>2. counters'[j] = IF j = k THEN counters[j] + HitsIn(j) ELSE counters[j]
      BY <1>t, <2>1 DEF TypeOK
    <3>3. /\ ToAdd(j) = IF j \in commit.areas THEN HitsIn(j) ELSE 0
          /\ ToAdd(j)' = IF j \in commit.areas /\ j # k THEN HitsIn(j) ELSE 0
      BY <2>1, <3>1 DEF ToAdd
    <3>. QED BY <1>e, <1>n, <2>1, <3>2, <3>3
  <2>. QED BY <2>1, <2>2
<1>3. ASSUME NEW e \in Entities, BumpEntity(e)
      PROVE  /\ \A k \in Keys : (counters[k] + ToAdd(k) = Cardinality(Matching(events, k)))'
             /\ (Committing /\ ~commit.inserted => commit.areas = PerArea(commit.rows))'
  <2>1. /\ events' = events /\ counters' = counters /\ commit.areas = {} /\ commit.inserted
    BY <1>3 DEF BumpEntity, InsertedRows
  <2>2. ~Committing' \/ (commit'.areas = {} /\ commit'.inserted)
    <3>1. CASE commit.ents = {e}
      <4>1. EndCommit /\ Committing
        BY <1>3, <3>1 DEF BumpEntity, InsertedRows
      <4>2. Head(lockQ) \in Tasks /\ Takes(Head(lockQ), lockQ)
        BY <4>1 DEF IndInv, TypeOK, Committing, Takes
      <4>3. NobodyCommits'
        BY <4>1, <4>2, StatesNotCommit, ReleaseLock DEF EndCommit, IndInv
      <4>. QED BY <4>3 DEF NobodyCommits, Committing, TypeOK
    <3>2. CASE commit.ents # {e}
      BY <1>3, <1>t, <2>1, <3>2 DEF BumpEntity, CommitType
    <3>. QED BY <3>1, <3>2
  <2>3. ASSUME NEW k \in Keys PROVE ToAdd(k) = 0 /\ ToAdd(k)' = 0
    BY <2>1, <2>2 DEF ToAdd, InsertedRows
  <2>. QED BY <1>e, <2>1, <2>2, <2>3
<1>. QED BY <1>1, <1>2, <1>3 DEF CommitStep

LEMMA ExactNext ==
  ASSUME IndInv, ExactInv, [Next]_vars
  PROVE  ExactInv'
<1> USE DEF tables
<1>0. TypeOK /\ TypeOK' /\ faults \in Nat /\ restarts \in Nat
  BY NextType DEF IndInv, TypeOK
<1>1. CASE CommitStep
  BY <1>0, <1>1, ExactCommit
<1>2. CASE \/ WsStep \/ PrivacyDropRaises \/ (\E e \in Entities : Receive(e))
           \/ FlushStep \/ StopStep \/ Stop \/ IntervalElapses \/ Tick \/ Exited
           \/ (\E s \in Snapshots : RebuildIndex(s))
           \/ (\E h \in HidePatterns : ReloadPattern(h))
  <2>1. Quiet
    BY <1>0, <1>2, WsInv, TimerInv, EnvironmentInv
  <2>2. InsertedRows => InsertedRows'
    BY <1>0, <1>2, StillInserted
  <2>3. UNCHANGED <<events, counters, restarts>> /\ (faults' = faults \/ faults' = faults + 1)
    BY <1>2 DEF WsStep, Discard, SubmitHidden, SubmitVisible, SubmitResumes,
                IncrementPrivacyDrop, PrivacyDropRaises, Receive,
                FlushStep, FlushTick, FlushResumes, FlushSeesStop, StopStep, StopFlushes,
                StopResumes, StopRaises, Stop, IntervalElapses, Tick, Exited, vars,
                RebuildIndex, ReloadPattern
  <2>. QED BY <1>0, <2>1, <2>2, <2>3, ExactFrame
<1>3. CASE CommitRaises \/ Restart
  <2>1. faults' = faults + 1 \/ restarts' = restarts + 1
    BY <1>3 DEF CommitRaises, Restart
  <2>. QED BY <1>0, <2>1 DEF ExactInv
<1>4. CASE UNCHANGED vars
  <2>1. Quiet /\ UNCHANGED <<events, counters, pc, lockQ, commit, faults, restarts>>
    BY <1>0, <1>4, CoreFrame DEF vars, core
  <2>. QED BY <2>1, ExactFrame DEF InsertedRows, Committing
<1>. QED BY <1>1, <1>2, <1>3, <1>4 DEF Next, Environment

(* As long as no call fails and the process lives, between two commits each *)
(* counter of an area is exactly the number of its rows: increment_counter  *)
(* is called once for every area and hour of a batch and no other, while    *)
(* the index that gives the areas is swapped and submit() waits.            *)
THEOREM CountersExactCorrect == Spec => []CountersExactWithoutFaults
<1>1. Init => ExactInv
  <2> SUFFICES ASSUME Init PROVE ExactInv
    OBVIOUS
  <2>1. ~Committing /\ events = <<>> /\ \A k \in Keys : counters[k] = 0
    BY DEF Init, Committing
  <2>2. ASSUME NEW k \in Keys PROVE Cardinality(Matching(events, k)) = 0 /\ ToAdd(k) = 0
    <3>1. Matching(events, k) = {}
      BY <2>1 DEF Matching
    <3>. QED BY <2>1, <3>1, FS_EmptySet DEF ToAdd, InsertedRows
  <2>. QED BY <2>1, <2>2 DEF ExactInv
<1>2. IndInv /\ ExactInv /\ [Next]_vars => ExactInv'
  BY ExactNext
<1>3. IndInv /\ ExactInv => CountersExactWithoutFaults
  <2> SUFFICES ASSUME IndInv, ExactInv, faults = 0, restarts = 0, ~Committing, NEW k \in Keys
               PROVE  counters[k] = Cardinality(Matching(events, k))
    BY DEF CountersExactWithoutFaults
  <2>1. counters[k] \in Nat /\ ToAdd(k) = 0
    BY DEF IndInv, TypeOK, ToAdd, InsertedRows
  <2>. QED BY <2>1 DEF ExactInv
<1>. QED BY <1>1, <1>2, <1>3, Inductive, PTL DEF Spec
-----------------------------------------------------------------------------
(***************************************************************************)
(* Counting the events received.  The accepted ones are finitely many, and  *)
(* the hours of privacy_drops too.                                          *)
(***************************************************************************)
Accepted == BufferIds \cup StoredIds
InHand == IF pc["ws"] \in {"handle", "drop", "wait"} THEN 1 ELSE 0

LEMMA BucketsFinite == IsFiniteSet(Buckets)
<1>1. IsFiniteSet(0..MaxTime)
  BY BoundsType, FS_Interval
<1> DEFINE f == [t \in 0..MaxTime |-> Bucket(t)]
<1>2. f \in Surjection(0..MaxTime, Buckets)
  BY DEF Buckets, Surjection
<1>. QED BY <1>1, <1>2, FS_Surjection

LEMMA AcceptedFinite ==
  ASSUME IndInv
  PROVE  IsFiniteSet(Accepted) /\ Cardinality(Accepted) \in Nat
<1>1. Accepted \in SUBSET (1..nextId) /\ nextId \in Int
  BY BoundsType DEF IndInv, IdsFresh, TypeOK, Accepted
<1>2. IsFiniteSet(1..nextId)
  BY <1>1, FS_Interval
<1>. QED BY <1>1, <1>2, FS_Subset, FS_CardinalityType

(* A shutdown that has begun is only undone by the next process. *)
LEMMA StoppingStays ==
  ASSUME IndInv, Next, ~Restart, Stopping
  PROVE  Stopping'
<1> USE DEF tables
<1>0. pc \in [Tasks -> States] /\ "stop" \in Tasks
  BY DEF IndInv, TypeOK, Tasks
<1>1. ASSUME NEW t, NEW where, where # "off", pc' = [pc EXCEPT ![t] = where]
      PROVE  Stopping'
  BY <1>0, <1>1 DEF Stopping
<1>r. \A t \in Tasks : Returned(t) # "off" /\ Raised(t) # "off"
  BY DEF Tasks, Returned, Raised
<1>2. CASE WsStep \/ PrivacyDropRaises \/ \E e \in Entities : Receive(e)
  <2>1. \E where : where # "off" /\ pc' = [pc EXCEPT !["ws"] = where]
    BY <1>2 DEF WsStep, Discard, SubmitHidden, SubmitVisible, SubmitResumes, AddToBuffer,
                BeginCommit, Release, Wait, IncrementPrivacyDrop, PrivacyDropRaises, Receive,
                Returned
  <2>. QED BY <1>1, <2>1
<1>3. CASE FlushStep
  <2>1. \E where : where # "off" /\ pc' = [pc EXCEPT !["flush"] = where]
    BY <1>3 DEF FlushStep, FlushTick, FlushResumes, FlushSeesStop, FlushIfDue, BeginCommit,
                Release, Wait, Returned
  <2>. QED BY <1>1, <2>1
<1>4. CASE StopStep \/ Stop
  <2>1. \E where : where # "off" /\ pc' = [pc EXCEPT !["stop"] = where]
    BY <1>4 DEF StopStep, StopFlushes, StopResumes, StopRaises, Stop, BeginCommit,
                Release, Wait, Returned
  <2>. QED BY <1>1, <2>1
<1>5. CASE CommitRaises
  <2>1. Head(lockQ) \in Tasks
    BY <1>5 DEF CommitRaises, Committing, IndInv, TypeOK
  <2>. QED BY <1>1, <1>5, <1>r, <2>1 DEF CommitRaises, Release
<1>6. ASSUME NEW e \in Entities, BumpEntity(e) PROVE Stopping'
  <2>1. Head(lockQ) \in Tasks
    BY <1>6 DEF BumpEntity, InsertedRows, Committing, IndInv, TypeOK
  <2>2. pc' = pc \/ pc' = [pc EXCEPT ![Head(lockQ)] = Returned(Head(lockQ))]
    BY <1>6 DEF BumpEntity, EndCommit, Release
  <2>. QED BY <1>1, <1>r, <2>1, <2>2 DEF Stopping
<1>7. CASE \/ InsertEvents \/ (\E k \in Keys : IncrementCounter(k))
           \/ IntervalElapses \/ Tick \/ Exited \/ (\E s \in Snapshots : RebuildIndex(s))
           \/ (\E h \in HidePatterns : ReloadPattern(h))
  <2>1. pc' = pc
    BY <1>7 DEF InsertEvents, IncrementCounter, IntervalElapses, Tick, Exited, vars,
                RebuildIndex, ReloadPattern
  <2>. QED BY <2>1 DEF Stopping
<1>. QED BY <1>2, <1>3, <1>4, <1>5, <1>6, <1>7 DEF Next, Environment, CommitStep

(* What is dropped, accepted and in hand, where the number of events is the same. *)
LEMMA AccountFrame ==
  ASSUME EveryEventAccountedFor, UNCHANGED <<nextId, drops, faults, restarts>>,
         Stopping => Stopping', Accepted' = Accepted, InHand' = InHand
  PROVE  EveryEventAccountedFor'
BY DEF EveryEventAccountedFor, Accepted, InHand

LEMMA AccountWs ==
  ASSUME IndInv, TypeOK', EveryEventAccountedFor, Stopping => Stopping',
         WsStep \/ PrivacyDropRaises \/ \E e \in Entities : Receive(e)
  PROVE  EveryEventAccountedFor'
<1> USE DEF tables
<1>0. "ws" \in Tasks /\ pc \in [Tasks -> States] /\ nextId \in Nat /\ faults \in Nat
  BY BoundsType DEF IndInv, TypeOK, Tasks
<1>1. SUFFICES ASSUME faults' = 0, restarts' = 0, ~Stopping'
               PROVE  nextId' = SumFunction(drops') + Cardinality(Accepted') + InHand'
  BY DEF EveryEventAccountedFor, Accepted, InHand
<1>2. faults = 0 /\ restarts = 0 /\ ~Stopping /\ UNCHANGED events
  <2>1. (faults' = faults \/ faults' = faults + 1) /\ UNCHANGED <<restarts, events>>
    BY DEF WsStep, Discard, SubmitHidden, SubmitVisible, SubmitResumes,
           IncrementPrivacyDrop, PrivacyDropRaises, Receive
  <2>. QED BY <1>0, <1>1, <2>1
<1>3. nextId = SumFunction(drops) + Cardinality(Accepted) + InHand
  BY <1>2 DEF EveryEventAccountedFor, Accepted, InHand
<1>4. SumFunction(drops) \in Nat /\ Cardinality(Accepted) \in Nat /\ IsFiniteSet(Accepted)
  <2>1. drops \in [Buckets -> Nat]
    BY DEF IndInv, TypeOK
  <2>2. SumFunctionOnSet(drops, Buckets) \in Nat
    BY <2>1, BucketsFinite, SumType
  <2>. QED BY <2>1, <2>2, AcceptedFinite DEF SumFunction
<1>5. ASSUME NEW e \in Entities, Receive(e)
      PROVE  nextId' = SumFunction(drops') + Cardinality(Accepted') + InHand'
  <2>1. /\ nextId' = nextId + 1 /\ UNCHANGED <<drops, buffer, events>>
        /\ pc["ws"] = "recv" /\ pc'["ws"] = "handle"
    BY <1>0, <1>5 DEF Receive
  <2>2. Accepted' = Accepted /\ InHand = 0 /\ InHand' = 1
    BY <2>1 DEF Accepted, BufferIds, StoredIds, InHand
  <2>. QED BY <1>0, <1>3, <1>4, <2>1, <2>2
<1>6. CASE SubmitHidden \/ (SubmitVisible /\ lockQ # <<>>)
  <2>1. /\ UNCHANGED <<nextId, drops, buffer, events>>
        /\ pc["ws"] = "handle" /\ pc'["ws"] \in {"drop", "wait"}
    BY <1>0, <1>6 DEF SubmitHidden, SubmitVisible, Wait
  <2>2. Accepted' = Accepted /\ InHand = 1 /\ InHand' = 1
    BY <2>1 DEF Accepted, BufferIds, StoredIds, InHand
  <2>. QED BY <1>3, <2>1, <2>2
<1>7. CASE IncrementPrivacyDrop
  <2>1. /\ UNCHANGED <<nextId, buffer, events>> /\ pc["ws"] = "drop" /\ pc'["ws"] = "recv"
        /\ drops' = [drops EXCEPT ![Bucket(cur.ts)] = @ + 1]
    BY <1>0, <1>7 DEF IncrementPrivacyDrop
  <2>2. Accepted' = Accepted /\ InHand = 1 /\ InHand' = 0
    BY <2>1 DEF Accepted, BufferIds, StoredIds, InHand
  <2>3. SumFunction(drops') = SumFunction(drops) + 1
    <3>1. drops \in [Buckets -> Nat] /\ cur.ts \in 0..MaxTime
      BY DEF IndInv, TypeOK, Entry
    <3>2. Bucket(cur.ts) \in Buckets
      BY <3>1, BucketType
    <3>3. SumFunctionOnSet(drops', Buckets) = SumFunctionOnSet(drops, Buckets) + 1
      <4>1. SumFunctionOnSet([drops EXCEPT ![Bucket(cur.ts)] = @ + 1], Buckets)
              = SumFunctionOnSet(drops, Buckets) + 1
        BY <3>1, <3>2, BucketsFinite, SumAdd
      <4>. QED BY <2>1, <4>1
    <3>4. DOMAIN drops = Buckets /\ DOMAIN drops' = Buckets
      BY <2>1, <3>1
    <3>. QED BY <3>3, <3>4 DEF SumFunction
  <2>. QED BY <1>0, <1>3, <1>4, <2>1, <2>2, <2>3
<1>8. CASE (SubmitVisible /\ lockQ = <<>>) \/ SubmitResumes
  <2>1. /\ nextId > 0 /\ cur.id = nextId /\ nextId \notin Accepted
        /\ UNCHANGED <<nextId, drops, events>> /\ InHand = 1
    BY <1>8 DEF SubmitVisible, SubmitResumes, Granted, IndInv, IdsFresh, Accepted, InHand
  <2>2. \E entry \in Entry : \E q : AddToBuffer(entry, q) /\ Takes("ws", q) /\ entry.id = nextId
    <3>1. CASE SubmitVisible /\ lockQ = <<>>
      <4>1. AddToBuffer(cur', <<"ws">>) /\ Takes("ws", <<"ws">>)
        BY <3>1 DEF SubmitVisible, Takes
      <4>2. cur' \in Entry /\ cur'.id = nextId
        BY <2>1, <3>1 DEF SubmitVisible, IndInv, TypeOK, Entry
      <4>. QED BY <4>1, <4>2
    <3>2. CASE SubmitResumes
      <4>1. AddToBuffer(cur, lockQ) /\ Takes("ws", lockQ) /\ cur \in Entry
        BY <3>2 DEF SubmitResumes, Granted, Takes, IndInv, TypeOK
      <4>. QED BY <2>1, <4>1
    <3>. QED BY <1>8, <3>1, <3>2
  <2>3. PICK entry \in Entry : \E q : AddToBuffer(entry, q) /\ Takes("ws", q) /\ entry.id = nextId
    BY <2>2
  <2>4. BufferIds' = BufferIds \cup {nextId}
    BY <2>1, <2>3, AddToBufferInv
  <2>5. Cardinality(Accepted') = Cardinality(Accepted) + 1
    <3>1. Accepted' = Accepted \cup {nextId}
      BY <2>1, <2>4 DEF Accepted, StoredIds
    <3>. QED BY <1>4, <2>1, <3>1, FS_AddElement
  <2>6. pc'["ws"] \in {"recv", "commit"}
    BY <1>0, <2>3 DEF AddToBuffer, BeginCommit, Release, Returned
  <2>7. InHand' = 0
    BY <2>6 DEF InHand
  <2>. QED BY <1>0, <1>3, <1>4, <2>1, <2>5, <2>7
<1>9. ~Discard /\ ~PrivacyDropRaises
  BY <1>0, <1>1, <1>2 DEF Discard, PrivacyDropRaises
<1>. QED BY <1>5, <1>6, <1>7, <1>8, <1>9 DEF WsStep

LEMMA AccountCommit ==
  ASSUME IndInv, TypeOK', EveryEventAccountedFor, Stopping => Stopping', CommitStep
  PROVE  EveryEventAccountedFor'
<1> USE DEF tables
<1>0. /\ "ws" \in Tasks /\ pc \in [Tasks -> States]
      /\ UNCHANGED <<nextId, drops, faults, restarts>>
  BY DEF IndInv, TypeOK, Tasks, CommitStep, InsertEvents, IncrementCounter, BumpEntity
<1>1. CASE InsertEvents
  <2>1. StoredIds' = StoredIds \cup BufferIds /\ BufferIds' = BufferIds /\ pc' = pc
    BY <1>1, InsertIds DEF InsertEvents, BufferIds
  <2>2. Accepted' = Accepted /\ InHand' = InHand
    BY <2>1 DEF Accepted, InHand
  <2>. QED BY <1>0, <2>2, AccountFrame
<1>2. ASSUME NEW k \in Keys, IncrementCounter(k) PROVE EveryEventAccountedFor'
  <2>1. Accepted' = Accepted /\ InHand' = InHand
    BY <1>2 DEF IncrementCounter, Accepted, BufferIds, StoredIds, InHand
  <2>. QED BY <1>0, <2>1, AccountFrame
<1>3. ASSUME NEW e \in Entities, BumpEntity(e) PROVE EveryEventAccountedFor'
  <2>1. BufferIds \subseteq StoredIds /\ StoredIds' = StoredIds /\ Head(lockQ) \in Tasks
        /\ pc[Head(lockQ)] = "commit"
    BY <1>3 DEF BumpEntity, InsertedRows, IndInv, TypeOK, Committing, InsertedIsStored, StoredIds
  <2>2. BufferIds' = {} \/ BufferIds' = BufferIds
    BY <1>3 DEF BumpEntity, EndCommit, BufferIds
  <2>3. pc' = pc \/ pc' = [pc EXCEPT ![Head(lockQ)] = Returned(Head(lockQ))]
    BY <1>3 DEF BumpEntity, EndCommit, Release
  <2>4. InHand' = InHand
    <3>1. CASE Head(lockQ) = "ws"
      BY <1>0, <2>1, <2>3, <3>1 DEF InHand, Returned
    <3>2. CASE Head(lockQ) # "ws"
      BY <1>0, <2>1, <2>3, <3>2 DEF InHand
    <3>. QED BY <3>1, <3>2
  <2>5. Accepted' = Accepted
    BY <2>1, <2>2 DEF Accepted
  <2>. QED BY <1>0, <2>4, <2>5, AccountFrame
<1>. QED BY <1>1, <1>2, <1>3 DEF CommitStep

LEMMA AccountNext ==
  ASSUME IndInv, EveryEventAccountedFor, [Next]_vars
  PROVE  EveryEventAccountedFor'
<1> USE DEF tables
<1>0. /\ TypeOK' /\ faults \in Nat /\ restarts \in Nat
      /\ "ws" \in Tasks /\ pc \in [Tasks -> States]
  BY NextType DEF IndInv, TypeOK, Tasks
<1>1. CASE UNCHANGED vars
  <2>1. UNCHANGED <<nextId, drops, faults, restarts, pc, buffer, events>>
    BY <1>1 DEF vars
  <2>. QED BY <2>1, AccountFrame DEF Accepted, BufferIds, StoredIds, InHand, Stopping
<1>2. CASE Restart \/ CommitRaises
  <2>1. faults' = faults + 1 \/ restarts' = restarts + 1
    BY <1>2 DEF Restart, CommitRaises
  <2>. QED BY <1>0, <2>1 DEF EveryEventAccountedFor
<1>3. CASE Next /\ ~Restart /\ ~CommitRaises
  <2>0. Stopping => Stopping'
    BY <1>3, StoppingStays
  <2>1. CASE WsStep \/ PrivacyDropRaises \/ \E e \in Entities : Receive(e)
    BY <1>0, <2>0, <2>1, AccountWs
  <2>2. CASE CommitStep
    BY <1>0, <2>0, <2>2, AccountCommit
  <2>3. CASE \/ FlushStep \/ StopStep \/ Stop \/ IntervalElapses \/ Tick \/ Exited
             \/ (\E s \in Snapshots : RebuildIndex(s))
             \/ (\E h \in HidePatterns : ReloadPattern(h))
    <3>1. UNCHANGED <<nextId, drops, buffer, events, faults, restarts>>
      BY <2>3 DEF FlushStep, FlushTick, FlushResumes, FlushSeesStop, StopStep, StopFlushes,
                  StopResumes, StopRaises, Stop, Wait, IntervalElapses, Tick, Exited, vars,
                  RebuildIndex, ReloadPattern
    <3>2. pc' = pc \/ \E where : \/ pc' = [pc EXCEPT !["flush"] = where]
                                 \/ pc' = [pc EXCEPT !["stop"] = where]
      BY <2>3 DEF FlushStep, FlushTick, FlushResumes, FlushSeesStop, FlushIfDue, StopStep,
                  StopFlushes, StopResumes, StopRaises, Stop, Wait, BeginCommit, Release,
                  IntervalElapses, Tick, Exited, vars, RebuildIndex, ReloadPattern
    <3>3. pc'["ws"] = pc["ws"]
      BY <1>0, <3>2
    <3>. QED BY <2>0, <3>1, <3>3, AccountFrame DEF Accepted, BufferIds, StoredIds, InHand
  <2>. QED BY <1>3, <2>1, <2>2, <2>3 DEF Next, Environment
<1>. QED BY <1>1, <1>2, <1>3

(* No event submit() receives is lost or counted twice between the privacy  *)
(* check and the table: as long as the process runs and no call fails, each *)
(* is dropped and counted, accepted, or still in the hands of submit().     *)
THEOREM AccountingCorrect == Spec => []EveryEventAccountedFor
<1>1. Init => EveryEventAccountedFor
  <2> SUFFICES ASSUME Init PROVE EveryEventAccountedFor
    OBVIOUS
  <2>1. nextId = 0 /\ drops = [b \in Buckets |-> 0] /\ pc["ws"] = "recv"
    BY DEF Init, Idle, Tasks
  <2>2. BufferIds \cup StoredIds = {}
    BY DEF Init, BufferIds, StoredIds
  <2>3. SumFunctionOnSet(drops, Buckets) = 0
    BY <2>1, BucketsFinite, SumType
  <2>4. SumFunction(drops) = 0
    BY <2>1, <2>3 DEF SumFunction
  <2>. QED BY <2>1, <2>2, <2>4, FS_EmptySet DEF EveryEventAccountedFor
<1>2. IndInv /\ EveryEventAccountedFor /\ [Next]_vars => EveryEventAccountedFor'
  BY AccountNext
<1>. QED BY <1>1, <1>2, Inductive, PTL DEF Spec
=============================================================================
