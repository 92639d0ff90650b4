--------------------------- MODULE Listener_proofs ---------------------------
(***************************************************************************)
(* Theorems about Listener, for any number of events, days, clients, faults *)
(* and restarts.  Three invariants are built on one another: where the event *)
(* in hand is (EventInv), the queues (StreamInv), and the archive with what  *)
(* this process owes it (ArchiveInv, SafeInv).                               *)
(***************************************************************************)
EXTENDS Listener, SequenceTheorems, FiniteSetTheorems, TLAPS

Ids == 1..MaxEvents
Line == [id : Ids, day : Days, hide : BOOLEAN]

(* The event in hand is the last one received, is of today, and has not been *)
(* accepted before submit() is done with it; events are accepted once.       *)
EventInv ==
  /\ main \in Alive \cup {"leaving", "down"} /\ ws \in {"idle", "submit", "commit", "ended"}
  /\ received \in 0..MaxEvents /\ today \in Days
  /\ pending \cup stored \subseteq 1..received
  /\ ws \in {"submit", "commit"} => cur \in Line /\ cur.id = received /\ cur.day = today
  /\ ws = "submit" => received \notin pending \cup stored
  /\ main \in {"leaving", "down"} => ws = "ended"

LEMMA BoundsType == MaxDay \in Nat /\ MaxDay > 0 /\ MaxEvents \in Nat /\ QueueSize \in Nat /\ QueueSize > 0
BY ArchiveAssumption, ListenerAssumption, BroadcasterAssumption

LEMMA EventInit == Init => EventInv
BY BoundsType DEF Init, EventInv, Alive, Days, Log!Init, NoEvent

LEMMA EventStep == EventInv /\ [Next]_vars => EventInv'
<1> SUFFICES ASSUME EventInv, [Next]_vars PROVE EventInv'
  OBVIOUS
<1> USE DEF EventInv, Alive, log, history
<1>1. CASE Receive
  <2>1. received' = received + 1 /\ received < MaxEvents
    BY <1>1 DEF Receive
  <2>2. PICK d \in today..MaxDay, h \in BOOLEAN :
          cur' = [id |-> received + 1, day |-> d, hide |-> h] /\ today' = d
    BY <1>1 DEF Receive
  <2>3. d \in Days /\ received + 1 \in Ids
    BY <2>1, <2>2, BoundsType DEF Days, Ids
  <2>4. cur' \in Line /\ cur'.id = received' /\ cur'.day = today'
    BY <2>1, <2>2, <2>3 DEF Line
  <2>5. pending' \cup stored' \subseteq 1..received' /\ received' \notin pending' \cup stored'
    BY <1>1, <2>1 DEF Receive
  <2>. QED BY <1>1, <2>1, <2>2, <2>3, <2>4, <2>5, BoundsType DEF Receive
<1>2. CASE BatchFull
  <2>1. received \in 1..received /\ cur.id = received
    BY <1>2 DEF BatchFull, Line, Ids
  <2>. QED BY <1>2, <2>1 DEF BatchFull
<1>3. CASE HandleEvent \/ ArchiveRaises
  <2>1. /\ SubmitReturns /\ ws' = Over /\ cur' = NoEvent
        /\ UNCHANGED <<main, received, today>>
    BY <1>3 DEF HandleEvent, ArchiveRaises
  <2>2. pending' \cup stored' \subseteq 1..received
    BY <2>1 DEF SubmitReturns, Log!Commit, Line, Ids
  <2>3. ws' \in {"idle", "ended"} /\ (main \in {"leaving", "down"} => ws' = "ended")
    <3>1. main \notin {"leaving", "down"}
      BY <2>1 DEF SubmitReturns
    <3>. QED BY <2>1, <3>1 DEF Over
  <2>. QED BY <2>1, <2>2, <2>3
<1>4. CASE SubmitRaises
  BY <1>4 DEF SubmitRaises, Over, Fault
<1>5. CASE SeeStop \/ FlushRaises \/ Sigterm \/ ServeReturns \/ SpillArchive
  BY <1>5 DEF SeeStop, FlushRaises, Sigterm, ServeReturns, SpillArchive, Stopped
<1>6. CASE Flush \/ StopReturns \/ CloseRaises
  BY <1>6 DEF Flush, StopReturns, CloseRaises, StopDrains, Log!Commit
<1>7. CASE StopRaises \/ Leave \/ GatherEnds \/ Kill
  BY <1>7 DEF StopRaises, Leave, GatherEnds, Kill, Exit, Log!ProcessEnds
<1>8. CASE Restart \/ Down
  BY <1>8 DEF Restart, Down, vars
<1>9. CASE \E c \in Clients : Handler(c) \/ Browser(c)
  BY <1>9 DEF Handler, Browser, others
<1>10. CASE UNCHANGED vars
  BY <1>10 DEF vars
<1>. QED BY <1>1, <1>2, <1>3, <1>4, <1>5, <1>6, <1>7, <1>8, <1>9, <1>10 DEF Next, WsTask, Main

LEMMA AlwaysEventInv == Spec => []EventInv
BY EventInit, EventStep, PTL DEF Spec

-----------------------------------------------------------------------------
(* EventLog: submit() accepts the event in hand, a commit stores all that is *)
(* pending, and the end of the process gives up the rest.                    *)
LEMMA LogStep ==
  EventInv /\ [Next]_vars => [Log!Next]_<<pending, stored, lives>>
<1> SUFFICES ASSUME EventInv, [Next]_vars,
                    ~UNCHANGED <<pending, stored, lives>>
             PROVE  Log!Accept \/ Log!Commit \/ Log!ProcessEnds
  BY DEF Log!Next
<1> USE DEF log
<1>a. ASSUME ws = "submit", pending' = pending \cup {cur.id}, UNCHANGED <<stored, lives>>
      PROVE  Log!Accept
  <2>1. cur.id \in (1..MaxEvents) \ (pending \cup stored)
    BY <1>a DEF EventInv, Line, Ids
  <2>. QED BY <1>a, <2>1 DEF Log!Accept
<1>1. CASE BatchFull
  BY <1>1, <1>a DEF BatchFull
<1>2. CASE HandleEvent \/ ArchiveRaises
  BY <1>2, <1>a DEF HandleEvent, ArchiveRaises, SubmitReturns
<1>3. CASE Flush \/ StopReturns \/ CloseRaises
  BY <1>3 DEF Flush, StopReturns, CloseRaises, StopDrains
<1>4. CASE StopRaises \/ Leave \/ GatherEnds \/ Kill
  BY <1>4 DEF StopRaises, Leave, GatherEnds, Exit, Kill
<1>5. CASE Receive \/ SubmitRaises \/ SeeStop \/ FlushRaises \/ Sigterm \/ ServeReturns
  BY <1>5 DEF Receive, SubmitRaises, SeeStop, FlushRaises, Sigterm, ServeReturns
<1>6. CASE Restart \/ Down \/ SpillArchive \/ UNCHANGED vars
  BY <1>6 DEF Restart, Down, SpillArchive, vars
<1>7. CASE \E c \in Clients : Handler(c) \/ Browser(c)
  BY <1>7 DEF Handler, Browser, others
<1>. QED BY <1>1, <1>2, <1>3, <1>4, <1>5, <1>6, <1>7 DEF Next, WsTask, Main

(* The process uses the pipeline as EventLog describes it, through failing   *)
(* calls, SIGTERM, kills and restarts (on_ws_event and the finally of _run): *)
(* what is proved of the pipeline's callers rests on that promise only.      *)
THEOREM ListenerImplementsEventLog == Spec => Log!Spec
<1>1. Init => Log!Init
  BY DEF Init
<1>. QED BY <1>1, LogStep, AlwaysEventInv, PTL DEF Spec, Log!Spec

-----------------------------------------------------------------------------
(* Suffixes of a sequence, by position. *)
LEMMA SuffixMeans ==
  ASSUME NEW S, NEW s \in Seq(S), NEW t \in Seq(S)
  PROVE  IsSuffix(s, t) <=> /\ Len(s) <= Len(t)
                            /\ \A i \in 1..Len(s) : s[i] = t[Len(t) - Len(s) + i]
<1> DEFINE rs == Reverse(s)  rt == Reverse(t)
<1>1. /\ rs \in Seq(S) /\ Len(rs) = Len(s)
      /\ rt \in Seq(S) /\ Len(rt) = Len(t)
      /\ \A i \in 1..Len(s) : rs[i] = s[Len(s) - i + 1]
      /\ \A i \in 1..Len(t) : rt[i] = t[Len(t) - i + 1]
  BY DEF Reverse
<1> HIDE DEF rs, rt
<1>2. Len(s) \in Nat /\ Len(t) \in Nat
  OBVIOUS
<1>3. SubSeq(rs, 1, Len(rs)) = rs
  BY <1>1, SubSeqFull
<1>4. ASSUME Len(s) <= Len(t)
      PROVE  rs = SubSeq(rt, 1, Len(rs)) <=> \A i \in 1..Len(s) : s[i] = t[Len(t) - Len(s) + i]
  <2> DEFINE cut == SubSeq(rt, 1, Len(rs))
  <2>0. \A i \in 1..Len(s) : rt[i] \in S
    BY <1>1, <1>2, <1>4
  <2>1. cut \in Seq(S) /\ Len(cut) = Len(s) /\ \A i \in 1..Len(s) : cut[i] = rt[i]
    BY <1>1, <1>2, <1>4, <2>0, SubSeqProperties
  <2> HIDE DEF cut
  <2>2. rs = cut <=> \A i \in 1..Len(s) : rs[i] = rt[i]
    BY <1>1, <2>1, SeqEqual
  <2>3. ASSUME \A i \in 1..Len(s) : rs[i] = rt[i], NEW i \in 1..Len(s)
        PROVE  s[i] = t[Len(t) - Len(s) + i]
    <3>1. Len(s) - i + 1 \in 1..Len(s) /\ Len(s) - i + 1 \in 1..Len(t)
      BY <1>2, <1>4
    <3>2. /\ Len(s) - (Len(s) - i + 1) + 1 = i
          /\ Len(t) - (Len(s) - i + 1) + 1 = Len(t) - Len(s) + i
      BY <1>2
    <3>3. rs[Len(s) - i + 1] = s[i] /\ rt[Len(s) - i + 1] = t[Len(t) - Len(s) + i]
      BY <1>1, <3>1, <3>2
    <3>. QED BY <2>3, <3>1, <3>3
  <2>4. ASSUME \A i \in 1..Len(s) : s[i] = t[Len(t) - Len(s) + i], NEW i \in 1..Len(s)
        PROVE  rs[i] = rt[i]
    <3>1. Len(s) - i + 1 \in 1..Len(s) /\ i \in 1..Len(t)
      BY <1>2, <1>4
    <3>2. s[Len(s) - i + 1] = t[Len(t) - i + 1]
      BY <1>2, <2>4, <3>1
    <3>. QED BY <1>1, <3>1, <3>2
  <2>5. (\A i \in 1..Len(s) : rs[i] = rt[i])
          <=> (\A i \in 1..Len(s) : s[i] = t[Len(t) - Len(s) + i])
    BY <2>3, <2>4
  <2>. QED BY <2>2, <2>5 DEF cut
<1>5. IsSuffix(s, t) <=> Len(rs) <= Len(rt) /\ rs = SubSeq(rt, 1, Len(rs))
  BY <1>3 DEF IsSuffix, IsPrefix, rs, rt
<1>. QED BY <1>1, <1>4, <1>5

LEMMA SuffixEmpty == ASSUME NEW S, NEW t \in Seq(S) PROVE IsSuffix(<<>>, t)
<1> DEFINE e == <<>>
<1>1. e \in Seq(S) /\ Len(e) = 0 /\ Len(t) \in Nat
  OBVIOUS
<1> HIDE DEF e
<1>2. Len(e) <= Len(t) /\ \A i \in 1..Len(e) : e[i] = t[Len(t) - Len(e) + i]
  BY <1>1
<1>3. IsSuffix(e, t)
  BY <1>1, <1>2, SuffixMeans
<1>. QED BY <1>3 DEF e

LEMMA SuffixTail ==
  ASSUME NEW S, NEW s \in Seq(S), NEW t \in Seq(S), s # <<>>, IsSuffix(s, t)
  PROVE  IsSuffix(Tail(s), t)
<1>1. /\ Len(s) <= Len(t) /\ Len(s) \in Nat /\ Len(t) \in Nat
      /\ \A i \in 1..Len(s) : s[i] = t[Len(t) - Len(s) + i]
  BY SuffixMeans
<1>2. /\ Tail(s) \in Seq(S) /\ Len(Tail(s)) = Len(s) - 1
      /\ \A i \in 1..Len(Tail(s)) : Tail(s)[i] = s[i + 1]
  BY HeadTailProperties
<1>3. ASSUME NEW i \in 1..Len(Tail(s)) PROVE Tail(s)[i] = t[Len(t) - Len(Tail(s)) + i]
  <2>1. i + 1 \in 1..Len(s) /\ Len(t) - Len(s) + (i + 1) = Len(t) - Len(Tail(s)) + i
    BY <1>1, <1>2
  <2>2. s[i + 1] = t[Len(t) - Len(s) + (i + 1)]
    BY <1>1, <2>1
  <2>. QED BY <1>2, <2>1, <2>2
<1>4. Len(Tail(s)) <= Len(t)
  BY <1>1, <1>2
<1>. QED BY <1>2, <1>3, <1>4, SuffixMeans

LEMMA SuffixAppend ==
  ASSUME NEW S, NEW s \in Seq(S), NEW t \in Seq(S), NEW e \in S, IsSuffix(s, t)
  PROVE  IsSuffix(Append(s, e), Append(t, e))
<1> DEFINE s2 == Append(s, e)  t2 == Append(t, e)
<1>1. /\ Len(s) <= Len(t) /\ Len(s) \in Nat /\ Len(t) \in Nat
      /\ \A i \in 1..Len(s) : s[i] = t[Len(t) - Len(s) + i]
  BY SuffixMeans
<1>2. /\ s2 \in Seq(S) /\ Len(s2) = Len(s) + 1 /\ s2[Len(s) + 1] = e
      /\ t2 \in Seq(S) /\ Len(t2) = Len(t) + 1 /\ t2[Len(t) + 1] = e
      /\ \A i \in 1..Len(s) : s2[i] = s[i]
      /\ \A i \in 1..Len(t) : t2[i] = t[i]
  BY AppendProperties
<1> HIDE DEF s2, t2
<1>3. ASSUME NEW i \in 1..Len(s2) PROVE s2[i] = t2[Len(t2) - Len(s2) + i]
  <2>1. CASE i = Len(s) + 1
    BY <1>1, <1>2, <2>1
  <2>2. CASE i \in 1..Len(s)
    <3>1. Len(t) - Len(s) + i \in 1..Len(t) /\ Len(t2) - Len(s2) + i = Len(t) - Len(s) + i
      BY <1>1, <1>2, <2>2
    <3>. QED BY <1>1, <1>2, <2>2, <3>1
  <2>. QED BY <1>1, <1>2, <2>1, <2>2
<1>4. Len(s2) <= Len(t2)
  BY <1>1, <1>2
<1>5. IsSuffix(s2, t2)
  BY <1>2, <1>3, <1>4, SuffixMeans
<1>. QED BY <1>5 DEF s2, t2

-----------------------------------------------------------------------------
(* What a step does to the queues. *)
LEMMA StreamSteps ==
  EventInv /\ [Next]_vars =>
    \/ UNCHANGED <<task, queue, published>>
    \/ \E e \in Ids : Publish(e)
    \/ StreamGone
    \/ \E c \in Clients : \/ Connect(c) \/ Take(c) \/ Send(c)
                          \/ SendRaises(c) \/ Finalise(c)
<1> SUFFICES ASSUME EventInv, [Next]_vars
             PROVE  \/ UNCHANGED <<task, queue, published>>
                    \/ \E e \in Ids : Publish(e)
                    \/ StreamGone
                    \/ \E c \in Clients : \/ Connect(c) \/ Take(c) \/ Send(c)
                                          \/ SendRaises(c) \/ Finalise(c)
  OBVIOUS
<1> USE DEF stream
<1>1. CASE HandleEvent
  <2>1. ws \in {"submit", "commit"}
    BY <1>1 DEF HandleEvent, SubmitReturns
  <2>2. cur.id \in Ids
    BY <2>1 DEF EventInv, Line
  <2>. QED BY <1>1, <2>2 DEF HandleEvent
<1>2. CASE StopRaises \/ Leave \/ GatherEnds \/ Kill
  BY <1>2 DEF StopRaises, Leave, GatherEnds, Exit, Kill
<1>3. CASE Receive \/ BatchFull \/ ArchiveRaises \/ SubmitRaises \/ SeeStop \/ Flush \/ FlushRaises
  BY <1>3 DEF Receive, BatchFull, ArchiveRaises, SubmitRaises, SeeStop, Flush, FlushRaises
<1>4. CASE Sigterm \/ ServeReturns \/ StopReturns \/ CloseRaises \/ Restart \/ Down \/ SpillArchive \/ UNCHANGED vars
  BY <1>4 DEF Sigterm, ServeReturns, StopReturns, CloseRaises, Restart, Down, SpillArchive, vars
<1>5. CASE \E c \in Clients : Handler(c) \/ Browser(c)
  BY <1>5 DEF Handler, Browser, Disconnect
<1>. QED BY <1>1, <1>2, <1>3, <1>4, <1>5 DEF Next, WsTask, Main

StreamInv ==
  /\ task \in [Clients -> {"none", "get", "send", "left"}]
  /\ queue \in [Clients -> Seq(Ids)] /\ published \in Seq(Ids)
  /\ \A c \in Clients : task[c] = "none" => queue[c] = <<>>
  /\ QueueIsNewest

LEMMA EmptyStream ==
  ASSUME task = Quiet("none"), queue = Quiet(<<>>), published = <<>>
  PROVE  StreamInv
<1>1. queue \in [Clients -> Seq(Ids)] /\ published \in Seq(Ids)
  BY DEF Quiet
<1>2. \A c \in Clients : queue[c] = <<>> /\ Len(<<>>) = 0 /\ IsSuffix(<<>>, <<>>)
  BY <1>1, SuffixEmpty DEF Quiet
<1>3. QueueIsNewest
  BY <1>2, BoundsType DEF QueueIsNewest
<1>. QED BY <1>1, <1>2, <1>3 DEF StreamInv, Quiet

LEMMA StreamStep == EventInv /\ StreamInv /\ [Next]_vars => StreamInv'
<1> SUFFICES ASSUME EventInv, StreamInv, [Next]_vars PROVE StreamInv'
  OBVIOUS
<1>1. CASE UNCHANGED <<task, queue, published>>
  BY <1>1 DEF StreamInv, QueueIsNewest
<1>2. ASSUME NEW e \in Ids, Publish(e) PROVE StreamInv'
  <2>1. published' = Append(published, e) /\ published' \in Seq(Ids) /\ task' = task
    BY <1>2 DEF Publish, StreamInv
  <2>2. ASSUME NEW c \in Clients
        PROVE  LET q == Offer(queue[c], e) IN
               q \in Seq(Ids) /\ Len(q) <= QueueSize /\ IsSuffix(q, published')
    <3> DEFINE q == queue[c]
    <3>1. q \in Seq(Ids) /\ Len(q) <= QueueSize /\ IsSuffix(q, published) /\ Len(q) \in Nat
      BY DEF StreamInv, QueueIsNewest
    <3> HIDE DEF q
    <3>2. CASE Len(q) = QueueSize
      <4>1. q # <<>>
        BY <3>2, BoundsType
      <4>2. Tail(q) \in Seq(Ids) /\ Len(Tail(q)) = Len(q) - 1 /\ IsSuffix(Tail(q), published)
        BY <3>1, <4>1, SuffixTail, HeadTailProperties DEF StreamInv
      <4>3. IsSuffix(Append(Tail(q), e), published')
        BY <2>1, <4>2, SuffixAppend DEF StreamInv
      <4>4. Append(Tail(q), e) \in Seq(Ids) /\ Len(Append(Tail(q), e)) = Len(q)
        BY <3>1, <4>2
      <4>. QED BY <3>1, <3>2, <4>3, <4>4 DEF Offer, q
    <3>3. CASE Len(q) # QueueSize
      <4>1. IsSuffix(Append(q, e), published')
        BY <2>1, <3>1, SuffixAppend DEF StreamInv
      <4>2. Append(q, e) \in Seq(Ids) /\ Len(Append(q, e)) <= QueueSize
        BY <3>1, <3>3, BoundsType
      <4>. QED BY <3>3, <4>1, <4>2 DEF Offer, q
    <3>. QED BY <3>2, <3>3
  <2>3. ASSUME NEW c \in Clients, task[c] = "none"
        PROVE  queue[c] = <<>> /\ Len(<<>>) = 0 /\ IsSuffix(<<>>, published')
    BY <2>1, <2>3, SuffixEmpty DEF StreamInv
  <2>4. \A c \in Clients : queue'[c] = IF task[c] = "none" THEN queue[c] ELSE Offer(queue[c], e)
    BY <1>2 DEF Publish
  <2>5. queue' \in [Clients -> Seq(Ids)]
    BY <1>2, <2>2 DEF Publish, StreamInv
  <2>6. QueueIsNewest'
    BY <2>2, <2>3, <2>4, BoundsType DEF QueueIsNewest
  <2>. QED BY <2>1, <2>3, <2>4, <2>5, <2>6 DEF StreamInv
<1>3. CASE StreamGone
  <2>1. /\ task' = Quiet("none") /\ queue' = Quiet(<<>>) /\ published' = <<>>
    BY <1>3 DEF StreamGone
  <2>2. queue' \in [Clients -> Seq(Ids)] /\ published' \in Seq(Ids)
    BY <2>1 DEF Quiet
  <2>3. \A c \in Clients : queue'[c] = <<>> /\ Len(<<>>) = 0 /\ IsSuffix(<<>>, published')
    BY <2>1, <2>2, SuffixEmpty DEF Quiet
  <2>. QED BY <2>1, <2>2, <2>3, BoundsType DEF StreamInv, QueueIsNewest, Quiet
<1>4. ASSUME NEW c \in Clients, Connect(c) \/ Send(c) \/ SendRaises(c) PROVE StreamInv'
  <2>1. /\ UNCHANGED <<queue, published>>
        /\ \E w \in {"get", "left"} : task' = [task EXCEPT ![c] = w]
    BY <1>4 DEF Connect, Send, SendRaises
  <2>. QED BY <2>1 DEF StreamInv, QueueIsNewest
<1>5. ASSUME NEW c \in Clients, Take(c) PROVE StreamInv'
  <2>1. /\ queue[c] # <<>> /\ queue' = [queue EXCEPT ![c] = Tail(@)] /\ published' = published
        /\ task' = [task EXCEPT ![c] = "send"]
    BY <1>5 DEF Take
  <2>2. /\ Tail(queue[c]) \in Seq(Ids) /\ Len(Tail(queue[c])) = Len(queue[c]) - 1
        /\ Len(queue[c]) \in Nat
        /\ IsSuffix(Tail(queue[c]), published)
    BY <2>1, SuffixTail, HeadTailProperties DEF StreamInv, QueueIsNewest
  <2>3. Len(Tail(queue[c])) <= QueueSize
    BY <2>2, BoundsType DEF StreamInv, QueueIsNewest
  <2>. QED BY <2>1, <2>2, <2>3 DEF StreamInv, QueueIsNewest
<1>6. ASSUME NEW c \in Clients, Finalise(c) PROVE StreamInv'
  <2>1. /\ queue' = [queue EXCEPT ![c] = <<>>] /\ published' = published
        /\ task' = [task EXCEPT ![c] = "none"]
    BY <1>6 DEF Finalise
  <2>2. <<>> \in Seq(Ids) /\ Len(<<>>) = 0 /\ IsSuffix(<<>>, published)
    BY SuffixEmpty DEF StreamInv
  <2>. QED BY <2>1, <2>2, BoundsType DEF StreamInv, QueueIsNewest
<1>. QED BY <1>1, <1>2, <1>3, <1>4, <1>5, <1>6, StreamSteps

(* Whatever clients do, the queue EventBroadcaster.publish fills is bounded  *)
(* and holds the newest events of this process, without a gap.               *)
THEOREM QueueIsNewestCorrect == Spec => []QueueIsNewest
<1>1. Init => StreamInv
  BY EmptyStream DEF Init, StreamInit
<1>2. StreamInv => QueueIsNewest
  BY DEF StreamInv
<1>. QED BY <1>1, <1>2, StreamStep, AlwaysEventInv, PTL DEF Spec

-----------------------------------------------------------------------------
(* The archive.  A handle that is open belongs to a day, a begun one has its *)
(* member on disk, one that lost bytes is of a spoilt day, and a handle that *)
(* a failed rollover left closed is of an earlier day: the one of today can  *)
(* be written to.                                                            *)
Member == [lines : SUBSET Ids, whole : BOOLEAN]
Handles == [day : 0..MaxDay, open : BOOLEAN, begun : BOOLEAN, hurt : BOOLEAN]
ArchiveInv ==
  /\ handle \in Handles
  /\ buf \subseteq Ids /\ files \in [Days -> Seq(Member)]
  /\ handle.open => handle.day \in Days
  /\ handle.begun => handle.open /\ files[handle.day] # <<>>
  /\ handle.hurt => handle.day \in spoilt
  /\ handle.day <= today
  /\ main \in {"leaving", "down"} => handle = NoHandle
  /\ FailedOpenHeals

(* While the process is up, the files of the days that are not spoilt are    *)
(* whole, up to the member it is writing; an event it received can be read   *)
(* there, is still in its buffers, was logged as failed, or is in hand; and  *)
(* a visible one is stored, pending, or not yet through submit().            *)
WholeFiles ==
  \A d \in Days \ spoilt : \A i \in 1..Len(files[d]) :
    files[d][i].whole \/ (handle.begun /\ handle.day = d /\ i = Len(files[d]))
InHand(t) == ws \in {"submit", "commit"} /\ t = cur
LinesSafe ==
  \A t \in taken : \/ t.day \in spoilt \/ t.id \in raised \/ InHand(t)
                   \/ t.id \in Readable(t.day)
                   \/ handle.open /\ handle.day = t.day /\ t.id \in buf
AcceptedSafe ==
  \A t \in taken : t.hide \/ t.id \in stored \cup pending \/ (ws = "submit" /\ t = cur)

(* Once stop() has drained and closed, nothing is lost but the event that    *)
(* was then in hand.                                                         *)
Lost == Unstored \cup Unarchived
LateLoss ==
  /\ ws = "idle" => Lost = {}
  /\ ws \in {"submit", "commit"} => Lost \subseteq {cur.id}
  /\ ws = "ended" => \E id \in Nat : Lost \subseteq {id}

SafeInv ==
  /\ taken \subseteq Line
  /\ main \in Alive => WholeFiles /\ LinesSafe /\ AcceptedSafe
  /\ main = "waiting" => LateLoss
  /\ outcome = "ok" => main = "down" /\ \E id \in Nat : Lost \subseteq {id}

-----------------------------------------------------------------------------
(* What a step does to the archive. *)
LEMMA ArchiveSteps ==
  EventInv /\ [Next]_vars =>
    \/ UNCHANGED archive
    \/ AppendLine(cur.id, cur.day) /\ HandleEvent
    \/ ArchiveRaises
    \/ CloseArchive /\ main' \in {"waiting", "down"} /\ UNCHANGED spoilt
    \/ SpillArchive
    \/ Abandon /\ main' \in {"leaving", "down"} /\ UNCHANGED spoilt
<1> SUFFICES ASSUME EventInv, [Next]_vars
             PROVE  \/ UNCHANGED archive
                    \/ AppendLine(cur.id, cur.day) /\ HandleEvent
                    \/ ArchiveRaises
                    \/ CloseArchive /\ main' \in {"waiting", "down"} /\ UNCHANGED spoilt
                    \/ SpillArchive
                    \/ Abandon /\ main' \in {"leaving", "down"} /\ UNCHANGED spoilt
  OBVIOUS
<1>1. CASE HandleEvent
  BY <1>1 DEF HandleEvent
<1>3. CASE StopReturns \/ CloseRaises \/ Leave \/ StopRaises \/ GatherEnds \/ Kill
  BY <1>3 DEF StopReturns, CloseRaises, Leave, StopRaises, GatherEnds, Exit, Kill, history
<1>4. CASE Receive \/ BatchFull \/ SubmitRaises \/ SeeStop \/ Flush \/ FlushRaises
  BY <1>4 DEF Receive, BatchFull, SubmitRaises, SeeStop, Flush, FlushRaises
<1>5. CASE Sigterm \/ ServeReturns \/ Restart \/ Down \/ UNCHANGED vars
  BY <1>5 DEF Sigterm, ServeReturns, Restart, Down, vars
<1>6. CASE \E c \in Clients : Handler(c) \/ Browser(c)
  BY <1>6 DEF Handler, Browser, others
<1>. QED BY <1>1, <1>3, <1>4, <1>5, <1>6 DEF Next, WsTask, Main

(* append(), whether it returns or raises in its write: the handle of the    *)
(* day is in place, and it is whole unless the day is spoilt.                *)
Appends ==
  /\ handle' \in {HandleFor(cur.day), [HandleFor(cur.day) EXCEPT !.hurt = TRUE]}
  /\ files' = Rolled(cur.day) /\ buf' \subseteq Kept(cur.day) \cup {cur.id}
  /\ cur.day \in spoilt' \/ (handle' = HandleFor(cur.day) /\ Kept(cur.day) \subseteq buf')

(* How an event is handled to its end. *)
LEMMA HandlingSteps ==
  ASSUME EventInv, HandleEvent \/ ArchiveRaises
  PROVE  /\ ws \in {"submit", "commit"} /\ cur \in Line /\ cur.day = today
         /\ main \in Alive /\ UNCHANGED <<main, today, taken>>
         /\ spoilt \subseteq spoilt' /\ raised \subseteq raised'
         /\ ArchiveRaises => cur.id \in raised'
         /\ \/ Appends
            \/ /\ CloseFails(cur.day) /\ spoilt' = spoilt \cup {handle.day}
            \/ OpenFails(cur.day) /\ spoilt' = spoilt
<1>1. SubmitReturns /\ UNCHANGED <<main, today, taken>>
  BY DEF HandleEvent, ArchiveRaises, history
<1>2. ws \in {"submit", "commit"} /\ cur \in Line /\ cur.day = today /\ main \in Alive
  BY <1>1 DEF SubmitReturns, EventInv
<1>3. /\ spoilt \subseteq spoilt' /\ raised \subseteq raised'
      /\ ArchiveRaises => cur.id \in raised'
  BY DEF HandleEvent, ArchiveRaises, history
<1>4. CASE HandleEvent /\ ~HandleFor(cur.day).hurt
  BY <1>1, <1>2, <1>3, <1>4 DEF HandleEvent, AppendLine, Appends
<1>5. CASE HandleEvent /\ HandleFor(cur.day).hurt
  BY <1>1, <1>2, <1>3, <1>5 DEF HandleEvent, AppendLine, Appends
<1>6. CASE ArchiveRaises
  <2>1. CASE WriteFails(cur.day)
    BY <1>1, <1>2, <1>3, <2>1 DEF WriteFails, Appends
  <2>2. CASE FlushFails(cur.day) /\ spoilt' = spoilt \cup {cur.day}
    BY <1>1, <1>2, <1>3, <2>2 DEF FlushFails, FirstLines, Appends
  <2>. QED BY <1>1, <1>2, <1>3, <1>6, <2>1, <2>2 DEF ArchiveRaises
<1>. QED BY <1>4, <1>5, <1>6

(* The day never goes back; the handle of a process that ends is given up;   *)
(* a day stays spoilt until the next process starts.                         *)
LEMMA TodaySteps ==
  EventInv /\ [Next]_vars =>
    /\ today' \in Nat /\ today \in Nat /\ today <= today'
    /\ main' \in {"leaving", "down"} => main = main' \/ CloseArchive \/ Abandon
    /\ spoilt \subseteq spoilt' \/ (Restart /\ main = "down")
<1> SUFFICES ASSUME EventInv, [Next]_vars
             PROVE  /\ today' \in Nat /\ today \in Nat /\ today <= today'
                    /\ main' \in {"leaving", "down"} => main = main' \/ CloseArchive \/ Abandon
                    /\ spoilt \subseteq spoilt' \/ (Restart /\ main = "down")
  OBVIOUS
<1> USE DEF history
<1>0. today \in Nat
  BY BoundsType DEF EventInv, Days
<1>1. CASE Receive
  BY <1>0, <1>1, BoundsType DEF Receive, Alive
<1>2. CASE HandleEvent \/ ArchiveRaises
  BY <1>0, <1>2, HandlingSteps
<1>3. CASE StopReturns \/ CloseRaises \/ Leave \/ StopRaises \/ GatherEnds \/ Kill
  BY <1>0, <1>3 DEF StopReturns, CloseRaises, Leave, StopRaises, GatherEnds, Exit, Kill
<1>4. CASE BatchFull \/ SubmitRaises \/ SeeStop \/ Flush \/ FlushRaises \/ Sigterm \/ ServeReturns
  BY <1>0, <1>4 DEF BatchFull, SubmitRaises, SeeStop, Flush, FlushRaises, Sigterm, ServeReturns
<1>5. CASE Restart \/ Down \/ SpillArchive \/ UNCHANGED vars
  BY <1>0, <1>5 DEF Restart, Down, SpillArchive, vars
<1>6. CASE \E c \in Clients : Handler(c) \/ Browser(c)
  BY <1>0, <1>6 DEF Handler, Browser, others
<1>. QED BY <1>1, <1>2, <1>3, <1>4, <1>5, <1>6 DEF Next, WsTask, Main

(* The members of the file of the open handle, before the last one and with it. *)
LEMMA LastMember ==
  ASSUME ArchiveInv, handle.open, NEW m \in Member
  PROVE  LET d == handle.day  F == WithLast(m)  n == Len(F[d]) IN
         /\ d \in Days /\ F \in [Days -> Seq(Member)]
         /\ n \in Nat /\ n > 0 /\ F[d][n] = m
         /\ \A x \in Days \ {d} : F[x] = files[x]
         /\ Len(files[d]) = IF handle.begun THEN n ELSE n - 1
         /\ \A i \in 1..(n - 1) : F[d][i] = files[d][i]
<1> DEFINE d == handle.day  old == files[d]  F == WithLast(m)
<1>1. d \in Days /\ old \in Seq(Member) /\ Len(old) \in Nat /\ files \in [Days -> Seq(Member)]
  BY DEF ArchiveInv
<1>2. CASE handle.begun
  <2>1. Len(old) > 0
    BY <1>1, <1>2 DEF ArchiveInv
  <2>2. F = [files EXCEPT ![d] = [old EXCEPT ![Len(old)] = m]]
    BY <1>2 DEF WithLast
  <2> DEFINE new == [old EXCEPT ![Len(old)] = m]
  <2>3. /\ new \in Seq(Member) /\ Len(new) = Len(old) /\ new[Len(old)] = m
        /\ \A i \in 1..(Len(old) - 1) : new[i] = old[i]
    BY <1>1, <2>1, ExceptSeq
  <2> HIDE DEF new
  <2>4. F = [files EXCEPT ![d] = new]
    BY <2>2 DEF new
  <2> HIDE DEF F, old
  <2>5. F[d] = new /\ F \in [Days -> Seq(Member)] /\ \A x \in Days \ {d} : F[x] = files[x]
    BY <1>1, <2>3, <2>4
  <2>. QED BY <1>1, <1>2, <2>1, <2>3, <2>5 DEF F, old
<1>3. CASE ~handle.begun
  <2> DEFINE new == Append(old, m)
  <2>3. /\ new \in Seq(Member) /\ Len(new) = Len(old) + 1 /\ new[Len(old) + 1] = m
        /\ \A i \in 1..Len(old) : new[i] = old[i]
    BY <1>1, AppendProperties
  <2> HIDE DEF new
  <2>4. F = [files EXCEPT ![d] = new]
    BY <1>3 DEF WithLast, new
  <2> HIDE DEF F, old
  <2>5. F[d] = new /\ F \in [Days -> Seq(Member)] /\ \A x \in Days \ {d} : F[x] = files[x]
    BY <1>1, <2>3, <2>4
  <2>. QED BY <1>1, <1>3, <2>3, <2>5 DEF F, old
<1>. QED BY <1>2, <1>3

LEMMA DiskLines ==
  ASSUME ArchiveInv, handle.open, NEW S \in SUBSET buf
  PROVE  /\ OnDisk(handle.day) \subseteq Ids
         /\ WholeMember(OnDisk(handle.day) \cup S) \in Member
         /\ CutMember(OnDisk(handle.day) \cup S) \in Member
<1>1. OnDisk(handle.day) \subseteq Ids
  <2>1. CASE handle.begun
    <3> DEFINE s == files[handle.day]
    <3>1. s \in Seq(Member) /\ s # <<>>
      BY <2>1 DEF ArchiveInv
    <3>2. s[Len(s)] \in Member
      <4> HIDE DEF s
      <4>. QED BY <3>1
    <3>. QED BY <2>1, <3>2 DEF OnDisk, Member
  <2>2. CASE ~handle.begun
    BY <2>2 DEF OnDisk
  <2>. QED BY <2>1, <2>2
<1>2. OnDisk(handle.day) \cup S \in SUBSET Ids
  BY <1>1 DEF ArchiveInv
<1>. QED BY <1>1, <1>2 DEF WholeMember, CutMember, Member

(* What close() and a spill of the buffers write to the file of the handle. *)
LEMMA ClosedIs ==
  ASSUME ArchiveInv, handle.open
  PROVE  \E m \in Member : /\ Closed = WithLast(m) /\ m.lines = OnDisk(handle.day) \cup buf
                           /\ m.whole = ~handle.hurt
<1>1. /\ WholeMember(OnDisk(handle.day) \cup buf) \in Member
      /\ CutMember(OnDisk(handle.day) \cup buf) \in Member
  BY DiskLines
<1>2. CASE handle.hurt
  BY <1>1, <1>2 DEF Closed, CutMember
<1>3. CASE ~handle.hurt
  BY <1>1, <1>3 DEF Closed, WholeMember
<1>. QED BY <1>2, <1>3

LEMMA SpillIs ==
  ASSUME ArchiveInv, Spill
  PROVE  \E S \in SUBSET buf, m \in Member :
           /\ handle.open /\ handle' = [handle EXCEPT !.begun = TRUE]
           /\ files' = WithLast(m) /\ m.lines = OnDisk(handle.day) \cup S /\ buf' = buf \ S
<1>1. PICK S \in FirstLines(buf) :
        files' = WithLast(CutMember(OnDisk(handle.day) \cup S)) /\ buf' = buf \ S
  BY DEF Spill
<1>2. S \in SUBSET buf
  BY <1>1 DEF FirstLines
<1>3. CutMember(OnDisk(handle.day) \cup S) \in Member
  BY <1>2, DiskLines DEF Spill
<1>4. CutMember(OnDisk(handle.day) \cup S).lines = OnDisk(handle.day) \cup S
  BY DEF CutMember
<1>. QED BY <1>1, <1>2, <1>3, <1>4 DEF Spill

LEMMA ClosedType ==
  ASSUME ArchiveInv PROVE Closed \in [Days -> Seq(Member)]
<1>1. CASE handle.open
  BY <1>1, LastMember, ClosedIs
<1>2. CASE ~handle.open
  BY <1>2 DEF Closed, ArchiveInv
<1>. QED BY <1>1, <1>2

LEMMA ArchiveInit0 == Init => ArchiveInv
<1> SUFFICES ASSUME Init PROVE ArchiveInv
  OBVIOUS
<1>1. handle = NoHandle /\ buf = {} /\ files = [d \in Days |-> <<>>] /\ today = 1 /\ main = "serving"
  BY DEF Init, ArchiveInit
<1>2. files \in [Days -> Seq(Member)]
  BY <1>1
<1>3. handle \in Handles
  BY <1>1, BoundsType DEF NoHandle, Shut, Handles
<1>. QED BY <1>1, <1>2, <1>3 DEF ArchiveInv, FailedOpenHeals, NoHandle, Shut

LEMMA ArchiveStep == EventInv /\ ArchiveInv /\ [Next]_vars => ArchiveInv'
<1> SUFFICES ASSUME EventInv, ArchiveInv, [Next]_vars PROVE ArchiveInv'
  OBVIOUS
<1>0. /\ today' \in Nat /\ today \in Nat /\ today <= today' /\ MaxDay \in Nat
      /\ handle \in Handles /\ handle.day \in Nat /\ handle.day <= today
  BY TodaySteps, BoundsType DEF ArchiveInv, Handles
<1>h. ASSUME handle' = NoHandle, buf' = {}, files' \in [Days -> Seq(Member)]
      PROVE  ArchiveInv'
  <2>1. handle' \in Handles /\ ~handle'.open /\ ~handle'.begun /\ ~handle'.hurt /\ handle'.day = 0
    BY <1>h, <1>0 DEF NoHandle, Shut, Handles
  <2>. QED BY <1>h, <1>0, <2>1 DEF ArchiveInv, FailedOpenHeals
<1>2. CASE CloseArchive \/ Abandon
  BY <1>2, <1>h, ClosedType DEF CloseArchive, Abandon, ArchiveInv
<1>1. CASE UNCHANGED archive
  <2>1. CASE main' \in {"leaving", "down"} /\ main # main'
    BY <1>2, <2>1, TodaySteps
  <2>2. CASE ~(main' \in {"leaving", "down"} /\ main # main')
    <3>1. UNCHANGED <<handle, buf, files>>
      BY <1>1 DEF archive
    <3>2. handle'.hurt => handle'.day \in spoilt'
      <4>1. CASE main = "down"
        BY <3>1, <4>1 DEF ArchiveInv, NoHandle, Shut
      <4>2. CASE main # "down"
        BY <3>1, <4>2, TodaySteps DEF ArchiveInv
      <4>. QED BY <4>1, <4>2
    <3>. QED BY <1>0, <2>2, <3>1, <3>2 DEF ArchiveInv, FailedOpenHeals
  <2>. QED BY <2>1, <2>2
<1>3. CASE HandleEvent \/ ArchiveRaises
  <2>1. /\ today' = today /\ cur.day = today /\ main' = main /\ main \notin {"leaving", "down"}
        /\ cur.id \in Ids /\ today \in Days /\ spoilt \subseteq spoilt'
    BY <1>3, HandlingSteps DEF EventInv, Line, Alive
  <2>2. CASE Appends /\ handle.day = today
    <3>1. /\ handle' \in {handle, [handle EXCEPT !.hurt = TRUE]} /\ files' = files
          /\ buf' \subseteq buf \cup {cur.id} /\ (today \in spoilt' \/ handle' = handle)
      BY <2>1, <2>2 DEF Appends, HandleFor, Kept, Rolled
    <3>2. /\ handle' \in Handles /\ handle'.open = handle.open /\ handle'.begun = handle.begun
          /\ handle'.day = handle.day /\ (handle'.hurt => handle.hurt \/ today \in spoilt')
      BY <1>0, <3>1 DEF Handles
    <3>. QED BY <1>0, <2>1, <2>2, <3>1, <3>2 DEF ArchiveInv, FailedOpenHeals
  <2>3. CASE Appends /\ handle.day # today
    <3>1. /\ handle' \in {NewHandle(today), [NewHandle(today) EXCEPT !.hurt = TRUE]}
          /\ files' = Closed /\ buf' \subseteq {cur.id}
          /\ today \in spoilt' \/ handle' = NewHandle(today)
      BY <2>1, <2>3 DEF Appends, HandleFor, Kept, Rolled
    <3>2. /\ handle' \in Handles /\ handle'.open /\ ~handle'.begun /\ handle'.day = today
          /\ handle'.hurt => today \in spoilt'
      <4>1. NewHandle(today) \in Handles
        BY <1>0, <2>1 DEF NewHandle, Days, Handles
      <4>2. CASE handle' = NewHandle(today)
        BY <4>1, <4>2 DEF NewHandle
      <4>3. CASE handle' = [NewHandle(today) EXCEPT !.hurt = TRUE] /\ today \in spoilt'
        BY <4>1, <4>3 DEF NewHandle, Handles
      <4>. QED BY <3>1, <4>2, <4>3
    <3>. QED BY <1>0, <2>1, <3>1, <3>2, ClosedType DEF ArchiveInv, FailedOpenHeals
  <2>4. CASE OpenFails(cur.day) \/ CloseFails(cur.day)
    <3>1. /\ handle.day # today /\ handle' = Shut(handle.day) /\ buf' = {}
          /\ files' \in [Days -> Seq(Member)]
      BY <2>1, <2>4, ClosedType DEF OpenFails, CloseFails, ArchiveInv
    <3>2. handle' \in Handles /\ ~handle'.open /\ ~handle'.begun /\ ~handle'.hurt
          /\ handle'.day = handle.day
      BY <1>0, <3>1 DEF Shut, Handles
    <3>. QED BY <1>0, <2>1, <3>1, <3>2 DEF ArchiveInv, FailedOpenHeals
  <2>. QED BY <1>3, <2>2, <2>3, <2>4, HandlingSteps
<1>5. CASE SpillArchive
  <2>0. today' = today /\ main' = main /\ spoilt' = spoilt /\ Spill
    BY <1>5 DEF SpillArchive, history
  <2>1. PICK S \in SUBSET buf, m \in Member :
           /\ handle.open /\ handle' = [handle EXCEPT !.begun = TRUE]
           /\ files' = WithLast(m) /\ m.lines = OnDisk(handle.day) \cup S /\ buf' = buf \ S
    BY <2>0, SpillIs
  <2>2. handle' \in Handles /\ handle'.open /\ handle'.day = handle.day /\ handle'.hurt = handle.hurt
    BY <1>0, <2>1 DEF Handles
  <2>3. files' \in [Days -> Seq(Member)] /\ Len(files'[handle.day]) > 0 /\ handle.day \in Days
    BY <2>1, LastMember
  <2>4. files'[handle.day] # <<>>
    BY <2>3
  <2>5. main \notin {"leaving", "down"}
    BY <2>1 DEF ArchiveInv, NoHandle, Shut
  <2>. QED BY <1>0, <2>0, <2>1, <2>2, <2>3, <2>4, <2>5 DEF ArchiveInv, FailedOpenHeals
<1>. QED BY <1>1, <1>2, <1>3, <1>5, ArchiveSteps

LEMMA AlwaysArchiveInv == Spec => []ArchiveInv
BY ArchiveInit0, ArchiveStep, AlwaysEventInv, PTL DEF Spec

(* Every append() finds a file it can write to or opens one: a rollover that *)
(* failed is repeated by the next event, for any order of days and failures. *)
THEOREM FailedOpenHealsCorrect == Spec => []FailedOpenHeals
<1>1. ArchiveInv => FailedOpenHeals
  BY DEF ArchiveInv
<1>. QED BY <1>1, AlwaysArchiveInv, PTL

-----------------------------------------------------------------------------
(* What a reader gets from a file, member by member. *)
Reads(f) ==
  UNION {f[i].lines : i \in {j \in 1..Len(f) : \A k \in 1..(j - 1) : f[k].whole}}

LEMMA ReadsMeans ==
  ASSUME NEW f, NEW l
  PROVE  l \in Reads(f) <=> \E i \in 1..Len(f) : /\ l \in f[i].lines
                                                 /\ \A k \in 1..(i - 1) : f[k].whole
BY DEF Reads

(* A file whose last member was replaced by a larger one, or that got one    *)
(* more member, can be read at least as far as before.                       *)
LEMMA ReadsGrow ==
  ASSUME NEW f \in Seq(Member), NEW g \in Seq(Member), NEW n \in Nat, n > 0,
         Len(g) = n, Len(f) = n \/ Len(f) = n - 1,
         \A i \in 1..(n - 1) : g[i] = f[i],
         Len(f) = n => f[n].lines \subseteq g[n].lines
  PROVE  /\ Reads(f) \subseteq Reads(g)
         /\ (\A i \in 1..(n - 1) : f[i].whole) => g[n].lines \subseteq Reads(g)
<1>1. ASSUME NEW l \in Reads(f) PROVE l \in Reads(g)
  <2>1. PICK i \in 1..Len(f) : l \in f[i].lines /\ \A k \in 1..(i - 1) : f[k].whole
    BY <1>1, ReadsMeans
  <2>2. i \in 1..n /\ \A k \in 1..(i - 1) : k \in 1..(n - 1)
    BY <2>1
  <2>3. l \in g[i].lines
    <3>1. CASE i = n
      BY <2>1, <3>1
    <3>2. CASE i # n
      BY <2>1, <2>2, <3>2
    <3>. QED BY <3>1, <3>2
  <2>4. \A k \in 1..(i - 1) : g[k].whole
    BY <2>1, <2>2
  <2>. QED BY <2>2, <2>3, <2>4, ReadsMeans
<1>2. ASSUME \A i \in 1..(n - 1) : f[i].whole, NEW l \in g[n].lines PROVE l \in Reads(g)
  <2>1. n \in 1..Len(g) /\ \A k \in 1..(n - 1) : g[k].whole
    BY <1>2
  <2>. QED BY <2>1, <1>2, ReadsMeans
<1>. QED BY <1>1, <1>2

(* Writing to the file of the open handle keeps what could be read from      *)
(* every file; a file whole so far can then be read to its end.              *)
LEMMA WriteReads ==
  ASSUME ArchiveInv, handle.open, NEW m \in Member, OnDisk(handle.day) \subseteq m.lines
  PROVE  /\ \A d \in Days : Readable(d) \subseteq Reads(WithLast(m)[d])
         /\ (\A i \in 1..(Len(WithLast(m)[handle.day]) - 1) : files[handle.day][i].whole)
              => m.lines \subseteq Reads(WithLast(m)[handle.day])
<1> DEFINE F == WithLast(m)  h == handle.day  n == Len(F[h])
<1>1. /\ h \in Days /\ F \in [Days -> Seq(Member)] /\ n \in Nat /\ n > 0 /\ F[h][n] = m
      /\ \A x \in Days \ {h} : F[x] = files[x]
      /\ Len(files[h]) = IF handle.begun THEN n ELSE n - 1
      /\ \A i \in 1..(n - 1) : F[h][i] = files[h][i]
  BY LastMember
<1>2. Len(files[h]) = n => files[h][n].lines \subseteq m.lines
  BY <1>1 DEF OnDisk
<1>3. \A d \in Days : Readable(d) = Reads(files[d]) /\ files[d] \in Seq(Member)
  BY DEF Readable, Reads, ArchiveInv
<1> HIDE DEF F, h, n
<1>4. /\ Reads(files[h]) \subseteq Reads(F[h])
      /\ (\A i \in 1..(n - 1) : files[h][i].whole) => m.lines \subseteq Reads(F[h])
  <2>1. F[h] \in Seq(Member) /\ files[h] \in Seq(Member) /\ Len(F[h]) = n
    BY <1>1, <1>3 DEF n
  <2>2. Len(files[h]) = n \/ Len(files[h]) = n - 1
    BY <1>1
  <2>3. Len(files[h]) = n => files[h][n].lines \subseteq F[h][n].lines
    BY <1>1, <1>2
  <2>. QED BY <1>1, <2>1, <2>2, <2>3, ReadsGrow
<1>5. \A d \in Days : Readable(d) \subseteq Reads(F[d])
  BY <1>1, <1>3, <1>4
<1>. QED BY <1>4, <1>5 DEF F, h, n

LEMMA CloseReads ==
  ASSUME ArchiveInv PROVE \A d \in Days : Readable(d) \subseteq Reads(Closed[d])
<1>1. CASE handle.open
  <2>1. PICK m \in Member : Closed = WithLast(m) /\ m.lines = OnDisk(handle.day) \cup buf
    BY <1>1, ClosedIs
  <2>. QED BY <1>1, <2>1, WriteReads
<1>2. CASE ~handle.open
  BY <1>2 DEF Closed, Readable, Reads
<1>. QED BY <1>1, <1>2

LEMMA SpillReads ==
  ASSUME ArchiveInv, Spill PROVE \A d \in Days : Readable(d) \subseteq Reads(files'[d])
<1>1. PICK S \in SUBSET buf, m \in Member :
        handle.open /\ files' = WithLast(m) /\ m.lines = OnDisk(handle.day) \cup S
  BY SpillIs
<1>. QED BY <1>1, WriteReads

LEMMA ReadableStep ==
  EventInv /\ ArchiveInv /\ [Next]_vars => \A d \in Days : Readable(d) \subseteq Reads(files'[d])
<1> SUFFICES ASSUME EventInv, ArchiveInv, [Next]_vars
             PROVE  \A d \in Days : Readable(d) \subseteq Reads(files'[d])
  OBVIOUS
<1>1. CASE files' = files
  BY <1>1 DEF Readable, Reads
<1>2. CASE files' = Closed
  BY <1>2, CloseReads
<1>3. CASE SpillArchive
  BY <1>3, SpillReads DEF SpillArchive
<1>4. CASE HandleEvent \/ ArchiveRaises
  <2>1. files' = files \/ files' = Closed
    BY <1>4, HandlingSteps DEF Appends, Rolled, CloseFails, OpenFails
  <2>. QED BY <1>1, <1>2, <2>1
<1>5. files' = files \/ files' = Closed \/ SpillArchive \/ HandleEvent \/ ArchiveRaises
  BY ArchiveSteps DEF archive, CloseArchive, Abandon
<1>. QED BY <1>1, <1>2, <1>3, <1>4, <1>5

(* No step of the process, no kill and no restart takes from the archive a   *)
(* line a reader could get (JsonlWriter opens its files to append).          *)
THEOREM ReadableStaysCorrect == Spec => ReadableStays
<1>1. EventInv /\ ArchiveInv /\ [Next]_vars =>
        [\A d \in Days : Readable(d) \subseteq Readable(d)']_vars
  <2> SUFFICES ASSUME EventInv, ArchiveInv, [Next]_vars
               PROVE  \A d \in Days : Readable(d) \subseteq Readable(d)'
    OBVIOUS
  <2>1. \A d \in Days : Readable(d)' = Reads(files'[d])
    BY DEF Readable, Reads
  <2>. QED BY <2>1, ReadableStep
<1>. QED BY <1>1, AlwaysEventInv, AlwaysArchiveInv, PTL DEF Spec, ReadableStays

-----------------------------------------------------------------------------
(* close() leaves whole every file that is not spoilt, with every line that  *)
(* was appended to it.                                                       *)
LEMMA CloseWhole ==
  ASSUME ArchiveInv, WholeFiles, NEW d \in Days \ spoilt, NEW i \in 1..Len(Closed[d])
  PROVE  Closed[d][i].whole
<1>1. CASE handle.open /\ d = handle.day
  <2>1. PICK m \in Member : Closed = WithLast(m) /\ m.whole = ~handle.hurt
    BY <1>1, ClosedIs
  <2>0. m.whole
    BY <1>1, <2>1 DEF ArchiveInv
  <2> DEFINE F == WithLast(m)  n == Len(F[d])
  <2>2. /\ n \in Nat /\ n > 0 /\ F[d][n] = m
        /\ Len(files[d]) = IF handle.begun THEN n ELSE n - 1
        /\ \A j \in 1..(n - 1) : F[d][j] = files[d][j]
    BY <1>1, LastMember
  <2>3. i \in 1..n /\ Closed = F
    BY <2>1
  <2> HIDE DEF F, n
  <2>4. CASE i = n
    BY <2>0, <2>2, <2>3, <2>4
  <2>5. CASE i # n
    <3>1. i \in 1..(n - 1) /\ i \in 1..Len(files[d]) /\ ~(handle.begun /\ i = Len(files[d]))
      BY <2>2, <2>3, <2>5
    <3>2. files[d][i].whole
      BY <3>1 DEF WholeFiles
    <3>. QED BY <2>2, <2>3, <3>1, <3>2
  <2>. QED BY <2>4, <2>5
<1>2. CASE ~handle.open \/ d # handle.day
  <2>1. Closed[d] = files[d]
    <3>1. CASE handle.open
      <4>1. PICK m \in Member : Closed = WithLast(m)
        BY <3>1, ClosedIs
      <4>. QED BY <1>2, <3>1, <4>1, LastMember
    <3>. QED BY <3>1 DEF Closed
  <2>2. ~(handle.begun /\ handle.day = d)
    BY <1>2 DEF ArchiveInv
  <2>. QED BY <2>1, <2>2 DEF WholeFiles
<1>. QED BY <1>1, <1>2

(* The members before the one being written are whole. *)
LEMMA WholeBefore ==
  ASSUME ArchiveInv, WholeFiles, handle.open, handle.day \notin spoilt, NEW m \in Member
  PROVE  \A i \in 1..(Len(WithLast(m)[handle.day]) - 1) : files[handle.day][i].whole
<1> DEFINE h == handle.day  n == Len(WithLast(m)[h])
<1>1. h \in Days /\ n \in Nat /\ Len(files[h]) = IF handle.begun THEN n ELSE n - 1
  BY LastMember
<1> HIDE DEF n
<1>2. ASSUME NEW i \in 1..(n - 1) PROVE files[h][i].whole
  <2>1. i \in 1..Len(files[h]) /\ ~(handle.begun /\ i = Len(files[h]))
    BY <1>1
  <2>. QED BY <1>1, <2>1 DEF WholeFiles
<1>. QED BY <1>2 DEF n

LEMMA CloseSafe ==
  ASSUME ArchiveInv, WholeFiles, LinesSafe, taken \subseteq Line, NEW x \in taken
  PROVE  x.day \in spoilt \/ x.id \in raised \/ InHand(x) \/ x.id \in Reads(Closed[x.day])
<1>0. x.day \in Days
  BY DEF Line
<1>1. CASE x.id \in Readable(x.day)
  BY <1>0, <1>1, CloseReads
<1>2. CASE handle.open /\ handle.day = x.day /\ x.id \in buf /\ x.day \notin spoilt
  <2>1. PICK m \in Member : Closed = WithLast(m) /\ m.lines = OnDisk(handle.day) \cup buf
    BY <1>2, ClosedIs
  <2>. QED BY <1>2, <2>1, WriteReads, WholeBefore
<1>. QED BY <1>1, <1>2 DEF LinesSafe

LEMMA SpillWhole ==
  ASSUME ArchiveInv, WholeFiles, Spill, spoilt' = spoilt
  PROVE  WholeFiles'
<1>1. PICK S \in SUBSET buf, m \in Member :
        /\ handle.open /\ files' = WithLast(m) /\ handle' = [handle EXCEPT !.begun = TRUE]
  BY SpillIs
<1> DEFINE F == WithLast(m)  h == handle.day  n == Len(F[h])
<1>2. /\ h \in Days /\ n \in Nat /\ n > 0 /\ Len(files[h]) = IF handle.begun THEN n ELSE n - 1
      /\ \A x \in Days \ {h} : F[x] = files[x]
      /\ \A j \in 1..(n - 1) : F[h][j] = files[h][j]
  BY <1>1, LastMember
<1>3. handle'.begun /\ handle'.day = h
  BY <1>1 DEF ArchiveInv, Handles
<1>f. files' = F
  BY <1>1
<1> HIDE DEF F, n
<1>4. ASSUME NEW d \in Days \ spoilt, NEW i \in 1..Len(F[d])
      PROVE  F[d][i].whole \/ (d = h /\ i = Len(F[d]))
  <2>1. CASE d # h
    BY <1>2, <2>1 DEF WholeFiles
  <2>2. CASE d = h /\ i # n
    <3>1. i \in 1..(n - 1) /\ i \in 1..Len(files[h]) /\ ~(handle.begun /\ i = Len(files[h]))
      BY <1>2, <2>2 DEF n
    <3>. QED BY <1>2, <2>2, <3>1 DEF WholeFiles
  <2>. QED BY <2>1, <2>2 DEF n
<1>. QED BY <1>f, <1>3, <1>4 DEF WholeFiles

LEMMA SpillSafe ==
  ASSUME ArchiveInv, WholeFiles, LinesSafe, taken \subseteq Line, Spill, NEW x \in taken
  PROVE  \/ x.day \in spoilt \/ x.id \in raised \/ InHand(x)
         \/ x.id \in Reads(files'[x.day])
         \/ handle'.open /\ handle'.day = x.day /\ x.id \in buf'
<1>0. x.day \in Days
  BY DEF Line
<1>1. CASE x.id \in Readable(x.day)
  BY <1>0, <1>1, SpillReads
<1>2. CASE handle.open /\ handle.day = x.day /\ x.id \in buf /\ x.day \notin spoilt
  <2>1. PICK S \in SUBSET buf, m \in Member :
          /\ files' = WithLast(m) /\ m.lines = OnDisk(handle.day) \cup S /\ buf' = buf \ S
          /\ handle' = [handle EXCEPT !.begun = TRUE]
    BY SpillIs
  <2>2. CASE x.id \in S
    BY <1>2, <2>1, <2>2, WriteReads, WholeBefore
  <2>3. CASE x.id \notin S
    BY <1>2, <2>1, <2>3 DEF ArchiveInv, Handles
  <2>. QED BY <2>2, <2>3
<1>. QED BY <1>1, <1>2 DEF LinesSafe

-----------------------------------------------------------------------------
(* What a step that is not a restart does to the history of the process:     *)
(* only Receive takes an event, and it is then in hand; an event leaves the  *)
(* hand when its handling returns or raises.                                 *)
LEMMA HistorySteps ==
  ASSUME EventInv, [Next]_vars, ~Restart
  PROVE  /\ spoilt \subseteq spoilt' /\ raised \subseteq raised' /\ stored \subseteq stored'
         /\ taken' = taken \/ (Receive /\ cur' \in Line /\ taken' = taken \cup {cur'})
         /\ \/ spoilt' = spoilt \/ ArchiveRaises
<1> USE DEF history, log
<1>1. CASE HandleEvent \/ ArchiveRaises
  <2>1. stored \subseteq stored'
    BY <1>1 DEF HandleEvent, ArchiveRaises, SubmitReturns, Log!Commit
  <2>2. HandleEvent => spoilt' = spoilt
    BY DEF HandleEvent
  <2>. QED BY <1>1, <2>1, <2>2, HandlingSteps
<1>2. CASE StopReturns \/ CloseRaises \/ Leave \/ StopRaises \/ GatherEnds \/ Kill
  BY <1>2 DEF StopReturns, CloseRaises, StopDrains, Leave, StopRaises, GatherEnds, Kill, Exit,
     Log!ProcessEnds, Log!Commit
<1>3. CASE Receive
  <2>1. cur' \in Line
    <3>1. PICK d \in today..MaxDay, h \in BOOLEAN :
            cur' = [id |-> received + 1, day |-> d, hide |-> h]
      BY <1>3 DEF Receive
    <3>2. d \in Days /\ received + 1 \in Ids
      BY <1>3, <3>1, BoundsType DEF Receive, EventInv, Days, Ids
    <3>. QED BY <3>1, <3>2 DEF Line
  <2>. QED BY <1>3, <2>1 DEF Receive
<1>4. CASE BatchFull \/ SubmitRaises \/ SeeStop \/ FlushRaises \/ Flush
  BY <1>4 DEF BatchFull, SubmitRaises, SeeStop, FlushRaises, Flush, Log!Commit
<1>5. CASE Sigterm \/ ServeReturns \/ Down \/ SpillArchive \/ UNCHANGED vars
  BY <1>5 DEF Sigterm, ServeReturns, Down, SpillArchive, vars
<1>7. CASE \E c \in Clients : Handler(c) \/ Browser(c)
  BY <1>7 DEF Handler, Browser, others
<1>. QED BY <1>1, <1>2, <1>3, <1>4, <1>5, <1>7 DEF Next, WsTask, Main

(* How the event in hand moves while the process is up. *)
LEMMA HandSteps ==
  ASSUME EventInv, [Next]_vars, main \in Alive, main' \in Alive
  PROVE  \/ Receive
         \/ ws \in {"submit", "commit"} /\ (HandleEvent \/ ArchiveRaises \/ SubmitRaises)
         \/ BatchFull
         \/ SeeStop
         \/ UNCHANGED <<ws, cur>>
<1> USE DEF Alive
<1>1. CASE HandleEvent \/ ArchiveRaises \/ SubmitRaises
  BY <1>1, HandlingSteps DEF SubmitRaises
<1>2. CASE Flush \/ FlushRaises \/ Sigterm \/ ServeReturns \/ StopReturns
  BY <1>2 DEF Flush, FlushRaises, Sigterm, ServeReturns, StopReturns
<1>3. ~(CloseRaises \/ Leave \/ StopRaises \/ GatherEnds \/ Kill \/ Restart \/ Down)
  BY DEF CloseRaises, Leave, StopRaises, GatherEnds, Kill, Exit, Restart, Down, vars
<1>4. CASE SpillArchive \/ (\E c \in Clients : Handler(c) \/ Browser(c)) \/ UNCHANGED vars
  BY <1>4 DEF SpillArchive, Handler, Browser, others, vars
<1>. QED BY <1>1, <1>2, <1>3, <1>4 DEF Next, WsTask, Main

(* A visible event is pending or stored when submit() is done with it. *)
LEMMA AcceptedStep ==
  ASSUME EventInv, [Next]_vars, main \in Alive, main' \in Alive, AcceptedSafe
  PROVE  AcceptedSafe'
<1>0. ~Restart
  BY DEF Restart, Alive
<1>1. stored \cup pending \subseteq stored' \cup pending'
  <2>1. CASE HandleEvent \/ ArchiveRaises
    BY <2>1 DEF HandleEvent, ArchiveRaises, SubmitReturns, Log!Commit, log
  <2>2. CASE Receive \/ BatchFull \/ SubmitRaises \/ SeeStop \/ FlushRaises \/ Flush
    BY <2>2 DEF Receive, BatchFull, SubmitRaises, SeeStop, FlushRaises, Flush, Log!Commit, log
  <2>3. CASE Sigterm \/ ServeReturns \/ StopReturns \/ SpillArchive \/ UNCHANGED vars
    BY <2>3 DEF Sigterm, ServeReturns, StopReturns, StopDrains, SpillArchive, vars, Log!Commit, log
  <2>4. CASE \E c \in Clients : Handler(c) \/ Browser(c)
    BY <2>4 DEF Handler, Browser, others, log
  <2>5. ~(CloseRaises \/ Leave \/ StopRaises \/ GatherEnds \/ Kill \/ Restart \/ Down)
    BY DEF CloseRaises, Leave, StopRaises, GatherEnds, Kill, Exit, Restart, Down, vars, Alive
  <2>. QED BY <2>1, <2>2, <2>3, <2>4, <2>5 DEF Next, WsTask, Main
<1>2. ASSUME NEW t \in taken'
      PROVE  t.hide \/ t.id \in stored' \cup pending' \/ (ws' = "submit" /\ t = cur')
  <2>1. CASE t \notin taken
    <3>1. Receive /\ t = cur'
      BY <1>0, <1>2, <2>1, HistorySteps
    <3>. QED BY <3>1 DEF Receive
  <2>2. CASE t \in taken /\ (t.hide \/ t.id \in stored \cup pending)
    BY <1>1, <2>2
  <2>3. CASE t \in taken /\ ~t.hide /\ ws = "submit" /\ t = cur
    <3>1. CASE HandleEvent \/ ArchiveRaises
      BY <2>3, <3>1 DEF HandleEvent, ArchiveRaises, SubmitReturns
    <3>2. CASE BatchFull
      BY <2>3, <3>2 DEF BatchFull
    <3>3. CASE UNCHANGED <<ws, cur>>
      BY <2>3, <3>3
    <3>4. ~(Receive \/ SubmitRaises \/ SeeStop)
      BY <2>3 DEF Receive, SubmitRaises, SeeStop
    <3>. QED BY <3>1, <3>2, <3>3, <3>4, HandSteps
  <2>. QED BY <2>1, <2>2, <2>3 DEF AcceptedSafe
<1>. QED BY <1>2 DEF AcceptedSafe

(* Only a restart brings a process up. *)
LEMMA OnlyRestart ==
  ASSUME EventInv, [Next]_vars, main \notin Alive, main' \in Alive PROVE Restart
<1> USE DEF Alive, EventInv
<1>1. ~(Receive \/ BatchFull \/ SubmitRaises \/ SeeStop \/ Flush \/ FlushRaises \/ Sigterm)
  BY DEF Receive, BatchFull, SubmitRaises, SeeStop, Flush, FlushRaises, Sigterm, Stopped
<1>2. ~(HandleEvent \/ ArchiveRaises)
  BY HandlingSteps
<1>3. ~(Main \/ Kill \/ Down \/ SpillArchive)
  BY DEF Main, ServeReturns, StopReturns, CloseRaises, StopDrains, Leave, StopRaises, GatherEnds,
     Kill, Exit, Down, vars, SpillArchive
<1>4. ~(\E c \in Clients : Handler(c) \/ Browser(c)) /\ ~UNCHANGED vars
  BY DEF Handler, Browser, others, vars
<1>. QED BY <1>1, <1>2, <1>3, <1>4 DEF Next, WsTask

(* Lines stay safe: in the buffers of the handle until they are on disk. *)
LEMMA LinesStep ==
  ASSUME EventInv, ArchiveInv, [Next]_vars, main \in Alive, main' \in Alive,
         taken \subseteq Line, WholeFiles, LinesSafe
  PROVE  WholeFiles' /\ LinesSafe'
<1>n. ~Restart
  BY DEF Restart, Alive
<1>0. /\ spoilt \subseteq spoilt' /\ raised \subseteq raised'
      /\ spoilt' = spoilt \/ ArchiveRaises
      /\ taken' = taken \/ (Receive /\ taken' = taken \cup {cur'})
  BY <1>n, HistorySteps
<1>r. \A d : Readable(d)' = Reads(files'[d]) /\ Readable(d) = Reads(files[d])
  BY DEF Readable, Reads
<1>w. ASSUME files' = Closed, ~handle'.begun PROVE WholeFiles'
  BY <1>0, <1>w, CloseWhole DEF WholeFiles
<1>1. CASE HandleEvent \/ ArchiveRaises
  <2>1. /\ ws \in {"submit", "commit"} /\ cur \in Line /\ cur.day = today /\ today \in Days
        /\ taken' = taken
    BY <1>1, HandlingSteps DEF EventInv
  <2>2. CASE Appends /\ handle.day = cur.day
    <3>1. /\ handle' \in {handle, [handle EXCEPT !.hurt = TRUE]} /\ files' = files
          /\ cur.day \in spoilt' \/ buf \subseteq buf'
      BY <2>2 DEF Appends, HandleFor, Kept, Rolled
    <3>2. handle.open /\ handle'.open /\ handle'.begun = handle.begun /\ handle'.day = handle.day
      BY <2>1, <2>2, <3>1, BoundsType DEF ArchiveInv, Handles, FailedOpenHeals, Days
    <3>3. WholeFiles'
      BY <1>0, <3>1, <3>2 DEF WholeFiles
    <3>4. ASSUME NEW x \in taken, InHand(x)
          PROVE  x.day \in spoilt' \/ x.id \in raised' \/ x.id \in buf'
      <4>1. x = cur
        BY <3>4 DEF InHand
      <4>2. CASE HandleEvent
        <5>1. handle.hurt => cur.day \in spoilt'
          BY <1>0, <2>2 DEF ArchiveInv
        <5>. QED BY <2>2, <4>1, <4>2, <5>1 DEF HandleEvent, AppendLine, HandleFor, Kept
      <4>. QED BY <1>1, <4>1, <4>2, HandlingSteps
    <3>5. ASSUME NEW x \in taken
          PROVE  \/ x.day \in spoilt' \/ x.id \in raised' \/ x.id \in Reads(files'[x.day])
                 \/ handle'.open /\ handle'.day = x.day /\ x.id \in buf'
      <4>1. CASE InHand(x)
        <5>1. x.day = handle.day
          BY <2>2, <4>1 DEF InHand
        <5>. QED BY <3>2, <3>4, <4>1, <5>1
      <4>2. CASE ~InHand(x)
        BY <1>0, <1>r, <2>2, <3>1, <3>2, <4>2 DEF LinesSafe
      <4>. QED BY <4>1, <4>2
    <3>. QED BY <1>r, <2>1, <3>3, <3>5 DEF LinesSafe
  <2>3. CASE Appends /\ handle.day # cur.day
    <3>1. /\ handle' \in {NewHandle(cur.day), [NewHandle(cur.day) EXCEPT !.hurt = TRUE]}
          /\ files' = Closed
      BY <2>3 DEF Appends, HandleFor, Rolled
    <3>2. handle'.open /\ ~handle'.begun /\ handle'.day = cur.day
      BY <3>1 DEF NewHandle
    <3>3. ASSUME NEW x \in taken
          PROVE  \/ x.day \in spoilt' \/ x.id \in raised' \/ x.id \in Reads(files'[x.day])
                 \/ handle'.open /\ handle'.day = x.day /\ x.id \in buf'
      <4>1. CASE InHand(x)
        <5>1. x = cur
          BY <4>1 DEF InHand
        <5>2. HandleEvent => x.id \in buf'
          BY <2>3, <5>1 DEF HandleEvent, AppendLine, HandleFor, NewHandle
        <5>. QED BY <1>1, <3>2, <5>1, <5>2, HandlingSteps
      <4>2. CASE ~InHand(x)
        BY <1>0, <3>1, <4>2, CloseSafe
      <4>. QED BY <4>1, <4>2
    <3>. QED BY <1>r, <1>w, <2>1, <3>1, <3>2, <3>3 DEF LinesSafe
  <2>4. CASE OpenFails(cur.day)
    <3>1. files' = Closed /\ ~handle'.begun
      BY <2>4 DEF OpenFails, Shut
    <3>2. ArchiveRaises
      BY <1>1, <2>4 DEF HandleEvent, AppendLine, HandleFor, NewHandle, OpenFails, Shut
    <3>3. ASSUME NEW x \in taken
          PROVE  x.day \in spoilt' \/ x.id \in raised' \/ x.id \in Reads(files'[x.day])
      BY <1>0, <3>1, <3>2, CloseSafe, HandlingSteps DEF InHand
    <3>. QED BY <1>r, <1>w, <2>1, <3>1, <3>3 DEF LinesSafe
  <2>5. CASE CloseFails(cur.day) /\ spoilt' = spoilt \cup {handle.day}
    <3>1. files' = files /\ ~handle'.begun
      BY <2>5 DEF CloseFails, Shut
    <3>2. ArchiveRaises
      BY <1>1, <2>5 DEF HandleEvent, AppendLine, HandleFor, NewHandle, CloseFails, Shut
    <3>3. WholeFiles'
      BY <2>5, <3>1 DEF WholeFiles
    <3>4. ASSUME NEW x \in taken
          PROVE  x.day \in spoilt' \/ x.id \in raised' \/ x.id \in Reads(files'[x.day])
      BY <1>0, <1>r, <2>5, <3>1, <3>2, HandlingSteps DEF InHand, LinesSafe
    <3>. QED BY <1>r, <2>1, <3>3, <3>4 DEF LinesSafe
  <2>. QED BY <1>1, <2>2, <2>3, <2>4, <2>5, HandlingSteps
<1>2. CASE ~HandleEvent /\ ~ArchiveRaises
  <2>0. spoilt' = spoilt
    BY <1>0, <1>2
  <2>h. ASSUME NEW x \in taken', x \notin taken \/ InHand(x)
        PROVE  x.id \in raised' \/ InHand(x)'
    <3>1. CASE x \notin taken
      BY <1>0, <2>h, <3>1 DEF InHand, Receive
    <3>2. CASE x \in taken /\ InHand(x)
      <4>1. ws \in {"submit", "commit"} /\ x = cur
        BY <3>2 DEF InHand
      <4>2. ~Receive /\ ~SeeStop
        BY <4>1 DEF Receive, SeeStop
      <4>3. SubmitRaises => x.id \in raised'
        BY <4>1 DEF SubmitRaises
      <4>4. BatchFull \/ UNCHANGED <<ws, cur>> => InHand(x)'
        BY <4>1 DEF BatchFull, InHand
      <4>. QED BY <1>2, <4>2, <4>3, <4>4, HandSteps
    <3>. QED BY <2>h, <3>1, <3>2
  <2>1. CASE UNCHANGED archive
    <3>1. UNCHANGED <<handle, buf, files>>
      BY <2>1 DEF archive
    <3>2. WholeFiles'
      BY <2>0, <3>1 DEF WholeFiles
    <3>. QED BY <1>0, <1>r, <2>0, <2>h, <3>1, <3>2 DEF LinesSafe
  <2>3. CASE CloseArchive
    <3>1. files' = Closed /\ ~handle'.begun
      BY <2>3 DEF CloseArchive, NoHandle, Shut
    <3>2. ASSUME NEW x \in taken, ~InHand(x)
          PROVE  x.day \in spoilt' \/ x.id \in raised' \/ x.id \in Readable(x.day)'
      BY <1>0, <1>r, <3>1, <3>2, CloseSafe
    <3>. QED BY <1>w, <2>h, <3>1, <3>2 DEF LinesSafe
  <2>4. CASE SpillArchive
    <3>1. Spill
      BY <2>4 DEF SpillArchive
    <3>2. WholeFiles'
      BY <2>0, <3>1, SpillWhole
    <3>3. ASSUME NEW x \in taken, ~InHand(x)
          PROVE  \/ x.day \in spoilt' \/ x.id \in raised' \/ x.id \in Readable(x.day)'
                 \/ handle'.open /\ handle'.day = x.day /\ x.id \in buf'
      BY <1>0, <1>r, <3>1, <3>3, SpillSafe
    <3>. QED BY <2>h, <3>2, <3>3 DEF LinesSafe
  <2>5. ~(Abandon /\ main' \in {"leaving", "down"})
    BY DEF Alive
  <2>. QED BY <1>2, <2>1, <2>3, <2>4, <2>5, ArchiveSteps
<1>. QED BY <1>1, <1>2

(* A restarted process answers for the files it found whole. *)
LEMMA RestartSafe ==
  ASSUME Restart, ArchiveInv PROVE WholeFiles' /\ LinesSafe' /\ AcceptedSafe'
<1>1. taken' = {} /\ spoilt' = {d \in Days : CutOff(d)} /\ files' = files
  BY DEF Restart, archive
<1>. QED BY <1>1 DEF CutOff, WholeFiles, LinesSafe, AcceptedSafe

-----------------------------------------------------------------------------
(* Nothing that is safe is lost later; what a step adds is the event it      *)
(* receives.                                                                 *)
LEMMA LostStep ==
  ASSUME EventInv, ArchiveInv, [Next]_vars, ~Restart, taken \subseteq Line
  PROVE  /\ ~Receive => Lost' \subseteq Lost
         /\ Receive => Lost' \subseteq Lost \cup {cur'.id}
<1>1. /\ spoilt \subseteq spoilt' /\ raised \subseteq raised' /\ stored \subseteq stored'
      /\ taken' = taken \/ (Receive /\ taken' = taken \cup {cur'})
  BY HistorySteps
<1>2. \A x \in taken : x.id \in Readable(x.day) => x.id \in Readable(x.day)'
  <2>1. \A d : Readable(d)' = Reads(files'[d])
    BY DEF Readable, Reads
  <2>2. \A x \in taken : x.day \in Days
    BY DEF Line
  <2>. QED BY <2>1, <2>2, ReadableStep
<1>3. ASSUME NEW id \in Unstored' PROVE id \in Unstored \/ (Receive /\ id = cur'.id)
  <2>1. PICK x \in taken' : x.id = id /\ ~x.hide /\ x.id \notin stored'
    BY <1>3 DEF Unstored
  <2>. QED BY <1>1, <2>1 DEF Unstored
<1>4. ASSUME NEW id \in Unarchived' PROVE id \in Unarchived \/ (Receive /\ id = cur'.id)
  <2>1. PICK x \in taken' : /\ x.id = id /\ x.day \notin spoilt' /\ x.id \notin raised'
                            /\ x.id \notin Readable(x.day)'
    BY <1>4 DEF Unarchived
  <2>2. CASE x \in taken
    BY <1>1, <1>2, <2>1, <2>2 DEF Unarchived
  <2>3. CASE x \notin taken
    BY <1>1, <2>1, <2>3
  <2>. QED BY <2>2, <2>3
<1>. QED BY <1>3, <1>4 DEF Lost

(* pipeline.stop() and the close() that follows it leave nothing behind but  *)
(* the event in hand.                                                        *)
LEMMA StopLosesNothing ==
  ASSUME EventInv, ArchiveInv, StopReturns, taken \subseteq Line,
         WholeFiles, LinesSafe, AcceptedSafe, NEW id \in Lost'
  PROVE  ws \in {"submit", "commit"} /\ id = cur.id
<1>1. files' = Closed /\ UNCHANGED <<taken, raised, spoilt>> /\ stored' = stored \cup pending
  BY DEF StopReturns, StopDrains, CloseArchive, history, log, Log!Commit
<1>2. CASE id \in Unstored'
  <2>1. PICK x \in taken : x.id = id /\ ~x.hide /\ x.id \notin stored \cup pending
    BY <1>1, <1>2 DEF Unstored
  <2>. QED BY <2>1 DEF AcceptedSafe
<1>3. CASE id \in Unarchived'
  <2>1. PICK x \in taken : /\ x.id = id /\ x.day \notin spoilt /\ x.id \notin raised
                           /\ x.id \notin Readable(x.day)'
    BY <1>1, <1>3 DEF Unarchived
  <2>2. Readable(x.day)' = Reads(files'[x.day])
    BY DEF Readable, Reads
  <2>3. InHand(x)
    BY <1>1, <2>1, <2>2, CloseSafe
  <2>. QED BY <2>1, <2>3 DEF InHand
<1>. QED BY <1>2, <1>3 DEF Lost

(* After that the ws task handles one event at most: then it sees the stop. *)
LEMMA LateLossStep ==
  ASSUME EventInv, ArchiveInv, SafeInv, [Next]_vars, main' = "waiting"
  PROVE  LateLoss'
<1>0. taken \subseteq Line /\ MaxEvents \in Nat /\ 0 \in Nat
  BY BoundsType DEF SafeInv
<1>1. CASE StopReturns
  <2>1. /\ ws' = ws /\ cur' = cur
        /\ \A id \in Lost' : ws \in {"submit", "commit"} /\ id = cur.id
    BY <1>0, <1>1, StopLosesNothing DEF SafeInv, StopReturns, StopDrains, Alive
  <2>2. ws = "ended" => Lost' \subseteq {0}
    BY <2>1
  <2>. QED BY <1>0, <2>1, <2>2 DEF LateLoss
<1>2. CASE ~StopReturns
  <2>1. main = "waiting" /\ LateLoss
    <3>1. main' # main => \/ Sigterm \/ ServeReturns \/ StopReturns \/ CloseRaises \/ Leave
                          \/ StopRaises \/ GatherEnds \/ Kill \/ Restart
      BY DEF Next, Receive, WsTask, BatchFull, HandleEvent, ArchiveRaises, SubmitRaises, SeeStop,
         Flush, FlushRaises, Main, Down, SpillArchive, Handler, Browser, others, vars
    <3>2. main = "waiting"
      BY <1>2, <3>1 DEF Sigterm, ServeReturns, CloseRaises, Leave, StopRaises, GatherEnds, Kill,
         Restart, Exit
    <3>. QED BY <3>2 DEF SafeInv
  <2>2. (~Receive => Lost' \subseteq Lost) /\ (Receive => Lost' \subseteq Lost \cup {cur'.id})
    BY <1>0, <2>1, LostStep DEF Restart
  <2>3. ws \in {"submit", "commit"} => Lost \subseteq {cur.id} /\ cur.id \in Nat
    BY <1>0, <2>1 DEF LateLoss, EventInv, Line, Ids
  <2>4. CASE Receive
    <3>1. ws = "idle" /\ ws' = "submit"
      BY <2>4 DEF Receive
    <3>2. Lost' \subseteq {cur'.id}
      BY <2>1, <2>2, <2>4, <3>1 DEF LateLoss
    <3>. QED BY <3>1, <3>2 DEF LateLoss
  <2>5. CASE ws \in {"submit", "commit"} /\ (HandleEvent \/ ArchiveRaises \/ SubmitRaises)
    <3>1. ws' = "ended" /\ ~Receive
      BY <2>1, <2>5 DEF HandleEvent, ArchiveRaises, SubmitRaises, Over, Stopped, Receive
    <3>2. Lost' \subseteq {cur.id} /\ cur.id \in Nat
      BY <2>2, <2>3, <2>5, <3>1
    <3>. QED BY <3>1, <3>2 DEF LateLoss
  <2>6. CASE BatchFull
    <3>1. ws = "submit" /\ ws' = "commit" /\ cur' = cur /\ ~Receive
      BY <2>6 DEF BatchFull, Receive
    <3>. QED BY <2>2, <2>3, <3>1 DEF LateLoss
  <2>7. CASE SeeStop
    <3>1. ws = "idle" /\ ws' = "ended" /\ ~Receive
      BY <2>7 DEF SeeStop, Receive
    <3>2. Lost' \subseteq {0}
      BY <2>1, <2>2, <3>1 DEF LateLoss
    <3>. QED BY <1>0, <3>1, <3>2 DEF LateLoss
  <2>8. CASE UNCHANGED <<ws, cur>>
    <3>1. ~Receive
      BY <2>8 DEF Receive
    <3>. QED BY <2>1, <2>2, <2>8, <3>1 DEF LateLoss
  <2>. QED BY <2>1, <2>4, <2>5, <2>6, <2>7, <2>8, HandSteps DEF Alive
<1>. QED BY <1>1, <1>2

(* The process says "ok" when gather() returns, and only then. *)
LEMMA OutcomeSteps ==
  ASSUME EventInv, [Next]_vars, outcome' = "ok"
  PROVE  GatherEnds \/ (outcome = "ok" /\ (main = "down" => main' = "down"))
<1>1. CASE StopRaises \/ Leave \/ GatherEnds \/ Kill \/ Restart
  BY <1>1 DEF StopRaises, Leave, GatherEnds, Exit, Kill, Restart
<1>2. CASE Receive \/ WsTask \/ Flush \/ FlushRaises
  BY <1>2 DEF Receive, WsTask, BatchFull, HandleEvent, ArchiveRaises, SubmitRaises, SeeStop,
     Flush, FlushRaises
<1>3. CASE Sigterm \/ ServeReturns \/ StopReturns \/ CloseRaises
  BY <1>3 DEF Sigterm, ServeReturns, StopReturns, CloseRaises, StopDrains
<1>4. CASE Down \/ SpillArchive \/ UNCHANGED vars \/ \E c \in Clients : Handler(c) \/ Browser(c)
  BY <1>4 DEF Down, SpillArchive, Handler, Browser, others, vars
<1>. QED BY <1>1, <1>2, <1>3, <1>4 DEF Next, Main

LEMMA SafeStep == EventInv /\ ArchiveInv /\ SafeInv /\ [Next]_vars => SafeInv'
<1> SUFFICES ASSUME EventInv, ArchiveInv, SafeInv, [Next]_vars PROVE SafeInv'
  OBVIOUS
<1>0. taken \subseteq Line
  BY DEF SafeInv
<1>1. taken' \subseteq Line
  <2>1. CASE Restart
    BY <2>1 DEF Restart
  <2>2. CASE ~Restart
    BY <1>0, <2>2, HistorySteps
  <2>. QED BY <2>1, <2>2
<1>2. ASSUME main' \in Alive PROVE WholeFiles' /\ LinesSafe' /\ AcceptedSafe'
  <2>1. CASE main \notin Alive
    BY <1>2, <2>1, OnlyRestart, RestartSafe
  <2>2. CASE main \in Alive
    <3>1. WholeFiles /\ LinesSafe /\ AcceptedSafe
      BY <2>2 DEF SafeInv
    <3>2. WholeFiles' /\ LinesSafe'
      BY <1>0, <1>2, <2>2, <3>1, LinesStep
    <3>3. AcceptedSafe'
      BY <1>2, <2>2, <3>1, AcceptedStep
    <3>. QED BY <3>2, <3>3
  <2>. QED BY <2>1, <2>2
<1>3. main' = "waiting" => LateLoss'
  BY LateLossStep
<1>4. ASSUME outcome' = "ok" PROVE main' = "down" /\ \E id \in Nat : Lost' \subseteq {id}
  <2>0. ~Restart
    BY <1>4 DEF Restart
  <2>1. CASE GatherEnds
    <3>1. main = "waiting" /\ main' = "down" /\ ws' = "ended"
      BY <2>1 DEF GatherEnds, Exit
    <3>2. Lost' \subseteq Lost /\ LateLoss
      BY <1>0, <2>0, <3>1, LostStep DEF SafeInv, Receive
    <3>3. \E id \in Nat : Lost \subseteq {id}
      <4>1. ws \in {"submit", "commit"} => cur.id \in Nat
        BY BoundsType DEF EventInv, Line, Ids
      <4>2. CASE ws = "idle"
        <5>1. Lost \subseteq {0} /\ 0 \in Nat
          BY <3>2, <4>2 DEF LateLoss
        <5>. QED BY <5>1
      <4>. QED BY <3>2, <4>1, <4>2 DEF LateLoss, EventInv
    <3>. QED BY <3>1, <3>2, <3>3
  <2>2. CASE ~GatherEnds
    <3>1. outcome = "ok" /\ main = "down" /\ main' = "down"
      BY <1>4, <2>2, OutcomeSteps DEF SafeInv
    <3>2. Lost' \subseteq Lost
      BY <1>0, <2>0, <3>1, LostStep DEF Receive, Alive
    <3>. QED BY <3>1, <3>2 DEF SafeInv
  <2>. QED BY <2>1, <2>2
<1>. QED BY <1>1, <1>2, <1>3, <1>4 DEF SafeInv

LEMMA AlwaysSafeInv == Spec => []SafeInv
<1>1. Init => SafeInv
  <2> SUFFICES ASSUME Init PROVE SafeInv
    OBVIOUS
  <2>1. /\ taken = {} /\ files = [d \in Days |-> <<>>]
        /\ main = "serving" /\ outcome = "none"
    BY DEF Init, ArchiveInit
  <2>2. \A d \in Days : Len(files[d]) = 0
    BY <2>1
  <2>. QED BY <2>1, <2>2 DEF SafeInv, WholeFiles, LinesSafe, AcceptedSafe
<1>. QED BY <1>1, SafeStep, AlwaysEventInv, AlwaysArchiveInv, PTL DEF Spec

(* When a process ends as SIGTERM asks, all visible events it received are   *)
(* in the database but one at most, whatever commits, closes, opens, writes  *)
(* and flushes failed before: the one on_ws_event had in hand when the       *)
(* finally of _run drained the buffer.  The archive lacks no other one but   *)
(* those logged as failed and those of a day whose file is spoilt.           *)
THEOREM AtMostOneLostCorrect == Spec => []AtMostOneLost
<1>1. SafeInv => AtMostOneLost
  <2> SUFFICES ASSUME SafeInv, outcome = "ok" PROVE Cardinality(Lost) <= 1
    BY DEF AtMostOneLost, Lost
  <2>1. PICK id \in Nat : Lost \subseteq {id}
    BY DEF SafeInv
  <2>2. IsFiniteSet({id}) /\ Cardinality({id}) = 1
    BY FS_Singleton
  <2>3. Cardinality(Lost) <= Cardinality({id})
    BY <2>1, <2>2, FS_Subset
  <2>. QED BY <2>2, <2>3
<1>. QED BY <1>1, AlwaysSafeInv, PTL

=============================================================================
