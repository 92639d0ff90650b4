--------------------------- MODULE WsClient_proofs ---------------------------
(***************************************************************************)
(* Theorems about WsClient, for every delay, bound and number of events.    *)
(***************************************************************************)
EXTENDS WsClient, SequenceTheorems, TLAPS

(* The part of the types that the argument needs. *)
CoreOK == /\ pc \in Places /\ stopped \in BOOLEAN /\ connected \in BOOLEAN
          /\ nextId \in Nat /\ lastId \in Nat /\ subs \in 0..Subscriptions /\ late \in Nat

(* How far the session is at each place of run(). *)
SessionShape ==
  /\ pc \in {"top", "connect", "hello", "ack", "backoff"} => subs = 0
  /\ pc = "subscribe" => subs < Subscriptions /\ link # "closed"
  /\ pc \in {"hello", "ack"} => link # "closed"
  /\ pc \in {"loop", "select", "handle"} => subs = Subscriptions /\ link # "closed"

(* The next id is free: greater than all that were sent, or the first one. *)
IdsFree == lastId <= nextId /\ nextId > 0 /\ (subs = 0 => lastId = 0)

(* Once an event was handed over after stop(), the loop does not go on.      *)
LateLeaves == late > 0 => late = 1 /\ stopped /\ pc \in {"handle", "loop", "ended"}

WsInv == /\ CoreOK /\ SessionShape /\ ConnectedIsSubscribed /\ IdsFree /\ LateLeaves
         /\ GivesUpOnlyWhenTold

LEMMA InitInv == Init => WsInv
<1> SUFFICES ASSUME Init PROVE WsInv
  OBVIOUS
<1>1. CoreOK
  <2>1. pc \in Places /\ stopped \in BOOLEAN /\ connected \in BOOLEAN
    BY DEF Init, Places
  <2>2. nextId \in Nat /\ lastId \in Nat /\ subs \in 0..Subscriptions /\ late \in Nat
    BY DEF Init, Subscriptions
  <2>. QED BY <2>1, <2>2 DEF CoreOK
<1>2. SessionShape /\ ConnectedIsSubscribed
  BY DEF Init, SessionShape, ConnectedIsSubscribed, Over
<1>3. IdsFree /\ LateLeaves /\ GivesUpOnlyWhenTold
  BY DEF Init, IdsFree, LateLeaves, GivesUpOnlyWhenTold, Over
<1>. QED BY <1>1, <1>2, <1>3 DEF WsInv

-----------------------------------------------------------------------------
(* The steps that keep the session and the fields of the client.             *)
LEMMA MoveInv ==
  ASSUME WsInv,
         \/ Attempt \/ DeadlinePassed \/ BackoffElapses \/ BackoffStopped
         \/ Hello \/ AuthOk \/ Select \/ HandlerReturns
  PROVE  WsInv'
<1> USE DEF Goto, client, wire, Over
<1>1. CoreOK'
  BY DEF Attempt, DeadlinePassed, BackoffElapses, BackoffStopped, Hello, AuthOk, Select,
         LoopGoesOn, HandlerReturns, WsInv, CoreOK, Places
<1>2. SessionShape'
  BY DEF Attempt, DeadlinePassed, BackoffElapses, BackoffStopped, Hello, AuthOk, Select,
         LoopGoesOn, HandlerReturns, WsInv, SessionShape, Subscriptions
<1>3. ConnectedIsSubscribed'
  BY DEF Attempt, DeadlinePassed, BackoffElapses, BackoffStopped, Hello, AuthOk, Select,
         LoopGoesOn, HandlerReturns, WsInv, ConnectedIsSubscribed
<1>4. IdsFree'
  BY DEF Attempt, DeadlinePassed, BackoffElapses, BackoffStopped, Hello, AuthOk, Select,
         LoopGoesOn, HandlerReturns, WsInv, IdsFree
<1>5. LateLeaves'
  BY DEF Attempt, DeadlinePassed, BackoffElapses, BackoffStopped, Hello, AuthOk, Select,
         LoopGoesOn, HandlerReturns, WsInv, CoreOK, LateLeaves
<1>6. GivesUpOnlyWhenTold'
  BY DEF Attempt, DeadlinePassed, BackoffElapses, BackoffStopped, Hello, AuthOk, Select,
         LoopGoesOn, HandlerReturns, WsInv, GivesUpOnlyWhenTold
<1>. QED BY <1>1, <1>2, <1>3, <1>4, <1>5, <1>6 DEF WsInv

(* The steps that open or close a session. *)
LEMMA SessionInv ==
  ASSUME WsInv, Connect \/ Refused \/ SessionLost \/ AuthInvalid \/ SeeStop
  PROVE  WsInv'
<1> USE DEF Goto, CloseSession, Raise, Connect, Refused, SessionLost, AuthInvalid, SeeStop, client, Over
<1>1. CoreOK'
  <2>1. connected' \in BOOLEAN /\ stopped' \in BOOLEAN
    BY DEF WsInv, CoreOK
  <2>2. pc' \in Places
    BY DEF Places
  <2>3. subs' \in 0..Subscriptions /\ lastId' \in Nat
    BY DEF WsInv, CoreOK, Subscriptions
  <2>4. nextId' \in Nat /\ late' \in Nat
    BY DEF WsInv, CoreOK
  <2>. QED BY <2>1, <2>2, <2>3, <2>4 DEF CoreOK
<1>2. SessionShape'
  BY DEF WsInv, SessionShape, Subscriptions
<1>3. ConnectedIsSubscribed'
  BY DEF WsInv, ConnectedIsSubscribed, CoreOK
<1>4. IdsFree'
  BY DEF WsInv, IdsFree, CoreOK
<1>5. LateLeaves'
  BY DEF WsInv, CoreOK, LateLeaves
<1>6. GivesUpOnlyWhenTold'
  BY DEF WsInv, GivesUpOnlyWhenTold
<1>. QED BY <1>1, <1>2, <1>3, <1>4, <1>5, <1>6 DEF WsInv

LEMMA SubscribeInv == WsInv /\ Subscribe => WsInv'
<1> SUFFICES ASSUME WsInv, Subscribe PROVE WsInv'
  OBVIOUS
<1> USE DEF Goto, Subscribe, LastSubscription, IdOf, AdvanceId, Over
<1>1. CoreOK'
  BY DEF WsInv, CoreOK, Places, SessionShape, Subscriptions
<1>2. SessionShape'
  BY DEF WsInv, CoreOK, SessionShape, Subscriptions
<1>3. ConnectedIsSubscribed'
  BY DEF WsInv, ConnectedIsSubscribed, Subscriptions, CoreOK
<1>4. IdsFree'
  BY DEF WsInv, IdsFree, CoreOK
<1>5. LateLeaves'
  BY DEF WsInv, CoreOK, LateLeaves
<1>6. GivesUpOnlyWhenTold'
  BY DEF WsInv, GivesUpOnlyWhenTold
<1>. QED BY <1>1, <1>2, <1>3, <1>4, <1>5, <1>6 DEF WsInv

LEMMA ReceiveInv == WsInv /\ Receive => WsInv'
<1> SUFFICES ASSUME WsInv, Receive PROVE WsInv'
  OBVIOUS
<1> USE DEF Receive, client, Over
<1>1. CoreOK'
  BY DEF WsInv, CoreOK, Places
<1>2. SessionShape'
  BY DEF WsInv, SessionShape
<1>3. ConnectedIsSubscribed'
  BY DEF WsInv, ConnectedIsSubscribed
<1>4. IdsFree'
  BY DEF WsInv, IdsFree
<1>5. LateLeaves'
  BY DEF WsInv, CoreOK, LateLeaves
<1>6. GivesUpOnlyWhenTold'
  BY DEF WsInv, GivesUpOnlyWhenTold
<1>. QED BY <1>1, <1>2, <1>3, <1>4, <1>5, <1>6 DEF WsInv

(* The environment. *)
LEMMA WorldInv ==
  ASSUME WsInv, Stop \/ Occurs \/ LinkBreaks \/ UNCHANGED vars
  PROVE  WsInv'
<1> USE DEF Stop, Occurs, LinkBreaks, vars, client, wire, Over
<1>1. CoreOK'
  BY DEF WsInv, CoreOK
<1>2. SessionShape'
  BY DEF WsInv, SessionShape
<1>3. ConnectedIsSubscribed'
  BY DEF WsInv, ConnectedIsSubscribed
<1>4. IdsFree'
  BY DEF WsInv, IdsFree
<1>5. LateLeaves'
  BY DEF WsInv, CoreOK, LateLeaves
<1>6. GivesUpOnlyWhenTold'
  BY DEF WsInv, GivesUpOnlyWhenTold
<1>. QED BY <1>1, <1>2, <1>3, <1>4, <1>5, <1>6 DEF WsInv

LEMMA Inductive == WsInv /\ [Next]_vars => WsInv'
BY MoveInv, SessionInv, SubscribeInv, ReceiveInv, WorldInv DEF Next, Run, Ended

LEMMA AlwaysWsInv == Spec => []WsInv
BY InitInv, Inductive, PTL DEF Spec

-----------------------------------------------------------------------------
(* The connected property of HAWSClient tells the truth while run() runs.    *)
THEOREM ConnectedIsSubscribedCorrect == Spec => []ConnectedIsSubscribed
BY AlwaysWsInv, PTL DEF WsInv

(* After stop() the receive loop calls on_event at most once more.           *)
THEOREM OneEventAfterStopCorrect == Spec => []OneEventAfterStop
<1>1. WsInv => OneEventAfterStop
  BY DEF WsInv, CoreOK, LateLeaves, OneEventAfterStop
<1>. QED BY <1>1, AlwaysWsInv, PTL

(* run() ends only on stop(), on a rejected token or at its deadline,        *)
(* however often the session is lost.                                        *)
THEOREM GivesUpOnlyWhenToldCorrect == Spec => []GivesUpOnlyWhenTold
BY AlwaysWsInv, PTL DEF WsInv

(* The ids of a session grow with every message, for any number of sessions. *)
THEOREM IdsGrowCorrect == Spec => IdsGrow
<1>1. WsInv /\ [Next]_vars => [subs' > subs => lastId' > lastId]_vars
  <2> SUFFICES ASSUME WsInv, Next, subs' > subs PROVE lastId' > lastId
    OBVIOUS
  <2>1. CASE Subscribe
    BY <2>1 DEF Subscribe, IdOf, WsInv, CoreOK, IdsFree
  <2>2. CASE ~Subscribe
    <3>1. subs' = subs \/ subs' = 0
      BY <2>2 DEF Next, Run, Attempt, DeadlinePassed, BackoffElapses, BackoffStopped, Connect,
                  Refused, SessionLost, Hello, AuthOk, AuthInvalid, Select, Receive,
                  HandlerReturns, SeeStop, Stop, Occurs, LinkBreaks, Ended, Raise, CloseSession,
                  vars, wire
    <3>. QED BY <3>1 DEF WsInv, CoreOK, Subscriptions
  <2>. QED BY <2>1, <2>2
<1>. QED BY <1>1, AlwaysWsInv, PTL DEF Spec, IdsGrow

-----------------------------------------------------------------------------
LEMMA BoundsType ==
  /\ InitialBackoff \in Nat /\ MaxBackoff \in Nat /\ InitialBackoff > 0
  /\ InitialBackoff <= MaxBackoff /\ MaxEvents \in Nat /\ MaxFaults \in Nat
BY WsAssumption

(* What a step does to the fields only TypeOK speaks of. *)
LEMMA FieldsType ==
  ASSUME TypeOK, [Next]_vars
  PROVE  /\ backoff' \in InitialBackoff..MaxBackoff /\ disconnects' \in Nat
         /\ lastError' \in {"none", "ws-disconnected", "auth-invalid"}
         /\ session' \in Nat /\ occurred' \in 0..MaxEvents /\ faults' \in 0..MaxFaults
         /\ link' \in {"closed", "open", "broken"}
<1> USE BoundsType DEF client, wire
<1>0. /\ backoff \in InitialBackoff..MaxBackoff /\ disconnects \in Nat
      /\ lastError \in {"none", "ws-disconnected", "auth-invalid"}
      /\ session \in Nat /\ occurred \in 0..MaxEvents /\ faults \in 0..MaxFaults
      /\ link \in {"closed", "open", "broken"}
  BY DEF TypeOK
<1>1. CASE BackoffElapses
  <2>1. NextBackoff \in InitialBackoff..MaxBackoff
    BY <1>0 DEF NextBackoff
  <2>. QED BY <1>0, <1>1, <2>1 DEF BackoffElapses
<1>2. CASE Refused \/ SessionLost
  <2>1. /\ lastError' = "ws-disconnected" /\ disconnects' = disconnects + 1 /\ link' = "closed"
        /\ UNCHANGED <<session, occurred, backoff>>
        /\ faults' = faults \/ (faults < MaxFaults /\ faults' = faults + 1)
    BY <1>2 DEF Refused, SessionLost, Raise, CloseSession
  <2>. QED BY <1>0, <2>1
<1>3. CASE AuthInvalid \/ SeeStop
  <2>1. /\ lastError' \in {lastError, "auth-invalid"} /\ link' = "closed"
        /\ backoff' \in {backoff, InitialBackoff}
        /\ UNCHANGED <<session, occurred, disconnects, faults>>
    BY <1>3 DEF AuthInvalid, SeeStop, CloseSession
  <2>. QED BY <1>0, <2>1
<1>4. CASE Connect \/ Subscribe \/ Receive
  BY <1>0, <1>4 DEF Connect, Subscribe, Receive
<1>5. CASE Occurs \/ LinkBreaks
  BY <1>0, <1>5 DEF Occurs, LinkBreaks
<1>6. CASE \/ Attempt \/ DeadlinePassed \/ BackoffStopped \/ Hello \/ AuthOk \/ Select
           \/ HandlerReturns \/ Stop \/ Ended \/ UNCHANGED vars
  BY <1>0, <1>6 DEF Attempt, DeadlinePassed, BackoffStopped, Hello, AuthOk, Select,
     HandlerReturns, Stop, Ended, vars
<1>. QED BY <1>1, <1>2, <1>3, <1>4, <1>5, <1>6 DEF Next, Run

(* What a step does to the inbox and to what was delivered. *)
LEMMA WireSteps ==
  ASSUME [Next]_vars
  PROVE  \/ /\ UNCHANGED <<link, session, subs, inbox, occurred, delivered>>
            /\ cur' = cur \/ cur' = 0
         \/ CloseSession /\ UNCHANGED <<occurred, delivered, cur>>
         \/ Connect \/ Subscribe \/ Receive \/ Occurs \/ LinkBreaks
<1> USE DEF client, wire
<1>1. CASE Refused \/ SessionLost \/ AuthInvalid \/ SeeStop
  BY <1>1 DEF Refused, SessionLost, AuthInvalid, SeeStop, Raise
<1>2. CASE \/ Attempt \/ DeadlinePassed \/ BackoffElapses \/ BackoffStopped \/ Hello \/ AuthOk
           \/ Select \/ HandlerReturns \/ Stop \/ Ended \/ UNCHANGED vars
  BY <1>2 DEF Attempt, DeadlinePassed, BackoffElapses, BackoffStopped, Hello, AuthOk, Select,
     HandlerReturns, Stop, Ended, vars
<1>. QED BY <1>1, <1>2 DEF Next, Run

LEMMA QueueType ==
  ASSUME TypeOK, [Next]_vars
  PROVE  /\ inbox' \in Seq(0..MaxEvents) /\ cur' \in 0..MaxEvents
         /\ delivered' \in Seq([id : 1..MaxEvents, session : Nat])
<1> USE BoundsType
<1>0. /\ inbox \in Seq(0..MaxEvents) /\ cur \in 0..MaxEvents
      /\ delivered \in Seq([id : 1..MaxEvents, session : Nat])
      /\ session \in Nat /\ occurred \in 0..MaxEvents
  BY DEF TypeOK
<1>1. CASE UNCHANGED <<inbox, delivered>> /\ (cur' = cur \/ cur' = 0)
  BY <1>0, <1>1
<1>2. CASE inbox' = <<>> /\ UNCHANGED <<delivered, cur>>
  BY <1>0, <1>2
<1>3. CASE Subscribe
  BY <1>0, <1>3 DEF Subscribe
<1>4. CASE Occurs
  <2>1. occurred + 1 \in 0..MaxEvents /\ UNCHANGED <<cur, delivered>>
        /\ (inbox' = inbox \/ inbox' = Append(inbox, occurred + 1))
    BY <1>0, <1>4 DEF Occurs
  <2>2. inbox' \in Seq(0..MaxEvents)
    <3> DEFINE S == 0..MaxEvents
    <3>1. inbox \in Seq(S) /\ occurred + 1 \in S
      BY <1>0, <2>1
    <3> HIDE DEF S
    <3>2. inbox' \in Seq(S)
      BY <2>1, <3>1, AppendProperties
    <3>. QED BY <3>2 DEF S
  <2>. QED BY <1>0, <2>1, <2>2
<1>5. CASE Receive
  <2>1. inbox # <<>> /\ inbox' = Tail(inbox)
    BY <1>5 DEF Receive
  <2>2. Tail(inbox) \in Seq(0..MaxEvents) /\ Head(inbox) \in 0..MaxEvents
    BY <1>0, <2>1, HeadTailProperties
  <2>3. CASE Head(inbox) = 0
    BY <1>0, <1>5, <2>1, <2>2, <2>3 DEF Receive, ReadFirst
  <2>4. CASE Head(inbox) # 0
    <3>1. Head(inbox) \in 1..MaxEvents
      BY <2>2, <2>4
    <3>2. [id |-> Head(inbox), session |-> session] \in [id : 1..MaxEvents, session : Nat]
      BY <1>0, <3>1
    <3>3. cur' = Head(inbox) /\ delivered' = Append(delivered, [id |-> Head(inbox), session |-> session])
      BY <1>5, <2>4 DEF Receive, ReadFirst
    <3>4. delivered' \in Seq([id : 1..MaxEvents, session : Nat])
      BY <1>0, <3>2, <3>3, AppendProperties
    <3>. QED BY <2>1, <2>2, <3>3, <3>4
  <2>. QED BY <2>3, <2>4
<1>6. CASE Connect \/ LinkBreaks
  BY <1>0, <1>6 DEF Connect, LinkBreaks
<1>. QED BY <1>1, <1>2, <1>3, <1>4, <1>5, <1>6, WireSteps DEF CloseSession

LEMMA TypeInit == Init => TypeOK
<1> SUFFICES ASSUME Init PROVE TypeOK
  OBVIOUS
<1>1. inbox \in Seq(0..MaxEvents) /\ delivered \in Seq([id : 1..MaxEvents, session : Nat])
  BY DEF Init
<1>2. pc \in Places /\ stopped \in BOOLEAN /\ connected \in BOOLEAN
  BY DEF Init, Places
<1>3. /\ lastError \in {"none", "ws-disconnected", "auth-invalid"}
      /\ link \in {"closed", "open", "broken"}
  BY DEF Init
<1>4. /\ backoff \in InitialBackoff..MaxBackoff /\ disconnects \in Nat /\ nextId \in Nat
      /\ session \in Nat /\ subs \in 0..Subscriptions /\ lastId \in Nat
      /\ occurred \in 0..MaxEvents /\ cur \in 0..MaxEvents
      /\ late \in Nat /\ faults \in 0..MaxFaults
  BY BoundsType DEF Init, Subscriptions
<1>. QED BY <1>1, <1>2, <1>3, <1>4 DEF TypeOK

LEMMA TypeStep == TypeOK /\ WsInv /\ [Next]_vars => TypeOK'
<1> SUFFICES ASSUME TypeOK, WsInv, [Next]_vars PROVE TypeOK'
  OBVIOUS
<1>1. CoreOK'
  BY Inductive DEF WsInv
<1>. QED BY <1>1, FieldsType, QueueType DEF TypeOK, CoreOK

(* Every field of HAWSClient keeps its type, and the delay between two       *)
(* attempts never leaves the interval from _INITIAL_BACKOFF to _MAX_BACKOFF. *)
THEOREM TypeCorrect == Spec => []TypeOK
BY TypeInit, TypeStep, AlwaysWsInv, PTL DEF Spec

-----------------------------------------------------------------------------
(* The events waiting in the inbox are a stretch of those that occurred, in  *)
(* order; while the session is up the stretch reaches the last one.          *)
Events == {inbox[k] : k \in 1..Len(inbox)} \ {0}
Receiving == link = "open" /\ subs > 0

InboxOrder ==
  /\ \A i, j \in 1..Len(inbox) : i < j /\ inbox[i] # 0 /\ inbox[j] # 0 => inbox[i] < inbox[j]
  /\ Events \subseteq 1..occurred
  /\ \A a, b \in Events : a..b \subseteq Events
  /\ Receiving => \A a \in Events : a..occurred \subseteq Events
  /\ subs = 0 \/ link = "closed" => inbox = <<>>
  /\ link = "closed" => subs = 0

(* It comes after the last event handed over and, in the same session, right *)
(* after it.                                                                 *)
AfterLast ==
  delivered # <<>> =>
    LET last == delivered[Len(delivered)] IN
    /\ last.id <= occurred /\ last.session <= session
    /\ \A a \in Events : last.id < a
    /\ last.session = session =>
         /\ \A b \in Events : (last.id + 1)..b \subseteq Events
         /\ Receiving => (last.id + 1)..occurred \subseteq Events
         /\ link # "closed" => subs > 0

OrderInv == InboxOrder /\ AfterLast /\ DeliveredInOrder

LEMMA OrderInit == Init => OrderInv
<1> SUFFICES ASSUME Init PROVE OrderInv
  OBVIOUS
<1>1. inbox = <<>> /\ delivered = <<>> /\ link = "closed" /\ subs = 0
  BY DEF Init
<1>2. Events = {} /\ Len(inbox) = 0 /\ Len(delivered) = 0
  BY <1>1 DEF Events
<1>. QED BY <1>1, <1>2 DEF OrderInv, InboxOrder, AfterLast, DeliveredInOrder, Receiving

(* What reading and receiving a message does to the waiting events. *)
LEMMA EventsAppend ==
  ASSUME TypeOK, NEW e \in 0..MaxEvents, inbox' = Append(inbox, e)
  PROVE  /\ Events' = IF e = 0 THEN Events ELSE Events \cup {e}
         /\ Len(inbox') = Len(inbox) + 1 /\ Len(inbox) \in Nat
         /\ \A i \in 1..Len(inbox) : inbox'[i] = inbox[i]
         /\ inbox'[Len(inbox) + 1] = e
<1>1. inbox \in Seq(0..MaxEvents) /\ Len(inbox) \in Nat
  BY DEF TypeOK
<1>2. /\ Len(inbox') = Len(inbox) + 1 /\ inbox'[Len(inbox) + 1] = e
      /\ \A i \in 1..Len(inbox) : inbox'[i] = inbox[i]
  BY <1>1, AppendProperties
<1>3. \A x : (\E k \in 1..Len(inbox') : inbox'[k] = x) <=> x = e \/ \E k \in 1..Len(inbox) : inbox[k] = x
  <2>1. ASSUME NEW k \in 1..Len(inbox') PROVE k \in 1..Len(inbox) \/ k = Len(inbox) + 1
    BY <1>1, <1>2
  <2>2. \A k \in 1..Len(inbox) : k \in 1..Len(inbox')
    BY <1>1, <1>2
  <2>3. Len(inbox) + 1 \in 1..Len(inbox')
    BY <1>1, <1>2
  <2>. QED BY <1>2, <2>1, <2>2, <2>3
<1>4. \A x : /\ x \in Events <=> x # 0 /\ \E k \in 1..Len(inbox) : inbox[k] = x
             /\ x \in Events' <=> x # 0 /\ \E k \in 1..Len(inbox') : inbox'[k] = x
  BY DEF Events
<1>. QED BY <1>1, <1>2, <1>3, <1>4

LEMMA EventsTail ==
  ASSUME TypeOK, InboxOrder, inbox # <<>>, inbox' = Tail(inbox)
  PROVE  /\ Events' = Events \ {Head(inbox)} /\ Head(inbox) \in 0..MaxEvents
         /\ Head(inbox) # 0 => Head(inbox) \in Events /\ \A a \in Events' : Head(inbox) < a
         /\ Len(inbox') = Len(inbox) - 1 /\ Len(inbox) \in Nat
         /\ \A i \in 1..Len(inbox') : inbox'[i] = inbox[i + 1]
<1> DEFINE h == Head(inbox)  n == Len(inbox)
<1>1. /\ inbox \in Seq(0..MaxEvents) /\ n \in Nat /\ n > 0 /\ h = inbox[1] /\ h \in 0..MaxEvents
      /\ MaxEvents \in Nat /\ \A k \in 1..n : inbox[k] \in 0..MaxEvents
  BY BoundsType DEF TypeOK
<1>2. Len(inbox') = n - 1 /\ \A i \in 1..(n - 1) : inbox'[i] = inbox[i + 1]
  BY <1>1, HeadTailProperties
<1>3. \A x : /\ x \in Events <=> x # 0 /\ \E k \in 1..n : inbox[k] = x
             /\ x \in Events' <=> x # 0 /\ \E k \in 1..Len(inbox') : inbox'[k] = x
  BY DEF Events
<1>4. \A k \in 2..n : inbox[k] # 0 /\ h # 0 => h < inbox[k]
  BY <1>1 DEF InboxOrder
<1> HIDE DEF h, n
<1>5. ASSUME NEW x \in Events' PROVE x \in Events /\ x # h /\ (h # 0 => h < x)
  <2>0. PICK k \in 1..Len(inbox') : inbox'[k] = x /\ x # 0
    BY <1>3, <1>5
  <2>1. k \in 1..(n - 1) /\ inbox[k + 1] = x /\ x # 0
    BY <1>2, <2>0
  <2>2. k + 1 \in 1..n /\ k + 1 \in 2..n /\ inbox[k + 1] \in 0..MaxEvents
    BY <1>1, <2>1
  <2>. QED BY <1>1, <1>3, <1>4, <2>1, <2>2
<1>6. ASSUME NEW x \in Events, x # h PROVE x \in Events'
  <2>1. PICK k \in 1..n : inbox[k] = x /\ x # 0
    BY <1>3, <1>6
  <2>2. k # 1
    BY <1>1, <1>6, <2>1
  <2>3. k - 1 \in 1..(n - 1) /\ (k - 1) + 1 = k
    BY <1>1, <2>1, <2>2
  <2>4. inbox'[k - 1] = x
    BY <1>2, <2>1, <2>3
  <2>. QED BY <1>2, <1>3, <2>1, <2>3, <2>4
<1>7. Events' = Events \ {h}
  BY <1>5, <1>6
<1>8. h # 0 => h \in Events
  BY <1>1, <1>3
<1>. QED BY <1>1, <1>2, <1>5, <1>7, <1>8 DEF h, n

LEMMA LastType ==
  ASSUME TypeOK, delivered # <<>>
  PROVE  /\ Len(delivered) \in Nat /\ Len(delivered) > 0
         /\ delivered[Len(delivered)].id \in Nat /\ delivered[Len(delivered)].session \in Nat
<1> DEFINE D == [id : 1..MaxEvents, session : Nat]
<1>1. delivered \in Seq(D)
  BY DEF TypeOK
<1> HIDE DEF D
<1>2. Len(delivered) \in Nat /\ Len(delivered) > 0 /\ delivered[Len(delivered)] \in D
  BY <1>1
<1>. QED BY <1>2, BoundsType DEF D

(* A session begins or ends with an empty inbox. *)
LEMMA SessionOrder ==
  ASSUME TypeOK, WsInv, OrderInv,
         (CloseSession /\ UNCHANGED <<occurred, delivered>>) \/ Connect
  PROVE  OrderInv'
<1>1. inbox' = <<>> /\ subs' = 0 /\ UNCHANGED <<occurred, delivered>>
  BY DEF CloseSession, Connect, Goto, WsInv, SessionShape, OrderInv, InboxOrder
<1>2. Events' = {} /\ Len(inbox') = 0 /\ ~Receiving'
  BY <1>1 DEF Events, Receiving
<1>3. InboxOrder'
  BY <1>1, <1>2 DEF InboxOrder
<1>4. AfterLast'
  <2>1. (link' = "closed" /\ session' = session) \/ session' = session + 1
    BY DEF CloseSession, Connect
  <2>2. session \in Nat /\ occurred \in Nat
    BY BoundsType DEF TypeOK
  <2>. QED BY <1>1, <1>2, <2>1, <2>2, LastType DEF OrderInv, AfterLast
<1>5. DeliveredInOrder'
  BY <1>1 DEF OrderInv, DeliveredInOrder
<1>. QED BY <1>3, <1>4, <1>5 DEF OrderInv

LEMMA SubscribeOrder ==
  ASSUME TypeOK, OrderInv, Subscribe PROVE OrderInv'
<1>1. /\ link = "open" /\ link' = "open" /\ inbox' = Append(inbox, 0) /\ subs' = subs + 1
      /\ UNCHANGED <<session, occurred, delivered>> /\ subs \in Nat /\ MaxEvents \in Nat
  BY BoundsType DEF Subscribe, TypeOK
<1>2. 0 \in 0..MaxEvents
  BY <1>1
<1>3. /\ Events' = Events /\ Len(inbox') = Len(inbox) + 1 /\ Len(inbox) \in Nat
      /\ \A i \in 1..Len(inbox) : inbox'[i] = inbox[i] /\ inbox'[Len(inbox) + 1] = 0
  BY <1>1, <1>2, EventsAppend
<1>4. Receiving' /\ (Receiving <=> subs # 0) /\ (subs = 0 => Events = {})
  <2>1. subs = 0 => Events = {}
    BY DEF OrderInv, InboxOrder, Events
  <2>. QED BY <1>1, <2>1 DEF Receiving
<1>5. InboxOrder'
  <2>1. ASSUME NEW i \in 1..Len(inbox'), NEW j \in 1..Len(inbox'), i < j, inbox'[i] # 0, inbox'[j] # 0
        PROVE  inbox'[i] < inbox'[j]
    <3>1. i \in 1..Len(inbox) /\ j \in 1..Len(inbox)
      BY <1>3, <2>1
    <3>. QED BY <1>3, <2>1, <3>1 DEF OrderInv, InboxOrder
  <2>. QED BY <1>1, <1>3, <1>4, <2>1 DEF OrderInv, InboxOrder
<1>6. AfterLast'
  BY <1>1, <1>3, <1>4, LastType DEF OrderInv, AfterLast
<1>7. DeliveredInOrder'
  BY <1>1 DEF OrderInv, DeliveredInOrder
<1>. QED BY <1>5, <1>6, <1>7 DEF OrderInv

LEMMA OccursOrder ==
  ASSUME TypeOK, OrderInv, Occurs PROVE OrderInv'
<1> DEFINE e == occurred + 1
<1>1. /\ UNCHANGED <<link, session, subs, delivered>> /\ occurred' = e /\ occurred \in Nat
      /\ e \in 0..MaxEvents /\ e # 0 /\ session \in Nat
  BY BoundsType DEF Occurs, TypeOK
<1>2. DeliveredInOrder'
  BY <1>1 DEF OrderInv, DeliveredInOrder
<1>3. CASE Receiving
  <2>1. inbox' = Append(inbox, e)
    BY <1>3 DEF Occurs, Receiving
  <2>2. /\ Events' = Events \cup {e} /\ Len(inbox') = Len(inbox) + 1 /\ Len(inbox) \in Nat
        /\ \A i \in 1..Len(inbox) : inbox'[i] = inbox[i]
        /\ inbox'[Len(inbox) + 1] = e
    BY <1>1, <2>1, EventsAppend
  <2>3. /\ Events \subseteq 1..occurred
        /\ \A a \in Events : a..occurred \subseteq Events
        /\ Receiving'
    BY <1>1, <1>3 DEF OrderInv, InboxOrder, Receiving
  <2>4. \A a \in Events' : a..e \subseteq Events' /\ a \in 1..e
    <3> TAKE a \in Events'
    <3>1. CASE a = e
      BY <1>1, <2>2, <3>1
    <3>2. CASE a \in Events
      <4>1. a \in 1..occurred /\ a..occurred \subseteq Events
        BY <2>3, <3>2
      <4>. QED BY <1>1, <2>2, <4>1
    <3>. QED BY <2>2, <3>1, <3>2
  <2>5. InboxOrder'
    <3>1. ASSUME NEW i \in 1..Len(inbox'), NEW j \in 1..Len(inbox'), i < j, inbox'[i] # 0, inbox'[j] # 0
          PROVE  inbox'[i] < inbox'[j]
      <4>1. i \in 1..Len(inbox) /\ (j \in 1..Len(inbox) \/ j = Len(inbox) + 1)
        BY <2>2, <3>1
      <4>2. inbox[i] # 0 => inbox[i] \in Events
        BY <4>1 DEF Events
      <4>3. CASE j \in 1..Len(inbox)
        <5>1. inbox'[i] = inbox[i] /\ inbox'[j] = inbox[j]
          BY <2>2, <4>1, <4>3
        <5>. QED BY <3>1, <4>1, <4>3, <5>1 DEF OrderInv, InboxOrder
      <4>4. CASE j = Len(inbox) + 1
        <5>1. inbox'[i] \in 1..occurred /\ inbox'[j] = e
          BY <2>2, <2>3, <3>1, <4>1, <4>2, <4>4
        <5>. QED BY <1>1, <5>1
      <4>. QED BY <4>1, <4>3, <4>4
    <3>2. \A a, b \in Events' : a..b \subseteq Events'
      BY <1>1, <2>4
    <3>3. subs # 0 /\ link # "closed"
      BY <1>3 DEF Receiving, TypeOK
    <3>. QED BY <1>1, <2>4, <3>1, <3>2, <3>3 DEF InboxOrder
  <2>6. AfterLast'
    <3> SUFFICES ASSUME delivered # <<>> PROVE AfterLast'
      BY <1>1 DEF AfterLast
    <3> DEFINE last == delivered[Len(delivered)]
    <3>1. last.id \in Nat /\ last.session \in Nat
      BY LastType
    <3>2. /\ last.id <= occurred /\ last.session <= session
          /\ \A a \in Events : last.id < a
          /\ last.session = session => (last.id + 1)..occurred \subseteq Events
          /\ last.session = session => subs > 0
      BY <1>3 DEF OrderInv, AfterLast, Receiving
    <3> HIDE DEF last
    <3>3. last.session = session => (last.id + 1)..e \subseteq Events'
      BY <1>1, <2>2, <3>1, <3>2
    <3>4. \A a \in Events' : last.id < a
      BY <1>1, <2>2, <3>1, <3>2
    <3>5. last.session = session => \A b \in Events' : (last.id + 1)..b \subseteq Events'
      BY <1>1, <2>4, <3>1, <3>3
    <3>6. last.id <= e
      BY <1>1, <3>1, <3>2
    <3>7. last' = last
      BY <1>1 DEF last
    <3>. QED BY <1>1, <3>2, <3>3, <3>4, <3>5, <3>6, <3>7 DEF AfterLast, last
  <2>. QED BY <1>2, <2>5, <2>6 DEF OrderInv
<1>4. CASE ~Receiving
  <2>1. inbox' = inbox /\ ~Receiving'
    BY <1>1, <1>4 DEF Occurs, Receiving
  <2>2. Events' = Events
    BY <2>1 DEF Events
  <2>3. InboxOrder'
    BY <1>1, <2>1, <2>2 DEF OrderInv, InboxOrder
  <2>4. AfterLast'
    BY <1>1, <2>1, <2>2, LastType DEF OrderInv, AfterLast
  <2>. QED BY <1>2, <2>3, <2>4 DEF OrderInv
<1>. QED BY <1>3, <1>4

(* The message read is the first: the event handed over is the one right     *)
(* after the last, or the first of its session.                              *)
LEMMA ReceiveOrder ==
  ASSUME TypeOK, WsInv, OrderInv, Receive PROVE OrderInv'
<1> DEFINE h == Head(inbox)  n == Len(delivered)
<1>1. /\ inbox # <<>> /\ inbox' = Tail(inbox) /\ UNCHANGED <<link, session, subs, occurred>>
      /\ session \in Nat /\ occurred \in Nat /\ MaxEvents \in Nat
      /\ subs > 0 /\ link # "closed"
  BY BoundsType DEF Receive, TypeOK, WsInv, SessionShape, Subscriptions
<1>2. /\ Events' = Events \ {h} /\ h \in 0..MaxEvents
      /\ h # 0 => h \in Events /\ \A a \in Events' : h < a
      /\ Len(inbox') = Len(inbox) - 1 /\ Len(inbox) \in Nat
      /\ \A i \in 1..Len(inbox') : inbox'[i] = inbox[i + 1]
  BY <1>1, EventsTail DEF OrderInv
<1>3. /\ Events \subseteq 1..occurred /\ 0 \notin Events
      /\ \A a, b \in Events : a..b \subseteq Events
      /\ Receiving => \A a \in Events : a..occurred \subseteq Events
      /\ Receiving' <=> Receiving
  BY <1>1 DEF OrderInv, InboxOrder, Receiving, Events
<1>4. ASSUME NEW a \in Events' PROVE a \in Events /\ a \in 1..occurred /\ (h # 0 => h < a)
  BY <1>2, <1>3
<1>5. InboxOrder'
  <2>1. ASSUME NEW i \in 1..Len(inbox'), NEW j \in 1..Len(inbox'), i < j, inbox'[i] # 0, inbox'[j] # 0
        PROVE  inbox'[i] < inbox'[j]
    <3>1. i + 1 \in 1..Len(inbox) /\ j + 1 \in 1..Len(inbox) /\ i + 1 < j + 1
      BY <1>2, <2>1
    <3>2. inbox'[i] = inbox[i + 1] /\ inbox'[j] = inbox[j + 1]
      BY <1>2
    <3>. QED BY <2>1, <3>1, <3>2 DEF OrderInv, InboxOrder
  <2>2. Events' \subseteq 1..occurred
    BY <1>4
  <2>3. ASSUME NEW a \in Events', NEW b \in Nat, a..b \subseteq Events PROVE a..b \subseteq Events'
    <3>1. a \in Nat /\ h \in Nat /\ (h # 0 => h < a) /\ a > 0
      BY <1>1, <1>2, <1>4
    <3>2. h \notin a..b
      BY <3>1
    <3>. QED BY <1>2, <2>3, <3>2
  <2>4. \A a, b \in Events' : a..b \subseteq Events'
    BY <1>1, <1>3, <1>4, <2>3
  <2>5. Receiving => \A a \in Events' : a..occurred \subseteq Events'
    BY <1>1, <1>3, <1>4, <2>3
  <2>. QED BY <1>1, <1>3, <2>1, <2>2, <2>4, <2>5 DEF InboxOrder
<1>6. CASE h = 0
  <2>1. delivered' = delivered /\ Events' = Events
    BY <1>1, <1>2, <1>3, <1>6 DEF Receive, ReadFirst
  <2>2. AfterLast' /\ DeliveredInOrder'
    BY <1>1, <1>3, <2>1 DEF OrderInv, AfterLast, DeliveredInOrder
  <2>. QED BY <1>5, <2>2 DEF OrderInv
<1>7. CASE h # 0
  <2> DEFINE D == [id : 1..MaxEvents, session : Nat]  new == [id |-> h, session |-> session]
  <2>1. delivered' = Append(delivered, new) /\ delivered \in Seq(D) /\ new \in D
    <3>1. h \in 1..MaxEvents
      BY <1>2, <1>7
    <3>. QED BY <1>1, <1>7, <3>1 DEF Receive, ReadFirst, TypeOK
  <2> HIDE DEF D
  <2>2. /\ n \in Nat /\ Len(delivered') = n + 1 /\ delivered'[n + 1] = new
        /\ \A i \in 1..n : delivered'[i] = delivered[i]
    BY <2>1, AppendProperties
  <2>3. h \in Events /\ h \in 1..occurred
    BY <1>2, <1>3, <1>7
  <2>4. ASSUME NEW m \in Nat, h..m \subseteq Events PROVE (h + 1)..m \subseteq Events'
    <3>1. (h + 1)..m \subseteq h..m /\ h \notin (h + 1)..m
      BY <2>3
    <3>. QED BY <1>2, <2>4, <3>1
  <2>5. AfterLast'
    <3>1. delivered'[Len(delivered')] = new /\ new.id = h /\ new.session = session
      BY <2>2
    <3>2. \A b \in Events' : (h + 1)..b \subseteq Events'
      BY <1>1, <1>3, <1>4, <2>3, <2>4
    <3>3. Receiving => (h + 1)..occurred \subseteq Events'
      BY <1>1, <1>3, <2>3, <2>4
    <3>4. h <= occurred /\ \A a \in Events' : h < a
      BY <1>2, <1>7, <2>3
    <3> HIDE DEF new, h
    <3>. QED BY <1>1, <1>3, <3>1, <3>2, <3>3, <3>4 DEF AfterLast
  <2>6. ASSUME n > 0
        PROVE  /\ delivered[n].id < h
               /\ delivered[n].session = session => h = delivered[n].id + 1
    <3>1. delivered # <<>> /\ delivered[n].id \in Nat
      BY <2>2, <2>6, LastType
    <3>2. /\ delivered[n].id < h
          /\ delivered[n].session = session => (delivered[n].id + 1)..h \subseteq Events
      BY <2>3, <3>1 DEF OrderInv, AfterLast
    <3>3. \A a \in Events : a = h \/ h < a
      BY <1>2, <1>7
    <3>4. delivered[n].id + 1 < h => delivered[n].id + 1 \in (delivered[n].id + 1)..h
      BY <2>3, <3>1
    <3>5. delivered[n].session = session => ~(delivered[n].id + 1 < h)
      BY <1>3, <2>3, <3>1, <3>2, <3>3, <3>4
    <3>. QED BY <2>3, <3>1, <3>2, <3>5
  <2>7. DeliveredInOrder'
    <3> SUFFICES ASSUME NEW i \in 2..Len(delivered')
                 PROVE  /\ delivered'[i - 1].id < delivered'[i].id
                        /\ delivered'[i - 1].session = delivered'[i].session
                             => delivered'[i].id = delivered'[i - 1].id + 1
      BY DEF DeliveredInOrder
    <3>1. CASE i = n + 1
      <4>1. /\ n > 0 /\ delivered'[i] = new /\ new.id = h /\ new.session = session
            /\ i - 1 = n /\ delivered'[n] = delivered[n]
        BY <2>2, <3>1
      <4>. QED BY <2>6, <4>1
    <3>2. CASE i # n + 1
      <4>1. i \in 2..n /\ delivered'[i] = delivered[i] /\ delivered'[i - 1] = delivered[i - 1]
        BY <2>2, <3>2
      <4>. QED BY <4>1 DEF OrderInv, DeliveredInOrder
    <3>. QED BY <3>1, <3>2
  <2>. QED BY <1>5, <2>5, <2>7 DEF OrderInv
<1>. QED BY <1>6, <1>7

LEMMA OrderStep == TypeOK /\ WsInv /\ OrderInv /\ [Next]_vars => OrderInv'
<1> SUFFICES ASSUME TypeOK, WsInv, OrderInv, [Next]_vars PROVE OrderInv'
  OBVIOUS
<1>1. CASE UNCHANGED <<link, session, subs, inbox, occurred, delivered>>
  BY <1>1 DEF OrderInv, InboxOrder, AfterLast, DeliveredInOrder, Events, Receiving
<1>2. CASE LinkBreaks
  <2>1. /\ UNCHANGED <<session, subs, inbox, occurred, delivered>>
        /\ link' = "broken" /\ link = "open"
    BY <1>2 DEF LinkBreaks
  <2>2. Events' = Events /\ ~Receiving'
    BY <2>1 DEF Events, Receiving
  <2>. QED BY <2>1, <2>2 DEF OrderInv, InboxOrder, AfterLast, DeliveredInOrder
<1>. QED BY <1>1, <1>2, WireSteps, SessionOrder, SubscribeOrder, OccursOrder, ReceiveOrder

(* on_event is called with the events in order, each at most once, and       *)
(* without a gap inside a session, for any number of lost sessions.          *)
THEOREM DeliveredInOrderCorrect == Spec => []DeliveredInOrder
<1>1. OrderInv => DeliveredInOrder
  BY DEF OrderInv
<1>. QED BY <1>1, OrderInit, OrderStep, TypeCorrect, AlwaysWsInv, PTL DEF Spec

=============================================================================
