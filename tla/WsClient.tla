------------------------------ MODULE WsClient ------------------------------
(***************************************************************************)
(* ai_ha.ha_adapter.HAWSClient: the task that keeps a WebSocket session to  *)
(* Home Assistant, reconnects with a growing delay, and hands the events it *)
(* receives to on_event one at a time.  A step is what the task does        *)
(* between two awaits; stop() may be called, the link may break and Home    *)
(* Assistant may push between any two of them.                              *)
(***************************************************************************)
EXTENDS Naturals, Sequences, FiniteSets

CONSTANTS InitialBackoff, MaxBackoff,  \* in seconds
          HasDeadline,                 \* max_reconnect_seconds is given (main gives none)
          MayStop,                     \* whether stop() may be called
          MaxEvents, MaxFaults         \* bounds of the model

ASSUME WsAssumption ==
  /\ InitialBackoff \in Nat \ {0} /\ MaxBackoff \in Nat /\ InitialBackoff <= MaxBackoff
  /\ HasDeadline \in BOOLEAN /\ MayStop \in BOOLEAN
  /\ MaxEvents \in Nat /\ MaxFaults \in Nat

VARIABLES
  pc,          \* where run() is
  stopped,     \* the asyncio.Event _stop
  backoff, disconnects, lastError, connected, nextId,  \* the fields of the client
  link,        \* the session: "closed", "open", or "broken" once its loss is noticed
  session,     \* number of the session: distinguishes the events of two of them
  subs,        \* how many of the four subscriptions were sent in this session
  lastId,      \* the last message id sent in this session, 0 before the first
  inbox,       \* received and not yet read: events by number, 0 for a reply
  occurred,    \* number of events that occurred in Home Assistant
  cur,         \* the event on_event is working on
  delivered,   \* the events on_event was called with, and in which session
  late,        \* how many of them after stop()
  faults

client == <<backoff, disconnects, lastError, connected, nextId>>
wire == <<link, session, subs, lastId, inbox>>
vars == <<pc, stopped, client, wire, occurred, cur, delivered, late, faults>>

Places == {"top", "connect", "hello", "ack", "subscribe", "loop", "select", "handle",
           "backoff", "ended", "expired"}
Over == pc \in {"ended", "expired"}   \* run() has returned
Subscriptions == 4   \* state_changed, then the area, device and entity registries

Init ==
  /\ pc = "top" /\ stopped = FALSE
  /\ backoff = InitialBackoff /\ disconnects = 0 /\ lastError = "none"
  /\ connected = FALSE /\ nextId = 1
  /\ link = "closed" /\ session = 0 /\ subs = 0 /\ lastId = 0 /\ inbox = <<>>
  /\ occurred = 0 /\ cur = 0 /\ delivered = <<>> /\ late = 0 /\ faults = 0

Goto(from, to) == pc = from /\ pc' = to

(* async with websockets.connect(...) closes the session on the way out. *)
CloseSession == /\ link' = "closed" /\ subs' = 0 /\ lastId' = 0 /\ inbox' = <<>>
                /\ UNCHANGED session

-----------------------------------------------------------------------------
(* The loop of run(). *)
Attempt ==
  /\ Goto("top", IF stopped THEN "ended" ELSE "connect")
  /\ UNCHANGED <<stopped, client, wire, occurred, cur, delivered, late, faults>>

DeadlinePassed ==
  /\ HasDeadline /\ ~stopped /\ Goto("top", "expired")
  /\ UNCHANGED <<stopped, client, wire, occurred, cur, delivered, late, faults>>

(* "except Exception": what every failure of a session comes to. *)
(* Mutants: the flag is not cleared; or the failure ends run(). *)
RaiseStillConnected ==
  /\ pc' = "backoff" /\ lastError' = "ws-disconnected" /\ disconnects' = disconnects + 1
  /\ CloseSession
  /\ UNCHANGED <<stopped, backoff, connected, nextId, occurred, cur, delivered, late>>
RaiseAndReturn ==
  /\ pc' = "ended" /\ lastError' = "ws-disconnected" /\ disconnects' = disconnects + 1
  /\ connected' = FALSE /\ CloseSession
  /\ UNCHANGED <<stopped, backoff, nextId, occurred, cur, delivered, late>>
Raise ==
  /\ pc' = "backoff" /\ lastError' = "ws-disconnected" /\ disconnects' = disconnects + 1
  /\ connected' = FALSE
  /\ CloseSession
  /\ UNCHANGED <<stopped, backoff, nextId, occurred, cur, delivered, late>>

(* Mutants: the delay is not capped; or stop() is the only way out. *)
NextUncapped == backoff * 2
NextBackoff == IF backoff * 2 < MaxBackoff THEN backoff * 2 ELSE MaxBackoff

WaitForStop ==
  /\ stopped /\ Goto("backoff", "top")
  /\ UNCHANGED <<stopped, client, wire, occurred, cur, delivered, late, faults>>
BackoffElapses ==
  /\ Goto("backoff", "top")
  /\ backoff' = NextBackoff
  /\ UNCHANGED <<stopped, disconnects, lastError, connected, nextId, wire, occurred, cur,
                 delivered, late, faults>>

BackoffStopped ==
  /\ stopped /\ Goto("backoff", "ended")
  /\ UNCHANGED <<stopped, client, wire, occurred, cur, delivered, late, faults>>

-----------------------------------------------------------------------------
(* _connect_and_loop: handshake and subscriptions. *)
Connect ==
  /\ Goto("connect", "hello")
  /\ link' = "open" /\ session' = session + 1
  /\ UNCHANGED <<stopped, client, subs, lastId, inbox, occurred, cur, delivered, late, faults>>

(* The connection is refused, or the peer says something unexpected: not a    *)
(* hello, not an answer to auth, not JSON.                                    *)
Refused ==
  /\ pc \in {"connect", "hello", "ack", "select"} /\ faults < MaxFaults
  /\ faults' = faults + 1
  /\ Raise

(* recv() or send() on a session whose loss was noticed; what was received   *)
(* before is read first.                                                     *)
SessionLost ==
  /\ link = "broken"
  /\ pc \in {"hello", "ack", "subscribe"} \/ (pc = "select" /\ inbox = <<>>)
  /\ Raise /\ UNCHANGED faults

Hello ==
  /\ link = "open" /\ Goto("hello", "ack")
  /\ UNCHANGED <<stopped, client, wire, occurred, cur, delivered, late, faults>>

AuthOk ==
  /\ link = "open" /\ Goto("ack", "subscribe")
  /\ UNCHANGED <<stopped, client, wire, occurred, cur, delivered, late, faults>>

AuthInvalid ==
  /\ link = "open" /\ Goto("ack", "ended")
  /\ lastError' = "auth-invalid"
  /\ CloseSession
  /\ UNCHANGED <<stopped, backoff, disconnects, connected, nextId, occurred, cur, delivered,
                 late, faults>>

(* The first subscription takes the id and then advances, the others advance first. *)
IdOf == IF subs = 0 THEN nextId ELSE nextId + 1
(* Mutant: the others do not advance. *)
AdvanceOnce == IF subs = 0 THEN nextId + 1 ELSE nextId
AdvanceId == nextId + 1
LastSubscription == subs + 1 = Subscriptions

Subscribe ==
  /\ link = "open" /\ Goto("subscribe", IF LastSubscription THEN "loop" ELSE "subscribe")
  /\ lastId' = IdOf /\ nextId' = AdvanceId
  /\ subs' = subs + 1 /\ inbox' = Append(inbox, 0)
  /\ connected' = LastSubscription
  /\ UNCHANGED <<stopped, backoff, disconnects, lastError, link, session, occurred, cur,
                 delivered, late, faults>>

-----------------------------------------------------------------------------
(* The receive loop: wait for a message or for stop(), whichever is first.   *)
(* Mutant: the loop is "while True". *)
LoopForever == pc = "loop"
LoopGoesOn == pc = "loop" /\ ~stopped

Select ==
  /\ LoopGoesOn /\ pc' = "select"
  /\ UNCHANGED <<stopped, client, wire, occurred, cur, delivered, late, faults>>

(* Mutant: the newest message is read and the older ones are lost. *)
ReadNewest == inbox[Len(inbox)]
ReadFirst == Head(inbox)

(* A message that is not an event is ignored. *)
Receive ==
  /\ pc = "select" /\ inbox # <<>>
  /\ inbox' = Tail(inbox)
  /\ IF ReadFirst = 0
     THEN pc' = "loop" /\ UNCHANGED <<cur, delivered, late>>
     ELSE /\ pc' = "handle" /\ cur' = ReadFirst
          /\ delivered' = Append(delivered, [id |-> ReadFirst, session |-> session])
          /\ late' = IF stopped THEN late + 1 ELSE late
  /\ UNCHANGED <<stopped, client, link, session, subs, lastId, occurred, faults>>

(* on_event returns, or raises and is logged. *)
HandlerReturns ==
  /\ Goto("handle", "loop") /\ cur' = 0
  /\ UNCHANGED <<stopped, client, wire, occurred, delivered, late, faults>>

(* Mutant: only the condition of the loop is tested, not the finished wait. *)
StopAtLoopTop ==
  /\ stopped /\ pc = "loop" /\ pc' = "ended"
  /\ backoff' = InitialBackoff
  /\ CloseSession
  /\ UNCHANGED <<stopped, disconnects, lastError, connected, nextId, occurred, cur, delivered,
                 late, faults>>

(* The loop ends or stop_task is done: _connect_and_loop returns, the delay  *)
(* is reset, and run() returns because the wait for stop() is over at once.  *)
SeeStop ==
  /\ stopped /\ pc \in {"loop", "select"} /\ pc' = "ended"
  /\ backoff' = InitialBackoff
  /\ CloseSession
  /\ UNCHANGED <<stopped, disconnects, lastError, connected, nextId, occurred, cur, delivered,
                 late, faults>>

-----------------------------------------------------------------------------
(* The environment. *)
Stop ==
  /\ MayStop /\ ~stopped /\ stopped' = TRUE
  /\ UNCHANGED <<pc, client, wire, occurred, cur, delivered, late, faults>>

(* An event reaches the client when the session subscribed to it is up. *)
Occurs ==
  /\ occurred < MaxEvents /\ occurred' = occurred + 1
  /\ inbox' = IF link = "open" /\ subs > 0 THEN Append(inbox, occurred + 1) ELSE inbox
  /\ UNCHANGED <<pc, stopped, client, link, session, subs, lastId, cur, delivered, late, faults>>

LinkBreaks ==
  /\ link = "open" /\ faults < MaxFaults
  /\ faults' = faults + 1 /\ link' = "broken"
  /\ UNCHANGED <<pc, stopped, client, session, subs, lastId, inbox, occurred, cur, delivered,
                 late>>

Ended == Over /\ UNCHANGED vars

Run == \/ Attempt \/ BackoffElapses \/ BackoffStopped
       \/ Connect \/ SessionLost \/ Hello \/ AuthOk \/ Subscribe
       \/ Select \/ Receive \/ HandlerReturns \/ SeeStop

Next == \/ Run \/ DeadlinePassed \/ Refused \/ AuthInvalid
        \/ Stop \/ Occurs \/ LinkBreaks \/ Ended

Spec == Init /\ [][Next]_vars

(* on_event ends, Home Assistant answers or is found dead by the pings, and  *)
(* sleeps end.  Nothing obliges Home Assistant to accept the token.          *)
FairSpec == Spec /\ WF_vars(Run)

-----------------------------------------------------------------------------
(* Every variable keeps its type; the delay stays between its two limits. *)
TypeOK ==
  /\ pc \in Places /\ stopped \in BOOLEAN
  /\ backoff \in InitialBackoff..MaxBackoff /\ disconnects \in Nat
  /\ lastError \in {"none", "ws-disconnected", "auth-invalid"}
  /\ connected \in BOOLEAN /\ nextId \in Nat
  /\ link \in {"closed", "open", "broken"} /\ session \in Nat /\ subs \in 0..Subscriptions
  /\ lastId \in Nat /\ inbox \in Seq(0..MaxEvents) /\ occurred \in 0..MaxEvents
  /\ cur \in 0..MaxEvents /\ delivered \in Seq([id : 1..MaxEvents, session : Nat])
  /\ late \in Nat /\ faults \in 0..MaxFaults

(* The connected property tells the truth while run() runs: it holds only    *)
(* in a session on which all four subscriptions were sent, across drops,     *)
(* refused handshakes and reconnects.                                        *)
ConnectedIsSubscribed ==
  (connected /\ ~Over) => /\ subs = Subscriptions /\ link # "closed"
                                 /\ pc \in {"loop", "select", "handle"}

(* Home Assistant refuses a message whose id is not greater than the last    *)
(* one of the session: the ids of a session grow, although _next_id is kept  *)
(* from one session to the next and advanced in two different ways.          *)
IdsGrow == [][subs' > subs => lastId' > lastId]_vars

(* on_event sees the events in order and at most once, and misses none       *)
(* between two it sees in the same session: a lost event means a lost        *)
(* session.                                                                  *)
DeliveredInOrder ==
  \A i \in 2..Len(delivered) :
    LET a == delivered[i - 1] b == delivered[i] IN
    a.id < b.id /\ (a.session = b.session => b.id = a.id + 1)

(* After stop() on_event is called at most once more: for a message that     *)
(* was read in the same turn of the event loop.                              *)
OneEventAfterStop == late <= 1

(* run() gives up only when it is told to: by stop(), by a rejected token,   *)
(* or by the deadline; no drop or refusal ends the listening.                *)
GivesUpOnlyWhenTold ==
  Over => stopped \/ lastError = "auth-invalid" \/ (pc = "expired" /\ HasDeadline)

(* After a drop the client is subscribed again, or was told to give up.      *)
Reconnects == (pc = "backoff") ~> (connected \/ Over)

(* run() ends after stop(), wherever it was.                                 *)
StopEndsRun == stopped ~> Over
=============================================================================
