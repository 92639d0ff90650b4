----------------------------- MODULE Broadcaster -----------------------------
(***************************************************************************)
(* ai_ha.web.routes.stream: EventBroadcaster and the WebSocket endpoint that *)
(* subscribes to it.  Each client has a bounded queue and a handler task     *)
(* that takes an event from it and sends it.  publish() never suspends: it   *)
(* makes room before it puts, so it is one step for all queues.  Listener    *)
(* composes these actions with the task that publishes.                      *)
(***************************************************************************)
EXTENDS Naturals, Sequences

CONSTANTS Clients,    \* browsers that may open /api/v1/stream/events
          QueueSize

ASSUME BroadcasterAssumption == QueueSize \in Nat \ {0}

VARIABLES
  task,       \* what the client's handler awaits; "left" once it has returned and
              \* the generator with the client's queue is not yet finalised
  up,         \* the clients whose connection is up
  queue,      \* the client's queue, one of _queues unless its task is "none"
  hand,       \* the event the handler is sending, 0 for none
  seen,       \* the last event that reached the client over this connection
  published   \* history: what this process published

stream == <<task, up, queue, hand, seen, published>>

(* What a new process has: no queue, no connection. *)
Quiet(v) == [c \in Clients |-> v]
StreamInit ==
  /\ task = Quiet("none") /\ up = {} /\ queue = Quiet(<<>>)
  /\ hand = Quiet(0) /\ seen = Quiet(0) /\ published = <<>>
StreamGone ==
  /\ task' = Quiet("none") /\ up' = {} /\ queue' = Quiet(<<>>)
  /\ hand' = Quiet(0) /\ seen' = Quiet(0) /\ published' = <<>>

(* One queue in publish().  Mutant: a full queue takes nothing new. *)
OfferOrDrop(q, e) == IF Len(q) = QueueSize THEN q ELSE Append(q, e)
Offer(q, e) == IF Len(q) = QueueSize THEN Append(Tail(q), e) ELSE Append(q, e)

Publish(e) ==
  /\ queue' = [c \in Clients |-> IF task[c] = "none" THEN queue[c] ELSE Offer(queue[c], e)]
  /\ published' = Append(published, e)
  /\ UNCHANGED <<task, up, hand, seen>>

(* accept(), and subscribe() up to its first get(). *)
Connect(c) ==
  /\ task[c] = "none"
  /\ task' = [task EXCEPT ![c] = "get"] /\ up' = up \cup {c}
  /\ UNCHANGED <<queue, hand, seen, published>>

(* "yield await q.get()" *)
Take(c) ==
  /\ task[c] = "get" /\ queue[c] # <<>>
  /\ task' = [task EXCEPT ![c] = "send"]
  /\ hand' = [hand EXCEPT ![c] = Head(queue[c])]
  /\ queue' = [queue EXCEPT ![c] = Tail(@)]
  /\ UNCHANGED <<up, seen, published>>

(* send_text returns, and the loop asks for the next event.                  *)
(* Mutant: what arrived during the send is thrown away as stale.             *)
SendAndSkip(c) ==
  /\ task[c] = "send" /\ c \in up
  /\ task' = [task EXCEPT ![c] = "get"] /\ hand' = [hand EXCEPT ![c] = 0]
  /\ seen' = [seen EXCEPT ![c] = hand[c]] /\ queue' = [queue EXCEPT ![c] = <<>>]
  /\ UNCHANGED <<up, published>>
Send(c) ==
  /\ task[c] = "send" /\ c \in up
  /\ task' = [task EXCEPT ![c] = "get"] /\ hand' = [hand EXCEPT ![c] = 0]
  /\ seen' = [seen EXCEPT ![c] = hand[c]]
  /\ UNCHANGED <<up, queue, published>>

(* send_text raises WebSocketDisconnect, and stream() returns.               *)
(* Mutant: the exception is swallowed and the loop goes on.                  *)
SendAgain(c) ==
  /\ task[c] = "send" /\ c \notin up
  /\ task' = [task EXCEPT ![c] = "get"] /\ hand' = [hand EXCEPT ![c] = 0]
  /\ UNCHANGED <<up, queue, seen, published>>
SendRaises(c) ==
  /\ task[c] = "send" /\ c \notin up
  /\ task' = [task EXCEPT ![c] = "left"] /\ hand' = [hand EXCEPT ![c] = 0]
  /\ UNCHANGED <<up, queue, seen, published>>

(* asyncio closes the abandoned generator: "finally: _queues.discard(q)". *)
Finalise(c) ==
  /\ task[c] = "left"
  /\ task' = [task EXCEPT ![c] = "none"] /\ queue' = [queue EXCEPT ![c] = <<>>]
  /\ seen' = [seen EXCEPT ![c] = 0]
  /\ UNCHANGED <<up, hand, published>>

(* The connection is lost; the handler notices only when it next sends. *)
Disconnect(c) ==
  /\ c \in up /\ up' = up \ {c}
  /\ UNCHANGED <<task, queue, hand, seen, published>>

(* Handlers uvicorn waits for when it shuts down. *)
Handlers == {c \in Clients : task[c] \in {"get", "send"}}
=============================================================================
