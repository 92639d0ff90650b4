------------------------------ MODULE Listener ------------------------------
(***************************************************************************)
(* The life of the process in main._run: the ws task hands every event to   *)
(* the pipeline, the archive and the broadcaster (on_ws_event), and SIGTERM  *)
(* takes all of them down in a fixed order (the finally of _run).  It        *)
(* composes Archive and Broadcaster with what EventLog promises of the       *)
(* pipeline.  HAWSClient appears as its loop: it sees the stop at the top,   *)
(* except when a message and stop() come in the same turn.                   *)
(***************************************************************************)
EXTENDS Archive, Broadcaster, FiniteSets, SequencesExt

CONSTANTS MaxEvents, MaxFaults, MaxRestarts   \* bounds of the model

ASSUME ListenerAssumption ==
  MaxEvents \in Nat /\ MaxFaults \in Nat /\ MaxRestarts \in Nat

VARIABLES
  main,       \* where _run is; "down" when there is no process
  outcome,    \* how the last process ended
  ws,         \* the ws task: waiting for a message, in submit(), committing there, ended
  cur,        \* the event on_ws_event has in hand: its day, and whether it is to be hidden
  received,   \* number of events received
  today,      \* the day of the last event
  pending, stored, lives,  \* the variables of EventLog
  flushDead,  \* the flush task has ended with an exception
  taken,      \* history: the events this process received
  raised,     \* history: the events whose handling raised, which the ws loop logs
  spoilt,     \* history: the days whose file was cut off when this process started,
              \* or that lost bytes in one of its own writes
  faults

Log == INSTANCE EventLog WITH Ids <- 1..MaxEvents, ended <- lives

log == <<pending, stored, lives>>
history == <<taken, raised, spoilt>>
vars == <<archive, stream, main, outcome, ws, cur, received, today, log, flushDead,
          history, faults>>

NoEvent == [id |-> 0, day |-> 0, hide |-> FALSE]
Alive == {"serving", "draining", "stopping", "waiting"}
Stopped == main \in {"stopping", "waiting"}      \* ws_client.stop() was called
Over == IF Stopped THEN "ended" ELSE "idle"      \* "while not self._stop.is_set()"
Fault == faults < MaxFaults /\ faults' = faults + 1

Init ==
  /\ ArchiveInit /\ StreamInit /\ Log!Init
  /\ main = "serving" /\ outcome = "none" /\ ws = "idle" /\ cur = NoEvent
  /\ received = 0 /\ today = 1 /\ flushDead = FALSE
  /\ taken = {} /\ raised = {} /\ spoilt = {} /\ faults = 0

-----------------------------------------------------------------------------
(* on_ws_event: the event gets its time, and submit() is awaited. *)
Receive ==
  /\ main \in Alive /\ ws = "idle" /\ received < MaxEvents
  /\ received' = received + 1
  /\ \E d \in today..MaxDay, h \in BOOLEAN :
       cur' = [id |-> received + 1, day |-> d, hide |-> h] /\ today' = d
  /\ ws' = "submit" /\ taken' = taken \cup {cur'}
  /\ UNCHANGED <<archive, stream, main, outcome, log, flushDead, raised, spoilt, faults>>

(* submit() of a visible event that fills the batch goes on to commit. *)
BatchFull ==
  /\ ws = "submit" /\ ~cur.hide /\ ws' = "commit"
  /\ pending' = pending \cup {cur.id}
  /\ UNCHANGED <<archive, stream, main, outcome, cur, received, today, stored, lives,
                 flushDead, history, faults>>

(* submit() returns: a hidden event was counted, a visible one is buffered,  *)
(* or the batch it filled is committed.                                      *)
SubmitReturns ==
  \/ ws = "submit" /\ cur.hide /\ UNCHANGED log
  \/ /\ ws = "submit" /\ ~cur.hide
     /\ pending' = pending \cup {cur.id} /\ UNCHANGED <<stored, lives>>
  \/ ws = "commit" /\ Log!Commit

(* Without another await: the archive and the broadcaster. *)
HandleEvent ==
  /\ SubmitReturns /\ AppendLine(cur.id, cur.day) /\ Publish(cur.id)
  /\ ws' = Over /\ cur' = NoEvent
  /\ UNCHANGED <<main, outcome, received, today, flushDead, history, faults>>

(* The archive raises, and the event is not published.  The ws loop logs it. *)
ArchiveRaises ==
  /\ SubmitReturns /\ Fault
  /\ \/ (OpenFails(cur.day) \/ WriteFails(cur.day)) /\ UNCHANGED spoilt
     \/ CloseFails(cur.day) /\ spoilt' = spoilt \cup {handle.day}
     \/ FlushFails(cur.day) /\ spoilt' = spoilt \cup {cur.day}
  /\ raised' = raised \cup {cur.id} /\ ws' = Over /\ cur' = NoEvent
  /\ UNCHANGED <<stream, main, outcome, received, today, flushDead, taken>>

(* submit() raises: the drop could not be counted, or the commit failed and  *)
(* the buffer keeps its events.                                              *)
SubmitRaises ==
  /\ ws = "commit" \/ (ws = "submit" /\ cur.hide)
  /\ Fault /\ raised' = raised \cup {cur.id} /\ ws' = Over /\ cur' = NoEvent
  /\ UNCHANGED <<archive, stream, main, outcome, received, today, log, flushDead,
                 taken, spoilt>>

SeeStop ==
  /\ Stopped /\ ws = "idle" /\ ws' = "ended"
  /\ UNCHANGED <<archive, stream, main, outcome, cur, received, today, log, flushDead,
                 history, faults>>

-----------------------------------------------------------------------------
(* The flush task; whoever commits in submit() holds the lock. *)
Flush ==
  /\ main \in {"serving", "draining"} /\ ~flushDead /\ ws # "commit" /\ Log!Commit
  /\ UNCHANGED <<archive, stream, main, outcome, ws, cur, received, today, flushDead,
                 history, faults>>

FlushRaises ==
  /\ main \in {"serving", "draining"} /\ ~flushDead /\ ws # "commit" /\ pending # {}
  /\ Fault /\ flushDead' = TRUE
  /\ UNCHANGED <<archive, stream, main, outcome, ws, cur, received, today, log, history>>

-----------------------------------------------------------------------------
(* SIGTERM: uvicorn closes every connection and accepts none, and serve()    *)
(* returns when no handler is left.                                          *)
Sigterm ==
  /\ main = "serving" /\ main' = "draining" /\ up' = {}
  /\ UNCHANGED <<archive, task, queue, hand, seen, published, outcome, ws, cur, received, today, log, flushDead, history, faults>>

ServeReturns ==
  /\ main = "draining" /\ Handlers = {} /\ main' = "stopping"
  /\ UNCHANGED <<archive, stream, outcome, ws, cur, received, today, log, flushDead,
                 history, faults>>

(* pipeline.stop() drains the buffer and the archive is closed. *)
StopDrains ==
  /\ main = "stopping" /\ ws # "commit" /\ ~flushDead
  /\ Log!Commit \/ (pending = {} /\ UNCHANGED log)
StopReturns ==
  /\ StopDrains /\ CloseArchive /\ main' = "waiting"
  /\ UNCHANGED <<stream, outcome, ws, cur, received, today, flushDead, history, faults>>

(* The close cannot write: the rest of the finally is skipped, and           *)
(* asyncio.run cancels the ws task.                                          *)
CloseRaises ==
  /\ StopDrains /\ handle.open /\ Fault /\ Abandon /\ main' = "leaving"
  /\ ws' = "ended" /\ cur' = NoEvent
  /\ UNCHANGED <<stream, outcome, received, today, flushDead, history>>

(* The process ends; asyncio.run cancels what is left, and whether the       *)
(* interpreter still closes an open file on its way out is not defined.      *)
Exit(how) ==
  /\ main' = "down" /\ outcome' = how
  /\ Log!ProcessEnds /\ StreamGone
  /\ CloseArchive \/ Abandon
  /\ ws' = "ended" /\ cur' = NoEvent
  /\ UNCHANGED <<received, today, flushDead, history>>

(* pipeline.stop() raises what ended the flush task, or its own commit       *)
(* fails: the rest of the finally is skipped.                                *)
StopRaises ==
  /\ main = "stopping" /\ ws # "commit"
  /\ \/ flushDead /\ UNCHANGED faults
     \/ ~flushDead /\ pending # {} /\ Fault
  /\ Exit("raised")

Leave == main = "leaving" /\ Exit("raised") /\ UNCHANGED faults

(* gather() returns with the ws task, or its 15 s pass and cancel it.        *)
(* Mutant: gather() without a timeout.                                       *)
GatherAll == main = "waiting" /\ ws = "ended" /\ Exit("ok") /\ UNCHANGED faults
GatherEnds == main = "waiting" /\ Exit("ok") /\ UNCHANGED faults

(* SIGKILL at any time, or from docker when SIGTERM has not worked in 10 s:   *)
(* a handler that waits for an event keeps serve() from returning.           *)
Kill ==
  /\ main \in Alive /\ (lives < MaxRestarts \/ main # "serving")
  /\ main' = "down" /\ outcome' = "killed" /\ ws' = "ended" /\ cur' = NoEvent
  /\ Log!ProcessEnds /\ StreamGone /\ Abandon
  /\ UNCHANGED <<received, today, flushDead, history, faults>>

Restart ==
  /\ main = "down" /\ lives <= MaxRestarts
  /\ main' = "serving" /\ outcome' = "none" /\ ws' = "idle" /\ flushDead' = FALSE
  /\ taken' = {} /\ raised' = {} /\ spoilt' = {d \in Days : CutOff(d)}
  /\ UNCHANGED <<archive, stream, cur, received, today, log, faults>>

Down == main = "down" /\ lives > MaxRestarts /\ UNCHANGED vars

-----------------------------------------------------------------------------
SpillArchive ==
  /\ Spill
  /\ UNCHANGED <<stream, main, outcome, ws, cur, received, today, log, flushDead,
                 history, faults>>

others == <<archive, main, outcome, ws, cur, received, today, log, flushDead, history,
            faults>>
Handler(c) == (Take(c) \/ Send(c) \/ SendRaises(c) \/ Finalise(c)) /\ UNCHANGED others
Browser(c) == ((main = "serving" /\ Connect(c)) \/ Disconnect(c)) /\ UNCHANGED others

WsTask == BatchFull \/ HandleEvent \/ ArchiveRaises \/ SubmitRaises \/ SeeStop
Main == ServeReturns \/ StopReturns \/ CloseRaises \/ Leave \/ StopRaises \/ GatherEnds

Next ==
  \/ Receive \/ WsTask \/ Flush \/ FlushRaises
  \/ Sigterm \/ Main \/ Kill \/ Restart \/ Down
  \/ SpillArchive
  \/ \E c \in Clients : Handler(c) \/ Browser(c)

Spec == Init /\ [][Next]_vars

(* asyncio runs every ready task, a commit ends (SQLite answers or raises),  *)
(* and clients that stay connected read what they are sent.  The rest of the *)
(* ws task may hang: on_ws_event also fetches registries, without a timeout. *)
Fairness ==
  /\ WF_vars(Main) /\ WF_vars(ws = "commit" /\ WsTask)
  /\ \A c \in Clients : WF_vars(Handler(c))

FairSpec == Spec /\ Fairness

-----------------------------------------------------------------------------
(* When the process ends as SIGTERM asks, every visible event it received is *)
(* in the database but at most one, whatever calls failed before: the one    *)
(* on_ws_event had in hand when the finally of _run drained the buffer.  And *)
(* the archive, hidden events included, lacks no other one, except what was  *)
(* logged as failed and the days whose file is spoilt: one that an earlier   *)
(* process left cut off, or that lost bytes when a write or a close failed.  *)
Unstored == {t.id : t \in {x \in taken : ~x.hide /\ x.id \notin stored}}
Unarchived ==
  {t.id : t \in {x \in taken : /\ x.day \notin spoilt /\ x.id \notin raised
                               /\ x.id \notin Readable(x.day)}}
AtMostOneLost == outcome = "ok" => Cardinality(Unstored \cup Unarchived) <= 1

(* append() never meets a closed file under the day it writes for: a failed  *)
(* rollover is repeated by the next event (JsonlWriter._ensure_day).         *)
FailedOpenHeals == handle.day # 0 /\ ~handle.open => handle.day < today

(* What a reader can get from the archive he can always get: no restart,     *)
(* kill or reopening of a file takes a line away.                            *)
ReadableStays == [][\A d \in Days : Readable(d) \subseteq Readable(d)']_vars

(* The queue of a client never exceeds its size, whatever the client does,   *)
(* and holds the newest events, none missing between them: what publish()    *)
(* discards is the oldest.                                                   *)
QueueIsNewest ==
  \A c \in Clients : Len(queue[c]) <= QueueSize /\ IsSuffix(queue[c], published)

(* When events pause (MaxEvents), a client that stays connected has been     *)
(* sent the last one: no wake-up of its handler is lost (stream).            *)
CatchesUp ==
  \A c \in Clients :
    c \in up /\ queue[c] # <<>> ~> c \notin up \/ IsSuffix(<<seen[c]>>, published)

(* The queue of a client that is gone is given up once there is something    *)
(* to send to it: _queues does not grow with every page reload.              *)
GoneIsForgotten ==
  \A c \in Clients : c \notin up /\ queue[c] # <<>> ~> task[c] = "none"

(* When no handler is left after SIGTERM, the process ends, whatever the ws  *)
(* task, the flush task and the archive are doing (finally of _run).         *)
ShutdownEnds == main = "draining" /\ Handlers = {} ~> main = "down"

(* Refuted: the design says of an event the hide pattern matches that it     *)
(* leaves no trace in the archive.  on_ws_event archives it all the same.    *)
HiddenLeavesNoTrace == \A t \in taken : t.hide => t.id \notin Readable(t.day)
=============================================================================
