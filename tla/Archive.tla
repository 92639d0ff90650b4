------------------------------- MODULE Archive -------------------------------
(***************************************************************************)
(* ai_ha.archive.JsonlWriter with compress=True (the default): one gzip file *)
(* for each UTC day, opened in append mode, so that every opening adds one   *)
(* gzip member to the file.  What is written stays in the buffers of the     *)
(* handle until they spill or the handle is closed, and a member whose       *)
(* handle was never closed is cut off: a reader stops at its end.            *)
(* Nothing here awaits while it holds the writer's lock, so each operation   *)
(* is one step.  Listener composes these actions with their callers.         *)
(***************************************************************************)
EXTENDS Naturals, Sequences

CONSTANT MaxDay     \* bound of the model: the clock does not pass this day

ASSUME ArchiveAssumption == MaxDay \in Nat \ {0}

Days == 1..MaxDay

VARIABLES
  handle,  \* _handle and _current_day; begun: part of its member is on disk;
           \* hurt: its compressed stream has lost bytes
  buf,     \* lines written to the handle that are not on disk and can still get there
  files    \* what is on disk: for each day the members, each a set of lines

archive == <<handle, buf, files>>

NewHandle(d) == [day |-> d, open |-> TRUE, begun |-> FALSE, hurt |-> FALSE]
Shut(d) == [day |-> d, open |-> FALSE, begun |-> FALSE, hurt |-> FALSE]
NoHandle == Shut(0)     \* both are None

ArchiveInit == handle = NoHandle /\ buf = {} /\ files = [d \in Days |-> <<>>]

WholeMember(lines) == [lines |-> lines, whole |-> TRUE]
CutMember(lines) == [lines |-> lines, whole |-> FALSE]
OnDisk(d) == IF handle.begun THEN files[d][Len(files[d])].lines ELSE {}

(* The members of the file of the open handle, its last one being member m. *)
WithLast(m) ==
  LET d == handle.day IN
  [files EXCEPT ![d] = IF handle.begun THEN [@ EXCEPT ![Len(@)] = m] ELSE Append(@, m)]

(* Lines leave the buffers in the order in which they were written. *)
FirstLines(lines) == {{x \in lines : x <= n} : n \in lines \cup {0}}

(* The buffers fill up and part of them is written. *)
Spill ==
  /\ handle.open
  /\ \E S \in FirstLines(buf) :
       files' = WithLast(CutMember(OnDisk(handle.day) \cup S)) /\ buf' = buf \ S
  /\ handle' = [handle EXCEPT !.begun = TRUE]

(* handle.close() that returns: the buffers and the trailer are written, but  *)
(* no reader gets past bytes that are missing; closing a closed handle does   *)
(* nothing.                                                                   *)
Closed ==
  LET lines == OnDisk(handle.day) \cup buf IN
  IF handle.open THEN WithLast(IF handle.hurt THEN CutMember(lines) ELSE WholeMember(lines))
  ELSE files

(* _ensure_day: the handle of another day is closed and the file of day d     *)
(* opened; Kept are the buffers of the handle it leaves, Rolled the files.    *)
HandleFor(d) == IF handle.day = d THEN handle ELSE NewHandle(d)
Kept(d) == IF handle.day = d THEN buf ELSE {}
Rolled(d) == IF handle.day = d THEN files ELSE Closed

(* append().  What follows lost bytes cannot be decompressed. *)
AppendLine(e, d) ==
  /\ handle' = HandleFor(d)
  /\ buf' = IF HandleFor(d).hurt THEN Kept(d) ELSE Kept(d) \cup {e}
  /\ files' = Rolled(d)

(* append() raises in one of four ways.  First, the close of the old handle   *)
(* cannot write (the disk is full): the handle is closed, stays in _handle    *)
(* under its own day, and what no Spill has written before is lost.           *)
CloseFails(d) ==
  /\ handle.day # d /\ handle.open
  /\ handle' = Shut(handle.day) /\ buf' = {} /\ UNCHANGED files

(* Second, gzip.open raises: the old handle, now closed, stays under its day. *)
(* Mutant: _current_day is set before the file is opened.                     *)
OpenFailsOnNewDay(d) ==
  handle.day # d /\ handle' = Shut(d) /\ buf' = {} /\ files' = Closed
OpenFails(d) ==
  handle.day # d /\ handle' = Shut(handle.day) /\ buf' = {} /\ files' = Closed

(* Third, the line cannot be encoded: the handle is ready and gets nothing.   *)
WriteFails(d) == handle' = HandleFor(d) /\ buf' = Kept(d) /\ files' = Rolled(d)

(* Fourth, write() has to make room and the disk takes nothing more: the      *)
(* stream loses bytes, with every line from there on.                         *)
FlushFails(d) ==
  /\ handle' = [HandleFor(d) EXCEPT !.hurt = TRUE]
  /\ buf' \in FirstLines(Kept(d)) /\ files' = Rolled(d)

(* close().  Mutant: the handle is forgotten, not closed. *)
CloseForgets == handle' = NoHandle /\ buf' = {} /\ UNCHANGED files
CloseArchive == handle' = NoHandle /\ buf' = {} /\ files' = Closed

(* The process is gone and nobody closed the handle, or its close raised.    *)
(* Mutant: the next process starts from an empty file ("wt" for "at").       *)
AbandonAndTruncate ==
  /\ handle' = NoHandle /\ buf' = {}
  /\ files' = IF handle.open THEN [files EXCEPT ![handle.day] = <<>>] ELSE files
Abandon == handle' = NoHandle /\ buf' = {} /\ UNCHANGED files

(* What a reader gets from the file of day d: every member up to the first   *)
(* one that is cut off.                                                      *)
Readable(d) ==
  UNION {files[d][i].lines : i \in {j \in 1..Len(files[d]) :
                                      \A k \in 1..(j - 1) : files[d][k].whole}}

CutOff(d) == \E i \in 1..Len(files[d]) : ~files[d][i].whole
=============================================================================
