------------------------------ MODULE EventLog ------------------------------
(***************************************************************************)
(* What the ingest pipeline promises to whoever calls submit(): an accepted *)
(* event is pending until a commit stores it, a commit stores every pending *)
(* event at once, a stored event stays stored, and a pending event is only  *)
(* ever given up when the process that holds it in memory ends.             *)
(* IngestPipeline implements this specification.                            *)
(***************************************************************************)
EXTENDS Naturals

CONSTANT Ids        \* the identities of the events Home Assistant pushes

VARIABLES pending,  \* accepted, not yet in the events table
          stored,   \* in the events table
          ended     \* number of processes that have ended so far

Init == pending = {} /\ stored = {} /\ ended = 0

Accept == \E id \in Ids \ (pending \cup stored) :
            /\ pending' = pending \cup {id}
            /\ UNCHANGED <<stored, ended>>

Commit == /\ pending # {}
          /\ stored' = stored \cup pending
          /\ pending' = {}
          /\ UNCHANGED ended

ProcessEnds == /\ pending' = {}
               /\ ended' = ended + 1
               /\ UNCHANGED stored

Next == Accept \/ Commit \/ ProcessEnds

Spec == Init /\ [][Next]_<<pending, stored, ended>>
=============================================================================
