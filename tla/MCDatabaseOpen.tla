--------------------------- MODULE MCDatabaseOpen ---------------------------
(* Instances of DatabaseOpen for TLC. *)
EXTENDS DatabaseOpen

CONSTANTS t1, t2, t3, t4

(* kv_meta is created again by the first file; the numbers have a gap. *)
ThreeFiles == <<[version |-> 1, creates |-> <<KvMeta, t1, t2>>],
                [version |-> 2, creates |-> <<t3>>],
                [version |-> 4, creates |-> <<t4>>]>>
=============================================================================
