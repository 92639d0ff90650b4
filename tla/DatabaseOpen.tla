---------------------------- MODULE DatabaseOpen ----------------------------
(***************************************************************************)
(* ai_ha.store.db.Database.open under main._run: pragmas, integrity check,  *)
(* kv_meta, and the numbered migrations, by a process that may be killed    *)
(* after any statement and that docker starts again when it exits.          *)
(*                                                                          *)
(* sqlite3.executescript() commits what is pending and then runs the script *)
(* in autocommit mode: every statement of a migration is durable by itself. *)
(* The schema version is written afterwards, in a transaction of its own.   *)
(***************************************************************************)
EXTENDS Naturals, Sequences, FiniteSets

CONSTANTS Objects,   \* the tables and indexes
          KvMeta,    \* the table kv_meta, created with IF NOT EXISTS
          Files,     \* the migrations in the order of their names
          MaxFaults, MaxKills  \* bounds of the model

Object(f, k) == Files[f].creates[k]
Creates(f) == {Object(f, k) : k \in DOMAIN Files[f].creates}
Last == Len(Files)

(* The names sort by number and no two files share one; no two create the    *)
(* same object.                                                              *)
ASSUME FilesAssumption ==
  /\ KvMeta \in Objects
  /\ Files \in Seq([version : Nat \ {0}, creates : Seq(Objects)])
  /\ \A f, g \in DOMAIN Files : f < g => Files[f].version < Files[g].version
  /\ \A f, g \in DOMAIN Files : \A k \in DOMAIN Files[f].creates, l \in DOMAIN Files[g].creates :
       Object(f, k) = Object(g, l) => (f = g /\ k = l) \/ Object(f, k) = KvMeta
  /\ MaxFaults \in Nat /\ MaxKills \in Nat

VARIABLES
  pc,       \* where open() is; "down": no process, "failed": about to exit with 70
  file,     \* the migration at hand
  stmt,     \* the next statement of it
  objects,  \* sqlite_master
  version,  \* kv_meta.schema_version, 0 when there is none
  corrupt,  \* integrity_check does not answer "ok"
  faults, kills

vars == <<pc, file, stmt, objects, version, corrupt, faults, kills>>

Places == {"integrity", "kvmeta", "file", "script", "stamp", "opened", "failed", "down"}

Init == /\ pc = "integrity" /\ file = 1 /\ stmt = 1
        /\ objects = {} /\ version = 0 /\ corrupt = FALSE
        /\ faults = 0 /\ kills = 0

Goto(from, to) == pc = from /\ pc' = to
Rest == UNCHANGED <<corrupt, faults, kills>>

-----------------------------------------------------------------------------
(* _init_pragmas and _verify_integrity, then _ensure_kv_meta_table. *)
VerifyIntegrity ==
  /\ Goto("integrity", IF corrupt THEN "failed" ELSE "kvmeta")
  /\ UNCHANGED <<file, stmt, objects, version>> /\ Rest

EnsureKvMeta ==
  /\ Goto("kvmeta", "file")
  /\ objects' = objects \cup {KvMeta}
  /\ UNCHANGED <<file, stmt, version>> /\ Rest

(* The loop of _apply_migrations. *)
(* Mutant: the file of the current version counts as not yet applied. *)
AppliedBefore(f) == version > Files[f].version
Applied(f) == version >= Files[f].version

SkipFile ==
  /\ pc = "file" /\ file <= Last /\ Applied(file)
  /\ file' = file + 1
  /\ UNCHANGED <<pc, stmt, objects, version>> /\ Rest

BeginFile ==
  /\ file <= Last /\ ~Applied(file)
  /\ Goto("file", "script") /\ stmt' = 1
  /\ UNCHANGED <<file, objects, version>> /\ Rest

(* Mutant: the last file is left out. *)
OneFileLeft == file >= Last
NoFileLeft == file > Last

Finish ==
  /\ NoFileLeft /\ Goto("file", "opened")
  /\ UNCHANGED <<file, stmt, objects, version>> /\ Rest

(* executescript: CREATE fails on an object that exists. *)
Exists(o) == o # KvMeta /\ o \in objects

RunStatement ==
  /\ pc = "script" /\ stmt <= Len(Files[file].creates) /\ ~Exists(Object(file, stmt))
  /\ objects' = objects \cup {Object(file, stmt)}
  /\ stmt' = stmt + 1
  /\ UNCHANGED <<pc, file, version>> /\ Rest

StatementRefused ==
  /\ Goto("script", "failed")
  /\ stmt <= Len(Files[file].creates) /\ Exists(Object(file, stmt))
  /\ UNCHANGED <<file, stmt, objects, version>> /\ Rest

(* Mutant: the version is taken to be written with the script's first half. *)
ScriptHalfRun == stmt > 1
ScriptRun == stmt > Len(Files[file].creates)

(* _set_schema_version and commit: one transaction. *)
VersionOf(f) == Files[f].version

EndScript ==
  /\ Goto("script", "stamp") /\ ScriptRun
  /\ UNCHANGED <<file, stmt, objects, version>> /\ Rest

SetSchemaVersion ==
  /\ Goto("stamp", "file")
  /\ version' = VersionOf(file) /\ file' = file + 1
  /\ UNCHANGED <<stmt, objects>> /\ Rest

(* Any statement may raise (disk full, locked): rollback() undoes what has not *)
(* been committed, which is nothing of the script; open() raises, exit code 70. *)
Raises ==
  /\ pc \in {"integrity", "kvmeta", "file", "script", "stamp"} /\ faults < MaxFaults
  /\ faults' = faults + 1 /\ pc' = "failed"
  /\ UNCHANGED <<file, stmt, objects, version, corrupt, kills>>

-----------------------------------------------------------------------------
(* The process and docker.  Killing the process may leave the file corrupted. *)
Kill ==
  /\ pc # "down" /\ kills < MaxKills
  /\ kills' = kills + 1 /\ pc' = "down"
  /\ corrupt' \in {corrupt, TRUE}
  /\ UNCHANGED <<file, stmt, objects, version, faults>>

Exit ==
  /\ Goto("failed", "down")
  /\ UNCHANGED <<file, stmt, objects, version>> /\ Rest

DockerRestart ==
  /\ Goto("down", "integrity")
  /\ file' = 1 /\ stmt' = 1
  /\ UNCHANGED <<objects, version>> /\ Rest

(* SIGTERM; the container is started again some day. *)
ShutDown ==
  /\ Goto("opened", "down")
  /\ UNCHANGED <<file, stmt, objects, version>> /\ Rest

Open == \/ VerifyIntegrity \/ EnsureKvMeta \/ SkipFile \/ BeginFile \/ Finish
        \/ RunStatement \/ StatementRefused \/ EndScript \/ SetSchemaVersion
        \/ Exit \/ DockerRestart

Next == Open \/ Raises \/ Kill \/ ShutDown

Spec == Init /\ [][Next]_vars

-----------------------------------------------------------------------------
(* Every variable keeps its type. *)
TypeOK ==
  /\ pc \in Places /\ file \in 1..(Last + 1) /\ stmt \in Nat \ {0}
  /\ objects \subseteq Objects /\ version \in {0} \cup {Files[f].version : f \in DOMAIN Files}
  /\ corrupt \in BOOLEAN /\ faults \in 0..MaxFaults /\ kills \in 0..MaxKills

Recorded(f) == version >= Files[f].version

(* The recorded version never runs ahead of the schema, whatever statement   *)
(* the process was killed at: every object of a file that is recorded as     *)
(* applied exists.                                                           *)
VersionIsTruthful ==
  \A f \in DOMAIN Files : Recorded(f) => Creates(f) \subseteq objects

(* When open() returns, the file was found sound, the whole schema is there  *)
(* and the version says so, after any number of killed and failed attempts.  *)
OpenedIsMigrated ==
  pc = "opened" => ~corrupt /\ \A f \in DOMAIN Files : Recorded(f) /\ Creates(f) \subseteq objects

(* Opening again is idempotent: it fails only if something failed or was     *)
(* killed before; in particular no migration is run twice.                   *)
FailsOnlyAfterFault == pc = "failed" => faults > 0 \/ kills > 0
=============================================================================
