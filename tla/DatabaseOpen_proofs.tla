------------------------- MODULE DatabaseOpen_proofs -------------------------
(***************************************************************************)
(* Theorems about DatabaseOpen, for every list of migrations.               *)
(***************************************************************************)
EXTENDS DatabaseOpen, TLAPS

(* What open() knows at each place: the files before the one at hand are    *)
(* recorded, and the statements of its script so far have taken effect.     *)
EarlierRecorded ==
  pc \in {"file", "script", "stamp", "opened"} => \A g \in DOMAIN Files : g < file => Recorded(g)
ScriptSoFar ==
  pc \in {"script", "stamp"} =>
    /\ file \in DOMAIN Files
    /\ \A k \in DOMAIN Files[file].creates : k < stmt => Object(file, k) \in objects
ScriptDone == pc = "stamp" => Creates(file) \subseteq objects
Starting == pc \in {"integrity", "kvmeta"} => file = 1
AllDone == pc = "opened" => file = Last + 1

OpenInv == /\ TypeOK /\ EarlierRecorded /\ ScriptSoFar /\ ScriptDone /\ Starting /\ AllDone
           /\ VersionIsTruthful

-----------------------------------------------------------------------------
LEMMA FilesType ==
  /\ Last \in Nat /\ DOMAIN Files = 1..Last
  /\ \A f \in DOMAIN Files :
       /\ Files[f].version \in Nat /\ Files[f].version > 0
       /\ Files[f].creates \in Seq(Objects)
       /\ DOMAIN Files[f].creates = 1..Len(Files[f].creates) /\ Len(Files[f].creates) \in Nat
       /\ \A k \in DOMAIN Files[f].creates : Object(f, k) \in Objects
  /\ \A f, g \in DOMAIN Files : f < g => Files[f].version < Files[g].version
<1>1. Files \in Seq([version : Nat \ {0}, creates : Seq(Objects)])
  BY FilesAssumption
<1>2. Last \in Nat /\ DOMAIN Files = 1..Last
  BY <1>1 DEF Last
<1>3. ASSUME NEW f \in DOMAIN Files
      PROVE  /\ Files[f].version \in Nat /\ Files[f].version > 0
             /\ Files[f].creates \in Seq(Objects)
  <2> DEFINE R == [version : Nat \ {0}, creates : Seq(Objects)]
  <2>1. Files \in Seq(R)
    BY <1>1
  <2>2. Files[f] \in R
    <3> HIDE DEF R
    <3>. QED BY <2>1
  <2>. QED BY <2>2
<1>4. ASSUME NEW f \in DOMAIN Files
      PROVE  /\ DOMAIN Files[f].creates = 1..Len(Files[f].creates)
             /\ Len(Files[f].creates) \in Nat
             /\ \A k \in DOMAIN Files[f].creates : Object(f, k) \in Objects
  BY <1>3 DEF Object
<1>5. \A f, g \in DOMAIN Files : f < g => Files[f].version < Files[g].version
  BY FilesAssumption
<1>. QED BY <1>2, <1>3, <1>4, <1>5

LEMMA BoundsType == KvMeta \in Objects /\ MaxFaults \in Nat /\ MaxKills \in Nat
BY FilesAssumption

LEMMA VersionType == TypeOK => version \in Nat
BY FilesType DEF TypeOK

LEMMA InitInv == Init => OpenInv
<1> SUFFICES ASSUME Init PROVE OpenInv
  OBVIOUS
<1>1. TypeOK
  <2>1. Last \in Nat
    BY FilesType
  <2>2. file \in 1..(Last + 1) /\ stmt \in Nat \ {0}
    BY <2>1 DEF Init
  <2>3. faults \in 0..MaxFaults /\ kills \in 0..MaxKills
    BY BoundsType DEF Init
  <2>4. pc \in Places /\ objects \subseteq Objects /\ corrupt \in BOOLEAN
    BY DEF Init, Places
  <2>5. version \in {0} \cup {Files[f].version : f \in DOMAIN Files}
    BY DEF Init
  <2>. QED BY <2>2, <2>3, <2>4, <2>5 DEF TypeOK
<1>2. VersionIsTruthful
  BY FilesType DEF Init, VersionIsTruthful, Recorded
<1>. QED BY <1>1, <1>2 DEF Init, OpenInv, EarlierRecorded, ScriptSoFar, ScriptDone, Starting,
                             AllDone

-----------------------------------------------------------------------------
(* A step that changes neither the objects nor the version. *)
LEMMA QuietStep ==
  ASSUME OpenInv, UNCHANGED <<objects, version>>
  PROVE  VersionIsTruthful'
BY DEF OpenInv, VersionIsTruthful, Recorded

LEMMA StepInv == OpenInv /\ [Next]_vars => OpenInv'
<1> SUFFICES ASSUME OpenInv, [Next]_vars PROVE OpenInv'
  OBVIOUS
<1> USE DEF Goto, Rest
<1>t. TypeOK /\ version \in Nat /\ Last \in Nat
  BY VersionType, FilesType DEF OpenInv
<1> DEFINE Local == EarlierRecorded /\ ScriptSoFar /\ ScriptDone /\ Starting /\ AllDone
<1>q. ASSUME TypeOK', UNCHANGED <<objects, version>>, Local' PROVE OpenInv'
  BY <1>q, QuietStep DEF OpenInv
<1>1. CASE VerifyIntegrity
  <2>1. TypeOK'
    BY <1>1, <1>t DEF VerifyIntegrity, TypeOK, Places
  <2>2. Local'
    BY <1>1 DEF VerifyIntegrity, OpenInv, EarlierRecorded, ScriptSoFar, ScriptDone, Starting, AllDone
  <2>. QED BY <1>1, <1>q, <2>1, <2>2 DEF VerifyIntegrity
<1>2. CASE EnsureKvMeta
  <2>1. TypeOK'
    BY <1>2, <1>t, BoundsType DEF EnsureKvMeta, TypeOK, Places
  <2>2. file' = 1 /\ pc' = "file"
    BY <1>2 DEF EnsureKvMeta, OpenInv, Starting
  <2>3. Local'
    BY <2>2, FilesType DEF EarlierRecorded, ScriptSoFar, ScriptDone, Starting, AllDone
  <2>4. VersionIsTruthful'
    BY <1>2 DEF EnsureKvMeta, OpenInv, VersionIsTruthful, Recorded
  <2>. QED BY <2>1, <2>3, <2>4 DEF OpenInv
<1>3. CASE SkipFile
  <2>1. TypeOK'
    BY <1>3, <1>t DEF SkipFile, TypeOK
  <2>2. \A g \in DOMAIN Files : g < file' => Recorded(g)'
    <3>1. ASSUME NEW g \in DOMAIN Files, g < file' PROVE Recorded(g)'
      <4>1. g < file \/ g = file
        BY <1>3, <1>t, <3>1, FilesType DEF SkipFile, TypeOK
      <4>2. g < file => Recorded(g)
        BY <1>3 DEF SkipFile, OpenInv, EarlierRecorded
      <4>3. g = file => Recorded(g)
        BY <1>3 DEF SkipFile, Applied, Recorded
      <4>. QED BY <1>3, <4>1, <4>2, <4>3 DEF SkipFile, Recorded
    <3>. QED BY <3>1
  <2>3. Local'
    BY <1>3, <2>2 DEF SkipFile, OpenInv, EarlierRecorded, ScriptSoFar, ScriptDone, Starting, AllDone
  <2>. QED BY <1>3, <1>q, <2>1, <2>3 DEF SkipFile
<1>4. CASE BeginFile
  <2>1. TypeOK'
    BY <1>4, <1>t DEF BeginFile, TypeOK, Places
  <2>2. file \in DOMAIN Files
    BY <1>4, <1>t, FilesType DEF BeginFile, TypeOK
  <2>3. ScriptSoFar'
    BY <1>4, <2>2, FilesType DEF BeginFile, ScriptSoFar
  <2>4. Local'
    BY <1>4, <2>3 DEF BeginFile, OpenInv, EarlierRecorded, ScriptDone, Starting, AllDone, Recorded
  <2>. QED BY <1>4, <1>q, <2>1, <2>4 DEF BeginFile
<1>5. CASE Finish
  <2>1. TypeOK'
    BY <1>5, <1>t DEF Finish, TypeOK, Places
  <2>2. file = Last + 1
    BY <1>5, <1>t DEF Finish, NoFileLeft, TypeOK
  <2>3. Local'
    BY <1>5, <2>2 DEF Finish, OpenInv, EarlierRecorded, ScriptSoFar, ScriptDone, Starting, AllDone, Recorded, Last
  <2>. QED BY <1>5, <1>q, <2>1, <2>3 DEF Finish
<1>6. CASE RunStatement
  <2>1. file \in DOMAIN Files /\ stmt \in Nat /\ stmt > 0
    BY <1>6, <1>t DEF RunStatement, OpenInv, ScriptSoFar, TypeOK
  <2>2. stmt \in DOMAIN Files[file].creates /\ Object(file, stmt) \in Objects
    BY <1>6, <2>1, FilesType DEF RunStatement
  <2>3. TypeOK'
    BY <1>6, <1>t, <2>1, <2>2 DEF RunStatement, TypeOK
  <2>4. ScriptSoFar'
    <3>1. \A k \in DOMAIN Files[file].creates : k < stmt + 1 => Object(file, k) \in objects'
      <4>1. ASSUME NEW k \in DOMAIN Files[file].creates, k < stmt + 1
            PROVE  Object(file, k) \in objects'
        <5>1. k < stmt \/ k = stmt
          BY <2>1, <4>1, FilesType
        <5>. QED BY <1>6, <5>1 DEF RunStatement, OpenInv, ScriptSoFar
      <4>. QED BY <4>1
    <3>. QED BY <1>6, <2>1, <3>1 DEF RunStatement, ScriptSoFar, Object
  <2>5. Local'
    BY <1>6, <2>4 DEF RunStatement, OpenInv, EarlierRecorded, ScriptDone, Starting, AllDone, Recorded
  <2>6. VersionIsTruthful'
    BY <1>6 DEF RunStatement, OpenInv, VersionIsTruthful, Recorded
  <2>. QED BY <2>3, <2>5, <2>6 DEF OpenInv
<1>7. CASE EndScript
  <2>1. TypeOK'
    BY <1>7, <1>t DEF EndScript, TypeOK, Places
  <2>2. file \in DOMAIN Files /\ stmt > Len(Files[file].creates) /\ stmt \in Nat
    BY <1>7, <1>t DEF EndScript, ScriptRun, OpenInv, ScriptSoFar, TypeOK
  <2>3. \A k \in DOMAIN Files[file].creates : Object(file, k) \in objects
    BY <1>7, <2>2, FilesType DEF EndScript, OpenInv, ScriptSoFar
  <2>4. Creates(file) \subseteq objects
    BY <2>3 DEF Creates
  <2>5. ScriptDone'
    BY <1>7, <2>4 DEF EndScript, ScriptDone, Creates, Object
  <2>6. Local'
    BY <1>7, <2>5 DEF EndScript, OpenInv, EarlierRecorded, ScriptSoFar, Starting, AllDone, Recorded, Object
  <2>. QED BY <1>7, <1>q, <2>1, <2>6 DEF EndScript
<1>8. CASE SetSchemaVersion
  <2>1. /\ file \in DOMAIN Files /\ Creates(file) \subseteq objects
        /\ version' = Files[file].version /\ file' = file + 1 /\ pc' = "file"
        /\ objects' = objects /\ file \in Nat
    BY <1>8, <1>t, FilesType DEF SetSchemaVersion, VersionOf, OpenInv, ScriptSoFar, ScriptDone
  <2>2. TypeOK'
    BY <1>8, <1>t, <2>1, FilesType DEF SetSchemaVersion, TypeOK, Places
  <2>3. ASSUME NEW g \in DOMAIN Files PROVE Recorded(g)' <=> g < file'
    <3>1. g < file \/ g = file \/ file < g
      BY <2>1, FilesType
    <3>2. g < file => Files[g].version < Files[file].version
      BY <2>1, FilesType
    <3>3. file < g => Files[file].version < Files[g].version
      BY <2>1, FilesType
    <3>4. /\ Files[file].version \in Nat /\ Files[g].version \in Nat /\ g \in Nat
      BY <2>1, FilesType
    <3>. QED BY <2>1, <3>1, <3>2, <3>3, <3>4 DEF Recorded
  <2>4. Local'
    BY <2>1, <2>3 DEF EarlierRecorded, ScriptSoFar, ScriptDone, Starting, AllDone
  <2>5. VersionIsTruthful'
    <3>1. ASSUME NEW g \in DOMAIN Files, Recorded(g)' PROVE Creates(g) \subseteq objects
      <4>1. g < file \/ g = file
        BY <2>1, <2>3, <3>1, FilesType
      <4>2. g < file => Recorded(g)
        BY <1>8 DEF SetSchemaVersion, OpenInv, EarlierRecorded
      <4>. QED BY <2>1, <4>1, <4>2 DEF OpenInv, VersionIsTruthful
    <3>. QED BY <2>1, <3>1 DEF VersionIsTruthful, Creates, Object
  <2>. QED BY <2>2, <2>4, <2>5 DEF OpenInv
<1>9. CASE StatementRefused \/ Raises \/ Exit \/ Kill \/ ShutDown
  <2>1. TypeOK'
    <3>1. CASE StatementRefused \/ Exit \/ ShutDown
      BY <1>t, <3>1 DEF StatementRefused, Exit, ShutDown, TypeOK, Places
    <3>2. CASE Raises
      BY <1>t, <3>2, BoundsType DEF Raises, TypeOK, Places
    <3>3. CASE Kill
      <4>1. corrupt' \in BOOLEAN
        BY <1>t, <3>3, Zenon DEF Kill, TypeOK
      <4>2. kills' \in 0..MaxKills
        BY <1>t, <3>3, BoundsType DEF Kill, TypeOK
      <4>. QED BY <1>t, <3>3, <4>1, <4>2 DEF Kill, TypeOK, Places
    <3>. QED BY <1>9, <3>1, <3>2, <3>3
  <2>2. pc' \in {"failed", "down"} /\ UNCHANGED <<objects, version>>
    BY <1>9 DEF StatementRefused, Raises, Exit, Kill, ShutDown
  <2>3. Local'
    BY <2>2 DEF EarlierRecorded, ScriptSoFar, ScriptDone, Starting, AllDone
  <2>. QED BY <1>q, <2>1, <2>2, <2>3
<1>10. CASE DockerRestart
  <2>1. TypeOK'
    BY <1>10, <1>t DEF DockerRestart, TypeOK, Places
  <2>2. Local'
    BY <1>10 DEF DockerRestart, EarlierRecorded, ScriptSoFar, ScriptDone, Starting, AllDone
  <2>. QED BY <1>10, <1>q, <2>1, <2>2 DEF DockerRestart
<1>11. CASE UNCHANGED vars
  <2>1. TypeOK' /\ Local'
    BY <1>11 DEF vars, OpenInv, TypeOK, EarlierRecorded, ScriptSoFar, ScriptDone, Starting, AllDone, Recorded, Object, Creates
  <2>. QED BY <1>11, <1>q, <2>1 DEF vars
<1>. QED BY <1>1, <1>2, <1>3, <1>4, <1>5, <1>6, <1>7, <1>8, <1>9, <1>10, <1>11 DEF Next, Open

LEMMA AlwaysOpenInv == Spec => []OpenInv
BY InitInv, StepInv, PTL DEF Spec

(* Nothing is done to a file that _verify_integrity has not found sound.    *)
Checked == pc \in {"kvmeta", "file", "script", "stamp", "opened"} => corrupt = FALSE

LEMMA CheckedStep == TypeOK /\ Checked /\ [Next]_vars => Checked'
<1> SUFFICES ASSUME TypeOK, Checked, [Next]_vars PROVE Checked'
  OBVIOUS
<1> USE DEF Goto, Rest, Checked
<1>1. CASE VerifyIntegrity
  BY <1>1 DEF VerifyIntegrity, TypeOK
<1>2. CASE EnsureKvMeta \/ SkipFile \/ BeginFile \/ Finish \/ RunStatement \/ StatementRefused
  BY <1>2 DEF EnsureKvMeta, SkipFile, BeginFile, Finish, RunStatement, StatementRefused
<1>3. CASE EndScript \/ SetSchemaVersion \/ Exit \/ DockerRestart \/ Raises \/ Kill \/ ShutDown
  BY <1>3 DEF EndScript, SetSchemaVersion, Exit, DockerRestart, Raises, Kill, ShutDown
<1>4. CASE UNCHANGED vars
  BY <1>4 DEF vars
<1>. QED BY <1>1, <1>2, <1>3, <1>4 DEF Next, Open

LEMMA AlwaysChecked == Spec => []Checked
<1>1. Init => Checked
  BY DEF Init, Checked
<1>2. OpenInv => TypeOK
  BY DEF OpenInv
<1>. QED BY <1>1, <1>2, CheckedStep, AlwaysOpenInv, PTL DEF Spec

(* Every variable of Database.open keeps its type. *)
THEOREM TypeCorrect == Spec => []TypeOK
BY AlwaysOpenInv, PTL DEF OpenInv

(* The schema version _set_schema_version writes never runs ahead of the    *)
(* schema, for any list of migrations and wherever the process is killed.   *)
THEOREM VersionIsTruthfulCorrect == Spec => []VersionIsTruthful
BY AlwaysOpenInv, PTL DEF OpenInv

(* When Database.open returns, the file is sound, every migration is        *)
(* recorded and all that they create exists.                                *)
THEOREM OpenedIsMigratedCorrect == Spec => []OpenedIsMigrated
<1>1. OpenInv /\ Checked => OpenedIsMigrated
  <2> SUFFICES ASSUME OpenInv, Checked, pc = "opened", NEW f \in DOMAIN Files
               PROVE  Recorded(f) /\ Creates(f) \subseteq objects
    BY DEF OpenedIsMigrated, Checked
  <2>1. f < file
    BY FilesType DEF OpenInv, AllDone
  <2>2. Recorded(f)
    BY <2>1 DEF OpenInv, EarlierRecorded
  <2>. QED BY <2>2 DEF OpenInv, VersionIsTruthful
<1>. QED BY <1>1, AlwaysOpenInv, AlwaysChecked, PTL

-----------------------------------------------------------------------------
(* As long as nothing failed, the schema holds nothing but what the recorded *)
(* migrations and the statements of the running script created, and a script *)
(* runs only while its migration is not recorded.                            *)
RunOrRecorded(f, k) == Recorded(f) \/ (pc \in {"script", "stamp"} /\ f = file /\ k < stmt)
OnlyRun ==
  \A o \in objects \ {KvMeta} : \E f \in DOMAIN Files : \E k \in DOMAIN Files[f].creates :
    o = Object(f, k) /\ RunOrRecorded(f, k)
NotYetRecorded == pc \in {"script", "stamp"} => ~Recorded(file)
CleanInv ==
  /\ NotYetRecorded
  /\ faults = 0 /\ kills = 0 => corrupt = FALSE /\ pc # "failed" /\ OnlyRun

(* Objects are created by one statement each. *)
LEMMA ObjectsUnique ==
  ASSUME NEW f \in DOMAIN Files, NEW g \in DOMAIN Files,
         NEW k \in DOMAIN Files[f].creates, NEW l \in DOMAIN Files[g].creates,
         Object(f, k) = Object(g, l), Object(f, k) # KvMeta
  PROVE  f = g /\ k = l
BY FilesAssumption

(* A step that creates nothing and forgets nothing that was run. *)
LEMMA OnlyRunKept ==
  ASSUME OnlyRun, objects' \subseteq objects \cup {KvMeta},
         \A f \in DOMAIN Files : \A k \in DOMAIN Files[f].creates :
            RunOrRecorded(f, k) => RunOrRecorded(f, k)'
  PROVE  OnlyRun'
BY DEF OnlyRun, Object

LEMMA CleanStep == OpenInv /\ CleanInv /\ [Next]_vars => CleanInv'
<1> SUFFICES ASSUME OpenInv, CleanInv, [Next]_vars PROVE CleanInv'
  OBVIOUS
<1> USE DEF Goto, Rest
<1>t. /\ version \in Nat /\ Last \in Nat /\ faults \in Nat /\ kills \in Nat /\ stmt \in Nat
      /\ corrupt \in BOOLEAN
  BY VersionType, FilesType, BoundsType DEF OpenInv, TypeOK
<1>1. CASE VerifyIntegrity
  <2>1. pc = "integrity" /\ UNCHANGED <<objects, version, file, stmt, corrupt, faults, kills>>
        /\ pc' \in {"failed", "kvmeta"} /\ (corrupt = FALSE => pc' = "kvmeta")
    BY <1>1, <1>t DEF VerifyIntegrity
  <2>2. OnlyRun => OnlyRun'
    BY <2>1, OnlyRunKept DEF RunOrRecorded, Recorded
  <2>. QED BY <2>1, <2>2 DEF CleanInv, NotYetRecorded
<1>2. CASE EnsureKvMeta
  <2>1. pc = "kvmeta" /\ UNCHANGED <<version, file, stmt, corrupt, faults, kills>>
        /\ pc' = "file" /\ objects' = objects \cup {KvMeta}
    BY <1>2 DEF EnsureKvMeta
  <2>2. OnlyRun => OnlyRun'
    BY <2>1, OnlyRunKept DEF RunOrRecorded, Recorded
  <2>. QED BY <2>1, <2>2 DEF CleanInv, NotYetRecorded
<1>3. CASE SkipFile \/ Finish \/ ShutDown \/ DockerRestart
  <2>1. /\ UNCHANGED <<objects, version, corrupt, faults, kills>>
        /\ pc \in {"file", "opened", "down"} /\ pc' \in {"file", "opened", "down", "integrity"}
    BY <1>3 DEF SkipFile, Finish, ShutDown, DockerRestart
  <2>2. OnlyRun => OnlyRun'
    BY <2>1, OnlyRunKept DEF RunOrRecorded, Recorded
  <2>. QED BY <2>1, <2>2 DEF CleanInv, NotYetRecorded
<1>4. CASE BeginFile
  <2>1. /\ UNCHANGED <<objects, version, file, corrupt, faults, kills>>
        /\ pc = "file" /\ pc' = "script" /\ ~Recorded(file)
    BY <1>4 DEF BeginFile, Applied, Recorded
  <2>2. OnlyRun => OnlyRun'
    BY <2>1, OnlyRunKept DEF RunOrRecorded, Recorded
  <2>. QED BY <2>1, <2>2 DEF CleanInv, NotYetRecorded, Recorded
<1>5. CASE RunStatement
  <2>1. /\ UNCHANGED <<pc, file, version, corrupt, faults, kills>> /\ pc = "script"
        /\ objects' = objects \cup {Object(file, stmt)} /\ stmt' = stmt + 1
    BY <1>5 DEF RunStatement
  <2>2. file \in DOMAIN Files /\ stmt \in DOMAIN Files[file].creates
    BY <1>5, <1>t, FilesType DEF RunStatement, OpenInv, ScriptSoFar, TypeOK
  <2>3. \A f, k : f = file /\ k = stmt => RunOrRecorded(f, k)'
    BY <1>t, <2>1 DEF RunOrRecorded
  <2>4. ASSUME NEW f \in DOMAIN Files, NEW k \in DOMAIN Files[f].creates, RunOrRecorded(f, k)
        PROVE  RunOrRecorded(f, k)'
    <3>1. k \in Nat
      BY FilesType
    <3>. QED BY <1>t, <2>1, <2>4, <3>1 DEF RunOrRecorded, Recorded
  <2>5. OnlyRun => OnlyRun'
    <3> SUFFICES ASSUME OnlyRun, NEW o \in objects' \ {KvMeta}
                 PROVE  \E f \in DOMAIN Files : \E k \in DOMAIN Files[f].creates :
                          o = Object(f, k) /\ RunOrRecorded(f, k)'
      BY DEF OnlyRun, Object
    <3>1. CASE o = Object(file, stmt)
      BY <2>2, <2>3, <3>1
    <3>2. CASE o \in objects
      <4>1. PICK f \in DOMAIN Files : \E k \in DOMAIN Files[f].creates :
              o = Object(f, k) /\ RunOrRecorded(f, k)
        BY <3>2 DEF OnlyRun
      <4>. QED BY <2>4, <4>1
    <3>. QED BY <2>1, <3>1, <3>2
  <2>. QED BY <2>1, <2>5 DEF CleanInv, NotYetRecorded, Recorded
<1>6. CASE StatementRefused
  <2>1. /\ UNCHANGED <<faults, kills>> /\ pc = "script" /\ pc' = "failed"
        /\ stmt <= Len(Files[file].creates)
        /\ Object(file, stmt) # KvMeta /\ Object(file, stmt) \in objects
    BY <1>6 DEF StatementRefused, Exists
  <2>2. file \in DOMAIN Files /\ stmt \in DOMAIN Files[file].creates
    BY <1>t, <2>1, FilesType DEF OpenInv, ScriptSoFar, TypeOK
  <2>3. ~OnlyRun
    <3> SUFFICES ASSUME OnlyRun PROVE FALSE
      OBVIOUS
    <3>1. PICK f \in DOMAIN Files : \E k \in DOMAIN Files[f].creates :
            Object(file, stmt) = Object(f, k) /\ RunOrRecorded(f, k)
      BY <2>1 DEF OnlyRun
    <3>2. PICK k \in DOMAIN Files[f].creates :
            Object(file, stmt) = Object(f, k) /\ RunOrRecorded(f, k)
      BY <3>1
    <3>3. f = file /\ k = stmt
      BY <2>1, <2>2, <3>2, ObjectsUnique
    <3>. QED BY <1>t, <2>1, <3>2, <3>3 DEF RunOrRecorded, CleanInv, NotYetRecorded
  <2>. QED BY <2>1, <2>3 DEF CleanInv, NotYetRecorded
<1>7. CASE EndScript
  <2>1. /\ UNCHANGED <<objects, version, file, stmt, corrupt, faults, kills>>
        /\ pc = "script" /\ pc' = "stamp"
    BY <1>7 DEF EndScript
  <2>2. OnlyRun => OnlyRun'
    BY <2>1, OnlyRunKept DEF RunOrRecorded, Recorded
  <2>. QED BY <2>1, <2>2 DEF CleanInv, NotYetRecorded, Recorded
<1>8. CASE SetSchemaVersion
  <2>1. /\ UNCHANGED <<objects, corrupt, faults, kills>> /\ pc = "stamp" /\ pc' = "file"
        /\ version' = Files[file].version
    BY <1>8 DEF SetSchemaVersion, VersionOf
  <2>2. file \in DOMAIN Files /\ Files[file].version \in Nat /\ ~(version >= Files[file].version)
    BY <2>1, FilesType DEF OpenInv, ScriptSoFar, CleanInv, NotYetRecorded, Recorded
  <2>3. ASSUME NEW f \in DOMAIN Files, NEW k \in DOMAIN Files[f].creates, RunOrRecorded(f, k)
        PROVE  RunOrRecorded(f, k)'
    <3>1. Files[f].version \in Nat
      BY FilesType
    <3>. QED BY <1>t, <2>1, <2>2, <2>3, <3>1 DEF RunOrRecorded, Recorded
  <2>4. OnlyRun => OnlyRun'
    BY <2>1, <2>3, OnlyRunKept
  <2>. QED BY <2>1, <2>4 DEF CleanInv, NotYetRecorded
<1>9. CASE Raises \/ Kill
  <2>1. pc' \in {"failed", "down"} /\ (faults' = faults + 1 \/ kills' = kills + 1)
    BY <1>9 DEF Raises, Kill
  <2>2. ~(faults' = 0 /\ kills' = 0)
    BY <1>t, <2>1
  <2>. QED BY <2>1, <2>2 DEF CleanInv, NotYetRecorded
<1>10. CASE Exit
  BY <1>10 DEF Exit, CleanInv, NotYetRecorded
<1>11. CASE UNCHANGED vars
  BY <1>11 DEF vars, CleanInv, NotYetRecorded, OnlyRun, RunOrRecorded, Recorded, Object
<1>. QED BY <1>1, <1>2, <1>3, <1>4, <1>5, <1>6, <1>7, <1>8, <1>9, <1>10, <1>11 DEF Next, Open

(* However often a database is closed and opened again, Database.open fails  *)
(* only after a statement failed or a process was killed: no migration of    *)
(* any list is run twice, and nothing that exists is created again.          *)
THEOREM FailsOnlyAfterFaultCorrect == Spec => []FailsOnlyAfterFault
<1>1. Init => CleanInv
  BY DEF Init, CleanInv, NotYetRecorded, OnlyRun
<1>2. OpenInv /\ CleanInv => FailsOnlyAfterFault
  BY BoundsType DEF OpenInv, TypeOK, CleanInv, FailsOnlyAfterFault
<1>. QED BY <1>1, <1>2, CleanStep, AlwaysOpenInv, PTL DEF Spec

=============================================================================
