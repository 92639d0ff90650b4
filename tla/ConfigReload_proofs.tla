------------------------- MODULE ConfigReload_proofs -------------------------
(***************************************************************************)
(* What ConfigReload keeps, for any set of pattern lists and any number of  *)
(* edits, posts and restarts: one inductive invariant and what it implies.  *)
(***************************************************************************)
EXTENDS ConfigReload, TLAPS

(* A usable file has a list that somebody set out to write, or none because  *)
(* it was left half written; and so for what an editor is writing.           *)
FileWritten ==
  /\ Usable(file) => file.pattern \in held \/ (file.pattern = Default /\ (edits > 0 \/ torn))
  /\ Compiles(editing.pattern) => editing.pattern \in held

(* A watcher runs exactly while the process is up. *)
WatcherIsUp == watcher # "off" <=> phase = "up"

(* Until the first look at the file, what was loaded is what is in force. *)
LoadedIsInForce == phase = "starting" /\ ~gap => hide = file.pattern

(* No editor is at work before the first edit. *)
EditsCounted == editing # NoFile => edits # 0

IInv == /\ TypeOK /\ FileWritten /\ WatcherIsUp /\ LoadedIsInForce /\ EditsCounted
        /\ InForceWasWritten /\ ShownIsInForce /\ SettledIsInForce /\ PostsKeepFileUsable

-----------------------------------------------------------------------------
(* The contents a write may leave are contents of the model, with the list   *)
(* of what is being written or none.                                         *)
LEMMA HalfWrittenIsContents ==
  ASSUME NEW c \in Contents
  PROVE  \A part \in HalfWritten(c) : part \in Contents /\ part.pattern \in {Default, c.pattern}
  <1>1. c.kind \in Kinds /\ c.pattern \in Patterns \cup {Bad} /\ Default \in Patterns
    BY ConfigAssumption DEF Contents, Toml
  <1>2. HalfKinds(c.kind) \subseteq Kinds
    BY <1>1 DEF HalfKinds, Kinds
  <1> QED
    BY <1>1, <1>2 DEF HalfWritten, Contents, Toml

LEMMA UpdatedIsContents ==
  ASSUME file \in Contents, NEW p \in Patterns \cup {Bad}
  PROVE  \A c \in Updated(p) : c \in Contents /\ c.pattern = p
  BY DEF Updated, Contents, Toml, Kinds

(* A usable file that the settings page updates stays usable. *)
LEMMA UpdatedStaysUsable ==
  ASSUME file \in Contents, Usable(file), NEW p \in Patterns
  PROVE  \A c \in Updated(p) : Usable(c)
  BY DEF Updated, Contents, Usable, Loads, Compiles, Toml

LEMMA InitIInv == Init => IInv
  <1> SUFFICES ASSUME Init PROVE IInv
    OBVIOUS
  <1>1. file \in Contents /\ Usable(file) /\ env \in BOOLEAN
    BY DEF Init
  <1>2. file.pattern \in Patterns
    BY <1>1 DEF Usable, Compiles
  <1>3. TypeOK
    BY <1>1, <1>2 DEF Init, TypeOK
  <1>n. ~Compiles(NoFile.pattern)
    BY ConfigAssumption DEF NoFile, Toml, Compiles
  <1>4. FileWritten /\ WatcherIsUp /\ LoadedIsInForce /\ EditsCounted
    BY <1>n DEF Init, FileWritten, WatcherIsUp, LoadedIsInForce, EditsCounted
  <1>5. InForceWasWritten /\ ShownIsInForce /\ SettledIsInForce /\ PostsKeepFileUsable
    BY <1>1 DEF Init, InForceWasWritten, ShownIsInForce, SettledIsInForce,
                PostsKeepFileUsable
  <1> QED
    BY <1>3, <1>4, <1>5 DEF IInv

-----------------------------------------------------------------------------
(* A step that leaves the file, the process and what was written alone. *)
LEMMA StutterStep == IInv /\ UNCHANGED vars => IInv'
  BY DEF IInv, vars, process, count, TypeOK, FileWritten, WatcherIsUp, LoadedIsInForce,
         EditsCounted, InForceWasWritten, ShownIsInForce, SettledIsInForce,
         PostsKeepFileUsable, Usable, Loads, Compiles

(* The life of the process. *)
LEMMA StartStep == IInv /\ Start => IInv'
  <1> SUFFICES ASSUME IInv, Start PROVE IInv'
    OBVIOUS
  <1> USE DEF IInv, Start, count
  <1>1. file.pattern \in Patterns
    BY DEF Usable, Compiles
  <1>2. TypeOK'
    BY <1>1 DEF TypeOK
  <1>3. FileWritten' /\ InForceWasWritten'
    BY DEF FileWritten, InForceWasWritten, Usable, Loads, Compiles
  <1>4. WatcherIsUp' /\ LoadedIsInForce' /\ EditsCounted' /\ ShownIsInForce'
    BY DEF WatcherIsUp, LoadedIsInForce, EditsCounted, ShownIsInForce
  <1>5. SettledIsInForce' /\ PostsKeepFileUsable'
    BY DEF SettledIsInForce, PostsKeepFileUsable, Usable, Loads, Compiles
  <1> QED
    BY <1>2, <1>3, <1>4, <1>5

LEMMA StartWatchingStep == IInv /\ StartWatching => IInv'
  <1> SUFFICES ASSUME IInv, StartWatching PROVE IInv'
    OBVIOUS
  <1> USE DEF IInv, StartWatching, count
  <1>1. TypeOK'
    BY DEF TypeOK
  <1>2. FileWritten' /\ InForceWasWritten'
    BY DEF FileWritten, InForceWasWritten, Usable, Loads, Compiles
  <1>3. WatcherIsUp' /\ LoadedIsInForce' /\ EditsCounted' /\ ShownIsInForce'
    BY DEF WatcherIsUp, LoadedIsInForce, EditsCounted, ShownIsInForce
  <1>4. SettledIsInForce'
    BY DEF SettledIsInForce, LoadedIsInForce
  <1>5. PostsKeepFileUsable'
    BY DEF PostsKeepFileUsable, Usable, Loads, Compiles
  <1> QED
    BY <1>1, <1>2, <1>3, <1>4, <1>5

(* The watcher. *)
LEMMA DebounceStep == IInv /\ Debounce => IInv'
  <1> SUFFICES ASSUME IInv, Debounce PROVE IInv'
    OBVIOUS
  <1> USE DEF IInv, Debounce, count
  <1>1. TypeOK'
    <2>1. /\ UNCHANGED <<env, file, editing, fresh, phase, hide, shown, failures, stale, held,
                         edits, posts, ends, gap, missed, poisoned, torn>>
          /\ watcher' = "sleep" /\ changed' = FALSE
      OBVIOUS
    <2> QED
      BY <2>1, Zenon DEF TypeOK
  <1>2. FileWritten' /\ PostsKeepFileUsable'
    BY DEF FileWritten, PostsKeepFileUsable, Usable, Loads, Compiles
  <1>3. /\ WatcherIsUp' /\ LoadedIsInForce' /\ EditsCounted'
        /\ InForceWasWritten' /\ ShownIsInForce' /\ SettledIsInForce'
    BY DEF WatcherIsUp, LoadedIsInForce, EditsCounted, InForceWasWritten, ShownIsInForce,
           SettledIsInForce
  <1> QED
    BY <1>1, <1>2, <1>3

LEMMA PollStep == IInv /\ (Poll \/ SecondPasses) => IInv'
  <1> SUFFICES ASSUME IInv, Poll \/ SecondPasses PROVE IInv'
    OBVIOUS
  <1>1. /\ UNCHANGED <<env, file, editing, phase, watcher, hide, shown, failures, held,
                      edits, posts, ends, gap, missed, poisoned, torn>>
        /\ fresh' \in {fresh, FALSE} /\ stale' \in {stale, FALSE} /\ changed' \in {changed, TRUE}
        /\ ~changed' => changed' = changed /\ stale' = stale
    BY DEF Poll, SecondPasses, process, count, IInv, TypeOK
  <1>2. TypeOK'
    <2>1. fresh' \in BOOLEAN /\ stale' \in BOOLEAN /\ changed' \in BOOLEAN
      BY <1>1, Zenon DEF IInv, TypeOK
    <2>2. UNCHANGED <<env, file, editing, phase, watcher, hide, shown, failures, held,
                      edits, posts, ends, gap, missed, poisoned, torn>>
      BY <1>1
    <2>3. TypeOK
      BY DEF IInv
    <2> QED
      BY <2>1, <2>2, <2>3 DEF TypeOK
  <1>3. FileWritten' /\ PostsKeepFileUsable'
    BY <1>1 DEF IInv, FileWritten, PostsKeepFileUsable, Usable, Loads, Compiles
  <1>4. /\ WatcherIsUp' /\ LoadedIsInForce' /\ EditsCounted'
        /\ InForceWasWritten' /\ ShownIsInForce'
    BY <1>1 DEF IInv, WatcherIsUp, LoadedIsInForce, EditsCounted, InForceWasWritten,
                ShownIsInForce
  <1>5. SettledIsInForce'
    BY <1>1 DEF IInv, TypeOK, SettledIsInForce, Usable, Loads, Compiles
  <1> QED
    BY <1>2, <1>3, <1>4, <1>5 DEF IInv

(* A reload puts a usable file in force and leaves all as it was otherwise. *)
LEMMA ReloadEffect ==
  ASSUME Reload
  PROVE  /\ Usable(file) => hide' = file.pattern /\ shown' = file.pattern
         /\ ~Usable(file) => hide' = hide /\ shown' = shown
         /\ failures' \in {failures, failures + 1}
  BY DEF Reload, OnCfgChange, Usable

LEMMA ReloadStep == IInv /\ Reload => IInv'
  <1> SUFFICES ASSUME IInv, Reload PROVE IInv'
    OBVIOUS
  <1>1. /\ UNCHANGED <<env, file, editing, fresh, phase, stale, changed, held, edits, posts, ends,
                      gap, torn>>
        /\ watcher = "sleep" /\ watcher' \in {"dead", "watch"} /\ missed' = FALSE
        /\ poisoned' = (poisoned \/ Escapes(file))
    BY DEF Reload, count
  <1>2. phase = "up"
    BY <1>1 DEF IInv, WatcherIsUp
  <1>3. TypeOK'
    <2>1. Usable(file) => file.pattern \in Patterns
      BY DEF Usable, Compiles
    <2>2. hide' \in Patterns \cup {NoPattern} /\ shown' \in Patterns \cup {Bad, NoPattern}
      BY <2>1, ReloadEffect DEF IInv, TypeOK
    <2>3. failures' \in Nat
      BY ReloadEffect DEF IInv, TypeOK
    <2>4. poisoned' \in BOOLEAN
      BY <1>1 DEF IInv, TypeOK, Escapes
    <2> QED
      BY <1>1, <2>2, <2>3, <2>4 DEF IInv, TypeOK
  <1>4. FileWritten' /\ PostsKeepFileUsable'
    BY <1>1 DEF IInv, FileWritten, PostsKeepFileUsable, Usable, Loads, Compiles
  <1>5. WatcherIsUp' /\ LoadedIsInForce' /\ EditsCounted'
    BY <1>1, <1>2 DEF IInv, WatcherIsUp, LoadedIsInForce, EditsCounted
  <1>6. InForceWasWritten' /\ ShownIsInForce'
    BY <1>1, <1>2, ReloadEffect DEF IInv, FileWritten, InForceWasWritten, ShownIsInForce
  <1>7. SettledIsInForce'
    BY <1>1, ReloadEffect DEF SettledIsInForce, Usable, Loads, Compiles
  <1> QED
    BY <1>3, <1>4, <1>5, <1>6, <1>7 DEF IInv

-----------------------------------------------------------------------------
(* The writers of the file. *)
LEMMA IntendedKeeps ==
  ASSUME IInv, NEW p
  PROVE  /\ Intended(p) \subseteq Patterns /\ held \subseteq Intended(p)
         /\ Compiles(p) => p \in Intended(p)
  BY DEF IInv, TypeOK, Intended, Compiles

(* A write is noticed by a poll to come, or counts as missed. *)
LEMMA WriteKeeps ==
  ASSUME IInv, NEW c \in Contents, Write(c), UNCHANGED <<env, process, changed>>
  PROVE  /\ file' = c /\ file' \in Contents /\ changed' \in BOOLEAN
         /\ fresh' \in BOOLEAN /\ stale' \in BOOLEAN /\ missed' \in BOOLEAN /\ gap' \in BOOLEAN
         /\ LoadedIsInForce' /\ SettledIsInForce'
  <1> USE DEF Write, process
  <1>1. /\ file' = c /\ file' \in Contents /\ changed' \in BOOLEAN
        /\ fresh' \in BOOLEAN /\ stale' \in BOOLEAN /\ missed' \in BOOLEAN /\ gap' \in BOOLEAN
    BY DEF IInv, TypeOK
  <1>2. LoadedIsInForce'
    BY DEF LoadedIsInForce
  <1>3. SettledIsInForce'
    <2>1. watcher' = "watch" => stale' \/ missed'
      BY DEF IInv, TypeOK, WatcherIsUp
    <2> QED
      BY <2>1 DEF SettledIsInForce
  <1> QED
    BY <1>1, <1>2, <1>3

(* What no writer of the file touches. *)
LEMMA WriterKeeps ==
  ASSUME IInv, UNCHANGED <<env, process>>, held \subseteq held', edits' \in {edits, edits + 1},
         torn => torn'
  PROVE  WatcherIsUp' /\ ShownIsInForce' /\ InForceWasWritten'
  <1>1. edits > 0 => edits' > 0
    BY DEF IInv, TypeOK
  <1> QED
    BY <1>1 DEF IInv, WatcherIsUp, ShownIsInForce, InForceWasWritten, process

LEMMA UpdatePrivacyStep ==
  ASSUME IInv, NEW p \in Patterns \cup {Bad}, UpdatePrivacy(p)
  PROVE  IInv'
  <1>1. UNCHANGED <<env, editing, process, changed, edits, ends, poisoned, torn>> /\ posts' = posts + 1
    BY DEF UpdatePrivacy
  <1>2. CASE Accepted(p) /\ held' = Intended(p) /\ \E c \in Updated(p) : Write(c)
    <2>1. PICK c \in Updated(p) : Write(c)
      BY <1>2
    <2>2. c \in Contents /\ c.pattern = p /\ p \in Patterns
      BY <1>2, <2>1, UpdatedIsContents DEF IInv, TypeOK, Accepted, Compiles
    <2>3. /\ file' = c /\ file' \in Contents /\ changed' \in BOOLEAN
          /\ fresh' \in BOOLEAN /\ stale' \in BOOLEAN /\ missed' \in BOOLEAN /\ gap' \in BOOLEAN
          /\ LoadedIsInForce' /\ SettledIsInForce'
      BY <1>1, <2>1, <2>2, WriteKeeps
    <2>4. held' \subseteq Patterns /\ held \subseteq held' /\ p \in held'
      BY <1>2, <2>2, IntendedKeeps DEF Compiles
    <2>5. TypeOK'
      BY <1>1, <2>3, <2>4 DEF IInv, TypeOK, process
    <2>6. WatcherIsUp' /\ InForceWasWritten' /\ ShownIsInForce'
      BY <1>1, <2>4, WriterKeeps
    <2>7. FileWritten' /\ EditsCounted'
      BY <1>1, <2>2, <2>3, <2>4 DEF IInv, FileWritten, EditsCounted, Compiles
    <2>8. PostsKeepFileUsable'
      <3>1. edits = 0 /\ ~torn => Usable(c)
        BY <2>1, <2>2, UpdatedStaysUsable DEF IInv, TypeOK, PostsKeepFileUsable
      <3> QED
        BY <1>1, <2>3, <3>1 DEF PostsKeepFileUsable, Usable, Loads, Compiles
    <2> QED
      BY <2>3, <2>5, <2>6, <2>7, <2>8 DEF IInv
  <1>3. CASE UNCHANGED <<file, fresh, stale, missed, gap, held>>
    <2>1. TypeOK'
      BY <1>1, <1>3 DEF IInv, TypeOK, process
    <2>2. FileWritten' /\ PostsKeepFileUsable' /\ SettledIsInForce'
      BY <1>1, <1>3 DEF IInv, FileWritten, PostsKeepFileUsable, SettledIsInForce, Usable, Loads,
                        Compiles, process
    <2>3. LoadedIsInForce' /\ EditsCounted'
      BY <1>1, <1>3 DEF IInv, LoadedIsInForce, EditsCounted, process
    <2>4. WatcherIsUp' /\ InForceWasWritten' /\ ShownIsInForce'
      BY <1>1, <1>3, WriterKeeps
    <2> QED
      BY <2>1, <2>2, <2>3, <2>4 DEF IInv
  <1> QED
    BY <1>2, <1>3 DEF UpdatePrivacy

LEMMA UpdateFailsStep ==
  ASSUME IInv, NEW p \in Patterns \cup {Bad}, UpdateFails(p)
  PROVE  IInv'
  <1>1. /\ UNCHANGED <<env, editing, process, changed, edits, ends, poisoned>>
        /\ posts' = posts + 1 /\ torn' = TRUE /\ held' = Intended(p)
    BY DEF UpdateFails
  <1>c. PICK c \in Updated(p) : \E part \in HalfWritten(c) : Write(part)
    BY DEF UpdateFails
  <1>2. PICK part \in HalfWritten(c) : Write(part)
    BY <1>c
  <1>3. part \in Contents /\ part.pattern \in {Default, p}
    BY <1>2, UpdatedIsContents, HalfWrittenIsContents DEF IInv, TypeOK
  <1>4. /\ file' = part /\ file' \in Contents /\ changed' \in BOOLEAN
        /\ fresh' \in BOOLEAN /\ stale' \in BOOLEAN /\ missed' \in BOOLEAN /\ gap' \in BOOLEAN
        /\ LoadedIsInForce' /\ SettledIsInForce'
    BY <1>1, <1>2, <1>3, WriteKeeps
  <1>5. held' \subseteq Patterns /\ held \subseteq held' /\ (Compiles(p) => p \in held')
    BY <1>1, IntendedKeeps
  <1>6. TypeOK'
    BY <1>1, <1>4, <1>5 DEF IInv, TypeOK, process
  <1>7. WatcherIsUp' /\ InForceWasWritten' /\ ShownIsInForce'
    BY <1>1, <1>5, WriterKeeps
  <1>8. FileWritten' /\ EditsCounted' /\ PostsKeepFileUsable'
    BY <1>1, <1>3, <1>4, <1>5 DEF IInv, FileWritten, EditsCounted, PostsKeepFileUsable, Usable,
                                  Compiles
  <1> QED
    BY <1>4, <1>6, <1>7, <1>8 DEF IInv

(* The process ends: what is left is the file. *)
LEMMA GoneKeeps ==
  ASSUME IInv, Gone, file' \in Contents, fresh' \in BOOLEAN, held' \subseteq Patterns,
         torn' \in BOOLEAN
  PROVE  /\ TypeOK' /\ WatcherIsUp' /\ LoadedIsInForce' /\ EditsCounted'
         /\ InForceWasWritten' /\ ShownIsInForce' /\ SettledIsInForce'
  <1> USE DEF Gone
  <1>1. ends' \in Nat
    BY DEF IInv, TypeOK
  <1>2. TypeOK'
    BY <1>1, Zenon DEF IInv, TypeOK
  <1>3. /\ WatcherIsUp' /\ LoadedIsInForce' /\ InForceWasWritten' /\ ShownIsInForce'
        /\ SettledIsInForce'
    BY DEF WatcherIsUp, LoadedIsInForce, InForceWasWritten, ShownIsInForce, SettledIsInForce
  <1>4. EditsCounted'
    BY DEF IInv, EditsCounted
  <1> QED
    BY <1>2, <1>3, <1>4

LEMMA KilledInUpdateStep ==
  ASSUME IInv, NEW p \in Patterns \cup {Bad}, KilledInUpdate(p)
  PROVE  IInv'
  <1>1. /\ Gone /\ held' = Intended(p) /\ torn' = TRUE /\ fresh' = TRUE
        /\ UNCHANGED <<env, editing, edits>>
    BY DEF KilledInUpdate, Gone
  <1>2. PICK c \in Updated(p) : file' \in HalfWritten(c)
    BY DEF KilledInUpdate
  <1>3. file' \in Contents /\ file'.pattern \in {Default, p}
    BY <1>2, UpdatedIsContents, HalfWrittenIsContents DEF IInv, TypeOK
  <1>4. held' \subseteq Patterns /\ held \subseteq held' /\ (Compiles(p) => p \in held')
    BY <1>1, IntendedKeeps
  <1>5. /\ TypeOK' /\ WatcherIsUp' /\ LoadedIsInForce' /\ EditsCounted'
        /\ InForceWasWritten' /\ ShownIsInForce' /\ SettledIsInForce'
    BY <1>1, <1>3, <1>4, GoneKeeps
  <1>6. FileWritten' /\ PostsKeepFileUsable'
    BY <1>1, <1>3, <1>4 DEF IInv, FileWritten, PostsKeepFileUsable, Usable, Compiles
  <1> QED
    BY <1>5, <1>6 DEF IInv

LEMMA EndsStep == IInv /\ Ends => IInv'
  <1> SUFFICES ASSUME IInv, Ends PROVE IInv'
    OBVIOUS
  <1>1. Gone /\ UNCHANGED <<env, editing, file, fresh, held, torn, edits>>
    BY DEF Ends, Gone
  <1>2. /\ TypeOK' /\ WatcherIsUp' /\ LoadedIsInForce' /\ EditsCounted'
        /\ InForceWasWritten' /\ ShownIsInForce' /\ SettledIsInForce'
    BY <1>1, GoneKeeps DEF IInv, TypeOK
  <1>3. FileWritten' /\ PostsKeepFileUsable'
    BY <1>1 DEF IInv, FileWritten, PostsKeepFileUsable, Usable, Loads, Compiles
  <1> QED
    BY <1>2, <1>3 DEF IInv

LEMMA EditBeginsStep ==
  ASSUME IInv, NEW c \in Contents, EditBegins(c)
  PROVE  IInv'
  <1>1. /\ UNCHANGED <<env, process, changed, posts, ends, poisoned, torn>>
        /\ editing' = c /\ edits' = edits + 1 /\ held' = Intended(c.pattern)
    BY DEF EditBegins
  <1>2. PICK part \in HalfWritten(c) : Write(part)
    BY DEF EditBegins
  <1>3. part \in Contents /\ part.pattern \in {Default, c.pattern}
    BY <1>2, HalfWrittenIsContents
  <1>4. /\ file' = part /\ file' \in Contents /\ changed' \in BOOLEAN
        /\ fresh' \in BOOLEAN /\ stale' \in BOOLEAN /\ missed' \in BOOLEAN /\ gap' \in BOOLEAN
        /\ LoadedIsInForce' /\ SettledIsInForce'
    BY <1>1, <1>2, <1>3, WriteKeeps
  <1>5. /\ held' \subseteq Patterns /\ held \subseteq held'
        /\ Compiles(c.pattern) => c.pattern \in held'
    BY <1>1, IntendedKeeps
  <1>6. TypeOK' /\ edits' > 0 /\ edits' # 0
    BY <1>1, <1>4, <1>5 DEF IInv, TypeOK, process
  <1>7. WatcherIsUp' /\ InForceWasWritten' /\ ShownIsInForce'
    BY <1>1, <1>5, WriterKeeps
  <1>8. FileWritten' /\ EditsCounted' /\ PostsKeepFileUsable'
    BY <1>1, <1>3, <1>4, <1>5, <1>6 DEF FileWritten, EditsCounted, PostsKeepFileUsable, Usable,
                                        Compiles
  <1> QED
    BY <1>4, <1>6, <1>7, <1>8 DEF IInv

LEMMA EditEndsStep == IInv /\ EditEnds => IInv'
  <1> SUFFICES ASSUME IInv, EditEnds PROVE IInv'
    OBVIOUS
  <1>1. /\ UNCHANGED <<env, process, changed, held, edits, posts, ends, poisoned, torn>>
        /\ editing # NoFile /\ editing' = NoFile /\ Write(editing) /\ editing \in Contents
    BY DEF EditEnds, count, IInv, TypeOK
  <1>2. /\ file' = editing /\ file' \in Contents /\ changed' \in BOOLEAN
        /\ fresh' \in BOOLEAN /\ stale' \in BOOLEAN /\ missed' \in BOOLEAN /\ gap' \in BOOLEAN
        /\ LoadedIsInForce' /\ SettledIsInForce'
    BY <1>1, WriteKeeps
  <1>3. TypeOK'
    BY <1>1, <1>2 DEF IInv, TypeOK, process
  <1>4. WatcherIsUp' /\ InForceWasWritten' /\ ShownIsInForce'
    BY <1>1, WriterKeeps
  <1>5. ~Compiles(NoFile.pattern)
    BY ConfigAssumption DEF NoFile, Toml, Compiles
  <1>6. FileWritten'
    BY <1>1, <1>2, <1>5 DEF IInv, FileWritten, Usable, Loads, Compiles
  <1>7. EditsCounted' /\ PostsKeepFileUsable'
    BY <1>1 DEF IInv, EditsCounted, PostsKeepFileUsable
  <1> QED
    BY <1>2, <1>3, <1>4, <1>6, <1>7 DEF IInv

LEMMA NextIInv == IInv /\ [Next]_vars => IInv'
  <1> SUFFICES ASSUME IInv, [Next]_vars PROVE IInv'
    OBVIOUS
  <1>1. CASE UNCHANGED vars
    BY <1>1, StutterStep
  <1>2. CASE Start \/ StartWatching \/ Ends
    BY <1>2, StartStep, StartWatchingStep, EndsStep
  <1>3. CASE StartFails \/ Idle
    BY <1>3, StutterStep DEF StartFails, Idle
  <1>4. CASE Watcher \/ Poll \/ SecondPasses
    BY <1>4, DebounceStep, ReloadStep, PollStep DEF Watcher
  <1>5. CASE \E p \in Patterns \cup {Bad} : UpdatePrivacy(p) \/ UpdateFails(p) \/ KilledInUpdate(p)
    BY <1>5, UpdatePrivacyStep, UpdateFailsStep, KilledInUpdateStep
  <1>6. CASE \E c \in Contents : EditBegins(c)
    BY <1>6, EditBeginsStep
  <1>7. CASE EditEnds
    BY <1>7, EditEndsStep
  <1> QED
    BY <1>1, <1>2, <1>3, <1>4, <1>5, <1>6, <1>7 DEF Next

LEMMA Inductive == Spec => []IInv
  BY InitIInv, NextIInv, PTL DEF Spec

-----------------------------------------------------------------------------
(* Every variable keeps its type: the pipeline is only ever given pattern     *)
(* lists that compile (on_cfg_change).                                       *)
THEOREM TypeCorrect == Spec => []TypeOK
  <1>1. IInv => TypeOK
    BY DEF IInv
  <1> QED
    BY <1>1, Inductive, PTL

(* What is hidden is a list that somebody set out to write, or nothing       *)
(* because a file was read half written (load_config, ConfigWatcher.run).     *)
THEOREM InForceWasWrittenCorrect == Spec => []InForceWasWritten
  <1>1. IInv => InForceWasWritten
    BY DEF IInv
  <1> QED
    BY <1>1, Inductive, PTL

(* The settings page shows what is enforced (on_cfg_change). *)
THEOREM ShownIsInForceCorrect == Spec => []ShownIsInForce
  <1>1. IInv => ShownIsInForce
    BY DEF IInv
  <1> QED
    BY <1>1, Inductive, PTL

(* When the watcher rests and polling has nothing to tell, a usable file is   *)
(* in force, changes before the first poll and within a second already        *)
(* polled excepted (ConfigWatcher.run).                                       *)
THEOREM SettledIsInForceCorrect == Spec => []SettledIsInForce
  <1>1. IInv => SettledIsInForce
    BY DEF IInv
  <1> QED
    BY <1>1, Inductive, PTL

(* A settings page whose writes are done, neither killed nor failed half way, *)
(* leaves a file the next start accepts (update_privacy).                     *)
THEOREM PostsKeepFileUsableCorrect == Spec => []PostsKeepFileUsable
  <1>1. IInv => PostsKeepFileUsable
    BY DEF IInv
  <1> QED
    BY <1>1, Inductive, PTL
=============================================================================
