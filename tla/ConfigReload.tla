---------------------------- MODULE ConfigReload ----------------------------
(***************************************************************************)
(* config.toml and who reads and writes it: main._run at the start, the     *)
(* ConfigWatcher after a change that polling has noticed, the settings page, *)
(* and any editor outside the process.  A file is truncated before it is    *)
(* written and may be read or left in between.  What is followed is the hide *)
(* pattern list: in the file, in the pipeline and on the settings page.     *)
(***************************************************************************)
EXTENDS Naturals

CONSTANTS Patterns,             \* pattern lists that HideMatcher compiles
          Default,              \* the one of a file that names none: the empty list
          Bad, NoPattern,       \* one that it refuses; "no value"
          MaxEdits, MaxPosts, MaxEnds   \* bounds of the model

ASSUME ConfigAssumption ==
  /\ Default \in Patterns /\ Bad \notin Patterns /\ NoPattern \notin Patterns \cup {Bad}
  /\ MaxEdits \in Nat /\ MaxPosts \in Nat /\ MaxEnds \in Nat

VARIABLES
  env,       \* HA_URL and HA_TOKEN are set in the environment
  file,      \* the contents of config.toml
  editing,   \* what an editor is writing to the file
  fresh,     \* the file's mtime is the current second
  phase,     \* "down", "starting" (configuration loaded, no watcher yet), "up"
  watcher,   \* ConfigWatcher.run: awaiting a change, in its debounce sleep, dead, off
  stale,     \* the file's mtime, in whole seconds, is not the one last polled
  changed,   \* awatch has a change to report
  hide,      \* pipeline._hide
  shown,     \* state.hide_pattern
  failures,  \* health: config_reload_fail
  held,      \* history: the pattern lists that somebody set out to write
  edits, posts, ends,
  gap,       \* history: the file changed between its first load and the first poll
  missed,    \* history: it has changed within a second already polled, and was not read since
  poisoned,  \* history: the watcher has met a file that ends it
  torn       \* history: a write of the settings page was cut short

process == <<phase, watcher, hide, shown, failures>>
count == <<edits, posts, ends>>
vars == <<env, file, editing, fresh, process, stale, changed, held, count, gap, missed,
          poisoned, torn>>

(* What load_config and HideMatcher tell apart: a file with everything, one   *)
(* with no or half an [ha] (which the environment may supply), one that       *)
(* AppConfig refuses, one whose "ha" is not a table, one that is not TOML (or *)
(* cannot be read), one that is not UTF-8; and the list in its [privacy].     *)
Toml(kind, p) == [kind |-> kind, pattern |-> p]
Kinds == {"full", "bare", "invalid", "odd", "broken", "binary"}
Contents == {Toml(k, p) : k \in Kinds, p \in Patterns \cup {Bad}}
NoFile == Toml("none", NoPattern)
Parses(c) == c.kind \notin {"broken", "binary"}   \* tomllib.loads(c) does not raise

(* What is in the file while c is being written to it: nothing, or a part     *)
(* that ends after a line, in a line or in a character.  A part that ends     *)
(* after a line is TOML, may have all of [ha], and has the list or has none.  *)
HalfKinds(k) ==
  IF k \in {"broken", "binary"} THEN Kinds
  ELSE {"bare", "broken", "binary", k} \cup (IF k = "invalid" THEN {"full"} ELSE {})
HalfWritten(c) == {Toml(k, p) : k \in HalfKinds(c.kind), p \in {Default, c.pattern}}

Compiles(p) == p \in Patterns                      \* HideMatcher(p) does not raise
Loads(c) == c.kind = "full" \/ (c.kind = "bare" /\ env)  \* nor load_config(c)
Usable(c) == Loads(c) /\ Compiles(c.pattern)

(* load_config(c) raises something else than ConfigError: UnicodeDecodeError, *)
(* or TypeError where _apply_env_overrides puts HA_URL into "ha".             *)
Escapes(c) == c.kind = "binary" \/ (c.kind = "odd" /\ env)

Init ==
  /\ env \in BOOLEAN /\ file \in {c \in Contents : Usable(c)}
  /\ editing = NoFile /\ fresh = FALSE /\ phase = "down" /\ watcher = "off"
  /\ stale = FALSE /\ changed = FALSE
  /\ hide = NoPattern /\ shown = NoPattern /\ failures = 0
  /\ held = {file.pattern} /\ edits = 0 /\ posts = 0 /\ ends = 0
  /\ gap = FALSE /\ missed = FALSE /\ poisoned = FALSE /\ torn = FALSE

-----------------------------------------------------------------------------
(* Steps 1 and 2 of _run: anything wrong ends the process with code 78, or    *)
(* with a traceback.                                                          *)
Start ==
  /\ phase = "down" /\ Usable(file) /\ phase' = "starting"
  /\ hide' = file.pattern /\ shown' = file.pattern /\ failures' = 0
  /\ gap' = FALSE /\ missed' = FALSE /\ poisoned' = FALSE
  /\ UNCHANGED <<env, file, editing, fresh, watcher, stale, changed, held, count, torn>>

StartFails == phase = "down" /\ ~Usable(file) /\ UNCHANGED vars

(* The watcher task takes its first look at the file. *)
StartWatching ==
  /\ phase = "starting" /\ phase' = "up" /\ watcher' = "watch"
  /\ UNCHANGED <<env, file, editing, fresh, hide, shown, failures, stale, changed, held,
                 count, gap, missed, poisoned, torn>>

-----------------------------------------------------------------------------
(* force_polling: every 50 ms a thread of watchfiles compares the file's      *)
(* mtime, in whole seconds, with the one it has.                              *)
Poll ==
  /\ watcher \in {"watch", "sleep"} /\ stale
  /\ stale' = FALSE /\ changed' = TRUE
  /\ UNCHANGED <<env, file, editing, fresh, process, held, count, gap, missed, poisoned,
                 torn>>

SecondPasses ==
  /\ fresh /\ fresh' = FALSE
  /\ UNCHANGED <<env, file, editing, process, stale, changed, held, count, gap, missed,
                 poisoned, torn>>

(* awatch reports a change, and run() sleeps. *)
Debounce ==
  /\ watcher = "watch" /\ changed
  /\ watcher' = "sleep" /\ changed' = FALSE
  /\ UNCHANGED <<env, file, editing, fresh, phase, hide, shown, failures, stale, held,
                 count, gap, missed, poisoned, torn>>

(* on_cfg_change with pattern list p.                                         *)
(* Mutant: the settings page is told before the patterns are compiled.        *)
ShowThenCompile(p) ==
  /\ shown' = p
  /\ IF Compiles(p) THEN hide' = p /\ UNCHANGED failures
     ELSE failures' = failures + 1 /\ UNCHANGED hide
OnCfgChange(p) ==
  IF Compiles(p) THEN hide' = p /\ shown' = p /\ UNCHANGED failures
  ELSE failures' = failures + 1 /\ UNCHANGED <<hide, shown>>

(* After the sleep: the file is read as it is now.  A ConfigError keeps the   *)
(* old configuration; any other exception ends run().                         *)
(* Mutants: an unreadable file counts as one with no list; a failed reload is *)
(* the last one; it ends run().                                               *)
ReloadOrNone ==
  /\ watcher = "sleep" /\ watcher' = "watch" /\ missed' = FALSE
  /\ IF Loads(file) THEN OnCfgChange(file.pattern)
     ELSE hide' = NoPattern /\ shown' = NoPattern /\ UNCHANGED failures
  /\ UNCHANGED <<env, file, editing, fresh, phase, stale, changed, held, count, gap, poisoned, torn>>
ReloadUntilFailure ==
  /\ watcher = "sleep" /\ watcher' = "watch" /\ missed' = FALSE
  /\ IF Loads(file) /\ failures = 0 THEN OnCfgChange(file.pattern)
     ELSE UNCHANGED <<hide, shown, failures>>
  /\ UNCHANGED <<env, file, editing, fresh, phase, stale, changed, held, count, gap, poisoned, torn>>
ReloadOrReturn ==
  /\ watcher = "sleep" /\ watcher' = IF Loads(file) THEN "watch" ELSE "dead"
  /\ poisoned' = (poisoned \/ Escapes(file)) /\ missed' = FALSE
  /\ IF Loads(file) THEN OnCfgChange(file.pattern) ELSE UNCHANGED <<hide, shown, failures>>
  /\ UNCHANGED <<env, file, editing, fresh, phase, stale, changed, held, count, gap, torn>>
Reload ==
  /\ watcher = "sleep" /\ watcher' = IF Escapes(file) THEN "dead" ELSE "watch"
  /\ poisoned' = (poisoned \/ Escapes(file)) /\ missed' = FALSE
  /\ IF Loads(file) THEN OnCfgChange(file.pattern) ELSE UNCHANGED <<hide, shown, failures>>
  /\ UNCHANGED <<env, file, editing, fresh, phase, stale, changed, held, count, gap, torn>>

-----------------------------------------------------------------------------
(* Any write gives the file the current time.  A second one within a second   *)
(* that was polled leaves the mtime as the poller knows it.                   *)
Write(c) ==
  /\ file' = c /\ fresh' = TRUE
  /\ stale' = (phase = "up" /\ (stale \/ ~fresh))
  /\ missed' = (phase = "up" /\ fresh /\ ~stale)
  /\ gap' = (gap \/ phase = "starting")
Intended(p) == held \cup ({p} \cap Patterns)

(* What update_privacy makes of the file: its list replaced; if the list was  *)
(* what AppConfig refused, the file is accepted now.                          *)
Updated(p) == {[file EXCEPT !.pattern = p]}
                \cup (IF file.kind = "invalid" THEN {Toml("full", p), Toml("bare", p)} ELSE {})

(* update_privacy: the list is compiled, the file parsed, and written back,   *)
(* with no await in between.  Nothing is written when the list does not       *)
(* compile (422), or when the file cannot be parsed, has a "privacy" that is  *)
(* no table, or cannot be opened (500).                                       *)
(* Mutant: the list is not compiled first.                                    *)
CompilesOrNot(p) == p \in Patterns \cup {Bad}
Accepted(p) == Compiles(p)
UpdatePrivacy(p) ==
  /\ phase = "up" /\ posts < MaxPosts /\ posts' = posts + 1
  /\ \/ /\ Accepted(p) /\ Parses(file) /\ held' = Intended(p)
        /\ \E c \in Updated(p) : Write(c)
     \/ UNCHANGED <<file, fresh, stale, missed, gap, held>>
  /\ UNCHANGED <<env, editing, process, changed, edits, ends, poisoned, torn>>

(* write_bytes truncates the file before it writes.  It raises in between     *)
(* (the disk is full): the answer is 500, and the process goes on.            *)
UpdateFails(p) ==
  /\ phase = "up" /\ posts < MaxPosts /\ posts' = posts + 1
  /\ Accepted(p) /\ Parses(file) /\ held' = Intended(p) /\ torn' = TRUE
  /\ \E c \in Updated(p) : \E part \in HalfWritten(c) : Write(part)
  /\ UNCHANGED <<env, editing, process, changed, edits, ends, poisoned>>

(* What is gone with the process. *)
Gone ==
  /\ ends < MaxEnds /\ ends' = ends + 1 /\ phase' = "down" /\ watcher' = "off"
  /\ hide' = NoPattern /\ shown' = NoPattern /\ stale' = FALSE /\ changed' = FALSE
  /\ UNCHANGED <<env, editing, failures, edits, posts, gap, missed, poisoned>>

(* Or the process is killed in between. *)
KilledInUpdate(p) ==
  /\ phase = "up" /\ Gone
  /\ Accepted(p) /\ Parses(file) /\ held' = Intended(p) /\ torn' = TRUE
  /\ \E c \in Updated(p) : file' \in HalfWritten(c)
  /\ fresh' = TRUE

(* An editor outside the process truncates the file, then writes it. *)
EditBegins(c) ==
  /\ edits < MaxEdits /\ editing = NoFile /\ editing' = c /\ edits' = edits + 1
  /\ held' = Intended(c.pattern)
  /\ \E part \in HalfWritten(c) : Write(part)
  /\ UNCHANGED <<env, process, changed, posts, ends, poisoned, torn>>

EditEnds ==
  /\ editing # NoFile /\ Write(editing) /\ editing' = NoFile
  /\ UNCHANGED <<env, process, changed, held, count, poisoned, torn>>

(* SIGTERM or SIGKILL. *)
Ends == phase # "down" /\ Gone /\ UNCHANGED <<file, fresh, held, torn>>

Idle == phase = "up" /\ watcher \in {"watch", "dead"} /\ UNCHANGED vars

Watcher == Debounce \/ Reload
Next ==
  \/ Start \/ StartFails \/ StartWatching \/ Poll \/ SecondPasses \/ Watcher
  \/ \E p \in Patterns \cup {Bad} : UpdatePrivacy(p) \/ UpdateFails(p) \/ KilledInUpdate(p)
  \/ (\E c \in Contents : EditBegins(c)) \/ EditEnds
  \/ Ends \/ Idle

Spec == Init /\ [][Next]_vars
(* The poller keeps polling, and asyncio wakes the watcher. *)
FairSpec == Spec /\ WF_vars(Poll) /\ WF_vars(Watcher)

-----------------------------------------------------------------------------
(* Every variable keeps its type: in particular only a list that compiles is  *)
(* ever handed to the pipeline.                                               *)
TypeOK ==
  /\ env \in BOOLEAN /\ file \in Contents /\ editing \in Contents \cup {NoFile}
  /\ phase \in {"down", "starting", "up"} /\ fresh \in BOOLEAN
  /\ watcher \in {"off", "watch", "sleep", "dead"} /\ stale \in BOOLEAN /\ changed \in BOOLEAN
  /\ hide \in Patterns \cup {NoPattern} /\ shown \in Patterns \cup {Bad, NoPattern}
  /\ failures \in Nat /\ held \subseteq Patterns
  /\ edits \in Nat /\ posts \in Nat /\ ends \in Nat
  /\ gap \in BOOLEAN /\ missed \in BOOLEAN /\ poisoned \in BOOLEAN /\ torn \in BOOLEAN

(* While the process runs, the patterns it enforces are a list that compiles  *)
(* and that somebody set out to write: nothing broken or refused changes what *)
(* is hidden (load_config, on_cfg_change).  The exception is the empty list:  *)
(* a file that an editor is writing, or that a write of the settings page     *)
(* left cut short, may load and name no list yet.                             *)
InForceWasWritten ==
  phase # "down" => hide \in held \/ (hide = Default /\ (edits > 0 \/ torn))

(* The settings page shows the patterns that are enforced. *)
ShownIsInForce == shown = hide

(* When the watcher rests and nothing is left to poll or to report, a usable  *)
(* file is in force: no change is lost in the debounce, after a failed reload *)
(* or between two writes.  Two changes are: one before the watcher's first    *)
(* look (main.py:84, 203), and one within a second that was already polled.   *)
SettledIsInForce ==
  watcher = "watch" /\ ~changed /\ ~stale /\ ~gap /\ ~missed /\ Usable(file) =>
    hide = file.pattern

(* As long as nobody edits the file and each of its writes is done, the       *)
(* settings page leaves a file that the next start accepts.                   *)
PostsKeepFileUsable == edits = 0 /\ ~torn => Usable(file)

(* The list of a usable file whose change polling can tell comes into force,  *)
(* unless it is replaced first, the process ends, or the watcher has met a    *)
(* file that ends it: one that is not UTF-8, or TypeError in the overrides of *)
(* the environment (load_config, ConfigWatcher.run).                          *)
FileNames(p) == Usable(file) /\ file.pattern = p
LastWriteApplied ==
  \A p \in Patterns :
    stale /\ FileNames(p) ~> hide = p \/ ~FileNames(p) \/ phase = "down" \/ poisoned
=============================================================================
