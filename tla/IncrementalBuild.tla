--------------------------- MODULE IncrementalBuild ---------------------------
(***************************************************************************)
(* The incremental build driver (crates/veryl: incremental.rs, pipeline.rs *)
(* and the commands): which source files a command analyses and emits      *)
(* again, and which it takes over from the previous run.                   *)
(*                                                                         *)
(* The sources, Veryl.toml and the outputs belong to the user, who may     *)
(* change them between any two steps of a command.  Commands take the lock *)
(* on .build one at a time, but each has read Veryl.toml and .build/       *)
(* info.toml before it waits for that lock.                                *)
(*                                                                         *)
(* A content hash is identified with the content, a generic instances hash *)
(* with the set of instances; a time is a value of a clock that advances   *)
(* when the user writes a file and when a command starts.                  *)
(***************************************************************************)
EXTENDS Naturals, Functions

CONSTANTS
  Proc,      \* slots for processes waiting for the .build lock
  File,      \* paths of the project's source files
  Content,   \* what a source file can hold
  Key,       \* global keys: options, lockfile, binary, defines
  Scenario,  \* by name: projects, and what may happen to each
  None,      \* an absent file, output or command
  MaxClock   \* bound: how far the clock runs in any scenario

\* What may go wrong: blobs of the store that do not load; a command killed, or
\* unable to save the store; an output that cannot be written; sources changed
\* while a command runs; a file replaced by one with an older mtime.
Fault == {"blob_loss", "unsaved", "emit_error", "edit_during", "old_time"}
Kind == {"build", "diff", "check", "test", "clean"}

\* src: the sources at first; variant: the contents each file may take; kind:
\* the commands that are run; filter: the files whose tests a --test filter
\* matches; uncacheable: files fragment_cache::capture cannot capture.
ASSUME IncrementalBuildAssumption ==
  /\ \A c \in Content : c.test \in {"none", "native", "external"}
  /\ Range(Scenario) \subseteq
       [src: [File -> Content \cup {None}],
        variant: [File -> SUBSET (Content \cup {None})],
        kind: SUBSET Kind,
        filter: SUBSET SUBSET File, uncacheable: SUBSET File,
        key: SUBSET Key, faults: SUBSET Fault, ticks: 1..MaxClock]
  /\ None \notin Content \cup Key
  /\ MaxClock \in Nat

VARIABLES
  scenario, \* the name of the scenario; it never changes
  src,      \* the content of each source file
  mtime,    \* its modification time
  config,   \* the key that Veryl.toml and the environment give now
  clock,
  out,      \* the .sv written for each file
  info,     \* .build/info.toml: when each output was generated, 0 if never
  store,    \* .build/cache as far as this driver reads it
  waiting,  \* what each process has read before waiting for the .build lock
  job,      \* the command holding that lock
  promised  \* an emitting command succeeded on these sources and options

vars == <<scenario, src, mtime, config, clock, out, info, store, waiting, job,
          promised>>

sources == <<scenario, src, mtime, config>>

This == Scenario[scenario]

-------------------------------------------------------------------------------
(* What the analysis computes *)

Time == 0..MaxClock
Present(s) == {f \in File : s[f] # None}

\* type_dag: g uses a declaration of f ...
Uses(s, g, f) ==
  /\ g # f
  /\ {g, f} \subseteq Present(s)
  /\ s[g].uses \cap s[f].decls # {}

\* ... directly or through other files: what a walk from g along these edges
\* visits is in every set of files that the walk cannot leave.
Walked(s, g, S) == \A k \in S \cup {g}, f \in File : Uses(s, k, f) => f \in S
DependsOn(s, g) ==
  {f \in File : \A S \in SUBSET File : Walked(s, g, S) => f \in S}
Dependents(s, f) == {g \in File \ {f} : f \in DependsOn(s, g)}

\* generic_instance_hashes: instances are registered by the referencing files.
Instances(s, f) ==
  {i \in UNION {s[g].insts : g \in Present(s)} : i[1] \in s[f].decls}

\* What pass2 and the emitter make of f: it follows from the file, from what
\* it depends on and from the instances of its generic declarations.
Result(s, f) ==
  [own   |-> s[f],
   deps  |-> [g \in File |-> IF g \in DependsOn(s, f) THEN s[g] ELSE None],
   insts |-> Instances(s, f)]

\* Errors every run reports: pass1 a declaration made twice, and
\* reference_table::apply a reference that nothing resolves.
Broken(s) ==
  \E f \in Present(s) :
     \/ \E g \in Present(s) \ {f} : s[f].decls \cap s[g].decls # {}
     \/ ~ s[f].uses \subseteq UNION {s[g].decls : g \in Present(s)}

\* tests_are_all_native
HasTest(s, f) == s[f].test # "none"
TestsAreAllNative(s) ==
  LET tests == {f \in Present(s) : HasTest(s, f)}
  IN  tests # {} /\ \A f \in tests : s[f].test = "native"

-------------------------------------------------------------------------------
(* State *)

\* FileEntry.  `seen' is what its diagnostics blob records: the analysis whose
\* diagnostics they are, or None when pass2 never ran for this entry.
NoEntry == [hash |-> None, fragment |-> FALSE, dependents |-> {},
            insts |-> {}, updated |-> 0, seen |-> None]
NoFiles == [f \in File |-> NoEntry]

Inst == UNION {c.insts : c \in Content}
Results == [own: Content, deps: [File -> Content \cup {None}],
            insts: SUBSET Inst]
Entry == [hash: Content \cup {None}, fragment: BOOLEAN,
          dependents: SUBSET File, insts: SUBSET Inst, updated: Time,
          seen: Results \cup {None}]

Command == {[kind |-> k, tests |-> File] : k \in This.kind}
             \cup {[kind |-> "test", tests |-> S] : S \in This.filter}
Pending == [cmd: Command, key: Key, info: [File -> Time]]
JobOf(commands) ==
  [cmd: commands, key: Key, info: [File -> Time],
   view: [File -> Content \cup {None}], todo: SUBSET File,
   restored: SUBSET File, next: [File -> Entry], saved: BOOLEAN]
Job == JobOf(Command)

ASSUME NoJobAssumption == None \notin JobOf([kind: Kind, tests: SUBSET File])

TypeOK ==
  /\ scenario \in DOMAIN Scenario
  /\ src \in [File -> Content \cup {None}]
  /\ mtime \in [File -> Time]
  /\ config \in Key
  /\ clock \in Time
  /\ out \in [File -> [result: Results, key: Key] \cup {None}]
  /\ info \in [File -> Time]
  /\ store \in [key: Key \cup {None}, files: [File -> Entry]]
  /\ waiting \in [Proc -> Pending \cup {None}]
  /\ job \in Job \cup {None}
  /\ promised \in BOOLEAN

Init ==
  /\ scenario \in DOMAIN Scenario
  /\ src = This.src
  /\ mtime = [f \in File |-> 1]
  /\ config \in This.key
  /\ clock = 1
  /\ out = [f \in File |-> None]
  /\ info = [f \in File |-> 0]
  /\ store = [key |-> None, files |-> NoFiles]
  /\ waiting = [p \in Proc |-> None]
  /\ job = None
  /\ promised = FALSE

-------------------------------------------------------------------------------
(* The miss set *)

StoredFiles(w) == IF store.key = w.key THEN store.files ELSE NoFiles

\* Mutation of DstIsStale: updated_time is not looked at.
DstIsStaleNoUpdate(w, f) ==
  \/ w.info[f] = 0
  \/ out[f] = None
  \/ mtime[f] > w.info[f]

\* dst_is_stale
DstIsStale(w, f) ==
  \/ w.info[f] = 0
  \/ out[f] = None
  \/ mtime[f] > w.info[f]
  \/ StoredFiles(w)[f].updated > w.info[f]

\* consider_output, after the run was redone on a wrong guess that no test
\* needs an external simulator.
PredictedNoEmit(w) ==
  /\ w.cmd.kind = "test"
  /\ \A f \in Present(src) :
        LET c == StoredFiles(w)[f].hash IN c # None => c.test # "external"
ConsiderOutput(w) ==
  \/ w.cmd.kind \in {"build", "diff"}
  \/ w.cmd.kind = "test" /\ (PredictedNoEmit(w) => ~ TestsAreAllNative(src))

HasSelectedTest(w, f) ==
  /\ w.cmd.kind = "test"
  /\ StoredFiles(w)[f].hash # None
  /\ StoredFiles(w)[f].hash.test # "none"
  /\ f \in w.cmd.tests

Hit(w, f) ==
  LET e == StoredFiles(w)[f]
  IN  /\ e.hash = src[f]
      /\ e.fragment
      /\ ConsiderOutput(w) => ~ DstIsStale(w, f)
      /\ ~ HasSelectedTest(w, f)

\* Mutation of Miss: the files depending on a miss are not missed.
MissAlone(w, forced) == {f \in Present(src) : ~ Hit(w, f) \/ f \in forced}

\* Anything depending on a miss is a miss too, by the previous run's map.
Miss(w, forced) ==
  LET first == {f \in Present(src) : ~ Hit(w, f) \/ f \in forced}
  IN  first \cup UNION {StoredFiles(w)[f].dependents : f \in first}

\* generic_instance_changes: of the files restored by the first attempt,
\* those to force in the second; the others come out the same there.
GenericInstanceChanges(w, lost) ==
  {f \in (Present(src) \ Miss(w, {})) \ lost :
      StoredFiles(w)[f].insts # Instances(src, f)}

Restored(w, lost) ==
  (Present(src) \ Miss(w, GenericInstanceChanges(w, lost))) \ lost

-------------------------------------------------------------------------------
(* Commands *)

\* Metadata::load, before lock_dir.
Load(p, c) ==
  /\ waiting[p] = None
  /\ waiting' = [waiting EXCEPT
                    ![p] = [cmd |-> c, key |-> config, info |-> info]]
  /\ UNCHANGED <<sources, clock, out, info, store, job, promised>>

\* Test files whose tests the filter leaves out get no pass2.
Skipped(w, restored) ==
  {f \in Present(src) \ restored :
      w.cmd.kind = "test" /\ HasTest(src, f) /\ f \notin w.cmd.tests}

\* Mutation of UpdatedTime: only a kept entry has a time.
UpdatedTimeUnset(w, f) ==
  LET old == StoredFiles(w)[f]
  IN  IF old.hash # None /\ old.insts = Instances(src, f)
      THEN old.updated ELSE None

\* save: the updated_time an entry is given; started_at is clock + 1.
UpdatedTime(w, f) ==
  LET old == StoredFiles(w)[f]
  IN  IF old.hash # None /\ old.insts = Instances(src, f)
      THEN old.updated ELSE clock + 1

\* The entry save leaves for f.  set_dependents is only called for files that
\* have dependents, so a kept entry may go on naming earlier ones.
NextEntry(w, restored, f) ==
  LET old == StoredFiles(w)[f]
      now == Dependents(src, f)
  IN  [hash       |-> src[f],
       fragment   |-> f \in restored \/ f \notin This.uncacheable,
       dependents |-> IF now = {} /\ f \in restored THEN old.dependents
                                                   ELSE now,
       insts      |-> Instances(src, f),
       updated    |-> UpdatedTime(w, f),
       seen       |-> IF f \in restored THEN old.seen
                      ELSE IF f \in Skipped(w, restored) THEN None
                      ELSE Result(src, f)]

\* The contexts the command emits; diff is build --check.
ToEmit(w, restored) ==
  IF \/ w.cmd.kind = "build"
     \/ w.cmd.kind = "test" /\ ~ TestsAreAllNative(src)
  THEN (Present(src) \ restored) \ Skipped(w, restored)
  ELSE {}

\* lock_dir and pipeline::analyze.  lost: hits whose blobs do not load; they
\* are analysed, but what depends on them is still restored.
Analyze(p, lost) ==
  LET w == waiting[p]
      restored == Restored(w, lost)
  IN  /\ job = None
      /\ w # None
      /\ w.cmd.kind # "clean"
      /\ clock < This.ticks
      /\ ~ Broken(src)
      /\ lost = {} \/ "blob_loss" \in This.faults
      /\ lost \subseteq Present(src) \ Miss(w, {})
      /\ job' = [cmd |-> w.cmd, key |-> w.key, info |-> w.info, view |-> src,
                 todo |-> ToEmit(w, restored), restored |-> restored,
                 next |-> [f \in File |-> IF f \in Present(src)
                                          THEN NextEntry(w, restored, f)
                                          ELSE NoEntry],
                 saved |-> FALSE]
      /\ clock' = clock + 1
      /\ waiting' = [waiting EXCEPT ![p] = None]
      /\ UNCHANGED <<sources, out, info, store, promised>>

\* Analysis errors end the command; build and test still save their info.
WritesInfo(cmd) == cmd.kind # "check"
AnalyzeFails(p) ==
  /\ job = None
  /\ waiting[p] # None
  /\ waiting[p].cmd.kind # "clean"
  /\ Broken(src)
  /\ info' = IF WritesInfo(waiting[p].cmd) THEN waiting[p].info ELSE info
  /\ waiting' = [waiting EXCEPT ![p] = None]
  /\ UNCHANGED <<sources, clock, out, store, job, promised>>

\* The emit loop writes one output and notes when.
EmitFile(f) ==
  /\ job # None
  /\ f \in job.todo
  /\ out' = [out EXCEPT ![f] = [result |-> Result(job.view, f),
                                key    |-> job.key]]
  /\ job' = [job EXCEPT !.todo = @ \ {f}, !.info[f] = clock]
  /\ promised' = FALSE
  /\ UNCHANGED <<sources, clock, info, store, waiting>>

\* An output or the filelist cannot be written: exec returns the error before
\* it saves the store, and main saves the times of what was emitted.
EmitFails ==
  /\ job # None /\ ~ job.saved
  /\ "emit_error" \in This.faults
  /\ job.cmd.kind \in {"build", "test"}
  /\ info' = job.info
  /\ job' = None
  /\ UNCHANGED <<sources, clock, out, store, waiting, promised>>

\* Incremental::save.
SaveStore ==
  /\ job # None /\ ~ job.saved
  /\ job.todo = {}
  /\ store' = [key |-> job.key, files |-> job.next]
  /\ job' = [job EXCEPT !.saved = TRUE]
  /\ UNCHANGED <<sources, clock, out, info, waiting, promised>>

\* The store swallows its own write errors: the command goes on.
SaveStoreFails ==
  /\ "unsaved" \in This.faults
  /\ job # None /\ ~ job.saved
  /\ job.todo = {}
  /\ job' = [job EXCEPT !.saved = TRUE]
  /\ UNCHANGED <<sources, clock, out, info, store, waiting, promised>>

\* build, and test for an external simulator, leave every output written.
EmitsAll(j) ==
  \/ j.cmd.kind = "build"
  \/ /\ j.cmd.kind = "test"
     /\ j.cmd.tests = File
     /\ ~ TestsAreAllNative(j.view)

\* save_build_info and unlock_dir: the command has succeeded.
Finish ==
  /\ job # None /\ job.saved
  /\ info' = IF WritesInfo(job.cmd) THEN job.info ELSE info
  /\ promised' = (\/ promised
                  \/ /\ EmitsAll(job)
                     /\ job.view = src
                     /\ job.key = config)
  /\ job' = None
  /\ UNCHANGED <<sources, clock, out, store, waiting>>

\* CmdClean::exec removes the outputs that the info it loaded names.
Clean(p) ==
  /\ job = None
  /\ waiting[p] # None
  /\ waiting[p].cmd.kind = "clean"
  /\ out' = [f \in File |-> IF waiting[p].info[f] > 0 THEN None ELSE out[f]]
  /\ info' = [f \in File |-> 0]
  /\ promised' = FALSE
  /\ waiting' = [waiting EXCEPT ![p] = None]
  /\ UNCHANGED <<sources, clock, store, job>>

\* The process is killed while it waits, or while it holds the lock.
KillWaiting(p) ==
  /\ waiting[p] # None
  /\ waiting' = [waiting EXCEPT ![p] = None]
  /\ UNCHANGED <<sources, clock, out, info, store, job, promised>>

KillJob ==
  /\ "unsaved" \in This.faults
  /\ job # None
  /\ job' = None
  /\ UNCHANGED <<sources, clock, out, info, store, waiting, promised>>

-------------------------------------------------------------------------------
(* The user *)

UserMayEdit == job = None \/ "edit_during" \in This.faults

Edit(f, c) ==
  /\ UserMayEdit
  /\ clock < This.ticks
  /\ c # src[f]
  /\ src' = [src EXCEPT ![f] = c]
  /\ clock' = clock + 1
  /\ mtime' = [mtime EXCEPT ![f] = clock + 1]
  /\ promised' = FALSE
  /\ UNCHANGED <<scenario, config, out, info, store, waiting, job>>

\* The file is replaced by another that keeps its older modification time.
Replace(f, c, t) ==
  /\ "old_time" \in This.faults
  /\ UserMayEdit
  /\ c \notin {None, src[f]}
  /\ t <= clock
  /\ src' = [src EXCEPT ![f] = c]
  /\ mtime' = [mtime EXCEPT ![f] = t]
  /\ promised' = FALSE
  /\ UNCHANGED <<scenario, config, clock, out, info, store, waiting, job>>

Reconfigure(k) ==
  /\ k # config
  /\ config' = k
  /\ promised' = FALSE
  /\ UNCHANGED <<scenario, src, mtime, clock, out, info, store, waiting, job>>

RemoveOutput(f) ==
  /\ job = None
  /\ out[f] # None
  /\ out' = [out EXCEPT ![f] = None]
  /\ promised' = FALSE
  /\ UNCHANGED <<sources, clock, info, store, waiting, job>>

-------------------------------------------------------------------------------

Next ==
  \/ \E p \in Proc : \/ \E c \in Command : Load(p, c)
                     \/ \E lost \in SUBSET File : Analyze(p, lost)
                     \/ AnalyzeFails(p)
                     \/ Clean(p)
                     \/ KillWaiting(p)
  \/ \E f \in File : EmitFile(f)
  \/ EmitFails
  \/ SaveStore
  \/ SaveStoreFails
  \/ Finish
  \/ KillJob
  \/ \E f \in File : \/ \E c \in This.variant[f] : Edit(f, c)
                     \/ \E c \in This.variant[f], t \in Time : Replace(f, c, t)
                     \/ RemoveOutput(f)
  \/ \E k \in This.key : Reconfigure(k)

Spec == Init /\ [][Next]_vars

-------------------------------------------------------------------------------
(* Properties *)

\* After a build, or a test run for an external simulator, and until somebody
\* touches a file, every output is the one a build from nothing would write: no
\* file that needed emitting was taken for up to date (dst_is_stale, the miss
\* set, updated_time).
OutputsCurrent ==
  promised => \A f \in Present(src) :
                 out[f] = [result |-> Result(src, f), key |-> config]

\* The diagnostics a command reports for a file it restored are those of the
\* analysis the file would get now: pass2 was rightly skipped (try_restore).
AnalysisCurrent ==
  job # None => \A f \in job.restored : job.next[f].seen = Result(job.view, f)

===============================================================================
