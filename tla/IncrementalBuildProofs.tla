------------------------ MODULE IncrementalBuildProofs ------------------------
(* Theorems about IncrementalBuild, for every project and scenario. *)
EXTENDS IncrementalBuild, TLAPS

-----------------------------------------------------------------------------
(* Types *)

Source == [File -> Content \cup {None}]

\* A scenario is one of those assumed.
LEMMA ThisType ==
  ASSUME scenario \in DOMAIN Scenario
  PROVE  /\ This.src \in Source /\ This.kind \in SUBSET Kind
         /\ This.variant \in [File -> SUBSET (Content \cup {None})]
         /\ This.key \in SUBSET Key
         /\ This.ticks \in 1..MaxClock
         /\ This.filter \in SUBSET SUBSET File
<1>1. This \in Range(Scenario)
  BY DEF This, Range
<1>2. QED
  BY <1>1, IncrementalBuildAssumption DEF Source

\* The files there are hold something.
LEMMA PresentType ==
  ASSUME NEW s \in Source, NEW f \in Present(s)
  PROVE  f \in File /\ s[f] \in Content /\ s[f] # None
  BY DEF Source, Present

\* What the analysis computes.
LEMMA ResultType ==
  ASSUME NEW s \in Source, NEW f \in File
  PROVE  /\ Instances(s, f) \in SUBSET Inst
         /\ Dependents(s, f) \in SUBSET File
         /\ f \in Present(s) => Result(s, f) \in Results
<1>1. Instances(s, f) \in SUBSET Inst
  BY PresentType DEF Instances, Inst
<1>2. [g \in File |-> IF g \in DependsOn(s, f) THEN s[g] ELSE None] \in Source
  BY DEF Source
<1>3. ASSUME f \in Present(s) PROVE Result(s, f) \in Results
  BY <1>1, <1>2, <1>3, PresentType DEF Result, Results, Source
<1>4. QED
  BY <1>1, <1>3 DEF Dependents

\* An entry that was never saved is an entry.
LEMMA NoEntryType == NoEntry \in Entry /\ NoFiles \in [File -> Entry]
<1>1. 0 \in Time
  BY IncrementalBuildAssumption DEF Time
<1>2. NoEntry \in Entry
  BY <1>1 DEF NoEntry, Entry
<1>3. QED
  BY <1>2 DEF NoFiles

\* What a command finds in the store.
LEMMA StoredType ==
  ASSUME TypeOK, NEW w
  PROVE  StoredFiles(w) \in [File -> Entry]
  BY NoEntryType DEF TypeOK, StoredFiles

\* The entry that save leaves for a file.
LEMMA NextEntryType ==
  ASSUME TypeOK, NEW w, NEW restored, NEW f \in Present(src), clock < This.ticks
  PROVE  NextEntry(w, restored, f) \in Entry
<1>1. src \in Source /\ f \in File /\ src[f] \in Content
  BY PresentType DEF TypeOK, Source
<1> DEFINE old == StoredFiles(w)[f]
<1>2. old \in Entry
  BY <1>1, StoredType
<1>3. clock + 1 \in Time
  BY ThisType, IncrementalBuildAssumption DEF TypeOK, Time
<1>4. UpdatedTime(w, f) \in Time
  BY <1>2, <1>3 DEF UpdatedTime, Entry
<1>5. /\ Instances(src, f) \in SUBSET Inst /\ Dependents(src, f) \in SUBSET File
      /\ Result(src, f) \in Results
  BY <1>1, ResultType
<1>6. (f \in restored \/ f \notin This.uncacheable) \in BOOLEAN
  OBVIOUS
<1>7. /\ old.dependents \in SUBSET File /\ old.seen \in Results \cup {None}
  BY <1>2 DEF Entry
<1> HIDE DEF old
<1> DEFINE now == Dependents(src, f)
           fragment == f \in restored \/ f \notin This.uncacheable
           deps == IF now = {} /\ f \in restored THEN old.dependents ELSE now
           seen == IF f \in restored THEN old.seen
                   ELSE IF f \in Skipped(w, restored) THEN None
                   ELSE Result(src, f)
<1>8. deps \in SUBSET File /\ seen \in Results \cup {None} /\ fragment \in BOOLEAN
  BY <1>5, <1>6, <1>7
<1>9. NextEntry(w, restored, f) =
        [hash |-> src[f], fragment |-> fragment, dependents |-> deps,
         insts |-> Instances(src, f), updated |-> UpdatedTime(w, f), seen |-> seen]
  BY DEF NextEntry, old
<1> HIDE DEF deps, seen, fragment
<1>10. QED
  BY <1>1, <1>4, <1>5, <1>8, <1>9 DEF Entry

\* At first.
LEMMA InitTypeOK == Init => TypeOK
<1> SUFFICES ASSUME Init PROVE TypeOK
  OBVIOUS
<1>1. scenario \in DOMAIN Scenario
  BY DEF Init
<1>2. This.src \in Source /\ This.key \in SUBSET Key /\ This.ticks \in 1..MaxClock
  BY <1>1, ThisType
<1>3. 0 \in Time /\ 1 \in Time
  BY <1>2, IncrementalBuildAssumption DEF Time
<1>4. QED
  BY <1>1, <1>2, <1>3, NoEntryType DEF Init, TypeOK, Source

\* A command restores files it has found, and writes their outputs.
JobPresent == job # None => job.todo \cup job.restored \subseteq Present(job.view)

\* The commands of a scenario are always the same.
LEMMA SameCommands ==
  ASSUME scenario' = scenario
  PROVE  This' = This /\ Command' = Command /\ Pending' = Pending /\ Job' = Job
<1>1. This' = This
  BY DEF This
<1>2. Command' = Command
  BY <1>1 DEF Command
<1>3. QED
  BY <1>1, <1>2 DEF Pending, Job, JobOf

\* A process that waits has loaded a command.
LEMMA WaitingType ==
  ASSUME TypeOK, NEW p \in Proc, waiting[p] # None
  PROVE  /\ waiting[p] \in Pending /\ waiting[p].cmd \in Command
         /\ waiting[p].key \in Key /\ waiting[p].info \in [File -> Time]
<1>1. waiting[p] \in Pending
  BY DEF TypeOK
<1>2. QED
  BY <1>1 DEF Pending

\* What a command starts with.
LEMMA AnalyzeType ==
  ASSUME TypeOK, NEW p \in Proc, NEW lost, Analyze(p, lost)
  PROVE  /\ job' \in Job /\ job'.todo \cup job'.restored \subseteq Present(job'.view)
         /\ clock' \in Time /\ scenario' = scenario
<1> DEFINE w == waiting[p]
           restored == Restored(w, lost)
           next == [f \in File |-> IF f \in Present(src)
                                   THEN NextEntry(w, restored, f) ELSE NoEntry]
<1>1. /\ clock < This.ticks /\ clock' = clock + 1 /\ scenario' = scenario
      /\ job' = [cmd |-> w.cmd, key |-> w.key, info |-> w.info, view |-> src,
                 todo |-> ToEmit(w, restored), restored |-> restored,
                 next |-> next, saved |-> FALSE]
  BY DEF Analyze, sources
<1>2. w \in Pending /\ w.cmd \in Command /\ w.key \in Key /\ w.info \in [File -> Time]
  BY WaitingType DEF Analyze
<1>3. next \in [File -> Entry]
  BY <1>1, NextEntryType, NoEntryType
<1>4. /\ restored \in SUBSET File /\ ToEmit(w, restored) \in SUBSET File
      /\ ToEmit(w, restored) \cup restored \subseteq Present(src)
  BY DEF Restored, ToEmit, Present
<1>5. src \in [File -> Content \cup {None}]
  BY DEF TypeOK
<1>6. clock' \in Time
  BY <1>1, ThisType, IncrementalBuildAssumption DEF TypeOK, Time
<1> HIDE DEF w, restored, next
<1>7. job'.todo = ToEmit(w, restored) /\ job'.restored = restored /\ job'.view = src
  BY <1>1
<1>8. Job' = Job
  BY <1>1, SameCommands
<1>9. job' \in Job
  BY <1>1, <1>2, <1>3, <1>4, <1>5 DEF Job, JobOf
<1>10. QED
  BY <1>1, <1>4, <1>6, <1>7, <1>9

\* Every step preserves the types.
LEMMA NextTypeOK ==
  ASSUME TypeOK, JobPresent, [Next]_vars
  PROVE  TypeOK' /\ JobPresent'
<1>0. /\ scenario \in DOMAIN Scenario /\ src \in Source /\ clock \in Time
      /\ job \in Job \cup {None}
  BY DEF TypeOK, Source
<1>1. CASE UNCHANGED vars
  <2>1. scenario' = scenario
    BY <1>1 DEF vars
  <2>2. QED
    BY <1>1, <2>1, SameCommands DEF vars, TypeOK, JobPresent
<1>2. ASSUME NEW p \in Proc, NEW c \in Command, Load(p, c)
      PROVE  TypeOK' /\ JobPresent'
  <2>1. [cmd |-> c, key |-> config, info |-> info] \in Pending
    BY DEF TypeOK, Pending
  <2>2. scenario' = scenario
    BY <1>2 DEF Load, sources
  <2>3. waiting' \in [Proc -> Pending \cup {None}]
    BY <1>2, <2>1 DEF Load, TypeOK
  <2>4. QED
    BY <1>2, <2>2, <2>3, SameCommands DEF Load, sources, TypeOK, JobPresent
<1>3. ASSUME NEW p \in Proc, NEW lost \in SUBSET File, Analyze(p, lost)
      PROVE  TypeOK' /\ JobPresent'
  <2>1. /\ job' \in Job /\ job'.todo \cup job'.restored \subseteq Present(job'.view)
        /\ clock' \in Time /\ scenario' = scenario
    BY <1>3, AnalyzeType
  <2>2. waiting' \in [Proc -> Pending \cup {None}]
    BY <1>3 DEF Analyze, TypeOK
  <2>3. TypeOK'
    BY <1>3, <2>1, <2>2, SameCommands DEF Analyze, sources, TypeOK
  <2>4. QED
    BY <2>1, <2>3 DEF JobPresent
<1>4. ASSUME NEW p \in Proc, AnalyzeFails(p) \/ Clean(p) \/ KillWaiting(p)
      PROVE  TypeOK' /\ JobPresent'
  <2>1. waiting[p].info \in [File -> Time]
    BY <1>4, WaitingType DEF AnalyzeFails, Clean, KillWaiting
  <2>2. 0 \in Time
    BY IncrementalBuildAssumption DEF Time
  <2>3. /\ scenario' = scenario /\ UNCHANGED <<sources, clock, store, job>>
        /\ waiting' = [waiting EXCEPT ![p] = None]
        /\ info' \in [File -> Time]
        /\ out' \in [File -> [result: Results, key: Key] \cup {None}]
        /\ promised' \in BOOLEAN
    <3>1. CASE AnalyzeFails(p) \/ KillWaiting(p)
      BY <2>1, <3>1 DEF AnalyzeFails, KillWaiting, sources, TypeOK
    <3>2. CASE Clean(p)
      BY <2>2, <3>2 DEF Clean, sources, TypeOK
    <3>3. QED
      BY <1>4, <3>1, <3>2
  <2>4. waiting' \in [Proc -> Pending \cup {None}]
    BY <2>3 DEF TypeOK
  <2>5. QED
    BY <2>3, <2>4, SameCommands DEF sources, TypeOK, JobPresent
<1>5. ASSUME NEW f \in File, EmitFile(f)
      PROVE  TypeOK' /\ JobPresent'
  <2>1. job \in Job /\ f \in job.todo /\ job.todo \cup job.restored \subseteq Present(job.view)
    BY <1>0, <1>5 DEF EmitFile, JobPresent
  <2>2. /\ job.key \in Key /\ job.view \in Source /\ job.info \in [File -> Time]
        /\ job.todo \in SUBSET File
    BY <2>1 DEF Job, JobOf, Source
  <2>3. Result(job.view, f) \in Results
    BY <2>1, <2>2, ResultType
  <2>4. out' \in [File -> [result: Results, key: Key] \cup {None}]
    BY <1>5, <2>2, <2>3 DEF EmitFile, TypeOK
  <2>5. job' = [job EXCEPT !.todo = job.todo \ {f}, !.info = [job.info EXCEPT ![f] = clock]]
    BY <1>5, <2>1 DEF EmitFile, Job, JobOf
  <2>6. job' \in Job
    BY <1>0, <2>1, <2>2, <2>5 DEF Job, JobOf
  <2>7. job'.todo \cup job'.restored \subseteq Present(job'.view)
    BY <2>1, <2>5 DEF Job, JobOf
  <2>8. scenario' = scenario /\ promised' = FALSE
    BY <1>5 DEF EmitFile, sources
  <2>9. TypeOK'
    BY <1>5, <2>4, <2>6, <2>8, SameCommands DEF EmitFile, sources, TypeOK
  <2>10. QED
    BY <2>7, <2>9 DEF JobPresent
<1>6. CASE EmitFails \/ SaveStore \/ SaveStoreFails \/ Finish \/ KillJob
  <2>1. job \in Job /\ job # None
    BY <1>0, <1>6 DEF EmitFails, SaveStore, SaveStoreFails, Finish, KillJob
  <2>2. /\ job.key \in Key /\ job.info \in [File -> Time] /\ job.next \in [File -> Entry]
    BY <2>1 DEF Job, JobOf
  <2>3. scenario' = scenario /\ UNCHANGED <<sources, clock, out, waiting>>
    BY <1>6 DEF EmitFails, SaveStore, SaveStoreFails, Finish, KillJob, sources
  <2>4. info' \in [File -> Time]
    BY <1>6, <2>2 DEF EmitFails, SaveStore, SaveStoreFails, Finish, KillJob, TypeOK
  <2>5. store' \in [key: Key \cup {None}, files: [File -> Entry]]
    <3>1. CASE SaveStore
      BY <2>2, <3>1 DEF SaveStore
    <3>2. CASE store' = store
      BY <3>2 DEF TypeOK
    <3>3. QED
      BY <1>6, <3>1, <3>2 DEF EmitFails, SaveStoreFails, Finish, KillJob
  <2>6. promised' \in BOOLEAN
    BY <1>6 DEF EmitFails, SaveStore, SaveStoreFails, Finish, KillJob, TypeOK
  <2>7. job' = None \/ job' = [job EXCEPT !.saved = TRUE]
    BY <1>6 DEF EmitFails, SaveStore, SaveStoreFails, Finish, KillJob
  <2>8. job' \in Job \cup {None} /\ JobPresent'
    BY <2>1, <2>7 DEF Job, JobOf, JobPresent
  <2>9. QED
    BY <2>3, <2>4, <2>5, <2>6, <2>8, SameCommands DEF sources, TypeOK
<1>7. ASSUME NEW f \in File,
             \/ \E c \in This.variant[f] : Edit(f, c)
             \/ \E c \in This.variant[f], t \in Time : Replace(f, c, t)
             \/ RemoveOutput(f)
      PROVE  TypeOK' /\ JobPresent'
  <2>1. /\ scenario' = scenario /\ UNCHANGED <<config, info, store, waiting, job>>
        /\ promised' = FALSE
    BY <1>7 DEF Edit, Replace, RemoveOutput, sources
  <2>2. \A c \in This.variant[f] : c \in Content \cup {None}
    BY <1>0, ThisType
  <2>3. src' \in [File -> Content \cup {None}]
    BY <1>7, <2>2 DEF Edit, Replace, RemoveOutput, sources, TypeOK
  <2>4. clock < This.ticks => clock + 1 \in Time
    BY <1>0, ThisType, IncrementalBuildAssumption DEF Time
  <2>5. clock' \in Time /\ mtime' \in [File -> Time]
    BY <1>7, <2>4 DEF Edit, Replace, RemoveOutput, sources, TypeOK
  <2>6. out' \in [File -> [result: Results, key: Key] \cup {None}]
    BY <1>7 DEF Edit, Replace, RemoveOutput, TypeOK
  <2>7. QED
    BY <2>1, <2>3, <2>5, <2>6, SameCommands DEF TypeOK, JobPresent
<1>8. ASSUME NEW k \in This.key, Reconfigure(k)
      PROVE  TypeOK' /\ JobPresent'
  <2>1. k \in Key
    BY <1>0, ThisType
  <2>2. scenario' = scenario
    BY <1>8 DEF Reconfigure
  <2>3. QED
    BY <1>8, <2>1, <2>2, SameCommands DEF Reconfigure, TypeOK, JobPresent
<1>9. QED
  BY <1>1, <1>2, <1>3, <1>4, <1>5, <1>6, <1>7, <1>8 DEF Next

\* The state of the driver stays well formed in every scenario: every entry has
\* an updated_time, and only files that were found are emitted.
THEOREM TypeCorrect == Spec => []TypeOK
<1>1. Init => TypeOK /\ JobPresent
  BY InitTypeOK DEF Init, JobPresent
<1>2. TypeOK /\ JobPresent /\ [Next]_vars => (TypeOK /\ JobPresent)'
  BY NextTypeOK
<1>3. QED
  BY <1>1, <1>2, PTL DEF Spec

-----------------------------------------------------------------------------
(* What a file depends on *)

\* The walk from a file does not leave what the file depends on.
LEMMA DependsWalked ==
  ASSUME NEW s, NEW g
  PROVE  Walked(s, g, DependsOn(s, g)) /\ DependsOn(s, g) \subseteq File
  BY DEF Walked, DependsOn

\* Nor does it visit more than it must.
LEMMA DependsLeast ==
  ASSUME NEW s, NEW g, NEW S \in SUBSET File, Walked(s, g, S)
  PROVE  DependsOn(s, g) \subseteq S
  BY DEF DependsOn

\* A file depends on files there are.
LEMMA DependsPresent ==
  ASSUME NEW s, NEW g
  PROVE  DependsOn(s, g) \subseteq Present(s)
<1>1. Present(s) \in SUBSET File /\ Walked(s, g, Present(s))
  BY DEF Present, Walked, Uses
<1>2. QED
  BY <1>1, DependsLeast

\* A name is declared in the same file of s and t, if in both.
SameOwners(s, t) ==
  \A f, g \in File :
    s[f] # None /\ t[g] # None /\ s[f].decls \cap t[g].decls # {} => f = g

\* What an unchanged file uses in t, it uses in s, if s resolves it.
LEMMA UsesThere ==
  ASSUME NEW s, NEW t, SameOwners(t, s), ~ Broken(s),
         NEW k \in File, t[k] = s[k], NEW h \in File, Uses(t, k, h)
  PROVE  Uses(s, k, h)
<1>1. PICK n : n \in t[k].uses /\ n \in t[h].decls
  BY DEF Uses
<1>2. k # h /\ t[k] # None /\ t[h] # None
  BY DEF Uses, Present
<1>3. k \in Present(s)
  BY <1>2 DEF Present
<1>4. PICK g \in Present(s) : n \in s[g].decls
  BY <1>1, <1>3 DEF Broken
<1>5. g = h
  BY <1>1, <1>2, <1>4 DEF SameOwners, Present
<1>6. QED
  BY <1>1, <1>2, <1>3, <1>4, <1>5 DEF Uses

\* If nothing a file depends on differs, it depends on the same.
LEMMA SameDepends ==
  ASSUME NEW s, NEW t, SameOwners(t, s), ~ Broken(s), NEW f \in File,
         \A g \in {f} \cup DependsOn(s, f) : t[g] = s[g]
  PROVE  DependsOn(t, f) = DependsOn(s, f)
<1>1. DependsOn(s, f) \subseteq File /\ DependsOn(t, f) \subseteq File
  BY DependsWalked
<1>2. DependsOn(t, f) \subseteq DependsOn(s, f)
  <2>1. Walked(t, f, DependsOn(s, f))
    <3> SUFFICES ASSUME NEW k \in DependsOn(s, f) \cup {f}, NEW h \in File, Uses(t, k, h)
                 PROVE  h \in DependsOn(s, f)
      BY DEF Walked
    <3>1. Uses(s, k, h)
      BY <1>1, UsesThere
    <3>2. QED
      BY <3>1, DependsWalked DEF Walked
  <2>2. QED
    BY <1>1, <2>1, DependsLeast
<1>3. DependsOn(s, f) \subseteq DependsOn(t, f)
  <2> DEFINE S == DependsOn(s, f) \cap DependsOn(t, f)
  <2>1. Walked(s, f, S)
    <3> SUFFICES ASSUME NEW k \in S \cup {f}, NEW h \in File, Uses(s, k, h)
                 PROVE  h \in S
      BY DEF Walked
    <3>1. h \in DependsOn(s, f)
      BY DependsWalked DEF Walked
    <3>2. t[k] = s[k] /\ t[h] = s[h]
      BY <3>1
    <3>3. Uses(t, k, h)
      BY <1>1, <3>2 DEF Uses, Present
    <3>4. h \in DependsOn(t, f)
      BY <3>3, DependsWalked DEF Walked
    <3>5. QED
      BY <3>1, <3>4
  <2>2. S \in SUBSET File
    BY <1>1
  <2>3. QED
    BY <2>1, <2>2, DependsLeast
<1>4. QED
  BY <1>2, <1>3

\* What an unchanged file depended on has not gone: if the files that are still
\* there are unchanged, all are.
LEMMA DependsStay ==
  ASSUME NEW v, NEW t, SameOwners(v, t), ~ Broken(t), NEW f \in File, t[f] = v[f],
         \A h \in DependsOn(v, f) \cap Present(t) : t[h] = v[h]
  PROVE  \A h \in DependsOn(v, f) : t[h] = v[h]
<1> DEFINE S == {h \in DependsOn(v, f) : t[h] = v[h]}
<1>1. DependsOn(v, f) \subseteq File /\ S \in SUBSET File
  BY DependsWalked
<1>2. Walked(v, f, S)
  <2> SUFFICES ASSUME NEW k \in S \cup {f}, NEW h \in File, Uses(v, k, h)
               PROVE  h \in S
    BY DEF Walked
  <2>1. Uses(t, k, h)
    BY <1>1, UsesThere
  <2>2. h \in DependsOn(v, f)
    BY DependsWalked DEF Walked
  <2>3. QED
    BY <2>1, <2>2 DEF Uses
<1>3. QED
  BY <1>1, <1>2, DependsLeast

\* A file comes out the same if it and what it depends on are the same, and so
\* are the instances of its generics.
LEMMA SameResult ==
  ASSUME NEW s, NEW t, SameOwners(t, s), ~ Broken(s), NEW f \in File,
         \A g \in {f} \cup DependsOn(s, f) : t[g] = s[g],
         Instances(s, f) = Instances(t, f)
  PROVE  Result(s, f) = Result(t, f)
<1>1. DependsOn(t, f) = DependsOn(s, f)
  BY SameDepends
<1>2. \A g \in File : (IF g \in DependsOn(s, f) THEN s[g] ELSE None)
                    = (IF g \in DependsOn(t, f) THEN t[g] ELSE None)
  BY <1>1
<1>3. s[f] = t[f]
  OBVIOUS
<1>4. QED
  BY <1>2, <1>3 DEF Result

-----------------------------------------------------------------------------
(* What the store tells a command *)

\* The sources that entries were made from; those a scenario allows.
View(files) == [f \in File |-> files[f].hash]
Possible(x, s) == \A f \in File : s[f] \in x.variant[f] \cup {x.src[f], None}

\* The entries of one analysis of sources without errors.  A file may be named
\* as a dependent that no longer is one.
EntriesRight(x, files) ==
  /\ Possible(x, View(files))
  /\ ~ Broken(View(files))
  /\ \A f \in Present(View(files)) :
       /\ Dependents(View(files), f) \subseteq files[f].dependents
       /\ files[f].insts = Instances(View(files), f)
       /\ files[f].seen = Result(View(files), f)

StoreRight ==
  /\ Possible(This, src)
  /\ EntriesRight(This, store.files)
  /\ job # None => EntriesRight(This, job.next) /\ View(job.next) = job.view

\* No declaration moves from one path to another, and no test is filtered out.
DeclaredOnce ==
  \A x \in Range(Scenario), f, g \in File : f # g =>
    \A c \in x.variant[f] \cup {x.src[f]}, e \in x.variant[g] \cup {x.src[g]} :
      c # None /\ e # None => c.decls \cap e.decls = {}
Unfiltered == \A x \in Range(Scenario) : x.filter = {}

\* Then a name has one file in all the sources of a scenario.
LEMMA PossibleOwners ==
  ASSUME DeclaredOnce, NEW x \in Range(Scenario), NEW s, NEW t,
         Possible(x, s), Possible(x, t)
  PROVE  SameOwners(s, t)
<1> SUFFICES ASSUME NEW f \in File, NEW g \in File, s[f] # None, t[g] # None,
                    s[f].decls \cap t[g].decls # {}, f # g
             PROVE  FALSE
  BY DEF SameOwners
<1>1. /\ s[f] \in x.variant[f] \cup {x.src[f]}
      /\ t[g] \in x.variant[g] \cup {x.src[g]}
  BY DEF Possible
<1>2. QED
  BY <1>1 DEF DeclaredOnce

\* and every command runs all tests.
LEMMA AllTests ==
  ASSUME Unfiltered, scenario \in DOMAIN Scenario, NEW c \in Command
  PROVE  c.tests = File
<1>1. This.filter = {}
  BY DEF Unfiltered, This, Range
<1>2. QED
  BY <1>1 DEF Command

\* An empty store is right.
LEMMA NoFilesRight ==
  ASSUME NEW x
  PROVE  EntriesRight(x, NoFiles)
<1>1. \A f \in File : View(NoFiles)[f] = None
  BY DEF View, NoFiles, NoEntry
<1>2. Present(View(NoFiles)) = {}
  BY <1>1 DEF Present
<1>3. ~ Broken(View(NoFiles))
  BY <1>2 DEF Broken
<1>4. Possible(x, View(NoFiles))
  BY <1>1 DEF Possible
<1>5. QED
  BY <1>2, <1>3, <1>4 DEF EntriesRight

\* What a command finds in the store is right.
LEMMA StoredRight ==
  ASSUME StoreRight, NEW w
  PROVE  EntriesRight(This, StoredFiles(w))
  BY NoFilesRight DEF StoreRight, StoredFiles

\* Nothing has happened to a restored file: neither it nor any file it depends
\* on is a miss, and it comes out as it did.
LEMMA RestoredSame ==
  ASSUME DeclaredOnce, TypeOK, StoreRight, ~ Broken(src), NEW w, NEW lost,
         NEW f \in Restored(w, lost), NEW v, v = View(StoredFiles(w))
  PROVE  /\ f \in Present(src) /\ f \in Present(v)
         /\ \A g \in {f} \cup DependsOn(v, f) : Hit(w, g) /\ src[g] = v[g]
         /\ Result(v, f) = Result(src, f)
         /\ StoredFiles(w)[f].insts = Instances(src, f)
<1> DEFINE files == StoredFiles(w)
           forced == GenericInstanceChanges(w, lost)
<1>0. EntriesRight(This, files)
  BY StoredRight
<1>1. This \in Range(Scenario)
  BY DEF TypeOK, This, Range
<1>2. SameOwners(v, src) /\ SameOwners(src, v)
  BY <1>0, <1>1, PossibleOwners DEF StoreRight, EntriesRight
<1>3. /\ f \in Present(src) /\ f \in File /\ src[f] # None
      /\ f \notin Miss(w, forced) /\ f \notin lost
  BY DEF Restored, Present
<1>4. /\ Hit(w, f)
      /\ \A h \in Present(src) : ~ Hit(w, h) => f \notin files[h].dependents
      /\ f \notin forced
  BY <1>3 DEF Miss
<1>5. \A h \in File : v[h] = files[h].hash
  BY DEF View
<1>6. \A h \in File : Hit(w, h) => src[h] = v[h]
  BY <1>5 DEF Hit
<1>7. f \in Present(v)
  BY <1>3, <1>4, <1>6 DEF Present
<1>8. ASSUME NEW h \in DependsOn(v, f), h \in Present(src)
      PROVE  Hit(w, h)
  <2>1. h \in Present(v) /\ h \in File
    BY DependsPresent DEF Present
  <2>2. CASE h = f
    BY <1>4, <2>2
  <2>3. CASE h # f
    <3>1. f \in Dependents(v, h)
      BY <1>3, <2>3 DEF Dependents
    <3>2. f \in files[h].dependents
      BY <1>0, <2>1, <3>1 DEF EntriesRight
    <3>3. QED
      BY <1>4, <1>8, <3>2
  <2>4. QED
    BY <2>2, <2>3
<1>9. \A h \in DependsOn(v, f) : src[h] = v[h]
  <2>1. \A h \in DependsOn(v, f) \cap Present(src) : src[h] = v[h]
    BY <1>6, <1>8, DependsPresent DEF Present
  <2>2. src[f] = v[f]
    BY <1>3, <1>4, <1>6
  <2>3. QED
    BY <1>2, <1>3, <2>1, <2>2, DependsStay
<1>10. \A g \in {f} \cup DependsOn(v, f) : Hit(w, g) /\ src[g] = v[g]
  <2>1. \A h \in DependsOn(v, f) : h \in Present(src)
    BY <1>9, DependsPresent DEF Present
  <2>2. QED
    BY <1>3, <1>4, <1>6, <1>8, <1>9, <2>1
<1>11. files[f].insts = Instances(src, f)
  <2>1. f \notin Miss(w, {})
    BY <1>3 DEF Miss
  <2>2. QED
    BY <1>3, <1>4, <2>1 DEF GenericInstanceChanges
<1>12. Result(v, f) = Result(src, f)
  <2>1. files[f].insts = Instances(v, f) /\ ~ Broken(v)
    BY <1>0, <1>7 DEF EntriesRight
  <2>2. QED
    BY <1>2, <1>3, <1>10, <1>11, <2>1, SameResult
<1>13. QED
  BY <1>3, <1>7, <1>10, <1>11, <1>12

\* The entries a command will save are right.
LEMMA NextRight ==
  ASSUME DeclaredOnce, Unfiltered, TypeOK, StoreRight,
         NEW p \in Proc, NEW lost, Analyze(p, lost)
  PROVE  EntriesRight(This, job'.next) /\ View(job'.next) = job'.view /\ job'.view = src
<1> DEFINE w == waiting[p]
           restored == Restored(w, lost)
           next == [f \in File |-> IF f \in Present(src)
                                   THEN NextEntry(w, restored, f) ELSE NoEntry]
<1>1. job'.next = next /\ job'.view = src /\ ~ Broken(src) /\ w # None
  BY DEF Analyze
<1>2. \A f \in File : next[f].hash = src[f]
  <2>1. \A f \in Present(src) : NextEntry(w, restored, f).hash = src[f]
    BY DEF NextEntry
  <2>2. NoEntry.hash = None
    BY DEF NoEntry
  <2>3. QED
    BY <2>1, <2>2 DEF Present
<1>3. View(next) = src
  BY <1>2 DEF View, TypeOK
<1>4. Skipped(w, restored) = {}
  <2>1. w.cmd \in Command
    BY <1>1, WaitingType
  <2>2. w.cmd.tests = File
    BY <2>1, AllTests DEF TypeOK
  <2>3. QED
    BY <2>2 DEF Skipped, Present
<1>5. ASSUME NEW f \in Present(src)
      PROVE  /\ Dependents(src, f) \subseteq next[f].dependents
             /\ next[f].insts = Instances(src, f)
             /\ next[f].seen = Result(src, f)
  <2>1. f \in File /\ next[f] = NextEntry(w, restored, f)
    BY DEF Present
  <2>2. /\ NextEntry(w, restored, f).insts = Instances(src, f)
        /\ Dependents(src, f) \subseteq NextEntry(w, restored, f).dependents
    BY DEF NextEntry
  <2>3. CASE f \notin restored
    <3>1. NextEntry(w, restored, f).seen = Result(src, f)
      BY <1>4, <2>3 DEF NextEntry
    <3>2. QED
      BY <2>1, <2>2, <3>1
  <2>4. CASE f \in restored
    <3> DEFINE v == View(StoredFiles(w))
    <3>1. NextEntry(w, restored, f).seen = StoredFiles(w)[f].seen
      BY <2>4 DEF NextEntry
    <3>2. f \in Present(v) /\ Result(v, f) = Result(src, f)
      BY <1>1, <2>4, RestoredSame
    <3>3. StoredFiles(w)[f].seen = Result(v, f)
      BY <3>2, StoredRight DEF EntriesRight
    <3>4. QED
      BY <2>1, <2>2, <3>1, <3>2, <3>3
  <2>5. QED
    BY <2>3, <2>4
<1> HIDE DEF next
<1>6. EntriesRight(This, next)
  BY <1>1, <1>3, <1>5 DEF EntriesRight, StoreRight
<1>7. QED
  BY <1>1, <1>3, <1>6

\* At first nothing is stored.
LEMMA StoreRightInit == Init => StoreRight
<1> SUFFICES ASSUME Init PROVE StoreRight
  OBVIOUS
<1>1. src = This.src /\ store.files = NoFiles /\ job = None
  BY DEF Init
<1>2. Possible(This, src)
  BY <1>1 DEF Possible
<1>3. QED
  BY <1>1, <1>2, NoFilesRight DEF StoreRight

\* Every step keeps what is stored, and will be stored, right.
LEMMA StoreRightStep ==
  ASSUME DeclaredOnce, Unfiltered, TypeOK, StoreRight, [Next]_vars
  PROVE  StoreRight'
<1>0. scenario' = scenario /\ This' = This
  <2>1. scenario' = scenario
    BY DEF Next, vars, sources, Load, Analyze, AnalyzeFails, Clean, KillWaiting, EmitFile,
           EmitFails, SaveStore, SaveStoreFails, Finish, KillJob, Edit, Replace,
           RemoveOutput, Reconfigure
  <2>2. QED
    BY <2>1, SameCommands
<1>1. Possible(This, src')
  <2>1. CASE src' = src
    BY <2>1 DEF StoreRight
  <2>2. CASE \E f \in File : \E c \in This.variant[f] : src' = [src EXCEPT ![f] = c]
    BY <2>2 DEF StoreRight, Possible, TypeOK
  <2>3. QED
    BY <2>1, <2>2
       DEF Next, vars, sources, Load, Analyze, AnalyzeFails, Clean, KillWaiting, EmitFile,
           EmitFails, SaveStore, SaveStoreFails, Finish, KillJob, Edit, Replace,
           RemoveOutput, Reconfigure
<1>2. ASSUME NEW p \in Proc, NEW lost, Analyze(p, lost)
      PROVE  StoreRight'
  <2>1. store' = store
    BY <1>2 DEF Analyze
  <2>2. EntriesRight(This, job'.next) /\ View(job'.next) = job'.view
    BY <1>2, NextRight
  <2>3. QED
    BY <1>0, <1>1, <2>1, <2>2 DEF StoreRight
<1>3. CASE SaveStore
  <2>1. job # None /\ store' = [key |-> job.key, files |-> job.next]
        /\ job' = [job EXCEPT !.saved = TRUE]
    BY <1>3 DEF SaveStore
  <2>2. store'.files = job.next /\ job'.next = job.next /\ job'.view = job.view
    BY <2>1 DEF TypeOK, Job, JobOf
  <2>3. QED
    BY <1>0, <1>1, <2>1, <2>2 DEF StoreRight
<1>4. CASE store' = store /\ (job' # None => /\ job # None /\ job'.next = job.next
                                            /\ job'.view = job.view)
  BY <1>0, <1>1, <1>4 DEF StoreRight
<1>5. ASSUME NEW f \in File, EmitFile(f)
      PROVE  StoreRight'
  <2>1. job \in Job
    BY <1>5 DEF EmitFile, TypeOK
  <2>2. job'.next = job.next /\ job'.view = job.view
    BY <1>5, <2>1 DEF EmitFile, Job, JobOf
  <2>3. QED
    BY <1>4, <1>5, <2>2 DEF EmitFile
<1>6. CASE SaveStoreFails
  <2>1. job \in Job
    BY <1>6 DEF SaveStoreFails, TypeOK
  <2>2. job'.next = job.next /\ job'.view = job.view
    BY <1>6, <2>1 DEF SaveStoreFails, Job, JobOf
  <2>3. QED
    BY <1>4, <1>6, <2>2 DEF SaveStoreFails
<1>7. QED
  BY <1>2, <1>3, <1>4, <1>5, <1>6
     DEF Next, vars, Load, AnalyzeFails, Clean, KillWaiting,
         EmitFails, Finish, KillJob, Edit, Replace, RemoveOutput, Reconfigure

\* If no declaration moves between paths and no test is filtered out, a file
\* is restored only with the diagnostics of the analysis it would get now:
\* whatever else is edited, deleted or reconfigured, whichever commands are
\* killed or fail, whatever blobs are lost, and however processes overlap.
THEOREM AnalysisCurrentHolds ==
  ASSUME DeclaredOnce, Unfiltered
  PROVE  Spec => []AnalysisCurrent
<1> DEFINE Inv == TypeOK /\ JobPresent /\ StoreRight
<1>1. Init => Inv
  BY InitTypeOK, StoreRightInit DEF Init, JobPresent
<1>2. Inv /\ [Next]_vars => Inv'
  BY NextTypeOK, StoreRightStep
<1>3. Inv => AnalysisCurrent
  <2> SUFFICES ASSUME Inv, job # None, NEW f \in job.restored
               PROVE  job.next[f].seen = Result(job.view, f)
    BY DEF AnalysisCurrent
  <2>1. f \in Present(job.view)
    BY DEF JobPresent
  <2>2. QED
    BY <2>1 DEF StoreRight, EntriesRight
<1>4. QED
  BY <1>1, <1>2, <1>3, PTL DEF Spec

-----------------------------------------------------------------------------
(* The outputs *)

\* The build times that commands go by.
Infos == {info} \cup {waiting[p].info : p \in {q \in Proc : waiting[q] # None}}
AllInfos == Infos \cup (IF job = None THEN {} ELSE {job.info})

Output(v, key, f) == [result |-> Result(v, f), key |-> key]

\* With sources s and their times m, nothing says that g has changed since the
\* entries were saved or its output was written at i[g].
Fresh(files, s, m, i, g) ==
  files[g].hash = s[g] /\ m[g] <= i[g] /\ files[g].updated <= i[g]

\* If nothing says that f, or what it depends on, has changed, then its output
\* in o is the one the entries stand for.
Kept(files, key, s, m, o, i, f) ==
  /\ files[f].hash # None /\ i[f] # 0 /\ o[f] # None
  /\ \A g \in {f} \cup DependsOn(View(files), f) : Fresh(files, s, m, i, g)
  => o[f] = Output(View(files), key, f)

\* Outputs are not written in the future; a file that is not what the store
\* knows is newer than its output; outputs that look fresh are; and so they
\* will be when the command that is running has saved the store, which emits
\* all that it has not found to be right.
TimesFit ==
  /\ \A i \in AllInfos, f \in File : i[f] <= clock
  /\ \A f \in File : mtime[f] > 0
EditsShow ==
  \A i \in Infos, f \in File : store.files[f].hash # src[f] => mtime[f] > i[f]
OutKept ==
  job = None => \A i \in Infos, f \in File :
                  Kept(store.files, store.key, src, mtime, out, i, f)
JobKept ==
  job # None =>
    /\ job.view = src
    /\ \A i \in AllInfos, f \in File \ job.todo :
         Kept(job.next, job.key, src, mtime, out, i, f)
    /\ job.todo # {} => EmitsAll(job)
    /\ EmitsAll(job) => \A f \in Present(src) \ job.todo :
                          out[f] = Output(src, job.key, f)
    /\ job.saved => /\ job.todo = {}
                    /\ store = [key |-> job.key, files |-> job.next]

OutInv == TimesFit /\ EditsShow /\ OutKept /\ JobKept

\* Nothing goes wrong but that blobs of the store are lost.
Undisturbed == \A x \in Range(Scenario) : x.faults \subseteq {"blob_loss"}

\* A command is not none.
LEMMA SomeJob == ASSUME scenario \in DOMAIN Scenario PROVE None \notin Job
<1>1. This.kind \in SUBSET Kind /\ This.filter \in SUBSET SUBSET File
  BY ThisType
<1>2. \A c \in Command : c \in [kind: Kind, tests: SUBSET File]
  BY <1>1 DEF Command, Kind
<1>3. QED
  BY <1>2, NoJobAssumption DEF Job, JobOf

\* The times of a file.
LEMMA TimeNat ==
  ASSUME TypeOK
  PROVE  /\ clock \in Nat
         /\ \A i \in AllInfos, f \in File : i[f] \in Nat
         /\ \A f \in File : mtime[f] \in Nat
         /\ \A f \in File : store.files[f].updated \in Nat
         /\ \A w : \A f \in File : StoredFiles(w)[f].updated \in Nat
<1>1. \A t \in Time : t \in Nat
  BY IncrementalBuildAssumption DEF Time
<1>2. \A i \in AllInfos : i \in [File -> Time]
  <2>1. \A p \in Proc : waiting[p] # None => waiting[p].info \in [File -> Time]
    BY WaitingType
  <2>2. job # None => job.info \in [File -> Time]
    BY DEF TypeOK, Job, JobOf
  <2>3. info \in [File -> Time]
    BY DEF TypeOK
  <2>4. QED
    BY <2>1, <2>2, <2>3 DEF AllInfos, Infos
<1>3. clock \in Time /\ mtime \in [File -> Time] /\ store.files \in [File -> Entry]
  BY DEF TypeOK
<1>4. \A e \in Entry : e.updated \in Nat
  BY <1>1 DEF Entry
<1>5. \A w : StoredFiles(w) \in [File -> Entry]
  BY StoredType
<1>6. QED
  BY <1>1, <1>2, <1>3, <1>4, <1>5

\* At first nothing is stored.
LEMMA OutInit == Init => OutInv
<1> SUFFICES ASSUME Init PROVE OutInv
  OBVIOUS
<1>1. AllInfos = {info} /\ Infos = {info} /\ job = None
  BY DEF Init, AllInfos, Infos
<1>2. \A f \in File : info[f] = 0 /\ mtime[f] = 1 /\ store.files[f].hash = None
  BY DEF Init, NoFiles, NoEntry
<1>3. TimesFit /\ EditsShow
  BY <1>1, <1>2 DEF TimesFit, EditsShow, Init
<1>4. OutKept /\ JobKept
  BY <1>1, <1>2 DEF OutKept, JobKept, Kept
<1>5. QED
  BY <1>3, <1>4 DEF OutInv

\* An entry found in the store is one of the store's.
LEMMA StoredFound ==
  ASSUME NEW w, NEW f \in File, StoredFiles(w)[f].hash # None
  PROVE  StoredFiles(w) = store.files /\ store.key = w.key
  BY DEF StoredFiles, NoFiles, NoEntry

\* Of a file that looks fresh in what a command will save, nothing said before
\* that it, or what it depends on, had changed.
LEMMA AnalyzeKept ==
  ASSUME DeclaredOnce, TypeOK, StoreRight, OutInv,
         NEW p \in Proc, NEW lost, Analyze(p, lost),
         NEW i \in Infos, NEW f \in File
  PROVE  Kept(job'.next, job'.key, src, mtime, out, i, f)
<1> DEFINE w == waiting[p]
           next == [g \in File |-> IF g \in Present(src)
                                   THEN NextEntry(w, Restored(w, lost), g) ELSE NoEntry]
<1>1. job'.next = next /\ job'.key = w.key /\ ~ Broken(src) /\ job = None
  BY DEF Analyze
<1>2. \A g \in File : /\ next[g].hash = src[g]
                      /\ g \in Present(src) => next[g].updated = UpdatedTime(w, g)
  <2>1. \A g \in Present(src) : /\ NextEntry(w, Restored(w, lost), g).hash = src[g]
                                /\ NextEntry(w, Restored(w, lost), g).updated = UpdatedTime(w, g)
    BY DEF NextEntry
  <2>2. NoEntry.hash = None
    BY DEF NoEntry
  <2>3. QED
    BY <2>1, <2>2 DEF Present
<1>3. View(next) = src
  BY <1>2 DEF View, TypeOK
<1> HIDE DEF next, w
<1>4. SUFFICES ASSUME f \in Present(src), i[f] # 0, out[f] # None,
                      \A g \in {f} \cup DependsOn(src, f) : Fresh(next, src, mtime, i, g)
               PROVE  out[f] = Output(src, w.key, f)
  BY <1>1, <1>2, <1>3 DEF Kept, Present
<1> DEFINE v == View(store.files)
<1>5. ASSUME NEW g \in {f} \cup DependsOn(src, f)
      PROVE  /\ StoredFiles(w) = store.files /\ store.key = w.key
             /\ store.files[g].insts = Instances(src, g)
             /\ Fresh(store.files, src, mtime, i, g)
             /\ v[g] = src[g]
  <2>1. g \in Present(src) /\ g \in File
    BY <1>4, DependsPresent DEF Present
  <2>2. mtime[g] <= i[g] /\ UpdatedTime(w, g) <= i[g]
    BY <1>2, <1>4, <2>1 DEF Fresh
  <2>3. i[g] <= clock /\ i[g] \in Nat /\ clock \in Nat /\ mtime[g] \in Nat
    BY <2>1, TimeNat DEF OutInv, TimesFit, AllInfos
  <2>4. UpdatedTime(w, g) # clock + 1
    BY <2>2, <2>3
  <2>5. /\ StoredFiles(w)[g].hash # None
        /\ StoredFiles(w)[g].insts = Instances(src, g)
        /\ UpdatedTime(w, g) = StoredFiles(w)[g].updated
    BY <2>4 DEF UpdatedTime
  <2>6. StoredFiles(w) = store.files /\ store.key = w.key
    BY <2>1, <2>5, StoredFound
  <2>7. ~ (mtime[g] > i[g])
    BY <2>2, <2>3
  <2>8. store.files[g].hash = src[g]
    BY <2>1, <2>7 DEF OutInv, EditsShow
  <2>9. QED
    BY <2>1, <2>2, <2>5, <2>6, <2>8 DEF Fresh, View
<1>6. EntriesRight(This, store.files) /\ Possible(This, src) /\ This \in Range(Scenario)
  BY DEF StoreRight, TypeOK, This, Range
<1>7. SameOwners(v, src)
  BY <1>6, PossibleOwners DEF EntriesRight
<1>8. DependsOn(v, f) = DependsOn(src, f)
  BY <1>1, <1>5, <1>7, SameDepends
<1>9. f \in Present(v) /\ store.files[f].hash # None
  BY <1>4, <1>5 DEF Present, View
<1>10. Kept(store.files, store.key, src, mtime, out, i, f)
  BY <1>1 DEF OutInv, OutKept
<1>11. out[f] = Output(v, store.key, f)
  BY <1>4, <1>5, <1>8, <1>9, <1>10 DEF Kept
<1>12. Result(v, f) = Result(src, f)
  <2>1. Instances(v, f) = Instances(src, f)
    BY <1>5, <1>6, <1>9 DEF EntriesRight
  <2>2. QED
    BY <1>1, <1>5, <1>7, <2>1, SameResult
<1>13. QED
  BY <1>5, <1>11, <1>12 DEF Output

\* A command that emits has found the outputs of the files it restores right.
LEMMA RestoredKept ==
  ASSUME DeclaredOnce, Unfiltered, TypeOK, StoreRight, OutInv,
         NEW p \in Proc, NEW lost, Analyze(p, lost), EmitsAll(job'),
         NEW f \in Present(src) \ job'.todo
  PROVE  out[f] = Output(src, job'.key, f)
<1> DEFINE w == waiting[p]
           v == View(StoredFiles(w))
<1>1. /\ job'.key = w.key /\ job'.cmd = w.cmd /\ job'.view = src /\ ~ Broken(src)
      /\ job'.todo = ToEmit(w, Restored(w, lost)) /\ job = None /\ w # None
  BY DEF Analyze
<1>2. w.cmd.tests = File /\ w.info \in Infos
  <2>1. w.cmd \in Command
    BY <1>1, WaitingType
  <2>2. QED
    BY <1>1, <2>1, AllTests DEF TypeOK, Infos
<1> HIDE DEF w
<1>3. \/ w.cmd.kind = "build"
      \/ w.cmd.kind = "test" /\ ~ TestsAreAllNative(src)
  BY <1>1 DEF EmitsAll
<1>4. ConsiderOutput(w)
  BY <1>3 DEF ConsiderOutput
<1>5. f \in Restored(w, lost) /\ f \in File
  <2>1. Skipped(w, Restored(w, lost)) = {}
    BY <1>2 DEF Skipped, Present
  <2>2. QED
    BY <1>1, <1>3, <2>1 DEF ToEmit, Present
<1>6. /\ f \in Present(v)
      /\ \A g \in {f} \cup DependsOn(v, f) : Hit(w, g) /\ src[g] = v[g]
      /\ Result(v, f) = Result(src, f)
  BY <1>1, <1>5, RestoredSame
<1>7. StoredFiles(w) = store.files /\ store.key = w.key
  <2>1. StoredFiles(w)[f].hash # None
    BY <1>5, <1>6 DEF Present, View
  <2>2. QED
    BY <1>5, <2>1, StoredFound
<1>8. ASSUME NEW g \in {f} \cup DependsOn(v, f)
      PROVE  Fresh(store.files, src, mtime, w.info, g) /\ w.info[g] # 0 /\ out[g] # None
  <2>1. g \in File
    BY <1>5, DependsWalked
  <2>2. ~ DstIsStale(w, g) /\ StoredFiles(w)[g].hash = src[g]
    BY <1>4, <1>6 DEF Hit
  <2>3. /\ w.info[g] # 0 /\ out[g] # None /\ ~ (mtime[g] > w.info[g])
        /\ ~ (StoredFiles(w)[g].updated > w.info[g])
    BY <2>2 DEF DstIsStale
  <2>4. w.info[g] \in Nat /\ mtime[g] \in Nat /\ store.files[g].updated \in Nat
    BY <1>2, <2>1, TimeNat DEF AllInfos
  <2>5. mtime[g] <= w.info[g] /\ store.files[g].updated <= w.info[g]
    BY <1>7, <2>3, <2>4
  <2>6. QED
    BY <1>7, <2>2, <2>3, <2>5 DEF Fresh
<1>9. Kept(store.files, store.key, src, mtime, out, w.info, f)
  BY <1>1, <1>2, <1>5 DEF OutInv, OutKept
<1>10. out[f] = Output(View(store.files), store.key, f)
  BY <1>5, <1>6, <1>7, <1>8, <1>9 DEF Kept, Present, View
<1>11. QED
  BY <1>1, <1>6, <1>7, <1>10 DEF Output

\* A command starts.
LEMMA OutAnalyze ==
  ASSUME DeclaredOnce, Unfiltered, TypeOK, StoreRight, OutInv,
         NEW p \in Proc, NEW lost, Analyze(p, lost)
  PROVE  OutInv'
<1> DEFINE w == waiting[p]
<1>1. /\ job'.key = w.key /\ job'.cmd = w.cmd /\ job'.view = src /\ job'.info = w.info
      /\ job'.todo = ToEmit(w, Restored(w, lost)) /\ job = None /\ w # None
      /\ job'.saved = FALSE /\ clock' = clock + 1
      /\ waiting' = [waiting EXCEPT ![p] = None]
      /\ UNCHANGED <<src, mtime, out, info, store>>
  BY DEF Analyze, sources
<1>2. w.cmd.tests = File /\ w.info \in Infos
  <2>1. w.cmd \in Command
    BY <1>1, WaitingType
  <2>2. QED
    BY <1>1, <2>1, AllTests DEF TypeOK, Infos
<1> HIDE DEF w
<1>3. Infos' \subseteq Infos /\ AllInfos' \subseteq Infos
  <2>1. \A q \in Proc : waiting'[q] # None => waiting'[q] = waiting[q]
    BY <1>1 DEF TypeOK
  <2>2. Infos' \subseteq Infos
    BY <1>1, <2>1 DEF Infos
  <2>3. QED
    BY <1>1, <1>2, <2>2 DEF AllInfos
<1>4. TimesFit'
  <2>1. \A i \in Infos, f \in File : i[f] <= clock /\ i[f] \in Nat /\ clock \in Nat
    BY TimeNat DEF OutInv, TimesFit, AllInfos
  <2>2. \A i \in Infos, f \in File : i[f] <= clock + 1
    BY <2>1
  <2>3. QED
    BY <1>1, <1>3, <2>2 DEF TimesFit, OutInv
<1>5. EditsShow' /\ OutKept'
  BY <1>1, <1>3 DEF OutInv, EditsShow, OutKept
<1>6. JobKept'
  <2>1. \A i \in AllInfos', f \in File : Kept(job'.next, job'.key, src, mtime, out, i, f)
    BY <1>3, AnalyzeKept
  <2>2. job'.todo # {} => EmitsAll(job')
    BY <1>1, <1>2 DEF ToEmit, EmitsAll
  <2>3. EmitsAll(job') => \A f \in Present(src) \ job'.todo :
                            out[f] = Output(src, job'.key, f)
    BY RestoredKept
  <2>4. QED
    BY <1>1, <2>1, <2>2, <2>3 DEF JobKept, EmitsAll
<1>7. QED
  BY <1>4, <1>5, <1>6 DEF OutInv

\* A command writes an output.
LEMMA OutEmit ==
  ASSUME TypeOK, StoreRight, OutInv, NEW f \in File, EmitFile(f)
  PROVE  OutInv'
<1>1. /\ job # None /\ f \in job.todo
      /\ UNCHANGED <<src, mtime, clock, info, store, waiting, scenario>>
      /\ out' = [out EXCEPT ![f] = Output(job.view, job.key, f)]
  BY DEF EmitFile, Output, sources
<1>2. job \in Job
  BY <1>1 DEF TypeOK
<1>3. job' = [job EXCEPT !.todo = job.todo \ {f}, !.info = [job.info EXCEPT ![f] = clock]]
  BY <1>2 DEF EmitFile, Job, JobOf
<1>4. /\ job'.todo = job.todo \ {f} /\ job'.info = [job.info EXCEPT ![f] = clock]
      /\ job'.next = job.next /\ job'.key = job.key /\ job'.cmd = job.cmd
      /\ job'.view = job.view /\ job'.saved = job.saved
      /\ job.info \in [File -> Time]
  BY <1>2, <1>3 DEF Job, JobOf
<1>5. job' # None
  <2>1. clock \in Time /\ scenario \in DOMAIN Scenario
    BY DEF TypeOK
  <2>2. job' \in Job
    BY <1>2, <1>3, <2>1 DEF Job, JobOf
  <2>3. QED
    BY <2>1, <2>2, SomeJob
<1>6. EmitsAll(job) /\ EmitsAll(job') /\ job.view = src /\ ~ job.saved
  BY <1>1, <1>4 DEF OutInv, JobKept, EmitsAll
<1>7. \A g \in Present(src) \ job'.todo : out'[g] = Output(src, job.key, g)
  <2>1. \A g \in Present(src) : g \in File
    BY DEF Present
  <2>2. \A g \in Present(src) \ job'.todo : g = f \/ g \in Present(src) \ job.todo
    BY <1>4
  <2>3. QED
    BY <1>1, <1>6, <2>1, <2>2 DEF TypeOK, OutInv, JobKept
<1>8. View(job.next) = src
  BY <1>1, <1>6 DEF StoreRight
<1>9. Infos' = Infos
  BY <1>1 DEF Infos
<1>10. TimesFit'
  <2>1. \A g \in File : job'.info[g] \in {job.info[g], clock}
    BY <1>4
  <2>2. clock \in Nat /\ clock <= clock
    BY TimeNat
  <2>3. QED
    BY <1>1, <1>5, <1>9, <2>1, <2>2 DEF OutInv, TimesFit, AllInfos
<1>11. EditsShow' /\ OutKept'
  BY <1>1, <1>5, <1>9 DEF OutInv, EditsShow, OutKept
<1>12. JobKept'
  <2>1. ASSUME NEW i, NEW g \in File \ job'.todo
        PROVE  Kept(job.next, job.key, src, mtime, out', i, g)
    <3>1. job.next[g].hash # None => g \in Present(src)
      BY <1>8 DEF View, Present
    <3>2. QED
      BY <1>7, <1>8, <3>1 DEF Kept
  <2>4. QED
    BY <1>1, <1>4, <1>6, <1>7, <2>1 DEF JobKept
<1>13. QED
  BY <1>10, <1>11, <1>12 DEF OutInv

\* Steps that only take outputs away, and build times that are known or none.
LEMMA OutFrame ==
  ASSUME OutInv, UNCHANGED <<src, mtime, clock, store, job>>,
         \A i \in Infos' : i \in Infos \/ \A f \in File : i[f] = 0,
         \A f \in File : out'[f] = out[f] \/ (job = None /\ out'[f] = None),
         clock \in Nat, \A f \in File : mtime[f] \in Nat
  PROVE  OutInv'
<1>1. \A i \in AllInfos' : i \in AllInfos \/ \A f \in File : i[f] = 0
  BY DEF AllInfos
<1>2. TimesFit'
  <2>1. \A i \in AllInfos', f \in File : i[f] <= clock
    BY <1>1 DEF OutInv, TimesFit
  <2>2. QED
    BY <2>1 DEF OutInv, TimesFit
<1>3. EditsShow'
  BY DEF OutInv, EditsShow, TimesFit
<1>4. OutKept'
  <2> SUFFICES ASSUME job = None, NEW i \in Infos', NEW f \in File, i[f] # 0, out'[f] # None
               PROVE  Kept(store.files, store.key, src, mtime, out', i, f)
    BY DEF OutKept, Kept
  <2>1. i \in Infos /\ out'[f] = out[f]
    OBVIOUS
  <2>2. Kept(store.files, store.key, src, mtime, out, i, f)
    BY <2>1 DEF OutInv, OutKept
  <2>3. QED
    BY <2>1, <2>2 DEF Kept
<1>5. JobKept'
  <2> SUFFICES ASSUME job # None PROVE JobKept'
    BY DEF JobKept
  <2>1. \A f \in File : out'[f] = out[f]
    OBVIOUS
  <2>2. ASSUME NEW i \in AllInfos', NEW f \in File \ job.todo
        PROVE  Kept(job.next, job.key, src, mtime, out', i, f)
    <3>1. CASE i \in AllInfos
      <4>1. Kept(job.next, job.key, src, mtime, out, i, f)
        BY <3>1 DEF OutInv, JobKept
      <4>2. QED
        BY <2>1, <4>1 DEF Kept
    <3>2. CASE \A g \in File : i[g] = 0
      BY <3>2 DEF Kept
    <3>3. QED
      BY <1>1, <3>1, <3>2
  <2>3. EmitsAll(job) => \A f \in Present(src) \ job.todo :
                           out'[f] = Output(src, job.key, f)
    BY <2>1 DEF OutInv, JobKept, Present
  <2>4. QED
    BY <2>2, <2>3 DEF OutInv, JobKept, EmitsAll
<1>6. QED
  BY <1>2, <1>3, <1>4, <1>5 DEF OutInv

\* The store is saved.
LEMMA OutSave ==
  ASSUME TypeOK, StoreRight, OutInv, SaveStore
  PROVE  OutInv'
<1>1. /\ job # None /\ job.todo = {} /\ store' = [key |-> job.key, files |-> job.next]
      /\ job' = [job EXCEPT !.saved = TRUE]
      /\ UNCHANGED <<src, mtime, clock, out, info, waiting, scenario>>
  BY DEF SaveStore, sources
<1>2. job \in Job
  BY <1>1 DEF TypeOK
<1>3. /\ job'.todo = job.todo /\ job'.info = job.info
      /\ job'.next = job.next /\ job'.key = job.key /\ job'.cmd = job.cmd
      /\ job'.view = job.view /\ job' \in Job
  BY <1>1, <1>2 DEF Job, JobOf
<1>4. job' # None
  BY <1>3, SomeJob DEF TypeOK
<1>5. Infos' = Infos /\ AllInfos' = AllInfos
  BY <1>1, <1>3, <1>4 DEF Infos, AllInfos
<1>6. job.view = src /\ View(job.next) = src
  BY <1>1 DEF OutInv, JobKept, StoreRight
<1>7. TimesFit' /\ OutKept'
  BY <1>1, <1>4, <1>5 DEF OutInv, TimesFit, OutKept
<1>8. EditsShow'
  <2>1. \A f \in File : job.next[f].hash = src[f]
    BY <1>6 DEF View
  <2>2. store'.files = job.next
    BY <1>1
  <2>3. QED
    BY <1>1, <2>1, <2>2 DEF EditsShow
<1>9. JobKept'
  BY <1>1, <1>3, <1>5 DEF OutInv, JobKept, EmitsAll
<1>10. QED
  BY <1>7, <1>8, <1>9 DEF OutInv

\* A command has succeeded.
LEMMA OutFinish ==
  ASSUME TypeOK, StoreRight, OutInv, OutputsCurrent, Finish
  PROVE  OutInv' /\ OutputsCurrent'
<1>1. /\ job # None /\ job.saved /\ job' = None /\ info' \in {info, job.info}
      /\ UNCHANGED <<src, mtime, clock, out, waiting, config, store>>
  BY DEF Finish, sources
<1>2. Infos' \subseteq AllInfos /\ AllInfos' = Infos'
  BY <1>1 DEF Infos, AllInfos
<1>3. /\ job.todo = {} /\ store.key = job.key /\ store.files = job.next
      /\ job.view = src /\ View(job.next) = src
  BY <1>1 DEF OutInv, JobKept, StoreRight
<1>4. TimesFit'
  BY <1>1, <1>2 DEF OutInv, TimesFit
<1>5. EditsShow'
  <2>1. \A f \in File : store.files[f].hash = src[f]
    BY <1>3 DEF View
  <2>2. QED
    BY <1>1, <2>1 DEF EditsShow
<1>6. OutKept'
  BY <1>1, <1>2, <1>3 DEF OutInv, JobKept, OutKept
<1>7. JobKept'
  BY <1>1 DEF JobKept
<1>8. OutputsCurrent'
  <2> SUFFICES ASSUME promised', NEW f \in Present(src)
               PROVE  out[f] = Output(src, config, f)
    BY <1>1 DEF OutputsCurrent, Output
  <2>1. CASE promised
    BY <2>1 DEF OutputsCurrent, Output
  <2>2. CASE EmitsAll(job) /\ job.key = config
    BY <1>1, <1>3, <2>2 DEF OutInv, JobKept
  <2>3. QED
    BY <2>1, <2>2 DEF Finish
<1>9. QED
  BY <1>4, <1>5, <1>6, <1>7, <1>8 DEF OutInv

\* An edit shows in the time of the file.
LEMMA OutEdit ==
  ASSUME TypeOK, OutInv, job = None, NEW h \in File, NEW c, Edit(h, c)
  PROVE  OutInv'
<1>1. /\ src' = [src EXCEPT ![h] = c] /\ clock' = clock + 1
      /\ mtime' = [mtime EXCEPT ![h] = clock + 1]
      /\ UNCHANGED <<out, info, store, waiting, job>>
  BY DEF Edit
<1>2. Infos' = Infos /\ AllInfos' = AllInfos /\ AllInfos = Infos
  BY <1>1 DEF Infos, AllInfos
<1>3. /\ clock \in Nat
      /\ \A i \in Infos, f \in File : i[f] <= clock /\ i[f] \in Nat
      /\ \A f \in File : mtime[f] \in Nat /\ mtime[f] > 0
  BY <1>2, TimeNat DEF OutInv, TimesFit
<1>4. \A i \in Infos : ~ (mtime'[h] <= i[h]) /\ mtime'[h] > i[h]
  <2>1. mtime'[h] = clock + 1
    BY <1>1 DEF TypeOK
  <2>2. QED
    BY <1>3, <2>1
<1>5. \A f \in File : f # h => mtime'[f] = mtime[f] /\ src'[f] = src[f]
  BY <1>1 DEF TypeOK
<1>6. TimesFit'
  <2>1. \A i \in Infos, f \in File : i[f] <= clock + 1
    BY <1>3
  <2>2. \A f \in File : mtime'[f] > 0
    BY <1>1, <1>3 DEF TypeOK
  <2>3. QED
    BY <1>1, <1>2, <2>1, <2>2 DEF TimesFit
<1>7. EditsShow'
  BY <1>1, <1>2, <1>4, <1>5 DEF OutInv, EditsShow
<1>8. OutKept'
  <2> SUFFICES ASSUME NEW i \in Infos, NEW f \in File
               PROVE  Kept(store.files, store.key, src', mtime', out, i, f)
    BY <1>1, <1>2 DEF OutKept
  <2>1. \A g \in File : Fresh(store.files, src', mtime', i, g) =>
                          Fresh(store.files, src, mtime, i, g)
    BY <1>4, <1>5 DEF Fresh
  <2>2. Kept(store.files, store.key, src, mtime, out, i, f)
    BY DEF OutInv, OutKept
  <2>3. DependsOn(View(store.files), f) \subseteq File
    BY DependsWalked
  <2>4. QED
    BY <2>1, <2>2, <2>3 DEF Kept
<1>9. JobKept'
  BY <1>1 DEF JobKept
<1>10. QED
  BY <1>6, <1>7, <1>8, <1>9 DEF OutInv

\* Every step preserves OutInv, and what a build has promised.
LEMMA OutStep ==
  ASSUME DeclaredOnce, Unfiltered, Undisturbed, TypeOK, StoreRight, OutInv, OutputsCurrent,
         [Next]_vars
  PROVE  OutInv' /\ OutputsCurrent'
<1>0. This.faults \subseteq {"blob_loss"}
  BY DEF Undisturbed, TypeOK, This, Range
<1>1. clock \in Nat /\ \A f \in File : mtime[f] \in Nat
  BY TimeNat
<1>2. CASE UNCHANGED vars
  <2>1. Infos' = Infos
    BY <1>2 DEF vars, Infos
  <2>2. OutInv'
    BY <1>1, <1>2, <2>1, OutFrame DEF vars
  <2>3. QED
    BY <1>2, <2>2 DEF vars, OutputsCurrent
<1>3. ASSUME NEW p \in Proc, NEW c \in Command, Load(p, c)
      PROVE  OutInv' /\ OutputsCurrent'
  <2>1. /\ UNCHANGED <<src, mtime, config, clock, out, info, store, job, promised>>
        /\ waiting' = [waiting EXCEPT ![p] = [cmd |-> c, key |-> config, info |-> info]]
    BY <1>3 DEF Load, sources
  <2>2. \A q \in Proc : waiting'[q] = waiting[q] \/ waiting'[q].info = info
    BY <2>1 DEF TypeOK
  <2>3. Infos' \subseteq Infos
    BY <2>1, <2>2 DEF Infos
  <2>4. OutInv'
    BY <1>1, <2>1, <2>3, OutFrame
  <2>5. QED
    BY <2>1, <2>4 DEF OutputsCurrent
<1>4. ASSUME NEW p \in Proc, NEW lost \in SUBSET File, Analyze(p, lost)
      PROVE  OutInv' /\ OutputsCurrent'
  BY <1>4, OutAnalyze DEF Analyze, sources, OutputsCurrent
<1>5. ASSUME NEW p \in Proc, AnalyzeFails(p) \/ KillWaiting(p) \/ Clean(p)
      PROVE  OutInv' /\ OutputsCurrent'
  <2>1. /\ UNCHANGED <<src, mtime, config, clock, store, job>>
        /\ waiting' = [waiting EXCEPT ![p] = None] /\ waiting[p] # None
        /\ info' \in {info, waiting[p].info} \/ \A f \in File : info'[f] = 0
        /\ \A f \in File : out'[f] = out[f] \/ (job = None /\ out'[f] = None)
        /\ promised' => promised /\ out' = out
    BY <1>5 DEF AnalyzeFails, KillWaiting, Clean, sources
  <2>2. \A q \in Proc : waiting'[q] # None => waiting'[q] = waiting[q]
    BY <2>1 DEF TypeOK
  <2>3. \A i \in Infos' : i \in Infos \/ \A f \in File : i[f] = 0
    BY <2>1, <2>2 DEF Infos
  <2>4. OutInv'
    BY <1>1, <2>1, <2>3, OutFrame
  <2>5. QED
    BY <2>1, <2>4 DEF OutputsCurrent
<1>6. ASSUME NEW f \in File, EmitFile(f)
      PROVE  OutInv' /\ OutputsCurrent'
  BY <1>6, OutEmit DEF EmitFile, OutputsCurrent
<1>7. CASE SaveStore
  BY <1>7, OutSave DEF SaveStore, sources, OutputsCurrent
<1>8. CASE Finish
  BY <1>8, OutFinish
<1>9. ASSUME NEW f \in File, NEW c, Edit(f, c)
      PROVE  OutInv' /\ OutputsCurrent'
  <2>1. job = None
    BY <1>0, <1>9 DEF Edit, UserMayEdit
  <2>2. QED
    BY <1>9, <2>1, OutEdit DEF Edit, OutputsCurrent
<1>10. ASSUME NEW f \in File, RemoveOutput(f)
       PROVE  OutInv' /\ OutputsCurrent'
  <2>1. /\ UNCHANGED <<src, mtime, clock, info, store, waiting, job>> /\ promised' = FALSE
        /\ \A g \in File : out'[g] = out[g] \/ (job = None /\ out'[g] = None)
    BY <1>10 DEF RemoveOutput, sources, TypeOK
  <2>2. Infos' = Infos
    BY <2>1 DEF Infos
  <2>3. OutInv'
    BY <1>1, <2>1, <2>2, OutFrame
  <2>4. QED
    BY <2>1, <2>3 DEF OutputsCurrent
<1>11. ASSUME NEW k, Reconfigure(k)
       PROVE  OutInv' /\ OutputsCurrent'
  <2>1. Infos' = Infos
    BY <1>11 DEF Reconfigure, Infos
  <2>2. OutInv'
    BY <1>1, <1>11, <2>1, OutFrame DEF Reconfigure
  <2>3. QED
    BY <1>11, <2>2 DEF Reconfigure, OutputsCurrent
<1>12. /\ ~ EmitFails /\ ~ SaveStoreFails /\ ~ KillJob
       /\ \A f, c, t : ~ Replace(f, c, t)
  BY <1>0 DEF EmitFails, SaveStoreFails, KillJob, Replace
<1>13. QED
  BY <1>2, <1>3, <1>4, <1>5, <1>6, <1>7, <1>8, <1>9, <1>10, <1>11, <1>12 DEF Next

\* As long as commands run to their end and sources are not changed under them,
\* or replaced by older files, a build leaves every output as a build from
\* nothing would write it, whatever was built, checked, tested, cleaned, edited,
\* reconfigured or lost from the store before, and whichever build times the
\* overlapping processes had read.
THEOREM OutputsCurrentHolds ==
  ASSUME DeclaredOnce, Unfiltered, Undisturbed
  PROVE  Spec => []OutputsCurrent
<1> DEFINE Inv == TypeOK /\ JobPresent /\ StoreRight /\ OutInv /\ OutputsCurrent
<1>1. Init => Inv
  BY OutInit, StoreRightInit, InitTypeOK DEF Init, OutputsCurrent, JobPresent
<1>2. Inv /\ [Next]_vars => Inv'
  BY NextTypeOK, StoreRightStep, OutStep
<1>3. QED
  BY <1>1, <1>2, PTL DEF Spec

=============================================================================
