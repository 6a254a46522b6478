# Verification of the Veryl toolchain

Veryl is a hardware description language. The repository holds its compiler
(to SystemVerilog), the incremental build around it, a language server, a
simulator, a synthesizer, a package manager and a standard library. This
directory holds TLA+ models of the parts of it that keep state between steps or
share it between processes and threads, the TLC configurations that check them
on small instances, and proofs checked by TLAPS.

Contents: [inventory](#inventory), [modules](#modules), [runs](#runs),
[proofs](#proofs), [findings](#findings), [not modelled](#not-modelled),
[plan](#plan).

## Inventory

Most of the 550,000 lines of Rust are sequential functions of a syntax tree or an
intermediate representation (parser, analyzer, emitter, formatter, simulator
backends). What is hard to test is around them: state that outlives a process
and state shared by several.

| component | state | operations | interacts with |
|---|---|---|---|
| cache store, `crates/cache` | `.build/cache`: manifest, blobs, lock; in memory the manifest, the next one, `on_disk_current` | open, try_open, read and write blobs, put, save, gc | opened by the processes of the build driver; another one, `.build/cache-ls`, by language servers |
| build driver and commands, `crates/veryl` (`incremental.rs`, `pipeline.rs`, `cmd_*.rs`, `main.rs`) | `.build/info.toml`, the outputs, the store, the `.build` lock | load, analyse, restore, emit, save, clean | the user's editor and other commands change the same files |
| language server, `crates/languageserver` | two channels; `document_map`, `latest_change`, `background_tasks`, `background_done`; the analyzer's tables | one handler per message of the protocol, the server thread's loop, the background analysis | editor, file system, cache store |
| metadata and lockfile, `crates/metadata` | `Veryl.lock`; checkouts of dependencies in a cache shared by all projects, the locks `resolve` and `dependencies` | walk the dependencies, resolve versions, clone, fetch, check out, update, publish | git, other veryl processes, the analyzer, which looks locks up |
| standard library expansion, `crates/std` | a directory of files and the marker `expanded` | expand | other veryl processes |
| simulator, `crates/simulator` | variables, event lists, derived clocks, dirty sets, write log | step, fire derived clocks, testbench statements | foreign components, generated code |
| analyzer, `crates/analyzer` | global tables (symbols, references, scopes, type graph) | pass1, post pass1, pass2, post pass2, drop_file, capture, restore | all of the above |
| hardware of the standard library, `crates/std/veryl` | registers, RAMs, pointers on one or two clocks | a clock edge, a reset | the designs that instantiate it |
| parser, migrator, emitter, formatter, aligner, pretty, sourcemap, translator, synthesizer | none between calls | pure | commands |

What is hard, and what makes each part correct:

* **Cache store.** Processes interleave, die anywhere, are refused the lock, fail
  to write; files are damaged. Correct: what is restored is what analysis would
  have produced, with its warnings; the manifest on disk names only blobs that
  exist.
* **Incremental build.** Long sequences of edits and commands, some failing half
  way; times compared across processes; a dependency map one run old. Correct:
  the outputs after a successful build, and the diagnostics of a restored file,
  are those of a build from nothing.
* **Language server.** Async handlers overtake each other; the editor renames and
  deletes while a background task is under way; answers travel on one shared
  channel. Correct: answers belong to their question and its text, diagnostics
  and tables are complete once the server is idle, nobody waits for ever.
* **Lockfile.** The dependencies form a graph, with cycles, that is walked in the order of a
  hash map and resolved against a remote that moves. Correct: every recorded dependency is
  locked, once for each set of properties it is used with; names do not clash; a build keeps
  to what is locked; the file settles.
* **Shared cache.** Clone, fetch and checkout may fail or be killed in between, and what they
  leave is read after the lock is given up. Correct: a checkout accepted for a revision holds
  that revision, a lookup is not older than its fetch, and the standard library is whole.
* **Asynchronous FIFO.** Two unrelated clocks; bits that arrive late; pointers seen several
  edges after they moved; resets of either side at any time. Correct: data come out once and
  in order, flags never promise too much, no word is read while it is written, nothing is
  stuck.
* **Simulator step.** A design makes clocks and resets of its own. Their edges are found within
  the step of the clock that causes them, in three places, by comparing with levels recorded
  earlier. Correct: no edge is served twice or not at all, an asserted reset holds, and the
  step ends.

The hazards, each at its line and with the properties that would catch it, are
in `PROJECT.json`.

## Modules

| module | models | extends |
|---|---|---|
| `CacheStore` | the store and its clients | |
| `CacheStoreProofs` | theorems about it | `CacheStore`, TLAPS |
| `IncrementalBuild` | build driver, commands, user | Functions |
| `IncrementalBuildProofs` | theorems about it | `IncrementalBuild`, TLAPS |
| `LanguageServer` | editor, Backend, Server | |
| `LanguageServerProofs` | theorems about it | `LanguageServer`, TLAPS |
| `AsyncFifo` | `async_fifo` with its reset and pointer synchronizers | |
| `AsyncFifoProofs` | theorems about it | `AsyncFifo`, TLAPS |
| `GrayCode` | `gray_encoder`, `gray_decoder` | |
| `MCAsyncFifo` | `async_fifo` with that encoder and decoder | `AsyncFifo`, `GrayCode` |
| `AbstractFifo` | what a FIFO promises; `AsyncFifo` implements it | |
| `Lockfile` | `Veryl.lock`: the walk over the dependencies, `new`, `load`, `update`, `save` | |
| `LockfileProofs` | theorems about it | `Lockfile`, TLAPS |
| `SharedCache` | the cache directory of all processes: clones, checkouts, standard library | |
| `SharedCacheProofs` | theorems about it | `SharedCache`, TLAPS |
| `DerivedClocks` | a simulator step with derived clocks and resets | |
| `DerivedClocksProofs` | theorems about it | `DerivedClocks`, TLAPS |
| `MC...` | constants for TLC | the module named |

`IncrementalBuild` and `LanguageServer` use the store as `CacheStore` establishes
it: what is restored is what was captured for the same content (`RestoreSound`)
or nothing is (the fault `blob_loss`). `Lockfile` uses the shared cache as `SharedCache`
establishes it: the manifest read for a source is that of the release (`RightRevision`), and the
releases read are at least as new as the fetch (`FreshLookup`).

### CacheStore

A blob is identified with the payload it is named after, so "the file of blob
`b` holds `b`" is what `read_blob` tests by hashing the bytes again; anything else
in the file is `Garbage`. `pc[c]` follows a client through `open` (or `try_open`,
for the language servers), the scan (`Restore`, `Capture`, `LeaveOut`), the recording of
dependents, tests and diagnostics, and `Store::save`: skip when nothing changed,
write the manifest, list the blobs, remove them one by one. Every file operation
is a step, between which another process may act, or this one die (`Drop`).
Builders and language servers have stores of their own (`.build/cache`, `.build/cache-ls`), so `Server` is all of the clients or none.
`LockFaults`, `WriteFaults` and `Damage` switch on the refused lock
(the store is then used without one, as the code does), failed writes and
removals, and damage from outside. The global key stands for the compiler binary,
the options, the lockfile and the defines it is computed from.

### IncrementalBuild

A source's content is a record of what matters to the driver: a revision, what it
declares, what it uses, which generic instances it makes, whether it holds a native
or an external test. `Result(s, f)` is what pass2 and the emitter make of `f` among
sources `s`: it depends on the file, on those it depends on transitively, and on the
instances of its generics that others register. `DependsOn(s, f)` is the least set of files that a walk from
`f` along the edges `Uses` of the type graph cannot leave, which is what the code's depth-first walk visits. An output holds a `Result` and the key
it was emitted under; an entry's `seen` is the `Result` its stored diagnostics belong
to. These two are what the properties compare; no guard reads them.

A command loads `Veryl.toml` and `info.toml` (`Load`) before it waits for the lock on
`.build`, as `main` does, so what it has read may be old when it proceeds. `Analyze`
stands for the whole of `pipeline::analyze`: the miss set, the second attempt when
generic instances changed or a test run was wrongly predicted to emit nothing, the
restores. The emit loop writes one file a step; then the store and `info.toml` are
saved, in that order. Times are values of a clock that advances when the user writes a
file and when a command starts, so equal times, which the code's comparisons
treat in one way, occur.

What the user and the environment may do is given by a scenario: the variants of
each source, the commands, the filters, the keys, the faults and how far the clock
runs. `MCIncrementalBuild` names them.

### LanguageServer

`SendNotification`, `Ask` and `Recv` are the handlers of `backend.rs`. A handler of a
notification first awaits `log_message` and then sends, so the message is in `handlers`
until it is sent; the handler of a request sends at once, then loops on the answer
channel. `Serve...` are the arms of `Server::serve` and `Background`,
`BackgroundLast` the loop behind them, which runs while no message waits. Each arm is
one step, because the server has one thread.

A text is a number; `tables[f]` is the text of `f` whose pass1 results the analyzer
holds. `known` are the paths whose metadata is kept (`metadata_map`). Reading `Veryl.toml`, or the lockfile and the
paths of the project, may fail wherever the code does it (`Fail`, at most `MaxFailures` times, counted by `failures`), and each way out of `did_open`,
`did_change`, `did_rename_files` and the replay is an alternative of its action; a request whose project does not load is answered all the same.
A url that is no path is left out: nothing is loaded, analysed or kept for it. `published[f].whole` says that nothing was filtered from the diagnostics and
that no other file was missing when they were computed. A deleted file is a rename
to nowhere. Closing and saving are actions of the editor that change no state of the
server, because `Backend` handles neither.

`Habit` names what a user does that the server copes badly with; each guard that
mentions a habit is an assumption of the passing run, and each habit can be added to a
cfg to see what happens (see [findings](#findings)). `MaxRequests` and
`MaxNotifications` bound the handlers in flight: tower-lsp-server runs four at once.

### AsyncFifo

`s` and `d` are the registers on the source and on the destination clock; an action is an edge
of one clock with some input (`SrcEdge`, `DstEdge`), and edges interleave freely, so every ratio
and phase of the clocks is covered. All registers of a side change at once and from the values before the
edge. A bit crossing between the clocks may arrive late by less than a period of the clock
driving it: `wire` holds, bit by bit, what has arrived, a synchronizer samples any mixture of
that and of the register, and what it has sampled has arrived. A code in which one step changes two bits would
break here. The encoder and the decoder are constants of `AsyncFifo`, of which it assumes what it relies on
(`CodeAssumption`: decoding inverts encoding, and a mixture of the codes of successive pointers is one of the
two); `MCAsyncFifo` gives them the circuits of `GrayCode` as their values, for which TLC evaluates that assumption. Metastability beyond a late bit is what the synchronizer stages are for and is
not modelled. Resets are asynchronous (the default of the language), and with `MERGE_RESET` either input resets both
sides, which leave reset separately. Without it the two inputs are assumed to be asserted
together; they are released separately. `DEPTH` is a power of two: `full` is the top bit of the word count and
the lower bits address the RAM, so the module needs it, though nothing in it says so.

`AbstractFifo` is a bounded queue. The refinement mapping takes the queue to be `Content`, the
words of the RAM between the two binary pointers, wherever their copies on the other side are.

### Lockfile

One command at a time runs `update_lockfile` or `veryl update` (`Start` with `force`). The recursion of
`gen_locks` is the stack `calls`, one element per manifest; `cur` is the dependency in hand. The
resolutions, of a dependency (`Resolve`) and of its dependencies for the record (`Nested`), are steps of
their own (at `pc = "lock"` one dependency is in hand), between which the remote may publish (`Publish`), since every one may fetch. The order
within a manifest is free, as that of the hash map is. Errors and kills end the command with nothing
written (`End`), and `Finish` writes the file at once, as `atomic_write` does. What is abstracted: a
requirement is the set of versions that match it; a project's url, path and revision are its name and
version; a lock name is a sequence to which suffixes are appended, so that a name that looks like
a suffixed one can be written.

### SharedCache

Three parts of one directory, each under its lock: the clone in which releases are looked up
(`Latest`), a checkout per locked revision, and the standard library. The actions follow
`resolve_version_from_latest` and `get_metadata` from `lock_dir` to `unlock_dir`, with clone, removal and checkout
in two steps each, so that a process can stop in the middle (`Stop`, an error or a kill), and then the
reading of the tree, without the lock (`Load`); then `expand_into`. A file of the standard library is created, written and
closed, in place: it is `absent`, `writing` and `full`, or `torn` for good if its writer stops in between. A tree is absent, `partial` (git cannot use
it), `dirty` (between two versions) or `clean`; only the last passes `is_clean`. `stranded` is a
history variable: the revisions whose clone was never followed by a checkout. `clear_cache`, which the user runs
to remove all of it, is left out: a reader it overtakes finds nothing.

### DerivedClocks

The design is a constant of a behaviour, drawn from `Designs` in the initial state. Bits only: `high` is the set of signals
that are 1, a net is a product of literals or the complement of one, and combinational logic is
a function of `high`, because the code settles before every read. `Commit` is an event region: blocks
evaluated on the state before it and one commit of the write log. `MasterEdge` stands for the code up
to the master's commit, `PostCommit` for a turn of the loop behind it, `MasterFall`, `FallChain` and `FallResets` for what
follows the fall, `EndStep` for the recording of levels. `prevClock`, `prevReset`, `mark` and `fired` are the code's
own records; `fires`, `missed` and `late` are history and no guard reads them. Between steps the testbench drives inputs
(`Drive`). Left out: components' hooks, four-state values, aliases of clocks, waves.

## Runs

| run | checks | shows |
|---|---|---|
| `cache_faults` | `TypeOK`, `RestoreSound`, `WarningsReplayed` | two builders without a working lock, files damaged at any time: a restore is exact or a miss |
| `cache_shared` | `NoDangling`, `RestoreSound` | language servers under the lock, over many scans, two keys, two contents, failing writes, death anywhere |
| `cache_lost_warnings` | `WarningsReplayed`, violated | finding 1 |
| `build_scenarios` | `TypeOK`, `OutputsCurrent`, `AnalysisCurrent` | six scenarios, each of some edits, commands and faults; those in which the properties fail are under [findings](#findings) |
| `ls_sessions` | seven properties | editing sessions with one notification and two requests at a time, a load that fails, and renames and deletions while the server is idle |
| `ls_filtered` | `DiagnosticsCurrent`, violated | finding 2 |
| `ls_lost_answer` | `EveryoneAnswered`, violated | finding 3 |
| `async_fifo` | seven properties | two words, merged resets at any time |
| `lock_graph` | six properties | builds and updates over a graph with a cycle, shared, overridden and conflicting projects |
| `shared_cache` | `OneWriter`, `RightRevision`, `FreshLookup`, `StdSettled` | two processes, kills anywhere, in the middle of a write too |
| `derived_clocks` | `OncePerStep`, `EdgesServed`, `ResetHolds`, `StepEnds` | 9,216 designs, driven in any way |
| `derived_reset_missed` | `NoWaitingForClock`, violated | finding 4 |

Bounds, and why they are enough for the cases of interest:

* Cache: one source suffices for `RestoreSound` and `NoDangling`, since entries and
  blobs of different sources never meet except in the garbage collector, which treats blobs
  one by one; two clients for every race between two; two hashes and two keys for every
  confusion of old and new. The proofs remove all of these bounds.
* Build: three files (a declaring file, a using one, a testbench), a clock of four to six ticks:
  a build, an edit, a command that half succeeds, and another build fit in. One
  process may wait with old information while another command holds the lock.
* Language server: two files, a path to rename to and a dependency; texts 1 to
  `MaxText`, one of which does not parse; two requests of different kinds, in flight together. `MaxTasks` bounds
  the tasks queued by opening files. One load fails (`MaxFailures`), at any of the places where one may; `FilterEnds` and `NoGhosts` must hold all the same,
  while `TablesComplete` and `DiagnosticsCurrent` speak of sessions without a failure, since what does not load is not analysed. The sessions are of
  three sorts (`Sessions`), chosen initially: questions do not touch the tables, so they are asked in a session with one file. `FilterEnds` is proved for any number of failures.
* Asynchronous FIFO: two words and three data values, with pointers of two bits that wrap and two
  synchronizer stages. Nothing bounds the length of a behaviour: the state space is finite. The five safety properties are proved for every depth,
  either reset scheme and any number of stages; for the two liveness properties a FIFO of two words is full, empty and between.
* Lockfile: four projects with at most two releases, four contents of `Veryl.toml`: a shared dependency, a
  cycle, one release used with two property values, a root name equal to a suffixed one (`MaxSuffix` is never
  reached), an override, an entry in error. Any number of commands; releases only appear, so the graph
  finally stands still, which is what `Converges` is about.
* Shared cache: two processes, two revisions and a remote that publishes once, two files of the
  standard library. The proofs remove these bounds. Two properties pass with an exception in their formula, because the code fails there:
  `RightRevision` (a revision in `stranded`) and `FreshLookup` (`Torn`: `Veryl.pub` is read without the lock, and a checkout by another process may leave it missing or cut
  short at that moment). `StdSettled` allows files that a kill has left torn. What is stated is what remains true in spite of these cases.
* Derived clocks: two input clocks, two derived clocks, one derived reset, three registers: a chain of two
  clocks, a reset in the middle of it, a self-clearing reset, a clock that drives itself. Nothing bounds
  the number of steps. The proofs remove these bounds for the three invariants. `EdgesServed` has the exception `late`, `ResetHolds` the exception
  `missed`; both are cases in which the code fails (see [findings](#findings)).

Deadlock is checked in every run but those of the language server. In `ls_sessions` it is not: the editor may
do nothing more, with every bound used up, and the server then rightly waits.

Fairness is assumed in three modules. In `LanguageServer`, of the server thread and of the tasks of the
async runtime (a handler whose send or receive can go on does so), which their
schedulers provide; never of the editor or the user.
In `AsyncFifo`, of both clocks (they run), of the release of resets and of a reader that does not refuse data
for ever. An edge is forced only by changes that do not depend on the inputs, so that nobody is forced to push.
In `DerivedClocks`, of the step itself (`WF_vars(Step)`): it is a function that runs to its end in one thread. Nobody is forced to
drive or to clock. `Converges` of `Lockfile` needs none: it says that the file changes finitely often.

Every property is also run against a mutation of the code it is about (a dropped guard, a
forgotten reset), which TLC must refute; the mutations stand before the definitions
they change.

## Proofs

Every safety property that a passing run checks is proved, for every value of the constants that meets the named
assumptions. Some theorems have a hypothesis more. Each of these excludes a case in which the property is false of the
code, and TLC shows that with the constants given under [findings](#findings); the exceptions are said.

`CacheStoreProofs`, for every set of clients, sources, hashes and keys:

* `TypeCorrect`: `Spec => []TypeOK`.
* `RestoreCorrect`: `Spec => []RestoreSound`, with all faults allowed. `RestoreSound` speaks of
  what has been restored; it is preserved because every entry that names a
  fragment, on disk, in a client's manifest or in its next one, names that of the entry's own
  source, hash and the key (`EntriesSound`), because a client that has not read the manifest has nothing in
  memory (`FreshUntilOpened`) and because it then has a key (`KeyKnown`). Damage does not matter: `ReadBlob`
  yields the payload named or nothing.
* `NoDanglingCorrect`: without lock faults and damage, `[]NoDangling`. The invariant adds mutual exclusion
  (`LockInv`) and `PresentInv`: the blobs named by the holder's manifests are present too, and
  those listed for removal are named by no manifest that is or may come to be on
  disk.
* `WarningsReplayedHolds`: without write faults, `[]WarningsReplayed`. `WarnInv`: every entry on disk or in a
  client's manifests that can be restored names the diagnostics of its source, but for the entries of this scan whose
  diagnostics are still to be recorded, and these are not yet saved. A failed write breaks it (finding 1).

`IncrementalBuildProofs`, for every set of files, contents, processes, keys and scenarios:

* `TypeCorrect`: `Spec => []TypeOK`, with `JobPresent`: what is emitted or restored was found.
* `AnalysisCurrentHolds`: `[]AnalysisCurrent`, if no declaration moves to another path (`DeclaredOnce`) and no test is filtered
  out (`Unfiltered`); every fault is allowed. `StoreRight`: the entries of the store, and those a command is
  about to save, are together the picture of one set of sources (`View`); each entry has the dependents,
  the instances and the `Result` that follow from that picture, or more dependents. A restored file is unchanged, and so is all that it depended
  on, or a miss among that would have made it one. With one file to each name, and none unresolved, it then depends on the
  same files still (`SameDepends`) and comes out as it did (`SameResult`). The six scenarios of the run satisfy both hypotheses.
* `OutputsCurrentHolds`: `[]OutputsCurrent`, if moreover the only fault is the loss of blobs (`Undisturbed`). `OutInv` relates the
  times of a source, of its entry and of its output, the last as `info.toml` has it and as any waiting process has read it: a file
  that is not what the store knows is newer than its output (`EditsShow`), an output that looks fresh, together with all its file depends on,
  is right (`OutKept`), and so it will be when the running command has saved the store (`JobKept`). The run also covers killed commands, failed emits and
  sources changed under a build, in scenarios in which the property survives them; the findings give ones in which it does not.

`LanguageServerProofs`, for every set of files, texts, requests and habits and all bounds:

* `TypeCorrect`: `Spec => []TypeOK`.
* `FilterEndsCorrect`: `Spec => []FilterEnds`, for any user and any number of failed loads. Inductive together with the type invariant: of
  the actions, only those that clear `background_done` and those that empty the queue of
  tasks can disturb it.
* `NoGhostsHolds`, for a user without the habits `moves_early` and `moves_edited`. `GhostInv`: every text on its way, replayed later or in
  a buffer is of a file that stays; while a file is being moved there is no task that could read it; a file in the tables
  is on disk or its removal has been sent.
* `AnswersRightHolds`, for one notification at a time, sent before a question is asked, and either one request at a time or requests of
  distinct kinds. `FreshInv`: the messages ahead of a question bring its file to the text it was asked about, and the replay
  of the latest change alters nothing; `PairInv`: an answer on the channel is expected by the one who waits.
* `TablesCompleteHolds`, for the user called `Careful`: one notification at a time and none of the habits `moves_early`, `moves_edited`,
  `reuses_paths`, `discards`; the invariant is `Base`, which holds whatever fails, and, as long as nothing has failed, `TablesInv`. `NothingFails` gives the
  server's steps the simpler form they then have. `TablesInv`: a file the server was told of is in the tables with the text of the last message, after those
  on their way; any other file is, or is in a task, or a message that will make a task is coming.
* `DiagnosticsCurrentHolds`, for a `Careful` user who does not switch between files while the analysis is pending (finding 2 is what happens otherwise).
  `TopicInv`: changes in flight are all of one file, the one that will be replayed, and never next to a rename;
  `PublishedInTime`: an open file's diagnostics are whole, or its text is on its way, or it will be replayed. When the replay comes
  the tables are complete, by `TablesInv`.

`AsyncFifoProofs`, for every depth that is half of what the pointers count, every threshold, number of stages and of reset stages, either reset
scheme, every type of data and every code that satisfies `CodeAssumption`:

* `TypeCorrect`, `OutputReadyHolds`, `FlagsInTimeHolds`, `StableReadHolds`: `Spec => []...` of the four invariants.
* `FifoImplemented`: `Spec => IsFifo`, the refinement of `AbstractFifo`, action by action: an edge is a push, a pop, a clear or a stutter of `Content`.

The invariant `Inv` places the pointers on a circle and measures from the read pointer, the only point of reference both sides
share. Ahead of it, in descending order: the write pointer, its register in code, what has arrived of it, and the
stages of its synchronizer (`WriteChain`); behind it, in ascending order, the same of the read pointer on its way back
(`ReadChain`). The two chains together never span more than the depth (`Room`), which is what makes distances modulo the pointers' range
mean anything; a mixture sampled from a wire is the older or the newer pointer, so it keeps its chain sorted. Being sorted is not
enough at a reset, so a side in reset is in its reset state (`ResetKept`).

`LockfileProofs`, for every set of projects, releases, manifests and contents of `Veryl.toml`:

* `NamesDistinctHolds`: `Spec => []NamesDistinct`. `NamesUsed`: the names of the locks are in `names`, that of `cur` is not a lock's; `RootFirst`: the
  root manifest is walked to its end before any other.
* `LocksRespectedHolds`: `Spec => []LocksRespected`, releases appearing at any time. `Origin`: what is walked is the root manifest or that of a lock;
  `Respect`: each source in hand is locked already or no locked release matches.
* `LookupSucceedsHolds`, `VariantsLockedHolds`: without path overrides (`NoOverrides`). `GraphInv`: a lock's record names what its dependencies resolve
  to (`AllRecorded`), and each dependency of a lock is locked or in a manifest still to be walked (`AllFollowed`); at the end
  nothing is left to walk. `Unique`: one lock for each source and properties.
* `NoOrphansHolds`: without path overrides. `Reached`, `Parent`: a set that holds what `Veryl.toml` names and the recorded dependencies of its members holds
  every lock.

The run `lock_graph` also has an override that does no harm; the theorems exclude all of them.

`SharedCacheProofs`, for every set of processes, revisions and files:

* `TypeCorrect`: `Spec => []TypeOK`.
* `MutualExclusion`: `Spec => []OneWriter`. Inductive as `Locked`: who is between `lock_dir` and `unlock_dir` holds the lock
  of its part, which a kill gives up.
* `RightRevisionHolds`: `Spec => []RightRevision`. The reader has no lock, so the invariant speaks of the trees: one that
  nobody works on and that is clean holds its revision or is stranded (`Checkouts`), a process that reads
  finds such a tree, because nobody touches a clean checkout again (`Settled`), and a
  checkout in progress leads to its own revision (`CheckingRight`).
* `FreshLookupHolds`: `Spec => []FreshLookup`. `Lookups`: who has fetched and not yet read finds in the clone at least what it fetched. A step
  of another process on the clone only moves it forward, which `LookupOthers` states once for all actions.
* `StdSettledHolds`: `Spec => []StdSettled`. At most one file is being written, by the holder of
  the lock (`Writing`, `OneWriting`), the marker implies that every file is there and none is being written (`Marked`), and whoever is past the marker has
  seen it (`MarkerSeen`). That the files are whole (`StdComplete`) is false: a kill in the middle of a write is an action of the model.

`DerivedClocksProofs`, for every set of designs over any signals, with finitely many clocks and resets:

* `TypeCorrect`: `Spec => []TypeOK`.
* `OncePerStepHolds`: `Counted`, that `fires` is bounded by one and agrees with `fired`, and `GatedMarked`: a gated clock
  that fired with the masters was active while they were high, so it does not fire again at the fall.
* `EdgesServedHolds`: `Served`, that the post-commit loop and the chain at the fall leave no risen clock behind. The bound on the
  turns of the chain cuts nothing short, because each turn fires a clock more.
* `ResetHoldsHolds`: `Obeyed` and `PortObeyed`, that what has been seen asserted and did not slip by holds its registers, and
  `Seen`, that every asserted reset has been seen when a step ends. The bound of the loop at the fall cuts nothing short here
  either: each turn clears the registers of a reset more.

Assumptions on constants are named `...Assumption` in the module that declares them (the sentinels are not values, the parameters have
their types); TLC evaluates them in every run. `DerivedClocksAssumption` also says that no derived reset depends on an input
clock directly, `LockfileAssumption` that versions start at 1 and that the manifests are well formed, `AsyncFifoAssumption` that the depth is
half of what the pointers count, `CodeAssumption` what the Gray code is for.

Only model-checked:

* The liveness properties (`AnalysisSettles`, `DataArrive`, `SpaceReturns`, `Converges`, `StepEnds`): the prover does not
  handle fairness.
* That `gray_encoder` and `gray_decoder` satisfy `CodeAssumption`: the decoder is recursive as in the source, and what it computes for every width
  needs induction over data. TLC checks widths 1 to 8 (`GrayCodeIsRight`).

## Findings

1. `cache_lost_warnings`: a failed write of a diagnostics blob is stored as "no diagnostics", and every
   later warm run is silent about the file's warnings.
2. `ls_filtered`: only the file changed last gets its unfiltered diagnostics when the background
   analysis ends.
3. `ls_lost_answer`: the handlers of a hover and a completion in flight together each take the other's answer off the shared
   channel and drop it; both wait for ever. `backend.rs:308` says "Dispose unexpected messages".
4. `derived_reset_missed`: a derived reset that is released and asserted again between two looks at its level, as one
   that its own assertion clears and the fall of the clock asserts again, does not reach the registers it resets until
   their own clock next runs.

Further cases, found with the same modules and reproduced by changing the constants of a cfg:

* `IncrementalBuild`, `Names = {"emit_error"}`: an output that cannot be written is never written again, if a check
  had stored the edited file's hash before (`OutputsCurrent`): `cmd_build.rs:143` returns before the store is saved, but `main`
  saves the times of the outputs written so far. `{"moved"}`: when a declaration moves to another file, its users are restored with the
  diagnostics of the old one (`AnalysisCurrent`): `incremental.rs:159` looks up the dependents of the files of this run only, while line 7
  says "The miss set is a superset of the files needing pass2/emit".
* `LanguageServer`, `Habit = {"moves_early"}`,
  `Start <- Silence`: a file renamed during a pending analysis is not analysed under its new path (`TablesComplete`, and `NoGhosts` for its old one, `server.rs:288`).
* `Lockfile`, `Roots <- OverrideRoots`: the root overrides a dependency by a path and another of its dependencies uses the same release. The
  recorded source has no override (`lockfile.rs:621`, "Path override is disabled if it is not root"), the locked one has, and the lookup
  that `analyzer.rs:157` unwraps finds nothing (`LookupSucceeds`). The same happens if a release is published between the two
  resolutions of one dependency, which `Settled` excludes. `INVARIANT StableNames` of `MCLockfile`: which of two projects of one name gets
  the suffix depends on the order of a hash map, so a build may use other names than `Veryl.lock` has, which is not
  rewritten for that (`metadata_output.rs:98` calls them "stable ids").
* `SharedCache`, with `StdComplete` in the place of `StdSettled` in `SharedCache.cfg`: files of the standard library are written in place, and one that a killed process left
  half written is taken for correct by the next (`std/src/lib.rs:37`, "The hashed directory name makes an existing file
  correct"). `RightRevision` states its exception: a process stopped between clone and checkout leaves the default
  branch where the revision is expected. `FreshLookup` states its own: a lookup that reads `Veryl.pub` while another
  process checks the same clone out gets a file that is missing or cut short (`lockfile.rs:747`), and fails. A clone under `resolve` that was never completed is fetched in vain for ever.
* `DerivedClocks`: a clock raised by a reset that fires at the fall is not served in this step and then recorded as seen: the `late` of
  `EdgesServed`, although `simulator.rs:742` says of such a clock that it "cannot be left to the next step". The bound asserted in
  debug builds (`simulator.rs:1968`) can be exceeded by a legal design: three chained clocks, each of which asserts a
  reset that clears itself, take six turns.
* `IncrementalBuild`, `Names = {"edit_during"}`: a source edited while it is built, and then checked, leaves
  `OutputsCurrent` violated; `{"interrupted"}`: so does a killed build whose edit is taken back;
  `{"filtered"}`: `veryl test --test` stores the testbenches the filter leaves out although pass2 never ran on
  them, and later runs restore them without diagnostics or outputs (`AnalysisCurrent`, `OutputsCurrent`).
* `LanguageServer`, `Habit = {"moves_edited"}` and `MaxText = 3`: renaming a file that was edited, saved and closed
  brings its old path back into the tables when the latest change is replayed (`NoGhosts`).
  `{"reuses_paths"}` and `{"discards"}`: a path once opened is never read from disk
  again, so a file renamed onto it, or the text on disk after an edit is discarded, is not seen
  (`TablesComplete`, `DiagnosticsCurrent`). `{"asks_early"}`: a request overtakes the change before it and is
  answered from the text before (`AnswersRight`); for a completion this text may have a blank line where the
  editor's has the trigger character, where `server.rs:347` unwraps the last word of the line. `{"cancels_any"}`
  with two requests of one kind: the second is given the cancelled one's answer. `MaxNotifications = 2`: two changes
  reach the server in the wrong order, and the older text stays.

## Not modelled

`PROJECT.json` lists every component with its status. Left out for good: the parser and migrator
(generated), the emitter, formatter and printers (text), the simulator's compiler and code
generators and the analyzer's semantic checks (functions of unbounded programs), foreign
component interfaces, input and output. In the modelled components: the bytes of manifests and blobs, the
bundle and filelist targets, logging and progress messages, what an answer to a request contains, lockfiles of older versions, `clear_cache`, the hooks of foreign components in a
simulator step, the settling of combinational logic.

Most of the repository is outside what a model of states can say anything about: of its 417,000 lines of implementation, 170,000 are the
generated parsers, and most of the rest translates trees of unbounded size. The parts left that keep state are in the plan.

## Plan

1. Done: the modules above, their runs and theorems.
2. `AsyncHandshake`: the toggle protocol of `async_handshake` as a one-place `AbstractFifo`, with a proof for
   every number of stages and every data type. `FifoController`: `fifo_controller` and `fifo` with clear, the output
   register and the matching of equal data, implementing `AbstractFifo`.
3. `clear_cache` in `SharedCache`, which takes both locks; the language server's use of `Lockfile`.
4. `TypeDag`: insertion of edges with cycle detection against the transitive closure.
5. An abstract `Restorable` store (a set of captured analyses) that `CacheStore` refines and that
   `IncrementalBuild` uses by `INSTANCE`.
6. Proofs: `LookupSucceeds` with overrides that no other dependency shares; `OutputsCurrent` with killed commands and failed emits in the
   histories in which it survives them; `TablesComplete` for several notifications in flight of different files; the
   refinements above.
