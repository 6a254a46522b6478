-------------------------- MODULE MCIncrementalBuild --------------------------
EXTENDS IncrementalBuild, TLC

CONSTANTS
  p, A, B, T, K1, K2,
  Names  \* the scenarios of a run

\* A declares a generic that B and the testbench T use.  In the scenarios
\* about a moved declaration T is the new file that declares it.
AContent(rev) ==
  [rev |-> rev, decls |-> {"a"}, uses |-> {}, insts |-> {}, test |-> "none"]
BContent(rev, insts) ==
  [rev |-> rev, decls |-> {"b"}, uses |-> {"a"}, insts |-> insts,
   test |-> "none"]
TContent(name, kind) ==
  [rev |-> 0, decls |-> {name}, uses |-> {"a"}, insts |-> {}, test |-> kind]

A1 == AContent(1)
A2 == AContent(2)
B1 == BContent(1, {})
B1Generic == BContent(1, {<<"a", 8>>})
B2 == BContent(2, {})
Native == TContent("t", "native")
External == TContent("t", "external")
OtherBench == TContent("u", "external")

Contents == {A1, A2, B1, B1Generic, B2, Native, External, OtherBench}

\* Nobody changes anything; to be overridden.
Quiet(a, b, t) ==
  [src |-> A :> a @@ B :> b @@ T :> t,
   variant |-> [f \in File |-> {}],
   kind |-> {"build", "check"}, filter |-> {}, uncacheable |-> {},
   key |-> {K1}, faults |-> {}, ticks |-> 6]
Changing(a, b, t) == A :> a @@ B :> b @@ T :> t

Scenarios ==
  \* B starts and stops instantiating a generic of A.
  "generics" :> [Quiet(A1, B1, None) EXCEPT
      !.variant = Changing({A1, A2}, {B1, B1Generic}, {}),
      !.kind = {"build", "check", "diff"}]
  \* Commands are killed, the store is not saved, A is deleted and restored.
  @@ "killed" :> [Quiet(A1, B1, None) EXCEPT
      !.variant = Changing({A1, A2, None}, {}, {}),
      !.kind = {"build", "check", "clean"}, !.faults = {"unsaved"}]
  \* The options change, and blobs are lost.
  @@ "options" :> [Quiet(A1, B1, None) EXCEPT
      !.variant = Changing({}, {B1, B1Generic}, {}),
      !.key = {K1, K2}, !.faults = {"blob_loss"}, !.ticks = 5]
  \* Outputs cannot be written; every file is edited once, for good.
  @@ "emit_errors" :> [Quiet(A1, B1, None) EXCEPT
      !.variant = Changing({A2}, {B2}, {}),
      !.kind = {"build"}, !.faults = {"emit_error"}]
  \* Sources change while they are built, some to older files.
  @@ "replaced" :> [Quiet(A1, B1, None) EXCEPT
      !.variant = Changing({A1, A2}, {}, {}),
      !.kind = {"build"}, !.faults = {"edit_during", "old_time"}, !.ticks = 4]
  \* A testbench turns from native to external and back.
  @@ "tests" :> [Quiet(A1, None, Native) EXCEPT
      !.variant = Changing({A1, A2}, {}, {Native, External}),
      !.kind = {"build", "check", "test"}, !.uncacheable = {A}]
  \* An output cannot be written, and checks are run too.
  @@ "emit_error" :> [Quiet(A1, B1, None) EXCEPT
      !.variant = Changing({A2}, {}, {}), !.faults = {"emit_error"}]
  \* A source is edited while it is built, and checks are run too.
  @@ "edit_during" :> [Quiet(A1, B1, None) EXCEPT
      !.variant = Changing({A2}, {}, {}), !.faults = {"edit_during"}]
  \* A build for a new generic instance is killed, and the edit taken back.
  @@ "interrupted" :> [Quiet(A1, B1, None) EXCEPT
      !.variant = Changing({}, {B1, B1Generic}, {}), !.faults = {"unsaved"}]
  \* What A declares moves to the path T.
  @@ "moved" :> [Quiet(A1, B1, None) EXCEPT
      !.variant = Changing({None}, {}, {A2})]
  \* Only the tests of T match the filter, not those of the testbench B.
  @@ "filtered" :> [Quiet(A1, OtherBench, External) EXCEPT
      !.variant = Changing({A2}, {}, {}), !.filter = {{T}}]

Chosen == [n \in Names |-> Scenarios[n]]

===============================================================================
