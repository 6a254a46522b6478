-------------------------- MODULE DerivedClocksProofs --------------------------
(***************************************************************************)
(* Proofs about DerivedClocks for every design, whatever the number of its *)
(* clocks, resets and registers.                                           *)
(***************************************************************************)
EXTENDS DerivedClocks, TLAPS, FiniteSetTheorems

\* The record of who has fired agrees with what was fired.
Counted == \A c \in Clock : fires[c] <= 1 /\ (fires[c] # 0 => c \in fired)

\* Gated clocks that fired before the fall were active under high masters.
GatedMarked == phase \in {"post", "fall"} => fired \cap MasterGated \subseteq mark

FireInv == TypeOK /\ Counted /\ GatedMarked

\* The clocks that have risen since the last step and belong to the loops.
Risen == Active(high) \ (prevClock \cup MasterGated)

\* The post-commit loop and the chain at the fall leave no edge behind, and
\* the bound on the chain cannot cut it short: each turn fires a clock more.
Served ==
  /\ phase = "fall" => Risen \subseteq fired
  /\ phase \in {"resets", "end"} /\ ~ late => Risen \subseteq fired
  /\ phase = "chain" => iters <= Cardinality(fired)

-------------------------------------------------------------------------------
(* Type correctness *)

\* A commit changes registers only.
LEMMA CommitType ==
  \A h \in SUBSET Signal : \A cs, rs : Commit(h, cs, rs) \subseteq Signal
BY DEF Commit, Signal

\* Nothing fires: nothing changes.
LEMMA CommitNothing == \A h : Commit(h, {}, {}) = h
BY DEF Commit

\* Levels and histories are sets of clocks and of resets.
LEMMA Levels ==
  /\ \A h : Active(h) \subseteq Clock /\ Asserted(h) \subseteq Reset
  /\ MasterGated \subseteq Clock
  /\ \A h, p, rs : Overlooked(h, p, rs) \subseteq Reset
BY DEF Active, Asserted, Monitored, MasterGated, Overlooked

\* Counting a batch keeps the counters natural numbers.
LEMMA CountType == TypeOK => \A cs : Count(cs) \in [Clock -> Nat]
BY DEF TypeOK, Count

\* Every phase of a step keeps the types.
LEMMA TypeStep == TypeOK /\ [Next]_vars => TypeOK'
<1> SUFFICES ASSUME TypeOK, [Next]_vars PROVE TypeOK'
  OBVIOUS
<1> USE Levels, CommitType, CountType
<1>1. CASE UNCHANGED vars
  BY <1>1 DEF TypeOK, vars
<1>2. ASSUME NEW i \in Input, Drive(i) PROVE TypeOK'
  <2>1. high' \subseteq Signal
    BY <1>2 DEF Drive, TypeOK, Signal
  <2>2. pending' \subseteq ResetPort
    BY <1>2 DEF Drive, TypeOK
  <2> QED BY <1>2, <2>1, <2>2 DEF Drive, TypeOK
<1>3. ASSUME NEW E \in SUBSET InputClock \ {{}}, MasterEdge(E) PROVE TypeOK'
  <2> DEFINE ms == E \cap MasterInputs
             h == high \cup ms
             gated == IF ms = {} THEN {} ELSE MasterGated \cap Active(h)
  <2>1. h \subseteq Signal /\ ms \subseteq InputClock /\ gated \subseteq Clock
    BY DEF TypeOK, Signal
  <2>2. high' = Commit(h, E \cup (gated \ prevClock), pending)
    BY <1>3 DEF MasterEdge
  <2>3. high' \subseteq Signal
    BY <2>1, <2>2
  <2>4. /\ masters' = ms /\ mark' = gated /\ fired' = gated \ prevClock
        /\ phase' \in {"post", "fall"} /\ pending' = {} /\ late' = FALSE
        /\ fires' = [c \in Clock |-> IF c \in gated \ prevClock THEN 1 ELSE 0]
        /\ missed' = Overlooked(high', prevReset, {})
        /\ UNCHANGED <<design, prevClock, prevReset, iters>>
    BY <1>3 DEF MasterEdge
  <2>5. fires' \in [Clock -> Nat]
    BY <2>4
  <2> HIDE DEF ms, h, gated
  <2> QED BY <2>1, <2>3, <2>4, <2>5 DEF TypeOK, Phase
<1>4. CASE PostCommit
  BY <1>4 DEF PostCommit, TypeOK, Batch, Snapshot
<1>5. CASE PostCommitDone
  BY <1>5 DEF PostCommitDone, TypeOK, Phase
<1>6. CASE MasterFall
  BY <1>6 DEF MasterFall, TypeOK, Phase
<1>7. CASE FallChain
  BY <1>7 DEF FallChain, TypeOK, Phase, Chained
<1>8. CASE FallResets
  <2>1. high' \subseteq Signal
    BY <1>8 DEF FallResets, TypeOK
  <2>2. missed' \subseteq Reset /\ prevReset' \subseteq Reset
    BY <1>8 DEF FallResets, TypeOK
  <2>3. iters' \in Nat /\ phase' \in Phase
    BY <1>8 DEF FallResets, TypeOK, Phase
  <2>4. late' = late \/ late' = TRUE
    BY <1>8, Zenon DEF FallResets
  <2>5. late' \in BOOLEAN
    BY <2>4, Zenon DEF TypeOK
  <2> QED BY <1>8, <2>1, <2>2, <2>3, <2>5 DEF FallResets, TypeOK
<1>9. CASE EndStep
  BY <1>9 DEF EndStep, TypeOK, Phase
<1> QED
  BY <1>1, <1>2, <1>3, <1>4, <1>5, <1>6, <1>7, <1>8, <1>9 DEF Next, Step

\* The constructor seeds the recorded levels from the settled state.
LEMMA TypeInit == Init => TypeOK
<1> SUFFICES ASSUME Init PROVE TypeOK
  OBVIOUS
<1>1. prevClock \subseteq Clock /\ prevReset \subseteq Reset
  BY Levels DEF Init
<1>2. fires \in [Clock -> Nat] /\ phase \in Phase
  BY DEF Init, Phase
<1> QED BY <1>1, <1>2 DEF Init, TypeOK

\* The type invariant of the step, for every set of designs.
THEOREM TypeCorrect == Spec => []TypeOK
BY TypeInit, TypeStep, PTL DEF Spec

-------------------------------------------------------------------------------
(* One clock fires once *)

\* A batch disjoint from what has fired is counted as firing once.
LEMMA CountOnce ==
  ASSUME TypeOK, Counted, NEW cs \in SUBSET Clock, cs \cap fired = {},
         fires' = Count(cs), fired' = fired \cup cs
  PROVE  Counted'
BY DEF TypeOK, Counted, Count

\* The three places that fire clocks never meet the same clock: the loops
\* look at the mask, and the fall at what was low under high masters.
LEMMA FireStep == FireInv /\ [Next]_vars => FireInv'
<1> SUFFICES ASSUME FireInv, [Next]_vars PROVE Counted' /\ GatedMarked'
  BY TypeStep DEF FireInv
<1>a. TypeOK /\ Counted /\ GatedMarked
  BY DEF FireInv
<1> USE Levels
<1>1. CASE UNCHANGED vars
  BY <1>1, <1>a DEF vars, Counted, GatedMarked, MasterGated, Support
<1>2. ASSUME NEW i \in Input, Drive(i) PROVE Counted' /\ GatedMarked'
  BY <1>2, <1>a DEF Drive, Counted, GatedMarked
<1>3. ASSUME NEW E \in SUBSET InputClock \ {{}}, MasterEdge(E)
      PROVE  Counted' /\ GatedMarked'
  <2>1. PICK gated \in SUBSET Clock :
          /\ mark' = gated /\ fired' = gated \ prevClock
          /\ fires' = [c \in Clock |-> IF c \in gated \ prevClock THEN 1 ELSE 0]
    BY <1>3 DEF MasterEdge
  <2> QED BY <2>1 DEF Counted, GatedMarked
<1>4. CASE PostCommit
  <2>1. Batch \subseteq Clock /\ Batch \cap fired = {} /\ Batch \cap MasterGated = {}
    BY DEF Batch
  <2>2. fires' = Count(Batch) /\ fired' = fired \cup Batch
    BY <1>4 DEF PostCommit
  <2>3. MasterGated' = MasterGated
    BY <1>4 DEF PostCommit, MasterGated, Support
  <2>4. UNCHANGED <<phase, mark>>
    BY <1>4 DEF PostCommit
  <2> QED BY <1>a, <2>1, <2>2, <2>3, <2>4, CountOnce DEF GatedMarked
<1>5. CASE PostCommitDone
  <2>1. MasterGated' = MasterGated
    BY <1>5 DEF PostCommitDone, MasterGated, Support
  <2> QED BY <1>5, <1>a, <2>1 DEF PostCommitDone, Counted, GatedMarked
<1>6. CASE MasterFall
  <2>1. PICK fall \in SUBSET Clock :
          /\ fall \subseteq MasterGated /\ fall \cap mark = {}
          /\ fires' = Count(fall) /\ fired' = fired \cup fall
    BY <1>6 DEF MasterFall
  <2>2. phase = "fall" /\ phase' \notin {"post", "fall"}
    BY <1>6 DEF MasterFall
  <2>3. fall \cap fired = {}
    BY <1>a, <2>1, <2>2 DEF GatedMarked
  <2> QED BY <1>a, <2>1, <2>2, <2>3, CountOnce DEF GatedMarked
<1>7. CASE FallChain
  <2>1. phase' \notin {"post", "fall"}
    BY <1>7 DEF FallChain
  <2>2. CASE UNCHANGED <<fired, fires>>
    BY <1>a, <2>1, <2>2 DEF Counted, GatedMarked
  <2>3. CASE fires' = Count(Chained) /\ fired' = fired \cup Chained
    <3>1. Chained \subseteq Clock /\ Chained \cap fired = {}
      BY DEF Chained
    <3> QED BY <1>a, <2>1, <2>3, <3>1, CountOnce DEF GatedMarked
  <2> QED BY <1>7, <2>2, <2>3 DEF FallChain
<1>8. CASE FallResets
  BY <1>8, <1>a DEF FallResets, Counted, GatedMarked
<1>9. CASE EndStep
  BY <1>9 DEF EndStep, Counted, GatedMarked
<1> QED
  BY <1>1, <1>2, <1>3, <1>4, <1>5, <1>6, <1>7, <1>8, <1>9 DEF Next, Step

\* At the start no clock has fired.
LEMMA FireInit == Init => FireInv
BY TypeInit DEF Init, FireInv, Counted, GatedMarked

\* No derived clock fires twice in one step (step_with_derived_clocks and
\* fire_derived_clock_batch), whatever the design.
THEOREM OncePerStepHolds == Spec => []OncePerStep
<1>1. FireInv => OncePerStep
  BY DEF FireInv, Counted, OncePerStep
<1> QED
  BY <1>1, FireInit, FireStep, PTL DEF Spec

-------------------------------------------------------------------------------
(* No edge is left behind *)

\* A clock that no master gates does not see a master fall.
LEMMA MastersUnseen ==
  ASSUME TypeOK
  PROVE  Active(high \ masters) \ MasterGated = Active(high) \ MasterGated
<1>1. \A c \in Clock \ MasterGated :
        On(design.clock[c], high \ masters) <=> On(design.clock[c], high)
  <2> SUFFICES ASSUME NEW c \in Clock \ MasterGated
               PROVE  On(design.clock[c], high \ masters) <=> On(design.clock[c], high)
    OBVIOUS
  <2>1. /\ design.clock[c].pos \cap InputClock = {}
        /\ design.clock[c].neg \cap InputClock = {}
    BY DEF MasterGated, Support
  <2>2. /\ design.clock[c].pos \subseteq high \ masters <=> design.clock[c].pos \subseteq high
        /\ design.clock[c].neg \cap (high \ masters) = {} <=> design.clock[c].neg \cap high = {}
    BY <2>1 DEF TypeOK
  <2> QED BY <2>2 DEF On
<1> QED BY <1>1 DEF Active

\* A set of clocks that grows by a batch has more elements, and has them all
\* when it has as many.
LEMMA Growing ==
  ASSUME NEW A \in SUBSET Clock, NEW B \in SUBSET Clock, A \cap B = {}, B # {}
  PROVE  /\ Cardinality(A) \in Nat /\ Cardinality(Clock) \in Nat
         /\ Cardinality(A \cup B) \in Nat
         /\ Cardinality(A) + 1 <= Cardinality(A \cup B)
         /\ Cardinality(A) < Cardinality(Clock)
<1>1. IsFiniteSet(Clock)
  BY DerivedClocksAssumption
<1>2. IsFiniteSet(A \cup B) /\ IsFiniteSet(A)
  BY <1>1, FS_Subset
<1>3. Cardinality(A) <= Cardinality(A \cup B) /\ Cardinality(A) # Cardinality(A \cup B)
  BY <1>2, FS_Subset, A \subseteq A \cup B
<1>4. Cardinality(A \cup B) <= Cardinality(Clock)
  BY <1>1, FS_Subset, A \cup B \subseteq Clock
<1>5. Cardinality(A) \in Nat /\ Cardinality(Clock) \in Nat /\ Cardinality(A \cup B) \in Nat
  BY <1>1, <1>2, FS_CardinalityType
<1> QED BY <1>3, <1>4, <1>5

\* Each phase keeps the edges served.
LEMMA ServedStep == TypeOK /\ Served /\ [Next]_vars => Served'
<1> SUFFICES ASSUME TypeOK, Served, [Next]_vars PROVE Served'
  OBVIOUS
<1> USE Levels
<1>1. CASE UNCHANGED vars
  BY <1>1 DEF vars, Served, Risen, Active, MasterGated, Support
<1>2. ASSUME NEW i \in Input, Drive(i) PROVE Served'
  BY <1>2 DEF Drive, Served
<1>3. ASSUME NEW E \in SUBSET InputClock \ {{}}, MasterEdge(E) PROVE Served'
  <2>1. phase' = "post" \/ (phase' = "fall" /\ MasterGated = Clock)
    BY <1>3 DEF MasterEdge
  <2>2. MasterGated' = MasterGated
    BY <1>3 DEF MasterEdge, MasterGated, Support
  <2>3. Active(high)' \subseteq Clock
    BY DEF Active
  <2> QED BY <2>1, <2>2, <2>3 DEF Served, Risen
<1>4. CASE PostCommit
  BY <1>4 DEF PostCommit, Served
<1>5. CASE PostCommitDone
  <2>1. Risen \subseteq fired
    BY <1>5 DEF PostCommitDone, Batch, Risen
  <2>2. Risen' = Risen
    BY <1>5 DEF PostCommitDone, Risen, Active, MasterGated, Support
  <2> QED BY <1>5, <2>1, <2>2 DEF PostCommitDone, Served
<1>6. CASE MasterFall
  <2>1. PICK fall \in SUBSET Clock :
          /\ high' = Commit(high \ masters, fall, {})
          /\ phase' = IF fall = {} THEN "end" ELSE "chain"
          /\ fired' = fired \cup fall
    BY <1>6 DEF MasterFall
  <2>2. CASE fall = {}
    <3>1. high' = high \ masters
      BY <2>1, <2>2, CommitNothing
    <3>2. design' = design /\ prevClock' = prevClock
      BY <1>6 DEF MasterFall
    <3>3. Active(high)' = Active(high \ masters) /\ MasterGated' = MasterGated
      BY <3>1, <3>2 DEF Active, MasterGated, Support
    <3>4. Risen' = Risen
      BY <3>2, <3>3, MastersUnseen DEF Risen
    <3> QED BY <1>6, <2>1, <2>2, <3>4 DEF MasterFall, Served
  <2>3. CASE fall # {}
    <3>1. Cardinality(fired') \in Nat
      BY <2>1, FS_Subset, FS_CardinalityType, DerivedClocksAssumption DEF TypeOK
    <3>2. iters' = 0 /\ phase' = "chain"
      BY <1>6, <2>1, <2>3 DEF MasterFall
    <3> QED BY <3>1, <3>2 DEF Served
  <2> QED BY <2>2, <2>3
<1>7. CASE FallChain
  <2>0. phase = "chain" /\ iters <= Cardinality(fired) /\ fired \subseteq Clock
    BY <1>7 DEF FallChain, Served, TypeOK
  <2>1. Chained \subseteq Clock /\ Chained \cap fired = {}
    BY DEF Chained
  <2>2. CASE iters = Cardinality(Clock) \/ Chained = {}
    <3>1. Chained = {}
      <4> SUFFICES ASSUME Chained # {} PROVE FALSE
        OBVIOUS
      <4>1. /\ Cardinality(fired) < Cardinality(Clock)
            /\ Cardinality(fired) \in Nat /\ Cardinality(Clock) \in Nat
        BY <2>0, <2>1, Growing
      <4> QED BY <2>0, <2>2, <4>1
    <3>2. Risen \subseteq fired
      BY <3>1 DEF Chained, Risen
    <3>3. Risen' = Risen /\ fired' = fired /\ phase' = "resets"
      BY <1>7, <2>2 DEF FallChain, Risen, Active, MasterGated, Support
    <3> QED BY <3>2, <3>3 DEF Served
  <2>3. CASE ~ (iters = Cardinality(Clock) \/ Chained = {})
    <3>1. fired' = fired \cup Chained /\ iters' = iters + 1 /\ phase' = "chain"
      BY <1>7, <2>0, <2>3 DEF FallChain
    <3>2. iters + 1 <= Cardinality(fired \cup Chained)
      BY <2>0, <2>1, <2>3, Growing DEF TypeOK
    <3> QED BY <3>1, <3>2 DEF Served
  <2> QED BY <2>2, <2>3
<1>8. CASE FallResets
  <2>1. CASE phase' = "end" /\ UNCHANGED <<high, late>>
    <3>1. Risen' = Risen /\ fired' = fired /\ phase = "resets"
      BY <1>8, <2>1 DEF FallResets, Risen, Active, MasterGated, Support
    <3> QED BY <2>1, <3>1 DEF Served
  <2>2. CASE late' = TRUE /\ UNCHANGED phase
    BY <1>8, <2>2 DEF FallResets, Served
  <2> QED BY <1>8, <2>1, <2>2 DEF FallResets
<1>9. CASE EndStep
  BY <1>9 DEF EndStep, Served
<1> QED
  BY <1>1, <1>2, <1>3, <1>4, <1>5, <1>6, <1>7, <1>8, <1>9 DEF Next, Step

\* At the end of every step each derived clock that has risen since the last
\* one has fired, unless a reset raised it at the very end of the step.
THEOREM EdgesServedHolds == Spec => []EdgesServed
<1>1. Init => TypeOK /\ Served
  BY TypeInit DEF Init, Served
<1>2. Served => EdgesServed
  BY DEF Served, Risen, EdgesServed
<1> QED
  BY <1>1, <1>2, TypeStep, ServedStep, PTL DEF Spec

-------------------------------------------------------------------------------
(* Resets reach their registers *)

ResetOf(r) == design.reg[r].reset

\* What has been seen asserted, and did not slip by, holds its registers.
Obeyed ==
  \A r \in Register :
    ResetOf(r) \in (Asserted(high) \cap prevReset) \ missed => r \notin high

PortObeyed ==
  \A r \in Register :
    ResetOf(r) \in (ResetPort \cap high) \ pending => r \notin high

\* The resets whose registers all hold their reset values.
Cleared == {x \in Monitored : \A r \in Register : ResetOf(r) = x => r \notin high}

\* When a step ends every asserted reset has been seen.  The bound on the
\* loop at the fall cannot cut it short: each turn clears a reset more, or
\* changes nothing and is the last.
Seen ==
  /\ phase \in {"fall", "end"} => Asserted(high) \subseteq prevReset
  /\ phase = "resets" =>
       Asserted(high) \subseteq prevReset \/ iters <= Cardinality(Cleared)

ResetInv == TypeOK /\ Obeyed /\ PortObeyed /\ Seen

\* Input clocks are no part of a reset net.
LEMMA ClocksUnseen ==
  ASSUME TypeOK, NEW h, NEW ms \in SUBSET InputClock
  PROVE  Asserted(h \cup ms) = Asserted(h) /\ Asserted(h \ ms) = Asserted(h)
<1>1. \A x \in Reset :
        /\ On(design.reset[x], h \cup ms) <=> On(design.reset[x], h)
        /\ On(design.reset[x], h \ ms) <=> On(design.reset[x], h)
  <2> SUFFICES ASSUME NEW x \in Reset
               PROVE  /\ On(design.reset[x], h \cup ms) <=> On(design.reset[x], h)
                      /\ On(design.reset[x], h \ ms) <=> On(design.reset[x], h)
    OBVIOUS
  <2> DEFINE ps == design.reset[x].pos
             ns == design.reset[x].neg
  <2>1. ps \cap InputClock = {} /\ ns \cap InputClock = {}
    BY DerivedClocksAssumption DEF TypeOK
  <2> HIDE DEF ps, ns
  <2>2. /\ ps \subseteq h \cup ms <=> ps \subseteq h
        /\ ps \subseteq h \ ms <=> ps \subseteq h
        /\ ns \cap (h \cup ms) = {} <=> ns \cap h = {}
        /\ ns \cap (h \ ms) = {} <=> ns \cap h = {}
    BY <2>1
  <2> QED BY <2>2 DEF On, ps, ns
<1> QED BY <1>1 DEF Asserted, Monitored

\* A register in reset, or reset now, does not leave its reset value.
LEMMA StaysReset ==
  ASSUME NEW h, NEW cs, NEW rs, NEW r \in Register,
         ResetOf(r) \in rs \/ (InReset(r, h) /\ r \notin h)
  PROVE  r \notin Commit(h, cs, rs)
BY DEF Commit, ResetOf

\* A commit touches registers only.
LEMMA CommitPorts ==
  ASSUME NEW h, NEW cs, NEW rs
  PROVE  ResetPort \cap Commit(h, cs, rs) = ResetPort \cap h
BY DerivedClocksAssumption DEF Commit

\* The primed view of what the design, which never changes, asserts.
LEMMA AssertedLater ==
  ASSUME design' = design
  PROVE  /\ Asserted(high)' = Asserted(high')
         /\ Monitored' = Monitored
         /\ \A r \in Register : ResetOf(r)' = ResetOf(r)
BY DEF Asserted, Monitored, ResetOf

\* An event region that fires no derived reset keeps the registers of every
\* reset that is in force; ps are the reset ports whose assertion it carries.
LEMMA RegionOfClocks ==
  ASSUME TypeOK, Obeyed, PortObeyed, design' = design, prevReset' = prevReset,
         NEW h, Asserted(h) = Asserted(high),
         Register \cap h = Register \cap high, ResetPort \cap h = ResetPort \cap high,
         NEW cs, NEW ps \in SUBSET ResetPort,
         high' = Commit(h, cs, ps), missed' = Overlooked(high', prevReset, {}),
         pending' = pending \ ps
  PROVE  Obeyed' /\ PortObeyed'
<1>1. Obeyed'
  <2> SUFFICES ASSUME NEW r \in Register,
                      ResetOf(r) \in (Asserted(high') \cap prevReset) \ missed'
               PROVE  r \notin high'
    BY AssertedLater DEF Obeyed
  <2>1. ResetOf(r) \in Asserted(high) /\ ResetOf(r) \notin missed
    BY DEF Overlooked
  <2>2. r \notin high
    BY <2>1 DEF Obeyed
  <2>3. InReset(r, h) /\ r \notin h
    BY <2>1, <2>2 DEF InReset, ResetOf
  <2> QED BY <2>3, StaysReset
<1>2. PortObeyed'
  <2> SUFFICES ASSUME NEW r \in Register,
                      ResetOf(r) \in (ResetPort \cap high') \ pending'
               PROVE  r \notin high'
    BY AssertedLater DEF PortObeyed
  <2>1. ResetOf(r) \in ResetPort \cap high
    BY CommitPorts
  <2>2. CASE ResetOf(r) \in ps
    BY <2>2, StaysReset
  <2>3. CASE ResetOf(r) \notin pending
    <3>1. r \notin high
      BY <2>1, <2>3 DEF PortObeyed
    <3>2. InReset(r, h) /\ r \notin h
      BY <2>1, <3>1 DEF InReset, ResetOf
    <3> QED BY <3>2, StaysReset
  <2> QED BY <2>2, <2>3
<1> QED BY <1>1, <1>2

\* An event region that fires the resets asserted since the last look, and
\* records the levels it looked at, does so too.
LEMMA RegionOfResets ==
  ASSUME TypeOK, Obeyed, PortObeyed, design' = design, pending' = pending,
         NEW cs, high' = Commit(high, cs, Asserted(high) \ prevReset),
         prevReset' = Asserted(high),
         missed' = Overlooked(high', prevReset', Asserted(high) \ prevReset)
  PROVE  Obeyed' /\ PortObeyed'
<1>1. Obeyed'
  <2> SUFFICES ASSUME NEW r \in Register,
                      ResetOf(r) \in (Asserted(high') \cap Asserted(high)) \ missed'
               PROVE  r \notin high'
    BY AssertedLater DEF Obeyed
  <2>1. CASE ResetOf(r) \notin prevReset
    BY <2>1, StaysReset
  <2>2. CASE ResetOf(r) \in prevReset
    <3>1. ResetOf(r) \notin missed
      BY <2>2 DEF Overlooked
    <3>2. r \notin high
      BY <2>2, <3>1 DEF Obeyed
    <3>3. InReset(r, high)
      BY DEF InReset, ResetOf
    <3> QED BY <3>2, <3>3, StaysReset
  <2> QED BY <2>1, <2>2
<1>2. PortObeyed'
  <2> SUFFICES ASSUME NEW r \in Register,
                      ResetOf(r) \in (ResetPort \cap high') \ pending
               PROVE  r \notin high'
    BY AssertedLater DEF PortObeyed
  <2>1. ResetOf(r) \in ResetPort \cap high
    BY CommitPorts
  <2>2. r \notin high
    BY <2>1 DEF PortObeyed
  <2>3. InReset(r, high)
    BY <2>1 DEF InReset, ResetOf
  <2> QED BY <2>2, <2>3, StaysReset
<1> QED BY <1>1, <1>2

\* The number of cleared resets is bounded by that of the resets.
LEMMA ClearedBound ==
  /\ IsFiniteSet(Monitored) /\ IsFiniteSet(Cleared)
  /\ Cardinality(Cleared) \in Nat /\ Cardinality(Monitored) \in Nat
  /\ Cardinality(Cleared) <= Cardinality(Monitored)
<1>1. IsFiniteSet(Reset) /\ Monitored \in SUBSET Reset /\ Cleared \in SUBSET Monitored
  BY DerivedClocksAssumption DEF Monitored, Cleared
<1>2. IsFiniteSet(Monitored)
  BY <1>1, FS_Subset
<1>3. IsFiniteSet(Cleared) /\ Cardinality(Cleared) <= Cardinality(Monitored)
  BY <1>1, <1>2, FS_Subset
<1> QED BY <1>2, <1>3, FS_CardinalityType

\* A turn of the reset loop clears a reset more, or leaves nothing to do.
LEMMA ResetTurn ==
  ASSUME TypeOK, design' = design,
         high' = Commit(high, {}, Asserted(high) \ prevReset),
         prevReset' = Asserted(high), iters' = iters + 1,
         iters <= Cardinality(Cleared)
  PROVE  (Asserted(high) \subseteq prevReset \/ iters <= Cardinality(Cleared))'
<1> DEFINE rs == Asserted(high) \ prevReset
<1>1. \A r \in Register : r \in high' <=> r \in high /\ ResetOf(r) \notin rs
  BY DEF Commit, ResetOf
<1>2. high' \ Register = high \ Register
  BY DEF Commit
<1>3. CASE rs \subseteq Cleared
  <2>1. high' = high
    BY <1>1, <1>2, <1>3 DEF Cleared
  <2> QED BY <2>1, AssertedLater
<1>4. CASE ~ (rs \subseteq Cleared)
  <2>1. PICK x \in rs : x \notin Cleared
    BY <1>4
  <2>2. x \in Monitored
    BY <2>1 DEF Asserted
  <2>3. Cleared' = {y \in Monitored : \A r \in Register : ResetOf(r) = y => r \notin high'}
    BY AssertedLater DEF Cleared
  <2>4. Cleared \subseteq Cleared'
    BY <1>1, <2>3 DEF Cleared
  <2>5. x \in Cleared'
    BY <1>1, <2>1, <2>2, <2>3
  <2>6. IsFiniteSet(Cleared')
    BY AssertedLater, ClearedBound, <2>3, FS_Subset,
       Cleared' \in SUBSET Monitored
  <2>7. Cardinality(Cleared') \in Nat /\ Cardinality(Cleared) \in Nat
    BY <2>6, ClearedBound, FS_CardinalityType
  <2>8. Cardinality(Cleared) <= Cardinality(Cleared') /\ Cardinality(Cleared) # Cardinality(Cleared')
    BY <2>1, <2>4, <2>5, <2>6, FS_Subset
  <2>9. iters' <= Cardinality(Cleared')
    BY <2>7, <2>8 DEF TypeOK
  <2> QED BY <2>9
<1> QED BY <1>3, <1>4

\* Every phase keeps the resets obeyed and seen.
LEMMA ResetStep == ResetInv /\ [Next]_vars => ResetInv'
<1> SUFFICES ASSUME ResetInv, [Next]_vars PROVE (Obeyed /\ PortObeyed /\ Seen)'
  BY TypeStep DEF ResetInv
<1> DEFINE Goal == (Obeyed /\ PortObeyed /\ Seen)'
<1>a. TypeOK /\ Obeyed /\ PortObeyed /\ Seen
  BY DEF ResetInv
<1>b. InputClock \cap Register = {} /\ InputClock \cap ResetPort = {}
  BY DerivedClocksAssumption
<1>1. CASE UNCHANGED vars
  <2>1. UNCHANGED <<Asserted(high), Monitored, Cleared>>
    BY <1>1 DEF vars, Asserted, Monitored, Cleared, ResetOf
  <2> QED BY <1>1, <1>a, <2>1 DEF vars, Obeyed, PortObeyed, Seen, ResetOf
<1>2. ASSUME NEW i \in Input, Drive(i) PROVE Goal
  <2>1. phase' = "idle" /\ design' = design /\ prevReset' = prevReset
    BY <1>2 DEF Drive
  <2>2. \A r \in Register : r \in high' <=> r \in high
    BY <1>2, DerivedClocksAssumption DEF Drive
  <2>3. Obeyed'
    <3> SUFFICES ASSUME NEW r \in Register,
                        ResetOf(r) \in (Asserted(high') \cap prevReset) \ missed'
                 PROVE  r \notin high'
      BY <2>1, AssertedLater DEF Obeyed
    <3>1. missed' = Overlooked(high', prevReset, {})
      BY <1>2 DEF Drive
    <3>2. ResetOf(r) \in Asserted(high) /\ ResetOf(r) \notin missed
      BY <3>1 DEF Overlooked
    <3> QED BY <1>a, <2>2, <3>2 DEF Obeyed
  <2>4. PortObeyed'
    <3> SUFFICES ASSUME NEW r \in Register,
                        ResetOf(r) \in (ResetPort \cap high') \ pending'
                 PROVE  r \notin high'
      BY <2>1, AssertedLater DEF PortObeyed
    <3>1. ResetOf(r) \in (ResetPort \cap high) \ pending
      BY <1>2 DEF Drive
    <3> QED BY <1>a, <2>2, <3>1 DEF PortObeyed
  <2> QED BY <2>1, <2>3, <2>4 DEF Seen
<1>3. ASSUME NEW E \in SUBSET InputClock \ {{}}, MasterEdge(E) PROVE Goal
  <2> DEFINE h == high \cup (E \cap MasterInputs)
  <2>1. PICK cs : high' = Commit(h, cs, pending)
    BY <1>3 DEF MasterEdge
  <2>2. /\ design' = design /\ prevReset' = prevReset /\ pending' = {}
        /\ missed' = Overlooked(high', prevReset, {})
        /\ phase' = "post" \/ (phase' = "fall" /\ Monitored = {})
    BY <1>3 DEF MasterEdge
  <2>3. Asserted(h) = Asserted(high)
    BY <1>a, ClocksUnseen
  <2>4. Register \cap h = Register \cap high /\ ResetPort \cap h = ResetPort \cap high
    BY <1>b
  <2>5. pending \in SUBSET ResetPort /\ pending' = pending \ pending
    BY <1>a, <2>2 DEF TypeOK
  <2> HIDE DEF h
  <2>6. Obeyed' /\ PortObeyed'
    BY <1>a, <2>1, <2>2, <2>3, <2>4, <2>5, RegionOfClocks
  <2>7. Seen'
    <3>1. Monitored = {} => Asserted(high)' = {}
      BY <2>2, AssertedLater DEF Asserted
    <3> QED BY <2>2, <3>1 DEF Seen
  <2> QED BY <2>6, <2>7
<1>4. CASE PostCommit
  <2>1. phase' = "post"
    BY <1>4 DEF PostCommit
  <2>2. Obeyed' /\ PortObeyed'
    BY <1>4, <1>a, RegionOfResets DEF PostCommit, Snapshot
  <2> QED BY <2>1, <2>2 DEF Seen
<1>5. CASE PostCommitDone
  <2>1. UNCHANGED Asserted(high) /\ phase' = "fall"
    BY <1>5 DEF PostCommitDone, Asserted, Monitored
  <2> QED BY <1>5, <1>a, <2>1 DEF PostCommitDone, Obeyed, PortObeyed, Seen, ResetOf
<1>6. CASE MasterFall
  <2>1. PICK fall \in SUBSET Clock :
          /\ high' = Commit(high \ masters, fall, {})
          /\ phase' = IF fall = {} THEN "end" ELSE "chain"
    BY <1>6, Levels DEF MasterFall
  <2>2. /\ design' = design /\ prevReset' = prevReset /\ pending' = pending \ {}
        /\ missed' = Overlooked(high', prevReset, {}) /\ phase = "fall"
    BY <1>6 DEF MasterFall
  <2>3. masters \in SUBSET InputClock
    BY <1>a DEF TypeOK
  <2>4. Asserted(high \ masters) = Asserted(high)
    BY <1>a, <2>3, ClocksUnseen
  <2>5. /\ Register \cap (high \ masters) = Register \cap high
        /\ ResetPort \cap (high \ masters) = ResetPort \cap high
    BY <1>b, <2>3
  <2>6. Obeyed' /\ PortObeyed'
    BY <1>a, <2>1, <2>2, <2>4, <2>5, RegionOfClocks
  <2>7. Seen'
    <3>1. fall = {} => Asserted(high)' = Asserted(high)
      BY <2>1, <2>2, <2>4, CommitNothing, AssertedLater
    <3> QED BY <1>a, <2>1, <2>2, <3>1 DEF Seen
  <2> QED BY <2>6, <2>7
<1>7. CASE FallChain
  <2>1. CASE phase' = "resets" /\ iters' = 0 /\ UNCHANGED <<high, missed>>
    <3>1. /\ UNCHANGED Asserted(high) /\ design' = design
          /\ UNCHANGED <<high, missed, prevReset, pending>>
      BY <1>7, <2>1 DEF FallChain, Asserted, Monitored
    <3>2. Cleared' = Cleared
      BY <3>1, AssertedLater DEF Cleared
    <3>3. Seen'
      BY <2>1, <3>2, ClearedBound DEF Seen
    <3> QED BY <1>a, <3>1, <3>3 DEF Obeyed, PortObeyed, ResetOf
  <2>2. CASE /\ high' = Commit(high, Chained, {}) /\ UNCHANGED phase
             /\ missed' = Overlooked(high', prevReset, {})
    <3>1. /\ design' = design /\ prevReset' = prevReset /\ pending' = pending \ {}
          /\ phase = "chain"
      BY <1>7 DEF FallChain
    <3>2. Obeyed' /\ PortObeyed'
      BY <1>a, <2>2, <3>1, RegionOfClocks
    <3> QED BY <2>2, <3>1, <3>2 DEF Seen
  <2> QED BY <1>7, <2>1, <2>2 DEF FallChain
<1>8. CASE FallResets
  <2>0. phase = "resets" /\ design' = design /\ pending' = pending
    BY <1>8 DEF FallResets
  <2>1. CASE /\ iters = Cardinality(Monitored) + 1 \/ Asserted(high) \ prevReset = {}
             /\ phase' = "end" /\ UNCHANGED <<high, prevReset, missed>>
    <3>1. Asserted(high) \subseteq prevReset
      <4>1. CASE Asserted(high) \ prevReset = {}
        BY <4>1
      <4>2. CASE iters = Cardinality(Monitored) + 1
        BY <1>a, <2>0, <4>2, ClearedBound DEF Seen
      <4> QED BY <2>1, <4>1, <4>2
    <3>2. UNCHANGED Asserted(high)
      BY <2>0, <2>1, AssertedLater
    <3> QED BY <1>a, <2>0, <2>1, <3>1, <3>2 DEF Obeyed, PortObeyed, Seen, ResetOf
  <2>2. CASE /\ Asserted(high) \ prevReset # {} /\ prevReset' = Asserted(high)
             /\ high' = Commit(high, {}, Asserted(high) \ prevReset)
             /\ iters' = iters + 1 /\ UNCHANGED phase
             /\ missed' = Overlooked(high', prevReset', Asserted(high) \ prevReset)
    <3>1. Obeyed' /\ PortObeyed'
      BY <1>a, <2>0, <2>2, RegionOfResets
    <3>2. iters <= Cardinality(Cleared)
      BY <1>a, <2>0, <2>2 DEF Seen
    <3>3. Seen'
      BY <1>a, <2>0, <2>2, <3>2, ResetTurn DEF Seen
    <3> QED BY <3>1, <3>3
  <2> QED BY <1>8, <2>1, <2>2 DEF FallResets
<1>9. CASE EndStep
  <2>1. /\ phase = "end" /\ phase' = "idle" /\ prevReset' = Asserted(high)
        /\ UNCHANGED <<design, high, pending, missed>>
    BY <1>9 DEF EndStep
  <2>2. UNCHANGED Asserted(high)
    BY <2>1, AssertedLater
  <2>3. Asserted(high) \subseteq prevReset
    BY <1>a, <2>1 DEF Seen
  <2> QED BY <1>a, <2>1, <2>2, <2>3 DEF Obeyed, PortObeyed, Seen, ResetOf
<1> QED
  BY <1>1, <1>2, <1>3, <1>4, <1>5, <1>6, <1>7, <1>8, <1>9 DEF Next, Step

\* Between two steps the registers of an asserted reset hold their reset
\* values, unless the reset was released and asserted again unseen.
THEOREM ResetHoldsHolds == Spec => []ResetHolds
<1>1. Init => ResetInv
  <2> SUFFICES ASSUME Init PROVE ResetInv
    OBVIOUS
  <2>1. high = {} /\ phase = "idle"
    BY DEF Init
  <2> QED BY <2>1, TypeInit DEF ResetInv, Obeyed, PortObeyed, Seen
<1>2. ResetInv => ResetHolds
  BY DEF ResetInv, Obeyed, PortObeyed, ResetHolds, ResetOf
<1> QED
  BY <1>1, <1>2, ResetStep, PTL DEF Spec
================================================================================
