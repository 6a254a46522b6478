----------------------------- MODULE DerivedClocks -----------------------------
(***************************************************************************)
(* One step of the simulator for a design that makes some of its own       *)
(* clocks and asynchronous resets.  The testbench hands over the input     *)
(* clocks that rise; everything else that happens in the step, the step    *)
(* finds out by comparing levels with the levels it recorded before.       *)
(*                                                                         *)
(* A design is drawn from Designs in the initial state.  The signals are   *)
(* bits, and high is the set of those that are 1.  A net is a product of   *)
(* literals or its complement, which covers gates, inversions, dividers    *)
(* and negedge or active-low nets.  A combinational net is a function of   *)
(* high: the code settles after every change and before every read.        *)
(* Registers reset to 0, where they also start.                            *)
(***************************************************************************)
EXTENDS Naturals, FiniteSets

CONSTANTS
  InputClock,
  Input,       \* the other inputs a testbench drives
  ResetPort,   \* those of them that are resets, asserted at 1
  Register,
  Clock,       \* derived clocks
  Reset,       \* derived asynchronous resets
  Designs,
  None

Signal == InputClock \cup Input \cup Register

Net == [pos: SUBSET Signal, neg: SUBSET Signal, inv: BOOLEAN]

Design ==
  [clock: [Clock -> Net], reset: [Reset -> Net],
   reg: [Register -> [clock: InputClock \cup Clock,
                      reset: ResetPort \cup Reset \cup {None}, next: Net]]]

ASSUME DerivedClocksAssumption ==
  /\ Designs \subseteq Design
  /\ ResetPort \subseteq Input
  /\ InputClock \cap Input = {}
  /\ (InputClock \cup Input) \cap Register = {}
  /\ InputClock \cap Clock = {}
  /\ ResetPort \cap Reset = {}
  /\ None \notin ResetPort \cup Reset
  /\ IsFiniteSet(Clock) /\ IsFiniteSet(Reset)
  /\ \A d \in Designs, x \in Reset :
       (d.reset[x].pos \cup d.reset[x].neg) \cap InputClock = {}

VARIABLES
  design,
  high,        \* the signals that are 1
  pending,     \* the reset ports asserted since the last step
  prevClock,   \* prev_derived_clock_values
  prevReset,   \* prev_derived_reset_asserted
  phase,
  masters,     \* the clocks of the step that derived clocks depend on
  mark,        \* derived_clock_high
  fired,       \* fired_mask
  iters,       \* turns of a loop at the fall, which are bounded
  fires,       \* history: how often each clock fired in this step
  missed,      \* history: the asserted resets whose assertion went unseen
  late         \* history: a reset fired after the chain of clocks had ended

vars == <<design, high, pending, prevClock, prevReset, phase, masters, mark,
          fired, iters, fires, missed, late>>

Phase == {"idle", "post", "fall", "chain", "resets", "end"}

TypeOK ==
  /\ design \in Designs
  /\ high \subseteq Signal
  /\ pending \subseteq ResetPort
  /\ prevClock \subseteq Clock /\ prevReset \subseteq Reset
  /\ phase \in Phase
  /\ masters \subseteq InputClock
  /\ mark \subseteq Clock /\ fired \subseteq Clock
  /\ iters \in Nat
  /\ fires \in [Clock -> Nat]
  /\ missed \subseteq Reset
  /\ late \in BOOLEAN

--------------------------------------------------------------------------------
(* Reading the design. *)

\* The level of a net when the signals h are 1.
On(net, h) == (net.pos \subseteq h /\ net.neg \cap h = {}) # net.inv

\* A reset that resets nothing is not monitored.
Monitored == Reset \cap {design.reg[r].reset : r \in Register}

\* The clocks at their active level and the resets at theirs.
Active(h) == {c \in Clock : On(design.clock[c], h)}
Asserted(h) == {x \in Monitored : On(design.reset[x], h)}

\* A clock is gated by the input clocks in its combinational cone.
Support(c) == InputClock \cap (design.clock[c].pos \cup design.clock[c].neg)
MasterGated == {c \in Clock : Support(c) # {}}
MasterInputs == UNION {Support(c) : c \in Clock}

\* Mutation of InReset: a clocked block does not see its derived reset.
InResetOfPort(r, h) == design.reg[r].reset \in ResetPort \cap h

\* if_reset samples the level of the reset when the clock fires.
InReset(r, h) ==
  \/ design.reg[r].reset \in ResetPort \cap h
  \/ design.reg[r].reset \in Asserted(h)

\* One event region: what the registers hold once the blocks of the clocks
\* cs and then those of the resets rs have run on h and the log is committed.
Commit(h, cs, rs) ==
  (h \ Register) \cup
  {r \in Register :
     /\ design.reg[r].reset \notin rs
     /\ IF design.reg[r].clock \in cs
        THEN ~InReset(r, h) /\ On(design.reg[r].next, h)
        ELSE r \in h}

--------------------------------------------------------------------------------
(* History. *)

Count(cs) == [c \in Clock |-> IF c \in cs THEN fires[c] + 1 ELSE fires[c]]

\* Resets that stay or become asserted on the way from high to h while the
\* step still remembers an earlier assertion p of them, less those in rs.
Overlooked(h, p, rs) ==
  {x \in Asserted(h) :
     \/ x \in missed \ rs
     \/ x \notin Asserted(high) /\ x \in p}

--------------------------------------------------------------------------------
Init ==
  /\ design \in Designs
  /\ high = {} /\ pending = {}
  /\ prevClock = Active({}) /\ prevReset = Asserted({})
  /\ phase = "idle"
  /\ masters = {} /\ mark = {} /\ fired = {} /\ iters = 0
  /\ fires = [c \in Clock |-> 0]
  /\ missed = {} /\ late = FALSE

\* Between two steps the testbench drives an input; a reset that it asserts
\* carries its assertion edge into the next step.
Drive(i) ==
  /\ phase = "idle"
  /\ high' = IF i \in high THEN high \ {i} ELSE high \cup {i}
  /\ pending' = IF i \in high THEN pending \ {i}
                ELSE pending \cup ({i} \cap ResetPort)
  /\ missed' = Overlooked(high', prevReset, {})
  /\ UNCHANGED <<design, prevClock, prevReset, phase, masters, mark, fired,
                 iters, fires, late>>

\* The clocks of the step rise.  Gated clocks that rise with them fire with
\* them, all on the state before the edge, and assertion edges come along.
MasterEdge(E) ==
  LET ms == E \cap MasterInputs
      h == high \cup ms
      gated == IF ms = {} THEN {} ELSE MasterGated \cap Active(h)
      preFire == gated \ prevClock
      postCommitSources == Monitored # {} \/ ms = {} \/ MasterGated # Clock
  IN /\ phase = "idle"
     /\ masters' = ms
     /\ mark' = gated
     /\ high' = Commit(h, E \cup preFire, pending)
     /\ pending' = {}
     /\ fired' = preFire
     /\ phase' = IF postCommitSources THEN "post" ELSE "fall"
     /\ fires' = [c \in Clock |-> IF c \in preFire THEN 1 ELSE 0]
     /\ missed' = Overlooked(high', prevReset, {})
     /\ late' = FALSE
     /\ UNCHANGED <<design, prevClock, prevReset, iters>>

\* A turn of the post-commit loop: every clock that rose since the last step
\* and every reset asserted since the last look, as one event region.  Gated
\* clocks are left out: their edge is an enable that changed.
Batch == Active(high) \ (prevClock \cup fired \cup MasterGated)

\* Mutation of Snapshot: the levels stay those of the last step.
SnapshotNone == prevReset

\* snapshot_derived_reset_levels
Snapshot == Asserted(high)

PostCommit ==
  LET rsts == Asserted(high) \ prevReset
  IN /\ phase = "post"
     /\ Batch # {} \/ rsts # {}
     /\ prevReset' = Snapshot
     /\ high' = Commit(high, Batch, rsts)
     /\ fired' = fired \cup Batch
     /\ fires' = Count(Batch)
     /\ missed' = Overlooked(high', prevReset', rsts)
     /\ UNCHANGED <<design, pending, prevClock, phase, masters, mark, iters,
                    late>>

PostCommitDone ==
  /\ phase = "post"
  /\ Batch = {} /\ Asserted(high) \subseteq prevReset
  /\ phase' = "fall"
  /\ UNCHANGED <<design, high, pending, prevClock, prevReset, masters, mark,
                 fired, iters, fires, missed, late>>

\* The masters fall, and gated clocks that were low while they were high may
\* rise with that: inversions and negedge clocks.
MasterFall ==
  LET h == high \ masters
      fall == IF masters = {} THEN {} ELSE (MasterGated \cap Active(h)) \ mark
  IN /\ phase = "fall"
     /\ high' = Commit(h, fall, {})
     /\ fired' = fired \cup fall
     /\ fires' = Count(fall)
     /\ phase' = IF fall = {} THEN "end" ELSE "chain"
     /\ iters' = 0
     /\ missed' = Overlooked(high', prevReset, {})
     /\ UNCHANGED <<design, pending, prevClock, prevReset, masters, mark, late>>

\* Mutation of Chained: a clock that rises is left to the next step.
ChainedNone == {}

\* Mutation of Chained: what fired before the fall is not remembered.
ChainedAgain == Active(high) \ (prevClock \cup MasterGated)

\* The clocks that rose because of a batch at the fall.
Chained == Active(high) \ (prevClock \cup fired \cup MasterGated)

FallChain ==
  /\ phase = "chain"
  /\ IF iters = Cardinality(Clock) \/ Chained = {}
     THEN /\ phase' = "resets" /\ iters' = 0
          /\ UNCHANGED <<high, fired, fires, missed>>
     ELSE /\ high' = Commit(high, Chained, {})
          /\ fired' = fired \cup Chained
          /\ iters' = iters + 1
          /\ fires' = Count(Chained)
          /\ missed' = Overlooked(high', prevReset, {})
          /\ UNCHANGED phase
  /\ UNCHANGED <<design, pending, prevClock, prevReset, masters, mark, late>>

\* The resets that the fall asserted, and those that these assert.
FallResets ==
  LET rsts == Asserted(high) \ prevReset
  IN /\ phase = "resets"
     /\ IF iters = Cardinality(Monitored) + 1 \/ rsts = {}
        THEN phase' = "end" /\ UNCHANGED <<high, prevReset, iters, missed, late>>
        ELSE /\ prevReset' = Asserted(high)
             /\ high' = Commit(high, {}, rsts)
             /\ iters' = iters + 1
             /\ missed' = Overlooked(high', prevReset', rsts)
             /\ late' = TRUE
             /\ UNCHANGED phase
     /\ UNCHANGED <<design, pending, prevClock, masters, mark, fired, fires>>

EndStep ==
  /\ phase = "end"
  /\ prevClock' = Active(high)
  /\ prevReset' = Asserted(high)
  /\ phase' = "idle"
  /\ masters' = {} /\ mark' = {} /\ fired' = {} /\ iters' = 0
  /\ fires' = [c \in Clock |-> 0]
  /\ late' = FALSE
  /\ UNCHANGED <<design, high, pending, missed>>

Step ==
  PostCommit \/ PostCommitDone \/ MasterFall \/ FallChain \/ FallResets \/ EndStep

Next ==
  \/ \E i \in Input : Drive(i)
  \/ \E E \in SUBSET InputClock \ {{}} : MasterEdge(E)
  \/ Step

Spec == Init /\ [][Next]_vars /\ WF_vars(Step)

--------------------------------------------------------------------------------
(* Properties. *)

\* No clock fires twice in one step, whichever of the three places of the
\* step finds its edge (step_with_derived_clocks, fire_derived_clock_batch).
OncePerStep == \A c \in Clock : fires[c] <= 1

\* At the end of a step every clock that has risen since the end of the last
\* one has fired: the levels recorded next make the edge invisible for good.
\* The exception is a rise caused by a reset that fired at the fall.
EdgesServed ==
  phase = "end" /\ ~late => Active(high) \ (prevClock \cup MasterGated) \subseteq fired

\* Between two steps the registers of an asserted reset hold their reset
\* values, even in a domain whose clock stands still.  The exception is a
\* reset released and asserted again between two looks at its level.
ResetHolds ==
  phase = "idle" =>
    /\ \A r \in Register : design.reg[r].reset \in Asserted(high) \ missed
         /\ design.reg[r].reset \in prevReset => r \notin high
    /\ \A r \in Register :
         design.reg[r].reset \in (ResetPort \cap high) \ pending => r \notin high

\* ResetHolds without its exception for missed: an asserted asynchronous
\* reset never leaves a register waiting for its next clock edge
\* (fire_asserted_derived_resets and the post-commit loop).
NoWaitingForClock ==
  phase = "idle" =>
    \A r \in Register :
      design.reg[r].reset \in Asserted(high) \cap prevReset => r \notin high

\* A step ends: neither the post-commit loop nor the loops at the fall can
\* go on for ever, whatever drives what.
StepEnds == phase # "idle" ~> phase = "idle"
================================================================================
