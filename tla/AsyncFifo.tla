------------------------------- MODULE AsyncFifo -------------------------------
(***************************************************************************)
(* async_fifo of the standard library: a RAM written on the source clock   *)
(* and read on the destination clock, whose pointers cross in Gray code    *)
(* through synchronizers.  An action is an edge of one clock; edges of the *)
(* two come in any order and at any rate.                                  *)
(*                                                                         *)
(* A bit that crosses may arrive late, by less than a period of the clock  *)
(* that drives it, each bit on its own account: `wire' is how much of each *)
(* pointer has arrived, and a synchronizer samples any mixture of that and *)
(* the register.  Simultaneous edges are covered, as both sides may sample *)
(* what was there before.                                                  *)
(*                                                                         *)
(* Resets are asynchronous.  With MERGE_RESET either input resets both     *)
(* sides, and each leaves reset RESET_SYNC_STAGES of its own edges later;  *)
(* without it the two inputs are assumed to be asserted together.          *)
(***************************************************************************)
EXTENDS Naturals, Sequences

CONSTANTS
  Data,             \* TYPE
  Depth,            \* DEPTH
  PointerWidth,     \* POINTER_WIDTH
  gray,             \* gray_encoder: the code of each pointer
  bin,              \* gray_decoder: the pointer each bit vector decodes to
  Threshold,        \* THRESHOLD
  Stages,           \* STAGES
  MergeReset,       \* MERGE_RESET
  ResetSyncStages,  \* RESET_SYNC_STAGES
  Resets,           \* the resets may be asserted again
  None

Pointer == 0 .. 2 ^ PointerWidth - 1
Bits == [1..PointerWidth -> {0, 1}]

Add(p, n) == (p + n) % 2 ^ PointerWidth
Sub(p, q) == (p + 2 ^ PointerWidth - q) % 2 ^ PointerWidth

\* Each bit is that of a or that of b.
Mixed(a, b) == {g \in Bits : \A i \in DOMAIN g : g[i] \in {a[i], b[i]}}

\* DEPTH is a power of two, and the pointers have one bit more than it needs.
ASSUME AsyncFifoAssumption ==
  /\ Depth \in Nat \ {0, 1}
  /\ PointerWidth \in Nat /\ 2 ^ PointerWidth = 2 * Depth
  /\ Threshold \in 0..Depth
  /\ Stages \in Nat \ {0} /\ ResetSyncStages \in Nat
  /\ MergeReset \in BOOLEAN /\ Resets \in BOOLEAN
  /\ None \notin Data

\* What the FIFO relies on: the decoder inverts the encoder, and the codes of
\* successive pointers, the last and the first included, differ in one bit, so
\* that no mixture of the two is a third.
ASSUME CodeAssumption ==
  /\ gray \in [Pointer -> Bits] /\ bin \in [Bits -> Pointer]
  /\ \A p \in Pointer : bin[gray[p]] = p
  /\ \A p \in Pointer :
       Mixed(gray[p], gray[Add(p, 1)]) \subseteq {gray[p], gray[Add(p, 1)]}

VARIABLES
  s,         \* registers on the source clock
  d,         \* registers on the destination clock
  wire,      \* per side, how much of its pointer register has arrived
  ram,
  rst,       \* the sides whose reset input is active
  released,  \* per side, the ones its reset synchronizer has shifted in
  delivered  \* what the last pop read from od_data

vars == <<s, d, wire, ram, rst, released, delivered>>

-------------------------------------------------------------------------------

Side == {"s", "d"}

TypeOK ==
  /\ s \in [wp: Pointer, gray: Bits, rp: [1..Stages -> Bits],
            full: BOOLEAN, almostFull: BOOLEAN]
  /\ d \in [rp: Pointer, rpNext: Pointer, gray: Bits,
            wp: [1..Stages -> Bits], empty: BOOLEAN, q: Data]
  /\ wire \in [Side -> Bits]
  /\ ram \in [0 .. Depth - 1 -> Data]
  /\ rst \in SUBSET Side
  /\ released \in [Side -> 0..ResetSyncStages]
  /\ delivered \in Data \cup {None}

\* async_fifo_reset_sync: whether srst, or drst, is active.
InReset(side) ==
  IF MergeReset THEN rst # {} \/ released[side] < ResetSyncStages
                ELSE side \in rst

SrcReset == [wp |-> 0, gray |-> gray[0],
             rp |-> [i \in 1..Stages |-> gray[0]],
             full |-> FALSE, almostFull |-> FALSE]
DstReset(q) == [rp |-> 0, rpNext |-> 1, gray |-> gray[0],
                wp |-> [i \in 1..Stages |-> gray[0]],
                empty |-> TRUE, q |-> q]

Init ==
  /\ s = SrcReset
  /\ \E x \in Data : d = DstReset(x)
  /\ ram \in [0 .. Depth - 1 -> Data]
  /\ wire = [side \in Side |-> gray[0]]
  /\ rst = Side
  /\ released = [side \in Side |-> 0]
  /\ delivered = None

\* What a synchronizer may see of a register that another clock drives.
Sampled(side, register) == Mixed(wire[side], register)

\* synchronizer_basic: every stage takes over what the one before it held.
Shift(stages, g) == [i \in 1..Stages |-> IF i = 1 THEN g ELSE stages[i - 1]]

-------------------------------------------------------------------------------
(* The source side *)

\* Mutation of WordCount: the push of this edge is not counted.
WordCountBefore(wpNext) == Sub(s.wp, bin[s.rp[Stages]])

\* The words in the FIFO as far as this side knows, after this edge.
WordCount(wpNext) == Sub(wpNext, bin[s.rp[Stages]])

\* Mutation of SrcRegisters: the flags follow pushes only.
SrcRegistersStuck(push, g) ==
  LET wpNext == IF push THEN Add(s.wp, 1) ELSE s.wp
  IN  [wp |-> wpNext, gray |-> gray[s.wp],
       rp |-> Shift(s.rp, g),
       full |-> IF push THEN WordCount(wpNext) >= Depth ELSE s.full,
       almostFull |-> WordCount(wpNext) >= Threshold]

\* full is the top bit of the word count.
SrcRegisters(push, g) ==
  LET wpNext == IF push THEN Add(s.wp, 1) ELSE s.wp
  IN  [wp |-> wpNext, gray |-> gray[s.wp],
       rp |-> Shift(s.rp, g),
       full |-> WordCount(wpNext) >= Depth,
       almostFull |-> WordCount(wpNext) >= Threshold]

\* The RAM has no reset: it is written even then.
Written(push, x) == IF push THEN [ram EXCEPT ![s.wp % Depth] = x] ELSE ram

\* The reset synchronizer of a side shifts in a one.
Count(side) ==
  released' = [released EXCEPT ![side] =
                 IF rst = {} /\ @ < ResetSyncStages THEN @ + 1 ELSE @]

\* Mutation of SrcEdge: a push does not look at full.
SrcEdgeOverrun(isPush, x) ==
  /\ ram' = Written(isPush, x)
  /\ IF InReset("s") THEN UNCHANGED <<s, wire>>
     ELSE \E g \in Sampled("d", d.gray) :
            /\ s' = SrcRegisters(isPush, g)
            /\ wire' = [wire EXCEPT !["d"] = g, !["s"] = s.gray]
  /\ Count("s")
  /\ UNCHANGED <<d, rst, delivered>>

\* An edge of is_clk.
SrcEdge(isPush, x) ==
  LET push == isPush /\ ~ s.full
  IN  /\ ram' = Written(push, x)
      /\ IF InReset("s") THEN UNCHANGED <<s, wire>>
         ELSE \E g \in Sampled("d", d.gray) :
                /\ s' = SrcRegisters(push, g)
                /\ wire' = [wire EXCEPT !["d"] = g, !["s"] = s.gray]
      /\ Count("s")
      /\ UNCHANGED <<d, rst, delivered>>

-------------------------------------------------------------------------------
(* The destination side *)

\* Mutation of EmptyNext: the flag follows pops only.
EmptyNextOnPop(pop) == IF pop THEN bin[d.wp[Stages]] = d.rpNext ELSE d.empty

\* What empty becomes at this edge.
EmptyNext(pop) == bin[d.wp[Stages]] = IF pop THEN d.rpNext ELSE d.rp

\* Mutation of Q: after a pop the word popped is read again.
QAgain(pop) ==
  IF EmptyNext(pop) THEN d.q
  ELSE IF d.empty \/ pop THEN ram[d.rp % Depth]
  ELSE d.q

\* The output register is loaded when data appear and after a pop.
Q(pop) ==
  IF EmptyNext(pop) THEN d.q
  ELSE IF d.empty THEN ram[d.rp % Depth]
  ELSE IF pop THEN ram[d.rpNext % Depth]
  ELSE d.q

\* Mutation of DstRegisters: rp_dclk_next is wider than the pointers.
DstRegistersWide(pop, g) ==
  [rp |-> IF pop THEN d.rpNext ELSE d.rp,
   rpNext |-> IF pop THEN d.rpNext + 1 ELSE d.rpNext,
   gray |-> gray[d.rp], wp |-> Shift(d.wp, g),
   empty |-> EmptyNext(pop), q |-> Q(pop)]

\* The registers after an edge out of reset.
DstRegisters(pop, g) ==
  [rp |-> IF pop THEN d.rpNext ELSE d.rp,
   rpNext |-> IF pop THEN Add(d.rpNext, 1) ELSE d.rpNext,
   gray |-> gray[d.rp], wp |-> Shift(d.wp, g),
   empty |-> EmptyNext(pop), q |-> Q(pop)]

\* Mutation of DstEdge: the encoder's output crosses, not its register.
DstEdgeUnregistered(idPop) ==
  LET pop == idPop /\ ~ d.empty
  IN  /\ IF InReset("d") THEN d' = [d EXCEPT !.q = Q(FALSE)] /\ UNCHANGED wire
         ELSE \E g \in Sampled("s", gray[s.wp]) :
                /\ d' = DstRegisters(pop, g)
                /\ wire' = [wire EXCEPT !["s"] = g, !["d"] = d.gray]
      /\ delivered' = IF pop THEN d.q ELSE delivered
      /\ Count("d")
      /\ UNCHANGED <<s, ram, rst>>

\* An edge of id_clk.
DstEdge(idPop) ==
  LET pop == idPop /\ ~ d.empty
  IN  /\ IF InReset("d") THEN d' = [d EXCEPT !.q = Q(FALSE)] /\ UNCHANGED wire
         ELSE \E g \in Sampled("s", s.gray) :
                /\ d' = DstRegisters(pop, g)
                /\ wire' = [wire EXCEPT !["s"] = g, !["d"] = d.gray]
      /\ delivered' = IF pop THEN d.q ELSE delivered
      /\ Count("d")
      /\ UNCHANGED <<s, ram, rst>>

-------------------------------------------------------------------------------
(* Reset *)

AssertReset(sides) ==
  /\ Resets
  /\ ~ sides \subseteq rst
  /\ MergeReset \/ sides = Side
  /\ rst' = rst \cup sides
  /\ released' = [side \in Side |-> 0]
  /\ s' = SrcReset
  /\ d' = DstReset(d.q)
  /\ wire' = [side \in Side |-> gray[0]]
  /\ UNCHANGED <<ram, delivered>>

ReleaseReset(side) ==
  /\ side \in rst
  /\ rst' = rst \ {side}
  /\ UNCHANGED <<s, d, wire, ram, released, delivered>>

-------------------------------------------------------------------------------

SrcClock == \E isPush \in BOOLEAN, x \in Data : SrcEdge(isPush, x)
DstClock == \E idPop \in BOOLEAN : DstEdge(idPop)

Next ==
  \/ SrcClock
  \/ DstClock
  \/ \E sides \in SUBSET Side : AssertReset(sides)
  \/ \E side \in Side : ReleaseReset(side)

\* Both clocks run, the resets end, and the reader does not refuse data for
\* ever.  An edge is forced by what it does whatever the inputs are, so that
\* nobody is forced to push.
Fairness ==
  /\ WF_<<s.gray, s.rp, wire, released>>(SrcClock)
  /\ WF_vars(s.full /\ SrcClock)
  /\ WF_<<d.gray, d.wp, wire, released>>(DstClock)
  /\ WF_vars(d.empty /\ DstClock)
  /\ WF_vars(DstEdge(TRUE))
  /\ \A side \in Side : WF_vars(ReleaseReset(side))

Spec == Init /\ [][Next]_vars /\ Fairness

-------------------------------------------------------------------------------
(* Properties *)

Held == Sub(s.wp, d.rp)

\* async_fifo is a FIFO: its content is what lies between the pointers, no
\* push overwrites what is not popped yet, and each pop delivers the oldest.
Content == [i \in 1..Held |-> ram[Add(d.rp, i - 1) % Depth]]
Abstract == INSTANCE AbstractFifo WITH queue <- Content, delivered <- delivered
IsFifo == Abstract!Spec

\* Whenever od_empty says there are data, od_data is the oldest of them,
\* however far the pointers of the two sides are behind each other.
OutputReady == ~ d.empty => Held > 0 /\ d.q = ram[d.rp % Depth]

\* The source side never believes in room that is not there, though it sees
\* pops late: os_full and os_almost_full come in time.
FlagsInTime ==
  ~ InReset("s") => /\ Held >= Depth => s.full
                    /\ Held >= Threshold /\ Threshold > 0 => s.almostFull

\* "ram access from 'd domain is safe because read_pointer points stable data":
\* a word the destination is about to read is not the one the source has just
\* written or is about to write.
StableRead ==
  LET reads == {IF d.empty THEN d.rp % Depth ELSE d.rpNext % Depth}
      written == IF gray[s.wp] # s.gray THEN {Sub(s.wp, 1) % Depth} ELSE {}
      writes == IF s.full THEN {} ELSE {s.wp % Depth}
  IN  ~ EmptyNext(~ d.empty) => reads \cap (written \cup writes) = {}

\* Data pushed become visible to the reader, unless a reset clears them.
DataArrive == Held > 0 ~> ~ d.empty \/ Held = 0

\* A full FIFO does not stay full if the reader reads.
SpaceReturns == s.full ~> ~ s.full

===============================================================================
