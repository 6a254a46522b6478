---------------------------- MODULE AsyncFifoProofs ----------------------------
(***************************************************************************)
(* Proofs about AsyncFifo, for every depth, number of stages and data.     *)
(*                                                                         *)
(* What each side knows of the other's pointer is old, so the pointers and *)
(* their copies are in the order of their age.  On the way from the source *)
(* side to the read pointer lie                                            *)
(*    wp_sclk, wp_sclk_gray_ff, the wire, and the synchronizer's stages,   *)
(* and behind the read pointer, on its way back, lie                       *)
(*    rp_dclk_gray_ff, the wire, and the synchronizer's stages.            *)
(* The distances that follow are measured from the read pointer; together  *)
(* they are never more than Depth, half of what a pointer can count, so    *)
(* that order and distance are what subtraction says they are.             *)
(***************************************************************************)
EXTENDS AsyncFifo, SequenceTheorems, TLAPS

Codes == {gray[p] : p \in Pointer}

\* How far the pointer coded by g is ahead of the read pointer, and behind it.
Ahead(g) == Sub(bin[g], d.rp)
Behind(g) == Sub(d.rp, bin[g])

AllCoded ==
  /\ s.gray \in Codes /\ d.gray \in Codes
  /\ \A side \in Side : wire[side] \in Codes
  /\ \A i \in 1..Stages : s.rp[i] \in Codes /\ d.wp[i] \in Codes

WriteChain ==
  /\ Ahead(s.gray) <= Held /\ Held <= Ahead(s.gray) + 1
  /\ Ahead(wire["s"]) <= Ahead(s.gray) /\ Ahead(s.gray) <= Ahead(wire["s"]) + 1
  /\ \A i \in 1..Stages : Ahead(d.wp[i]) <= Ahead(wire["s"])
  /\ \A i, j \in 1..Stages : i <= j => Ahead(d.wp[j]) <= Ahead(d.wp[i])

ReadChain ==
  /\ Behind(d.gray) <= 1
  /\ Behind(d.gray) <= Behind(wire["d"])
  /\ Behind(wire["d"]) <= Behind(d.gray) + 1
  /\ \A i \in 1..Stages : Behind(wire["d"]) <= Behind(s.rp[i])
  /\ \A i, j \in 1..Stages : i <= j => Behind(s.rp[i]) <= Behind(s.rp[j])

\* The words in the FIFO as far as the source side can know.
Span == Held + Behind(s.rp[Stages])

Room ==
  /\ Span <= Depth
  /\ ~ s.full => Span < Depth
  /\ Threshold > 0 /\ ~ s.almostFull => Span < Threshold

Output ==
  /\ d.rpNext = Add(d.rp, 1)
  /\ ~ d.empty => Ahead(d.wp[Stages]) > 0 /\ d.q = ram[d.rp % Depth]

ResetKept ==
  /\ InReset("s") => s = SrcReset
  /\ InReset("d") => d = DstReset(d.q)

Inv == AllCoded /\ WriteChain /\ ReadChain /\ Room /\ Output /\ ResetKept

-------------------------------------------------------------------------------
(* Pointers and their codes *)

\* Half of what a pointer can count is the depth.
LEMMA PointerIs ==
  /\ Depth \in Nat \ {0, 1} /\ 2 ^ PointerWidth = 2 * Depth
  /\ Pointer = 0 .. 2 * Depth - 1
BY AsyncFifoAssumption DEF Pointer

\* A number below twice the modulus is reduced by one subtraction.
LEMMA ModIs ==
  ASSUME NEW m \in Nat \ {0}, NEW n \in Nat, n < 2 * m
  PROVE  n % m = IF n < m THEN n ELSE n - m
<1>1. CASE n < m
  BY <1>1
<1>2. CASE n >= m
  BY <1>2
<1> QED
  BY <1>1, <1>2

\* Addition wraps at the end.
LEMMA AddIs ==
  ASSUME NEW p \in Pointer, NEW n \in Nat, n < 2 * Depth
  PROVE  /\ Add(p, n) = IF p + n < 2 * Depth THEN p + n ELSE p + n - 2 * Depth
         /\ Add(p, n) \in Pointer
<1>1. PICK m \in Nat \ {0} : m = 2 ^ PointerWidth /\ m = 2 * Depth
  BY PointerIs
<1>2. p \in Nat /\ p < m /\ n < m
  BY <1>1, PointerIs
<1>3. PICK k \in Nat : k = p + n /\ k < 2 * m
  BY <1>2
<1>4. k % m = IF k < m THEN k ELSE k - m
  BY <1>3, ModIs
<1>5. Add(p, n) = k % m
  BY <1>1, <1>3, Zenon DEF Add
<1>6. Add(p, n) = IF k < m THEN k ELSE k - m
  BY <1>4, <1>5, Zenon
<1> QED
  BY <1>1, <1>2, <1>3, <1>6, PointerIs

\* So does subtraction.
LEMMA SubIs ==
  ASSUME NEW p \in Pointer, NEW q \in Pointer
  PROVE  /\ p \in Nat /\ q \in Nat /\ p < 2 * Depth /\ q < 2 * Depth
         /\ Sub(p, q) = IF q <= p THEN p - q ELSE p + 2 * Depth - q
         /\ Sub(p, q) \in Nat /\ Sub(p, q) < 2 * Depth
<1>1. PICK m \in Nat \ {0} : m = 2 ^ PointerWidth /\ m = 2 * Depth
  BY PointerIs
<1>2. p \in Nat /\ q \in Nat /\ p < m /\ q < m
  BY <1>1, PointerIs
<1>3. PICK k \in Nat : k = p + m - q /\ k < 2 * m
  BY <1>2
<1>4. k % m = IF k < m THEN k ELSE k - m
  BY <1>3, ModIs
<1>5. Sub(p, q) = k % m
  BY <1>1, <1>3, Zenon DEF Sub
<1>6. Sub(p, q) = IF k < m THEN k ELSE k - m
  BY <1>4, <1>5, Zenon
<1> QED
  BY <1>1, <1>2, <1>3, <1>6, PointerIs

\* The address in the RAM is the pointer without its top bit.
LEMMA SlotIs ==
  ASSUME NEW p \in Pointer
  PROVE  /\ p % Depth = IF p < Depth THEN p ELSE p - Depth
         /\ p % Depth \in 0 .. Depth - 1
<1>1. p \in Nat /\ p < 2 * Depth /\ Depth \in Nat \ {0}
  BY PointerIs
<1>2. p % Depth = IF p < Depth THEN p ELSE p - Depth
  BY <1>1, ModIs
<1> QED
  BY <1>1, <1>2

\* The next pointer.
LEMMA NextIs ==
  ASSUME NEW p \in Pointer
  PROVE  /\ Add(p, 1) = IF p = 2 * Depth - 1 THEN 0 ELSE p + 1
         /\ Add(p, 1) \in Pointer
<1>1. p \in Nat /\ p < 2 * Depth /\ 1 < 2 * Depth /\ Depth \in Nat
  BY PointerIs
<1>2. /\ Add(p, 1) = IF p + 1 < 2 * Depth THEN p + 1 ELSE p + 1 - 2 * Depth
      /\ Add(p, 1) \in Pointer
  BY <1>1, AddIs
<1> QED
  BY <1>1, <1>2

\* The distance to where one is.
LEMMA SubZero ==
  ASSUME NEW p \in Pointer, NEW q \in Pointer
  PROVE  Sub(p, q) = 0 <=> p = q
<1>1. /\ p \in Nat /\ q \in Nat /\ p < 2 * Depth /\ q < 2 * Depth
      /\ Sub(p, q) = IF q <= p THEN p - q ELSE p + 2 * Depth - q
  BY SubIs
<1> QED
  BY <1>1, PointerIs

\* A step ahead adds one to the distance from what lies behind.
LEMMA SubStep ==
  ASSUME NEW p \in Pointer, NEW q \in Pointer, Sub(p, q) < 2 * Depth - 1
  PROVE  Sub(Add(p, 1), q) = Sub(p, q) + 1
<1>1. PICK n \in Pointer : n = Add(p, 1)
  BY NextIs
<1>2. /\ p \in Nat /\ q \in Nat /\ p < 2 * Depth /\ q < 2 * Depth
      /\ Sub(p, q) = IF q <= p THEN p - q ELSE p + 2 * Depth - q
      /\ n = IF p = 2 * Depth - 1 THEN 0 ELSE p + 1
      /\ Sub(n, q) = IF q <= n THEN n - q ELSE n + 2 * Depth - q
  BY <1>1, SubIs, NextIs
<1>3. Sub(n, q) = Sub(p, q) + 1
  BY <1>2, PointerIs
<1> QED
  BY <1>1, <1>3

\* A step towards what lies ahead takes one from the distance.
LEMMA SubNear ==
  ASSUME NEW p \in Pointer, NEW q \in Pointer, Sub(p, q) > 0
  PROVE  Sub(p, Add(q, 1)) = Sub(p, q) - 1
<1>1. PICK n \in Pointer : n = Add(q, 1)
  BY NextIs
<1>2. /\ p \in Nat /\ q \in Nat /\ p < 2 * Depth /\ q < 2 * Depth
      /\ Sub(p, q) = IF q <= p THEN p - q ELSE p + 2 * Depth - q
      /\ n = IF q = 2 * Depth - 1 THEN 0 ELSE q + 1
      /\ Sub(p, n) = IF n <= p THEN p - n ELSE p + 2 * Depth - n
  BY <1>1, SubIs, NextIs
<1>3. Sub(p, n) = Sub(p, q) - 1
  BY <1>2, PointerIs
<1> QED
  BY <1>1, <1>3

\* The pointer before the next.
LEMMA SubOne ==
  ASSUME NEW p \in Pointer
  PROVE  Sub(Add(p, 1), 1) = p
<1>1. PICK n \in Pointer : n = Add(p, 1)
  BY NextIs
<1>2. 1 \in Pointer
  BY PointerIs
<1>3. /\ p \in Nat /\ p < 2 * Depth
      /\ n = IF p = 2 * Depth - 1 THEN 0 ELSE p + 1
      /\ Sub(n, 1) = IF 1 <= n THEN n - 1 ELSE n + 2 * Depth - 1
  BY <1>1, <1>2, SubIs, NextIs
<1>4. Sub(n, 1) = p
  BY <1>3, PointerIs
<1> QED
  BY <1>1, <1>4

\* Distances add up, as long as they fit.
LEMMA SubSum ==
  ASSUME NEW p \in Pointer, NEW q \in Pointer, NEW r \in Pointer,
         Sub(p, r) + Sub(r, q) < 2 * Depth
  PROVE  Sub(p, q) = Sub(p, r) + Sub(r, q)
<1>1. /\ p \in Nat /\ q \in Nat /\ p < 2 * Depth /\ q < 2 * Depth
      /\ r \in Nat /\ r < 2 * Depth
      /\ Sub(p, q) = IF q <= p THEN p - q ELSE p + 2 * Depth - q
      /\ Sub(p, r) = IF r <= p THEN p - r ELSE p + 2 * Depth - r
      /\ Sub(r, q) = IF q <= r THEN r - q ELSE r + 2 * Depth - q
  BY SubIs
<1> QED
  BY <1>1, PointerIs

\* There and back is all the way round.
LEMMA SubBack ==
  ASSUME NEW p \in Pointer, NEW q \in Pointer, p # q
  PROVE  Sub(p, q) + Sub(q, p) = 2 * Depth
<1>1. /\ p \in Nat /\ q \in Nat /\ p < 2 * Depth /\ q < 2 * Depth
      /\ Sub(p, q) = IF q <= p THEN p - q ELSE p + 2 * Depth - q
      /\ Sub(q, p) = IF p <= q THEN q - p ELSE q + 2 * Depth - p
  BY SubIs
<1> QED
  BY <1>1, PointerIs

\* Of two pointers, the one a step further ahead is the other's successor.
LEMMA SuccAhead ==
  ASSUME NEW p \in Pointer, NEW q \in Pointer, NEW r \in Pointer,
         Sub(q, r) <= Sub(p, r), Sub(p, r) <= Sub(q, r) + 1
  PROVE  p = q \/ p = Add(q, 1)
<1>1. /\ p \in Nat /\ q \in Nat /\ p < 2 * Depth /\ q < 2 * Depth
      /\ r \in Nat /\ r < 2 * Depth
      /\ Sub(p, r) = IF r <= p THEN p - r ELSE p + 2 * Depth - r
      /\ Sub(q, r) = IF r <= q THEN q - r ELSE q + 2 * Depth - r
      /\ Add(q, 1) = IF q = 2 * Depth - 1 THEN 0 ELSE q + 1
  BY SubIs, NextIs
<1> QED
  BY <1>1, PointerIs

\* And the one a step less behind is.
LEMMA SuccBehind ==
  ASSUME NEW p \in Pointer, NEW q \in Pointer, NEW r \in Pointer,
         Sub(r, p) <= Sub(r, q), Sub(r, q) <= Sub(r, p) + 1
  PROVE  p = q \/ p = Add(q, 1)
<1>1. /\ p \in Nat /\ q \in Nat /\ p < 2 * Depth /\ q < 2 * Depth
      /\ r \in Nat /\ r < 2 * Depth
      /\ Sub(r, p) = IF p <= r THEN r - p ELSE r + 2 * Depth - p
      /\ Sub(r, q) = IF q <= r THEN r - q ELSE r + 2 * Depth - q
      /\ Add(q, 1) = IF q = 2 * Depth - 1 THEN 0 ELSE q + 1
  BY SubIs, NextIs
<1> QED
  BY <1>1, PointerIs

\* Pointers less than the depth apart have addresses of their own.
LEMMA SlotsDiffer ==
  ASSUME NEW p \in Pointer, NEW q \in Pointer, NEW r \in Pointer,
         Sub(p, r) < Sub(q, r), Sub(q, r) < Sub(p, r) + Depth
  PROVE  p % Depth # q % Depth
<1>1. /\ p \in Nat /\ q \in Nat /\ p < 2 * Depth /\ q < 2 * Depth
      /\ r \in Nat /\ r < 2 * Depth
      /\ Sub(p, r) = IF r <= p THEN p - r ELSE p + 2 * Depth - r
      /\ Sub(q, r) = IF r <= q THEN q - r ELSE q + 2 * Depth - r
  BY SubIs
<1>2. /\ p % Depth = IF p < Depth THEN p ELSE p - Depth
      /\ q % Depth = IF q < Depth THEN q ELSE q - Depth
  BY SlotIs
<1>3. (IF p < Depth THEN p ELSE p - Depth) # (IF q < Depth THEN q ELSE q - Depth)
  BY <1>1, PointerIs
<1> QED
  BY <1>2, <1>3

\* A code stands for one pointer.
LEMMA CodeIs ==
  /\ \A c \in Codes : c \in Bits /\ bin[c] \in Pointer /\ gray[bin[c]] = c
  /\ \A p \in Pointer : gray[p] \in Codes /\ bin[gray[p]] = p
BY CodeAssumption DEF Codes

\* Nothing but two codes is seen while one changes into its successor.
LEMMA SampleOne ==
  ASSUME NEW a \in Codes, NEW b \in Codes,
         bin[b] = bin[a] \/ bin[b] = Add(bin[a], 1),
         NEW g \in Mixed(a, b)
  PROVE  g = a \/ g = b
<1>1. CASE bin[b] = bin[a]
  <2>1. a = b /\ a \in Bits
    BY <1>1, CodeIs
  <2>2. g \in Bits /\ \A i \in 1..PointerWidth : g[i] = a[i]
    BY <2>1 DEF Mixed, Bits
  <2>3. /\ g = [i \in 1..PointerWidth |-> g[i]]
        /\ a = [i \in 1..PointerWidth |-> a[i]]
    BY <2>1, <2>2 DEF Bits
  <2>4. [i \in 1..PointerWidth |-> g[i]] = [i \in 1..PointerWidth |-> a[i]]
    BY <2>2
  <2> QED
    BY <2>3, <2>4, Zenon
<1>2. CASE bin[b] = Add(bin[a], 1)
  <2>1. bin[a] \in Pointer /\ gray[bin[a]] = a /\ gray[Add(bin[a], 1)] = b
    BY <1>2, CodeIs
  <2> QED
    BY <2>1, CodeAssumption
<1> QED
  BY <1>1, <1>2

-------------------------------------------------------------------------------
(* Types *)

\* The constants' types.
LEMMA ConstantTypes ==
  /\ 0 \in Pointer /\ 1 \in Pointer /\ gray[0] \in Bits
  /\ Stages \in Nat \ {0} /\ ResetSyncStages \in Nat /\ Threshold \in Nat
  /\ Threshold <= Depth
  /\ MergeReset \in BOOLEAN /\ Resets \in BOOLEAN
<1>1. 0 \in Pointer /\ 1 \in Pointer
  BY PointerIs
<1>2. gray[0] \in Bits
  BY <1>1, CodeAssumption
<1> QED
  BY <1>1, <1>2, PointerIs, AsyncFifoAssumption

\* The registers have their types in reset.
LEMMA ResetTypes ==
  /\ SrcReset \in [wp: Pointer, gray: Bits, rp: [1..Stages -> Bits],
                   full: BOOLEAN, almostFull: BOOLEAN]
  /\ \A q \in Data :
       DstReset(q) \in [rp: Pointer, rpNext: Pointer, gray: Bits,
                        wp: [1..Stages -> Bits], empty: BOOLEAN, q: Data]
BY ConstantTypes DEF SrcReset, DstReset

\* Synchronizers shift codes.
LEMMA ShiftType ==
  ASSUME NEW stages \in [1..Stages -> Bits], NEW g \in Bits
  PROVE  /\ Shift(stages, g) \in [1..Stages -> Bits]
         /\ Shift(stages, g)[1] = g
         /\ \A i \in 1..Stages : i > 1 => i - 1 \in 1..Stages
                                          /\ Shift(stages, g)[i] = stages[i - 1]
BY ConstantTypes DEF Shift

\* The reset synchronizers count to their number of stages.
LEMMA CountType ==
  ASSUME TypeOK, NEW side \in Side, Count(side)
  PROVE  released' \in [Side -> 0..ResetSyncStages]
BY ConstantTypes DEF TypeOK, Count

\* A read address is an address.
LEMMA SlotRead ==
  ASSUME TypeOK, NEW p \in Pointer
  PROVE  ram[p % Depth] \in Data
BY SlotIs DEF TypeOK

\* Every action keeps the types.
LEMMA TypeStep == TypeOK /\ [Next]_vars => TypeOK'
<1> SUFFICES ASSUME TypeOK, [Next]_vars PROVE TypeOK'
  OBVIOUS
<1>1. ASSUME NEW isPush \in BOOLEAN, NEW x \in Data, SrcEdge(isPush, x)
      PROVE  TypeOK'
  <2> DEFINE push == isPush /\ ~ s.full
  <2>1. ram' \in [0 .. Depth - 1 -> Data]
    <3>1. s.wp \in Pointer
      BY DEF TypeOK
    <3> QED
      BY <1>1, <3>1, SlotIs DEF SrcEdge, Written, TypeOK
  <2>2. CASE InReset("s")
    BY <1>1, <2>1, <2>2, CountType DEF SrcEdge, TypeOK, Side
  <2>3. CASE ~ InReset("s")
    <3>1. PICK g \in Bits : /\ s' = SrcRegisters(push, g)
                            /\ wire' = [wire EXCEPT !["d"] = g, !["s"] = s.gray]
      BY <1>1, <2>3 DEF SrcEdge, Sampled, Mixed
    <3>2. s.wp \in Pointer /\ Add(s.wp, 1) \in Pointer
      BY NextIs DEF TypeOK
    <3>3. gray[s.wp] \in Bits /\ Shift(s.rp, g) \in [1..Stages -> Bits]
      BY <3>2, CodeAssumption, ShiftType DEF TypeOK
    <3>4. s' \in [wp: Pointer, gray: Bits, rp: [1..Stages -> Bits],
                  full: BOOLEAN, almostFull: BOOLEAN]
      BY <3>1, <3>2, <3>3 DEF SrcRegisters
    <3>5. wire' \in [Side -> Bits]
      BY <3>1 DEF TypeOK, Side
    <3> QED
      BY <1>1, <2>1, <3>4, <3>5, CountType DEF SrcEdge, TypeOK, Side
  <2> QED
    BY <2>2, <2>3
<1>2. ASSUME NEW idPop \in BOOLEAN, DstEdge(idPop)
      PROVE  TypeOK'
  <2> DEFINE pop == idPop /\ ~ d.empty
  <2>1. d.rp \in Pointer /\ d.rpNext \in Pointer /\ Add(d.rpNext, 1) \in Pointer
    BY NextIs DEF TypeOK
  <2>2. Q(pop) \in Data /\ Q(FALSE) \in Data
    BY <2>1, SlotRead DEF Q, TypeOK
  <2>3. delivered' \in Data \cup {None}
    BY <1>2 DEF DstEdge, TypeOK
  <2>4. CASE InReset("d")
    <3>1. d' \in [rp: Pointer, rpNext: Pointer, gray: Bits,
                  wp: [1..Stages -> Bits], empty: BOOLEAN, q: Data]
      BY <1>2, <2>2, <2>4 DEF DstEdge, TypeOK
    <3> QED
      BY <1>2, <2>3, <2>4, <3>1, CountType DEF DstEdge, TypeOK, Side
  <2>5. CASE ~ InReset("d")
    <3>1. PICK g \in Bits : /\ d' = DstRegisters(pop, g)
                            /\ wire' = [wire EXCEPT !["s"] = g, !["d"] = d.gray]
      BY <1>2, <2>5 DEF DstEdge, Sampled, Mixed
    <3>2. gray[d.rp] \in Bits /\ Shift(d.wp, g) \in [1..Stages -> Bits]
      BY <2>1, CodeAssumption, ShiftType DEF TypeOK
    <3>3. EmptyNext(pop) \in BOOLEAN
      BY DEF EmptyNext
    <3>4. d' \in [rp: Pointer, rpNext: Pointer, gray: Bits,
                  wp: [1..Stages -> Bits], empty: BOOLEAN, q: Data]
      BY <2>1, <2>2, <3>1, <3>2, <3>3 DEF DstRegisters
    <3>5. wire' \in [Side -> Bits]
      BY <3>1 DEF TypeOK, Side
    <3> QED
      BY <1>2, <2>3, <3>4, <3>5, CountType DEF DstEdge, TypeOK, Side
  <2> QED
    BY <2>4, <2>5
<1>3. ASSUME NEW sides \in SUBSET Side, AssertReset(sides)
      PROVE  TypeOK'
  BY <1>3, ResetTypes, ConstantTypes DEF AssertReset, TypeOK
<1>4. ASSUME NEW side \in Side, ReleaseReset(side)
      PROVE  TypeOK'
  BY <1>4 DEF ReleaseReset, TypeOK
<1>5. CASE UNCHANGED vars
  BY <1>5 DEF vars, TypeOK
<1> QED
  BY <1>1, <1>2, <1>3, <1>4, <1>5 DEF Next, SrcClock, DstClock

\* The registers, wires and memories of async_fifo always hold values of their
\* types: in particular the pointers stay within POINTER_WIDTH bits.
THEOREM TypeCorrect == Spec => []TypeOK
<1>1. Init => TypeOK
  BY ResetTypes, ConstantTypes DEF Init, TypeOK
<1> QED
  BY <1>1, TypeStep, PTL DEF Spec

-------------------------------------------------------------------------------
(* The order of the pointers *)

\* The pointers and the distances are numbers.
LEMMA Numbers ==
  ASSUME TypeOK, AllCoded
  PROVE  /\ s.wp \in Pointer /\ d.rp \in Pointer /\ d.rpNext \in Pointer
         /\ bin[s.gray] \in Pointer /\ bin[d.gray] \in Pointer
         /\ bin[wire["s"]] \in Pointer /\ bin[wire["d"]] \in Pointer
         /\ \A i \in 1..Stages : bin[s.rp[i]] \in Pointer /\ bin[d.wp[i]] \in Pointer
         /\ Held \in Nat /\ Held < 2 * Depth
         /\ Ahead(s.gray) \in Nat /\ Behind(d.gray) \in Nat
         /\ Ahead(wire["s"]) \in Nat /\ Behind(wire["d"]) \in Nat
         /\ \A i \in 1..Stages : Behind(s.rp[i]) \in Nat /\ Ahead(d.wp[i]) \in Nat
<1>1. s.wp \in Pointer /\ d.rp \in Pointer /\ d.rpNext \in Pointer
  BY DEF TypeOK
<1>2. /\ bin[s.gray] \in Pointer /\ bin[d.gray] \in Pointer
      /\ bin[wire["s"]] \in Pointer /\ bin[wire["d"]] \in Pointer
      /\ \A i \in 1..Stages : bin[s.rp[i]] \in Pointer /\ bin[d.wp[i]] \in Pointer
  BY CodeIs DEF AllCoded, Side
<1>3. \A p, q \in Pointer : Sub(p, q) \in Nat /\ Sub(p, q) < 2 * Depth
  BY SubIs
<1> QED
  BY <1>1, <1>2, <1>3 DEF Held, Ahead, Behind

\* What the destination side may sample of the write pointer is one of two
\* codes that are on their way.
LEMMA SampledWrite ==
  ASSUME TypeOK, AllCoded, WriteChain, NEW g \in Sampled("s", s.gray)
  PROVE  /\ g \in Codes
         /\ Ahead(wire["s"]) <= Ahead(g) /\ Ahead(g) <= Ahead(s.gray)
<1>1. s.gray \in Codes /\ wire["s"] \in Codes
  BY DEF AllCoded, Side
<1>2. bin[s.gray] = bin[wire["s"]] \/ bin[s.gray] = Add(bin[wire["s"]], 1)
  BY Numbers, SuccAhead DEF WriteChain, Ahead
<1>3. g = wire["s"] \/ g = s.gray
  BY <1>1, <1>2, SampleOne DEF Sampled
<1>4. Ahead(wire["s"]) \in Nat /\ Ahead(s.gray) \in Nat
  BY Numbers
<1> QED
  BY <1>1, <1>3, <1>4 DEF WriteChain

\* And what the source side may sample of the read pointer.
LEMMA SampledRead ==
  ASSUME TypeOK, AllCoded, ReadChain, NEW g \in Sampled("d", d.gray)
  PROVE  /\ g \in Codes
         /\ Behind(d.gray) <= Behind(g) /\ Behind(g) <= Behind(wire["d"])
<1>1. d.gray \in Codes /\ wire["d"] \in Codes
  BY DEF AllCoded, Side
<1>2. bin[d.gray] = bin[wire["d"]] \/ bin[d.gray] = Add(bin[wire["d"]], 1)
  BY Numbers, SuccBehind DEF ReadChain, Behind
<1>3. g = wire["d"] \/ g = d.gray
  BY <1>1, <1>2, SampleOne DEF Sampled
<1>4. Behind(wire["d"]) \in Nat /\ Behind(d.gray) \in Nat
  BY Numbers
<1> QED
  BY <1>1, <1>3, <1>4 DEF ReadChain

\* While the source side is in reset the FIFO is empty.
LEMMA EmptyInReset ==
  ASSUME TypeOK, Inv, InReset("s")
  PROVE  Held = 0 /\ d.empty
<1>1. s.wp = 0 /\ s.rp[Stages] = gray[0]
  BY ConstantTypes DEF Inv, ResetKept, SrcReset
<1>2. bin[s.rp[Stages]] = 0 /\ 0 \in Pointer
  BY <1>1, CodeIs, ConstantTypes
<1>3. Sub(0, d.rp) + Sub(d.rp, 0) <= Depth
  BY <1>1, <1>2 DEF Inv, Room, Span, Held, Behind
<1>4. d.rp \in Pointer /\ Depth \in Nat \ {0}
  BY PointerIs DEF TypeOK
<1>5. d.rp = 0
  <2> SUFFICES ASSUME d.rp # 0 PROVE FALSE
    OBVIOUS
  <2>1. Sub(0, d.rp) + Sub(d.rp, 0) = 2 * Depth
    BY <1>2, <1>4, SubBack
  <2> QED
    BY <1>3, <1>4, <2>1
<1>6. Held = 0
  BY <1>1, <1>2, <1>5, SubZero DEF Held
<1>7. Stages \in 1..Stages
  BY ConstantTypes
<1>8. Ahead(d.wp[Stages]) <= 0
  BY <1>6, <1>7, Numbers DEF Inv, WriteChain
<1>9. d.empty \in BOOLEAN
  BY DEF TypeOK
<1>10. Ahead(d.wp[Stages]) \in Nat
  BY <1>7, Numbers DEF Inv
<1>11. ~ (Ahead(d.wp[Stages]) > 0)
  BY <1>8, <1>10
<1> QED
  BY <1>6, <1>9, <1>11 DEF Inv, Output

\* A reset that is left is not entered again by an edge of a clock.
LEMMA CountKeeps ==
  ASSUME TypeOK, NEW side \in Side, Count(side), rst' = rst, NEW other \in Side
  PROVE  InReset(other)' => InReset(other)
<1>1. /\ released \in [Side -> 0..ResetSyncStages] /\ ResetSyncStages \in Nat
      /\ rst' = rst
  BY ConstantTypes DEF TypeOK
<1>2. released[other] \in Nat /\ released'[other] \in Nat
      /\ released[other] <= released'[other]
  BY <1>1 DEF Count
<1> QED
  BY <1>1, <1>2 DEF InReset

\* An edge of the source clock keeps the invariant.
LEMMA SrcEdgeInv ==
  ASSUME TypeOK, TypeOK', Inv,
         NEW isPush \in BOOLEAN, NEW x \in Data, SrcEdge(isPush, x)
  PROVE  Inv'
<1> DEFINE push == isPush /\ ~ s.full
<1>1. d' = d /\ rst' = rst /\ ram' = Written(push, x) /\ Count("s")
  BY DEF SrcEdge
<1>2. /\ InReset("s")' => InReset("s")
      /\ InReset("d")' => InReset("d")
  BY <1>1, CountKeeps DEF Side
<1>3. CASE InReset("s")
  <2>1. s' = s /\ wire' = wire
    BY <1>3 DEF SrcEdge
  <2>2. d.empty
    BY <1>3, EmptyInReset
  <2>3. AllCoded' /\ WriteChain' /\ ReadChain' /\ Room'
    BY <1>1, <2>1 DEF Inv, AllCoded, WriteChain, ReadChain, Room, Span, Held, Ahead, Behind
  <2>4. Output'
    BY <1>1, <2>2 DEF Inv, Output
  <2>5. ResetKept'
    BY <1>1, <1>2, <2>1 DEF Inv, ResetKept, SrcReset, DstReset
  <2> QED
    BY <2>3, <2>4, <2>5 DEF Inv
<1>4. CASE ~ InReset("s")
  <2>1. PICK g \in Sampled("d", d.gray) :
          /\ s' = SrcRegisters(push, g)
          /\ wire' = [wire EXCEPT !["d"] = g, !["s"] = s.gray]
    BY <1>4 DEF SrcEdge
  <2>2. /\ g \in Codes
        /\ Behind(d.gray) <= Behind(g) /\ Behind(g) <= Behind(wire["d"])
    BY <2>1, SampledRead DEF Inv
  <2>3. /\ s'.wp = IF push THEN Add(s.wp, 1) ELSE s.wp
        /\ s'.gray = gray[s.wp] /\ s'.rp = Shift(s.rp, g)
        /\ s'.full = (WordCount(s'.wp) >= Depth)
        /\ s'.almostFull = (WordCount(s'.wp) >= Threshold)
    BY <2>1 DEF SrcRegisters
  <2>4. wire'["d"] = g /\ wire'["s"] = s.gray
    BY <2>1 DEF TypeOK, Side
  <2>5. /\ s'.rp[1] = g
        /\ \A i \in 1..Stages : i > 1 => i - 1 \in 1..Stages /\ s'.rp[i] = s.rp[i - 1]
    <3>1. s.rp \in [1..Stages -> Bits] /\ g \in Bits
      BY <2>2, CodeIs DEF TypeOK
    <3> QED
      BY <2>3, <3>1, ShiftType
  <2>6. Stages \in 1..Stages /\ Stages \in Nat
    BY ConstantTypes
  <2>7. s.wp \in Pointer /\ gray[s.wp] \in Codes /\ bin[gray[s.wp]] = s.wp
    BY CodeIs DEF TypeOK
  <2>8. AllCoded'
    <3>1. \A i \in 1..Stages : s'.rp[i] \in Codes
      BY <2>2, <2>5 DEF Inv, AllCoded
    <3> QED
      BY <1>1, <2>2, <2>3, <2>4, <2>7, <3>1 DEF Inv, AllCoded, Side
  <2>9. /\ Held' = IF push THEN Held + 1 ELSE Held
        /\ push => Span < Depth
    <3>1. CASE push
      <4>1. Span < Depth /\ Held < 2 * Depth - 1
        <5>1. Span < Depth
          BY <3>1, Zenon DEF Inv, Room
        <5>2. Held \in Nat /\ Behind(s.rp[Stages]) \in Nat /\ Depth \in Nat
          BY <2>6, Numbers, PointerIs DEF Inv
        <5> QED
          BY <5>1, <5>2 DEF Span
      <4>2. Sub(Add(s.wp, 1), d.rp) = Sub(s.wp, d.rp) + 1
        BY <2>7, <4>1, Numbers, SubStep DEF Held, Inv
      <4> QED
        BY <1>1, <2>3, <3>1, <4>1, <4>2 DEF Held
    <3>2. CASE ~ push
      BY <1>1, <2>3, <3>2 DEF Held
    <3> QED
      BY <3>1, <3>2
  <2>10. WriteChain'
    <3>1. /\ Ahead(s.gray)' = Held /\ Ahead(wire["s"])' = Ahead(s.gray)
          /\ \A i \in 1..Stages : Ahead(d.wp[i])' = Ahead(d.wp[i])
      BY <1>1, <2>3, <2>4, <2>7 DEF Ahead, Held
    <3> QED
      BY <1>1, <2>9, <3>1, Numbers DEF Inv, WriteChain
  <2>11. /\ Behind(d.gray)' = Behind(d.gray) /\ Behind(wire["d"])' = Behind(g)
         /\ Behind(s.rp[1])' = Behind(g) /\ Behind(g) \in Nat
         /\ \A i \in 1..Stages : i > 1 => Behind(s.rp[i])' = Behind(s.rp[i - 1])
    <3>1. Behind(g) \in Nat
      BY <2>2, CodeIs, SubIs, Numbers DEF Behind, Inv
    <3> QED
      BY <1>1, <2>4, <2>5, <3>1 DEF Behind
  <2>12. ReadChain'
    <3> USE <1>1, <2>2, <2>11, Numbers
    <3>1. /\ Behind(d.gray)' <= 1
          /\ Behind(d.gray)' <= Behind(wire["d"])'
          /\ Behind(wire["d"])' <= Behind(d.gray)' + 1
      BY DEF Inv, ReadChain
    <3>2. \A i \in 1..Stages : Behind(wire["d"])' <= Behind(s.rp[i])'
      BY <2>5 DEF Inv, ReadChain
    <3>3. ASSUME NEW i \in 1..Stages, NEW j \in 1..Stages, i <= j
          PROVE  Behind(s.rp[i])' <= Behind(s.rp[j])'
      <4>1. CASE i = 1
        BY <3>2, <4>1
      <4>2. CASE i > 1
        <5>1. i - 1 \in 1..Stages /\ j - 1 \in 1..Stages /\ i - 1 <= j - 1 /\ j > 1
          BY <2>6, <3>3, <4>2
        <5> QED
          BY <4>2, <5>1 DEF Inv, ReadChain
      <4> QED
        BY <4>1, <4>2
    <3> QED
      BY <3>1, <3>2, <3>3 DEF ReadChain
  <2>13. Room'
    <3> DEFINE known == Behind(s.rp[Stages])
    <3>1. known \in Nat /\ Held \in Nat /\ Depth \in Nat /\ Threshold \in Nat
          /\ Threshold <= Depth
      BY <2>6, Numbers, PointerIs, ConstantTypes DEF Inv
    <3>2. Behind(s.rp[Stages])' \in Nat /\ Behind(s.rp[Stages])' <= known
      <4>1. CASE Stages = 1
        BY <2>2, <2>6, <2>11, <4>1, Numbers DEF Inv, ReadChain
      <4>2. CASE Stages > 1
        <5>1. Stages - 1 \in 1..Stages /\ Stages - 1 <= Stages
          BY <2>6, <4>2
        <5> QED
          BY <2>6, <2>11, <4>2, <5>1, Numbers DEF Inv, ReadChain
      <4> QED
        BY <2>6, <4>1, <4>2
    <3>3. Held' + known <= Depth /\ Held' \in Nat
      BY <2>9, <3>1 DEF Inv, Room, Span
    <3>4. WordCount(s'.wp) = Held' + known
      <4>1. s'.wp \in Pointer /\ d.rp \in Pointer /\ bin[s.rp[Stages]] \in Pointer
        BY <2>6, Numbers DEF TypeOK, Inv
      <4>2. Held' + known < 2 * Depth
        BY <3>1, <3>3, PointerIs
      <4>3. Sub(s'.wp, d.rp) + Sub(d.rp, bin[s.rp[Stages]]) < 2 * Depth
        BY <1>1, <4>2 DEF Held, Behind
      <4> QED
        BY <1>1, <4>1, <4>3, SubSum DEF WordCount, Held, Behind
    <3>5. Span' = Held' + Behind(s.rp[Stages])'
      BY DEF Span
    <3>6. ~ s'.full => Held' + known < Depth
      <4>1. ~ s'.full => ~ (Held' + known >= Depth)
        BY <2>3, <3>4, Zenon
      <4> QED
        BY <3>1, <3>3, <4>1
    <3>7. ~ s'.almostFull => Held' + known < Threshold
      <4>1. ~ s'.almostFull => ~ (Held' + known >= Threshold)
        BY <2>3, <3>4, Zenon
      <4> QED
        BY <3>1, <3>3, <4>1
    <3> QED
      BY <3>1, <3>2, <3>3, <3>5, <3>6, <3>7 DEF Room
  <2>14. Output'
    <3> SUFFICES ASSUME ~ d.empty PROVE ram'[d.rp % Depth] = ram[d.rp % Depth]
      BY <1>1 DEF Inv, Output, Ahead
    <3>1. CASE push
      <4>1. Held > 0 /\ Held < Depth
        <5>1. Ahead(d.wp[Stages]) > 0 /\ Ahead(d.wp[Stages]) <= Held
          BY <2>6, Numbers DEF Inv, Output, WriteChain
        <5>2. Held < Depth
          BY <2>6, <2>9, <3>1, Numbers, PointerIs DEF Inv, Span
        <5> QED
          BY <2>6, <5>1, <5>2, Numbers DEF Inv
      <4>2. Sub(d.rp, d.rp) = 0 /\ Sub(s.wp, d.rp) < Sub(d.rp, d.rp) + Depth
        BY <4>1, Numbers, SubZero, PointerIs DEF Held, Inv
      <4>3. d.rp % Depth # s.wp % Depth
        BY <4>1, <4>2, Numbers, SlotsDiffer DEF Held, Inv
      <4> QED
        BY <1>1, <4>3 DEF Written, TypeOK
    <3>2. CASE ~ push
      BY <1>1, <3>2 DEF Written
    <3> QED
      BY <3>1, <3>2
  <2>15. ResetKept'
    BY <1>1, <1>2, <1>4 DEF Inv, ResetKept, DstReset
  <2> QED
    BY <2>8, <2>10, <2>12, <2>13, <2>14, <2>15 DEF Inv
<1> QED
  BY <1>3, <1>4

\* An edge of the destination clock keeps the invariant.
LEMMA DstEdgeInv ==
  ASSUME TypeOK, TypeOK', Inv, NEW idPop \in BOOLEAN, DstEdge(idPop)
  PROVE  Inv'
<1> DEFINE pop == idPop /\ ~ d.empty
<1>1. s' = s /\ ram' = ram /\ rst' = rst /\ Count("d")
  BY DEF DstEdge
<1>2. /\ InReset("s")' => InReset("s")
      /\ InReset("d")' => InReset("d")
  BY <1>1, CountKeeps DEF Side
<1>3. CASE InReset("d")
  <2>1. d' = [d EXCEPT !.q = Q(FALSE)] /\ wire' = wire
    BY <1>3 DEF DstEdge
  <2>2. d = DstReset(d.q)
    BY <1>3 DEF Inv, ResetKept
  <2>3. d.rp = 0 /\ d.wp[Stages] = gray[0] /\ d.empty
    BY <2>2, ConstantTypes DEF DstReset
  <2>4. EmptyNext(FALSE)
    BY <2>3, ConstantTypes, CodeIs DEF EmptyNext
  <2>5. d' = d
    BY <2>1, <2>4 DEF Q, TypeOK
  <2>6. AllCoded' /\ WriteChain' /\ ReadChain' /\ Room' /\ Output'
    BY <1>1, <2>1, <2>5 DEF Inv, AllCoded, WriteChain, ReadChain, Room, Output,
                            Span, Held, Ahead, Behind
  <2>7. ResetKept'
    BY <1>1, <1>2, <2>5 DEF Inv, ResetKept, SrcReset, DstReset
  <2> QED
    BY <2>6, <2>7 DEF Inv
<1>4. CASE ~ InReset("d")
  <2>1. PICK g \in Sampled("s", s.gray) :
          /\ d' = DstRegisters(pop, g)
          /\ wire' = [wire EXCEPT !["s"] = g, !["d"] = d.gray]
    BY <1>4 DEF DstEdge
  <2>2. /\ g \in Codes
        /\ Ahead(wire["s"]) <= Ahead(g) /\ Ahead(g) <= Ahead(s.gray)
    BY <2>1, SampledWrite DEF Inv
  <2>3. /\ d'.rp = IF pop THEN d.rpNext ELSE d.rp
        /\ d'.rpNext = IF pop THEN Add(d.rpNext, 1) ELSE d.rpNext
        /\ d'.gray = gray[d.rp] /\ d'.wp = Shift(d.wp, g)
        /\ d'.empty = EmptyNext(pop) /\ d'.q = Q(pop)
    BY <2>1 DEF DstRegisters
  <2>4. wire'["s"] = g /\ wire'["d"] = d.gray
    BY <2>1 DEF TypeOK, Side
  <2>5. /\ d'.wp[1] = g
        /\ \A i \in 1..Stages : i > 1 => i - 1 \in 1..Stages /\ d'.wp[i] = d.wp[i - 1]
    <3>1. d.wp \in [1..Stages -> Bits] /\ g \in Bits
      BY <2>2, CodeIs DEF TypeOK
    <3> QED
      BY <2>3, <3>1, ShiftType
  <2>6. Stages \in 1..Stages /\ Stages \in Nat
    BY ConstantTypes
  <2>7. d.rp \in Pointer /\ gray[d.rp] \in Codes /\ bin[gray[d.rp]] = d.rp
    BY CodeIs DEF TypeOK
  <2>8. AllCoded'
    <3>1. \A i \in 1..Stages : d'.wp[i] \in Codes
      BY <2>2, <2>5 DEF Inv, AllCoded
    <3> QED
      BY <1>1, <2>2, <2>3, <2>4, <2>7, <3>1 DEF Inv, AllCoded, Side
  \* Where the read pointer goes.
  <2>9. PICK k \in {0, 1} : /\ k = IF pop THEN 1 ELSE 0
                            /\ k <= Ahead(d.wp[Stages])
                            /\ d'.rp = IF k = 1 THEN Add(d.rp, 1) ELSE d.rp
    <3>1. CASE pop
      <4>1. Ahead(d.wp[Stages]) > 0 /\ d.rpNext = Add(d.rp, 1)
        BY <3>1, Zenon DEF Inv, Output
      <4> QED
        BY <2>3, <2>6, <3>1, <4>1, Numbers DEF Inv
    <3>2. CASE ~ pop
      BY <2>3, <2>6, <3>2, Numbers DEF Inv
    <3> QED
      BY <3>1, <3>2
  \* What is ahead of it comes nearer and what is behind stays further behind.
  <2>10. \A p \in Pointer : k <= Sub(p, d.rp) => Sub(p, d'.rp) = Sub(p, d.rp) - k
    <3> TAKE p \in Pointer
    <3> HAVE k <= Sub(p, d.rp)
    <3>1. Sub(p, d.rp) \in Nat
      BY <2>7, SubIs
    <3>2. CASE k = 1
      <4>1. Sub(p, d.rp) > 0
        BY <3>1, <3>2
      <4> QED
        BY <2>7, <2>9, <3>2, <4>1, SubNear
    <3>3. CASE k = 0
      BY <2>9, <3>1, <3>3
    <3> QED
      BY <3>2, <3>3
  <2>11. \A p \in Pointer : Sub(d.rp, p) <= Depth => Sub(d'.rp, p) = Sub(d.rp, p) + k
    <3> TAKE p \in Pointer
    <3> HAVE Sub(d.rp, p) <= Depth
    <3>1. Sub(d.rp, p) \in Nat
      BY <2>7, SubIs
    <3>2. CASE k = 1
      <4>1. Sub(d.rp, p) < 2 * Depth - 1
        BY <3>1, PointerIs
      <4> QED
        BY <2>7, <2>9, <3>2, <4>1, SubStep
    <3>3. CASE k = 0
      BY <2>9, <3>1, <3>3
    <3> QED
      BY <3>2, <3>3
  <2>12. Ahead(g) \in Nat /\ bin[g] \in Pointer
    BY <2>2, <2>7, CodeIs, SubIs DEF Ahead
  <2>13. /\ \A i \in 1..Stages : k <= Ahead(d.wp[i]) /\ Ahead(d.wp[i]) <= Ahead(g)
         /\ k <= Ahead(g) /\ k <= Ahead(s.gray) /\ k <= Held
    <3> USE Numbers
    <3>1. \A i \in 1..Stages : k <= Ahead(d.wp[i]) /\ Ahead(d.wp[i]) <= Ahead(g)
      BY <2>2, <2>6, <2>9, <2>12 DEF Inv, WriteChain
    <3>2. k <= Ahead(g)
      BY <2>6, <2>12, <3>1 DEF Inv
    <3>3. k <= Ahead(s.gray)
      BY <2>2, <2>12, <3>2 DEF Inv
    <3> QED
      BY <3>1, <3>2, <3>3 DEF Inv, WriteChain
  <2>14. /\ Held' = Held - k /\ Ahead(s.gray)' = Ahead(s.gray) - k
         /\ Ahead(wire["s"])' = Ahead(g) - k
         /\ Ahead(d.wp[1])' = Ahead(g) - k
         /\ \A i \in 1..Stages : i > 1 => Ahead(d.wp[i])' = Ahead(d.wp[i - 1]) - k
    <3>1. Held' = Held - k /\ Ahead(s.gray)' = Ahead(s.gray) - k
      BY <1>1, <2>10, <2>13, Numbers DEF Inv, Held, Ahead
    <3>2. Ahead(wire["s"])' = Ahead(g) - k /\ Ahead(d.wp[1])' = Ahead(g) - k
      BY <2>4, <2>5, <2>10, <2>12, <2>13 DEF Ahead
    <3>3. \A i \in 1..Stages : i > 1 => Ahead(d.wp[i])' = Ahead(d.wp[i - 1]) - k
      BY <2>5, <2>10, <2>13, Numbers DEF Inv, Ahead
    <3> QED
      BY <3>1, <3>2, <3>3
  <2>15. WriteChain'
    <3> USE Numbers, <2>12, <2>13, <2>14
    <3>1. /\ Ahead(s.gray)' <= Held' /\ Held' <= Ahead(s.gray)' + 1
          /\ Ahead(wire["s"])' <= Ahead(s.gray)'
          /\ Ahead(s.gray)' <= Ahead(wire["s"])' + 1
      BY <2>2 DEF Inv, WriteChain
    <3>2. \A i \in 1..Stages : Ahead(d.wp[i])' <= Ahead(wire["s"])'
      BY <2>5 DEF Inv
    <3>3. ASSUME NEW i \in 1..Stages, NEW j \in 1..Stages, i <= j
          PROVE  Ahead(d.wp[j])' <= Ahead(d.wp[i])'
      <4>1. CASE i = 1
        BY <3>2, <4>1
      <4>2. CASE i > 1
        <5>1. i - 1 \in 1..Stages /\ j - 1 \in 1..Stages /\ i - 1 <= j - 1 /\ j > 1
          BY <2>6, <3>3, <4>2
        <5> QED
          BY <4>2, <5>1 DEF Inv, WriteChain
      <4> QED
        BY <4>1, <4>2
    <3> QED
      BY <3>1, <3>2, <3>3 DEF WriteChain
  <2>16. /\ \A i \in 1..Stages : Behind(s.rp[i])' = Behind(s.rp[i]) + k
         /\ Behind(wire["d"])' = Behind(d.gray) + k
         /\ Behind(d.gray)' = k
    <3>1. \A i \in 1..Stages : Behind(s.rp[i]) <= Depth
      <4>1. Behind(s.rp[Stages]) <= Depth
        BY <2>6, Numbers, PointerIs DEF Inv, Room, Span
      <4> TAKE i \in 1..Stages
      <4>2. i <= Stages /\ Depth \in Nat
        BY <2>6, PointerIs
      <4>3. Behind(s.rp[i]) \in Nat /\ Behind(s.rp[Stages]) \in Nat
        BY <2>6, Numbers DEF Inv
      <4>4. Behind(s.rp[i]) <= Behind(s.rp[Stages])
        BY <2>6, <4>2 DEF Inv, ReadChain
      <4> QED
        BY <4>1, <4>2, <4>3, <4>4
    <3>2. \A i \in 1..Stages : Behind(s.rp[i])' = Behind(s.rp[i]) + k
      BY <1>1, <2>11, <3>1, Numbers DEF Inv, Behind
    <3>3. Behind(d.gray) <= Depth
      BY Numbers, PointerIs DEF Inv, ReadChain
    <3>4. Behind(wire["d"])' = Behind(d.gray) + k
      BY <2>4, <2>11, <3>3, Numbers DEF Inv, Behind
    <3>5. Sub(d.rp, d.rp) = 0 /\ 0 <= Depth
      BY <2>7, SubZero, PointerIs
    <3>6. Behind(d.gray)' = k
      BY <2>3, <2>7, <2>11, <3>5 DEF Behind
    <3> QED
      BY <3>2, <3>4, <3>6
  <2>17. ReadChain'
    <3> USE Numbers, <2>16
    <3>1. /\ Behind(d.gray)' <= 1
          /\ Behind(d.gray)' <= Behind(wire["d"])'
          /\ Behind(wire["d"])' <= Behind(d.gray)' + 1
      BY DEF Inv, ReadChain
    <3>2. \A i \in 1..Stages : Behind(wire["d"])' <= Behind(s.rp[i])'
      BY DEF Inv, ReadChain
    <3>3. \A i, j \in 1..Stages : i <= j => Behind(s.rp[i])' <= Behind(s.rp[j])'
      BY DEF Inv, ReadChain
    <3> QED
      BY <3>1, <3>2, <3>3 DEF ReadChain
  <2>18. Room'
    <3>1. Span' = Span
      BY <2>6, <2>14, <2>16, Numbers DEF Inv, Span
    <3> QED
      BY <1>1, <3>1 DEF Inv, Room
  <2>19. Output'
    <3>1. d'.rpNext = Add(d'.rp, 1)
      BY <2>3 DEF Inv, Output
    <3> SUFFICES ASSUME ~ EmptyNext(pop)
                 PROVE  Ahead(d.wp[Stages])' > 0 /\ d'.q = ram[d'.rp % Depth]
      BY <1>1, <2>3, <3>1 DEF Output
    <3>2. bin[d.wp[Stages]] # d'.rp
      BY <2>3 DEF EmptyNext
    <3>3. d'.rp \in Pointer /\ bin[d.wp[Stages]] \in Pointer
      BY <2>6, Numbers DEF TypeOK, Inv
    <3>4. Sub(bin[d.wp[Stages]], d'.rp) \in Nat /\ Sub(bin[d.wp[Stages]], d'.rp) > 0
      BY <3>2, <3>3, SubZero, SubIs
    <3>5. Sub(bin[d.wp[Stages]], d'.rp) = Ahead(d.wp[Stages]) - k
      BY <2>6, <2>10, <2>13, <3>3 DEF Ahead
    <3>6. Ahead(d.wp[Stages]) - k <= Ahead(d.wp[Stages])'
      <4>1. CASE Stages = 1
        BY <2>6, <2>12, <2>13, <2>14, <4>1, Numbers DEF Inv
      <4>2. CASE Stages > 1
        <5>1. Stages - 1 \in 1..Stages /\ Stages - 1 <= Stages
          BY <2>6, <4>2
        <5>2. Ahead(d.wp[Stages]) <= Ahead(d.wp[Stages - 1])
          BY <2>6, <5>1 DEF Inv, WriteChain
        <5> QED
          BY <2>6, <2>14, <4>2, <5>1, <5>2, Numbers DEF Inv
      <4> QED
        BY <2>6, <4>1, <4>2
    <3>7. Ahead(d.wp[Stages])' \in Nat
      BY <2>6, <2>8, Numbers, SubIs, CodeIs DEF AllCoded, Ahead, TypeOK
    <3>8. d'.q = ram[d'.rp % Depth]
      <4>1. CASE d.empty
        BY <2>3, <4>1 DEF Q
      <4>2. CASE ~ d.empty
        BY <2>3, <4>2 DEF Q, Inv, Output
      <4> QED
        BY <4>1, <4>2
    <3>9. Ahead(d.wp[Stages])' > 0
      BY <2>6, <3>4, <3>5, <3>6, <3>7, Numbers DEF Inv
    <3> QED
      BY <3>8, <3>9
  <2>20. ResetKept'
    BY <1>1, <1>2, <1>4 DEF Inv, ResetKept, SrcReset
  <2> QED
    BY <2>8, <2>15, <2>17, <2>18, <2>19, <2>20 DEF Inv
<1> QED
  BY <1>3, <1>4

\* The invariant holds in reset, whatever the output register holds.
LEMMA ResetInv ==
  ASSUME s = SrcReset, NEW q \in Data, d = DstReset(q),
         wire = [side \in Side |-> gray[0]]
  PROVE  Inv
<1>1. 0 \in Pointer /\ gray[0] \in Codes /\ bin[gray[0]] = 0 /\ Stages \in 1..Stages
  BY ConstantTypes, CodeIs
<1>2. /\ s.wp = 0 /\ s.gray = gray[0] /\ \A i \in 1..Stages : s.rp[i] = gray[0]
      /\ d.rp = 0 /\ d.rpNext = 1 /\ d.gray = gray[0]
      /\ \A i \in 1..Stages : d.wp[i] = gray[0]
      /\ d.empty /\ wire["s"] = gray[0] /\ wire["d"] = gray[0]
  BY DEF SrcReset, DstReset, Side
<1>3. Sub(0, 0) = 0 /\ Depth \in Nat \ {0, 1} /\ Threshold \in Nat /\ Add(0, 1) = 1
  BY <1>1, SubZero, NextIs, PointerIs, ConstantTypes
<1>4. AllCoded
  BY <1>1, <1>2 DEF AllCoded, Side
<1>5. WriteChain
  BY <1>1, <1>2, <1>3 DEF WriteChain, Held, Ahead
<1>6. ReadChain
  BY <1>1, <1>2, <1>3 DEF ReadChain, Behind
<1>7. Room
  <2>1. Span = 0
    BY <1>1, <1>2, <1>3 DEF Span, Held, Behind
  <2> QED
    BY <1>3, <2>1 DEF Room
<1>8. Output
  BY <1>2, <1>3 DEF Output
<1>9. ResetKept
  BY DEF ResetKept, DstReset
<1> QED
  BY <1>4, <1>5, <1>6, <1>7, <1>8, <1>9 DEF Inv

\* The invariant is inductive.
LEMMA InvStep == TypeOK /\ TypeOK' /\ Inv /\ [Next]_vars => Inv'
<1> SUFFICES ASSUME TypeOK, TypeOK', Inv, [Next]_vars PROVE Inv'
  OBVIOUS
<1>1. ASSUME NEW sides \in SUBSET Side, AssertReset(sides)
      PROVE  Inv'
  <2>1. /\ s' = SrcReset /\ d.q \in Data /\ d' = DstReset(d.q)
        /\ wire' = [side \in Side |-> gray[0]]
    BY <1>1 DEF AssertReset, TypeOK
  <2>2. (s = SrcReset)' /\ (wire = [side \in Side |-> gray[0]])'
    BY <2>1 DEF SrcReset, Side
  <2>3. PICK q \in Data : q = d.q
    BY <2>1
  <2>4. (d = DstReset(q))'
    BY <2>1, <2>3 DEF DstReset
  <2> QED
    BY <2>2, <2>3, <2>4, ResetInv, PTL
<1>2. ASSUME NEW side \in Side, ReleaseReset(side)
      PROVE  Inv'
  <2>1. s' = s /\ d' = d /\ wire' = wire /\ ram' = ram /\ released' = released
    BY <1>2 DEF ReleaseReset
  <2>2. AllCoded' /\ WriteChain' /\ ReadChain' /\ Room' /\ Output'
    BY <2>1 DEF Inv, AllCoded, WriteChain, ReadChain, Room, Output,
                Span, Held, Ahead, Behind
  <2>3. rst' = rst \ {side}
    BY <1>2 DEF ReleaseReset
  <2>4. \A other \in Side : InReset(other)' => InReset(other)
    BY <2>1, <2>3 DEF InReset
  <2>5. ResetKept'
    BY <2>1, <2>4 DEF Inv, ResetKept, SrcReset, DstReset, Side
  <2> QED
    BY <2>2, <2>5 DEF Inv
<1>3. CASE UNCHANGED vars
  BY <1>3 DEF vars, Inv, AllCoded, WriteChain, ReadChain, Room, Output, ResetKept,
              Span, Held, Ahead, Behind, InReset, SrcReset, DstReset
<1> QED
  BY <1>1, <1>2, <1>3, SrcEdgeInv, DstEdgeInv DEF Next, SrcClock, DstClock

\* And it holds throughout.
LEMMA Invariant == Spec => [](TypeOK /\ Inv)
<1>1. Init => Inv
  <2> SUFFICES ASSUME Init PROVE Inv
    OBVIOUS
  <2>1. PICK q \in Data : d = DstReset(q)
    BY DEF Init
  <2> QED
    BY <2>1, ResetInv DEF Init
<1> QED
  BY <1>1, TypeCorrect, InvStep, PTL DEF Spec

-------------------------------------------------------------------------------
(* What async_fifo promises *)

\* Whenever od_empty is low the FIFO does hold data and od_data is the oldest
\* word, though the write pointer has crossed through late and mixed bits.
THEOREM OutputReadyHolds == Spec => []OutputReady
<1>1. ASSUME TypeOK, Inv PROVE OutputReady
  <2> SUFFICES ASSUME ~ d.empty PROVE Held > 0 /\ d.q = ram[d.rp % Depth]
    BY DEF OutputReady
  <2>1. Stages \in 1..Stages
    BY ConstantTypes
  <2>2. Ahead(d.wp[Stages]) > 0 /\ d.q = ram[d.rp % Depth]
    BY <1>1 DEF Inv, Output
  <2>3. Ahead(d.wp[Stages]) <= Ahead(wire["s"]) /\ Ahead(wire["s"]) <= Ahead(s.gray)
        /\ Ahead(s.gray) <= Held
    BY <1>1, <2>1 DEF Inv, WriteChain
  <2> QED
    BY <1>1, <2>1, <2>2, <2>3, Numbers DEF Inv
<1> QED
  BY <1>1, Invariant, PTL

\* os_full and os_almost_full come in time: the source side counts at least
\* the words there are.
THEOREM FlagsInTimeHolds == Spec => []FlagsInTime
<1>1. ASSUME TypeOK, Inv PROVE FlagsInTime
  <2>1. Stages \in 1..Stages /\ Threshold \in Nat /\ Depth \in Nat
    BY ConstantTypes, PointerIs
  <2>2. Held \in Nat /\ Behind(s.rp[Stages]) \in Nat
    BY <1>1, <2>1, Numbers DEF Inv
  <2>3. Held <= Span /\ Span \in Nat
    BY <2>2 DEF Span
  <2>4. Held >= Depth => ~ (Span < Depth)
    BY <2>1, <2>2, <2>3
  <2>5. Held >= Threshold => ~ (Span < Threshold)
    BY <2>1, <2>2, <2>3
  <2> QED
    BY <1>1, <2>4, <2>5, Zenon DEF Inv, Room, FlagsInTime
<1> QED
  BY <1>1, Invariant, PTL

\* "ram access from 'd domain is safe because read_pointer points stable data":
\* the address the destination side reads is neither the one the source side
\* has just written nor the one it may write next.
THEOREM StableReadHolds == Spec => []StableRead
<1>1. ASSUME TypeOK, Inv PROVE StableRead
  <2> DEFINE r == IF d.empty THEN d.rp ELSE d.rpNext
  <2> SUFFICES ASSUME ~ EmptyNext(~ d.empty)
               PROVE  /\ ~ s.full => r % Depth # s.wp % Depth
                      /\ gray[s.wp] # s.gray => r % Depth # Sub(s.wp, 1) % Depth
    BY DEF StableRead
  <2>1. /\ Stages \in 1..Stages /\ Depth \in Nat \ {0, 1}
        /\ d.rp \in Pointer /\ s.wp \in Pointer /\ r \in Pointer
        /\ bin[d.wp[Stages]] \in Pointer /\ bin[s.gray] \in Pointer
        /\ Held \in Nat /\ Ahead(s.gray) \in Nat /\ Ahead(d.wp[Stages]) \in Nat
    BY <1>1, Numbers, ConstantTypes, PointerIs DEF Inv
  <2>2. bin[d.wp[Stages]] # r
    BY DEF EmptyNext
  <2>3. Ahead(d.wp[Stages]) <= Ahead(s.gray) /\ Ahead(s.gray) <= Held /\ Held <= Ahead(s.gray) + 1
    BY <1>1, <2>1, Numbers DEF Inv, WriteChain
  <2>4. Sub(r, d.rp) \in Nat /\ Sub(r, d.rp) < Ahead(d.wp[Stages])
    <3>1. CASE d.empty
      <4>1. Sub(r, d.rp) = 0 /\ Ahead(d.wp[Stages]) # 0
        BY <2>1, <2>2, <3>1, SubZero DEF Ahead
      <4> QED
        BY <2>1, <4>1
    <3>2. CASE ~ d.empty
      <4>1. r = Add(d.rp, 1) /\ Ahead(d.wp[Stages]) > 0
        BY <1>1, <3>2 DEF Inv, Output
      <4>2. Sub(d.rp, d.rp) = 0
        BY <2>1, SubZero
      <4>3. Sub(r, d.rp) = 1
        BY <2>1, <4>1, <4>2, SubStep
      <4>4. Ahead(d.wp[Stages]) # 1
        <5> SUFFICES ASSUME Ahead(d.wp[Stages]) = 1 PROVE FALSE
          OBVIOUS
        <5>1. Sub(bin[d.wp[Stages]], d.rp) = Sub(r, d.rp)
          BY <4>3 DEF Ahead
        <5>2. bin[d.wp[Stages]] = r
          BY <2>1, <5>1, SubIs
        <5> QED
          BY <2>2, <5>2
      <4> QED
        BY <2>1, <4>1, <4>3, <4>4
    <3> QED
      BY <3>1, <3>2
  <2>5. ASSUME NEW p \in Pointer, Ahead(d.wp[Stages]) <= Sub(p, d.rp), Sub(p, d.rp) < Depth
        PROVE  r % Depth # p % Depth
    <3>1. Sub(p, d.rp) \in Nat
      BY <2>1, SubIs
    <3>2. Sub(r, d.rp) < Sub(p, d.rp) /\ Sub(p, d.rp) < Sub(r, d.rp) + Depth
      BY <2>1, <2>4, <2>5, <3>1
    <3> QED
      BY <2>1, <3>2, SlotsDiffer
  <2>6. Behind(s.rp[Stages]) \in Nat /\ Span \in Nat /\ Held <= Span /\ Span <= Depth
    BY <1>1, <2>1, Numbers DEF Inv, Span, Room
  <2>7. ~ s.full => r % Depth # s.wp % Depth
    <3> SUFFICES ASSUME ~ s.full PROVE r % Depth # s.wp % Depth
      OBVIOUS
    <3>1. Span < Depth
      BY <1>1, Zenon DEF Inv, Room
    <3>2. Ahead(d.wp[Stages]) <= Sub(s.wp, d.rp) /\ Sub(s.wp, d.rp) < Depth
      BY <2>1, <2>3, <2>6, <3>1 DEF Held
    <3> QED
      BY <2>1, <2>5, <3>2
  <2>8. gray[s.wp] # s.gray => r % Depth # Sub(s.wp, 1) % Depth
    <3> SUFFICES ASSUME gray[s.wp] # s.gray PROVE r % Depth # Sub(s.wp, 1) % Depth
      OBVIOUS
    <3>1. bin[s.gray] # s.wp
      BY <1>1, CodeIs DEF Inv, AllCoded
    <3>2. s.wp = Add(bin[s.gray], 1) /\ Ahead(s.gray) # Held
      <4>1. s.wp = Add(bin[s.gray], 1)
        BY <2>1, <2>3, <3>1, SuccAhead DEF Ahead, Held
      <4>2. Ahead(s.gray) # Held
        BY <2>1, <3>1, SubIs DEF Ahead, Held
      <4> QED
        BY <4>1, <4>2
    <3>3. Sub(s.wp, 1) = bin[s.gray]
      BY <2>1, <3>2, SubOne
    <3>4. Ahead(d.wp[Stages]) <= Ahead(s.gray) /\ Ahead(s.gray) < Depth
      BY <2>1, <2>3, <2>6, <3>2
    <3> QED
      BY <2>1, <2>5, <3>3, <3>4 DEF Ahead
  <2> QED
    BY <2>7, <2>8
<1> QED
  BY <1>1, Invariant, PTL

-------------------------------------------------------------------------------
(* The abstract FIFO *)

\* The content of the FIFO as a sequence.
LEMMA ContentIs ==
  ASSUME TypeOK
  PROVE  /\ Held \in Nat /\ Held < 2 * Depth /\ Content \in Seq(Data)
         /\ Len(Content) = Held
         /\ \A i \in 1..Held : Content[i] = ram[Add(d.rp, i - 1) % Depth]
<1>1. s.wp \in Pointer /\ d.rp \in Pointer
  BY DEF TypeOK
<1>2. Held \in Nat /\ Held < 2 * Depth
  BY <1>1, SubIs DEF Held
<1>3. \A i \in 1..Held : ram[Add(d.rp, i - 1) % Depth] \in Data
  <2> TAKE i \in 1..Held
  <2>1. i - 1 \in Nat /\ i - 1 < 2 * Depth
    BY <1>2, PointerIs
  <2>2. Add(d.rp, i - 1) \in Pointer
    BY <1>1, <2>1, AddIs
  <2> QED
    BY <2>2, SlotRead
<1>4. Content \in [1..Held -> Data]
  BY <1>3 DEF Content
<1>5. Content \in Seq(Data) /\ Len(Content) = Held
  BY <1>2, <1>4
<1> QED
  BY <1>2, <1>5 DEF Content

\* Words lie in the RAM one after the other.
LEMMA PlaceIs ==
  ASSUME NEW p \in Pointer, NEW n \in Nat, n < 2 * Depth
  PROVE  Add(p, n) \in Pointer /\ Sub(Add(p, n), p) = n
<1>1. PICK a \in Pointer : /\ a = Add(p, n)
                           /\ a = IF p + n < 2 * Depth THEN p + n ELSE p + n - 2 * Depth
  BY AddIs
<1>2. /\ p \in Nat /\ p < 2 * Depth /\ a \in Nat
      /\ Sub(a, p) = IF p <= a THEN a - p ELSE a + 2 * Depth - p
  BY SubIs
<1>3. Sub(a, p) = n
  BY <1>1, <1>2, PointerIs
<1> QED
  BY <1>1, <1>3

\* Where the pointers and the words between them stay, so does the content.
LEMMA ContentStays ==
  ASSUME TypeOK, TypeOK', s'.wp = s.wp, d'.rp = d.rp,
         Held = 0 \/ ram' = ram
  PROVE  Content' = Content
<1>1. Held' = Held
  BY DEF Held
<1>2. CASE Held = 0
  BY <1>1, <1>2 DEF Content
<1>3. CASE ram' = ram
  BY <1>1, <1>3 DEF Content
<1> QED
  BY <1>2, <1>3

\* A push appends its word.
LEMMA PushAppends ==
  ASSUME TypeOK, TypeOK', Held < Depth, NEW x \in Data,
         s'.wp = Add(s.wp, 1), d'.rp = d.rp, ram' = [ram EXCEPT ![s.wp % Depth] = x]
  PROVE  Len(Content) < Depth /\ Content' = Append(Content, x)
<1>1. s.wp \in Pointer /\ d.rp \in Pointer /\ Depth \in Nat \ {0, 1}
  BY PointerIs DEF TypeOK
<1>2. /\ Held \in Nat /\ Content \in Seq(Data) /\ Len(Content) = Held
      /\ \A i \in 1..Held : Content[i] = ram[Add(d.rp, i - 1) % Depth]
  BY ContentIs
<1>3. Held' = Held + 1
  <2>1. Sub(s.wp, d.rp) < 2 * Depth - 1
    BY <1>1, <1>2 DEF Held
  <2> QED
    BY <1>1, <2>1, SubStep DEF Held
<1>4. /\ Content' \in Seq(Data) /\ Len(Content') = Held + 1
      /\ \A i \in 1 .. Held + 1 : Content'[i] = ram'[Add(d.rp, i - 1) % Depth]
  <2>1. (/\ Held \in Nat /\ Held < 2 * Depth /\ Content \in Seq(Data)
         /\ Len(Content) = Held
         /\ \A i \in 1..Held : Content[i] = ram[Add(d.rp, i - 1) % Depth])'
    BY ContentIs, PTL
  <2> QED
    BY <1>3, <2>1
<1>5. ASSUME NEW i \in 1..Held
      PROVE  Content'[i] = Content[i]
  <2>1. i - 1 \in Nat /\ i - 1 < Held /\ i - 1 < 2 * Depth /\ i \in 1 .. Held + 1
    BY <1>1, <1>2
  <2>2. PICK a \in Pointer : a = Add(d.rp, i - 1) /\ Sub(a, d.rp) = i - 1
    BY <1>1, <2>1, PlaceIs
  <2>3. Sub(a, d.rp) < Sub(s.wp, d.rp) /\ Sub(s.wp, d.rp) < Sub(a, d.rp) + Depth
    BY <1>1, <1>2, <2>1, <2>2 DEF Held
  <2>4. a % Depth # s.wp % Depth
    BY <1>1, <2>3, SlotsDiffer
  <2>5. ram'[a % Depth] = ram[a % Depth]
    BY <2>2, <2>4, SlotIs DEF TypeOK
  <2> QED
    BY <1>2, <1>4, <2>1, <2>2, <2>5
<1>6. Content'[Held + 1] = x
  <2>1. Held \in Nat /\ Held < 2 * Depth /\ (Held + 1) - 1 = Held /\ Held + 1 \in 1 .. Held + 1
    BY <1>1, <1>2
  <2>2. PICK a \in Pointer : a = Add(d.rp, Held) /\ Sub(a, d.rp) = Held
    BY <1>1, <2>1, PlaceIs
  <2>3. a = s.wp
    BY <1>1, <2>2, SubIs DEF Held
  <2>4. ram'[s.wp % Depth] = x
    BY <1>1, SlotIs DEF TypeOK
  <2> QED
    BY <1>4, <2>1, <2>2, <2>3, <2>4
<1>7. /\ Append(Content, x) \in Seq(Data) /\ Len(Append(Content, x)) = Held + 1
      /\ \A i \in 1..Held : Append(Content, x)[i] = Content[i]
      /\ Append(Content, x)[Held + 1] = x
  BY <1>2, AppendProperties
<1>8. \A i \in 1 .. Held + 1 : Content'[i] = Append(Content, x)[i]
  BY <1>2, <1>5, <1>6, <1>7
<1> QED
  BY <1>2, <1>4, <1>7, <1>8, SeqEqual

\* A pop takes the first word away.
LEMMA PopTakes ==
  ASSUME TypeOK, TypeOK', Held > 0, s'.wp = s.wp, d'.rp = Add(d.rp, 1), ram' = ram
  PROVE  /\ Content # <<>> /\ Head(Content) = ram[d.rp % Depth]
         /\ Content' = Tail(Content)
<1>1. s.wp \in Pointer /\ d.rp \in Pointer /\ Depth \in Nat \ {0, 1}
  BY PointerIs DEF TypeOK
<1>2. /\ Held \in Nat /\ Held < 2 * Depth
      /\ Content \in Seq(Data) /\ Len(Content) = Held
      /\ \A i \in 1..Held : Content[i] = ram[Add(d.rp, i - 1) % Depth]
  BY ContentIs
<1>3. Held' = Held - 1
  BY <1>1, SubNear DEF Held
<1>4. /\ Content' \in Seq(Data) /\ Len(Content') = Held - 1
      /\ \A i \in 1 .. Held - 1 : Content'[i] = ram[Add(Add(d.rp, 1), i - 1) % Depth]
  <2>1. (/\ Held \in Nat /\ Held < 2 * Depth /\ Content \in Seq(Data)
         /\ Len(Content) = Held
         /\ \A i \in 1..Held : Content[i] = ram[Add(d.rp, i - 1) % Depth])'
    BY ContentIs, PTL
  <2> QED
    BY <1>3, <2>1
<1>5. Content # <<>>
  BY <1>2
<1>6. /\ Head(Content) = Content[1] /\ Tail(Content) \in Seq(Data)
      /\ Len(Tail(Content)) = Held - 1
      /\ \A i \in 1 .. Held - 1 : Tail(Content)[i] = Content[i + 1]
  BY <1>2, <1>5, HeadTailProperties
<1>7. Content[1] = ram[d.rp % Depth]
  <2>1. 1 \in 1..Held /\ 0 \in Nat /\ 0 < 2 * Depth /\ 1 - 1 = 0
    BY <1>1, <1>2
  <2>2. PICK a \in Pointer : a = Add(d.rp, 0) /\ Sub(a, d.rp) = 0
    BY <1>1, <2>1, PlaceIs
  <2>3. a = d.rp
    BY <1>1, <2>2, SubZero
  <2> QED
    BY <1>2, <2>1, <2>2, <2>3
<1>8. ASSUME NEW i \in 1 .. Held - 1
      PROVE  Content'[i] = Tail(Content)[i]
  <2>1. /\ i - 1 \in Nat /\ i - 1 < 2 * Depth /\ i \in Nat /\ i < 2 * Depth
        /\ i + 1 \in 1..Held /\ (i + 1) - 1 = i
    BY <1>1, <1>2
  <2>2. Add(Add(d.rp, 1), i - 1) = Add(d.rp, i)
    <3>1. PICK n \in Pointer : n = Add(d.rp, 1)
                               /\ n = IF d.rp = 2 * Depth - 1 THEN 0 ELSE d.rp + 1
      BY <1>1, NextIs
    <3>2. Add(n, i - 1) = IF n + (i - 1) < 2 * Depth THEN n + (i - 1)
                                                     ELSE n + (i - 1) - 2 * Depth
      BY <2>1, AddIs
    <3>3. Add(d.rp, i) = IF d.rp + i < 2 * Depth THEN d.rp + i ELSE d.rp + i - 2 * Depth
      BY <1>1, <2>1, AddIs
    <3>4. n \in Nat /\ d.rp \in Nat /\ d.rp < 2 * Depth
      BY <1>1, PointerIs
    <3>5. Add(n, i - 1) = Add(d.rp, i)
      BY <1>1, <2>1, <3>1, <3>2, <3>3, <3>4
    <3> QED
      BY <3>1, <3>5
  <2>3. Content'[i] = ram[Add(d.rp, i) % Depth]
    BY <1>4, <2>2
  <2>4. Content[i + 1] = ram[Add(d.rp, i) % Depth]
    BY <1>2, <2>1
  <2> QED
    BY <1>6, <2>3, <2>4
<1>9. Len(Content') = Len(Tail(Content))
      /\ \A i \in 1..Len(Content') : Content'[i] = Tail(Content)[i]
  BY <1>4, <1>6, <1>8
<1> QED
  BY <1>4, <1>5, <1>6, <1>7, <1>9, SeqEqual

\* Every step is a push, a pop, a reset or none of them for the abstract FIFO.
LEMMA FifoStep ==
  TypeOK /\ TypeOK' /\ Inv /\ [Next]_vars => [Abstract!Next]_(Abstract!vars)
<1> SUFFICES ASSUME TypeOK, TypeOK', Inv, [Next]_vars
             PROVE  [Abstract!Next]_(Abstract!vars)
  OBVIOUS
<1>1. ASSUME NEW isPush \in BOOLEAN, NEW x \in Data, SrcEdge(isPush, x)
      PROVE  [Abstract!Next]_(Abstract!vars)
  <2> DEFINE push == isPush /\ ~ s.full
  <2>1. /\ d' = d /\ delivered' = delivered
        /\ ram' = IF push THEN [ram EXCEPT ![s.wp % Depth] = x] ELSE ram
    BY <1>1 DEF SrcEdge, Written
  <2>2. CASE InReset("s")
    <3>1. Held = 0 /\ s' = s
      BY <1>1, <2>2, EmptyInReset DEF SrcEdge
    <3>2. Content' = Content
      BY <2>1, <3>1, ContentStays
    <3> QED
      BY <2>1, <3>2 DEF Abstract!vars
  <2>3. CASE ~ InReset("s")
    <3>1. s'.wp = IF push THEN Add(s.wp, 1) ELSE s.wp
      BY <1>1, <2>3 DEF SrcEdge, SrcRegisters
    <3>2. CASE push
      <4>1. Span < Depth
        BY <3>2, Zenon DEF Inv, Room
      <4>2. Held < Depth
        <5>1. Stages \in 1..Stages /\ Depth \in Nat
          BY ConstantTypes, PointerIs
        <5>2. Held \in Nat /\ Behind(s.rp[Stages]) \in Nat
          BY <5>1, Numbers DEF Inv
        <5> QED
          BY <4>1, <5>1, <5>2 DEF Span
      <4>3. Len(Content) < Depth /\ Content' = Append(Content, x)
        BY <2>1, <3>1, <3>2, <4>2, PushAppends
      <4> QED
        BY <2>1, <4>3 DEF Abstract!Next, Abstract!Push
    <3>3. CASE ~ push
      <4>1. Content' = Content
        BY <2>1, <3>1, <3>3, ContentStays
      <4> QED
        BY <2>1, <4>1 DEF Abstract!vars
    <3> QED
      BY <3>2, <3>3
  <2> QED
    BY <2>2, <2>3
<1>2. ASSUME NEW idPop \in BOOLEAN, DstEdge(idPop)
      PROVE  [Abstract!Next]_(Abstract!vars)
  <2> DEFINE pop == idPop /\ ~ d.empty
  <2>1. s' = s /\ ram' = ram /\ delivered' = IF pop THEN d.q ELSE delivered
    BY <1>2 DEF DstEdge
  <2>2. CASE InReset("d")
    <3>1. d.empty
      BY <2>2 DEF Inv, ResetKept, DstReset
    <3>2. d'.rp = d.rp /\ delivered' = delivered
      BY <1>2, <2>1, <2>2, <3>1 DEF DstEdge, TypeOK
    <3>3. Content' = Content
      BY <2>1, <3>2, ContentStays
    <3> QED
      BY <3>2, <3>3 DEF Abstract!vars
  <2>3. CASE ~ InReset("d")
    <3>1. d'.rp = IF pop THEN d.rpNext ELSE d.rp
      BY <1>2, <2>3 DEF DstEdge, DstRegisters
    <3>2. CASE pop
      <4>1. d'.rp = Add(d.rp, 1) /\ Ahead(d.wp[Stages]) > 0 /\ d.q = ram[d.rp % Depth]
        BY <3>1, <3>2 DEF Inv, Output
      <4>2. Held > 0
        <5>1. Stages \in 1..Stages
          BY ConstantTypes
        <5> QED
          BY <4>1, <5>1, Numbers DEF Inv, WriteChain
      <4>3. /\ Content # <<>> /\ Head(Content) = ram[d.rp % Depth]
            /\ Content' = Tail(Content)
        BY <2>1, <4>1, <4>2, PopTakes
      <4> QED
        BY <2>1, <3>2, <4>1, <4>3 DEF Abstract!Next, Abstract!Pop
    <3>3. CASE ~ pop
      <4>1. Content' = Content
        BY <2>1, <3>1, <3>3, ContentStays
      <4> QED
        BY <2>1, <3>3, <4>1 DEF Abstract!vars
    <3> QED
      BY <3>2, <3>3
  <2> QED
    BY <2>2, <2>3
<1>3. ASSUME NEW sides \in SUBSET Side, AssertReset(sides)
      PROVE  [Abstract!Next]_(Abstract!vars)
  <2>1. s'.wp = 0 /\ d'.rp = 0 /\ delivered' = delivered
    BY <1>3 DEF AssertReset, SrcReset, DstReset
  <2>2. Held' = 0
    BY <2>1, ConstantTypes, SubZero DEF Held
  <2>3. Len(Content') = 0 /\ Content' \in Seq(Data)
    <3>1. (/\ Held \in Nat /\ Held < 2 * Depth /\ Content \in Seq(Data)
           /\ Len(Content) = Held
           /\ \A i \in 1..Held : Content[i] = ram[Add(d.rp, i - 1) % Depth])'
      BY ContentIs, PTL
    <3> QED
      BY <2>2, <3>1
  <2>4. Content' = <<>>
    BY <2>3, EmptySeq
  <2> QED
    BY <2>1, <2>4 DEF Abstract!Next, Abstract!Reset
<1>4. ASSUME NEW side \in Side, ReleaseReset(side)
      PROVE  [Abstract!Next]_(Abstract!vars)
  <2>1. s' = s /\ d' = d /\ ram' = ram /\ delivered' = delivered
    BY <1>4 DEF ReleaseReset
  <2>2. Content' = Content
    BY <2>1, ContentStays
  <2> QED
    BY <2>1, <2>2 DEF Abstract!vars
<1>5. CASE UNCHANGED vars
  <2>1. s' = s /\ d' = d /\ ram' = ram /\ delivered' = delivered
    BY <1>5 DEF vars
  <2>2. Content' = Content
    BY <2>1, ContentStays
  <2> QED
    BY <2>1, <2>2 DEF Abstract!vars
<1> QED
  BY <1>1, <1>2, <1>3, <1>4, <1>5 DEF Next, SrcClock, DstClock

\* async_fifo implements the abstract FIFO: words come out in the order they
\* went in, none is lost, overwritten or delivered twice, and never more than
\* DEPTH are held, whatever the rates of the clocks, the lateness of each bit
\* and the times of the resets.
THEOREM FifoImplemented == Spec => IsFifo
<1>1. Init => Abstract!Init
  <2> SUFFICES ASSUME Init PROVE Abstract!Init
    OBVIOUS
  <2>1. s.wp = 0 /\ d.rp = 0 /\ delivered = None
    BY DEF Init, SrcReset, DstReset
  <2>2. Held = 0
    BY <2>1, ConstantTypes, SubZero DEF Held
  <2>3. TypeOK
    BY ResetTypes, ConstantTypes DEF Init, TypeOK
  <2>4. Len(Content) = 0 /\ Content \in Seq(Data)
    BY <2>2, <2>3, ContentIs
  <2>5. Content = <<>>
    BY <2>4, EmptySeq
  <2> QED
    BY <2>1, <2>5 DEF Abstract!Init
<1> QED
  BY <1>1, Invariant, FifoStep, PTL DEF Spec, IsFifo, Abstract!Spec

===============================================================================
