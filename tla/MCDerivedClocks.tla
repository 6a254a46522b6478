---------------------------- MODULE MCDerivedClocks ----------------------------
(* Families of designs, every member of which is one initial state. *)
EXTENDS DerivedClocks, TLC

Is(S) == [pos |-> S, neg |-> {}, inv |-> FALSE]
Not(S) == [pos |-> {}, neg |-> S, inv |-> FALSE]
And(S, T) == [pos |-> S, neg |-> T, inv |-> FALSE]
Or(S) == [pos |-> {}, neg |-> S, inv |-> TRUE]
Nand(S) == [pos |-> S, neg |-> {}, inv |-> TRUE]

Reg(c, x, n) == [clock |-> c, reset |-> x, next |-> n]

CONSTANTS clk, clk2, i, rst, a, b, d, p, q, x

\* p is an inverted, a gated or a divided clock or the falling edge of a
\* gated one, q is divided or gated at the fall; the reset follows one
\* register or two; a and b drive them, and d shows whether its clock or its
\* reset reached it.
ClockDesigns ==
  {[clock |-> p :> pn @@ q :> qn,
    reset |-> x :> xn,
    reg   |-> a :> Reg(ac, ax, an) @@ b :> Reg(bc, bx, Not({b}))
           @@ d :> Reg(dc, dx, Is({}))] :
      pn \in {Not({clk}), Is({clk, a}), Nand({clk, i}), Is({a})},
      qn \in {Is({b}), And({a}, {b}), And({b}, {clk})},
      xn \in {Is({a}), Or({a, b})},
      ac \in {clk, clk2, p, q}, ax \in {None, x}, an \in {Not({a}), Is({i})},
      bc \in {clk, p, q}, bx \in {None, x},
      dc \in {clk, q}, dx \in {x, rst}}
================================================================================
