----------------------------- MODULE MCAsyncFifo -----------------------------
(* async_fifo with the encoder and the decoder it instantiates. *)
EXTENDS AsyncFifo, GrayCode, FiniteSets

GrayOf == [p \in Pointer |-> GrayEncoder(p, PointerWidth)]
BinOf == [g \in Bits |-> ToNat(GrayDecoder(g))]

\* The code is right at other widths too.
ASSUME GrayCodeIsRight ==
  \A width \in 1..8 : \A p \in 0 .. 2 ^ width - 1 :
    LET g == GrayEncoder(p, width)
        h == GrayEncoder((p + 1) % 2 ^ width, width)
    IN  /\ ToNat(GrayDecoder(g)) = p
        /\ Cardinality({i \in 1..width : g[i] # h[i]}) = 1

===============================================================================
