------------------------------- MODULE GrayCode -------------------------------
(* gray_encoder and gray_decoder of the standard library.  A bit vector is a *)
(* sequence of bits, the lowest first.                                       *)
EXTENDS Naturals, Sequences, FiniteSetsExt

LOCAL Bit(n, i) == (n \div 2 ^ (i - 1)) % 2

\* i_bin ^ (i_bin >> 1)
GrayEncoder(n, width) == [i \in 1..width |-> (Bit(n, i) + Bit(n, i + 1)) % 2]

\* The decoder splits its input; the lower half is inverted when the upper
\* half has odd parity, which is its lowest output bit.
RECURSIVE GrayDecoder(_)
GrayDecoder(g) ==
  IF Len(g) = 1 THEN g
  ELSE LET low  == Len(g) \div 2
           top  == GrayDecoder(SubSeq(g, low + 1, Len(g)))
           bot  == GrayDecoder(SubSeq(g, 1, low))
       IN  [i \in 1..low |-> (bot[i] + top[1]) % 2] \o top

ToNat(b) == MapThenSumSet(LAMBDA i : b[i] * 2 ^ (i - 1), DOMAIN b)

===============================================================================
