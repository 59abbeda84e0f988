----------------------------- MODULE MC_RSDecode -----------------------------
(***************************************************************************)
(* decode_rs over GF(8), nn = 7 and tt = 2: two codewords, every error     *)
(* pattern of at most three symbols (one more than the code corrects).     *)
(***************************************************************************)
EXTENDS BoundedDistance

MCPP == {0, 1, 3}
MCSent ==
  { [x \in 0 .. nn - 1 |-> Number(w[x])] :
      w \in { Encoded([x \in 0 .. kk - 1 |-> Bits(n * x)]) : n \in {0, 3} } }

\* The patterns of the symbols at where, and of n symbols.
Pattern(where) ==
  { [x \in 0 .. nn - 1 |-> IF x \in where THEN e[x] ELSE 0] : e \in [where -> 1 .. nn] }
Patterns(n) ==
  UNION { Pattern(where) : where \in { p \in SUBSET (0 .. nn - 1) : Cardinality(p) = n } }

MCErrors == UNION { Patterns(n) : n \in 0 .. tt + 1 }
=============================================================================
