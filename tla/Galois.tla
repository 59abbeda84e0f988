------------------------------- MODULE Galois -------------------------------
(***************************************************************************)
(* galois (impl/src/RSEncoder.cpp): the product of two symbols of GF(256)  *)
(* as an exclusive or of products of bits.  The table is written out by    *)
(* hand, 150 terms of it, and stands in four files of the repository.      *)
(***************************************************************************)
EXTENDS IntSymbols, Sequences

UChar == 0 .. 255

\* Terms[z + 1][b + 1] is the set of the a for which B<b> & A<a> is in Z<z>.
Terms ==
  << << {0}, {7}, {6}, {5}, {4}, {3,7}, {2,6,7}, {1,5,6,7} >>,
     << {1}, {0}, {7}, {6}, {5}, {4}, {3,7}, {2,6,7} >>,
     << {2}, {1,7}, {0,6}, {5,7}, {4,6}, {3,5,7}, {2,4,6,7}, {1,3,5,6} >>,
     << {3}, {2,7}, {1,6,7}, {0,5,6}, {4,5,7}, {3,4,6,7}, {2,3,5,6}, {1,2,4,5} >>,
     << {4}, {3,7}, {2,6,7}, {1,5,6,7}, {0,4,5,6}, {3,4,5}, {2,3,4}, {1,2,3,7} >>,
     << {5}, {4}, {3,7}, {2,6,7}, {1,5,6,7}, {0,4,5,6}, {3,4,5}, {2,3,4} >>,
     << {6}, {5}, {4}, {3,7}, {2,6,7}, {1,5,6,7}, {0,4,5,6}, {3,4,5} >>,
     << {7}, {6}, {5}, {4}, {3,7}, {2,6,7}, {1,5,6,7}, {0,4,5,6} >> >>

\* (Definitions named Mut... are the errors in the code that the properties must find.)
\* The products A6 & B7 left out.
MutBitOf(z, a, b) ==
  Cardinality({ t \in (a \X b) \ {<<6, 7>>} : t[1] \in Terms[z + 1][t[2] + 1] }) % 2

\* Z<z>: the exclusive or of its terms, for arguments with the 1 bits a and b.
BitOf(z, a, b) == Cardinality({ t \in a \X b : t[1] \in Terms[z + 1][t[2] + 1] }) % 2

galois(n1, n2) ==
  LET a == Bits(n1)
      b == Bits(n2)
  IN  Number({ z \in 0 .. 7 : BitOf(z, a, b) = 1 })
=============================================================================
