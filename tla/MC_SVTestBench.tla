--------------------------- MODULE MC_SVTestBench ---------------------------
(***************************************************************************)
(* Two bits for the symbols and a code of 11 symbols in chunks of 3: three *)
(* chunks for a message and four for a codeword, the last not full.        *)
(***************************************************************************)
EXTENDS SVPhases

MCByte == {0, 1}
MCJunk == {}
MCToByte(w) == w

\* Any function of the message does: the properties are about its transfer.
MCEncode == [m \in [0 .. 6 -> MCByte] |-> [i \in 0 .. 3 |-> m[i]]]

MCMemory == { [x \in 0 .. 21 |-> b] : b \in MCByte }

\* No symbol set, or one, in each chunk.
MCVectors == { [i \in 0 .. 6 |-> IF i = k THEN 1 ELSE 0] : k \in {0, 4, 6, 7} }

\* A seed that ends the loop, one that goes on and one that repeats a vector.
MCSeeds == {-5, 0, 9}
=============================================================================
