--------------------------- MODULE MC_MainTopLevel ---------------------------
(***************************************************************************)
(* sc_main over GF(8): codewords of 7 symbols, 3 of data, 2 errors to      *)
(* correct, chunks of 2.  As with 255, 239 and 16, the message and the     *)
(* codeword each end one symbol before the chunk does.                     *)
(***************************************************************************)
EXTENDS Phases, ReedSolomon, TLC

MCPP == {0, 1, 3}
MCByte == Symbol
MCZero == NoBit

\* An int is the set of its 1 bits; the ports keep the low 3.
MCToByte(w) == w \cap (0 .. 2)
MCJunk == { {0, 9} }

\* (@@ with the empty function makes TLC tabulate the parities once.)
MCEncode == [m \in [0 .. 2 -> Symbol] |-> EncodeRS(m)] @@ <<>>

\* Arrays that hold one stale symbol, or one stale int, everywhere.
Filled(w) == [x \in Addr |-> w]
MCSymbolMemory == { Filled({}), Filled({0, 2}) }
MCJunkMemory == { Filled({0, 9}) }

MCRandIndex == 0 .. nn - 1
MCRandIndexOfMod256 == 0 .. nn
MCRandByte == { {}, {0}, {1, 2} }

\* One symbol and few indices, where only progress is asked: no step of the threads
\* depends on the data.
MCOneByte    == { NoBit }
MCOneMemory  == { Filled(NoBit) }
MCNoJunk     == {}
MCOneEncode  == [m \in [0 .. 2 -> MCOneByte] |-> [i \in 0 .. 3 |-> NoBit]]
MCFewIndices == {0, 3, 6}
=============================================================================
