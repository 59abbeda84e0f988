----------------------------- MODULE RSBuffers -----------------------------
(***************************************************************************)
(* The memory the two SystemC modules work in, and the chunks they move.   *)
(*                                                                         *)
(* RSEncoder and RSEncoderTB both end with the members                     *)
(*     int recd[nn], data[kk], bb[nn - kk];                                *)
(* and both run past the end of these arrays: the chunks are NB_BYTE_INPUT *)
(* symbols wide, and neither kk nor nn is a multiple of it.  What such an  *)
(* access does is not defined by the language; the model takes the outcome *)
(* of a build that lays the members out in their order, which is one flat  *)
(* block: recd[nn + i] is data[i] and data[kk + i] is bb[i].               *)
(***************************************************************************)
EXTENDS RSMessages, FiniteSets

CONSTANTS NB_BYTE_INPUT,          \* symbols moved in a clock cycle (16)
          Zero,                   \* the symbol 0
          Junk,                   \* int values that are not the value of a symbol
          ToByte(_),              \* conversion of an int to sc_uint<8>
          InitialMemory           \* what the arrays may hold before any store

\* (for short)
W == NB_BYTE_INPUT

ASSUME SizeAssumption == NB_BYTE_INPUT \in Nat \ {0}

\* The tail of the last chunk stays inside the array behind the one it overruns,
\* and inside the symbols of data[] that the test bench generates.
ASSUME OverrunAssumption ==
  /\ NB_BYTE_INPUT - 1 <= 2 * tt
  /\ NB_BYTE_INPUT - 1 <= kk - 2

\* What an int cell of the two modules holds: a symbol, or a stale int.
Word == Byte \cup Junk

ASSUME ByteAssumption ==
  /\ Zero \in Byte
  /\ \A w \in Word : ToByte(w) \in Byte
  /\ \A b \in Byte : ToByte(b) = b

-----------------------------------------------------------------------------
Addr == 0 .. 2 * nn - 1

Recd(i) == i
Data(i) == nn + i
BB(i)   == nn + kk + i

Memory  == [Addr -> Word]

ASSUME InitialMemoryAssumption == InitialMemory \subseteq Memory

\* n cells from address a on.
Block(mem, a, n) == [i \in 0 .. n - 1 |-> mem[a + i]]

\* The cells from address a on overwritten with the values of f.
Overwrite(mem, a, f) ==
  [x \in Addr |-> IF x - a \in DOMAIN f THEN f[x - a] ELSE mem[x]]

\* The NB_BYTE_INPUT cells from address a on, converted for the 8-bit ports.
Lane == 0 .. NB_BYTE_INPUT - 1
Chunk(mem, a) == [i \in Lane |-> ToByte(mem[a + i])]

\* The message in data[] as the 8-bit ports carry it.
MessageIn(mem) == [i \in 0 .. kk - 1 |-> ToByte(mem[Data(i)])]
=============================================================================
