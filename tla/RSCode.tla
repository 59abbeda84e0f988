------------------------------- MODULE RSCode -------------------------------
(***************************************************************************)
(* What the coding functions promise, for the modules that move the data:  *)
(* Encode is the parity encode_rs leaves in bb[], Decode what decode_rs    *)
(* leaves in recd[].  ReedSolomon computes the parity as the code does;    *)
(* BoundedDistance shows that decode_rs is the decoder stated here: a word *)
(* within tt symbols of a codeword becomes that codeword, any other word   *)
(* is left as it was.                                                      *)
(***************************************************************************)
EXTENDS RSMessages, FiniteSets

CONSTANT Encode       \* the parity of every message

Parity == [0 .. nn - kk - 1 -> Byte]

ASSUME EncodeAssumption == Encode \in [Message -> Parity]

Vector == [0 .. nn - 1 -> Byte]

\* The encoder's arrangement: the data first, the parity after it.
Codeword(m) == [i \in 0 .. nn - 1 |-> IF i < kk THEN m[i] ELSE Encode[m][i - kk]]
Codewords == { Codeword(m) : m \in Message }

Distance(v, w) == Cardinality({i \in 0 .. nn - 1 : v[i] # w[i]})

\* (Definitions named Mut... are the errors in the code that the properties must find.)
\* A decoder that gives up one error too early.
MutNear(r) == { c \in Codewords : Distance(r, c) < tt }

Near(r) == { c \in Codewords : Distance(r, c) <= tt }

\* The words decode_rs may leave: the received one when it has no error or when it
\* gives up, else one within tt symbols of it.
Decode(r) == IF r \in Codewords \/ Near(r) = {} THEN {r} ELSE Near(r)
=============================================================================
