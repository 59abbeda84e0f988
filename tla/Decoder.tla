------------------------------- MODULE Decoder -------------------------------
(***************************************************************************)
(* What decode_rs promises, in one step: a bounded-distance decoder.  The  *)
(* test bench is modelled with the same statement (Decode in RSCode).      *)
(***************************************************************************)
EXTENDS Integers, FiniteSets

CONSTANTS nn, tt, Symbols, Codewords

VARIABLES answer,      \* recd[], the argument and the answer
          calling,   \* a call is under way
          returned       \* the value returned last

Init ==
  /\ answer \in [0 .. nn - 1 -> Symbols]
  /\ ~calling
  /\ returned = -1

Call ==
  /\ ~calling
  /\ calling'
  /\ answer' \in [0 .. nn - 1 -> Symbols]
  /\ returned' = -1

Distance(v, w) == Cardinality({ x \in 0 .. nn - 1 : v[x] # w[x] })

\* Nothing to correct.
Intact ==
  /\ returned' = 0
  /\ answer \in Codewords
  /\ answer' = answer

\* The codeword within tt symbols.
Correct ==
  /\ returned' = 1
  /\ answer' \in Codewords \ {answer}
  /\ Distance(answer', answer) <= tt

\* There is none: the word is given back as it was.
GiveUp ==
  /\ returned' \in {2, 3}
  /\ answer' = answer
  /\ \A c \in Codewords : Distance(c, answer) > tt

Return ==
  /\ calling
  /\ ~calling'
  /\ Intact \/ Correct \/ GiveUp

Next == Call \/ Return

Spec == Init /\ [][Next]_<<answer, calling, returned>>
=============================================================================
