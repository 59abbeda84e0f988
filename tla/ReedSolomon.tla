----------------------------- MODULE ReedSolomon -----------------------------
(***************************************************************************)
(* The code: its generator polynomial and the parity computed by encode_rs *)
(* (impl/src/RSEncoder.cpp), as operators over the reference field.        *)
(***************************************************************************)
EXTENDS GaloisField

\* (x + alpha^0)(x + alpha^1) ... (x + alpha^(2tt-1)), the polynomial the comment of
\* gen_poly describes (b0 = 0).
Generator ==
  LET product[i \in 0 .. nn - kk] ==
        IF i = 0 THEN [k \in 0 .. nn - kk |-> IF k = 0 THEN One ELSE NoBit]
        ELSE [k \in 0 .. nn - kk |->
                Xor(IF k = 0 THEN NoBit ELSE product[i - 1][k - 1],
                    TimesPower(product[i - 1][k], i - 1))]
  IN  product[nn - kk]

\* One round of the feedback shift register: a symbol of the message enters.
ShiftIn(cells, symbol) ==
  LET fed == Xor(symbol, cells[nn - kk - 1])
  IN  [k \in 0 .. nn - kk - 1 |->
         Xor(IF k = 0 THEN NoBit ELSE cells[k - 1], Mul(Generator[k], fed))]

\* encode_rs: bb[] cleared, then data[kk-1] down to data[0].
Register(message) ==
  LET register[i \in 0 .. kk] ==
        IF i = 0 THEN [k \in 0 .. nn - kk - 1 |-> NoBit]
        ELSE ShiftIn(register[i - 1], message[kk - i])
  IN  register

EncodeRS(message) == Register(message)[kk]

\* The word the encoder sends: data first, parity after it.
Arranged(message, parity) == [i \in 0 .. nn - 1 |-> IF i < kk THEN message[i] ELSE parity[i - kk]]

\* The syndromes of a received word, its values at the roots of the generator.
Syndromes(word) == [i \in 1 .. nn - kk |-> ValueAt(word, i - 1)]
=============================================================================
