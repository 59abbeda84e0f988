------------------------------ MODULE RSEncode ------------------------------
(***************************************************************************)
(* encode_rs (impl/src/RSEncoder.cpp) for one message: the feedback shift  *)
(* register bb[], which the call finds as the last one left it.  An action *)
(* is one assignment of the loops; the inner loop works in place, from the *)
(* high end down.                                                          *)
(***************************************************************************)
EXTENDS IntSymbols

VARIABLES encodePc,      \* where the call is
          encodeRound,   \* i, the symbol of the message that is shifted in
          cell,          \* j, the cell of the register
          feedback,
          data,          \* the message
          bb             \* the register, then the parity

encodeVars == <<encodePc, encodeRound, cell, feedback, data, bb>>

EncodeTypeOK ==
  /\ encodePc \in {"clear", "symbol", "shift", "done", "idle"}
  /\ data \in [0 .. kk - 1 -> PolyForm]
  /\ bb \in [0 .. nn - kk - 1 -> PolyForm]
  /\ encodeRound \in -1 .. kk - 1
  /\ cell \in 0 .. nn - kk - 1
  /\ feedback \in PolyForm

EncodeInit ==
  /\ encodePc = "idle"
  /\ encodeRound = -1
  /\ cell = 0
  /\ feedback = 0
  /\ data = [x \in 0 .. kk - 1 |-> 0]
  /\ bb = [x \in 0 .. nn - kk - 1 |-> 0]

-----------------------------------------------------------------------------
\* (Definitions named Mut... are the errors in the code that the properties must find.)

\* The call, for one message.
EncodeCall(message) ==
  /\ encodePc = "idle"
  /\ encodePc' = "clear"
  /\ encodeRound' = kk - 1
  /\ data' = message
  /\ UNCHANGED <<cell, feedback, bb>>

\* bb[] not cleared.
MutClear ==
  /\ encodePc = "clear"
  /\ encodePc' = "symbol"
  /\ UNCHANGED <<data, bb, encodeRound, cell, feedback>>

Clear ==
  /\ encodePc = "clear"
  /\ bb' = [x \in 0 .. nn - kk - 1 |-> 0]
  /\ encodePc' = "symbol"
  /\ UNCHANGED <<data, encodeRound, cell, feedback>>

Feedback ==
  /\ encodePc = "symbol"
  /\ encodeRound >= 0
  /\ feedback' = data[encodeRound] ^^ bb[nn - kk - 1]
  /\ cell' = nn - kk - 1
  /\ encodePc' = "shift"
  /\ UNCHANGED <<data, bb, encodeRound>>

\* galois(alpha_to[gg[x]], feedback)
Fed(x) == Number(Mul(Bits(AlphaTo[GG[x]]), Bits(feedback)))

\* The register from the low end up: a cell reads its neighbour after it was written.
MutShift ==
  /\ encodePc = "shift"
  /\ cell > 0
  /\ LET low == nn - kk - cell
     IN  bb' = [bb EXCEPT ![low] = IF feedback # 0 THEN bb[low - 1] ^^ Fed(low) ELSE bb[low - 1]]
  /\ cell' = cell - 1
  /\ UNCHANGED <<encodePc, data, encodeRound, feedback>>

Shift ==
  /\ encodePc = "shift"
  /\ cell > 0
  /\ bb' = [bb EXCEPT ![cell] = IF feedback # 0 THEN bb[cell - 1] ^^ Fed(cell) ELSE bb[cell - 1]]
  /\ cell' = cell - 1
  /\ UNCHANGED <<encodePc, data, encodeRound, feedback>>

\* A zero in index form.
MutShiftLowest ==
  /\ encodePc = "shift"
  /\ cell = 0
  /\ bb' = [bb EXCEPT ![0] = IF feedback # 0 THEN Fed(0) ELSE -1]
  /\ encodeRound' = encodeRound - 1
  /\ encodePc' = "symbol"
  /\ UNCHANGED <<data, cell, feedback>>

ShiftLowest ==
  /\ encodePc = "shift"
  /\ cell = 0
  /\ bb' = [bb EXCEPT ![0] = IF feedback # 0 THEN Fed(0) ELSE 0]
  /\ encodeRound' = encodeRound - 1
  /\ encodePc' = "symbol"
  /\ UNCHANGED <<data, cell, feedback>>

Return ==
  /\ encodePc = "symbol"
  /\ encodeRound = -1
  /\ encodePc' = "done"
  /\ UNCHANGED <<data, bb, encodeRound, cell, feedback>>

\* The caller goes on.
EncodeReturned ==
  /\ encodePc = "done"
  /\ encodePc' = "idle"
  /\ UNCHANGED <<encodeRound, cell, feedback, data, bb>>

EncodeStep ==
  \/ Clear
  \/ Feedback
  \/ Shift
  \/ ShiftLowest
  \/ Return

-----------------------------------------------------------------------------
\* The message so far shifted past the parity, plus the parity: the coefficients of
\* data(x) * x^(nn-kk) + b(x) for the symbols from data[encodeRound + 1] on.
SoFar ==
  [e \in 0 .. nn - 2 - encodeRound |->
     IF e < nn - kk THEN bb[e] ELSE data[encodeRound + 1 + e - (nn - kk)]]

\* Whatever bb[] held before, after each symbol it is the remainder: what was encoded
\* so far is a multiple of the generator, with the roots the comment of gen_poly names.
RemainderSoFar == encodePc = "symbol" => \A r \in 0 .. nn - kk - 1 : ValueOf(SoFar, r) = 0

\* The thread puts the parity behind the data, not before it as the comment of
\* encode_rs does: what it sends is a codeword all the same, one that decode_rs takes,
\* and its parity is the one the encoder is modelled with.
SentIsACodeword ==
  encodePc = "done" =>
    /\ \A r \in 1 .. nn - kk : Syndromes(Arranged(AsSymbols(data), AsSymbols(bb)))[r] = NoBit
    /\ AsSymbols(bb) = EncodeRS(AsSymbols(data))
=============================================================================
