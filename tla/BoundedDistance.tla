--------------------------- MODULE BoundedDistance ---------------------------
(***************************************************************************)
(* Calls of decode_rs, and that together its steps are one step of the     *)
(* bounded-distance decoder: what only small codes can be asked, for all   *)
(* words a channel may deliver.                                            *)
(***************************************************************************)
EXTENDS RSDecode

CONSTANTS Sent,     \* codewords
          Errors    \* what the channel adds to them

\* Words and errors are symbols in polynomial form.
ASSUME ChannelAssumption ==
  /\ Sent \subseteq [0 .. nn - 1 -> PolyForm]
  /\ Errors \subseteq [0 .. nn - 1 -> PolyForm]

\* One call after the initial state; the test bench calls with what it received.
Call ==
  /\ decodePc = "done" /\ result = -1
  /\ \E codeword \in Sent, e \in Errors :
       DecodeCall([x \in 0 .. nn - 1 |-> codeword[x] ^^ e[x]])

DecodeNext ==
  \/ Call
  \/ DecodeStep

DecodeSpec == DecodeInit /\ [][DecodeNext]_decodeVars

-----------------------------------------------------------------------------
Encoded(message) == Arranged(message, EncodeRS(message))
AllCodewords ==
  { [x \in 0 .. nn - 1 |-> Number(w[x])] :
      w \in { Encoded(m) : m \in [0 .. kk - 1 -> Symbol] } }

Ideal == INSTANCE Decoder WITH
  Symbols <- PolyForm, Codewords <- AllCodewords,
  answer <- IF decodePc = "done" THEN recd ELSE received,
  calling <- decodePc # "done",
  returned <- result

\* decode_rs is the bounded-distance decoder: tt errors or fewer are corrected, whatever
\* they are; with more it gives up, the word as it was and in polynomial form, just when
\* no codeword is near, and leaves one within tt symbols of the word otherwise.
ImplementsDecoder == Ideal!Spec

-----------------------------------------------------------------------------
\* The parity in polynomial form, and the coding functions as the encoder and the test
\* bench are modelled with them.
ParityOf ==
  [m \in [0 .. kk - 1 -> PolyForm] |->
     [x \in 0 .. nn - kk - 1 |-> Number(EncodeRS(AsSymbols(m))[x])]]

System == INSTANCE RSCode WITH Byte <- PolyForm, Encode <- ParityOf

\* What a call leaves in recd[] is what the model of the test bench says it may.
DecodesForTheSystem == decodePc = "done" /\ result # -1 => recd \in System!Decode(received)
=============================================================================
