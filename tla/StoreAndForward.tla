--------------------------- MODULE StoreAndForward ---------------------------
(***************************************************************************)
(* What encoder and test bench do together, without clock, signals and     *)
(* chunks: a message is handed over, its codeword comes back, the codeword *)
(* is disturbed, decoded and judged, and only then is there another        *)
(* message.                                                                *)
(***************************************************************************)
EXTENDS Naturals

CONSTANTS Message, Codeword(_),
          tt,                      \* errors that are corrected
          NUMBER_OF_TEST_VECTOR,
          NoWord

VARIABLES stage,     \* how far the packet is
          message,   \* what was handed over, and is kept for the judgement
          word,      \* what is on its way back, or has come back
          errorNumberIT, j, no_encoder_errors

counts == <<errorNumberIT, j, no_encoder_errors>>
vars == <<stage, message, word, counts>>

Init ==
  /\ stage = "idle"
  /\ message \in Message
  /\ word = NoWord
  /\ errorNumberIT = 1 /\ j = 0 /\ no_encoder_errors = 0

HandOver ==
  /\ stage = "idle"
  /\ stage' = "sent"
  /\ message' \in Message
  /\ UNCHANGED <<word, counts>>

Code ==
  /\ stage = "sent"
  /\ stage' = "coded"
  /\ word' = Codeword(message)
  /\ UNCHANGED <<message, counts>>

Return ==
  /\ stage = "coded"
  /\ stage' = "returned"
  /\ UNCHANGED <<message, word, counts>>

\* Disturbed and decoded: only with more than tt errors may the message be lost.
Judge ==
  /\ stage = "returned"
  /\ stage' = "judged"
  /\ word' = NoWord
  /\ \/ UNCHANGED no_encoder_errors
     \/ errorNumberIT > tt /\ no_encoder_errors' = no_encoder_errors + 1
  /\ UNCHANGED <<message, errorNumberIT, j>>

NextPacket ==
  /\ stage = "judged"
  /\ \/ /\ j + 1 < NUMBER_OF_TEST_VECTOR
        /\ stage' = "idle"
        /\ j' = j + 1
        /\ UNCHANGED <<errorNumberIT, no_encoder_errors>>
     \/ /\ j + 1 = NUMBER_OF_TEST_VECTOR
        /\ errorNumberIT <= tt
        /\ stage' = "idle"
        /\ errorNumberIT' = errorNumberIT + 1
        /\ j' = 0
        /\ no_encoder_errors' = 0
     \/ /\ j + 1 = NUMBER_OF_TEST_VECTOR
        /\ errorNumberIT = tt + 1
        /\ stage' = "ended"
        /\ UNCHANGED counts
  /\ UNCHANGED <<message, word>>

Next ==
  \/ HandOver
  \/ Code
  \/ Return
  \/ Judge
  \/ NextPacket

Spec == Init /\ [][Next]_vars
=============================================================================
