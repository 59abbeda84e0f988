----------------------------- MODULE MC_Monitor -----------------------------
(***************************************************************************)
(* The encoder with its real sizes and one symbol: its signals do not      *)
(* depend on the data.                                                     *)
(***************************************************************************)
EXTENDS Monitor

MCByte == {0}
MCJunk == {}
MCToByte(w) == 0
MCEncode == [m \in [0 .. 238 -> {0}] |-> [i \in 0 .. 15 |-> 0]]
MCMemory == { [x \in 0 .. 509 |-> 0] }
=============================================================================
