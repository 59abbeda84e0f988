----------------------------- MODULE RSMessages -----------------------------
(***************************************************************************)
(* What is coded: messages of kk symbols of 8 bits.                        *)
(***************************************************************************)
EXTENDS RSCommon

CONSTANT Byte       \* the values of a sc_uint<8>

Message == [0 .. kk - 1 -> Byte]
=============================================================================
