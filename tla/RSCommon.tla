------------------------------ MODULE RSCommon ------------------------------
(***************************************************************************)
(* The parameters of the code, as impl/src/RSCommon.h defines them.        *)
(***************************************************************************)
EXTENDS Integers

CONSTANTS nn,   \* length of a codeword (255)
          tt    \* number of symbols that can be corrected (8)

kk == nn - 2 * tt

ASSUME CodeAssumption ==
  /\ nn \in Nat
  /\ tt \in Nat \ {0}
  /\ kk > 2
=============================================================================
