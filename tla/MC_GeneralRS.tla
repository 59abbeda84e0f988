---------------------------- MODULE MC_GeneralRS ----------------------------
(***************************************************************************)
(* The program's own parameters, one vector for each number of errors.     *)
(* The errors are a burst across the border of data and parity for odd     *)
(* numbers and are spread with both ends for even ones; one of the draws   *)
(* adds 0, which changes nothing.                                          *)
(***************************************************************************)
EXTENDS GeneralRS

MCPP == {0, 2, 3, 4, 8}

MCData(n) == { [x \in 0 .. kk - 1 |-> IF x % 5 = n % 5 THEN 0 ELSE (x * (n + 3) + 17 * n) % 256] }

MCIndex(n) ==
  IF n % 2 = 1 THEN 235 .. 234 + n
  ELSE { 0, 254 } \cup { (x * nn) \div n : x \in 1 .. n - 2 }

MCByte(x) == { IF x = 238 THEN 0 ELSE 1 + ((37 * x) % nn) }
=============================================================================
