----------------------------- MODULE MC_SVTables -----------------------------
(***************************************************************************)
(* The tables of the SystemVerilog package at its parameters.              *)
(***************************************************************************)
EXTENDS SVTables

MCPP == {0, 2, 3, 4, 8}
=============================================================================
