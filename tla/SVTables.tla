------------------------------ MODULE SVTables ------------------------------
(***************************************************************************)
(* generate_gf and generate_poly of the SystemVerilog test bench           *)
(* (SystemVerilog/pkg_reed_solomon.sv).  generate_gf is that of the        *)
(* encoder; generate_poly updates gg[0] inside the loop over the terms.    *)
(***************************************************************************)
EXTENDS RSTables

\* One term, and gg[0] multiplied by alpha^(round-1) once more.
SVTerm ==
  /\ tabPc = "terms"
  /\ tabTerm > 0
  /\ gg' = [gg EXCEPT ![tabTerm] = IF gg[tabTerm] # 0 THEN gg[tabTerm - 1] ^^ Scaled(tabTerm) ELSE gg[tabTerm - 1],
                      ![0] = Scaled(0)]
  /\ tabTerm' = tabTerm - 1
  /\ UNCHANGED <<tabPc, tabRound, mask, alpha_to, index_of>>

SVNextFactor ==
  /\ tabPc = "terms"
  /\ tabTerm = 0
  /\ tabRound' = tabRound + 1
  /\ tabPc' = "factor"
  /\ UNCHANGED <<tabTerm, mask, alpha_to, index_of, gg>>

SVNext ==
  \/ LowPower
  \/ LowPowersDone
  \/ HighPower
  \/ HighPowersDone
  \/ LeadingTerm
  \/ SVTerm
  \/ SVNextFactor
  \/ FactorsDone
  \/ Convert

SVSpec == TablesInit /\ [][SVNext]_tablesVars
=============================================================================
