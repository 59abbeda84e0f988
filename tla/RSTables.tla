------------------------------ MODULE RSTables ------------------------------
(***************************************************************************)
(* generate_gf and gen_poly (impl/src/RSEncoder.cpp), one action for each  *)
(* round of their loops.  The arrays are members no constructor clears: a  *)
(* cell that was not written yet holds Unset.                              *)
(***************************************************************************)
EXTENDS Galois

VARIABLES tabPc,      \* the loop the program is in
          tabRound,   \* its loop variable i
          tabTerm,    \* and the j of gen_poly's inner loop
          mask,       \* the bit of generate_gf
          alpha_to,   \* index form to polynomial form
          index_of,   \* polynomial form to index form
          gg          \* the generator polynomial

tablesVars == <<tabPc, tabRound, tabTerm, mask, alpha_to, index_of, gg>>

TablesTypeOK ==
  /\ tabPc \in {"low", "high", "factor", "terms", "convert", "done", "idle"}
  /\ tabRound \in 0 .. nn
  /\ tabTerm \in 0 .. nn - kk
  /\ mask \in { Number({b}) : b \in 0 .. mm }
  /\ alpha_to \in [0 .. nn -> Cells]
  /\ index_of \in [0 .. nn -> Cells]
  /\ gg \in [0 .. nn - kk -> Cells]

TablesInit ==
  /\ tabPc = "low"
  /\ tabRound = 0
  /\ tabTerm = 0
  /\ mask = 1
  /\ alpha_to = [x \in 0 .. nn |-> IF x = mm THEN 0 ELSE Unset]
  /\ index_of = [x \in 0 .. nn |-> Unset]
  /\ gg = [x \in 0 .. nn - kk |-> Unset]

-----------------------------------------------------------------------------
\* (Definitions named Mut... are the errors in the code that the properties must find.)

\* alpha^0, ..., alpha^(mm-1) are single bits; those in pp add up to alpha^mm.
LowPower ==
  /\ tabPc = "low"
  /\ tabRound < mm
  /\ alpha_to' = [alpha_to EXCEPT ![tabRound] = mask, ![mm] = IF tabRound \in pp THEN @ ^^ mask ELSE @]
  /\ index_of' = [index_of EXCEPT ![mask] = tabRound]
  /\ mask' = 2 * mask
  /\ tabRound' = tabRound + 1
  /\ UNCHANGED <<tabPc, tabTerm, gg>>

\* mask left one place too high.
MutLowPowersDone ==
  /\ tabPc = "low"
  /\ tabRound = mm
  /\ index_of' = [index_of EXCEPT ![alpha_to[mm]] = mm]
  /\ tabRound' = mm + 1
  /\ tabPc' = "high"
  /\ UNCHANGED <<tabTerm, mask, alpha_to, gg>>

LowPowersDone ==
  /\ tabPc = "low"
  /\ tabRound = mm
  /\ index_of' = [index_of EXCEPT ![alpha_to[mm]] = mm]
  /\ mask' = mask \div 2
  /\ tabRound' = mm + 1
  /\ tabPc' = "high"
  /\ UNCHANGED <<tabTerm, alpha_to, gg>>

\* The bit shifted out not replaced by alpha^mm.
MutHighPower ==
  /\ tabPc = "high"
  /\ tabRound < nn
  /\ LET last == alpha_to[tabRound - 1]
         next == IF last >= mask THEN 2 * (last ^^ mask) ELSE 2 * last
     IN  /\ alpha_to' = [alpha_to EXCEPT ![tabRound] = next]
         /\ index_of' = [index_of EXCEPT ![next] = tabRound]
  /\ tabRound' = tabRound + 1
  /\ UNCHANGED <<tabPc, tabTerm, mask, gg>>

HighPower ==
  /\ tabPc = "high"
  /\ tabRound < nn
  /\ LET last == alpha_to[tabRound - 1]
         next == IF last >= mask THEN alpha_to[mm] ^^ (2 * (last ^^ mask)) ELSE 2 * last
     IN  /\ alpha_to' = [alpha_to EXCEPT ![tabRound] = next]
         /\ index_of' = [index_of EXCEPT ![next] = tabRound]
  /\ tabRound' = tabRound + 1
  /\ UNCHANGED <<tabPc, tabTerm, mask, gg>>

\* generate_gf ends; gen_poly starts from x + alpha^0.
HighPowersDone ==
  /\ tabPc = "high"
  /\ tabRound = nn
  /\ index_of' = [index_of EXCEPT ![0] = -1]
  /\ gg' = [gg EXCEPT ![0] = alpha_to[0], ![1] = 1]
  /\ tabRound' = 2
  /\ tabPc' = "factor"
  /\ UNCHANGED <<tabTerm, mask, alpha_to>>

\* Multiply gg[] by x + alpha^(round-1): the leading term first.
LeadingTerm ==
  /\ tabPc = "factor"
  /\ tabRound <= nn - kk
  /\ gg' = [gg EXCEPT ![tabRound] = 1]
  /\ tabTerm' = tabRound - 1
  /\ tabPc' = "terms"
  /\ UNCHANGED <<tabRound, mask, alpha_to, index_of>>

\* gg[x] * alpha^(round-1) through the tables.
Scaled(x) == alpha_to[(index_of[gg[x]] + tabRound - 1) % nn]

\* The factor alpha^(round-1) forgotten.
MutTerm ==
  /\ tabPc = "terms"
  /\ tabTerm > 0
  /\ gg' = [gg EXCEPT ![tabTerm] = gg[tabTerm - 1] ^^ gg[tabTerm]]
  /\ tabTerm' = tabTerm - 1
  /\ UNCHANGED <<tabPc, tabRound, mask, alpha_to, index_of>>

Term ==
  /\ tabPc = "terms"
  /\ tabTerm > 0
  /\ gg' = [gg EXCEPT ![tabTerm] = IF gg[tabTerm] # 0 THEN gg[tabTerm - 1] ^^ Scaled(tabTerm) ELSE gg[tabTerm - 1]]
  /\ tabTerm' = tabTerm - 1
  /\ UNCHANGED <<tabPc, tabRound, mask, alpha_to, index_of>>

ConstantTerm ==
  /\ tabPc = "terms"
  /\ tabTerm = 0
  /\ gg' = [gg EXCEPT ![0] = Scaled(0)]
  /\ tabRound' = tabRound + 1
  /\ tabPc' = "factor"
  /\ UNCHANGED <<tabTerm, mask, alpha_to, index_of>>

FactorsDone ==
  /\ tabPc = "factor"
  /\ tabRound > nn - kk
  /\ tabRound' = 0
  /\ tabPc' = "convert"
  /\ UNCHANGED <<tabTerm, mask, alpha_to, index_of, gg>>

\* gg[] to index form.
Convert ==
  /\ tabPc = "convert"
  /\ tabRound <= nn - kk
  /\ gg' = [gg EXCEPT ![tabRound] = index_of[gg[tabRound]]]
  /\ tabRound' = tabRound + 1
  /\ tabPc' = IF tabRound = nn - kk THEN "done" ELSE "convert"
  /\ UNCHANGED <<tabTerm, mask, alpha_to, index_of>>

\* The caller goes on.
TablesReturned ==
  /\ tabPc = "done"
  /\ tabPc' = "idle"
  /\ UNCHANGED <<tabRound, tabTerm, mask, alpha_to, index_of, gg>>

TablesStep ==
  \/ LowPower
  \/ LowPowersDone
  \/ HighPower
  \/ HighPowersDone
  \/ LeadingTerm
  \/ Term
  \/ ConstantTerm
  \/ FactorsDone
  \/ Convert

-----------------------------------------------------------------------------
\* The tables are those of the field with primitive polynomial pp[]: no power of alpha
\* occurs twice, and index_of[] undoes alpha_to[] in all its cells.
TablesOfTheField ==
  tabPc \in {"factor", "terms", "convert", "done"} =>
    /\ \A x \in 0 .. nn - 1 : alpha_to[x] = AlphaTo[x]
    /\ index_of = IndexOf

\* The value at alpha^r of the polynomial in gg[0], ..., gg[n].
GGAt(n, r) == ValueAt([x \in 0 .. n |-> Bits(gg[x])], r)

\* Between two rounds gg[] is monic and its roots are just alpha^0, ..., alpha^(round-2),
\* as the comment of gen_poly has it.
RootsOfGG ==
  tabPc = "factor" =>
    /\ gg[tabRound - 1] = 1
    /\ \A r \in 0 .. nn - 1 : GGAt(tabRound - 1, r) = NoBit <=> r <= tabRound - 2

\* galois, with which the encoder multiplies, and the tables, with which the decoder
\* does, give the same product for every pair of symbols.
GaloisAgreesWithTables ==
  tabPc = "done" =>
    \A n1 \in UChar, n2 \in UChar :
      galois(n1, n2) = IF n1 = 0 \/ n2 = 0 THEN 0
                       ELSE alpha_to[(index_of[n1] + index_of[n2]) % nn]

\* gg[] in index form is the polynomial the encoder is modelled with; no coefficient is
\* zero, so encode_rs, which reads alpha_to[gg[k]], meets no index -1.
GeneratorInIndexForm == tabPc = "done" => gg = GG /\ \A x \in 0 .. nn - kk : gg[x] # -1
=============================================================================
