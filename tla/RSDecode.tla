------------------------------ MODULE RSDecode ------------------------------
(***************************************************************************)
(* decode_rs (impl/src/RSEncoderTB.cpp) for one received word.  An action  *)
(* is one syndrome, one iteration of Berlekamp's algorithm, one candidate  *)
(* root or one corrected symbol.  As in the code an array changes between  *)
(* polynomial and index form: recd[] is in index form from ToIndexForm on  *)
(* and every way out has to convert it back; elp[u] is in polynomial form  *)
(* while it is the newest row.  Local arrays start with unknown contents.  *)
(***************************************************************************)
EXTENDS IntSymbols, Sequences, Functions

VARIABLES decodePc,      \* where the call is
          decodeRound,   \* i, the candidate root or the symbol to correct
          received,      \* recd[] at the call (no variable of the code)
          recd,          \* recd[] in the form it has
          synd,          \* s, the syndromes, in index form
          u,             \* the step of Berlekamp's algorithm
          elp,           \* error location polynomials, one row for each step
          d, l,          \* their discrepancies (index form) and degrees
          reg,           \* terms of the newest one at the candidate root
          root,          \* the roots found
          z,             \* z(x), in index form
          result         \* the value returned

decodeVars == <<decodePc, decodeRound, received, recd, synd, u, elp, d, l, reg, root, z, result>>
berlekampVars == <<u, elp, d, l>>
correctionVars == <<reg, root, z, decodeRound>>

\* Row nn-kk+1 is the last of elp[][]; its cells end at nn-kk-1, and cell nn-kk stands
\* for the memory behind the array.
Rows == 0 .. nn - kk + 1
Behind == nn - kk

DecodeTypeOK ==
  /\ decodePc \in {"call", "syndromes", "berlekamp", "roots", "values", "done"}
  /\ recd \in [0 .. nn - 1 -> IndexForm \cup PolyForm]
  /\ synd \in [1 .. nn - kk -> {Unset} \cup IndexForm]
  /\ u \in Rows
  /\ elp \in [Rows -> [0 .. Behind -> Cells]]
  /\ d \in [0 .. nn - kk -> {Unset} \cup IndexForm]
  /\ l \in [Rows -> {Unset} \cup 0 .. nn - kk]
  /\ \A x \in DOMAIN reg : reg[x] \in IndexForm
  /\ \A x \in DOMAIN z : z[x] \in IndexForm
  /\ \A x \in DOMAIN root : root[x] \in 1 .. nn
  /\ decodeRound \in 1 .. nn + 1
  /\ result \in -1 .. 3

NoSyndromes == [x \in 1 .. nn - kk |-> Unset]
NoRows == [row \in Rows |-> [x \in 0 .. Behind |-> Unset]]
NoDiscrepancies == [x \in 0 .. nn - kk |-> Unset]
NoDegrees == [row \in Rows |-> Unset]

DecodeInit ==
  /\ decodePc = "done"
  /\ recd = [x \in 0 .. nn - 1 |-> 0]
  /\ received = recd
  /\ synd = NoSyndromes /\ u = 0 /\ elp = NoRows /\ d = NoDiscrepancies /\ l = NoDegrees
  /\ reg = <<>> /\ root = <<>> /\ z = <<>> /\ decodeRound = 1
  /\ result = -1

-----------------------------------------------------------------------------
\* (Definitions named Mut... are the errors in the code that the properties must find.)

\* recd[] converted back: the first step of every way out.
PolyOf(word) == [x \in 0 .. nn - 1 |-> Poly(word[x])]

Finish(code) ==
  /\ result' = code
  /\ decodePc' = "done"

\* The call; the locals are new.
DecodeCall(word) ==
  /\ decodePc = "done"
  /\ decodePc' = "call"
  /\ recd' = word
  /\ received' = word
  /\ synd' = NoSyndromes /\ u' = 0 /\ elp' = NoRows /\ d' = NoDiscrepancies /\ l' = NoDegrees
  /\ reg' = <<>> /\ root' = <<>> /\ z' = <<>> /\ decodeRound' = 1
  /\ result' = -1

ToIndexForm ==
  /\ decodePc = "call"
  /\ recd' = [x \in 0 .. nn - 1 |-> IndexOf[recd[x]]]
  /\ u' = 1
  /\ decodePc' = "syndromes"
  /\ UNCHANGED <<received, synd, elp, d, l, correctionVars, result>>

\* synd[u], the received word at alpha^(u-1).
Syndrome ==
  /\ decodePc = "syndromes"
  /\ u <= nn - kk
  /\ synd' = [synd EXCEPT ![u] =
             IndexOf[XorOf([x \in 0 .. nn - 1 |-> Times(recd[x], (u - 1) * x)])]]
  /\ u' = u + 1
  /\ UNCHANGED <<decodePc, received, recd, elp, d, l, correctionVars, result>>

SynError == \E x \in 1 .. nn - kk : synd[x] # -1

\* No syndrome is non-zero: the word is a codeword.
NoErrors ==
  /\ decodePc = "syndromes"
  /\ u > nn - kk
  /\ ~SynError
  /\ recd' = PolyOf(recd)
  /\ Finish(0)
  /\ UNCHANGED <<received, synd, berlekampVars, correctionVars>>

\* The entries for steps -1 and 0, and u = 1.
StartBerlekamp ==
  /\ decodePc = "syndromes"
  /\ u > nn - kk
  /\ SynError
  /\ d' = [d EXCEPT ![0] = 0, ![1] = synd[1]]
  /\ elp' = [elp EXCEPT
               ![0] = [x \in 0 .. Behind |-> CASE x = 0 -> 0 [] x = Behind -> @[x] [] OTHER -> -1],
               ![1] = [x \in 0 .. Behind |-> CASE x = 0 -> 1 [] x = Behind -> @[x] [] OTHER -> 0]]
  /\ l' = [l EXCEPT ![0] = 0, ![1] = 0]
  /\ u' = 1
  /\ decodePc' = "berlekamp"
  /\ UNCHANGED <<received, recd, synd, correctionVars, result>>

-----------------------------------------------------------------------------
\* Row u of elp in index form, up to its degree.
RowToIndex(row, degree) == [x \in 0 .. Behind |-> IF x <= degree THEN IndexOf[row[x]] ELSE row[x]]

\* u_lu[q], step number less degree.
Lead(q) == q - 1 - l[q]

\* The latest step with a non-zero discrepancy, whatever its lead.
MutBest(step) ==
  CHOOSE q \in 0 .. step - 1 : d[q] # -1 /\ \A x \in 0 .. step - 1 : d[x] # -1 => x <= q

\* The first one: the search with its comparison turned round.
MutFirst(step) == CHOOSE q \in 0 .. step - 1 : \A x \in 0 .. step - 1 : q <= x

\* The earlier step with a non-zero discrepancy and the greatest lead, the latest of them.
Best(step) ==
  CHOOSE q \in 0 .. step - 1 :
    /\ d[q] # -1
    /\ \A x \in 0 .. step - 1 :
         d[x] # -1 => Lead(x) < Lead(q) \/ (Lead(x) = Lead(q) /\ x <= q)

\* The discrepancy of step q not divided out.
MutCorrected(q) ==
  [x \in 0 .. Behind |->
     LET from == x - (u - q)
         term == IF from \in 0 .. l[q] /\ elp[q][from] # -1
                 THEN AlphaTo[(d[u] + elp[q][from]) % nn]
                 ELSE IF x = Behind THEN elp[u + 1][x] ELSE 0
     IN  IF x <= l[u] THEN term ^^ elp[u][x] ELSE term]

\* elp[u] plus elp[q] shifted and scaled so that the discrepancy cancels.
Corrected(q) ==
  [x \in 0 .. Behind |->
     LET from == x - (u - q)
         term == IF from \in 0 .. l[q] /\ elp[q][from] # -1
                 THEN AlphaTo[(d[u] + nn - d[q] + elp[q][from]) % nn]
                 ELSE IF x = Behind THEN elp[u + 1][x] ELSE 0
     IN  IF x <= l[u] THEN term ^^ elp[u][x] ELSE term]

\* The (u+1)th discrepancy of polynomial row with its degree, in index form.
Discrepancy(row, degree) ==
  IndexOf[XorOf([x \in 0 .. degree |->
                   IF x = 0 THEN Poly(synd[u + 1])
                   ELSE IF row[x] = 0 THEN 0 ELSE Times(synd[u + 1 - x], IndexOf[row[x]])])]

\* The end of an iteration: the loop goes on while it can still correct.
Iterated(row, degree) ==
  /\ elp' = [elp EXCEPT ![u] = RowToIndex(elp[u], l[u]), ![u + 1] = row]
  /\ l' = [l EXCEPT ![u + 1] = degree]
  /\ d' = IF u < nn - kk THEN [d EXCEPT ![u + 1] = Discrepancy(row, degree)] ELSE d
  /\ u' = u + 1
  /\ UNCHANGED <<decodePc, received, recd, synd, correctionVars, result>>

InBerlekamp ==
  /\ decodePc = "berlekamp"
  /\ u <= nn - kk
  /\ u = 1 \/ l[u] <= tt

\* The discrepancy is zero: the polynomial stays.
KeepPolynomial ==
  /\ InBerlekamp
  /\ d[u] = -1
  /\ Iterated([x \in 0 .. Behind |-> IF x <= l[u] THEN elp[u][x] ELSE elp[u + 1][x]], l[u])

NewPolynomial ==
  /\ InBerlekamp
  /\ d[u] # -1
  /\ \E q \in {Best(u)} :
       Iterated(Corrected(q), IF l[u] > l[q] + u - q THEN l[u] ELSE l[q] + u - q)

\* The loop is left; u was incremented once more by then.
BerlekampDone ==
  /\ decodePc = "berlekamp"
  /\ u > 1
  /\ u > nn - kk \/ l[u] > tt

\* The degree is above tt: the word is given back as it was.
TooManyErrors ==
  /\ BerlekampDone
  /\ l[u] > tt
  /\ recd' = PolyOf(recd)
  /\ Finish(3)
  /\ UNCHANGED <<received, synd, berlekampVars, correctionVars>>

StartRoots ==
  /\ BerlekampDone
  /\ l[u] <= tt
  /\ \E row \in {RowToIndex(elp[u], l[u])} :
       /\ elp' = [elp EXCEPT ![u] = row]
       /\ reg' = [x \in 1 .. l[u] |-> row[x]]
  /\ decodePc' = "roots"
  /\ UNCHANGED <<received, recd, synd, u, d, l, root, z, decodeRound, result>>

-----------------------------------------------------------------------------
\* reg[] after the candidate: term j has become elp[u][j] * alpha^(round * j).
Advanced == [x \in DOMAIN reg |-> IF reg[x] = -1 THEN -1 ELSE (reg[x] + x) % nn]

IsRoot(terms) == 1 ^^ XorOf([x \in DOMAIN terms |-> Poly(terms[x])]) = 0

\* The search goes on past alpha^nn and finds alpha^1 again.
MutCandidate ==
  /\ decodePc = "roots"
  /\ decodeRound <= nn + 1
  /\ reg' = Advanced
  /\ root' = IF IsRoot(Advanced) THEN Append(root, decodeRound) ELSE root
  /\ decodeRound' = decodeRound + 1
  /\ UNCHANGED <<decodePc, received, recd, synd, berlekampVars, z, result>>

\* Is alpha^round a root of the error location polynomial?
Candidate ==
  /\ decodePc = "roots"
  /\ decodeRound <= nn
  /\ reg' = Advanced
  /\ root' = IF IsRoot(Advanced) THEN Append(root, decodeRound) ELSE root
  /\ decodeRound' = decodeRound + 1
  /\ UNCHANGED <<decodePc, received, recd, synd, berlekampVars, z, result>>

\* A word that cannot be corrected, left in index form.
MutWrongCount ==
  /\ decodePc = "roots"
  /\ decodeRound > nn
  /\ Len(root) # l[u]
  /\ Finish(2)
  /\ UNCHANGED <<received, recd, synd, berlekampVars, correctionVars>>

\* The polynomial has fewer roots than its degree.
WrongCount ==
  /\ decodePc = "roots"
  /\ decodeRound > nn
  /\ Len(root) # l[u]
  /\ recd' = PolyOf(recd)
  /\ Finish(2)
  /\ UNCHANGED <<received, synd, berlekampVars, correctionVars>>

\* z(x), of which z[0] = 1 is not stored, and recd[] converted back.
FormZ ==
  /\ decodePc = "roots"
  /\ decodeRound > nn
  /\ Len(root) = l[u]
  /\ z' = [x \in 1 .. l[u] |->
             IndexOf[(Poly(synd[x]) ^^ Poly(elp[u][x]))
                       ^^ XorOf([y \in 1 .. x - 1 |-> Times(elp[u][x - y], synd[y])])]]
  /\ recd' = PolyOf(recd)
  /\ decodeRound' = 1
  /\ decodePc' = "values"
  /\ UNCHANGED <<received, synd, berlekampVars, reg, root, result>>

Loc(x) == nn - root[x]

\* The error value at Loc(round): z at the root, times alpha^(root*(b0+nn-1)) with
\* b0 = 0, over the product of 1 + loc[j] * root for the other locations.
Numerator == 1 ^^ XorOf([x \in DOMAIN z |-> Times(z[x], x * root[decodeRound])])

Denominator ==
  LET q[x \in 0 .. l[u]] ==
        IF x = 0 THEN 0
        ELSE IF x = decodeRound THEN q[x - 1]
        ELSE q[x - 1] + IndexOf[1 ^^ AlphaTo[(Loc(x) + root[decodeRound]) % nn]]
  IN  q[l[u]] % nn

\* Without the factor for the first root of the generator.
MutErrorValue ==
  IF Numerator = 0 THEN 0 ELSE AlphaTo[(IndexOf[Numerator] - Denominator + nn) % nn]

ErrorValue ==
  IF Numerator = 0 THEN 0
  ELSE LET err == (IndexOf[Numerator] + root[decodeRound] * (nn - 1)) % nn
       IN  AlphaTo[(err - Denominator + nn) % nn]

CorrectSymbol ==
  /\ decodePc = "values"
  /\ decodeRound <= l[u]
  /\ recd' = [recd EXCEPT ![Loc(decodeRound)] = @ ^^ ErrorValue]
  /\ decodeRound' = decodeRound + 1
  /\ UNCHANGED <<decodePc, received, synd, berlekampVars, reg, root, z, result>>

CorrectionDone ==
  /\ decodePc = "values"
  /\ decodeRound > l[u]
  /\ Finish(1)
  /\ UNCHANGED <<received, recd, synd, berlekampVars, correctionVars>>

DecodeStep ==
  \/ ToIndexForm
  \/ Syndrome
  \/ NoErrors
  \/ StartBerlekamp
  \/ KeepPolynomial
  \/ NewPolynomial
  \/ TooManyErrors
  \/ StartRoots
  \/ Candidate
  \/ WrongCount
  \/ FormZ
  \/ CorrectSymbol
  \/ CorrectionDone

-----------------------------------------------------------------------------
\* Berlekamp's invariant: between two iterations the newest polynomial generates the
\* syndromes before synd[u] (Newton's identities), so a minimal one locates the errors.
KeyEquation ==
  decodePc = "berlekamp" =>
    \A y \in l[u] + 1 .. u - 1 :
      XorOf([x \in 0 .. l[u] |-> Times(IndexOf[elp[u][x]], synd[y - x])]) = 0

\* root[] and loc[] have room for tt entries: the search stores no more.
RootsInBounds == Len(root) <= tt

\* No iteration writes a coefficient behind the nn-kk cells of its row.
ElpInBounds == \A row \in Rows : elp[row][Behind] = Unset
=============================================================================
