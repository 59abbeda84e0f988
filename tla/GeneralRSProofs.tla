-------------------------- MODULE GeneralRSProofs --------------------------
(***************************************************************************)
(* The executable specification, for every width, polynomial, number of    *)
(* errors and whatever rand() gives: generate_gf and gen_poly against the  *)
(* tables of the field and the generator (TablesInv), encode_rs,           *)
(* assignment by assignment, against the register of the reference (IInv), *)
(* and main, with the proof of decode_rs in RSDecodeProofs: what was       *)
(* encoded comes back (ProgramInv).                                        *)
(***************************************************************************)
EXTENDS GeneralRS, RSDecodeProofs

-----------------------------------------------------------------------------
(* Shifts and comparisons *)

\* << 1 doubles the number, and a bit that comes in adds one.
LEMMA NumberShifted ==
  ASSUME NEW a \in Symbol, NEW c, c \subseteq 0 .. mm,
         \A b \in 0 .. mm - 1 : b + 1 \in c <=> b \in a
  PROVE  Number(a) \in Nat /\ Number(c) = 2 * Number(a) + (IF 0 \in c THEN 1 ELSE 0)
<1>0. mm \in Nat /\ mm - 1 \in Nat /\ a \subseteq 0 .. mm - 1 /\ a \subseteq 0 .. mm /\ mm \notin a
  BY Widths DEF Symbol
<1>1. PICK s : Digits(a, s) /\ Number(a) = s[0]
  BY <1>0, NumberIs
<1>2. PICK t : Digits(c, t) /\ Number(c) = t[0]
  BY NumberIs
<1>3. /\ s \in [0 .. mm + 1 -> Nat] /\ s[mm + 1] = 0
      /\ \A b \in 0 .. mm : s[b] = 2 * s[b + 1] + (IF b \in a THEN 1 ELSE 0)
  BY <1>1 DEF Digits
<1>4. /\ t \in [0 .. mm + 1 -> Nat] /\ t[mm + 1] = 0
      /\ \A b \in 0 .. mm : t[b] = 2 * t[b + 1] + (IF b \in c THEN 1 ELSE 0)
  BY <1>2 DEF Digits
<1> DEFINE P == { b \in 0 .. mm : t[b + 1] = s[b] }
<1>5. mm \in P
  <2>1. s[mm] = 0
    BY <1>0, <1>3
  <2> QED
    BY <1>0, <1>4, <2>1
<1>6. ASSUME NEW b \in 0 .. mm - 1, b + 1 \in P PROVE b \in P
  <2>1. b \in 0 .. mm /\ b + 1 \in 0 .. mm /\ t[(b + 1) + 1] = s[b + 1]
    BY <1>0, <1>6
  <2>2. t[b + 1] = 2 * t[(b + 1) + 1] + (IF b + 1 \in c THEN 1 ELSE 0)
    BY <1>4, <2>1
  <2>3. s[b] = 2 * s[b + 1] + (IF b \in a THEN 1 ELSE 0)
    BY <1>3, <2>1
  <2>4. t[b + 1] = s[b]
    BY <2>1, <2>2, <2>3
  <2> QED
    BY <2>1, <2>4
<1> HIDE DEF P
<1>7. 0 \in P
  BY <1>0, <1>5, <1>6, Downward
<1>8. t[0 + 1] = s[0] /\ 0 \in 0 .. mm /\ s[0] \in Nat
  BY <1>0, <1>3, <1>7 DEF P
<1>9. t[0] = 2 * t[0 + 1] + (IF 0 \in c THEN 1 ELSE 0)
  BY <1>4, <1>8
<1> QED
  BY <1>1, <1>2, <1>8, <1>9

\* A number without the bit k and those above is below the one of that bit.
LEMMA NumberBelow ==
  ASSUME NEW k \in 0 .. mm, NEW a, a \subseteq 0 .. k - 1
  PROVE  Number(a) < Number({k}) /\ Number(a) \in Nat /\ Number({k}) \in Nat
<1>0. mm \in Nat /\ mm + 1 \in Nat /\ k \in Nat /\ a \subseteq 0 .. mm /\ {k} \subseteq 0 .. mm /\ k \in 0 .. mm + 1
  BY Widths
<1>1. PICK s : Digits(a, s) /\ Number(a) = s[0]
  BY <1>0, NumberIs
<1>2. PICK t : Digits({k}, t) /\ Number({k}) = t[0]
  BY <1>0, NumberIs
<1>3. /\ s \in [0 .. mm + 1 -> Nat] /\ s[mm + 1] = 0
      /\ \A b \in 0 .. mm : s[b] = 2 * s[b + 1] + (IF b \in a THEN 1 ELSE 0)
  BY <1>1 DEF Digits
<1>4. /\ t \in [0 .. mm + 1 -> Nat] /\ t[mm + 1] = 0
      /\ \A b \in 0 .. mm : t[b] = 2 * t[b + 1] + (IF b \in {k} THEN 1 ELSE 0)
  BY <1>2 DEF Digits
<1> DEFINE P == { b \in 0 .. mm + 1 : b >= k => s[b] = 0 }
           Q == { b \in 0 .. k : s[b] < t[b] }
<1>5. mm + 1 \in P
  BY <1>0, <1>3
<1>6. ASSUME NEW b \in 0 .. (mm + 1) - 1, b + 1 \in P PROVE b \in P
  <2> SUFFICES ASSUME b >= k PROVE s[b] = 0
    BY <1>0
  <2>1. b \in 0 .. mm /\ b + 1 >= k /\ b \notin a
    BY <1>0
  <2>2. s[b + 1] = 0
    BY <1>6, <2>1
  <2> QED
    BY <1>3, <2>1, <2>2
<1>7. s[k] = 0
  <2> HIDE DEF P
  <2>1. \A b \in 0 .. mm + 1 : b \in P
    BY <1>0, <1>5, <1>6, Downward
  <2>2. k \in P
    BY <1>0, <2>1
  <2> QED
    BY <1>0, <2>2 DEF P
<1>8. k \in Q
  <2>1. t[k] = 2 * t[k + 1] + 1 /\ t[k + 1] \in Nat
    BY <1>0, <1>4
  <2> QED
    BY <1>0, <1>7, <2>1
<1>9. ASSUME NEW b \in 0 .. k - 1, b + 1 \in Q PROVE b \in Q
  <2>1. b \in 0 .. mm /\ b + 1 \in 0 .. mm + 1 /\ b \in 0 .. k
    BY <1>0
  <2>2. PICK x \in Nat, y \in Nat : x = s[b + 1] /\ y = t[b + 1] /\ x < y
    BY <1>3, <1>4, <1>9, <2>1
  <2>3. s[b] = 2 * x + (IF b \in a THEN 1 ELSE 0) /\ t[b] = 2 * y + (IF b \in {k} THEN 1 ELSE 0)
    BY <1>3, <1>4, <2>1, <2>2
  <2>4. s[b] < t[b]
    BY <2>2, <2>3
  <2> QED
    BY <2>1, <2>4
<1> HIDE DEF P, Q
<1>10. 0 \in Q
  <2>1. \A b \in 0 .. k : b \in Q
    BY <1>0, <1>8, <1>9, Downward
  <2> QED
    BY <1>0, <2>1
<1>11. s[0] < t[0] /\ s[0] \in Nat /\ t[0] \in Nat
  BY <1>0, <1>3, <1>4, <1>10 DEF Q
<1> QED
  BY <1>1, <1>2, <1>11

\* mask is a single bit, which << 1 and >> 1 move.
LEMMA MaskIs ==
  /\ Number({0}) = 1
  /\ \A b \in 0 .. mm - 1 : /\ Number({b}) \in PolyForm /\ Bits(Number({b})) = {b}
                            /\ Number({b + 1}) = 2 * Number({b})
<1>0. mm \in Nat /\ mm - 1 \in Nat
  BY Widths
<1>1. Number({0}) = 1
  <2>1. {} \in Symbol /\ {0} \subseteq 0 .. mm /\ \A b \in 0 .. mm - 1 : b + 1 \in {0} <=> b \in {}
    BY <1>0, Widths
  <2>2. Number({0}) = 2 * Number({}) + 1
    BY <2>1, NumberShifted
  <2> QED
    BY <2>2, BitsZero
<1>2. ASSUME NEW b \in 0 .. mm - 1
      PROVE  Number({b}) \in PolyForm /\ Bits(Number({b})) = {b} /\ Number({b + 1}) = 2 * Number({b})
  <2>1. {b} \in Symbol /\ {b + 1} \subseteq 0 .. mm /\ 0 \notin {b + 1}
    BY <1>0 DEF Symbol
  <2>2. \A x \in 0 .. mm - 1 : x + 1 \in {b + 1} <=> x \in {b}
    BY <1>0
  <2>3. Number({b + 1}) = 2 * Number({b}) + 0 /\ Number({b}) \in Nat
    BY <2>1, <2>2, NumberShifted
  <2>4. Number({b + 1}) = 2 * Number({b})
    BY <2>3
  <2>5. Number({b}) \in PolyForm /\ Bits(Number({b})) = {b}
    BY <2>1, NumberType
  <2> QED
    BY <2>4, <2>5
<1> QED
  BY <1>1, <1>2

\* There are more symbols than bits in one.
LEMMA Wide == mm + 1 <= nn
<1>0. mm \in Nat /\ mm >= 2 /\ mm - 1 \in 0 .. mm - 1 /\ mm - 2 \in 0 .. mm - 1 /\ mm - 2 \in Nat
  BY FieldAssumption
<1> DEFINE T == { b \in Nat : b \in 0 .. mm - 1 => Number({b}) >= b + 1 }
<1>1. 0 \in T
  BY MaskIs
<1>2. ASSUME NEW b \in Nat, b \in T PROVE b + 1 \in T
  <2> SUFFICES ASSUME b + 1 \in 0 .. mm - 1 PROVE Number({b + 1}) >= (b + 1) + 1
    OBVIOUS
  <2>1. b \in 0 .. mm - 1
    BY <1>0
  <2>2. Number({b + 1}) = 2 * Number({b}) /\ Number({b}) \in Int /\ Number({b}) >= b + 1
    BY <1>2, <2>1, MaskIs, Widths DEF PolyForm
  <2> QED
    BY <2>2
<1> HIDE DEF T
<1>3. Nat \subseteq T
  BY <1>1, <1>2, NatSetInduction
<1>4. Number({mm - 2}) >= mm - 1 /\ Number({mm - 2}) \in Nat
  <2>1. Number({mm - 2}) >= (mm - 2) + 1
    BY <1>0, <1>3 DEF T
  <2>2. {mm - 2} \in Symbol
    BY <1>0 DEF Symbol
  <2> QED
    BY <1>0, <2>1, <2>2, NumberType
<1>5. PICK c : c = {0, mm - 1}
  OBVIOUS
<1>6. Number(c) = 2 * Number({mm - 2}) + 1
  <2>1. {mm - 2} \in Symbol /\ c \subseteq 0 .. mm /\ 0 \in c
    BY <1>0, <1>5 DEF Symbol
  <2>2. \A b \in 0 .. mm - 1 : b + 1 \in c <=> b \in {mm - 2}
    BY <1>0, <1>5
  <2> QED
    BY <2>1, <2>2, NumberShifted
<1>7. Number(c) <= nn
  <2>1. c \in Symbol
    BY <1>0, <1>5 DEF Symbol
  <2> QED
    BY <2>1, NumberType, Widths DEF PolyForm
<1> QED
  BY <1>0, <1>4, <1>6, <1>7, Widths

\* The tables: alpha^i for i below nn, all different and none zero.
LEMMA PowersAre ==
  /\ \A i \in 0 .. nn - 1 :
       /\ AlphaTo[i] = Number(Raised(One, i)) /\ AlphaTo[i] \in PolyForm /\ AlphaTo[i] # 0
       /\ Bits(AlphaTo[i]) = Raised(One, i) /\ IndexOf[AlphaTo[i]] = i
  /\ \A i, k \in 0 .. nn - 1 : AlphaTo[i] = AlphaTo[k] => i = k
<1>1. ASSUME NEW i \in 0 .. nn - 1
      PROVE  /\ AlphaTo[i] = Number(Raised(One, i)) /\ AlphaTo[i] \in PolyForm /\ AlphaTo[i] # 0
             /\ Bits(AlphaTo[i]) = Raised(One, i) /\ IndexOf[AlphaTo[i]] = i
  <2>1. Power[i] = Raised(One, i) /\ Power[i] \in Symbol /\ Power[i] # {}
    BY PowerIs, PrimitiveAssumption DEF NoBit
  <2>2. AlphaTo[i] \in PolyForm /\ Bits(AlphaTo[i]) = Power[i]
    BY AlphaToIs
  <2>3. AlphaTo[i] = Number(Power[i])
    BY DEF AlphaTo
  <2>4. AlphaTo[i] # 0
    BY <2>1, <2>2, BitsZero
  <2>5. IndexOf[AlphaTo[i]] = Log[Power[i]]
    BY <2>2 DEF IndexOf
  <2>6. Log[Power[i]] \in 0 .. nn - 1 /\ Power[Log[Power[i]]] = Power[i]
    BY <2>1, LogFacts
  <2>7. Log[Power[i]] = i
    BY <2>6, PowerInjective
  <2> QED
    BY <2>1, <2>2, <2>3, <2>4, <2>5, <2>7
<1>2. ASSUME NEW i \in 0 .. nn - 1, NEW k \in 0 .. nn - 1, AlphaTo[i] = AlphaTo[k] PROVE i = k
  <2>1. IndexOf[AlphaTo[i]] = i /\ IndexOf[AlphaTo[k]] = k
    BY <1>1
  <2> QED
    BY <1>2, <2>1
<1> QED
  BY <1>1, <1>2

\* alpha * a, as the program computes it: the bit that is shifted out stands for alpha^mm.
LEMMA TimesAlphaInts ==
  ASSUME NEW a \in Symbol
  PROVE  Number(TimesAlpha(a)) =
           IF Number(a) >= Number({mm - 1})
           THEN Number(pp \ {mm}) ^^ (2 * (Number(a) ^^ Number({mm - 1})))
           ELSE 2 * Number(a)
<1>0. mm \in Nat /\ mm - 1 \in Nat /\ mm - 1 \in 0 .. mm - 1 /\ mm - 1 \in 0 .. mm /\ a \subseteq 0 .. mm - 1
  BY Widths DEF Symbol
<1>1. PICK last \in Nat : last = Number(a) /\ last \in PolyForm /\ Bits(last) = a
  BY NumberType
<1>2. PICK bit \in Nat : bit = Number({mm - 1}) /\ bit \in PolyForm /\ Bits(bit) = {mm - 1}
  <2>1. Number({mm - 1}) \in PolyForm /\ Bits(Number({mm - 1})) = {mm - 1}
    BY <1>0, MaskIs
  <2>2. Number({mm - 1}) \in Nat
    BY <2>1, Widths DEF PolyForm
  <2> QED
    BY <2>1, <2>2
<1>3. CASE mm - 1 \in a
  <2>1. last >= bit
    <3>1. {mm - 1} \subseteq a /\ a \subseteq 0 .. mm
      BY <1>0, <1>3
    <3> QED
      BY <1>1, <1>2, <3>1, NumberMonotone
  <2>2. last ^^ bit = Number(a \ {mm - 1})
    <3>1. Xor(a, {mm - 1}) = a \ {mm - 1}
      BY <1>3 DEF Xor, SymDiff
    <3> QED
      BY <1>1, <1>2, <3>1 DEF ^^
  <2>3. /\ ShiftLeft(a \ {mm - 1}) \in Symbol /\ a \ {mm - 1} \in Symbol
        /\ ShiftLeft(a \ {mm - 1}) \subseteq 0 .. mm /\ 0 \notin ShiftLeft(a \ {mm - 1})
        /\ \A b \in 0 .. mm - 1 : b + 1 \in ShiftLeft(a \ {mm - 1}) <=> b \in a \ {mm - 1}
    BY <1>0 DEF ShiftLeft, Symbol
  <2>4. Number(ShiftLeft(a \ {mm - 1})) = 2 * Number(a \ {mm - 1})
    <3>1. PICK e, c : /\ e \in Symbol /\ e = a \ {mm - 1} /\ c = ShiftLeft(a \ {mm - 1}) /\ c \subseteq 0 .. mm
                     /\ 0 \notin c /\ \A b \in 0 .. mm - 1 : b + 1 \in c <=> b \in e
      BY <2>3
    <3>2. Number(c) = 2 * Number(e) + (IF 0 \in c THEN 1 ELSE 0) /\ Number(e) \in Nat
      <4>1. e \in Symbol /\ c \subseteq 0 .. mm /\ \A b \in 0 .. mm - 1 : b + 1 \in c <=> b \in e
        BY <3>1
      <4> QED
        BY <4>1, NumberShifted
    <3>3. Number(c) = 2 * Number(e)
      BY <3>1, <3>2
    <3> QED
      BY <3>1, <3>3
  <2>5. PICK low : low = pp \ {mm} /\ low \in Symbol
    <3>1. pp \ {mm} \subseteq 0 .. mm - 1
      BY <1>0, FieldAssumption
    <3> QED
      BY <3>1 DEF Symbol
  <2>6. Number(low) ^^ Number(ShiftLeft(a \ {mm - 1})) = Number(Xor(low, ShiftLeft(a \ {mm - 1})))
    BY <2>3, <2>5, NumberType DEF ^^
  <2>7. TimesAlpha(a) = Xor(low, ShiftLeft(a \ {mm - 1}))
    BY <1>3, <2>5 DEF TimesAlpha, Xor, SymDiff
  <2>8. Number(TimesAlpha(a)) = Number(low) ^^ (2 * Number(a \ {mm - 1}))
    BY <2>4, <2>6, <2>7
  <2>9. Number(a) >= Number({mm - 1})
    BY <1>1, <1>2, <2>1
  <2>10. Number(TimesAlpha(a)) = Number(pp \ {mm}) ^^ (2 * (Number(a) ^^ Number({mm - 1})))
    BY Zenon, <1>1, <1>2, <2>2, <2>5, <2>8
  <2> QED
    BY <2>9, <2>10
<1>4. CASE mm - 1 \notin a
  <2>1. ~(last >= bit)
    <3>1. a \subseteq 0 .. (mm - 1) - 1
      BY <1>0, <1>4
    <3>2. Number(a) < Number({mm - 1})
      BY <1>0, <3>1, NumberBelow
    <3> QED
      BY <1>1, <1>2, <3>2
  <2>2. /\ ShiftLeft(a) \subseteq 0 .. mm /\ 0 \notin ShiftLeft(a)
        /\ \A b \in 0 .. mm - 1 : b + 1 \in ShiftLeft(a) <=> b \in a
    BY <1>0 DEF ShiftLeft
  <2>3. Number(ShiftLeft(a)) = 2 * Number(a)
    <3>1. Number(ShiftLeft(a)) = 2 * Number(a) + 0 /\ Number(a) \in Nat
      BY <2>2, NumberShifted
    <3> QED
      BY <3>1
  <2>4. TimesAlpha(a) = ShiftLeft(a)
    BY <1>4 DEF TimesAlpha
  <2>5. ~(Number(a) >= Number({mm - 1})) /\ Number(TimesAlpha(a)) = 2 * Number(a)
    BY <1>1, <1>2, <2>1, <2>3, <2>4
  <2> QED
    BY <2>5
<1> QED
  BY <1>3, <1>4

\* alpha^mm is the lower terms of pp.
LEMMA AlphaToMM == Raised(One, mm) = pp \ {mm}
<1>1. mm - 1 \in 0 .. mm - 1 /\ (mm - 1) + 1 = mm /\ mm - 1 \in Nat
  BY Widths
<1>2. Raised(One, mm) = TimesAlpha({mm - 1})
  <2>1. Raised(One, (mm - 1) + 1) = TimesAlpha(Raised(One, mm - 1))
    BY <1>1, RaisedFacts, Widths
  <2> QED
    BY <1>1, <2>1, OneRaised
<1>3. ShiftLeft({mm - 1} \ {mm - 1}) = {}
  BY DEF ShiftLeft
<1> QED
  BY <1>2, <1>3, XorZero DEF TimesAlpha

\* alpha_to[gg[x]] is the coefficient of the generator.
LEMMA CoefficientIs ==
  ASSUME NEW x \in 0 .. nn - kk
  PROVE  /\ GG[x] \in 0 .. nn - 1 /\ Bits(AlphaTo[GG[x]]) = Generator[x]
         /\ Generator[x] \in Symbol
<1>1. Generator[x] \in Symbol
  BY GeneratorFacts DEF Polynomial, Degree
<1>2. Generator[x] # {}
  BY GeneratorNonZero DEF NoBit
<1>3. Log[Generator[x]] \in 0 .. nn - 1 /\ Power[Log[Generator[x]]] = Generator[x]
  BY <1>1, <1>2, LogFacts
<1>4. GG[x] = Log[Generator[x]]
  BY DEF GG
<1> QED
  BY <1>1, <1>3, <1>4, AlphaToIs

-----------------------------------------------------------------------------
(* The tables, round by round *)

\* The first n powers and their logarithms are in their cells.
Written(n, alpha, index) ==
  \A x \in 0 .. n - 1 : alpha[x] = AlphaTo[x] /\ index[AlphaTo[x]] = x

\* The polynomials gen_poly makes of one.
Products == CHOOSE p : IsProduct(p) /\ Generator = p[Degree]

\* The loop variables of gen_poly's multiplications; j is done from the top.
LEMMA ProductsAre ==
  /\ IsProduct(Products) /\ Generator = Products[Degree]
  /\ \A n \in 0 .. Degree : MonicWithRoots(Products[n], n)
  /\ \A n \in 0 .. Degree, x \in 0 .. Degree :
       /\ Products[n][x] \in Symbol /\ Number(Products[n][x]) \in PolyForm
       /\ Bits(Number(Products[n][x])) = Products[n][x]
<1>1. IsProduct(Products) /\ Generator = Products[Degree]
  BY GeneratorIs DEF Products
<1>2. \A n \in 0 .. Degree : MonicWithRoots(Products[n], n)
  BY <1>1, ProductRoots
<1>3. \A n \in 0 .. Degree, x \in 0 .. Degree : Products[n][x] \in Symbol
  BY <1>1 DEF IsProduct, Polynomial
<1> QED
  BY <1>1, <1>2, <1>3, NumberType

\* One power more.
LEMMA WrittenStep ==
  ASSUME NEW n \in 0 .. nn - 1, NEW S, NEW f, NEW g \in [0 .. nn -> S], NEW alpha, NEW index,
         Written(n, f, g), alpha[n] = AlphaTo[n], \A x \in 0 .. n - 1 : alpha[x] = f[x],
         index = [g EXCEPT ![AlphaTo[n]] = n]
  PROVE  Written(n + 1, alpha, index)
<1> SUFFICES ASSUME NEW x \in 0 .. n PROVE alpha[x] = AlphaTo[x] /\ index[AlphaTo[x]] = x
  BY Widths DEF Written
<1>1. n \in Nat /\ nn \in Nat /\ x \in 0 .. nn - 1
  BY Widths
<1>2. AlphaTo[n] \in 0 .. nn /\ AlphaTo[x] \in 0 .. nn /\ (x # n => AlphaTo[x] # AlphaTo[n])
  BY <1>1, PowersAre DEF PolyForm
<1>3. CASE x = n
  BY <1>2, <1>3
<1>4. CASE x # n
  <2>1. x \in 0 .. n - 1
    BY <1>1, <1>4
  <2>2. alpha[x] = AlphaTo[x] /\ g[AlphaTo[x]] = x
    BY <2>1 DEF Written
  <2>3. index[AlphaTo[x]] = g[AlphaTo[x]]
    BY <1>2, <1>4
  <2> QED
    BY <2>2, <2>3
<1> QED
  BY <1>3, <1>4

\* The index table is complete with the cell of zero.
LEMMA WrittenAll ==
  ASSUME NEW S, NEW f, NEW g \in [0 .. nn -> S], Written(nn, f, g), NEW index,
         index = [g EXCEPT ![0] = -1]
  PROVE  index = IndexOf
<1>1. ASSUME NEW n \in 0 .. nn PROVE index[n] = IndexOf[n]
  <2>1. CASE n = 0
    <3>1. IndexOf[0] = Log[{}]
      <4>1. 0 \in PolyForm
        BY Widths DEF PolyForm
      <4>2. IndexOf[0] = Log[Bits(0)]
        BY <4>1 DEF IndexOf
      <4> QED
        BY <4>2, BitsZero
    <3> QED
      BY <2>1, <3>1, LogFacts, Widths
  <2>2. CASE n # 0
    <3>1. n \in PolyForm /\ Bits(n) \in Symbol /\ Number(Bits(n)) = n
      BY BitsType DEF PolyForm
    <3>2. Bits(n) # {}
      BY <2>2, <3>1, BitsZero
    <3>3. PICK x \in 0 .. nn - 1 : x = Log[Bits(n)] /\ Power[x] = Bits(n)
      BY <3>1, <3>2, LogFacts
    <3>4. AlphaTo[x] = n /\ IndexOf[n] = x
      BY <3>1, <3>3 DEF AlphaTo, IndexOf
    <3>5. g[n] = x
      BY <3>4 DEF Written
    <3>6. index[n] = g[n]
      BY <2>2
    <3> QED
      BY <3>4, <3>5, <3>6
  <2> QED
    BY <2>1, <2>2
<1>2. index = [n \in 0 .. nn |-> index[n]]
  OBVIOUS
<1>3. IndexOf = [n \in 0 .. nn |-> IndexOf[n]]
  BY DEF IndexOf, PolyForm
<1> HIDE DEF IndexOf
<1> QED
  BY <1>1, <1>2, <1>3

\* What the terms of a multiplication are, on the ints.
LEMMA TermInts ==
  ASSUME NEW n \in 0 .. Degree - 1, NEW x \in 0 .. Degree, NEW a, a = Number(Products[n][x])
  PROVE  /\ x # 0 =>
              Number(Products[n + 1][x]) =
                IF a # 0 THEN Number(Products[n][x - 1]) ^^ AlphaTo[(IndexOf[a] + n) % nn]
                ELSE Number(Products[n][x - 1])
         /\ x = 0 => a # 0 /\ Number(Products[n + 1][0]) = AlphaTo[(IndexOf[a] + n) % nn]
<1>1. /\ Degree \in Nat /\ n \in Nat /\ n \in 0 .. Degree /\ n + 1 \in 0 .. Degree
      /\ 0 \in 0 .. Degree /\ (x # 0 => x - 1 \in 0 .. Degree)
  BY Widths DEF Degree
<1>2. a \in PolyForm /\ Bits(a) = Products[n][x] /\ Products[n][x] \in Symbol
  BY <1>1, ProductsAre
<1>3. Products[n + 1][x] = Xor(IF x = 0 THEN NoBit ELSE Products[n][x - 1], TimesPower(Products[n][x], n))
  <2>1. Products[n + 1] = Factor(Products[n], n)
    BY ProductsAre DEF IsProduct
  <2> QED
    BY <2>1 DEF Factor
<1>4. PICK t \in PolyForm : t = Times(IndexOf[a], n) /\ Bits(t) = TimesPower(Products[n][x], n)
  BY <1>1, <1>2, TimesIs
<1>5. a # 0 => t = AlphaTo[(IndexOf[a] + n) % nn]
  <2>1. IndexOf[a] = -1 => a = 0
    BY <1>2, IndexOfIs DEF Poly
  <2> QED
    BY <1>1, <1>4, <2>1, Widths DEF Times
<1>6. ASSUME a = 0 PROVE TimesPower(Products[n][x], n) = {}
  BY <1>2, <1>6, BitsZero DEF TimesPower, NoBit
<1>7. CASE x # 0
  <2>1. PICK c \in PolyForm : c = Number(Products[n][x - 1]) /\ Bits(c) = Products[n][x - 1]
    BY <1>1, <1>7, ProductsAre
  <2>2. Products[n + 1][x] = Xor(Bits(c), Bits(t))
    BY <1>3, <1>4, <1>7, <2>1
  <2>3. Number(Products[n + 1][x]) = c ^^ t
    BY <2>2 DEF ^^
  <2>4. a = 0 => Number(Products[n + 1][x]) = c
    <3>1. a = 0 => Products[n + 1][x] = Bits(c)
      BY <1>4, <1>6, <2>2, XorZero
    <3> QED
      BY <2>1, <3>1
  <2> QED
    BY <1>5, <1>7, <2>1, <2>3, <2>4
<1>8. CASE x = 0
  <2>1. a # 0
    <3>1. Products[n][0] # {}
      BY <1>1, ProductsAre DEF MonicWithRoots
    <3> QED
      BY <1>2, <1>8, <3>1, BitsZero
  <2>2. Products[n + 1][x] = Bits(t)
    BY <1>3, <1>4, <1>8, XorZero DEF NoBit
  <2>3. Number(Bits(t)) = t
    BY BitsType
  <2> QED
    BY <1>5, <1>8, <2>1, <2>2, <2>3
<1> QED
  BY <1>7, <1>8

\* While the powers below alpha^mm are written their bits are added up for it, ...
LowInv ==
  tabPc = "low" =>
    /\ tabRound \in 0 .. mm
    /\ mask = Number({tabRound})
    /\ Written(tabRound, alpha_to, index_of)
    /\ alpha_to[mm] = Number({ b \in pp : b < tabRound })

\* ... the others come each from the one before; ...
HighInv ==
  tabPc = "high" =>
    /\ tabRound \in mm + 1 .. nn
    /\ mask = Number({mm - 1})
    /\ Written(tabRound, alpha_to, index_of)
    /\ alpha_to[mm] = Number(pp \ {mm})

\* ... then all are there.
FieldInv ==
  tabPc \notin {"low", "high"} =>
    /\ \A x \in 0 .. nn - 1 : alpha_to[x] = AlphaTo[x]
    /\ index_of = IndexOf

\* gg[] between two factors, ...
FactorInv ==
  tabPc = "factor" =>
    /\ tabRound \in 2 .. Degree + 1
    /\ \A x \in 0 .. tabRound - 1 : gg[x] = Number(Products[tabRound - 1][x])

\* ... the terms above tabTerm multiplied and the others not, ...
TermsInv ==
  tabPc = "terms" =>
    /\ tabRound \in 2 .. Degree
    /\ tabTerm \in 0 .. tabRound - 1
    /\ \A x \in 0 .. tabTerm : gg[x] = Number(Products[tabRound - 1][x])
    /\ \A x \in tabTerm + 1 .. tabRound : gg[x] = Number(Products[tabRound][x])

\* ... those below tabRound in index form, and then all of them.
ConvertInv ==
  /\ tabPc = "convert" =>
       /\ tabRound \in 0 .. Degree
       /\ \A x \in 0 .. tabRound - 1 : gg[x] = GG[x]
       /\ \A x \in tabRound .. Degree : gg[x] = Number(Generator[x])
  /\ tabPc \in {"done", "idle"} => gg = GG

\* The invariant of generate_gf and gen_poly.
TablesInv ==
  /\ TablesTypeOK
  /\ LowInv
  /\ HighInv
  /\ FieldInv
  /\ FactorInv
  /\ TermsInv
  /\ ConvertInv

\* The types that every step of the two functions needs.
LEMMA TablesTypes ==
  /\ PolyForm \subseteq Cells /\ -1 \in Cells /\ \A i \in 0 .. nn - 1 : i \in Cells /\ i \in PolyForm
  /\ \A b \in 0 .. mm : Number({b}) \in { Number({x}) : x \in 0 .. mm }
  /\ Unset \in Cells /\ 0 \in PolyForm /\ 1 \in PolyForm /\ AlphaTo[0] = 1 /\ Number(One) = 1
<1>1. PolyForm \subseteq Cells /\ -1 \in Cells /\ Unset \in Cells
  BY Widths DEF Cells, IndexForm
<1>2. 0 \in PolyForm /\ 1 \in PolyForm /\ \A i \in 0 .. nn - 1 : i \in PolyForm
  BY Widths DEF PolyForm
<1>3. Number(One) = 1
  BY MaskIs DEF One
<1>4. AlphaTo[0] = 1
  <2>1. 0 \in 0 .. nn - 1 /\ Raised(One, 0) = One
    BY RaisedFacts, Widths
  <2> QED
    BY <1>3, <2>1, PowersAre
<1> QED
  BY <1>1, <1>2, <1>3, <1>4

\* They start empty.
LEMMA TablesInitInv == TablesInit => TablesInv
<1> SUFFICES ASSUME TablesInit PROVE TablesInv
  OBVIOUS
<1>0. /\ mm \in Nat /\ nn \in Nat /\ mm + 1 <= nn /\ Degree \in Nat /\ Degree = nn - kk
      /\ \A b \in pp : b \in Nat /\ b <= mm
  BY Wide, Widths, FieldAssumption DEF Degree
<1>1. /\ tabPc = "low" /\ tabRound = 0 /\ tabTerm = 0 /\ mask = 1
      /\ alpha_to = [x \in 0 .. nn |-> IF x = mm THEN 0 ELSE Unset]
      /\ index_of = [x \in 0 .. nn |-> Unset]
      /\ gg = [x \in 0 .. nn - kk |-> Unset]
  BY DEF TablesInit
<1>2. TablesTypeOK
  <2>1. mask \in { Number({b}) : b \in 0 .. mm }
    <3>1. 0 \in 0 .. mm /\ Number({0}) = 1
      BY <1>0, MaskIs
    <3> QED
      BY <1>1, <3>1
  <2>2. 0 \in Cells /\ Unset \in Cells
    BY TablesTypes
  <2>3. alpha_to \in [0 .. nn -> Cells] /\ index_of \in [0 .. nn -> Cells] /\ gg \in [0 .. nn - kk -> Cells]
    BY <1>1, <2>2
  <2>4. tabRound \in 0 .. nn /\ tabTerm \in 0 .. nn - kk
    BY <1>0, <1>1
  <2> QED
    BY <1>1, <2>1, <2>3, <2>4 DEF TablesTypeOK
<1>3. LowInv
  <2>1. tabRound \in 0 .. mm /\ mask = Number({tabRound})
    BY <1>0, <1>1, MaskIs
  <2>2. Written(tabRound, alpha_to, index_of)
    <3>1. 0 .. tabRound - 1 = {}
      BY <1>1
    <3> QED
      BY <3>1 DEF Written
  <2>3. { b \in pp : b < tabRound } = {}
    BY <1>0, <1>1
  <2>4. alpha_to[mm] = 0
    BY <1>0, <1>1
  <2> QED
    BY <2>1, <2>2, <2>3, <2>4, BitsZero DEF LowInv
<1> QED
  BY <1>1, <1>2, <1>3 DEF TablesInv, HighInv, FieldInv, FactorInv, TermsInv, ConvertInv

\* One power more, as a single bit.
LEMMA LowPowerStep ==
  ASSUME TablesInv, LowPower
  PROVE  TablesInv'
<1>0. /\ mm \in Nat /\ nn \in Nat /\ mm + 1 <= nn /\ Degree \in Nat /\ Degree = nn - kk
      /\ \A b \in pp : b \in Nat /\ b <= mm
  BY Wide, Widths, FieldAssumption DEF Degree
<1>1. PICK n \in Nat : n = tabRound /\ n \in 0 .. mm - 1 /\ n \in 0 .. nn - 1 /\ n \in 0 .. nn /\ n # mm
  BY <1>0 DEF TablesInv, TablesTypeOK, LowPower
<1>2. /\ tabPc = "low" /\ tabPc' = "low" /\ tabRound' = n + 1 /\ mask' = 2 * mask
      /\ alpha_to' = [alpha_to EXCEPT ![n] = mask, ![mm] = IF n \in pp THEN @ ^^ mask ELSE @]
      /\ index_of' = [index_of EXCEPT ![mask] = n]
      /\ tabTerm' = tabTerm /\ gg' = gg
  BY <1>1 DEF LowPower
<1>3. /\ tabTerm \in 0 .. nn - kk /\ alpha_to \in [0 .. nn -> Cells]
      /\ index_of \in [0 .. nn -> Cells] /\ gg \in [0 .. nn - kk -> Cells]
  BY DEF TablesInv, TablesTypeOK
<1>4. /\ mask = Number({n}) /\ Written(n, alpha_to, index_of)
      /\ alpha_to[mm] = Number({ b \in pp : b < n })
  BY <1>1, <1>2 DEF TablesInv, LowInv
<1>5. /\ mask \in PolyForm /\ Bits(mask) = {n} /\ mask = AlphaTo[n] /\ mask' = Number({n + 1})
  <2>1. mask \in PolyForm /\ Bits(mask) = {n} /\ Number({n + 1}) = 2 * mask
    BY <1>1, <1>4, MaskIs
  <2>2. mask = AlphaTo[n]
    BY <1>1, <1>4, OneRaised, PowersAre
  <2> QED
    BY <1>2, <2>1, <2>2
<1>6. PICK e \in Symbol : e = { b \in pp : b < n }
  <2>1. { b \in pp : b < n } \subseteq 0 .. mm - 1
    BY <1>0, <1>1
  <2> QED
    BY <2>1 DEF Symbol
<1>7. PICK c : /\ c = { b \in pp : b < n + 1 } /\ c \in Symbol
               /\ (n \in pp => c = Xor(e, {n})) /\ (n \notin pp => c = e)
  <2>1. { b \in pp : b < n + 1 } \subseteq 0 .. mm - 1
    BY <1>0, <1>1
  <2>2. n \in pp => { b \in pp : b < n + 1 } = Xor(e, {n})
    <3>1. /\ \A b \in pp : b < n + 1 <=> (b < n \/ b = n)
          /\ n \notin e
      BY <1>0, <1>1, <1>6
    <3>2. \A b : b \in e <=> b \in pp /\ b < n
      BY <1>6
    <3> QED
      BY <3>1, <3>2 DEF Xor, SymDiff
  <2>3. n \notin pp => { b \in pp : b < n + 1 } = e
    BY <1>0, <1>1, <1>6
  <2> QED
    BY <2>1, <2>2, <2>3 DEF Symbol
<1>8. PICK s \in PolyForm : s = (IF n \in pp THEN alpha_to[mm] ^^ mask ELSE alpha_to[mm]) /\ s = Number(c)
  <2>1. alpha_to[mm] \in PolyForm /\ Bits(alpha_to[mm]) = e /\ alpha_to[mm] = Number(e)
    BY <1>4, <1>6, NumberType
  <2>2. n \in pp => alpha_to[mm] ^^ mask = Number(c)
    BY <1>5, <1>7, <2>1 DEF ^^
  <2>3. n \notin pp => alpha_to[mm] = Number(c)
    BY <1>7, <2>1
  <2>4. Number(c) \in PolyForm
    BY <1>7, NumberType
  <2> QED
    BY <2>2, <2>3, <2>4
<1>9. alpha_to' = [alpha_to EXCEPT ![n] = mask, ![mm] = s]
  BY <1>0, <1>1, <1>2, <1>3, <1>8
<1>10. TablesTypeOK'
  <2>1. mask \in Cells /\ s \in Cells /\ n \in Cells
    BY <1>1, <1>5, <1>8, TablesTypes
  <2>2. alpha_to' \in [0 .. nn -> Cells] /\ index_of' \in [0 .. nn -> Cells]
    BY <1>2, <1>3, <1>9, <2>1
  <2>3. mask' \in { Number({b}) : b \in 0 .. mm }
    <3>1. n + 1 \in 0 .. mm
      BY <1>0, <1>1
    <3> QED
      BY <1>5, <3>1
  <2>4. tabRound' \in 0 .. nn
    BY <1>0, <1>1, <1>2
  <2> QED
    BY <1>2, <1>3, <2>2, <2>3, <2>4 DEF TablesTypeOK
<1>11. LowInv'
  <2>1. n + 1 \in 0 .. mm
    BY <1>0, <1>1
  <2>2. alpha_to'[n] = AlphaTo[n] /\ \A x \in 0 .. n - 1 : alpha_to'[x] = alpha_to[x]
    BY <1>0, <1>1, <1>3, <1>5, <1>9
  <2>3. Written(n + 1, alpha_to', index_of')
    BY <1>1, <1>2, <1>3, <1>4, <1>5, <2>2, WrittenStep
  <2>4. alpha_to'[mm] = Number({ b \in pp : b < n + 1 })
    BY <1>0, <1>3, <1>7, <1>8, <1>9
  <2> QED
    BY <1>2, <1>5, <2>1, <2>3, <2>4 DEF LowInv
<1> QED
  BY <1>2, <1>10, <1>11 DEF TablesInv, HighInv, FieldInv, FactorInv, TermsInv, ConvertInv

\* alpha^mm goes into its cell.
LEMMA LowPowersDoneStep ==
  ASSUME TablesInv, LowPowersDone
  PROVE  TablesInv'
<1>0. /\ mm \in Nat /\ nn \in Nat /\ mm + 1 <= nn /\ mm - 1 \in 0 .. mm - 1 /\ mm - 1 \in 0 .. mm
      /\ mm \in 0 .. nn - 1 /\ mm \in 0 .. nn /\ \A b \in pp : b \in Nat /\ b <= mm
  BY Wide, Widths, FieldAssumption
<1>1. /\ tabPc = "low" /\ tabRound = mm /\ tabPc' = "high" /\ tabRound' = mm + 1 /\ mask' = mask \div 2
      /\ index_of' = [index_of EXCEPT ![alpha_to[mm]] = mm]
      /\ tabTerm' = tabTerm /\ gg' = gg /\ alpha_to' = alpha_to
  BY DEF LowPowersDone
<1>2. /\ tabTerm \in 0 .. nn - kk /\ alpha_to \in [0 .. nn -> Cells]
      /\ index_of \in [0 .. nn -> Cells] /\ gg \in [0 .. nn - kk -> Cells]
  BY DEF TablesInv, TablesTypeOK
<1>3. /\ mask = Number({mm}) /\ Written(mm, alpha_to, index_of)
      /\ alpha_to[mm] = Number({ b \in pp : b < mm })
  BY <1>1 DEF TablesInv, LowInv
<1>4. mask' = Number({mm - 1})
  <2>1. Number({(mm - 1) + 1}) = 2 * Number({mm - 1}) /\ Number({mm - 1}) \in PolyForm
    BY <1>0, MaskIs
  <2>2. PICK t \in Nat : t = Number({mm - 1})
    BY <2>1, Widths DEF PolyForm
  <2>3. (mm - 1) + 1 = mm
    BY <1>0
  <2>4. mask = 2 * t
    BY <1>3, <2>1, <2>2, <2>3
  <2>5. (2 * t) \div 2 = t
    OBVIOUS
  <2> QED
    BY <1>1, <2>2, <2>4, <2>5
<1>5. alpha_to[mm] = Number(pp \ {mm}) /\ alpha_to[mm] = AlphaTo[mm]
  <2>1. { b \in pp : b < mm } = pp \ {mm}
    BY <1>0
  <2>2. AlphaTo[mm] = Number(Raised(One, mm))
    BY <1>0, PowersAre
  <2> QED
    BY <1>3, <2>1, <2>2, AlphaToMM
<1>6. TablesTypeOK'
  <2>1. mm \in Cells
    BY <1>0, TablesTypes
  <2>2. index_of' \in [0 .. nn -> Cells]
    BY <1>1, <1>2, <2>1
  <2>3. tabRound' \in 0 .. nn
    BY <1>0, <1>1
  <2>4. mask' \in { Number({b}) : b \in 0 .. mm }
    BY <1>0, <1>4
  <2> QED
    BY <1>1, <1>2, <2>2, <2>3, <2>4 DEF TablesTypeOK
<1>7. HighInv'
  <2>1. Written(mm + 1, alpha_to', index_of')
    <3>1. \A x \in 0 .. mm - 1 : alpha_to'[x] = alpha_to[x]
      BY <1>1
    <3>2. alpha_to'[mm] = AlphaTo[mm] /\ index_of' = [index_of EXCEPT ![AlphaTo[mm]] = mm]
      BY <1>1, <1>5
    <3> QED
      BY <1>0, <1>2, <1>3, <3>1, <3>2, WrittenStep
  <2>2. mm + 1 \in mm + 1 .. nn
    BY <1>0
  <2> QED
    BY <1>1, <1>4, <1>5, <2>1, <2>2 DEF HighInv
<1> QED
  BY <1>1, <1>6, <1>7 DEF TablesInv, LowInv, FieldInv, FactorInv, TermsInv, ConvertInv

\* One power more, from the one before.
LEMMA HighPowerStep ==
  ASSUME TablesInv, HighPower
  PROVE  TablesInv'
<1>0. mm \in Nat /\ nn \in Nat /\ mm + 1 <= nn
  BY Wide, Widths
<1>1. PICK n \in Nat : /\ n = tabRound /\ n \in mm + 1 .. nn - 1 /\ n \in 0 .. nn - 1 /\ n \in 0 .. nn /\ n # mm
                       /\ n - 1 \in 0 .. nn - 1 /\ n - 1 \in 0 .. n - 1 /\ n - 1 \in Nat /\ (n - 1) + 1 = n
  BY <1>0 DEF TablesInv, TablesTypeOK, HighInv, HighPower
<1>2. PICK last, next :
        /\ last = alpha_to[n - 1]
        /\ next = IF last >= mask THEN alpha_to[mm] ^^ (2 * (last ^^ mask)) ELSE 2 * last
        /\ alpha_to' = [alpha_to EXCEPT ![n] = next]
        /\ index_of' = [index_of EXCEPT ![next] = n]
  BY <1>1 DEF HighPower
<1>3. /\ tabPc = "high" /\ tabPc' = "high" /\ tabRound' = n + 1 /\ mask' = mask
      /\ tabTerm' = tabTerm /\ gg' = gg
  BY <1>1 DEF HighPower
<1>4. /\ tabTerm \in 0 .. nn - kk /\ alpha_to \in [0 .. nn -> Cells]
      /\ index_of \in [0 .. nn -> Cells] /\ gg \in [0 .. nn - kk -> Cells]
      /\ mask \in { Number({b}) : b \in 0 .. mm }
  BY DEF TablesInv, TablesTypeOK
<1>5. /\ mask = Number({mm - 1}) /\ Written(n, alpha_to, index_of)
      /\ alpha_to[mm] = Number(pp \ {mm})
  BY <1>1, <1>3 DEF TablesInv, HighInv
<1>6. next = AlphaTo[n]
  <2>1. PICK a \in Symbol : a = Raised(One, n - 1) /\ last = Number(a)
    <3>1. last = AlphaTo[n - 1]
      BY <1>1, <1>2, <1>5 DEF Written
    <3>2. AlphaTo[n - 1] = Number(Raised(One, n - 1)) /\ Raised(One, n - 1) \in Symbol
      BY <1>1, PowersAre, RaisedType, Widths
    <3> QED
      BY <3>1, <3>2
  <2>2. Raised(One, n) = TimesAlpha(a)
    BY <1>1, <2>1, RaisedFacts, Widths
  <2>3. next = Number(TimesAlpha(a))
    BY <1>2, <1>5, <2>1, TimesAlphaInts
  <2> QED
    BY <1>1, <2>2, <2>3, PowersAre
<1>7. TablesTypeOK'
  <2>1. next \in Cells /\ n \in Cells
    BY <1>1, <1>6, PowersAre, TablesTypes
  <2>2. alpha_to' \in [0 .. nn -> Cells] /\ index_of' \in [0 .. nn -> Cells]
    BY <1>2, <1>4, <2>1
  <2>3. tabRound' \in 0 .. nn
    BY <1>0, <1>1, <1>3
  <2> QED
    BY <1>3, <1>4, <2>2, <2>3 DEF TablesTypeOK
<1>8. HighInv'
  <2>1. Written(n + 1, alpha_to', index_of')
    <3>1. alpha_to'[n] = AlphaTo[n] /\ \A x \in 0 .. n - 1 : alpha_to'[x] = alpha_to[x]
      BY <1>1, <1>2, <1>4, <1>6
    <3>2. index_of' = [index_of EXCEPT ![AlphaTo[n]] = n]
      BY <1>2, <1>6
    <3> QED
      BY <1>1, <1>4, <1>5, <3>1, <3>2, WrittenStep
  <2>2. n + 1 \in mm + 1 .. nn /\ alpha_to'[mm] = alpha_to[mm]
    BY <1>0, <1>1, <1>2, <1>4
  <2> QED
    BY <1>3, <1>5, <2>1, <2>2 DEF HighInv
<1> QED
  BY <1>3, <1>7, <1>8 DEF TablesInv, LowInv, FieldInv, FactorInv, TermsInv, ConvertInv

\* generate_gf ends: the tables are complete.
LEMMA HighPowersDoneStep ==
  ASSUME TablesInv, HighPowersDone
  PROVE  TablesInv'
<1>0. /\ nn \in Nat /\ Degree \in Nat /\ Degree > 1 /\ Degree < nn /\ Degree = nn - kk
      /\ 0 \in 0 .. nn - 1 /\ 0 \in 0 .. Degree /\ 1 \in 0 .. Degree
  BY Widths DEF Degree
<1>1. /\ tabPc = "high" /\ tabRound = nn /\ tabPc' = "factor" /\ tabRound' = 2
      /\ index_of' = [index_of EXCEPT ![0] = -1]
      /\ gg' = [gg EXCEPT ![0] = alpha_to[0], ![1] = 1]
      /\ tabTerm' = tabTerm /\ mask' = mask /\ alpha_to' = alpha_to
  BY DEF HighPowersDone
<1>2. /\ tabTerm \in 0 .. nn - kk /\ alpha_to \in [0 .. nn -> Cells]
      /\ index_of \in [0 .. nn -> Cells] /\ gg \in [0 .. nn - kk -> Cells]
      /\ mask \in { Number({b}) : b \in 0 .. mm }
  BY DEF TablesInv, TablesTypeOK
<1>3. Written(nn, alpha_to, index_of)
  BY <1>1 DEF TablesInv, HighInv
<1>4. FieldInv'
  <2>1. index_of' = IndexOf
    <3>1. PICK index : index = index_of' /\ index = [index_of EXCEPT ![0] = -1]
      BY <1>1
    <3>2. index_of \in [0 .. nn -> Cells] /\ Written(nn, alpha_to, index_of)
      BY <1>2, <1>3
    <3>3. index = IndexOf
      BY <3>1, <3>2, WrittenAll
    <3> QED
      BY <3>1, <3>3
  <2>2. \A x \in 0 .. nn - 1 : alpha_to'[x] = AlphaTo[x]
    BY <1>1, <1>3 DEF Written
  <2> QED
    BY <2>1, <2>2 DEF FieldInv
<1>5. alpha_to[0] = 1
  BY <1>0, <1>3, TablesTypes DEF Written
<1>6. gg' \in [0 .. nn - kk -> Cells] /\ gg'[0] = 1 /\ gg'[1] = 1
  <2>1. 1 \in Cells
    BY TablesTypes
  <2> QED
    BY <1>0, <1>1, <1>2, <1>5, <2>1
<1>7. TablesTypeOK'
  <2>1. -1 \in Cells
    BY TablesTypes
  <2>2. index_of' \in [0 .. nn -> Cells] /\ tabRound' \in 0 .. nn
    BY <1>0, <1>1, <1>2, <2>1
  <2> QED
    BY <1>1, <1>2, <1>6, <2>2 DEF TablesTypeOK
<1>8. FactorInv'
  <2>1. Number(Products[1][1]) = 1
    BY <1>0, ProductsAre, TablesTypes DEF MonicWithRoots
  <2>2. Number(Products[1][0]) = 1
    <3>1. 0 \in 0 .. Degree - 1 /\ 0 + 1 = 1
      BY <1>0
    <3>2. Products[0][0] = One
      <4>1. Products[0] = [k \in 0 .. Degree |-> IF k = 0 THEN One ELSE NoBit]
        BY ProductsAre DEF IsProduct
      <4> QED
        BY <1>0, <4>1
    <3>3. Number(Products[1][0]) = AlphaTo[(IndexOf[1] + 0) % nn]
      <4>1. 1 = Number(Products[0][0])
        BY <3>2, TablesTypes
      <4> QED
        BY <1>0, <3>1, <4>1, TermInts
    <3>4. IndexOf[1] = 0
      BY <1>0, PowersAre, TablesTypes
    <3>5. (0 + 0) % nn = 0
      BY <1>0
    <3> QED
      BY <3>3, <3>4, <3>5, TablesTypes
  <2>3. \A x \in 0 .. 2 - 1 : x = 0 \/ x = 1
    OBVIOUS
  <2>4. \A x \in 0 .. 2 - 1 : gg'[x] = Number(Products[2 - 1][x])
    <3>1. 2 - 1 = 1
      OBVIOUS
    <3> QED
      BY <1>6, <2>1, <2>2, <2>3, <3>1
  <2> QED
    BY <1>0, <1>1, <2>4 DEF FactorInv
<1> QED
  BY <1>1, <1>4, <1>7, <1>8 DEF TablesInv, LowInv, HighInv, TermsInv, ConvertInv

\* A multiplication starts with the leading term.
LEMMA LeadingTermStep ==
  ASSUME TablesInv, LeadingTerm
  PROVE  TablesInv'
<1>0. nn \in Nat /\ Degree \in Nat /\ Degree = nn - kk
  BY Widths DEF Degree
<1>1. PICK n \in Nat : /\ n = tabRound /\ n \in 2 .. Degree /\ n \in 0 .. Degree /\ n - 1 \in 0 .. Degree
                       /\ \A x \in 0 .. n - 1 : gg[x] = Number(Products[n - 1][x])
  BY <1>0 DEF TablesInv, FactorInv, LeadingTerm
<1>2. /\ tabPc = "factor" /\ tabPc' = "terms" /\ tabRound' = n /\ tabTerm' = n - 1
      /\ gg' = [gg EXCEPT ![n] = 1]
      /\ mask' = mask /\ alpha_to' = alpha_to /\ index_of' = index_of
  BY <1>1 DEF LeadingTerm
<1>3. TablesTypeOK /\ FieldInv
  BY DEF TablesInv
<1>4. gg \in [0 .. nn - kk -> Cells] /\ gg \in [0 .. Degree -> Cells]
  BY <1>0, <1>3 DEF TablesTypeOK
<1>5. TablesTypeOK'
  <2>1. 1 \in Cells
    BY TablesTypes
  <2>2. gg' \in [0 .. nn - kk -> Cells] /\ tabTerm' \in 0 .. nn - kk
    BY <1>0, <1>1, <1>2, <1>4, <2>1
  <2> QED
    BY <1>1, <1>2, <1>3, <2>2 DEF TablesTypeOK
<1>6. TermsInv'
  <2>1. \A x \in 0 .. n - 1 : gg'[x] = Number(Products[n - 1][x])
    BY <1>0, <1>1, <1>2, <1>4
  <2>2. gg'[n] = 1 /\ Number(Products[n][n]) = 1
    BY <1>0, <1>1, <1>2, <1>4, ProductsAre, TablesTypes DEF MonicWithRoots
  <2>3. \A x \in (n - 1) + 1 .. n : gg'[x] = Number(Products[n][x])
    BY <1>1, <2>2
  <2>4. n - 1 \in 0 .. n - 1
    BY <1>1
  <2> QED
    BY <1>1, <1>2, <2>1, <2>3, <2>4 DEF TermsInv
<1> QED
  BY <1>2, <1>3, <1>5, <1>6 DEF TablesInv, LowInv, HighInv, FieldInv, FactorInv, ConvertInv

\* What the program computes through the tables in one cell.
LEMMA ScaledIs ==
  ASSUME TablesInv, tabPc = "terms", NEW x \in 0 .. tabTerm, IndexOf[gg[x]] \in 0 .. nn - 1
  PROVE  Scaled(x) = AlphaTo[(IndexOf[gg[x]] + (tabRound - 1)) % nn]
<1>1. /\ \A k \in 0 .. nn - 1 : alpha_to[k] = AlphaTo[k]
      /\ index_of = IndexOf /\ tabRound \in 2 .. Degree
  BY DEF TablesInv, FieldInv, TermsInv
<1>2. nn \in Nat \ {0} /\ Degree \in Nat
  BY Widths DEF Degree
<1>3. PICK i \in Nat, r \in Nat : i = IndexOf[gg[x]] /\ r = tabRound - 1 /\ i + tabRound - 1 = i + r
  BY <1>1, <1>2
<1>4. (i + r) % nn \in 0 .. nn - 1
  <2>1. i + r \in Nat
    OBVIOUS
  <2> QED
    BY <1>2, <2>1, ModStep
<1>5. Scaled(x) = alpha_to[(i + tabRound - 1) % nn]
  BY <1>1, <1>3 DEF Scaled
<1> QED
  BY <1>1, <1>3, <1>4, <1>5

\* A term of the product from the two of the factor it stands over.
LEMMA TermStep ==
  ASSUME TablesInv, Term
  PROVE  TablesInv'
<1>0. nn \in Nat /\ Degree \in Nat /\ Degree = nn - kk
  BY Widths DEF Degree
<1>1. PICK n \in Nat, j \in Nat :
        /\ n + 1 = tabRound /\ n = tabRound - 1 /\ j = tabTerm /\ n \in 0 .. Degree - 1 /\ n + 1 \in 2 .. Degree
        /\ j \in 1 .. n /\ j \in 0 .. Degree /\ j # 0 /\ j - 1 \in 0 .. n /\ j \in 0 .. tabTerm /\ n \in 0 .. Degree
        /\ j - 1 \in 0 .. j /\ j \in 0 .. j
        /\ \A x \in 0 .. j : gg[x] = Number(Products[n][x])
        /\ \A x \in j + 1 .. n + 1 : gg[x] = Number(Products[n + 1][x])
  <2>1. /\ tabRound \in 2 .. Degree /\ tabTerm \in 0 .. tabRound - 1 /\ tabTerm > 0
        /\ \A x \in 0 .. tabTerm : gg[x] = Number(Products[tabRound - 1][x])
        /\ \A x \in tabTerm + 1 .. tabRound : gg[x] = Number(Products[tabRound][x])
    BY DEF TablesInv, TermsInv, Term
  <2>2. tabRound - 1 \in Nat /\ (tabRound - 1) + 1 = tabRound /\ tabTerm \in Nat
    BY <1>0, <2>1
  <2>3. PICK n \in Nat, j \in Nat : n + 1 = tabRound /\ n = tabRound - 1 /\ j = tabTerm
    BY <2>2
  <2> QED
    BY <1>0, <2>1, <2>3
<1>2. /\ tabPc = "terms" /\ tabPc' = "terms" /\ tabRound' = n + 1 /\ tabTerm' = j - 1
      /\ gg' = [gg EXCEPT ![j] = IF gg[j] # 0 THEN gg[j - 1] ^^ Scaled(j) ELSE gg[j - 1]]
      /\ mask' = mask /\ alpha_to' = alpha_to /\ index_of' = index_of
  BY <1>1 DEF Term
<1>3. TablesTypeOK /\ FieldInv
  BY DEF TablesInv
<1>4. gg \in [0 .. nn - kk -> Cells] /\ gg \in [0 .. Degree -> Cells]
  BY <1>0, <1>3 DEF TablesTypeOK
<1>5. PICK new \in PolyForm :
        /\ new = (IF gg[j] # 0 THEN gg[j - 1] ^^ Scaled(j) ELSE gg[j - 1])
        /\ new = Number(Products[n + 1][j])
  <2>1. PICK a \in PolyForm : a = gg[j] /\ a = Number(Products[n][j])
    BY <1>1, ProductsAre
  <2>2. gg[j - 1] = Number(Products[n][j - 1])
    BY <1>1
  <2>3. a # 0 => Scaled(j) = AlphaTo[(IndexOf[a] + n) % nn]
    <3>1. a # 0 => IndexOf[a] \in 0 .. nn - 1
      <4>1. IndexOf[a] \in IndexForm /\ Poly(IndexOf[a]) = a
        BY IndexOfIs
      <4> QED
        BY <4>1, Widths DEF IndexForm, Poly
    <3> QED
      BY <1>1, <1>2, <2>1, <3>1, ScaledIs
  <2>4. Number(Products[n + 1][j]) = IF a # 0 THEN Number(Products[n][j - 1]) ^^ AlphaTo[(IndexOf[a] + n) % nn]
                                     ELSE Number(Products[n][j - 1])
    BY <1>1, <2>1, TermInts
  <2>5. Number(Products[n + 1][j]) = IF gg[j] # 0 THEN gg[j - 1] ^^ Scaled(j) ELSE gg[j - 1]
    BY <2>1, <2>2, <2>3, <2>4
  <2>6. Number(Products[n + 1][j]) \in PolyForm
    <3>1. n + 1 \in 0 .. Degree
      BY <1>0, <1>1
    <3> QED
      BY <1>1, <3>1, ProductsAre
  <2> QED
    BY <2>5, <2>6
<1>6. gg' = [gg EXCEPT ![j] = new]
  BY <1>2, <1>5
<1>7. TablesTypeOK'
  <2>1. new \in Cells
    BY TablesTypes
  <2>2. gg' \in [0 .. nn - kk -> Cells] /\ tabTerm' \in 0 .. nn - kk
    BY <1>0, <1>1, <1>2, <1>4, <1>6, <2>1
  <2> QED
    BY <1>1, <1>2, <1>3, <2>2 DEF TablesTypeOK
<1>8. TermsInv'
  <2>1. \A x \in 0 .. j - 1 : gg'[x] = Number(Products[n][x])
    BY <1>0, <1>1, <1>4, <1>6
  <2>2. ASSUME NEW x \in (j - 1) + 1 .. n + 1 PROVE gg'[x] = Number(Products[n + 1][x])
    <3>1. x \in 0 .. Degree /\ (x # j => x \in j + 1 .. n + 1)
      BY <1>0, <1>1
    <3>2. CASE x = j
      BY <1>4, <1>5, <1>6, <3>1, <3>2
    <3>3. CASE x # j
      BY <1>1, <1>4, <1>6, <3>1, <3>3
    <3> QED
      BY <3>2, <3>3
  <2>3. j - 1 \in 0 .. (n + 1) - 1 /\ (n + 1) - 1 = n
    BY <1>1
  <2> QED
    BY <1>1, <1>2, <2>1, <2>2, <2>3 DEF TermsInv
<1> QED
  BY <1>2, <1>3, <1>7, <1>8 DEF TablesInv, LowInv, HighInv, FieldInv, FactorInv, ConvertInv

\* The constant term is the last one.
LEMMA ConstantTermStep ==
  ASSUME TablesInv, ConstantTerm
  PROVE  TablesInv'
<1>0. nn \in Nat /\ Degree \in Nat /\ Degree = nn - kk /\ Degree < nn
  BY Widths DEF Degree
<1>1. PICK n \in Nat :
        /\ n + 1 = tabRound /\ n = tabRound - 1 /\ n \in 0 .. Degree - 1 /\ n + 1 \in 2 .. Degree
        /\ n \in 0 .. Degree /\ n + 1 \in 0 .. Degree /\ 0 \in 0 .. Degree
        /\ 0 \in 0 .. tabTerm
        /\ gg[0] = Number(Products[n][0])
        /\ \A x \in 1 .. n + 1 : gg[x] = Number(Products[n + 1][x])
  <2>1. /\ tabRound \in 2 .. Degree /\ tabTerm = 0
        /\ \A x \in 0 .. tabTerm : gg[x] = Number(Products[tabRound - 1][x])
        /\ \A x \in tabTerm + 1 .. tabRound : gg[x] = Number(Products[tabRound][x])
    BY DEF TablesInv, TermsInv, ConstantTerm
  <2>2. tabRound - 1 \in Nat /\ (tabRound - 1) + 1 = tabRound /\ tabTerm + 1 = 1
    BY <1>0, <2>1
  <2>3. PICK n \in Nat : n + 1 = tabRound /\ n = tabRound - 1
    BY <2>2
  <2> QED
    BY <1>0, <2>1, <2>2, <2>3
<1>2. /\ tabPc = "terms" /\ tabPc' = "factor" /\ tabRound' = (n + 1) + 1 /\ tabTerm' = tabTerm
      /\ gg' = [gg EXCEPT ![0] = Scaled(0)]
      /\ mask' = mask /\ alpha_to' = alpha_to /\ index_of' = index_of
  BY <1>1 DEF ConstantTerm
<1>3. TablesTypeOK /\ FieldInv
  BY DEF TablesInv
<1>4. gg \in [0 .. nn - kk -> Cells] /\ gg \in [0 .. Degree -> Cells]
  BY <1>0, <1>3 DEF TablesTypeOK
<1>5. PICK new \in PolyForm : new = Scaled(0) /\ new = Number(Products[n + 1][0])
  <2>1. PICK a \in PolyForm : a = gg[0] /\ a = Number(Products[n][0])
    BY <1>1, ProductsAre
  <2>2. a # 0 /\ Number(Products[n + 1][0]) = AlphaTo[(IndexOf[a] + n) % nn]
    BY <1>1, <2>1, TermInts
  <2>3. Scaled(0) = AlphaTo[(IndexOf[a] + n) % nn]
    <3>1. IndexOf[a] \in 0 .. nn - 1
      <4>1. IndexOf[a] \in IndexForm /\ Poly(IndexOf[a]) = a
        BY IndexOfIs
      <4> QED
        BY <2>2, <4>1, Widths DEF IndexForm, Poly
    <3> QED
      BY <1>1, <1>2, <2>1, <3>1, ScaledIs
  <2>4. Number(Products[n + 1][0]) \in PolyForm
    BY <1>1, ProductsAre
  <2> QED
    BY <2>2, <2>3, <2>4
<1>6. gg' = [gg EXCEPT ![0] = new]
  BY <1>2, <1>5
<1>7. TablesTypeOK'
  <2>1. new \in Cells
    BY TablesTypes
  <2>2. gg' \in [0 .. nn - kk -> Cells] /\ tabRound' \in 0 .. nn
    BY <1>0, <1>1, <1>2, <1>4, <1>6, <2>1
  <2> QED
    BY <1>1, <1>2, <1>3, <2>2 DEF TablesTypeOK
<1>8. FactorInv'
  <2>1. ASSUME NEW x \in 0 .. n + 1 PROVE gg'[x] = Number(Products[n + 1][x])
    <3>1. x \in 0 .. Degree /\ (x # 0 => x \in 1 .. n + 1)
      BY <1>0, <1>1
    <3>2. CASE x = 0
      BY <1>1, <1>4, <1>5, <1>6, <3>1, <3>2
    <3>3. CASE x # 0
      BY <1>1, <1>4, <1>6, <3>1, <3>3
    <3> QED
      BY <3>2, <3>3
  <2>2. (n + 1) + 1 \in 2 .. Degree + 1 /\ ((n + 1) + 1) - 1 = n + 1
    BY <1>0, <1>1
  <2> QED
    BY <1>2, <2>1, <2>2 DEF FactorInv
<1> QED
  BY <1>2, <1>3, <1>7, <1>8 DEF TablesInv, LowInv, HighInv, FieldInv, TermsInv, ConvertInv

\* After the last factor gg[] is the generator.
LEMMA FactorsDoneStep ==
  ASSUME TablesInv, FactorsDone
  PROVE  TablesInv'
<1>0. nn \in Nat /\ Degree \in Nat /\ Degree = nn - kk
  BY Widths DEF Degree
<1>1. /\ tabPc = "factor" /\ tabPc' = "convert" /\ tabRound' = 0 /\ tabTerm' = tabTerm
      /\ gg' = gg /\ mask' = mask /\ alpha_to' = alpha_to /\ index_of' = index_of /\ tabRound > nn - kk
  BY DEF FactorsDone
<1>2. TablesTypeOK /\ FieldInv
  BY DEF TablesInv
<1>3. \A x \in 0 .. Degree : gg[x] = Number(Generator[x])
  <2>1. /\ tabRound \in 2 .. Degree + 1
        /\ \A x \in 0 .. tabRound - 1 : gg[x] = Number(Products[tabRound - 1][x])
    BY <1>1 DEF TablesInv, FactorInv
  <2>2. tabRound - 1 = Degree
    BY <1>0, <1>1, <2>1
  <2> QED
    BY <2>1, <2>2, ProductsAre
<1>4. TablesTypeOK'
  <2>1. tabRound' \in 0 .. nn
    BY <1>0, <1>1
  <2> QED
    BY <1>1, <1>2, <2>1 DEF TablesTypeOK
<1>5. ConvertInv'
  BY <1>0, <1>1, <1>3 DEF ConvertInv
<1> QED
  BY <1>1, <1>2, <1>4, <1>5 DEF TablesInv, LowInv, HighInv, FieldInv, FactorInv, TermsInv

\* A coefficient in index form.
LEMMA ConvertStep ==
  ASSUME TablesInv, Convert
  PROVE  TablesInv'
<1>0. nn \in Nat /\ Degree \in Nat /\ Degree = nn - kk /\ Degree < nn
  BY Widths DEF Degree
<1>1. PICK n \in 0 .. Degree :
        /\ n = tabRound
        /\ \A x \in 0 .. n - 1 : gg[x] = GG[x]
        /\ \A x \in n .. Degree : gg[x] = Number(Generator[x])
  BY <1>0 DEF TablesInv, ConvertInv, Convert
<1>2. /\ tabPc = "convert" /\ tabPc' = (IF n = nn - kk THEN "done" ELSE "convert")
      /\ tabRound' = n + 1 /\ tabTerm' = tabTerm
      /\ gg' = [gg EXCEPT ![n] = index_of[gg[n]]]
      /\ mask' = mask /\ alpha_to' = alpha_to /\ index_of' = index_of
  BY <1>1 DEF Convert
<1>3. TablesTypeOK /\ FieldInv
  BY DEF TablesInv
<1>4. gg \in [0 .. nn - kk -> Cells] /\ gg \in [0 .. Degree -> Cells]
  BY <1>0, <1>3 DEF TablesTypeOK
<1>5. index_of[gg[n]] = GG[n] /\ GG[n] \in 0 .. nn - 1
  <2>1. gg[n] = Number(Generator[n]) /\ index_of = IndexOf
    BY <1>0, <1>1, <1>2, <1>3 DEF FieldInv
  <2>2. n \in 0 .. nn - kk /\ Generator[n] \in Symbol /\ GG[n] \in 0 .. nn - 1
    BY <1>0, CoefficientIs
  <2>3. Number(Generator[n]) \in PolyForm /\ Bits(Number(Generator[n])) = Generator[n]
    BY <2>2, NumberType
  <2>4. IndexOf[Number(Generator[n])] = Log[Generator[n]]
    BY <2>3 DEF IndexOf
  <2>5. GG[n] = Log[Generator[n]]
    BY <2>2 DEF GG
  <2> QED
    BY <2>1, <2>2, <2>4, <2>5
<1>6. gg' \in [0 .. nn - kk -> Cells] /\ gg'[n] = GG[n] /\ \A x \in 0 .. Degree : x # n => gg'[x] = gg[x]
  <2>1. GG[n] \in Cells
    BY <1>5, TablesTypes
  <2> QED
    BY <1>0, <1>2, <1>4, <1>5, <2>1
<1>7. TablesTypeOK'
  <2>1. tabRound' \in 0 .. nn
    BY <1>0, <1>2
  <2> QED
    BY <1>2, <1>3, <1>6, <2>1 DEF TablesTypeOK
<1>8. \A x \in 0 .. n : gg'[x] = GG[x]
  <2> SUFFICES ASSUME NEW x \in 0 .. n, x # n PROVE gg'[x] = GG[x]
    BY <1>6
  <2>1. x \in 0 .. n - 1 /\ x \in 0 .. Degree
    BY <1>0
  <2> QED
    BY <1>1, <1>6, <2>1
<1>9. ConvertInv'
  <2>1. CASE n = Degree
    <3>1. gg' = [x \in 0 .. Degree |-> gg'[x]]
      BY <1>0, <1>6
    <3>2. GG = [x \in 0 .. Degree |-> GG[x]]
      BY <1>0 DEF GG
    <3>3. gg' = GG
      <4> HIDE DEF GG
      <4> QED
        BY <1>8, <2>1, <3>1, <3>2
    <3> QED
      BY <1>0, <1>2, <2>1, <3>3 DEF ConvertInv
  <2>2. CASE n # Degree
    <3>1. n + 1 \in 0 .. Degree /\ (n + 1) - 1 = n
      BY <1>0, <2>2
    <3>2. \A x \in n + 1 .. Degree : x \in n .. Degree /\ x \in 0 .. Degree /\ x # n
      BY <1>0
    <3>3. \A x \in n + 1 .. Degree : gg'[x] = Number(Generator[x])
      BY <1>1, <1>6, <3>2
    <3>4. tabPc' = "convert"
      BY <1>0, <1>2, <2>2
    <3> QED
      BY <1>2, <1>8, <3>1, <3>3, <3>4 DEF ConvertInv
  <2> QED
    BY <2>1, <2>2
<1> QED
  <2>1. tabPc' \in {"convert", "done"}
    BY <1>2
  <2> QED
    BY <1>2, <1>3, <1>7, <1>9, <2>1 DEF TablesInv, LowInv, HighInv, FieldInv, FactorInv, TermsInv

\* And back to the caller, or not in these functions at all.
LEMMA TablesReturnedStep ==
  ASSUME TablesInv, TablesReturned
  PROVE  TablesInv'
<1>1. /\ tabPc = "done" /\ tabPc' = "idle" /\ tabRound' = tabRound /\ tabTerm' = tabTerm
      /\ gg' = gg /\ mask' = mask /\ alpha_to' = alpha_to /\ index_of' = index_of
  BY DEF TablesReturned
<1> QED
  BY <1>1 DEF TablesInv, TablesTypeOK, LowInv, HighInv, FieldInv, FactorInv, TermsInv, ConvertInv

\* Where no variable of theirs changes.
LEMMA TablesUnchanged ==
  ASSUME TablesInv, UNCHANGED tablesVars
  PROVE  TablesInv'
BY DEF tablesVars, TablesInv, TablesTypeOK, LowInv, HighInv, FieldInv, FactorInv, TermsInv, ConvertInv

\* Every step of the program keeps it: after generate_gf and gen_poly no variable of
\* theirs changes.
LEMMA NextTablesInv == TablesInv /\ [Next]_vars => TablesInv'
<1> SUFFICES ASSUME TablesInv, [Next]_vars PROVE TablesInv'
  OBVIOUS
<1>1. CASE TablesStep
  BY <1>1, LowPowerStep, LowPowersDoneStep, HighPowerStep, HighPowersDoneStep, LeadingTermStep,
     TermStep, ConstantTermStep, FactorsDoneStep, ConvertStep DEF TablesStep
<1>2. CASE TablesReturned
  BY <1>2, TablesReturnedStep
<1>3. CASE UNCHANGED tablesVars
  BY <1>3, TablesUnchanged
<1>4. TablesStep \/ TablesReturned \/ UNCHANGED tablesVars
  <2>1. CASE UNCHANGED vars
    BY <2>1 DEF vars
  <2>2. CASE GenerateTables \/ TablesDone
    BY <2>2 DEF GenerateTables, TablesDone
  <2>3. CASE NewVector \/ EncodeVector \/ Transmit \/ Draw
    BY <2>3 DEF NewVector, EncodeVector, Transmit, Draw
  <2>4. CASE DrawAgain
    BY <2>4 DEF DrawAgain, vars
  <2>5. CASE CallDecode \/ DecodeVector \/ Compare \/ NextErrorCount \/ Stop
    BY <2>5 DEF CallDecode, DecodeVector, Compare, NextErrorCount, Stop
  <2> QED
    BY <2>1, <2>2, <2>3, <2>4, <2>5 DEF Next
<1> QED
  BY <1>1, <1>2, <1>3, <1>4

\* and so it holds always.
LEMMA TablesInvariance == Spec => []TablesInv
<1>1. Init => TablesInv
  BY TablesInitInv DEF Init
<1> QED
  BY <1>1, NextTablesInv, PTL DEF Spec

\* The tables generate_gf leaves are those of the field, in every cell.
THEOREM TablesHold == Spec => []TablesOfTheField
<1>1. TablesInv => TablesOfTheField
  BY DEF TablesInv, FieldInv, TablesOfTheField
<1> QED
  BY <1>1, TablesInvariance, PTL

\* What gen_poly leaves in gg[] is the generator of the reference, in index form, and no
\* coefficient is zero.
THEOREM IndexFormHolds == Spec => []GeneratorInIndexForm
<1>1. TablesInv => GeneratorInIndexForm
  <2> SUFFICES ASSUME TablesInv, tabPc = "done"
               PROVE  gg = GG /\ \A x \in 0 .. nn - kk : gg[x] # -1
    BY DEF GeneratorInIndexForm
  <2>1. gg = GG
    BY DEF TablesInv, ConvertInv
  <2>2. ASSUME NEW x \in 0 .. nn - kk PROVE gg[x] # -1
    <3>1. GG[x] \in 0 .. nn - 1
      BY CoefficientIs
    <3> QED
      BY <2>1, <3>1, Widths
  <2> QED
    BY <2>1, <2>2
<1> QED
  BY <1>1, TablesInvariance, PTL

\* Between two multiplications gg[] is monic, and of the powers of alpha just those
\* multiplied so far are its roots.
THEOREM RootsHold == Spec => []RootsOfGG
<1>1. TablesInv => RootsOfGG
  <2> SUFFICES ASSUME TablesInv, tabPc = "factor"
               PROVE  /\ gg[tabRound - 1] = 1
                      /\ \A r \in 0 .. nn - 1 : GGAt(tabRound - 1, r) = NoBit <=> r <= tabRound - 2
    BY DEF RootsOfGG
  <2>0. nn \in Nat /\ Degree \in Nat
    BY Widths DEF Degree
  <2>1. PICK n, q : /\ n \in Nat /\ n = tabRound - 1 /\ n \in 0 .. Degree /\ n \in 0 .. n /\ q = Products[n]
                       /\ tabRound - 2 = n - 1
                       /\ \A x \in 0 .. n : gg[x] = Number(q[x])
    BY <2>0 DEF TablesInv, FactorInv
  <2>2. MonicWithRoots(q, n) /\ \A x \in 0 .. Degree : q[x] \in Symbol /\ Bits(Number(q[x])) = q[x]
    BY <2>1, ProductsAre
  <2>3. gg[n] = 1
    BY <2>1, <2>2, TablesTypes DEF MonicWithRoots
  <2>4. ASSUME NEW r \in 0 .. nn - 1 PROVE GGAt(n, r) = ValueAt(q, r)
    <3> DEFINE c == [x \in 0 .. n |-> Bits(gg[x])]
    <3>1. \A x \in 0 .. n : x \in 0 .. Degree /\ c[x] = q[x] /\ q[x] \in Symbol
      BY <2>0, <2>1, <2>2
    <3>2. c \in [0 .. n -> Symbol]
      BY <3>1
    <3>3. /\ q \in [0 .. Degree -> Symbol]
          /\ \A x \in 0 .. Degree : x \notin 0 .. n => q[x] = {}
      <4>1. \A x \in 0 .. Degree : x \notin 0 .. n => x > n
        BY <2>0, <2>1
      <4> QED
        BY <2>2, <4>1 DEF MonicWithRoots, Polynomial
    <3>4. GGAt(n, r) = ValueAt(c, r)
      BY DEF GGAt
    <3> HIDE DEF c
    <3>5. Extends(0 .. Degree, 0 .. n, q, c)
      <4> DEFINE D == 0 .. Degree
                 E == 0 .. n
      <4>1. /\ q \in [D -> Symbol] /\ c \in [E -> Symbol] /\ E \subseteq D
            /\ \A x \in E : q[x] = c[x]
            /\ \A x \in D : x \notin E => q[x] = {}
        BY <3>1, <3>2, <3>3
      <4> HIDE DEF D, E
      <4>2. Extends(D, E, q, c)
        BY <4>1 DEF Extends
      <4> QED
        BY <4>2 DEF D, E
    <3>6. r \in Nat /\ n \in Nat /\ Degree \in Nat
      BY <2>0, <2>1
    <3>7. ValueAt(q, r) = ValueAt(c, r)
      BY <3>5, <3>6, ValueExtend
    <3> QED
      BY <3>4, <3>7
  <2>5. ASSUME NEW r \in 0 .. nn - 1 PROVE GGAt(n, r) = NoBit <=> r <= n - 1
    <3>1. ValueAt(q, r) = {} <=> r < n
      BY <2>2 DEF MonicWithRoots
    <3>2. r < n <=> r <= n - 1
      BY <2>0, <2>1
    <3> QED
      BY <2>4, <3>1, <3>2 DEF NoBit
  <2> QED
    BY <2>1, <2>3, <2>5
<1> QED
  BY <1>1, TablesInvariance, PTL

-----------------------------------------------------------------------------
(* galois multiplies in the field of the program *)

\* The field the terms of galois were written out for.
ProgramField == mm = 8 /\ pp = {0, 2, 3, 4, 8}

\* The members of a that a bit of a product takes.
Picked(a, S) == { x \in a : x \in S }

\* A symbol has few bits, and so have the parts of it.
LEMMA PickedFinite ==
  ASSUME NEW a, IsFiniteSet(a), NEW S
  PROVE  IsFiniteSet(Picked(a, S))
BY FS_Subset DEF Picked

\* Parities are added as the places are.
LEMMA PickedSum ==
  ASSUME NEW a, IsFiniteSet(a), NEW S, NEW T
  PROVE  Odd(Picked(a, SymDiff(S, T))) <=> (Odd(Picked(a, S)) <=> ~Odd(Picked(a, T)))
<1>1. Picked(a, SymDiff(S, T)) = SymDiff(Picked(a, S), Picked(a, T))
  BY DEF Picked, SymDiff
<1> QED
  BY <1>1, PickedFinite, OddXor

\* Nothing is even, and one thing odd.
LEMMA OddOf == ~Odd({}) /\ \A x : Odd({x})
<1>1. ASSUME NEW x PROVE Odd({x})
  BY FS_Singleton DEF Odd
<1>2. ~Odd({})
  BY FS_EmptySet DEF Odd
<1> QED
  BY <1>1, <1>2

\* A single place.
LEMMA PickedOne ==
  ASSUME NEW a, NEW x
  PROVE  Odd(Picked(a, {x})) <=> x \in a
<1>1. CASE x \in a
  <2>1. Picked(a, {x}) = {x}
    BY <1>1 DEF Picked
  <2> QED
    BY <1>1, <2>1, OddOf
<1>2. CASE x \notin a
  <2>1. Picked(a, {x}) = {}
    BY <1>2 DEF Picked
  <2> QED
    BY <1>2, <2>1, OddOf
<1> QED
  BY <1>1, <1>2

\* The terms of a bit, products of two bits, are counted column by column.
LEMMA OddPairs ==
  ASSUME NEW a, IsFiniteSet(a), NEW N \in Nat, NEW b, IsFiniteSet(b),
         b \subseteq 0 .. N - 1, NEW column
  PROVE  Odd({ t \in a \X b : t[1] \in column[t[2]] }) <=> Odd({ i \in b : Odd(Picked(a, column[i])) })
<1> DEFINE G(n) == { t \in a \X b : t[2] < n /\ t[1] \in column[t[2]] }
           H(n) == { i \in b : i < n /\ Odd(Picked(a, column[i])) }
           T == { n \in Nat : Odd(G(n)) <=> Odd(H(n)) }
<1>n. (\A t \in a \X b : t[1] \in a /\ t[2] \in b /\ t[2] \in Int /\ 0 <= t[2] /\ t[2] < N)
      /\ \A i \in b : i \in Int /\ 0 <= i /\ i < N
  <2>1. \A i \in b : i \in Int /\ 0 <= i /\ i < N
    OBVIOUS
  <2>2. \A t \in a \X b : t[1] \in a /\ t[2] \in b
    OBVIOUS
  <2> QED
    BY <2>1, <2>2
<1>0. \A n : IsFiniteSet(G(n)) /\ IsFiniteSet(H(n))
  <2>1. IsFiniteSet(a \X b)
    BY FS_Product
  <2> QED
    BY <2>1, FS_Subset
<1>1. 0 \in T
  <2>1. (\A t \in a \X b : ~(t[2] < 0)) /\ (\A i \in b : ~(i < 0))
    BY <1>n
  <2>2. G(0) = {}
    BY Zenon, <2>1
  <2>3. H(0) = {}
    BY Zenon, <2>1
  <2>4. Odd(G(0)) <=> Odd(H(0))
    BY <2>2, <2>3
  <2> QED
    BY <2>4
<1>2. ASSUME NEW n \in Nat, n \in T PROVE n + 1 \in T
  <2> DEFINE g == { t \in a \X b : t[2] = n /\ t[1] \in column[t[2]] }
             h == { i \in b : i = n /\ Odd(Picked(a, column[i])) }
  <2>1. G(n + 1) = SymDiff(G(n), g)
    <3>1. \A t \in a \X b : (t[2] < n + 1 <=> t[2] < n \/ t[2] = n) /\ ~(t[2] < n /\ t[2] = n)
      BY <1>n
    <3> QED
      BY Zenon, <3>1 DEF SymDiff
  <2>2. H(n + 1) = SymDiff(H(n), h)
    <3>1. \A i \in b : (i < n + 1 <=> i < n \/ i = n) /\ ~(i < n /\ i = n)
      BY <1>n
    <3> QED
      BY Zenon, <3>1 DEF SymDiff
  <2>3. IsFiniteSet(g) /\ IsFiniteSet(h)
    <3>1. IsFiniteSet(a \X b)
      BY FS_Product
    <3> QED
      BY <3>1, FS_Subset
  <2>4. Odd(g) <=> Odd(h)
    <3>1. CASE n \notin b
      <4>1. g = {} /\ h = {}
        BY <3>1
      <4> QED
        BY <4>1
    <3>2. CASE n \in b
      <4> DEFINE P == Picked(a, column[n])
                 f == [x \in P |-> <<x, n>>]
      <4>1. f \in [P -> g] /\ \A x, y \in P : f[x] = f[y] => x = y
        BY <3>2 DEF Picked
      <4>2. \A y \in g : \E x \in P : f[x] = y
        BY <3>2 DEF Picked
      <4>3. IsFiniteSet(P)
        BY PickedFinite
      <4>4. Odd(h) <=> Odd(P)
        <5>1. CASE Odd(P)
          <6>1. h = {n}
            BY <3>2, <5>1
          <6> QED
            BY <5>1, <6>1, OddOf
        <5>2. CASE ~Odd(P)
          <6>1. h = {}
            BY <5>2
          <6> QED
            BY <5>2, <6>1, OddOf
        <5> QED
          BY <5>1, <5>2
      <4> HIDE DEF P, f, g, h
      <4>5. f \in Bijection(P, g)
        BY <4>1, <4>2 DEF Bijection, Injection, Surjection, IsInjective
      <4>6. Cardinality(g) = Cardinality(P)
        <5>1. ExistsBijection(P, g)
          BY <4>5 DEF ExistsBijection
        <5> QED
          BY <4>3, <5>1, FS_Bijection
      <4> QED
        BY <4>4, <4>6 DEF Odd
    <3> QED
      BY <3>1, <3>2
  <2>5. Odd(G(n)) <=> Odd(H(n))
    BY <1>2
  <2> HIDE DEF G, H, g, h
  <2>6. Odd(G(n + 1)) <=> Odd(H(n + 1))
    BY <1>0, <2>1, <2>2, <2>3, <2>4, <2>5, OddXor
  <2> QED
    BY <2>6
<1>3. Nat \subseteq T
  <2> HIDE DEF T
  <2> QED
    BY <1>1, <1>2, NatSetInduction
<1>4. G(N) = { t \in a \X b : t[1] \in column[t[2]] } /\ H(N) = { i \in b : Odd(Picked(a, column[i])) }
  BY Zenon, <1>n
<1> QED
  BY <1>3, <1>4

\* The entries of the table, a bit each, for one factor alpha more: alpha times what they
\* stand for.
LEMMA TermsStep ==
  ASSUME NEW i \in 1 .. 7
  PROVE  /\ Terms[1][i + 1] = Terms[8][i]
         /\ Terms[2][i + 1] = Terms[1][i]
         /\ Terms[3][i + 1] = SymDiff(Terms[2][i], Terms[8][i])
         /\ Terms[4][i + 1] = SymDiff(Terms[3][i], Terms[8][i])
         /\ Terms[5][i + 1] = SymDiff(Terms[4][i], Terms[8][i])
         /\ Terms[6][i + 1] = Terms[5][i]
         /\ Terms[7][i + 1] = Terms[6][i]
         /\ Terms[8][i + 1] = Terms[7][i]
<1>1. i = 1 \/ i = 2 \/ i = 3 \/ i = 4 \/ i = 5 \/ i = 6 \/ i = 7
  OBVIOUS
<1>c1. CASE i = 1
  BY <1>c1 DEF Terms, SymDiff
<1>c2. CASE i = 2
  BY <1>c2 DEF Terms, SymDiff
<1>c3. CASE i = 3
  BY <1>c3 DEF Terms, SymDiff
<1>c4. CASE i = 4
  BY <1>c4 DEF Terms, SymDiff
<1>c5. CASE i = 5
  BY <1>c5 DEF Terms, SymDiff
<1>c6. CASE i = 6
  BY <1>c6 DEF Terms, SymDiff
<1>c7. CASE i = 7
  BY <1>c7 DEF Terms, SymDiff
<1> QED
  BY <1>1, <1>c1, <1>c2, <1>c3, <1>c4, <1>c5, <1>c6, <1>c7

\* Column i of the table gives the bits of alpha^i times a symbol.
LEMMA TermsRaise ==
  ASSUME ProgramField, NEW a \in Symbol
  PROVE  \A i \in 0 .. 7, y \in 0 .. 7 : y \in Raised(a, i) <=> Odd(Picked(a, Terms[y + 1][i + 1]))
<1> DEFINE T == { i \in Nat : i <= 7 =>
                    \A y \in 0 .. 7 : y \in Raised(a, i) <=> Odd(Picked(a, Terms[y + 1][i + 1])) }
<1>0. IsFiniteSet(a)
  BY SymbolFinite
<1>1. 0 \in T
  <2>1. \A y \in 0 .. 7 : Terms[y + 1][1] = {y}
    BY DEF Terms
  <2>2. \A y \in 0 .. 7 : y \in Raised(a, 0) <=> Odd(Picked(a, Terms[y + 1][0 + 1]))
    BY <2>1, RaisedFacts, PickedOne
  <2> QED
    BY <2>2
<1>2. ASSUME NEW i \in Nat, i \in T PROVE i + 1 \in T
  <2> SUFFICES ASSUME i + 1 <= 7
               PROVE  \A y \in 0 .. 7 : y \in Raised(a, i + 1) <=> Odd(Picked(a, Terms[y + 1][(i + 1) + 1]))
    OBVIOUS
  <2>1. PICK c \in Symbol : c = Raised(a, i) /\ TimesAlpha(c) = Raised(a, i + 1)
    BY RaisedFacts
  <2>2. \A y \in 0 .. 7 : y \in TimesAlpha(c) <=> (y - 1 \in c <=> ~(7 \in c /\ y \in pp))
    <3>1. mm - 1 = 7
      BY DEF ProgramField
    <3> QED
      BY <3>1, TimesAlphaBit
  <2>3. -1 \notin c
    BY DEF Symbol
  <2>4. \A y \in 0 .. 7 : y \in pp <=> y \in {0, 2, 3, 4}
    BY DEF ProgramField
  <2> DEFINE In(y) == Odd(Picked(a, Terms[y][i + 1]))
             After(y) == Odd(Picked(a, Terms[y][(i + 1) + 1]))
  <2>5. \A y \in 0 .. 7 : y \in c <=> In(y + 1)
    BY <1>2, <2>1
  <2>6. /\ After(1) <=> In(8)
        /\ After(2) <=> In(1)
        /\ After(3) <=> (In(2) <=> ~In(8))
        /\ After(4) <=> (In(3) <=> ~In(8))
        /\ After(5) <=> (In(4) <=> ~In(8))
        /\ After(6) <=> In(5)
        /\ After(7) <=> In(6)
        /\ After(8) <=> In(7)
    <3>1. i + 1 \in 1 .. 7
      OBVIOUS
    <3> QED
      BY <1>0, <3>1, TermsStep, PickedSum
  <2> HIDE DEF In, After
  <2>7. ASSUME NEW y \in 0 .. 7 PROVE y \in TimesAlpha(c) <=> After(y + 1)
    <3>1. y = 0 \/ y = 1 \/ y = 2 \/ y = 3 \/ y = 4 \/ y = 5 \/ y = 6 \/ y = 7
      OBVIOUS
    <3>2. /\ 0 \in c <=> In(1)
          /\ 1 \in c <=> In(2)
          /\ 2 \in c <=> In(3)
          /\ 3 \in c <=> In(4)
          /\ 4 \in c <=> In(5)
          /\ 5 \in c <=> In(6)
          /\ 6 \in c <=> In(7)
          /\ 7 \in c <=> In(8)
      BY <2>5
    <3>3. /\ 0 \in TimesAlpha(c) <=> 7 \in c
          /\ 1 \in TimesAlpha(c) <=> 0 \in c
          /\ 2 \in TimesAlpha(c) <=> (1 \in c <=> ~(7 \in c))
          /\ 3 \in TimesAlpha(c) <=> (2 \in c <=> ~(7 \in c))
          /\ 4 \in TimesAlpha(c) <=> (3 \in c <=> ~(7 \in c))
          /\ 5 \in TimesAlpha(c) <=> 4 \in c
          /\ 6 \in TimesAlpha(c) <=> 5 \in c
          /\ 7 \in TimesAlpha(c) <=> 6 \in c
      BY <2>2, <2>3, <2>4
    <3> QED
      BY <2>6, <3>1, <3>2, <3>3
  <2> QED
    BY <2>1, <2>7 DEF After
<1> HIDE DEF T
<1>3. Nat \subseteq T
  BY <1>1, <1>2, NatSetInduction
<1>4. ASSUME NEW i \in 0 .. 7, NEW y \in 0 .. 7
      PROVE  y \in Raised(a, i) <=> Odd(Picked(a, Terms[y + 1][i + 1]))
  BY <1>3 DEF T
<1> QED
  BY <1>4

\* The largest symbol.
LEMMA ProgramWidth ==
  ASSUME ProgramField
  PROVE  nn = 255
<1>1. PICK s : Digits(0 .. 7, s) /\ Number(0 .. 7) = s[0]
  <2>1. 0 .. 7 \subseteq 0 .. mm
    BY DEF ProgramField
  <2> QED
    BY <2>1, NumberIs
<1>2. s[9] = 0 /\ \A y \in 0 .. 8 : s[y] = 2 * s[y + 1] + (IF y \in 0 .. 7 THEN 1 ELSE 0)
  BY <1>1 DEF Digits, ProgramField
<1>3. s[8] = 0 /\ s[7] = 1 /\ s[6] = 3 /\ s[5] = 7
  BY <1>2
<1>4. s[4] = 15 /\ s[3] = 31 /\ s[2] = 63
  BY <1>2, <1>3
<1>5. s[1] = 127 /\ s[0] = 255
  BY <1>2, <1>4
<1>6. mm - 1 = 7
  BY DEF ProgramField
<1> QED
  BY <1>1, <1>5, <1>6, WidthAssumption

\* What galois computes is the product of the field.
LEMMA GaloisMultiplies ==
  ASSUME ProgramField, NEW n1 \in UChar, NEW n2 \in UChar
  PROVE  galois(n1, n2) = Number(Mul(Bits(n1), Bits(n2)))
<1>1. n1 \in PolyForm /\ n2 \in PolyForm /\ mm - 1 = 7
  BY ProgramWidth DEF UChar, PolyForm, ProgramField
<1>2. PICK a, b : /\ a = Bits(n1) /\ b = Bits(n2) /\ a \in Symbol /\ b \in Symbol
                  /\ IsFiniteSet(a) /\ IsFiniteSet(b) /\ b \subseteq 0 .. 7
  BY <1>1, BitsType, SymbolFinite
<1>3. ASSUME NEW y \in 0 .. 7 PROVE BitOf(y, a, b) = 1 <=> y \in Mul(a, b)
  <2> DEFINE column == [i \in 0 .. 7 |-> Terms[y + 1][i + 1]]
             f == [i \in b |-> Raised(a, i)]
  <2>1. { t \in a \X b : t[1] \in Terms[y + 1][t[2] + 1] } = { t \in a \X b : t[1] \in column[t[2]] }
    BY <1>2
  <2>2. BitOf(y, a, b) = 1 <=> Odd({ t \in a \X b : t[1] \in column[t[2]] })
    BY <2>1 DEF BitOf, Odd
  <2>3. \A i \in b : column[i] = Terms[y + 1][i + 1] /\ i \in 0 .. 7
    BY <1>2
  <2> HIDE DEF column
  <2>4. Odd({ t \in a \X b : t[1] \in column[t[2]] }) <=> Odd({ i \in b : Odd(Picked(a, column[i])) })
    <3>1. PICK n \in Nat : n = 8
      OBVIOUS
    <3>2. b \subseteq 0 .. n - 1
      BY <1>2, <3>1
    <3> QED
      BY <1>2, <3>2, OddPairs
  <2>5. { i \in b : Odd(Picked(a, column[i])) } = { i \in b : y \in Raised(a, i) }
    BY <1>2, <2>3, TermsRaise
  <2>6. { i \in b : y \in Raised(a, i) } = { i \in DOMAIN f : y \in f[i] }
    OBVIOUS
  <2>7. y \in XorSum(f) <=> Odd({ i \in DOMAIN f : y \in f[i] })
    BY <1>1, XorSumBit
  <2>8. Mul(a, b) = XorSum(f)
    BY <1>2, MulIs
  <2> QED
    BY <2>2, <2>4, <2>5, <2>6, <2>7, <2>8
<1>4. Mul(a, b) \subseteq 0 .. 7
  BY <1>1, <1>2, MulType DEF Symbol
<1>5. { y \in 0 .. 7 : BitOf(y, a, b) = 1 } = Mul(a, b)
  BY <1>3, <1>4
<1> QED
  BY <1>2, <1>5 DEF galois

\* galois, written out by hand, and the tables generate_gf computes multiply alike, for
\* every pair of symbols and whatever error correction is asked for.
THEOREM GaloisHolds ==
  ASSUME ProgramField
  PROVE  Spec => []GaloisAgreesWithTables
<1>1. TablesOfTheField => GaloisAgreesWithTables
  <2> SUFFICES ASSUME TablesOfTheField, tabPc = "done", NEW n1 \in UChar, NEW n2 \in UChar
               PROVE  galois(n1, n2) = IF n1 = 0 \/ n2 = 0 THEN 0
                                       ELSE alpha_to[(index_of[n1] + index_of[n2]) % nn]
    BY DEF GaloisAgreesWithTables
  <2>1. n1 \in PolyForm /\ n2 \in PolyForm
    BY ProgramWidth DEF UChar, PolyForm
  <2>2. PICK a, b : /\ a = Bits(n1) /\ b = Bits(n2) /\ a \in Symbol /\ b \in Symbol
                    /\ Number(a) = n1 /\ Number(b) = n2
    BY <2>1, BitsType
  <2>3. galois(n1, n2) = Number(Mul(a, b))
    BY <2>2, GaloisMultiplies
  <2>4. CASE n1 = 0 \/ n2 = 0
    <3>1. a = {} \/ b = {}
      BY <2>2, <2>4, NumberZero
    <3> QED
      BY <2>2, <2>3, <2>4, <3>1, MulZero, BitsZero
  <2>5. CASE n1 # 0 /\ n2 # 0
    <3>1. a # {} /\ b # {}
      BY <2>2, <2>5, NumberZero
    <3>2. PICK x, y : /\ x = Log[a] /\ y = Log[b] /\ x \in 0 .. nn - 1 /\ y \in 0 .. nn - 1
                      /\ IndexOf[n1] = x /\ IndexOf[n2] = y
      BY <2>2, <3>1, LogIs
    <3>3. x # -1 /\ y # -1 /\ x + y \in Nat /\ nn \in Nat \ {0}
      BY <3>2, Widths
    <3>4. (x + y) % nn \in 0 .. nn - 1
      BY <3>3, ModStep
    <3>5. Number(Mul(a, b)) = AlphaTo[(x + y) % nn]
      BY <2>2, <3>2, <3>3, TimesLogs DEF Times
    <3>6. index_of[n1] = x /\ index_of[n2] = y /\ alpha_to[(x + y) % nn] = AlphaTo[(x + y) % nn]
      BY <3>2, <3>4 DEF TablesOfTheField
    <3> QED
      BY <2>3, <2>5, <3>5, <3>6
  <2> QED
    BY <2>4, <2>5
<1> QED
  BY <1>1, TablesHold, PTL

-----------------------------------------------------------------------------
(* encode_rs *)

\* The message as symbols.
Symbolic == AsSymbols(data)

\* The register that the symbols before data[encodeRound] leave.
Before == Register(Symbolic)[kk - 1 - encodeRound]

\* The types of what encode_rs works on; bb[] and the counters keep theirs between calls.
EncodeInv ==
  /\ encodePc \in {"clear", "symbol", "shift", "done", "idle"}
  /\ main = "encode" <=> encodePc # "idle"
  /\ bb \in [0 .. nn - kk - 1 -> PolyForm]
  /\ encodeRound \in -1 .. kk - 1
  /\ cell \in 0 .. nn - kk - 1
  /\ feedback \in PolyForm
  /\ encodePc # "idle" => data \in [0 .. kk - 1 -> PolyForm]

\* The register between two symbols, ...
SymbolInv == encodePc = "symbol" => AsSymbols(bb) = Before

\* ... in the middle of one, the cells above the one being written done and the others
\* not, ...
ShiftInv ==
  encodePc = "shift" =>
    /\ encodeRound >= 0
    /\ Bits(feedback) = Xor(Symbolic[encodeRound], Before[Degree - 1])
    /\ \A x \in 0 .. Degree - 1 :
         Bits(bb[x]) = IF x > cell THEN ShiftIn(Before, Symbolic[encodeRound])[x] ELSE Before[x]

\* ... and at the ends of the call.
EndsInv ==
  /\ encodePc = "clear" => encodeRound = kk - 1
  /\ encodePc = "done" => encodeRound = -1 /\ AsSymbols(bb) = Before

\* The invariant of encode_rs, wherever it is in its loops.
EncoderInv == EncodeInv /\ SymbolInv /\ ShiftInv /\ EndsInv

\* data[] as a message of the reference.
LEMMA SymbolicType ==
  ASSUME data \in [0 .. kk - 1 -> PolyForm]
  PROVE  Symbolic \in Messages
BY AsSymbolsIs DEF Symbolic, Messages

\* Before is cleared at the first symbol, and the next one is a shift of it.
LEMMA BeforeIs ==
  ASSUME Symbolic \in Messages, encodeRound \in -1 .. kk - 1
  PROVE  /\ Before \in Registers
         /\ encodeRound = kk - 1 => Before = Cleared
         /\ encodeRound >= 0 =>
              Register(Symbolic)[kk - 1 - (encodeRound - 1)] = ShiftIn(Before, Symbolic[encodeRound])
<1>0. kk \in Nat /\ kk > 2 /\ encodeRound \in Int
  BY Widths
<1>1. kk - 1 - encodeRound \in 0 .. kk
  BY <1>0
<1>2. Before \in Registers
  BY <1>1, RegisterIs DEF Before
<1>3. encodeRound = kk - 1 => Before = Cleared
  <2>1. encodeRound = kk - 1 => kk - 1 - encodeRound = 0
    BY <1>0
  <2> QED
    BY <2>1, RegisterIs DEF Before
<1>4. ASSUME encodeRound >= 0
      PROVE  Register(Symbolic)[kk - 1 - (encodeRound - 1)] = ShiftIn(Before, Symbolic[encodeRound])
  <2>1. /\ kk - 1 - encodeRound \in 0 .. kk - 1
        /\ (kk - 1 - encodeRound) + 1 = kk - 1 - (encodeRound - 1)
        /\ kk - ((kk - 1 - encodeRound) + 1) = encodeRound
    BY <1>0, <1>4
  <2> QED
    BY <2>1, RegisterIs DEF Before
<1> QED
  BY <1>2, <1>3, <1>4

\* What the register gets in one cell.
LEMMA FedIs ==
  ASSUME feedback \in PolyForm, NEW x \in 0 .. nn - kk
  PROVE  Fed(x) \in PolyForm /\ Bits(Fed(x)) = Mul(Generator[x], Bits(feedback))
<1>1. Bits(AlphaTo[GG[x]]) = Generator[x] /\ Generator[x] \in Symbol /\ Bits(feedback) \in Symbol
  BY CoefficientIs, BitsType
<1>2. Mul(Generator[x], Bits(feedback)) \in Symbol
  BY <1>1, MulType
<1> QED
  BY <1>1, <1>2, NumberType DEF Fed

-----------------------------------------------------------------------------

\* bb[] is cleared, whatever the last call left in it.
LEMMA ClearStep ==
  ASSUME EncoderInv, main = "encode", Clear, UNCHANGED main
  PROVE  EncoderInv'
<1>1. /\ encodePc = "clear" /\ encodePc' = "symbol"
      /\ bb' = [x \in 0 .. nn - kk - 1 |-> 0]
      /\ data' = data /\ encodeRound' = encodeRound /\ cell' = cell /\ feedback' = feedback
      /\ main' = main
  BY DEF Clear
<1>2. EncodeInv'
  <2>1. bb' \in [0 .. nn - kk - 1 -> PolyForm]
    BY <1>1, Widths DEF PolyForm
  <2> QED
    BY <1>1, <2>1 DEF EncoderInv, EncodeInv
<1>3. SymbolInv'
  <2>1. encodeRound = kk - 1 /\ encodeRound \in -1 .. kk - 1 /\ Symbolic \in Messages
    BY <1>1, SymbolicType DEF EncoderInv, EndsInv, EncodeInv
  <2>2. Before = Cleared
    BY <2>1, BeforeIs
  <2>3. AsSymbols(bb') = Cleared
    <3>1. AsSymbols(bb') = [x \in 0 .. nn - kk - 1 |-> Bits(0)]
      BY <1>1 DEF AsSymbols
    <3> QED
      BY <3>1, BitsZero DEF Cleared, Degree, NoBit
  <2>4. Before' = Before
    BY <1>1 DEF Before, Symbolic
  <2> QED
    BY <2>2, <2>3, <2>4 DEF SymbolInv
<1>4. ShiftInv' /\ EndsInv'
  BY <1>1 DEF ShiftInv, EndsInv
<1> QED
  BY <1>2, <1>3, <1>4 DEF EncoderInv

\* The feedback of the symbol is computed.
LEMMA FeedbackStep ==
  ASSUME EncoderInv, main = "encode", Feedback, UNCHANGED main
  PROVE  EncoderInv'
<1>1. /\ encodePc = "symbol" /\ encodePc' = "shift" /\ encodeRound >= 0
      /\ feedback' = data[encodeRound] ^^ bb[nn - kk - 1]
      /\ cell' = nn - kk - 1
      /\ data' = data /\ bb' = bb /\ encodeRound' = encodeRound /\ main' = main
  BY DEF Feedback
<1>2. /\ data \in [0 .. kk - 1 -> PolyForm] /\ bb \in [0 .. nn - kk - 1 -> PolyForm]
      /\ encodeRound \in 0 .. kk - 1 /\ nn - kk - 1 \in 0 .. nn - kk - 1
      /\ AsSymbols(bb) = Before
  BY <1>1, Widths DEF EncoderInv, EncodeInv, SymbolInv
<1>3. /\ feedback' \in PolyForm
      /\ Bits(feedback') = Xor(Bits(data[encodeRound]), Bits(bb[nn - kk - 1]))
  <2>1. data[encodeRound] \in PolyForm /\ bb[nn - kk - 1] \in PolyForm
    BY <1>2
  <2> QED
    BY <1>1, <2>1, XorInts
<1>4. \A x \in 0 .. nn - kk - 1 : Bits(bb[x]) = Before[x]
  <2>1. /\ bb \in [0 .. nn - kk - 1 -> PolyForm] /\ AsSymbols(bb) = Before
    BY <1>2
  <2>2. \A x \in 0 .. nn - kk - 1 : AsSymbols(bb)[x] = Bits(bb[x])
    BY <2>1, AsSymbolsIs
  <2> QED
    BY <2>1, <2>2
<1>5. Symbolic[encodeRound] = Bits(data[encodeRound])
  <2> DEFINE D == 0 .. kk - 1
  <2>1. data \in [D -> PolyForm] /\ encodeRound \in D
    BY <1>2
  <2> HIDE DEF D
  <2>2. AsSymbols(data)[encodeRound] = Bits(data[encodeRound])
    BY <2>1, AsSymbolsAt
  <2> QED
    BY <2>2 DEF Symbolic
<1>6. Before' = Before /\ Symbolic' = Symbolic
  BY <1>1 DEF Before, Symbolic
<1>7. EncodeInv'
  BY <1>1, <1>2, <1>3 DEF EncoderInv, EncodeInv
<1>8. ShiftInv'
  <2>1. Bits(feedback') = Xor(Symbolic'[encodeRound'], Before'[Degree - 1])
    BY <1>1, <1>2, <1>3, <1>4, <1>5, <1>6 DEF Degree
  <2>2. \A x \in 0 .. Degree - 1 : ~(x > cell') /\ Bits(bb'[x]) = Before'[x]
    BY <1>1, <1>4, <1>6, Widths DEF Degree
  <2> QED
    BY <1>1, <2>1, <2>2 DEF ShiftInv
<1>9. SymbolInv' /\ EndsInv'
  BY <1>1 DEF SymbolInv, EndsInv
<1> QED
  BY <1>7, <1>8, <1>9 DEF EncoderInv

\* The value a cell of the register gets is that of the reference.
LEMMA CellIs ==
  ASSUME EncoderInv, encodePc = "shift"
  PROVE  /\ feedback = 0 => Bits(feedback) = {}
         /\ \A x \in 1 .. nn - kk - 1 :
              x = cell =>
                LET v == IF feedback # 0 THEN bb[x - 1] ^^ Fed(x) ELSE bb[x - 1]
                IN  v \in PolyForm /\ Bits(v) = ShiftIn(Before, Symbolic[encodeRound])[x]
         /\ LET v == IF feedback # 0 THEN Fed(0) ELSE 0
            IN  v \in PolyForm /\ Bits(v) = ShiftIn(Before, Symbolic[encodeRound])[0]
<1>0. /\ data \in [0 .. kk - 1 -> PolyForm] /\ bb \in [0 .. nn - kk - 1 -> PolyForm]
      /\ encodeRound \in 0 .. kk - 1 /\ feedback \in PolyForm /\ cell \in 0 .. nn - kk - 1
      /\ encodeRound \in -1 .. kk - 1
  BY Widths DEF EncoderInv, EncodeInv, ShiftInv
<1>1. Symbolic \in Messages /\ Before \in Registers /\ Symbolic[encodeRound] \in Symbol
  <2>1. Symbolic \in Messages
    BY <1>0, SymbolicType
  <2>2. Before \in Registers
    BY <1>0, <2>1, BeforeIs
  <2> QED
    BY <1>0, <2>1, <2>2 DEF Messages
<1>2. Bits(feedback) = Xor(Symbolic[encodeRound], Before[Degree - 1]) /\ Bits(feedback) \in Symbol
  BY <1>0, BitsType DEF EncoderInv, ShiftInv
<1>3. \A x \in 0 .. Degree - 1 : ~(x > cell) => Bits(bb[x]) = Before[x]
  BY DEF EncoderInv, ShiftInv
<1>4. \A x \in 0 .. Degree - 1 :
        ShiftIn(Before, Symbolic[encodeRound])[x] =
          Xor(IF x = 0 THEN {} ELSE Before[x - 1], Mul(Generator[x], Bits(feedback)))
  BY <1>1, <1>2, ShiftInIs
<1>5. Degree = nn - kk /\ Degree \in Nat /\ Degree > 1
  BY Widths DEF Degree
<1>6. feedback = 0 => Bits(feedback) = {}
  BY BitsZero
<1>7. ASSUME NEW x \in 0 .. nn - kk - 1, feedback = 0
      PROVE  Mul(Generator[x], Bits(feedback)) = {}
  <2>1. x \in 0 .. nn - kk /\ Generator[x] \in Symbol
    BY <1>5, CoefficientIs
  <2> QED
    BY <1>6, <1>7, <2>1, MulZero
<1>8. ASSUME NEW x \in 0 .. nn - kk - 1
      PROVE  Fed(x) \in PolyForm /\ Bits(Fed(x)) = Mul(Generator[x], Bits(feedback))
  <2>1. x \in 0 .. nn - kk
    BY <1>5
  <2> QED
    BY <1>0, <2>1, FedIs
<1>9. ASSUME NEW x \in 1 .. nn - kk - 1, x = cell
      PROVE  LET v == IF feedback # 0 THEN bb[x - 1] ^^ Fed(x) ELSE bb[x - 1]
             IN  v \in PolyForm /\ Bits(v) = ShiftIn(Before, Symbolic[encodeRound])[x]
  <2>1. /\ x - 1 \in 0 .. Degree - 1 /\ ~(x - 1 > cell) /\ x # 0 /\ x \in 0 .. Degree - 1
        /\ x \in 0 .. nn - kk - 1 /\ x - 1 \in 0 .. nn - kk - 1
    BY <1>5, <1>9
  <2>2. bb[x - 1] \in PolyForm /\ Bits(bb[x - 1]) = Before[x - 1]
    BY <1>0, <1>3, <2>1
  <2>3. ShiftIn(Before, Symbolic[encodeRound])[x] = Xor(Before[x - 1], Mul(Generator[x], Bits(feedback)))
    BY <1>4, <2>1
  <2>4. CASE feedback # 0
    <3>1. /\ bb[x - 1] ^^ Fed(x) \in PolyForm
          /\ Bits(bb[x - 1] ^^ Fed(x)) = Xor(Bits(bb[x - 1]), Bits(Fed(x)))
      BY <1>8, <2>1, <2>2, XorInts
    <3> QED
      BY <1>8, <2>1, <2>2, <2>3, <2>4, <3>1
  <2>5. CASE feedback = 0
    <3>1. Xor(Before[x - 1], Mul(Generator[x], Bits(feedback))) = Before[x - 1]
      <4>1. Bits(feedback) = {} /\ Mul(Generator[x], Bits(feedback)) = {}
        BY <1>6, <1>7, <2>1, <2>5
      <4> QED
        BY <4>1, XorZero
    <3> QED
      BY <2>2, <2>3, <2>5, <3>1
  <2> QED
    BY <2>4, <2>5
<1>10. LET v == IF feedback # 0 THEN Fed(0) ELSE 0
       IN  v \in PolyForm /\ Bits(v) = ShiftIn(Before, Symbolic[encodeRound])[0]
  <2>1. 0 \in 0 .. Degree - 1 /\ 0 \in 0 .. nn - kk - 1 /\ 0 \in PolyForm
    BY <1>5, Widths DEF PolyForm
  <2>2. ShiftIn(Before, Symbolic[encodeRound])[0] = Mul(Generator[0], Bits(feedback))
    BY <1>4, <2>1, XorFacts
  <2>3. CASE feedback # 0
    BY <1>8, <2>1, <2>2, <2>3
  <2>4. CASE feedback = 0
    BY <1>7, <2>1, <2>2, <2>4, BitsZero
  <2> QED
    BY <2>3, <2>4
<1> QED
  BY <1>6, <1>9, <1>10

\* A cell gets the one below it.
LEMMA ShiftStep ==
  ASSUME EncoderInv, main = "encode", Shift, UNCHANGED main
  PROVE  EncoderInv'
<1>1. /\ encodePc = "shift" /\ cell > 0 /\ encodePc' = encodePc
      /\ bb' = [bb EXCEPT ![cell] = IF feedback # 0 THEN bb[cell - 1] ^^ Fed(cell) ELSE bb[cell - 1]]
      /\ cell' = cell - 1
      /\ data' = data /\ encodeRound' = encodeRound /\ feedback' = feedback /\ main' = main
  BY DEF Shift
<1>2. /\ bb \in [0 .. nn - kk - 1 -> PolyForm] /\ cell \in 1 .. nn - kk - 1
      /\ nn - kk \in Nat /\ Degree = nn - kk
  BY <1>1, Widths DEF EncoderInv, EncodeInv, Degree
<1>3. PICK v \in PolyForm :
        /\ v = (IF feedback # 0 THEN bb[cell - 1] ^^ Fed(cell) ELSE bb[cell - 1])
        /\ Bits(v) = ShiftIn(Before, Symbolic[encodeRound])[cell]
  BY <1>1, <1>2, CellIs
<1>4. bb' = [bb EXCEPT ![cell] = v] /\ bb' \in [0 .. nn - kk - 1 -> PolyForm]
  BY <1>1, <1>2, <1>3
<1>5. Before' = Before /\ Symbolic' = Symbolic
  BY <1>1 DEF Before, Symbolic
<1>6. EncodeInv'
  <2>1. cell' \in 0 .. nn - kk - 1
    BY <1>1, <1>2
  <2> QED
    BY <1>1, <1>4, <2>1 DEF EncoderInv, EncodeInv
<1>7. ShiftInv'
  <2>1. \A x \in 0 .. Degree - 1 :
          Bits(bb[x]) = IF x > cell THEN ShiftIn(Before, Symbolic[encodeRound])[x] ELSE Before[x]
    BY <1>1 DEF EncoderInv, ShiftInv
  <2>2. ASSUME NEW x \in 0 .. Degree - 1
        PROVE  Bits(bb'[x]) =
                 IF x > cell' THEN ShiftIn(Before, Symbolic[encodeRound])[x] ELSE Before[x]
    <3>1. CASE x = cell
      <4>1. x > cell' /\ bb'[x] = v
        BY <1>1, <1>2, <1>4, <3>1
      <4> QED
        BY <1>3, <3>1, <4>1
    <3>2. CASE x # cell
      <4>1. bb'[x] = bb[x] /\ (x > cell' <=> x > cell)
        BY <1>1, <1>2, <1>4, <3>2
      <4> QED
        BY <2>1, <4>1
    <3> QED
      BY <3>1, <3>2
  <2>3. encodeRound >= 0 /\ Bits(feedback) = Xor(Symbolic[encodeRound], Before[Degree - 1])
    BY <1>1 DEF EncoderInv, ShiftInv
  <2> QED
    BY <1>1, <1>5, <2>2, <2>3 DEF ShiftInv
<1>8. SymbolInv' /\ EndsInv'
  BY <1>1 DEF SymbolInv, EndsInv
<1> QED
  BY <1>6, <1>7, <1>8 DEF EncoderInv

\* The lowest cell ends the symbol: the register is that of one symbol more.
LEMMA ShiftLowestStep ==
  ASSUME EncoderInv, main = "encode", ShiftLowest, UNCHANGED main
  PROVE  EncoderInv'
<1>1. /\ encodePc = "shift" /\ cell = 0 /\ encodePc' = "symbol"
      /\ bb' = [bb EXCEPT ![0] = IF feedback # 0 THEN Fed(0) ELSE 0]
      /\ encodeRound' = encodeRound - 1
      /\ data' = data /\ cell' = cell /\ feedback' = feedback /\ main' = main
  BY DEF ShiftLowest
<1>2. /\ bb \in [0 .. nn - kk - 1 -> PolyForm] /\ encodeRound \in 0 .. kk - 1
      /\ encodeRound \in -1 .. kk - 1 /\ data \in [0 .. kk - 1 -> PolyForm]
      /\ nn - kk \in Nat /\ nn - kk > 1 /\ Degree = nn - kk
  BY <1>1, Widths DEF EncoderInv, EncodeInv, ShiftInv, Degree
<1>3. PICK v \in PolyForm :
        /\ v = (IF feedback # 0 THEN Fed(0) ELSE 0)
        /\ Bits(v) = ShiftIn(Before, Symbolic[encodeRound])[0]
  BY <1>1, <1>2, CellIs
<1>4. bb' = [bb EXCEPT ![0] = v] /\ bb' \in [0 .. nn - kk - 1 -> PolyForm]
  BY <1>1, <1>2, <1>3
<1>5. Symbolic \in Messages /\ Symbolic' = Symbolic /\ Symbolic[encodeRound] \in Symbol
  BY <1>1, <1>2, SymbolicType DEF Symbolic, Messages
<1>6. EncodeInv'
  <2>1. encodeRound' \in -1 .. kk - 1
    BY <1>1, <1>2, Widths
  <2> QED
    BY <1>1, <1>4, <2>1 DEF EncoderInv, EncodeInv
<1>7. SymbolInv'
  <2>1. \A x \in 0 .. Degree - 1 :
          Bits(bb[x]) = IF x > cell THEN ShiftIn(Before, Symbolic[encodeRound])[x] ELSE Before[x]
    BY <1>1 DEF EncoderInv, ShiftInv
  <2>2. PICK c \in Registers : c = ShiftIn(Before, Symbolic[encodeRound])
    BY <1>2, <1>5, BeforeIs, ShiftInType
  <2>3. ASSUME NEW x \in 0 .. nn - kk - 1 PROVE Bits(bb'[x]) = c[x]
    <3>1. CASE x = 0
      BY <1>2, <1>3, <1>4, <2>2, <3>1
    <3>2. CASE x # 0
      <4>1. bb'[x] = bb[x] /\ x > cell /\ x \in 0 .. Degree - 1
        BY <1>1, <1>2, <1>4, <3>2
      <4> QED
        BY <2>1, <2>2, <4>1
    <3> QED
      BY <3>1, <3>2
  <2>4. AsSymbols(bb') = c
    <3>1. AsSymbols(bb') = [x \in 0 .. nn - kk - 1 |-> Bits(bb'[x])]
      BY <1>4 DEF AsSymbols
    <3>2. c = [x \in 0 .. nn - kk - 1 |-> c[x]]
      BY <1>2, <2>2 DEF Registers
    <3> QED
      BY <2>3, <3>1, <3>2
  <2>5. Before' = Register(Symbolic)[kk - 1 - (encodeRound - 1)]
    BY <1>1, <1>5 DEF Before
  <2>6. Before' = c
    BY <1>2, <1>5, <2>2, <2>5, BeforeIs
  <2> QED
    BY <2>4, <2>6 DEF SymbolInv
<1>8. ShiftInv' /\ EndsInv'
  BY <1>1 DEF ShiftInv, EndsInv
<1> QED
  BY <1>6, <1>7, <1>8 DEF EncoderInv

\* After the last symbol the call returns.
LEMMA ReturnStep ==
  ASSUME EncoderInv, main = "encode", Return, UNCHANGED main
  PROVE  EncoderInv'
<1>1. /\ encodePc = "symbol" /\ encodeRound = -1 /\ encodePc' = "done"
      /\ bb' = bb /\ data' = data /\ encodeRound' = encodeRound /\ cell' = cell
      /\ feedback' = feedback /\ main' = main
  BY DEF Return
<1>2. Before' = Before
  BY <1>1 DEF Before, Symbolic
<1>3. AsSymbols(bb) = Before
  BY <1>1 DEF EncoderInv, SymbolInv
<1> QED
  BY <1>1, <1>2, <1>3 DEF EncoderInv, EncodeInv, SymbolInv, ShiftInv, EndsInv

\* What no step of the encoder's call does: its variables stay, or it is not running.
LEMMA EncoderUnchanged ==
  ASSUME EncoderInv, UNCHANGED encodeVars, main' = "encode" <=> main = "encode"
  PROVE  EncoderInv'
<1>1. Before' = Before /\ Symbolic' = Symbolic
  BY DEF Before, Symbolic, encodeVars
<1>2. EncodeInv' /\ SymbolInv' /\ ShiftInv' /\ EndsInv'
  BY <1>1 DEF EncoderInv, EncodeInv, SymbolInv, ShiftInv, EndsInv, encodeVars
<1> QED
  BY <1>2 DEF EncoderInv

-----------------------------------------------------------------------------
\* As many indices are used as errors were drawn.
ChannelInv ==
  /\ errors \in 0 .. tt
  /\ IsFiniteSet(error_status)
  /\ main = "channel" => Cardinality(error_status) = drawn

\* The inductive invariant.
IInv == EncoderInv /\ ChannelInv

\* It holds at first,
LEMMA InitIInv == Init => IInv
<1> SUFFICES ASSUME Init PROVE IInv
  OBVIOUS
<1>1. EncoderInv
  <2>1. bb \in [0 .. nn - kk - 1 -> PolyForm]
    BY Widths DEF Init, EncodeInit, PolyForm
  <2>2. EncodeInv
    BY <2>1, Widths DEF Init, EncodeInit, EncodeInv, PolyForm
  <2> QED
    BY <2>2 DEF Init, EncodeInit, EncoderInv, SymbolInv, ShiftInv, EndsInv
<1>2. ChannelInv
  BY FS_EmptySet, Widths DEF Init, ChannelInv
<1> QED
  BY <1>1, <1>2 DEF IInv

\* every step of the program keeps it,
LEMMA NextIInv == IInv /\ [Next]_vars => IInv'
<1> SUFFICES ASSUME IInv, [Next]_vars PROVE IInv'
  OBVIOUS
<1>0. EncoderInv /\ ChannelInv
  BY DEF IInv
<1>1. CASE UNCHANGED vars
  <2>1. EncoderInv'
    BY <1>0, <1>1, EncoderUnchanged DEF vars
  <2>2. ChannelInv'
    BY <1>0, <1>1 DEF ChannelInv, vars, mainVars
  <2> QED
    BY <2>1, <2>2 DEF IInv
<1>2. CASE GenerateTables
  <2>1. UNCHANGED encodeVars /\ main' = main /\ errors' = errors /\ error_status' = error_status /\ drawn' = drawn
    BY <1>2 DEF GenerateTables, mainVars
  <2>2. EncoderInv'
    BY <1>0, <2>1, EncoderUnchanged
  <2> QED
    BY <1>0, <2>1, <2>2 DEF IInv, ChannelInv
<1>3. CASE TablesDone
  <2>1. /\ UNCHANGED encodeVars /\ main = "tables" /\ main' = "vector"
        /\ errors' = errors /\ error_status' = error_status /\ drawn' = drawn
    BY <1>3 DEF TablesDone, mainVars
  <2>2. EncoderInv'
    BY <1>0, <2>1, EncoderUnchanged
  <2> QED
    BY <1>0, <2>1, <2>2 DEF IInv, ChannelInv
<1>4. CASE NewVector
  <2>1. PICK v \in RandomData(errors) : EncodeCall(v)
    BY <1>4 DEF NewVector
  <2>2. /\ main = "vector" /\ main' = "encode" /\ errors' = errors /\ error_status' = error_status /\ drawn' = drawn
        /\ vectors < NB_VECTORS
    BY <1>4 DEF NewVector, mainVars
  <2>3. /\ encodePc' = "clear" /\ encodeRound' = kk - 1 /\ data' = v
        /\ cell' = cell /\ feedback' = feedback /\ bb' = bb
    BY <2>1 DEF EncodeCall
  <2>4. v \in [0 .. kk - 1 -> PolyForm]
    BY <1>0, VectorAssumption DEF ChannelInv
  <2>5. EncodeInv'
    BY <1>0, <2>2, <2>3, <2>4, Widths DEF EncoderInv, EncodeInv
  <2>6. SymbolInv' /\ ShiftInv' /\ EndsInv'
    BY <2>3 DEF SymbolInv, ShiftInv, EndsInv
  <2> QED
    BY <1>0, <2>2, <2>5, <2>6 DEF IInv, EncoderInv, ChannelInv
<1>5. CASE EncodeVector
  <2>1. /\ main = "encode" /\ main' = main /\ errors' = errors /\ error_status' = error_status /\ drawn' = drawn
        /\ EncodeStep
    BY <1>5 DEF EncodeVector, mainVars
  <2>2. EncoderInv'
    BY <1>0, <2>1, ClearStep, FeedbackStep, ShiftStep, ShiftLowestStep, ReturnStep DEF EncodeStep
  <2> QED
    BY <1>0, <2>1, <2>2 DEF IInv, ChannelInv
<1>6. CASE Transmit
  <2>1. /\ encodePc' = "idle" /\ main' = "channel" /\ errors' = errors /\ error_status' = {} /\ drawn' = 0
        /\ encodeRound' = encodeRound /\ cell' = cell /\ feedback' = feedback /\ bb' = bb
    BY <1>6 DEF Transmit, EncodeReturned
  <2>2. EncoderInv'
    BY <1>0, <2>1 DEF EncoderInv, EncodeInv, SymbolInv, ShiftInv, EndsInv
  <2>3. ChannelInv'
    BY <1>0, <2>1, FS_EmptySet DEF ChannelInv
  <2> QED
    BY <2>2, <2>3 DEF IInv
<1>7. CASE Draw
  <2>1. PICK x \in RandomIndex(errors) \ error_status : error_status' = error_status \cup {x}
    BY <1>7 DEF Draw
  <2>2. /\ main = "channel" /\ main' = main /\ errors' = errors /\ drawn' = drawn + 1
        /\ encodePc' = encodePc /\ encodeRound' = encodeRound /\ cell' = cell
        /\ feedback' = feedback /\ bb' = bb
    BY <1>7 DEF Draw
  <2>3. EncoderInv'
    BY <1>0, <2>2 DEF EncoderInv, EncodeInv, SymbolInv, ShiftInv, EndsInv
  <2>4. ChannelInv'
    <3>1. x \notin error_status /\ IsFiniteSet(error_status)
      BY <1>0 DEF ChannelInv
    <3>2. /\ IsFiniteSet(error_status \cup {x})
          /\ Cardinality(error_status \cup {x}) = Cardinality(error_status) + 1
      BY <3>1, FS_AddElement
    <3> QED
      BY <1>0, <2>1, <2>2, <3>2 DEF ChannelInv
  <2> QED
    BY <2>3, <2>4 DEF IInv
<1>8. CASE DrawAgain
  BY <1>0, <1>1, <1>8 DEF DrawAgain
<1>9. CASE CallDecode
  <2>1. /\ UNCHANGED encodeVars /\ main = "channel" /\ main' = "decode"
        /\ errors' = errors /\ error_status' = error_status /\ drawn' = drawn
    BY <1>9 DEF CallDecode, mainVars
  <2>2. EncoderInv'
    BY <1>0, <2>1, EncoderUnchanged
  <2> QED
    BY <1>0, <2>1, <2>2 DEF IInv, ChannelInv
<1>10. CASE DecodeVector
  <2>1. UNCHANGED encodeVars /\ main' = main /\ errors' = errors /\ error_status' = error_status /\ drawn' = drawn
    BY <1>10 DEF DecodeVector, mainVars
  <2>2. EncoderInv'
    BY <1>0, <2>1, EncoderUnchanged
  <2> QED
    BY <1>0, <2>1, <2>2 DEF IInv, ChannelInv
<1>11. CASE Compare
  <2>1. /\ UNCHANGED encodeVars /\ main = "decode" /\ main' = "vector"
        /\ errors' = errors /\ error_status' = error_status /\ drawn' = drawn
    BY <1>11 DEF Compare
  <2>2. EncoderInv'
    BY <1>0, <2>1, EncoderUnchanged
  <2> QED
    BY <1>0, <2>1, <2>2 DEF IInv, ChannelInv
<1>12. CASE NextErrorCount
  <2>1. UNCHANGED encodeVars /\ main' = main /\ errors' = errors + 1 /\ errors < tt /\ error_status' = error_status /\ drawn' = drawn
    BY <1>12 DEF NextErrorCount
  <2>2. EncoderInv'
    BY <1>0, <2>1, EncoderUnchanged
  <2>3. ChannelInv'
    BY <1>0, <2>1, Widths DEF ChannelInv
  <2> QED
    BY <2>2, <2>3 DEF IInv
<1>13. CASE Stop
  <2>1. /\ UNCHANGED encodeVars /\ main = "vector" /\ main' = "stop"
        /\ errors' = errors /\ error_status' = error_status /\ drawn' = drawn
    BY <1>13 DEF Stop, mainVars
  <2>2. EncoderInv'
    BY <1>0, <2>1, EncoderUnchanged
  <2> QED
    BY <1>0, <2>1, <2>2 DEF IInv, ChannelInv
<1> QED
  BY <1>1, <1>2, <1>3, <1>4, <1>5, <1>6, <1>7, <1>8, <1>9, <1>10, <1>11, <1>12, <1>13 DEF Next

\* and so it holds always.
LEMMA Invariance == Spec => []IInv
BY InitIInv, NextIInv, PTL DEF Spec

-----------------------------------------------------------------------------
\* An index of the received word is never hit twice: the draws are as many as the
\* indices used.
THEOREM UsedOnceHolds == Spec => []UsedOnce
<1>1. IInv => UsedOnce
  BY DEF IInv, ChannelInv, UsedOnce
<1> QED
  BY <1>1, Invariance, PTL

\* After each symbol what was encoded so far is a multiple of the generator.
THEOREM RemainderHolds == Spec => []RemainderSoFar
<1>1. IInv => RemainderSoFar
  <2> SUFFICES ASSUME EncoderInv, encodePc = "symbol", NEW r \in 0 .. nn - kk - 1
               PROVE  ValueOf(SoFar, r) = 0
    BY DEF IInv, RemainderSoFar
  <2>1. /\ data \in [0 .. kk - 1 -> PolyForm] /\ bb \in [0 .. nn - kk - 1 -> PolyForm]
        /\ encodeRound \in -1 .. kk - 1 /\ AsSymbols(bb) = Before
    BY DEF EncoderInv, EncodeInv, SymbolInv
  <2>2. PICK i \in 0 .. kk : i = kk - 1 - encodeRound /\ encodeRound = kk - 1 - i
    <3>1. kk - 1 - encodeRound \in 0 .. kk /\ encodeRound = kk - 1 - (kk - 1 - encodeRound)
      BY <2>1, Widths
    <3> QED
      BY <3>1
  <2>3. Symbolic \in Messages
    BY <2>1, SymbolicType
  <2>4. PICK n \in Nat : n = Degree - 1 + i /\ n = nn - 2 - encodeRound
    <3>1. Degree - 1 + i \in Nat /\ Degree - 1 + i = nn - 2 - encodeRound
      BY <2>2, Widths DEF Degree
    <3> QED
      BY <3>1
  <2>5. ASSUME NEW e \in 0 .. n
        PROVE  /\ SoFar[e] \in PolyForm
               /\ Bits(SoFar[e]) = Prefix(Symbolic, i)[e]
    <3>0. /\ e \in 0 .. nn - 2 - encodeRound /\ e \in 0 .. Degree - 1 + i
          /\ SoFar[e] = IF e < nn - kk THEN bb[e] ELSE data[encodeRound + 1 + e - (nn - kk)]
          /\ Prefix(Symbolic, i)[e] =
               IF e < Degree THEN Register(Symbolic)[i][e] ELSE Symbolic[kk - i + (e - Degree)]
      BY <2>4 DEF SoFar, Prefix
    <3>1. CASE e < nn - kk
      <4>1. e \in 0 .. nn - kk - 1 /\ e < Degree
        BY <3>1, Widths DEF Degree
      <4>2. bb[e] \in PolyForm /\ Bits(bb[e]) = Before[e]
        <5> DEFINE D == 0 .. nn - kk - 1
        <5>1. bb \in [D -> PolyForm] /\ AsSymbols(bb) = Before /\ e \in D
          BY <2>1, <4>1
        <5> HIDE DEF D
        <5>2. bb[e] \in PolyForm /\ AsSymbols(bb)[e] = Bits(bb[e])
          BY <5>1, AsSymbolsAt
        <5> QED
          BY <5>1, <5>2
      <4> QED
        BY <2>2, <3>0, <3>1, <4>1, <4>2 DEF Before
    <3>2. CASE ~(e < nn - kk)
      <4>1. /\ encodeRound + 1 + e - (nn - kk) \in 0 .. kk - 1 /\ ~(e < Degree)
            /\ kk - i + (e - Degree) = encodeRound + 1 + e - (nn - kk)
        BY <2>1, <2>2, <2>4, <3>2, Widths DEF Degree
      <4>2. PICK q \in 0 .. kk - 1 : q = encodeRound + 1 + e - (nn - kk) /\ q = kk - i + (e - Degree)
        BY <4>1
      <4>3. data[q] \in PolyForm /\ Symbolic[q] = Bits(data[q])
        <5> DEFINE D == 0 .. kk - 1
        <5>1. data \in [D -> PolyForm] /\ q \in D
          BY <2>1
        <5> HIDE DEF D
        <5> QED
          BY <5>1, AsSymbolsAt DEF Symbolic
      <4> QED
        BY <3>0, <3>2, <4>1, <4>2, <4>3
    <3> QED
      BY <3>1, <3>2
  <2>6. SoFar \in [0 .. n -> PolyForm]
    <3>1. SoFar = [e \in 0 .. n |-> SoFar[e]]
      BY <2>4 DEF SoFar
    <3> HIDE DEF SoFar
    <3> QED
      BY <2>5, <3>1
  <2>7. AsSymbols(SoFar) = Prefix(Symbolic, i)
    <3>1. AsSymbols(SoFar) = [e \in 0 .. n |-> Bits(SoFar[e])]
      BY <2>6 DEF AsSymbols
    <3>2. Prefix(Symbolic, i) = [e \in 0 .. n |-> Prefix(Symbolic, i)[e]]
      BY <2>4 DEF Prefix
    <3> QED
      BY <2>5, <3>1, <3>2
  <2>8. r \in Nat /\ r \in 0 .. Degree - 1
    BY Widths DEF Degree
  <2>9. ValueOf(SoFar, r) = Number(ValueAt(AsSymbols(SoFar), r))
    BY <2>6, <2>8, ValueOfIs
  <2>10. ValueAt(Prefix(Symbolic, i), r) = {}
    BY <2>3, <2>8, PrefixRoots
  <2> QED
    BY <2>7, <2>9, <2>10, BitsZero
<1> QED
  BY <1>1, Invariance, PTL

\* What encode_rs leaves is the parity of the reference, and the word the caller puts
\* together from it is a codeword.
THEOREM SentIsACodewordHolds == Spec => []SentIsACodeword
<1>1. IInv => SentIsACodeword
  <2> SUFFICES ASSUME EncoderInv, encodePc = "done"
               PROVE  /\ AsSymbols(bb) = EncodeRS(AsSymbols(data))
                      /\ \A r \in 1 .. nn - kk :
                           Syndromes(Arranged(AsSymbols(data), AsSymbols(bb)))[r] = NoBit
    BY DEF IInv, SentIsACodeword
  <2>1. data \in [0 .. kk - 1 -> PolyForm] /\ encodeRound = -1 /\ AsSymbols(bb) = Before
    BY DEF EncoderInv, EncodeInv, EndsInv
  <2>2. Symbolic \in Messages
    BY <2>1, SymbolicType
  <2>3. AsSymbols(bb) = EncodeRS(Symbolic)
    <3>1. kk - 1 - encodeRound = kk
      BY <2>1, Widths
    <3> QED
      BY <2>1, <3>1 DEF Before, EncodeRS
  <2>4. IsCodeword(SentWord(Symbolic))
    BY <2>2, SentIsCodeword
  <2> QED
    BY <2>3, <2>4 DEF IsCodeword, SentWord, Symbolic
<1> QED
  BY <1>1, Invariance, PTL

-----------------------------------------------------------------------------
(* From the message to the comparison *)

\* Two codewords near one word are the same.
LEMMA OneCodeword ==
  ASSUME NEW v \in IntWords, NEW w \in IntWords, NEW r \in IntWords, ~HasError(v), ~HasError(w),
         Cardinality(Differ(v, r)) <= tt, Cardinality(Differ(w, r)) <= tt
  PROVE  v = w
<1>0. nn - 1 \in Nat /\ tt \in Nat
  BY Bounds
<1>1. IsFiniteSet(Differ(v, r)) /\ IsFiniteSet(Differ(w, r))
  <2>1. IsFiniteSet(0 .. nn - 1)
    BY <1>0, FS_Interval
  <2> QED
    BY <2>1, FS_Subset DEF Differ
<1>2. AsSymbols(v) \in Words /\ AsSymbols(w) \in Words /\ IsCodeword(AsSymbols(v)) /\ IsCodeword(AsSymbols(w))
  BY SynIs, NoErrorIs
<1> DEFINE D == { k \in 0 .. nn - 1 : AsSymbols(v)[k] # AsSymbols(w)[k] }
<1>3. D \subseteq Differ(v, r) \cup Differ(w, r)
  <2> SUFFICES ASSUME NEW k \in 0 .. nn - 1, v[k] = r[k], w[k] = r[k]
               PROVE  AsSymbols(v)[k] = AsSymbols(w)[k]
    BY DEF Differ
  <2> QED
    BY AsSymbolsAt DEF IntWords
<1>4. Cardinality(D) <= 2 * tt
  <2> HIDE DEF D
  <2>1. PICK a, b : /\ a = Cardinality(Differ(v, r)) /\ b = Cardinality(Differ(w, r))
                    /\ a \in Nat /\ b \in Nat /\ a <= tt /\ b <= tt
    BY <1>1, FS_CardinalityType
  <2> DEFINE U == Differ(v, r) \cup Differ(w, r)
  <2>2. /\ IsFiniteSet(U)
        /\ Cardinality(U) = a + b - Cardinality(Differ(v, r) \cap Differ(w, r))
    BY <1>1, <2>1, FS_Union
  <2>3. Cardinality(Differ(v, r) \cap Differ(w, r)) \in Nat
    <3>1. IsFiniteSet(Differ(v, r) \cap Differ(w, r))
      BY <1>1, FS_Intersection
    <3> QED
      BY <3>1, FS_CardinalityType
  <2>4. IsFiniteSet(D) /\ Cardinality(D) <= Cardinality(U)
    BY <1>3, <2>2, FS_Subset
  <2>5. Cardinality(D) \in Nat /\ Cardinality(U) \in Nat
    BY <2>2, <2>4, FS_CardinalityType
  <2> HIDE DEF U
  <2>6. PICK x \in Nat, y \in Nat, t \in Nat :
          x = Cardinality(D) /\ y = Cardinality(U) /\ t = Cardinality(Differ(v, r) \cap Differ(w, r))
    BY <2>3, <2>5
  <2>7. x <= y /\ y = a + b - t
    BY <2>2, <2>4, <2>6
  <2>8. x <= 2 * tt
    BY <1>0, <2>1, <2>6, <2>7
  <2> QED
    BY <2>6, <2>8
<1>5. AsSymbols(v) = AsSymbols(w)
  <2>1. ASSUME AsSymbols(v) # AsSymbols(w) PROVE FALSE
    <3>1. Cardinality(D) > 2 * tt
      BY <1>2, <2>1, MinimumDistance
    <3>2. Cardinality(D) \in Nat
      <4>1. IsFiniteSet(0 .. nn - 1)
        BY <1>0, FS_Interval
      <4>2. IsFiniteSet(D)
        BY <4>1, FS_Subset
      <4> QED
        BY <4>2, FS_CardinalityType
    <3> HIDE DEF D
    <3> QED
      BY <1>0, <1>4, <3>1, <3>2
  <2> QED
    BY <2>1
<1> QED
  BY <1>5, SameSymbols

\* The word the caller of encode_rs puts together, in ints.
LEMMA ArrangedIs ==
  ASSUME EncoderInv, encodePc = "done"
  PROVE  Arranged(data, bb) \in IntWords /\ ~HasError(Arranged(data, bb))
<1>0. kk \in Nat /\ nn \in Nat /\ nn - kk \in Nat
  BY Widths
<1>1. data \in [0 .. kk - 1 -> PolyForm] /\ bb \in [0 .. nn - kk - 1 -> PolyForm]
      /\ encodeRound = -1 /\ AsSymbols(bb) = Before
  BY DEF EncoderInv, EncodeInv, EndsInv
<1>2. Symbolic \in Messages
  BY <1>1, SymbolicType
<1>3. AsSymbols(bb) = EncodeRS(Symbolic)
  <2>1. kk - 1 - encodeRound = kk
    BY <1>1, <1>0
  <2> QED
    BY <1>1, <2>1 DEF Before, EncodeRS
<1>4. ASSUME NEW x \in 0 .. nn - 1
      PROVE  /\ Arranged(data, bb)[x] = IF x < kk THEN data[x] ELSE bb[x - kk]
             /\ Arranged(data, bb)[x] \in PolyForm
             /\ x < kk => x \in 0 .. kk - 1
             /\ ~(x < kk) => x - kk \in 0 .. nn - kk - 1
  <2>1. x < kk => x \in 0 .. kk - 1
    BY <1>0
  <2>2. ~(x < kk) => x - kk \in 0 .. nn - kk - 1
    BY <1>0
  <2>3. Arranged(data, bb)[x] = IF x < kk THEN data[x] ELSE bb[x - kk]
    BY DEF Arranged
  <2> QED
    BY <1>1, <2>1, <2>2, <2>3
<1>5. Arranged(data, bb) \in IntWords
  <2>1. Arranged(data, bb) = [x \in 0 .. nn - 1 |-> Arranged(data, bb)[x]]
    BY DEF Arranged
  <2> QED
    BY <1>4, <2>1 DEF IntWords
<1>6. ASSUME NEW x \in 0 .. nn - 1
      PROVE  AsSymbols(Arranged(data, bb))[x] = SentWord(Symbolic)[x]
  <2>1. AsSymbols(Arranged(data, bb))[x] = Bits(Arranged(data, bb)[x])
    BY <1>5, AsSymbolsAt DEF IntWords
  <2>2. SentWord(Symbolic)[x] = IF x < kk THEN Symbolic[x] ELSE AsSymbols(bb)[x - kk]
    BY <1>3 DEF SentWord, Arranged
  <2>3. x < kk => Symbolic[x] = Bits(data[x])
    BY <1>1, <1>4, AsSymbolsAt DEF Symbolic
  <2>4. ~(x < kk) => AsSymbols(bb)[x - kk] = Bits(bb[x - kk])
    BY <1>1, <1>4, AsSymbolsAt
  <2> QED
    BY <1>4, <2>1, <2>2, <2>3, <2>4
<1>7. AsSymbols(Arranged(data, bb)) = SentWord(Symbolic)
  <2>1. AsSymbols(Arranged(data, bb)) \in Words /\ SentWord(Symbolic) \in Words
    BY <1>2, <1>5, SynIs, SentType
  <2>2. /\ AsSymbols(Arranged(data, bb)) = [x \in 0 .. nn - 1 |-> AsSymbols(Arranged(data, bb))[x]]
        /\ SentWord(Symbolic) = [x \in 0 .. nn - 1 |-> SentWord(Symbolic)[x]]
    BY <2>1 DEF Words
  <2> QED
    BY <1>6, <2>2
<1> QED
  BY <1>2, <1>5, <1>7, SentIsCodeword, NoErrorIs

-----------------------------------------------------------------------------
\* The counters of main.
CountsInv ==
  /\ main \in {"tables", "vector", "encode", "channel", "decode", "stop"}
  /\ vectors \in 0 .. NB_VECTORS
  /\ main \in {"encode", "channel", "decode"} => vectors < NB_VECTORS
  /\ drawn \in 0 .. errors
  /\ error_status \subseteq 0 .. nn
  /\ no_encoder_errors \in 0 .. vectors

\* As long as nothing was written behind recd[], the word sent is a codeword still, and w
\* differs from it at the used indices only.
Damaged(w, sent) ==
  /\ w \in IntWords
  /\ nn \notin error_status =>
       sent \in IntWords /\ ~HasError(sent) /\ Differ(sent, w) \subseteq error_status

\* What decode_rs is called with.
ReceivedInv ==
  /\ main = "channel" => Damaged(recd, Arranged(data, bb))
  /\ main = "decode" =>
       /\ Damaged(received, Arranged(data, bb))
       /\ Cardinality(error_status) <= tt
       /\ DecodeInv
       /\ decodePc = "done" => result # -1

\* No index behind the array is drawn.
DrawsInside == \A n \in 0 .. tt : nn \notin RandomIndex(n)

CountedInv == DrawsInside => nn \notin error_status /\ no_encoder_errors = 0

\* What main compares, and with it the count.
ComesBack ==
  main = "decode" /\ decodePc = "done" /\ nn \notin error_status =>
    \A x \in 0 .. kk - 1 : data[x] = recd[x]

\* The inductive invariant of the program.
ProgramInv == IInv /\ CountsInv /\ ReceivedInv /\ CountedInv

\* What a call to decode_rs has returned is what was sent.
LEMMA ComesBackIs ==
  ASSUME ProgramInv
  PROVE  ComesBack
<1> SUFFICES ASSUME main = "decode", decodePc = "done", nn \notin error_status, NEW x \in 0 .. kk - 1
             PROVE  data[x] = recd[x]
  BY DEF ComesBack
<1>0. kk \in Nat /\ nn \in Nat /\ tt \in Nat /\ nn - kk \in Nat /\ nn - 1 \in Nat
  BY Widths
<1> DEFINE c == Arranged(data, bb)
<1>1. /\ received \in IntWords /\ c \in IntWords /\ ~HasError(c) /\ Differ(c, received) \subseteq error_status
      /\ Cardinality(error_status) <= tt /\ IsFiniteSet(error_status) /\ DecodeInv /\ result # -1
  BY DEF ProgramInv, ReceivedInv, Damaged, IInv, ChannelInv
<1>2. c[x] = data[x]
  <2>1. x \in 0 .. nn - 1 /\ x < kk
    BY <1>0
  <2> QED
    BY <2>1 DEF Arranged
<1> HIDE DEF c
<1>3. Cardinality(Differ(c, received)) <= tt
  <2>1. /\ IsFiniteSet(Differ(c, received))
        /\ Cardinality(Differ(c, received)) <= Cardinality(error_status)
    BY <1>1, FS_Subset
  <2>2. Cardinality(Differ(c, received)) \in Nat /\ Cardinality(error_status) \in Nat
    BY <1>1, <2>1, FS_CardinalityType
  <2> QED
    BY <1>0, <1>1, <2>1, <2>2
<1>4. ErrorsBelow(tt, SynOf(received))
  BY <1>1, <1>3, NearExplains
<1>5. result \in -1 .. 3
  BY <1>1 DEF DecodeInv, TypePart, DecodeTypeOK
<1>6. result = 0 \/ result = 1
  <2>1. ~(result \in {2, 3})
    BY <1>1, <1>4 DEF DecodeInv, AnswerPart
  <2> QED
    BY <1>1, <1>5, <2>1
<1>7. recd \in IntWords /\ ~HasError(recd) /\ Cardinality(Differ(recd, received)) <= tt
  <2>1. CASE result = 0
    <3>1. recd = received /\ ~HasError(received)
      BY <1>1, <2>1 DEF DecodeInv, WordPart, SyndromePart
    <3>2. Differ(recd, received) = {}
      BY <3>1 DEF Differ
    <3> QED
      BY <1>0, <1>1, <3>1, <3>2, FS_EmptySet
  <2>2. CASE result = 1
    <3>1. Repaired(recd, received, root, Len(root)) /\ ~HasError(recd)
      BY <1>1, <2>2 DEF DecodeInv, WordPart, SyndromePart
    <3>2. Len(root) \in Nat /\ Len(root) <= tt
      BY <1>1 DEF DecodeInv, TypePart
    <3> QED
      BY <1>1, <3>1, <3>2, RepairedNear DEF Repaired
  <2> QED
    BY <1>6, <2>1, <2>2
<1>8. recd = c
  BY <1>1, <1>3, <1>7, OneCodeword
<1> QED
  BY <1>2, <1>8

\* It holds at first.
LEMMA ProgramInit == Init => ProgramInv
<1> SUFFICES ASSUME Init PROVE ProgramInv
  OBVIOUS
<1>1. IInv
  BY InitIInv
<1>2. CountsInv
  BY VectorAssumption DEF Init, CountsInv
<1>3. ReceivedInv /\ CountedInv
  BY DEF Init, ReceivedInv, CountedInv
<1> QED
  BY <1>1, <1>2, <1>3 DEF ProgramInv

\* What a step leaves alone while main is not at the channel nor in decode_rs.
LEMMA OutsideInv ==
  ASSUME CountedInv, error_status' = error_status, no_encoder_errors' = no_encoder_errors,
         main' \notin {"channel", "decode"}
  PROVE  ReceivedInv' /\ CountedInv'
BY DEF ReceivedInv, CountedInv, DrawsInside

\* Tables, a new vector and encode_rs.
LEMMA BeforeChannel ==
  ASSUME ProgramInv, GenerateTables \/ TablesDone \/ NewVector \/ EncodeVector
  PROVE  CountsInv' /\ ReceivedInv' /\ CountedInv'
<1>1. /\ CountsInv /\ CountedInv
  BY DEF ProgramInv
<1>2. /\ errors' = errors /\ vectors' = vectors /\ drawn' = drawn /\ error_status' = error_status
      /\ no_encoder_errors' = no_encoder_errors
  BY DEF GenerateTables, TablesDone, NewVector, EncodeVector, mainVars
<1>3. main' \in {"tables", "vector", "encode"} /\ (main' = "encode" => vectors < NB_VECTORS)
  BY <1>1 DEF GenerateTables, TablesDone, NewVector, EncodeVector, CountsInv
<1>4. CountsInv'
  BY <1>1, <1>2, <1>3 DEF CountsInv
<1>5. main' \notin {"channel", "decode"}
  BY <1>3
<1> QED
  BY <1>1, <1>2, <1>4, <1>5, OutsideInv

\* The copy to recd[]: nothing is damaged yet.
LEMMA TransmitInv ==
  ASSUME ProgramInv, Transmit
  PROVE  CountsInv' /\ ReceivedInv' /\ CountedInv'
<1>1. /\ CountsInv /\ CountedInv /\ EncoderInv /\ ChannelInv
  BY DEF ProgramInv, IInv
<1>2. /\ main = "encode" /\ encodePc = "done" /\ main' = "channel" /\ recd' = Arranged(data, bb)
      /\ error_status' = {} /\ drawn' = 0 /\ data' = data /\ bb' = bb
      /\ errors' = errors /\ vectors' = vectors /\ no_encoder_errors' = no_encoder_errors
  BY DEF Transmit, EncodeReturned
<1>3. CountsInv'
  BY <1>1, <1>2, Widths DEF CountsInv, ChannelInv
<1>4. CountedInv'
  BY <1>1, <1>2 DEF CountedInv, DrawsInside
<1>5. Arranged(data, bb) \in IntWords /\ ~HasError(Arranged(data, bb))
  BY <1>1, <1>2, ArrangedIs
<1> DEFINE c == Arranged(data, bb)
<1>6. recd' = c /\ c \in IntWords /\ ~HasError(c) /\ Differ(c, c) \subseteq {} /\ Arranged(data', bb') = c
  BY <1>2, <1>5 DEF Differ
<1> HIDE DEF c
<1>7. ReceivedInv'
  BY <1>2, <1>6 DEF ReceivedInv, Damaged
<1> QED
  BY <1>3, <1>4, <1>7

\* One more index is damaged.
LEMMA DrawInv ==
  ASSUME ProgramInv, Draw
  PROVE  CountsInv' /\ ReceivedInv' /\ CountedInv'
<1>0. nn \in Nat /\ tt \in Nat
  BY Widths
<1>1. CountsInv /\ CountedInv /\ ChannelInv /\ ReceivedInv
  BY DEF ProgramInv, IInv
<1>2. PICK x, e :
         /\ x \in RandomIndex(errors) \ error_status /\ e \in RandomByte(x)
         /\ recd' = [y \in 0 .. nn - 1 |-> IF y = x THEN recd[x] ^^ e ELSE recd[y]]
         /\ data' = IF x = nn THEN [data EXCEPT ![0] = @ ^^ e] ELSE data
         /\ error_status' = error_status \cup {x}
  BY DEF Draw
<1>3. /\ main = "channel" /\ main' = main /\ drawn < errors /\ drawn' = drawn + 1
      /\ errors' = errors /\ vectors' = vectors /\ no_encoder_errors' = no_encoder_errors /\ bb' = bb
  BY DEF Draw
<1>4. errors \in 0 .. tt /\ x \in 0 .. nn /\ e \in PolyForm
  BY <1>1, <1>2, VectorAssumption DEF ChannelInv
<1>5. CountsInv'
  BY <1>0, <1>1, <1>2, <1>3, <1>4 DEF CountsInv
<1>6. CountedInv'
  BY <1>1, <1>2, <1>3, <1>4 DEF CountedInv, DrawsInside
<1>7. recd' \in IntWords
  <2>1. recd \in IntWords
    BY <1>1, <1>3 DEF ReceivedInv, Damaged
  <2>2. \A y \in 0 .. nn - 1 : (IF y = x THEN recd[x] ^^ e ELSE recd[y]) \in PolyForm
    BY <1>4, <2>1, XorInts DEF IntWords
  <2> QED
    BY <1>2, <2>2 DEF IntWords
<1>8. ASSUME nn \notin error_status'
      PROVE  /\ Arranged(data', bb') \in IntWords /\ ~HasError(Arranged(data', bb'))
             /\ Differ(Arranged(data', bb'), recd') \subseteq error_status'
  <2>1. nn \notin error_status /\ data' = data
    BY <1>2, <1>8
  <2>2. PICK c : /\ c = Arranged(data, bb) /\ c = Arranged(data', bb')
                 /\ c \in IntWords /\ ~HasError(c) /\ Differ(c, recd) \subseteq error_status
    BY <1>1, <1>3, <2>1 DEF ReceivedInv, Damaged
  <2>3. ASSUME NEW y \in 0 .. nn - 1, c[y] # recd'[y] PROVE y \in error_status \cup {x}
    <3>1. y # x => recd'[y] = recd[y]
      BY <1>2
    <3> QED
      BY <2>2, <2>3, <3>1 DEF Differ
  <2>4. Differ(c, recd') \subseteq error_status'
    BY <1>2, <2>3 DEF Differ
  <2> QED
    BY <2>2, <2>4
<1>9. ReceivedInv'
  BY <1>3, <1>7, <1>8 DEF ReceivedInv, Damaged
<1> QED
  BY <1>5, <1>6, <1>9

\* The call of decode_rs.
LEMMA CallDecodeInv ==
  ASSUME ProgramInv, CallDecode
  PROVE  CountsInv' /\ ReceivedInv' /\ CountedInv'
<1>0. tt \in Nat
  BY Widths
<1>1. CountsInv /\ CountedInv /\ ChannelInv /\ ReceivedInv
  BY DEF ProgramInv, IInv
<1>2. /\ main = "channel" /\ drawn = errors /\ main' = "decode" /\ DecodeCall(recd)
      /\ errors' = errors /\ vectors' = vectors /\ drawn' = drawn /\ error_status' = error_status
      /\ no_encoder_errors' = no_encoder_errors /\ data' = data /\ bb' = bb
  BY DEF CallDecode, mainVars, encodeVars
<1>3. CountsInv' /\ CountedInv'
  BY <1>1, <1>2 DEF CountsInv, CountedInv, DrawsInside
<1>4. Damaged(recd, Arranged(data, bb))
  BY <1>1, <1>2 DEF ReceivedInv
<1>5. DecodeInv'
  BY <1>2, <1>4, CallInv DEF Damaged
<1>6. received' = recd /\ decodePc' = "call"
  BY <1>2 DEF DecodeCall
<1>7. Cardinality(error_status') <= tt
  BY <1>0, <1>1, <1>2 DEF ChannelInv
<1>8. ReceivedInv'
  BY <1>2, <1>4, <1>5, <1>6, <1>7 DEF ReceivedInv, Damaged
<1> QED
  BY <1>3, <1>8

\* A step of decode_rs.
LEMMA DecodeVectorInv ==
  ASSUME ProgramInv, DecodeVector
  PROVE  CountsInv' /\ ReceivedInv' /\ CountedInv'
<1>1. CountsInv /\ CountedInv /\ ReceivedInv
  BY DEF ProgramInv
<1>2. /\ main = "decode" /\ main' = main /\ DecodeStep
      /\ errors' = errors /\ vectors' = vectors /\ drawn' = drawn /\ error_status' = error_status
      /\ no_encoder_errors' = no_encoder_errors /\ data' = data /\ bb' = bb
  BY DEF DecodeVector, mainVars, encodeVars
<1>3. CountsInv' /\ CountedInv'
  BY <1>1, <1>2 DEF CountsInv, CountedInv, DrawsInside
<1>4. Damaged(received, Arranged(data, bb)) /\ Cardinality(error_status) <= tt /\ DecodeInv
  BY <1>1, <1>2 DEF ReceivedInv
<1>5. DecodeInv' /\ received' = received
  BY <1>2, <1>4, DecodeStepInv, ReceivedStays
<1>6. decodePc' = "done" => result' # -1
  BY <1>2, <1>4, InnerOrLast DEF Inner, Last
<1>7. ReceivedInv'
  BY <1>2, <1>4, <1>5, <1>6 DEF ReceivedInv, Damaged
<1> QED
  BY <1>3, <1>7

\* The comparison and the loops of main.
LEMMA CompareInv ==
  ASSUME ProgramInv, Compare \/ NextErrorCount \/ Stop
  PROVE  CountsInv' /\ ReceivedInv' /\ CountedInv'
<1>0. NB_VECTORS \in Nat
  BY VectorAssumption
<1>1. CountsInv /\ CountedInv /\ ChannelInv
  BY DEF ProgramInv, IInv
<1>2. CASE Compare
  <2>1. /\ main = "decode" /\ decodePc = "done" /\ main' = "vector" /\ vectors' = vectors + 1
        /\ no_encoder_errors' =
             no_encoder_errors + (IF \E x \in 0 .. kk - 1 : data[x] # recd[x] THEN 1 ELSE 0)
        /\ errors' = errors /\ drawn' = drawn /\ error_status' = error_status
    BY <1>2 DEF Compare
  <2>2. CountsInv'
    BY <1>0, <1>1, <2>1 DEF CountsInv
  <2>3. nn \notin error_status => no_encoder_errors' = no_encoder_errors + 0
    BY <2>1, ComesBackIs DEF ComesBack
  <2>4. CountedInv'
    BY <1>1, <2>1, <2>3 DEF CountedInv, DrawsInside
  <2>5. ReceivedInv'
    BY <2>1 DEF ReceivedInv
  <2> QED
    BY <2>2, <2>4, <2>5
<1>3. CASE NextErrorCount
  <2>1. /\ main = "vector" /\ main' = main /\ errors' = errors + 1 /\ vectors' = 0 /\ no_encoder_errors' = 0
        /\ drawn' = drawn /\ error_status' = error_status
    BY <1>3 DEF NextErrorCount
  <2>2. CountsInv'
    BY <1>0, <1>1, <2>1 DEF CountsInv, ChannelInv
  <2> QED
    BY <1>1, <2>1, <2>2 DEF ReceivedInv, CountedInv, DrawsInside
<1>4. CASE Stop
  <2>1. /\ main' = "stop" /\ errors' = errors /\ vectors' = vectors /\ drawn' = drawn
        /\ error_status' = error_status /\ no_encoder_errors' = no_encoder_errors
    BY <1>4 DEF Stop, mainVars
  <2>2. CountsInv'
    BY <1>1, <2>1 DEF CountsInv
  <2> QED
    BY <1>1, <2>1, <2>2 DEF ReceivedInv, CountedInv, DrawsInside
<1> QED
  BY <1>2, <1>3, <1>4

\* Every step of the program keeps the invariant,
LEMMA ProgramNext == ProgramInv /\ [Next]_vars => ProgramInv'
<1> SUFFICES ASSUME ProgramInv, [Next]_vars PROVE ProgramInv'
  OBVIOUS
<1>1. IInv'
  BY NextIInv DEF ProgramInv
<1>2. CASE UNCHANGED vars
  <2>1. /\ main' = main /\ errors' = errors /\ vectors' = vectors /\ drawn' = drawn
        /\ error_status' = error_status /\ no_encoder_errors' = no_encoder_errors
        /\ data' = data /\ bb' = bb /\ recd' = recd /\ received' = received
        /\ decodePc' = decodePc /\ result' = result /\ UNCHANGED decodeVars
    BY <1>2 DEF vars, mainVars, encodeVars, decodeVars
  <2>2. CountsInv' /\ CountedInv'
    BY <2>1 DEF ProgramInv, CountsInv, CountedInv, DrawsInside
  <2>3. main = "decode" => DecodeInv'
    BY <2>1, DecodeStutters DEF ProgramInv, ReceivedInv
  <2>4. ReceivedInv'
    BY <2>1, <2>3 DEF ProgramInv, ReceivedInv, Damaged
  <2> QED
    BY <1>1, <2>2, <2>4 DEF ProgramInv
<1>3. CASE GenerateTables \/ TablesDone \/ NewVector \/ EncodeVector
  BY <1>1, <1>3, BeforeChannel DEF ProgramInv
<1>4. CASE Transmit
  BY <1>1, <1>4, TransmitInv DEF ProgramInv
<1>5. CASE Draw
  BY <1>1, <1>5, DrawInv DEF ProgramInv
<1>6. CASE DrawAgain
  BY <1>2, <1>6 DEF DrawAgain
<1>7. CASE CallDecode
  BY <1>1, <1>7, CallDecodeInv DEF ProgramInv
<1>8. CASE DecodeVector
  BY <1>1, <1>8, DecodeVectorInv DEF ProgramInv
<1>9. CASE Compare \/ NextErrorCount \/ Stop
  BY <1>1, <1>9, CompareInv DEF ProgramInv
<1> QED
  BY <1>2, <1>3, <1>4, <1>5, <1>6, <1>7, <1>8, <1>9 DEF Next

\* and so it holds always.
LEMMA ProgramInvariance == Spec => []ProgramInv
BY ProgramInit, ProgramNext, PTL DEF Spec

\* The counters and the arrays of the call that runs keep their types and bounds.
THEOREM ProgramTypes == Spec => []TypeOK
<1>1. ProgramInv /\ TablesInv => TypeOK
  <2> SUFFICES ASSUME ProgramInv, TablesInv PROVE TypeOK
    OBVIOUS
  <2>1. /\ main \in {"tables", "vector", "encode", "channel", "decode", "stop"}
        /\ errors \in 0 .. tt /\ vectors \in 0 .. NB_VECTORS /\ drawn \in 0 .. errors
        /\ error_status \subseteq 0 .. nn /\ no_encoder_errors \in 0 .. vectors
    BY DEF ProgramInv, CountsInv, IInv, ChannelInv
  <2>2. no_encoder_errors \in 0 .. NB_VECTORS
    BY <2>1, VectorAssumption
  <2>3. main = "tables" => TablesTypeOK
    BY DEF TablesInv
  <2>4. main = "encode" => EncodeTypeOK
    BY DEF ProgramInv, IInv, EncoderInv, EncodeInv, EncodeTypeOK
  <2>5. main = "decode" => DecodeTypeOK
    BY DEF ProgramInv, ReceivedInv, DecodeInv, TypePart
  <2> QED
    BY <2>1, <2>2, <2>3, <2>4, <2>5 DEF TypeOK
<1> QED
  BY <1>1, ProgramInvariance, TablesInvariance, PTL

\* Whatever rand() gives, for every code, every vector and every number of errors up to tt:
\* unless an index behind recd[] was drawn the data main compares is the data it encoded.
THEOREM VectorsComeBack == Spec => []ComesBack
<1>1. ProgramInv => ComesBack
  BY ComesBackIs
<1> QED
  BY <1>1, ProgramInvariance, PTL

\* If none is drawn then none is counted: the program prints OK each time.
THEOREM AlwaysOKHolds ==
  ASSUME DrawsInside
  PROVE  Spec => []AlwaysOK
<1>1. ProgramInv => AlwaysOK
  BY DEF ProgramInv, CountedInv, AlwaysOK
<1> QED
  BY <1>1, ProgramInvariance, PTL
=============================================================================
