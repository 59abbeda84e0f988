--------------------------- MODULE RSDecodeProofs ---------------------------
(***************************************************************************)
(* decode_rs is a bounded-distance decoder, for every code and every word. *)
(*                                                                         *)
(* The ints and the tables of the code are first brought back to symbols   *)
(* and powers of alpha (Bits, Number, AlphaTo, IndexOf), and Berlekamp's   *)
(* iteration is then proved about polynomials over the field: each row     *)
(* satisfies the key equation up to its step (Row), its degree is Massey's *)
(* and so no more than the number of errors, however the syndromes are     *)
(* explained.  A polynomial with as many different roots as its degree     *)
(* locates the errors, and Forney's formula, as the code evaluates it,     *)
(* removes one error for each symbol corrected.  The invariant DecodeInv   *)
(* says where in that argument the arrays of the call are, and             *)
(* DecoderImplementsIdeal maps its last steps to those of Decoder.         *)
(***************************************************************************)
EXTENDS BoundedDistance, CodeProofs

-----------------------------------------------------------------------------
(* Ints and their bits *)

\* The halves of n.
Halves(n, h) ==
  /\ h \in [0 .. mm -> Nat]
  /\ h[0] = n
  /\ \A b \in 0 .. mm - 1 : h[b + 1] = h[b] \div 2

\* Bits(n), as it is written, takes the odd ones among the halves.
LEMMA BitsIs ==
  ASSUME NEW n \in Nat, n <= nn
  PROVE  \E h : Halves(n, h) /\ Bits(n) = { b \in 0 .. mm : h[b] % 2 = 1 }
<1> DEFINE Body(g) == [b \in 0 .. mm |-> IF b = 0 THEN n ELSE g[b - 1] \div 2]
           F == [x \in Nat \X Nat |-> x[2] \div 2]
<1>1. F \in [Nat \X Nat -> Nat] /\ \A k \in Nat, s \in Nat : F[<<k, s>>] = s \div 2
  OBVIOUS
<1>2. PICK f : Recursive(f, Nat, n, F)
  <2> HIDE DEF F
  <2> QED
    BY <1>1, Recursion
<1>3. f \in [Nat -> Nat] /\ f[0] = n /\ \A k \in Nat : f[k + 1] = f[k] \div 2
  <2> HIDE DEF F
  <2> QED
    BY <1>1, <1>2 DEF Recursive
<1> DEFINE p == [b \in 0 .. mm |-> f[b]]
<1>4. p = Body(p)
  <2>1. ASSUME NEW b \in 0 .. mm PROVE p[b] = Body(p)[b]
    <3>1. CASE b = 0
      BY <1>3, <3>1
    <3>2. CASE b # 0
      <4>1. b - 1 \in Nat /\ (b - 1) + 1 = b /\ b - 1 \in 0 .. mm
        BY <3>2, Widths
      <4>2. p[b] = p[b - 1] \div 2
        BY <1>3, <4>1
      <4> HIDE DEF p
      <4> QED
        BY <3>2, <4>2
    <3> QED
      BY <3>1, <3>2
  <2>2. p = [b \in 0 .. mm |-> p[b]]
    OBVIOUS
  <2> HIDE DEF p
  <2> QED
    BY <2>1, <2>2
<1>5. PICK g : g = (CHOOSE x : x = Body(x)) /\ Bits(n) = { b \in 0 .. mm : g[b] % 2 = 1 }
  <2>0. n \in -2 .. 2 * nn + 1
    BY Widths
  <2>1. BitsOf[n] = { b \in 0 .. mm : (CHOOSE x : x = Body(x))[b] % 2 = 1 }
    BY <2>0, Zenon DEF BitsOf
  <2> HIDE DEF Body
  <2> QED
    BY <2>1 DEF Bits
<1>6. g = Body(g)
  <2> HIDE DEF Body, p
  <2> QED
    BY <1>4, <1>5
<1>7. g = [b \in 0 .. mm |-> g[b]] /\ g[0] = n
  BY <1>6, Widths
<1>8. ASSUME NEW b \in 0 .. mm - 1 PROVE g[b + 1] = g[b] \div 2
  <2>1. b + 1 \in 0 .. mm /\ b + 1 # 0 /\ (b + 1) - 1 = b
    BY Widths
  <2>2. g[b + 1] = g[(b + 1) - 1] \div 2
    BY <1>6, <2>1
  <2> QED
    BY <2>1, <2>2
<1>9. \A b \in 0 .. mm : g[b] \in Nat
  <2> DEFINE T == { k \in Nat : k \in 0 .. mm => g[k] \in Nat }
  <2>1. 0 \in T
    BY <1>7
  <2>2. ASSUME NEW k \in Nat, k \in T PROVE k + 1 \in T
    <3> SUFFICES ASSUME k + 1 \in 0 .. mm PROVE g[k + 1] \in Nat
      OBVIOUS
    <3>1. k \in 0 .. mm - 1 /\ k \in 0 .. mm
      BY Widths
    <3>2. g[k] \in Nat /\ g[k + 1] = g[k] \div 2
      BY <1>8, <2>2, <3>1
    <3> QED
      BY <3>2
  <2> HIDE DEF T
  <2>3. Nat \subseteq T
    BY <2>1, <2>2, NatSetInduction
  <2> QED
    BY <2>3, Widths DEF T
<1> HIDE DEF Body, p, F
<1>10. Halves(n, g)
  BY <1>7, <1>8, <1>9 DEF Halves
<1> QED
  BY <1>5, <1>10

\* The number that the bits of a from position b on form.
Digits(a, s) ==
  /\ s \in [0 .. mm + 1 -> Nat]
  /\ s[mm + 1] = 0
  /\ \A b \in 0 .. mm : s[b] = 2 * s[b + 1] + (IF b \in a THEN 1 ELSE 0)

\* Number(a), as it is written, is the first of the digits.
LEMMA NumberIs ==
  ASSUME NEW a, a \subseteq 0 .. mm
  PROVE  \E s : Digits(a, s) /\ Number(a) = s[0]
<1> DEFINE Body(g) == [b \in 0 .. mm + 1 |->
                         IF b = 0 THEN 0 ELSE 2 * g[b - 1] + (IF mm + 1 - b \in a THEN 1 ELSE 0)]
           F == [x \in Nat \X Nat |-> 2 * x[2] + (IF mm - x[1] \in a THEN 1 ELSE 0)]
<1>1. /\ F \in [Nat \X Nat -> Nat]
      /\ \A k \in Nat, s \in Nat : F[<<k, s>>] = 2 * s + (IF mm - k \in a THEN 1 ELSE 0)
  OBVIOUS
<1>2. PICK f : Recursive(f, Nat, 0, F)
  <2> HIDE DEF F
  <2>1. 0 \in Nat
    OBVIOUS
  <2> QED
    BY <1>1, <2>1, Recursion
<1>3. /\ f \in [Nat -> Nat] /\ f[0] = 0
      /\ \A k \in Nat : f[k + 1] = 2 * f[k] + (IF mm - k \in a THEN 1 ELSE 0)
  <2> HIDE DEF F
  <2> QED
    BY <1>1, <1>2 DEF Recursive
<1> DEFINE p == [b \in 0 .. mm + 1 |-> f[b]]
<1>4. p = Body(p)
  <2>1. ASSUME NEW b \in 0 .. mm + 1 PROVE p[b] = Body(p)[b]
    <3>1. CASE b = 0
      BY <1>3, <3>1
    <3>2. CASE b # 0
      <4>1. b - 1 \in Nat /\ (b - 1) + 1 = b /\ b - 1 \in 0 .. mm + 1 /\ mm - (b - 1) = mm + 1 - b
        BY <3>2, Widths
      <4>2. p[b] = 2 * p[b - 1] + (IF mm + 1 - b \in a THEN 1 ELSE 0)
        BY <1>3, <4>1
      <4> HIDE DEF p
      <4> QED
        BY <3>2, <4>2
    <3> QED
      BY <3>1, <3>2
  <2>2. p = [b \in 0 .. mm + 1 |-> p[b]]
    OBVIOUS
  <2> HIDE DEF p
  <2> QED
    BY <2>1, <2>2
<1>5. PICK g : g = (CHOOSE x : x = Body(x)) /\ Number(a) = g[mm + 1]
  <2>0. a \in SUBSET (0 .. mm)
    OBVIOUS
  <2>1. NumberOf[a] = (CHOOSE x : x = Body(x))[mm + 1]
    BY <2>0, Zenon DEF NumberOf
  <2> HIDE DEF Body
  <2> QED
    BY <2>1 DEF Number
<1>6. g = Body(g)
  <2> HIDE DEF Body, p
  <2> QED
    BY <1>4, <1>5
<1>7. g = [b \in 0 .. mm + 1 |-> g[b]] /\ g[0] = 0
  BY <1>6, Widths
<1>8. ASSUME NEW b \in 0 .. mm PROVE g[b + 1] = 2 * g[b] + (IF mm - b \in a THEN 1 ELSE 0)
  <2>1. b + 1 \in 0 .. mm + 1 /\ b + 1 # 0 /\ (b + 1) - 1 = b /\ mm + 1 - (b + 1) = mm - b
    BY Widths
  <2>2. g[b + 1] = 2 * g[(b + 1) - 1] + (IF mm + 1 - (b + 1) \in a THEN 1 ELSE 0)
    BY <1>6, <2>1
  <2> QED
    BY <2>1, <2>2
<1>9. \A b \in 0 .. mm + 1 : g[b] \in Nat
  <2> DEFINE T == { k \in Nat : k \in 0 .. mm + 1 => g[k] \in Nat }
  <2>1. 0 \in T
    BY <1>7
  <2>2. ASSUME NEW k \in Nat, k \in T PROVE k + 1 \in T
    <3> SUFFICES ASSUME k + 1 \in 0 .. mm + 1 PROVE g[k + 1] \in Nat
      OBVIOUS
    <3>1. k \in 0 .. mm /\ k \in 0 .. mm + 1
      BY Widths
    <3>2. g[k] \in Nat /\ g[k + 1] = 2 * g[k] + (IF mm - k \in a THEN 1 ELSE 0)
      BY <1>8, <2>2, <3>1
    <3> QED
      BY <3>2
  <2> HIDE DEF T
  <2>3. Nat \subseteq T
    BY <2>1, <2>2, NatSetInduction
  <2> QED
    BY <2>3, Widths DEF T
<1> HIDE DEF Body, p, F
<1> DEFINE s == [b \in 0 .. mm + 1 |-> g[mm + 1 - b]]
<1>10. Digits(a, s)
  <2>1. s \in [0 .. mm + 1 -> Nat]
    BY <1>9, Widths
  <2>2. s[mm + 1] = 0
    <3>1. mm + 1 \in 0 .. mm + 1 /\ mm + 1 - (mm + 1) = 0
      BY Widths
    <3>2. s[mm + 1] = g[0]
      BY <3>1
    <3> QED
      BY <1>7, <3>2
  <2>3. ASSUME NEW b \in 0 .. mm PROVE s[b] = 2 * s[b + 1] + (IF b \in a THEN 1 ELSE 0)
    <3>1. /\ mm - b \in 0 .. mm /\ (mm - b) + 1 = mm + 1 - b /\ mm - (mm - b) = b
          /\ b \in 0 .. mm + 1 /\ b + 1 \in 0 .. mm + 1 /\ mm + 1 - (b + 1) = mm - b
      BY Widths
    <3>2. s[b] = g[(mm - b) + 1] /\ s[b + 1] = g[mm - b]
      BY <3>1
    <3> HIDE DEF s
    <3> QED
      BY <1>8, <3>1, <3>2
  <2> HIDE DEF s
  <2> QED
    BY <2>1, <2>2, <2>3 DEF Digits
<1>11. s[0] = g[mm + 1]
  BY Widths
<1> QED
  BY <1>5, <1>10, <1>11

\* Downward induction over the positions.
LEMMA Downward ==
  ASSUME NEW P, NEW n \in Nat, n \in P, \A b \in 0 .. n - 1 : b + 1 \in P => b \in P
  PROVE  \A b \in 0 .. n : b \in P
<1> DEFINE T == { k \in Nat : k <= n => n - k \in P }
<1>1. 0 \in T
  OBVIOUS
<1>2. ASSUME NEW k \in Nat, k \in T PROVE k + 1 \in T
  <2> SUFFICES ASSUME k + 1 <= n PROVE n - (k + 1) \in P
    OBVIOUS
  <2>1. n - (k + 1) \in 0 .. n - 1 /\ (n - (k + 1)) + 1 = n - k /\ k <= n
    OBVIOUS
  <2> QED
    BY <1>2, <2>1
<1> HIDE DEF T
<1>3. Nat \subseteq T
  BY <1>1, <1>2, NatSetInduction
<1>4. ASSUME NEW b \in 0 .. n PROVE b \in P
  <2>1. n - b \in Nat /\ n - b <= n /\ n - (n - b) = b
    OBVIOUS
  <2> QED
    BY <1>3, <2>1 DEF T
<1> QED
  BY <1>4

\* A set of bits comes back from its number.
LEMMA BitsOfNumber ==
  ASSUME NEW a, a \subseteq 0 .. mm, Number(a) <= nn
  PROVE  Number(a) \in Nat /\ Bits(Number(a)) = a
<1>0. mm \in Nat
  BY Widths
<1>1. PICK s : Digits(a, s) /\ Number(a) = s[0]
  BY NumberIs
<1>2. /\ s \in [0 .. mm + 1 -> Nat]
      /\ \A b \in 0 .. mm : s[b] = 2 * s[b + 1] + (IF b \in a THEN 1 ELSE 0)
  BY <1>1 DEF Digits
<1>3. s[0] \in Nat
  BY <1>0, <1>2
<1>4. PICK h : Halves(s[0], h) /\ Bits(s[0]) = { b \in 0 .. mm : h[b] % 2 = 1 }
  BY <1>1, <1>3, BitsIs
<1>5. h \in [0 .. mm -> Nat] /\ h[0] = s[0] /\ \A b \in 0 .. mm - 1 : h[b + 1] = h[b] \div 2
  BY <1>4 DEF Halves
<1>6. ASSUME NEW b \in 0 .. mm
      PROVE  s[b] \div 2 = s[b + 1] /\ (s[b] % 2 = 1 <=> b \in a)
  <2>1. s[b + 1] \in Nat /\ s[b] = 2 * s[b + 1] + (IF b \in a THEN 1 ELSE 0)
    BY <1>0, <1>2
  <2>2. PICK t \in Nat : t = s[b + 1]
    BY <2>1
  <2>3. b \in a => s[b] = 2 * t + 1
    BY <2>1, <2>2
  <2>4. b \notin a => s[b] = 2 * t
    BY <2>1, <2>2
  <2>5. (2 * t + 1) \div 2 = t /\ (2 * t + 1) % 2 = 1 /\ (2 * t) \div 2 = t /\ (2 * t) % 2 = 0
    OBVIOUS
  <2> QED
    BY <2>2, <2>3, <2>4, <2>5
<1>7. \A b \in 0 .. mm : h[b] = s[b]
  <2> DEFINE T == { k \in Nat : k \in 0 .. mm => h[k] = s[k] }
  <2>1. 0 \in T
    BY <1>5
  <2>2. ASSUME NEW k \in Nat, k \in T PROVE k + 1 \in T
    <3> SUFFICES ASSUME k + 1 \in 0 .. mm PROVE h[k + 1] = s[k + 1]
      OBVIOUS
    <3>1. k \in 0 .. mm - 1 /\ k \in 0 .. mm
      BY <1>0
    <3> QED
      BY <1>5, <1>6, <2>2, <3>1
  <2> HIDE DEF T
  <2>3. Nat \subseteq T
    BY <2>1, <2>2, NatSetInduction
  <2> QED
    BY <1>0, <2>3 DEF T
<1>8. Bits(s[0]) = { b \in 0 .. mm : b \in a }
  BY <1>4, <1>6, <1>7
<1> QED
  BY <1>1, <1>3, <1>8

\* More bits, a larger number.
LEMMA NumberMonotone ==
  ASSUME NEW a, NEW c, a \subseteq c, c \subseteq 0 .. mm
  PROVE  Number(a) <= Number(c) /\ Number(a) \in Nat /\ Number(c) \in Nat
<1>0. mm \in Nat /\ mm + 1 \in Nat /\ (mm + 1) - 1 = mm
  BY Widths
<1>1. PICK s : Digits(a, s) /\ Number(a) = s[0]
  BY NumberIs
<1>2. PICK t : Digits(c, t) /\ Number(c) = t[0]
  BY NumberIs
<1>3. /\ s \in [0 .. mm + 1 -> Nat] /\ s[mm + 1] = 0
      /\ \A b \in 0 .. mm : s[b] = 2 * s[b + 1] + (IF b \in a THEN 1 ELSE 0)
  BY <1>1 DEF Digits
<1>4. /\ t \in [0 .. mm + 1 -> Nat] /\ t[mm + 1] = 0
      /\ \A b \in 0 .. mm : t[b] = 2 * t[b + 1] + (IF b \in c THEN 1 ELSE 0)
  BY <1>2 DEF Digits
<1> DEFINE P == { b \in 0 .. mm + 1 : s[b] <= t[b] }
<1>5. mm + 1 \in P
  BY <1>0, <1>3, <1>4
<1>6. ASSUME NEW b \in 0 .. mm, b + 1 \in P PROVE b \in P
  <2>1. b + 1 \in 0 .. mm + 1 /\ b \in 0 .. mm + 1
    BY <1>0
  <2>2. PICK x \in Nat, y \in Nat : x = s[b + 1] /\ y = t[b + 1] /\ x <= y
    BY <1>3, <1>4, <1>6, <2>1
  <2>3. s[b] = 2 * x + (IF b \in a THEN 1 ELSE 0) /\ t[b] = 2 * y + (IF b \in c THEN 1 ELSE 0)
    BY <1>3, <1>4, <2>2
  <2>4. b \in a => b \in c
    OBVIOUS
  <2>5. s[b] <= t[b]
    BY <2>2, <2>3, <2>4
  <2> QED
    BY <2>1, <2>5
<1> HIDE DEF P
<1>7. 0 \in P
  <2>1. \A b \in 0 .. (mm + 1) - 1 : b + 1 \in P => b \in P
    BY <1>0, <1>6
  <2>2. \A b \in 0 .. mm + 1 : b \in P
    BY <1>0, <1>5, <2>1, Downward
  <2> QED
    BY <1>0, <2>2
<1> QED
  BY <1>0, <1>1, <1>2, <1>3, <1>4, <1>7 DEF P

\* A symbol is written as a number from 0 to nn, and comes back.
LEMMA NumberType ==
  ASSUME NEW a \in Symbol
  PROVE  Number(a) \in PolyForm /\ Bits(Number(a)) = a /\ Number(a) \in Nat
<1>1. a \subseteq 0 .. mm - 1 /\ a \subseteq 0 .. mm
  BY Widths DEF Symbol
<1>2. Number(a) <= Number(0 .. mm - 1) /\ Number(a) \in Nat
  <2>1. 0 .. mm - 1 \subseteq 0 .. mm
    BY Widths
  <2> QED
    BY <1>1, <2>1, NumberMonotone
<1>3. Number(a) \in PolyForm
  BY <1>2, WidthAssumption, Widths DEF PolyForm
<1> QED
  BY <1>1, <1>2, <1>3, WidthAssumption, BitsOfNumber

\* The halves of a smaller number are smaller.
LEMMA HalvesMonotone ==
  ASSUME NEW n \in Nat, NEW m \in Nat, n <= m, NEW h, NEW k, Halves(n, h), Halves(m, k)
  PROVE  \A b \in 0 .. mm : h[b] <= k[b]
<1>0. mm \in Nat
  BY Widths
<1>1. h \in [0 .. mm -> Nat] /\ h[0] = n /\ \A b \in 0 .. mm - 1 : h[b + 1] = h[b] \div 2
  BY DEF Halves
<1>2. k \in [0 .. mm -> Nat] /\ k[0] = m /\ \A b \in 0 .. mm - 1 : k[b + 1] = k[b] \div 2
  BY DEF Halves
<1> DEFINE T == { b \in Nat : b \in 0 .. mm => h[b] <= k[b] }
<1>3. 0 \in T
  BY <1>1, <1>2
<1>4. ASSUME NEW b \in Nat, b \in T PROVE b + 1 \in T
  <2> SUFFICES ASSUME b + 1 \in 0 .. mm PROVE h[b + 1] <= k[b + 1]
    OBVIOUS
  <2>1. b \in 0 .. mm - 1 /\ b \in 0 .. mm
    BY <1>0
  <2>2. PICK x \in Nat, y \in Nat : x = h[b] /\ y = k[b] /\ x <= y
    BY <1>1, <1>2, <1>4, <2>1
  <2>3. x \div 2 <= y \div 2
    BY <2>2
  <2> QED
    BY <1>1, <1>2, <2>1, <2>2, <2>3
<1> HIDE DEF T
<1>5. Nat \subseteq T
  BY <1>3, <1>4, NatSetInduction
<1> QED
  BY <1>0, <1>5 DEF T

\* A number from 0 to nn stands for a symbol, and comes back.
LEMMA BitsType ==
  ASSUME NEW n \in PolyForm
  PROVE  Bits(n) \in Symbol /\ Number(Bits(n)) = n
<1>0. mm \in Nat /\ mm - 1 \in Nat /\ nn \in Nat /\ n \in Nat /\ n <= nn
  BY Widths DEF PolyForm
<1>1. PICK h : Halves(n, h) /\ Bits(n) = { b \in 0 .. mm : h[b] % 2 = 1 }
  BY <1>0, BitsIs
<1>2. PICK k : Halves(nn, k) /\ Bits(nn) = { b \in 0 .. mm : k[b] % 2 = 1 }
  BY <1>0, BitsIs
<1>3. PICK s : Digits(0 .. mm - 1, s) /\ nn = s[0]
  <2>1. 0 .. mm - 1 \subseteq 0 .. mm
    BY <1>0
  <2> QED
    BY <2>1, NumberIs, WidthAssumption
<1>4. k \in [0 .. mm -> Nat] /\ k[0] = nn /\ \A b \in 0 .. mm - 1 : k[b + 1] = k[b] \div 2
  BY <1>2 DEF Halves
<1>5. /\ s \in [0 .. mm + 1 -> Nat] /\ s[mm + 1] = 0
      /\ \A b \in 0 .. mm : s[b] = 2 * s[b + 1] + (IF b \in 0 .. mm - 1 THEN 1 ELSE 0)
  BY <1>3 DEF Digits
<1>6. \A b \in 0 .. mm : k[b] = s[b]
  <2> DEFINE T == { b \in Nat : b \in 0 .. mm => k[b] = s[b] }
  <2>1. 0 \in T
    BY <1>3, <1>4
  <2>2. ASSUME NEW b \in Nat, b \in T PROVE b + 1 \in T
    <3> SUFFICES ASSUME b + 1 \in 0 .. mm PROVE k[b + 1] = s[b + 1]
      OBVIOUS
    <3>1. b \in 0 .. mm - 1 /\ b \in 0 .. mm /\ b + 1 \in 0 .. mm + 1
      BY <1>0
    <3>2. PICK t \in Nat : t = s[b + 1]
      BY <1>5, <3>1
    <3>3. s[b] = 2 * t + 1
      BY <1>5, <3>1, <3>2
    <3>4. (2 * t + 1) \div 2 = t
      OBVIOUS
    <3> QED
      BY <1>4, <2>2, <3>1, <3>2, <3>3, <3>4
  <2> HIDE DEF T
  <2>3. Nat \subseteq T
    BY <2>1, <2>2, NatSetInduction
  <2> QED
    BY <1>0, <2>3 DEF T
<1>7. k[mm] = 0
  BY <1>0, <1>5, <1>6
<1>8. h[mm] = 0
  <2>1. h[mm] <= k[mm]
    BY <1>0, <1>1, <1>2, HalvesMonotone
  <2>2. h[mm] \in Nat
    BY <1>0, <1>1 DEF Halves
  <2> QED
    BY <1>7, <2>1, <2>2
<1>9. Bits(n) \in Symbol
  <2>1. mm \notin Bits(n)
    BY <1>0, <1>1, <1>8
  <2> QED
    BY <1>0, <1>1, <2>1 DEF Symbol
<1>10. PICK t : Digits(Bits(n), t) /\ Number(Bits(n)) = t[0]
  <2>1. Bits(n) \subseteq 0 .. mm
    BY <1>1
  <2> QED
    BY <2>1, NumberIs
<1>11. /\ t \in [0 .. mm + 1 -> Nat] /\ t[mm + 1] = 0
       /\ \A b \in 0 .. mm : t[b] = 2 * t[b + 1] + (IF b \in Bits(n) THEN 1 ELSE 0)
  BY <1>10 DEF Digits
<1>12. h \in [0 .. mm -> Nat] /\ h[0] = n /\ \A b \in 0 .. mm - 1 : h[b + 1] = h[b] \div 2
  BY <1>1 DEF Halves
<1> DEFINE P == { b \in 0 .. mm : t[b] = h[b] }
<1>13. mm \in P
  <2>1. mm \notin Bits(n) /\ mm \in 0 .. mm /\ mm + 1 \in 0 .. mm + 1
    BY <1>0, <1>1, <1>8
  <2> QED
    BY <1>8, <1>11, <2>1
<1>14. ASSUME NEW b \in 0 .. mm - 1, b + 1 \in P PROVE b \in P
  <2>1. b \in 0 .. mm /\ b + 1 \in 0 .. mm
    BY <1>0
  <2>2. PICK x \in Nat : x = h[b] /\ h[b + 1] = x \div 2 /\ (b \in Bits(n) <=> x % 2 = 1)
    BY <1>1, <1>12, <2>1
  <2>3. t[b] = 2 * (x \div 2) + (IF x % 2 = 1 THEN 1 ELSE 0)
    BY <1>11, <1>14, <2>1, <2>2
  <2>4. 2 * (x \div 2) + (IF x % 2 = 1 THEN 1 ELSE 0) = x
    OBVIOUS
  <2> QED
    BY <2>1, <2>2, <2>3, <2>4
<1> HIDE DEF P
<1>15. 0 \in P
  BY <1>0, <1>13, <1>14, Downward
<1> QED
  BY <1>9, <1>10, <1>12, <1>15 DEF P

\* Zero has no bits.
LEMMA BitsZero == Bits(0) = {} /\ Number({}) = 0
<1>0. mm \in Nat /\ 0 \in Nat /\ 0 <= nn /\ 0 \in PolyForm
  BY Widths DEF PolyForm
<1>1. PICK h : Halves(0, h) /\ Bits(0) = { b \in 0 .. mm : h[b] % 2 = 1 }
  BY <1>0, BitsIs
<1>2. h \in [0 .. mm -> Nat] /\ h[0] = 0 /\ \A b \in 0 .. mm - 1 : h[b + 1] = h[b] \div 2
  BY <1>1 DEF Halves
<1> DEFINE T == { b \in Nat : b \in 0 .. mm => h[b] = 0 }
<1>3. 0 \in T
  BY <1>2
<1>4. ASSUME NEW b \in Nat, b \in T PROVE b + 1 \in T
  <2> SUFFICES ASSUME b + 1 \in 0 .. mm PROVE h[b + 1] = 0
    OBVIOUS
  <2>1. b \in 0 .. mm - 1 /\ b \in 0 .. mm
    BY <1>0
  <2>2. h[b] = 0 /\ h[b + 1] = h[b] \div 2
    BY <1>2, <1>4, <2>1
  <2> QED
    BY <2>2
<1> HIDE DEF T
<1>5. \A b \in 0 .. mm : h[b] = 0
  <2>1. Nat \subseteq T
    BY <1>3, <1>4, NatSetInduction
  <2> QED
    BY <1>0, <2>1 DEF T
<1>6. Bits(0) = {}
  BY <1>1, <1>5
<1>7. Number(Bits(0)) = 0
  BY <1>0, BitsType
<1> QED
  BY <1>6, <1>7

\* Different numbers stand for different symbols.
LEMMA BitsInjective ==
  ASSUME NEW m \in PolyForm, NEW n \in PolyForm, Bits(m) = Bits(n)
  PROVE  m = n
<1>1. Number(Bits(m)) = m /\ Number(Bits(n)) = n
  BY BitsType
<1> QED
  BY <1>1

\* ^ on ints.
LEMMA XorInts ==
  ASSUME NEW m \in PolyForm, NEW n \in PolyForm
  PROVE  m ^^ n \in PolyForm /\ Bits(m ^^ n) = Xor(Bits(m), Bits(n))
<1>1. Xor(Bits(m), Bits(n)) \in Symbol
  BY BitsType, XorType
<1> QED
  BY <1>1, NumberType DEF ^^

\* The tables.
LEMMA AlphaToIs ==
  ASSUME NEW i \in 0 .. nn - 1
  PROVE  AlphaTo[i] \in PolyForm /\ Bits(AlphaTo[i]) = Power[i] /\ Power[i] \in Symbol
<1>1. Power[i] \in Symbol
  BY PrimitiveAssumption
<1>2. AlphaTo[i] = Number(Power[i])
  BY DEF AlphaTo
<1> QED
  BY <1>1, <1>2, NumberType

\* The table index_of[] holds index form, which poly form comes back from.
LEMMA IndexOfIs ==
  ASSUME NEW n \in PolyForm
  PROVE  IndexOf[n] \in IndexForm /\ Poly(IndexOf[n]) = n
<1>1. Bits(n) \in Symbol /\ Number(Bits(n)) = n
  BY BitsType
<1>2. IndexOf[n] = Log[Bits(n)]
  BY DEF IndexOf
<1>3. CASE Bits(n) = {}
  <2>1. n = 0
    BY <1>1, <1>3, BitsZero
  <2>2. IndexOf[n] = -1
    BY <1>2, <1>3, LogFacts
  <2> QED
    BY <2>1, <2>2, Widths DEF IndexForm, Poly
<1>4. CASE Bits(n) # {}
  <2>1. Log[Bits(n)] \in 0 .. nn - 1 /\ Power[Log[Bits(n)]] = Bits(n)
    BY <1>1, <1>4, LogFacts
  <2>2. AlphaTo[Log[Bits(n)]] = Number(Bits(n))
    BY <2>1 DEF AlphaTo
  <2> QED
    BY <1>1, <1>2, <2>1, <2>2, Widths DEF IndexForm, Poly
<1> QED
  BY <1>3, <1>4

\* The product through the tables.
LEMMA TimesIs ==
  ASSUME NEW n \in PolyForm, NEW m \in Nat
  PROVE  Times(IndexOf[n], m) \in PolyForm /\ Bits(Times(IndexOf[n], m)) = TimesPower(Bits(n), m)
<1>1. Bits(n) \in Symbol /\ IndexOf[n] = Log[Bits(n)]
  BY BitsType DEF IndexOf
<1>2. CASE Bits(n) = {}
  <2>1. Times(IndexOf[n], m) = 0
    BY <1>1, <1>2, LogFacts DEF Times
  <2> QED
    BY <1>2, <2>1, BitsZero, Widths DEF TimesPower, NoBit, PolyForm
<1>3. CASE Bits(n) # {}
  <2>1. PICK x \in 0 .. nn - 1 : x = Log[Bits(n)]
    BY <1>1, <1>3, LogFacts
  <2>2. (x + m) % nn \in 0 .. nn - 1
    <3>1. x + m \in Nat /\ nn \in Nat \ {0}
      BY Widths
    <3> QED
      BY <3>1, ModStep
  <2>3. Times(IndexOf[n], m) = AlphaTo[(x + m) % nn]
    BY <1>1, <2>1 DEF Times
  <2>4. TimesPower(Bits(n), m) = Power[(x + m) % nn]
    BY <1>3, <2>1 DEF TimesPower, NoBit
  <2> QED
    BY <2>2, <2>3, <2>4, AlphaToIs
<1> QED
  BY <1>2, <1>3

\* A sum of ints is the number of the sum of their symbols.
LEMMA XorOfIs ==
  ASSUME NEW D, IsFiniteSet(D), NEW f \in [D -> PolyForm], NEW g \in [D -> Symbol],
         \A x \in D : g[x] = Bits(f[x])
  PROVE  XorOf(f) = Number(XorSum(g)) /\ XorOf(f) \in PolyForm
<1> DEFINE E == { <<x, Bits(f[x])>> : x \in D }
           h == [x \in D |-> <<x, Bits(f[x])>>]
           e == [t \in E |-> t[2]]
<1>1. h \in Bijection(D, E)
  <2>1. h \in [D -> E] /\ \A x, y \in D : h[x] = h[y] => x = y
    OBVIOUS
  <2>2. \A y \in E : \E x \in D : h[x] = y
    OBVIOUS
  <2> HIDE DEF h, E
  <2> QED
    BY <2>1, <2>2 DEF Bijection, Injection, Surjection, IsInjective
<1>2. \A x \in D : Bits(f[x]) \in Symbol
  BY BitsType
<1>3. e \in [E -> Symbol]
  BY <1>2
<1>4. \A x \in D : g[x] = e[h[x]]
  OBVIOUS
<1>5. XorOf(f) = Number(XorSum(e))
  BY DEF XorOf
<1> HIDE DEF e, E, h
<1>6. XorSum(g) = XorSum(e)
  BY <1>1, <1>3, <1>4, XorSumBijection
<1> QED
  BY <1>5, <1>6, XorSumType, NumberType

\* An array of ints as an array of symbols.
LEMMA AsSymbolsIs ==
  ASSUME NEW D, NEW f \in [D -> PolyForm]
  PROVE  AsSymbols(f) \in [D -> Symbol] /\ \A x \in D : AsSymbols(f)[x] = Bits(f[x])
BY BitsType DEF AsSymbols

\* One place of it.
LEMMA AsSymbolsAt ==
  ASSUME NEW D, NEW f \in [D -> PolyForm], NEW x \in D
  PROVE  AsSymbols(f)[x] = Bits(f[x]) /\ f[x] \in PolyForm
BY DEF AsSymbols

\* The value of a polynomial with ints as coefficients.
LEMMA ValueOfIs ==
  ASSUME NEW n \in Nat, NEW c \in [0 .. n -> PolyForm], NEW r \in Nat
  PROVE  ValueOf(c, r) = Number(ValueAt(AsSymbols(c), r))
<1> DEFINE D == 0 .. n
           f == [k \in D |-> Times(IndexOf[c[k]], r * k)]
           g == [k \in D |-> TimesPower(AsSymbols(c)[k], r * k)]
<1>1. ASSUME NEW k \in D
      PROVE  f[k] \in PolyForm /\ g[k] = Bits(f[k]) /\ g[k] \in Symbol
  <2>1. r * k \in Nat /\ c[k] \in PolyForm
    OBVIOUS
  <2>2. AsSymbols(c)[k] = Bits(c[k])
    BY AsSymbolsIs
  <2>3. /\ Times(IndexOf[c[k]], r * k) \in PolyForm
        /\ Bits(Times(IndexOf[c[k]], r * k)) = TimesPower(Bits(c[k]), r * k)
    BY <2>1, TimesIs
  <2> QED
    BY <2>2, <2>3, BitsType
<1>2. f \in [D -> PolyForm] /\ g \in [D -> Symbol] /\ IsFiniteSet(D)
  <2>1. IsFiniteSet(D)
    BY FS_Interval
  <2>2. f = [k \in D |-> f[k]] /\ g = [k \in D |-> g[k]]
    OBVIOUS
  <2> HIDE DEF f, g
  <2> QED
    BY <1>1, <2>1, <2>2
<1>3. ValueOf(c, r) = XorOf(f)
  BY DEF ValueOf
<1>4. ValueAt(AsSymbols(c), r) = XorSum(g)
  BY AsSymbolsIs DEF ValueAt
<1> HIDE DEF f, g, D
<1>5. XorOf(f) = Number(XorSum(g))
  BY <1>1, <1>2, XorOfIs
<1> QED
  BY <1>3, <1>4, <1>5

-----------------------------------------------------------------------------
(* The key equation *)

SyndromeVectors == [1 .. Degree -> Symbol]

\* The syndrome at place y, zero where there is none.
At(s, y) == IF y \in 1 .. Degree THEN s[y] ELSE {}

\* The coefficient at place y of the product of polynomial p and the syndromes s.
Product(p, s, y) == XorSum([x \in 0 .. Degree |-> Mul(p[x], At(s, y - x))])

\* A syndrome, or the zero where there is none, is a symbol.
LEMMA AtType ==
  ASSUME NEW s \in SyndromeVectors, NEW y
  PROVE  At(s, y) \in Symbol
BY Widths DEF At, SyndromeVectors

\* Twice tt is between 1 and the length of the code.
LEMMA DegreeIs == Degree \in Nat /\ Degree > 1 /\ Degree < nn /\ Degree = 2 * tt /\ Degree - 1 \in Nat
BY Widths DEF Degree

\* The products are symbols.
LEMMA ProductType ==
  ASSUME NEW p \in Polynomial, NEW s \in SyndromeVectors, NEW y \in Int
  PROVE  /\ Product(p, s, y) \in Symbol
         /\ [x \in 0 .. Degree |-> Mul(p[x], At(s, y - x))] \in [0 .. Degree -> Symbol]
         /\ IsFiniteSet(0 .. Degree)
<1>1. \A x \in 0 .. Degree : Mul(p[x], At(s, y - x)) \in Symbol
  BY AtType, MulType DEF Polynomial
<1>2. IsFiniteSet(0 .. Degree)
  BY DegreeIs, FS_Interval
<1> QED
  BY <1>1, <1>2, XorSumType DEF Product

\* The product with a sum of two polynomials,
LEMMA ProductAdd ==
  ASSUME NEW s \in SyndromeVectors, NEW y \in Int, NEW p, NEW q, NEW r, IsSum(0 .. Degree, p, q, r)
  PROVE  Product(r, s, y) = Xor(Product(p, s, y), Product(q, s, y))
<1> DEFINE D == 0 .. Degree
           F(c) == [x \in D |-> Mul(c[x], At(s, y - x))]
<1>1. /\ p \in Polynomial /\ q \in Polynomial /\ r \in Polynomial
      /\ \A x \in D : r[x] = Xor(p[x], q[x])
  BY DEF IsSum, Polynomial
<1>2. \A x \in D : F(r)[x] = Xor(F(p)[x], F(q)[x])
  <2> SUFFICES ASSUME NEW x \in D PROVE F(r)[x] = Xor(F(p)[x], F(q)[x])
    OBVIOUS
  <2>1. p[x] \in Symbol /\ q[x] \in Symbol /\ At(s, y - x) \in Symbol
    BY <1>1, AtType DEF Polynomial
  <2>2. Mul(Xor(p[x], q[x]), At(s, y - x)) = Xor(Mul(p[x], At(s, y - x)), Mul(q[x], At(s, y - x)))
    BY <2>1, MulAdd
  <2> QED
    BY <1>1, <2>2
<1>3. /\ F(p) \in [D -> Symbol] /\ F(q) \in [D -> Symbol] /\ F(r) \in [D -> Symbol]
      /\ IsFiniteSet(D)
  BY <1>1, ProductType
<1>4. Product(p, s, y) = XorSum(F(p)) /\ Product(q, s, y) = XorSum(F(q)) /\ Product(r, s, y) = XorSum(F(r))
  BY DEF Product
<1> HIDE DEF F, D
<1>5. IsSum(D, F(p), F(q), F(r))
  BY <1>2, <1>3 DEF IsSum
<1> QED
  BY <1>3, <1>4, <1>5, XorSumAdd

\* with a polynomial times a power of alpha,
LEMMA ProductRaised ==
  ASSUME NEW s \in SyndromeVectors, NEW y \in Int, NEW e \in Nat,
         NEW p \in Polynomial, NEW q \in Polynomial, \A x \in 0 .. Degree : q[x] = Raised(p[x], e)
  PROVE  Product(q, s, y) = Raised(Product(p, s, y), e)
<1> DEFINE D == 0 .. Degree
           L == RaisedBy(e)
           F(c) == [x \in D |-> Mul(c[x], At(s, y - x))]
<1>1. Additive(L) /\ \A a \in Symbol : L[a] = Raised(a, e)
  BY RaisedAdditive DEF RaisedBy
<1>2. F(p) \in [D -> Symbol] /\ F(q) \in [D -> Symbol] /\ IsFiniteSet(D)
  BY ProductType
<1>3. \A x \in D : F(q)[x] = L[F(p)[x]]
  <2> SUFFICES ASSUME NEW x \in D PROVE F(q)[x] = L[F(p)[x]]
    OBVIOUS
  <2>1. p[x] \in Symbol /\ At(s, y - x) \in Symbol
    BY AtType DEF Polynomial
  <2>2. Mul(Raised(p[x], e), At(s, y - x)) = Raised(Mul(p[x], At(s, y - x)), e)
    BY <2>1, MulRaised
  <2>3. Mul(p[x], At(s, y - x)) \in Symbol
    BY <2>1, MulType
  <2> HIDE DEF L
  <2> QED
    BY <1>1, <2>2, <2>3
<1>4. Product(p, s, y) = XorSum(F(p)) /\ Product(q, s, y) = XorSum(F(q)) /\ Product(p, s, y) \in Symbol
  BY ProductType DEF Product
<1> HIDE DEF F, D, L
<1>5. Maps(L, D, F(p), F(q))
  BY <1>2, <1>3 DEF Maps
<1>6. XorSum(F(q)) = L[XorSum(F(p))]
  BY <1>1, <1>2, <1>5, XorSumAdditive
<1> QED
  BY <1>1, <1>4, <1>6

\* and with one moved up by n places.
LEMMA ProductShifted ==
  ASSUME NEW s \in SyndromeVectors, NEW y \in Int, NEW n \in 0 .. Degree,
         NEW p \in Polynomial, NEW q \in Polynomial,
         \A x \in 0 .. Degree : q[x] = IF x >= n THEN p[x - n] ELSE {},
         \A x \in 0 .. Degree : x > Degree - n => p[x] = {}
  PROVE  Product(q, s, y) = Product(p, s, y - n)
<1> DEFINE D == 0 .. Degree
           E == n .. Degree
           G == 0 .. Degree - n
           f == [x \in D |-> Mul(q[x], At(s, y - x))]
           g == [x \in D |-> Mul(p[x], At(s, (y - n) - x))]
           fe == [x \in E |-> f[x]]
           ge == [x \in G |-> g[x]]
           h == [x \in E |-> x - n]
<1>0. Degree \in Nat /\ n \in Nat /\ n <= Degree /\ y - n \in Int
  BY DegreeIs
<1>1. f \in [D -> Symbol] /\ g \in [D -> Symbol]
  BY <1>0, ProductType
<1>2. XorSum(f) = XorSum(fe)
  <2>1. E \subseteq D
    BY <1>0
  <2>2. \A x \in D : x \notin E => f[x] = {}
    <3> SUFFICES ASSUME NEW x \in D, x \notin E PROVE f[x] = {}
      OBVIOUS
    <3>1. q[x] = {}
      BY <1>0
    <3> QED
      BY <3>1, AtType, MulZero
  <2> HIDE DEF f, E, D
  <2>3. Extends(D, E, f, fe)
    BY <1>1, <2>1, <2>2 DEF Extends
  <2> HIDE DEF fe
  <2> QED
    BY <2>3, XorSumSupport
<1>3. XorSum(g) = XorSum(ge)
  <2>1. G \subseteq D
    BY <1>0
  <2>2. \A x \in D : x \notin G => g[x] = {}
    <3> SUFFICES ASSUME NEW x \in D, x \notin G PROVE g[x] = {}
      OBVIOUS
    <3>1. p[x] = {}
      BY <1>0
    <3> QED
      BY <3>1, AtType, MulZero
  <2> HIDE DEF g, G, D
  <2>3. Extends(D, G, g, ge)
    BY <1>1, <2>1, <2>2 DEF Extends
  <2> HIDE DEF ge
  <2> QED
    BY <2>3, XorSumSupport
<1>4. h \in Bijection(E, G)
  <2>1. h \in [E -> G] /\ \A x, t \in E : h[x] = h[t] => x = t
    BY <1>0
  <2>2. \A t \in G : \E x \in E : h[x] = t
    <3> SUFFICES ASSUME NEW t \in G PROVE \E x \in E : h[x] = t
      OBVIOUS
    <3>1. t + n \in E /\ h[t + n] = t
      BY <1>0
    <3> QED
      BY <3>1
  <2> HIDE DEF h, E, G
  <2> QED
    BY <2>1, <2>2 DEF Bijection, Injection, Surjection, IsInjective
<1>5. \A x \in E : fe[x] = ge[h[x]]
  <2> SUFFICES ASSUME NEW x \in E PROVE fe[x] = ge[h[x]]
    OBVIOUS
  <2>1. x \in D /\ x - n \in G /\ x - n \in D /\ x >= n /\ (y - n) - (x - n) = y - x
    BY <1>0
  <2>2. fe[x] = Mul(p[x - n], At(s, y - x))
    BY <2>1
  <2>3. ge[x - n] = Mul(p[x - n], At(s, (y - n) - (x - n)))
    BY <2>1
  <2> QED
    BY <2>1, <2>2, <2>3
<1>6. fe \in [E -> Symbol] /\ ge \in [G -> Symbol] /\ IsFiniteSet(E)
  <2>1. E \subseteq D /\ G \subseteq D
    BY <1>0
  <2>2. IsFiniteSet(E)
    BY <1>0, FS_Interval
  <2> HIDE DEF f, g, D, E, G
  <2> QED
    BY <1>1, <2>1, <2>2
<1>7. Product(q, s, y) = XorSum(f) /\ Product(p, s, y - n) = XorSum(g)
  BY DEF Product
<1> HIDE DEF f, g, fe, ge, h, D, E, G
<1>8. XorSum(fe) = XorSum(ge)
  BY <1>4, <1>5, <1>6, XorSumBijection
<1> QED
  BY <1>2, <1>3, <1>7, <1>8

-----------------------------------------------------------------------------
(* One step of Berlekamp's algorithm *)

\* What holds of the polynomial p and the degree n of step r: it generates the syndromes
\* from place n + 1 up to the one before place r.
Row(r, p, n, s) ==
  /\ p \in Polynomial
  /\ n \in 0 .. Degree
  /\ p[0] = One
  /\ \A x \in 0 .. Degree : x > n => p[x] = {}
  /\ n <= IF r = 0 THEN 0 ELSE r - 1
  /\ r # 0 => \A y \in n + 1 .. r - 1 : Product(p, s, y) = {}

\* The discrepancy of step r.
Gap(r, p, s) == IF r = 0 THEN One ELSE Product(p, s, r)

\* A polynomial without a discrepancy is the one of the next step, too.
LEMMA RowKept ==
  ASSUME NEW r \in Nat \ {0}, NEW p, NEW n, NEW s, Row(r, p, n, s), Gap(r, p, s) = {}
  PROVE  Row(r + 1, p, n, s)
<1>0. n \in Nat
  BY DegreeIs DEF Row
<1>1. n <= r - 1 /\ \A y \in n + 1 .. r - 1 : Product(p, s, y) = {}
  BY DEF Row
<1>2. \A y \in n + 1 .. (r + 1) - 1 : Product(p, s, y) = {}
  BY <1>0, <1>1 DEF Gap
<1>3. n <= (r + 1) - 1 /\ r + 1 # 0
  BY <1>0, <1>1
<1> QED
  BY <1>2, <1>3 DEF Row

\* Polynomial p plus q moved up by n places and times alpha^e.
Sum(p, q, n, e) ==
  [x \in 0 .. Degree |-> Xor(IF x >= n THEN Raised(q[x - n], e) ELSE {}, p[x])]

\* With q scaled so that the discrepancies cancel, the sum is the polynomial of the next step.
LEMMA RowCorrected ==
  ASSUME NEW s \in SyndromeVectors, NEW step \in 1 .. Degree, NEW q \in 0 .. step - 1,
         NEW pu, NEW nu, NEW pq, NEW nq, Row(step, pu, nu, s), Row(q, pq, nq, s),
         NEW e \in Nat, Raised(Gap(q, pq, s), e) = Gap(step, pu, s)
  PROVE  /\ Row(step + 1, Sum(pu, pq, step - q, e), IF nu > nq + step - q THEN nu ELSE nq + step - q, s)
         /\ Sum(pu, pq, step - q, e) \in Polynomial
<1> DEFINE n == step - q
           N == IF nu > nq + step - q THEN nu ELSE nq + step - q
           raised == [x \in 0 .. Degree |-> Raised(pq[x], e)]
           moved == [x \in 0 .. Degree |-> IF x >= n THEN raised[x - n] ELSE {}]
           p == Sum(pu, pq, n, e)
<1>0. /\ Degree \in Nat /\ step \in Nat /\ q \in Nat /\ step # 0 /\ q < step /\ step <= Degree
      /\ n \in 1 .. Degree /\ n \in Nat
  BY DegreeIs
<1>1. /\ pu \in Polynomial /\ nu \in 0 .. Degree /\ pu[0] = One /\ nu <= step - 1
      /\ \A x \in 0 .. Degree : x > nu => pu[x] = {}
      /\ \A y \in nu + 1 .. step - 1 : Product(pu, s, y) = {}
  BY <1>0 DEF Row
<1>2. /\ pq \in Polynomial /\ nq \in 0 .. Degree /\ nq <= q /\ (q # 0 => nq <= q - 1)
      /\ \A x \in 0 .. Degree : x > nq => pq[x] = {}
      /\ q # 0 => \A y \in nq + 1 .. q - 1 : Product(pq, s, y) = {}
  BY <1>0 DEF Row
<1>3. N \in 0 .. Degree /\ N <= step /\ nu <= N /\ nq + n <= N /\ N \in Nat /\ nu \in Nat /\ nq \in Nat
  BY <1>0, <1>1, <1>2
<1>4. \A x \in 0 .. Degree : raised[x] = Raised(pq[x], e) /\ raised[x] \in Symbol /\ pq[x] \in Symbol
  BY <1>2, RaisedType DEF Polynomial
<1>5. raised \in Polynomial
  BY <1>4 DEF Polynomial
<1>6. moved \in Polynomial /\ \A x \in 0 .. Degree : moved[x] = IF x >= n THEN raised[x - n] ELSE {}
  <2>1. \A x \in 0 .. Degree : moved[x] \in Symbol
    <3> SUFFICES ASSUME NEW x \in 0 .. Degree PROVE moved[x] \in Symbol
      OBVIOUS
    <3>1. x >= n => x - n \in 0 .. Degree
      BY <1>0
    <3> HIDE DEF raised
    <3> QED
      BY <1>4, <3>1, Widths
  <2> HIDE DEF raised
  <2> QED
    BY <2>1 DEF Polynomial
<1>7. \A x \in 0 .. Degree : p[x] = Xor(moved[x], pu[x]) /\ p[x] \in Symbol /\ moved[x] \in Symbol
  <2> SUFFICES ASSUME NEW x \in 0 .. Degree
               PROVE  p[x] = Xor(moved[x], pu[x]) /\ p[x] \in Symbol /\ moved[x] \in Symbol
    OBVIOUS
  <2>1. x >= n => x - n \in 0 .. Degree
    BY <1>0
  <2>2. p[x] = Xor(moved[x], pu[x])
    BY <2>1 DEF Sum
  <2>3. moved[x] \in Symbol /\ pu[x] \in Symbol
    BY <1>1, <1>6 DEF Polynomial
  <2> QED
    BY <2>2, <2>3, XorType
<1>8. p \in Polynomial
  <2>1. p = [x \in 0 .. Degree |-> p[x]]
    BY DEF Sum
  <2> HIDE DEF p
  <2> QED
    BY <1>7, <2>1 DEF Polynomial
<1>9. IsSum(0 .. Degree, moved, pu, p)
  <2> HIDE DEF p, moved
  <2> QED
    BY <1>1, <1>6, <1>7, <1>8 DEF IsSum, Polynomial
<1>10. \A y \in Int : Product(p, s, y) = Xor(Raised(Product(pq, s, y - n), e), Product(pu, s, y))
  <2> SUFFICES ASSUME NEW y \in Int
               PROVE  Product(p, s, y) = Xor(Raised(Product(pq, s, y - n), e), Product(pu, s, y))
    OBVIOUS
  <2>1. Product(p, s, y) = Xor(Product(moved, s, y), Product(pu, s, y))
    <3> HIDE DEF p, moved
    <3> QED
      BY <1>9, ProductAdd
  <2>2. \A x \in 0 .. Degree : x > Degree - n => raised[x] = {}
    <3> SUFFICES ASSUME NEW x \in 0 .. Degree, x > Degree - n PROVE raised[x] = {}
      OBVIOUS
    <3>1. x > nq
      BY <1>0, <1>3
    <3>2. pq[x] = {}
      BY <1>2, <3>1
    <3> QED
      BY <1>4, <3>2, RaisedZero
  <2>3. Product(moved, s, y) = Product(raised, s, y - n)
    <3>1. n \in 0 .. Degree
      BY <1>0
    <3> HIDE DEF moved, raised, n
    <3> QED
      BY <1>5, <1>6, <2>2, <3>1, ProductShifted
  <2>4. Product(raised, s, y - n) = Raised(Product(pq, s, y - n), e)
    <3>1. y - n \in Int
      BY <1>0
    <3> HIDE DEF raised, n
    <3> QED
      BY <1>2, <1>4, <1>5, <3>1, ProductRaised
  <2> QED
    BY <2>1, <2>3, <2>4
<1>11. p[0] = One
  <2>1. moved[0] = {} /\ 0 \in 0 .. Degree
    BY <1>0, <1>6
  <2> HIDE DEF p, moved
  <2> QED
    BY <1>1, <1>7, <2>1, XorZero
<1>12. \A x \in 0 .. Degree : x > N => p[x] = {}
  <2> SUFFICES ASSUME NEW x \in 0 .. Degree, x > N PROVE p[x] = {}
    OBVIOUS
  <2>1. x > nu /\ x >= n /\ x - n > nq /\ x - n \in 0 .. Degree
    BY <1>0, <1>3
  <2>2. pu[x] = {} /\ pq[x - n] = {} /\ moved[x] = raised[x - n]
    BY <1>1, <1>2, <1>6, <2>1
  <2>3. moved[x] = {}
    <3>1. raised[x - n] = Raised(pq[x - n], e)
      BY <1>4, <2>1
    <3> QED
      BY <2>2, <3>1, RaisedZero
  <2> HIDE DEF p, moved
  <2> QED
    BY <1>7, <2>2, <2>3, XorZero
<1>13. \A y \in N + 1 .. step : Product(p, s, y) = {}
  <2> SUFFICES ASSUME NEW y \in N + 1 .. step PROVE Product(p, s, y) = {}
    OBVIOUS
  <2>1. y \in Int /\ y \in Nat /\ y - n \in Int /\ y - n >= nq + 1 /\ y - n <= q /\ y >= nu + 1
    BY <1>0, <1>3
  <2>2. q # 0
    BY <1>0, <1>2, <1>3, <2>1
  <2>3. CASE y = step
    <3>1. y - n = q
      BY <1>0, <2>3
    <3>2. Raised(Product(pq, s, q), e) = Product(pu, s, step)
      BY <1>0, <2>2 DEF Gap
    <3> HIDE DEF p, n
    <3> QED
      BY <1>10, <2>1, <2>3, <3>1, <3>2, XorZero
  <2>4. CASE y # step
    <3>1. y \in nu + 1 .. step - 1 /\ y - n \in nq + 1 .. q - 1
      BY <1>0, <1>3, <2>1, <2>4
    <3>2. Product(pu, s, y) = {} /\ Product(pq, s, y - n) = {}
      BY <1>1, <1>2, <2>2, <3>1
    <3>3. Raised({}, e) = {}
      BY RaisedZero
    <3> HIDE DEF p, n
    <3> QED
      BY <1>10, <2>1, <3>2, <3>3, XorZero
  <2> QED
    BY <2>3, <2>4
<1>14. (step + 1) - 1 = step /\ step + 1 # 0
  BY <1>0
<1> HIDE DEF p, n, N
<1>15. Row(step + 1, p, N, s)
  BY <1>3, <1>8, <1>11, <1>12, <1>13, <1>14 DEF Row
<1> QED
  BY <1>8, <1>15 DEF p, n, N

-----------------------------------------------------------------------------
(* Berlekamp's algorithm on ints *)

\* The index form of a symbol, and back.
LEMMA LogIs ==
  ASSUME NEW a \in Symbol
  PROVE  /\ Log[a] \in IndexForm /\ IndexOf[Number(a)] = Log[a] /\ Poly(Log[a]) = Number(a)
         /\ (Log[a] = -1 <=> a = {})
         /\ (a # {} => Log[a] \in 0 .. nn - 1)
<1>1. Number(a) \in PolyForm /\ Bits(Number(a)) = a
  BY NumberType
<1>2. IndexOf[Number(a)] = Log[a]
  BY <1>1 DEF IndexOf
<1>3. CASE a = {}
  BY <1>1, <1>2, <1>3, IndexOfIs, LogFacts
<1>4. CASE a # {}
  <2>1. Log[a] \in 0 .. nn - 1
    BY <1>4, LogFacts
  <2>2. Log[a] # -1
    BY <2>1, Widths
  <2> QED
    BY <1>1, <1>2, <1>4, <2>1, <2>2, IndexOfIs
<1> QED
  BY <1>3, <1>4

\* The logarithm of one.
LEMMA LogOne == Log[One] = 0 /\ Power[0] = One
<1>0. 0 \in 0 .. nn - 1
  BY Widths
<1>1. Power[0] = Raised(One, 0) /\ Raised(One, 0) = One
  BY <1>0, Widths, PowerIs, RaisedFacts
<1>2. Log[One] \in 0 .. nn - 1 /\ Power[Log[One]] = One
  BY Widths, LogFacts
<1> QED
  BY <1>0, <1>1, <1>2, PowerInjective

\* A number is zero just when its symbol is.
LEMMA NumberZero ==
  ASSUME NEW a \in Symbol
  PROVE  Number(a) = 0 <=> a = {}
BY NumberType, BitsZero

\* ^ of numbers is ^ of symbols.
LEMMA NumberXor ==
  ASSUME NEW a \in Symbol, NEW b \in Symbol
  PROVE  Number(a) ^^ Number(b) = Number(Xor(a, b))
BY NumberType DEF ^^

\* A symbol that is not zero is a power of alpha.
LEMMA IsPower ==
  ASSUME NEW a \in Symbol, a # {}
  PROVE  Log[a] \in 0 .. nn - 1 /\ a = Raised(One, Log[a])
BY LogFacts, PowerIs

\* Multiplication with a power of alpha shifts the exponent.
LEMMA MulPower ==
  ASSUME NEW n \in Nat, NEW b \in Symbol
  PROVE  Mul(Raised(One, n), b) = Raised(b, n)
BY MulRaised, MulOne, Widths

\* Multiplication commutes.
LEMMA MulCommute ==
  ASSUME NEW a \in Symbol, NEW b \in Symbol
  PROVE  Mul(a, b) = Mul(b, a)
<1>1. CASE a = {} \/ b = {}
  BY <1>1, MulZero
<1>2. CASE a # {} /\ b # {}
  <2>1. PICK i \in Nat : a = Raised(One, i)
    BY <1>2, IsPower, Widths
  <2>2. PICK j \in Nat : b = Raised(One, j)
    BY <1>2, IsPower, Widths
  <2>3. Mul(a, b) = Raised(Raised(One, j), i) /\ Mul(b, a) = Raised(Raised(One, i), j)
    BY <2>1, <2>2, MulPower
  <2> QED
    BY <2>3, RaisedCommute, Widths
<1> QED
  BY <1>1, <1>2

\* The product of the tables is that of the field.
LEMMA TimesRaised ==
  ASSUME NEW a \in Symbol, NEW n \in Nat
  PROVE  Times(Log[a], n) = Number(Raised(a, n))
<1>1. Number(a) \in PolyForm /\ Bits(Number(a)) = a /\ IndexOf[Number(a)] = Log[a]
  BY NumberType, LogIs
<1>2. Times(Log[a], n) \in PolyForm /\ Bits(Times(Log[a], n)) = TimesPower(a, n)
  BY <1>1, TimesIs
<1>3. Number(Bits(Times(Log[a], n))) = Times(Log[a], n)
  BY <1>2, BitsType
<1> QED
  BY <1>2, <1>3, TimesPowerIs

\* The product of two index forms.
LEMMA TimesLogs ==
  ASSUME NEW a \in Symbol, NEW b \in Symbol
  PROVE  Times(Log[a], Log[b]) = Number(Mul(a, b))
<1>1. CASE b = {}
  BY <1>1, LogIs, MulZero, BitsZero DEF Times
<1>2. CASE b # {}
  <2>1. PICK n \in Nat : n = Log[b] /\ b = Raised(One, n)
    BY <1>2, IsPower, Widths
  <2>2. Times(Log[a], n) = Number(Raised(a, n))
    BY TimesRaised
  <2>3. Mul(b, a) = Raised(a, n)
    BY <2>1, MulPower
  <2> QED
    BY <2>1, <2>2, <2>3, MulCommute
<1> QED
  BY <1>1, <1>2

\* The coefficient of a product, from the ints up to the degree.
LEMMA ProductIs ==
  ASSUME NEW s \in SyndromeVectors, NEW p \in Polynomial, NEW n \in 0 .. Degree, NEW y \in Int,
         \A x \in 0 .. Degree : x > n => p[x] = {},
         NEW f, DOMAIN f = 0 .. n, \A x \in 0 .. n : f[x] = Number(Mul(p[x], At(s, y - x)))
  PROVE  XorOf(f) = Number(Product(p, s, y)) /\ XorOf(f) \in PolyForm
<1> DEFINE D == 0 .. Degree
           E == 0 .. n
           F == [x \in D |-> Mul(p[x], At(s, y - x))]
           G == [x \in E |-> F[x]]
           h == [x \in E |-> f[x]]
<1>0. n \in Nat /\ Degree \in Nat /\ E \subseteq D
  BY DegreeIs
<1>a. IsFiniteSet(E)
  BY <1>0, FS_Interval
<1>1. F \in [D -> Symbol] /\ Product(p, s, y) = XorSum(F)
  BY ProductType DEF Product
<1>2. \A x \in D : x \notin E => F[x] = {}
  <2> SUFFICES ASSUME NEW x \in D, x \notin E PROVE F[x] = {}
    OBVIOUS
  <2>1. p[x] = {}
    BY <1>0
  <2> QED
    BY <2>1, AtType, MulZero
<1>3. \A x \in E : G[x] = F[x] /\ G[x] \in Symbol /\ f[x] = Number(F[x])
  <2> SUFFICES ASSUME NEW x \in E PROVE G[x] = F[x] /\ G[x] \in Symbol /\ f[x] = Number(F[x])
    OBVIOUS
  <2>1. x \in D /\ F[x] = Mul(p[x], At(s, y - x))
    BY <1>0
  <2> HIDE DEF F, D
  <2> QED
    BY <1>1, <2>1
<1> HIDE DEF F, D
<1>4. G \in [E -> Symbol]
  BY <1>3
<1>5. Extends(D, E, F, G)
  <2> HIDE DEF G, E
  <2> QED
    BY <1>0, <1>1, <1>2, <1>3, <1>4 DEF Extends
<1>6. \A x \in E : f[x] \in PolyForm /\ G[x] = Bits(f[x])
  BY <1>3, NumberType
<1>7. h \in [E -> PolyForm] /\ (\A x \in E : G[x] = Bits(h[x]))
  BY <1>6
<1>8. XorOf(f) = XorOf(h)
  BY DEF XorOf
<1> HIDE DEF G, E, h
<1>9. XorOf(h) = Number(XorSum(G)) /\ XorOf(h) \in PolyForm
  BY <1>0, <1>4, <1>7, <1>a, XorOfIs
<1> QED
  BY <1>1, <1>5, <1>8, <1>9, XorSumSupport

\* A row of elp holds the coefficients of p up to the degree n, in index form or as ints.
IndexRow(row, p, n) == \A x \in 0 .. n : x < Degree => row[x] = Log[p[x]]
PolyRow(row, p, n) == \A x \in 0 .. n : x < Degree => row[x] = Number(p[x])

\* Coefficients are symbols.
LEMMA PolynomialAt ==
  ASSUME NEW p \in Polynomial, NEW x \in 0 .. Degree
  PROVE  p[x] \in Symbol
BY DEF Polynomial

\* The conversion of a row to index form.
LEMMA RowToIndexIs ==
  ASSUME NEW row, NEW p \in Polynomial, NEW n \in 0 .. Degree - 1, PolyRow(row, p, n)
  PROVE  IndexRow(RowToIndex(row, n), p, n)
<1> SUFFICES ASSUME NEW x \in 0 .. n, x < Degree PROVE RowToIndex(row, n)[x] = Log[p[x]]
  BY DEF IndexRow
<1>1. x \in 0 .. Degree /\ x \in 0 .. Behind /\ x <= n
  BY DegreeIs DEF Behind, Degree
<1>2. row[x] = Number(p[x]) /\ p[x] \in Symbol
  BY <1>1, PolynomialAt DEF PolyRow
<1>3. RowToIndex(row, n)[x] = IndexOf[row[x]]
  BY <1>1 DEF RowToIndex
<1> QED
  BY <1>2, <1>3, LogIs

\* synd[] holds the syndromes s in index form.
IndexSyndromes(f, s) == \A x \in 1 .. Degree : f[x] = Log[s[x]]

\* What an iteration computes as the next discrepancy.
LEMMA DiscrepancyIs ==
  ASSUME NEW s \in SyndromeVectors, IndexSyndromes(synd, s), u \in 1 .. Degree - 1,
         NEW row, NEW p, NEW n, Row(u + 1, p, n, s), PolyRow(row, p, n)
  PROVE  Discrepancy(row, n) = Log[Gap(u + 1, p, s)] /\ Discrepancy(row, n) \in IndexForm
<1>0. PICK y : y = u + 1 /\ y \in 2 .. Degree /\ y \in Int /\ y # 0 /\ y - 1 = u
  BY DegreeIs
<1>1. /\ p \in Polynomial /\ n \in 0 .. Degree /\ n <= y - 1 /\ p[0] = One
      /\ \A x \in 0 .. Degree : x > n => p[x] = {}
  BY <1>0 DEF Row
<1> DEFINE f == [x \in 0 .. n |->
                   IF x = 0 THEN Poly(synd[u + 1])
                   ELSE IF row[x] = 0 THEN 0 ELSE Times(synd[u + 1 - x], IndexOf[row[x]])]
<1>2. \A x \in 0 .. n : f[x] = Number(Mul(p[x], At(s, y - x)))
  <2> SUFFICES ASSUME NEW x \in 0 .. n PROVE f[x] = Number(Mul(p[x], At(s, y - x)))
    OBVIOUS
  <2>1. /\ x \in 0 .. Degree /\ y - x \in 1 .. Degree /\ x < Degree /\ u + 1 - x = y - x
        /\ u + 1 = y
    BY <1>0, <1>1, DegreeIs
  <2>2. PICK a \in Symbol : a = s[y - x] /\ At(s, y - x) = a /\ synd[y - x] = Log[a]
    BY <2>1 DEF SyndromeVectors, IndexSyndromes, At
  <2>3. PICK b \in Symbol : b = p[x] /\ row[x] = Number(b)
    BY <1>1, <2>1, PolynomialAt DEF PolyRow
  <2>4. CASE x = 0
    <3>1. f[x] = Poly(Log[a])
      <4>1. y - x = y
        BY <1>0, <2>4
      <4> QED
        BY <2>1, <2>2, <2>4, <4>1
    <3>2. b = One
      BY <1>1, <2>3, <2>4
    <3> HIDE DEF f
    <3> QED
      BY <2>2, <2>3, <3>1, <3>2, LogIs, MulOne
  <2>5. CASE x # 0 /\ b = {}
    <3>1. row[x] = 0
      BY <2>3, <2>5, BitsZero
    <3>2. f[x] = 0
      BY <2>5, <3>1
    <3> HIDE DEF f
    <3> QED
      BY <2>2, <2>3, <2>5, <3>2, BitsZero, MulZero
  <2>6. CASE x # 0 /\ b # {}
    <3>1. row[x] # 0
      BY <2>3, <2>6, NumberZero
    <3>2. f[x] = Times(Log[a], Log[b])
      <4>1. f[x] = Times(synd[u + 1 - x], IndexOf[row[x]])
        BY <2>6, <3>1
      <4> HIDE DEF f
      <4> QED
        BY <2>1, <2>2, <2>3, <4>1, LogIs
    <3> HIDE DEF f
    <3> QED
      BY <2>2, <2>3, <3>2, TimesLogs, MulCommute
  <2> QED
    BY <2>4, <2>5, <2>6
<1>3. DOMAIN f = 0 .. n
  OBVIOUS
<1>4. Discrepancy(row, n) = IndexOf[XorOf(f)]
  BY DEF Discrepancy
<1> HIDE DEF f
<1>5. XorOf(f) = Number(Product(p, s, y)) /\ Product(p, s, y) \in Symbol
  <2>1. y \in Int /\ p \in Polynomial /\ n \in 0 .. Degree /\ \A x \in 0 .. Degree : x > n => p[x] = {}
    BY <1>0, <1>1
  <2>2. Product(p, s, y) \in Symbol
    BY <2>1, ProductType
  <2> QED
    BY <1>2, <1>3, <2>1, <2>2, ProductIs
<1>6. Gap(u + 1, p, s) = Product(p, s, y)
  BY <1>0 DEF Gap
<1> QED
  BY <1>4, <1>5, <1>6, LogIs

\* The sum that KeyEquation takes from the ints of the newest row.
LEMMA KeySumIs ==
  ASSUME NEW s \in SyndromeVectors, NEW f, IndexSyndromes(f, s), NEW r \in 1 .. Degree + 1,
         NEW row, NEW p, NEW n, Row(r, p, n, s), PolyRow(row, p, n), NEW y \in n + 1 .. r - 1
  PROVE  XorOf([x \in 0 .. n |-> Times(IndexOf[row[x]], f[y - x])]) = 0
<1>1. /\ p \in Polynomial /\ n \in 0 .. Degree /\ n \in Nat /\ Degree \in Nat /\ r # 0
      /\ \A x \in 0 .. Degree : x > n => p[x] = {}
      /\ Product(p, s, y) = {}
  BY DegreeIs DEF Row
<1>2. y \in Int /\ y \in 1 .. Degree /\ n < Degree
  BY <1>1
<1> DEFINE g == [x \in 0 .. n |-> Times(IndexOf[row[x]], f[y - x])]
<1>3. \A x \in 0 .. n : g[x] = Number(Mul(p[x], At(s, y - x)))
  <2> SUFFICES ASSUME NEW x \in 0 .. n PROVE g[x] = Number(Mul(p[x], At(s, y - x)))
    OBVIOUS
  <2>1. x \in 0 .. Degree /\ x < Degree /\ y - x \in 1 .. Degree
    BY <1>1, <1>2
  <2>2. PICK a \in Symbol : a = s[y - x] /\ At(s, y - x) = a /\ f[y - x] = Log[a]
    BY <2>1 DEF SyndromeVectors, IndexSyndromes, At
  <2>3. PICK b \in Symbol : b = p[x] /\ row[x] = Number(b)
    BY <1>1, <2>1, PolynomialAt DEF PolyRow
  <2>4. g[x] = Times(Log[b], Log[a])
    BY <2>2, <2>3, LogIs
  <2> HIDE DEF g
  <2> QED
    BY <2>2, <2>3, <2>4, TimesLogs
<1>4. DOMAIN g = 0 .. n
  OBVIOUS
<1> HIDE DEF g
<1>5. XorOf(g) = Number(Product(p, s, y))
  BY ZenonT(40), <1>1, <1>2, <1>3, <1>4, ProductIs
<1>6. XorOf(g) = 0
  BY <1>1, <1>5, BitsZero
<1> QED
  BY <1>6 DEF g

\* The discrepancy of an earlier step, times this power of alpha, is that of step u.
LEMMA GapsCancel ==
  ASSUME NEW a \in Symbol, NEW b \in Symbol, a # {}, b # {}
  PROVE  Log[a] + nn - Log[b] \in Nat /\ Raised(b, Log[a] + nn - Log[b]) = a
<1>1. PICK i, j : /\ i \in 0 .. nn - 1 /\ j \in 0 .. nn - 1 /\ i = Log[a] /\ j = Log[b]
                  /\ a = Raised(One, i) /\ b = Raised(One, j)
  <2>1. Log[a] \in 0 .. nn - 1 /\ a = Raised(One, Log[a])
    BY IsPower
  <2>2. Log[b] \in 0 .. nn - 1 /\ b = Raised(One, Log[b])
    BY IsPower
  <2> QED
    BY <2>1, <2>2
<1>2. nn \in Nat /\ One \in Symbol
  BY Widths
<1>3. PICK n \in Nat : n = i + nn - j /\ j + n = i + nn
  BY <1>1, <1>2
<1>4. i \in Nat /\ j \in Nat
  BY <1>1, <1>2
<1>5. Raised(Raised(One, j), n) = Raised(One, j + n)
  BY <1>2, <1>4, RaisedSum
<1>6. Raised(One, i + nn) = Raised(Raised(One, i), nn)
  BY <1>2, <1>4, RaisedSum
<1>7. Raised(Raised(One, i), nn) = Raised(One, i)
  BY <1>2, <1>4, RaisedType, RaisedWraps
<1> QED
  BY <1>1, <1>3, <1>5, <1>6, <1>7

\* The new row of an iteration that corrects with step q.
LEMMA CorrectedIs ==
  ASSUME NEW s \in SyndromeVectors, u \in 1 .. Degree, NEW q \in 0 .. u - 1,
         NEW pu, NEW pq, Row(u, pu, l[u], s), Row(q, pq, l[q], s),
         PolyRow(elp[u], pu, l[u]), IndexRow(elp[q], pq, l[q]),
         d[u] = Log[Gap(u, pu, s)], d[q] = Log[Gap(q, pq, s)], d[u] # -1, d[q] # -1,
         NEW N, N = IF l[u] > l[q] + u - q THEN l[u] ELSE l[q] + u - q
  PROVE  \E p : Row(u + 1, p, N, s) /\ PolyRow(Corrected(q), p, N)
<1>0. /\ Degree \in Nat /\ Behind = Degree /\ u \in Nat /\ q \in Nat /\ q < u /\ u # 0
      /\ u <= Degree /\ u \in Int /\ q \in Int
  BY DegreeIs DEF Behind, Degree
<1>1. /\ pu \in Polynomial /\ l[u] \in 0 .. Degree /\ l[u] <= u - 1
      /\ \A x \in 0 .. Degree : x > l[u] => pu[x] = {}
  BY <1>0 DEF Row
<1>2. /\ pq \in Polynomial /\ l[q] \in 0 .. Degree /\ l[q] <= q /\ (q # 0 => l[q] <= q - 1)
      /\ \A x \in 0 .. Degree : x > l[q] => pq[x] = {}
  BY <1>0 DEF Row
<1>3. PICK a, b : /\ a \in Symbol /\ b \in Symbol /\ a = Gap(u, pu, s) /\ b = Gap(q, pq, s)
                  /\ a # {} /\ b # {}
  <2>1. Gap(u, pu, s) \in Symbol /\ Gap(q, pq, s) \in Symbol
    BY <1>0, <1>1, <1>2, ProductType, Widths DEF Gap
  <2> QED
    BY <2>1, LogIs
<1>4. PICK e \in Nat : e = d[u] + nn - d[q] /\ Raised(b, e) = a
  BY <1>3, GapsCancel
<1> DEFINE n == u - q
           p == Sum(pu, pq, n, e)
<1>5. Row(u + 1, p, N, s) /\ p \in Polynomial
  BY <1>3, <1>4, RowCorrected
<1>6. N \in 0 .. Degree /\ n \in 1 .. Degree /\ n \in Nat /\ N >= l[u] /\ N >= l[q] + n
  BY <1>0, <1>1, <1>2
<1>7. ASSUME NEW x \in 0 .. N, x < Degree PROVE Corrected(q)[x] = Number(p[x])
  <2> DEFINE from == x - n
             term == IF from \in 0 .. l[q] /\ elp[q][from] # -1
                     THEN AlphaTo[(d[u] + nn - d[q] + elp[q][from]) % nn]
                     ELSE IF x = Behind THEN elp[u + 1][x] ELSE 0
             T == IF x >= n THEN Raised(pq[x - n], e) ELSE {}
  <2>1. x \in 0 .. Behind /\ x \in 0 .. Degree /\ x # Behind /\ from \in Int /\ (x >= n <=> from >= 0)
        /\ (from >= 0 => from \in 0 .. Degree)
    BY <1>0, <1>6, <1>7
  <2>2. Corrected(q)[x] = IF x <= l[u] THEN term ^^ elp[u][x] ELSE term
    BY <2>1 DEF Corrected
  <2>3. p[x] = Xor(T, pu[x]) /\ pu[x] \in Symbol
    BY <1>1, <2>1, PolynomialAt DEF Sum
  <2>4. term = Number(T) /\ T \in Symbol
    <3>1. CASE from < 0
      <4>1. T = {} /\ term = 0
        BY <2>1, <3>1
      <4> QED
        BY <4>1, BitsZero, Widths
    <3>2. CASE from >= 0
      <4>1. PICK c \in Symbol : c = pq[from] /\ T = Raised(c, e)
        <5>1. pq[from] \in Symbol
          BY <1>2, <2>1, <3>2, PolynomialAt
        <5> QED
          BY <2>1, <3>2, <5>1
      <4>2. T \in Symbol
        BY <4>1, RaisedType
      <4>3. CASE from <= l[q] /\ c # {}
        <5>1. from \in 0 .. l[q] /\ from < Degree
          BY <1>0, <1>2, <2>1, <3>2, <4>3
        <5>2. elp[q][from] = Log[c]
          BY <4>1, <5>1 DEF IndexRow
        <5>3. PICK i \in 0 .. nn - 1 : i = Log[c] /\ i # -1
          BY <4>3, LogIs
        <5>4. term = AlphaTo[(e + i) % nn]
          BY <1>4, <5>1, <5>2, <5>3
        <5>5. Times(Log[c], e) = AlphaTo[(i + e) % nn]
          BY <5>3 DEF Times
        <5>6. e + i = i + e
          BY <5>3, Widths
        <5> HIDE DEF term, from, T
        <5> QED
          BY <4>1, <4>2, <5>4, <5>5, <5>6, TimesRaised
      <4>4. CASE ~(from <= l[q] /\ c # {})
        <5>1. c = {}
          BY <1>2, <2>1, <3>2, <4>1, <4>4
        <5>2. from \in 0 .. l[q] => elp[q][from] = -1
          <6> SUFFICES ASSUME from \in 0 .. l[q] PROVE elp[q][from] = -1
            OBVIOUS
          <6>1. from < Degree
            BY <1>0, <1>2
          <6>2. elp[q][from] = Log[c]
            BY <4>1, <6>1 DEF IndexRow
          <6> QED
            BY <5>1, <6>2, LogIs
        <5>3. term = 0
          BY <2>1, <5>2
        <5>4. T = {}
          BY <4>1, <5>1, RaisedZero
        <5> QED
          BY <4>2, <5>3, <5>4, BitsZero
      <4> QED
        BY <4>3, <4>4
    <3> QED
      BY <2>1, <3>1, <3>2
  <2> HIDE DEF term, from, T, p
  <2>5. CASE x <= l[u]
    <3>1. elp[u][x] = Number(pu[x])
      BY <1>7, <2>1, <2>5 DEF PolyRow
    <3> QED
      BY <2>2, <2>3, <2>4, <2>5, <3>1, NumberXor
  <2>6. CASE ~(x <= l[u])
    <3>1. pu[x] = {}
      BY <1>1, <2>1, <2>6
    <3> QED
      BY <2>2, <2>3, <2>4, <2>6, <3>1, XorZero
  <2> QED
    BY <2>5, <2>6
<1>8. PolyRow(Corrected(q), p, N)
  BY <1>7 DEF PolyRow
<1> QED
  BY <1>5, <1>8

\* Step q is the one that the search takes among those before step w.
IsBest(q, w) ==
  /\ q \in 0 .. w - 1
  /\ d[q] # -1
  /\ \A x \in 0 .. w - 1 : d[x] # -1 => Lead(x) < Lead(q) \/ (Lead(x) = Lead(q) /\ x <= q)

\* There is one, step -1 at least.
LEMMA BestIs ==
  ASSUME NEW w \in Nat \ {0}, d[0] # -1, \A x \in 0 .. w - 1 : l[x] \in Int
  PROVE  IsBest(Best(w), w)
<1> DEFINE T == { v \in Nat : v + 1 <= w => \E q : IsBest(q, v + 1) }
<1>1. 0 \in T
  <2>1. \A x \in 0 .. 0 + 1 - 1 : x = 0
    OBVIOUS
  <2>2. IsBest(0, 0 + 1)
    BY <2>1 DEF IsBest
  <2> QED
    BY <2>2
<1>2. ASSUME NEW v \in Nat, v \in T PROVE v + 1 \in T
  <2> SUFFICES ASSUME (v + 1) + 1 <= w PROVE \E q : IsBest(q, (v + 1) + 1)
    OBVIOUS
  <2>1. PICK q : IsBest(q, v + 1)
    BY <1>2
  <2>2. /\ q \in 0 .. v /\ d[q] # -1
        /\ \A x \in 0 .. v : d[x] # -1 => Lead(x) < Lead(q) \/ (Lead(x) = Lead(q) /\ x <= q)
    BY <2>1 DEF IsBest
  <2>3. \A x \in 0 .. v + 1 : Lead(x) \in Int
    BY DEF Lead
  <2>4. CASE d[v + 1] # -1 /\ Lead(v + 1) >= Lead(q)
    <3>1. ASSUME NEW x \in 0 .. v + 1, d[x] # -1
          PROVE  Lead(x) < Lead(v + 1) \/ (Lead(x) = Lead(v + 1) /\ x <= v + 1)
      <4>1. CASE x \in 0 .. v
        <5>1. Lead(x) \in Int /\ Lead(q) \in Int /\ Lead(v + 1) \in Int
          BY <2>2, <2>3
        <5> QED
          BY <2>2, <2>4, <3>1, <4>1, <5>1
      <4>2. CASE x = v + 1
        BY <4>2
      <4> QED
        BY <4>1, <4>2
    <3>2. IsBest(v + 1, (v + 1) + 1)
      BY <2>4, <3>1 DEF IsBest
    <3> QED
      BY <3>2
  <2>5. CASE ~(d[v + 1] # -1 /\ Lead(v + 1) >= Lead(q))
    <3>1. ASSUME NEW x \in 0 .. v + 1, d[x] # -1
          PROVE  Lead(x) < Lead(q) \/ (Lead(x) = Lead(q) /\ x <= q)
      <4>1. CASE x \in 0 .. v
        BY <2>2, <3>1, <4>1
      <4>2. CASE x = v + 1
        <5>1. Lead(v + 1) \in Int /\ Lead(q) \in Int
          BY <2>2, <2>3
        <5> QED
          BY <2>5, <3>1, <4>2, <5>1
      <4> QED
        BY <4>1, <4>2
    <3>2. IsBest(q, (v + 1) + 1)
      BY <2>2, <3>1 DEF IsBest
    <3> QED
      BY <3>2
  <2> QED
    BY <2>4, <2>5
<1> HIDE DEF T
<1>3. Nat \subseteq T
  BY <1>1, <1>2, NatSetInduction
<1>4. w - 1 \in T /\ (w - 1) + 1 = w
  BY <1>3
<1>5. \E q \in 0 .. w - 1 :
        /\ d[q] # -1
        /\ \A x \in 0 .. w - 1 : d[x] # -1 => Lead(x) < Lead(q) \/ (Lead(x) = Lead(q) /\ x <= q)
  BY <1>4 DEF T, IsBest
<1> QED
  BY <1>5 DEF Best, IsBest

-----------------------------------------------------------------------------
(* The roots of a polynomial *)

\* A polynomial has no terms above x^n.
UpTo(p, n) == p \in Polynomial /\ \A k \in 0 .. Degree : k > n => p[k] = {}

\* A constant polynomial has one value.
LEMMA ConstantValue ==
  ASSUME NEW p, UpTo(p, 0), NEW r \in Nat
  PROVE  ValueAt(p, r) = p[0] /\ p[0] \in Symbol
<1> DEFINE D == 0 .. Degree
           E == {0}
           f == [k \in D |-> Raised(p[k], r * k)]
           e == [k \in E |-> f[k]]
           o == [k \in E \ {0} |-> f[k]]
<1>0. Degree \in Nat /\ E \subseteq D /\ 0 \in E
  BY DegreeIs
<1>a. IsFiniteSet(E)
  BY FS_Singleton
<1>1. p \in [0 .. Degree -> Symbol]
  BY DEF UpTo, Polynomial
<1>2. ValueAt(p, r) = XorSum(f) /\ f \in [D -> Symbol]
  BY <1>0, <1>1, ValueIs
<1>3. \A k \in D : k \notin E => f[k] = {}
  <2> SUFFICES ASSUME NEW k \in D, k \notin E PROVE f[k] = {}
    OBVIOUS
  <2>1. p[k] = {} /\ r * k \in Nat
    BY <1>0 DEF UpTo
  <2> QED
    BY <2>1, RaisedZero
<1>4. f[0] = p[0] /\ p[0] \in Symbol
  <2>1. p[0] \in Symbol /\ r * 0 = 0
    BY <1>0, <1>1
  <2> QED
    BY <1>0, <2>1, RaisedFacts
<1> HIDE DEF D, f
<1>5. e \in [E -> Symbol] /\ o \in [E \ {0} -> Symbol] /\ e[0] = f[0]
  BY <1>0, <1>2
<1>6. Extends(D, E, f, e) /\ Without(E, 0, e, o)
  BY <1>0, <1>2, <1>3, <1>5 DEF Extends, Without
<1>7. \A k \in E \ {0} : o[k] = {}
  OBVIOUS
<1> HIDE DEF e, o, E
<1>8. XorSum(f) = XorSum(e)
  BY <1>6, XorSumSupport
<1>9. XorSum(e) = Xor(XorSum(o), e[0])
  BY <1>0, <1>6, <1>a, XorSumInsert
<1>10. XorSum(o) = {}
  BY <1>5, <1>7, XorSumNone
<1> QED
  BY <1>2, <1>4, <1>5, <1>8, <1>9, <1>10, XorZero

\* A symbol added twice.
LEMMA XorCancel == \A x, y : Xor(Xor(x, y), y) = x /\ Xor(y, Xor(x, y)) = x
<1> SUFFICES ASSUME NEW x, NEW y PROVE Xor(Xor(x, y), y) = x /\ Xor(y, Xor(x, y)) = x
  OBVIOUS
<1>1. Xor(Xor(x, y), y) = Xor(x, Xor(y, y)) /\ Xor(y, Xor(x, y)) = Xor(Xor(x, y), y)
  BY XorFacts
<1> QED
  BY <1>1, XorZero

\* A root divides out.
LEMMA Division ==
  ASSUME NEW n \in 0 .. Degree - 1, NEW p, UpTo(p, n + 1), NEW r \in Nat, ValueAt(p, r) = {}
  PROVE  \E b : UpTo(b, n) /\ p = Factor(b, r)
<1>0. Degree \in Nat /\ n \in Nat /\ n + 1 \in 0 .. Degree /\ n < Degree /\ 0 \in 0 .. Degree
  BY DegreeIs
<1>1. p \in Polynomial /\ \A k \in 0 .. Degree : p[k] \in Symbol /\ (k > n + 1 => p[k] = {})
  BY DEF UpTo, Polynomial
<1> DEFINE F == [x \in Nat \X Symbol |->
                   Xor(IF x[1] <= n THEN p[n - x[1]] ELSE {}, Raised(x[2], r))]
<1>2. /\ F \in [Nat \X Symbol -> Symbol]
      /\ \A k \in Nat, a \in Symbol : F[<<k, a>>] = Xor(IF k <= n THEN p[n - k] ELSE {}, Raised(a, r))
  <2>1. \A k \in Nat, a \in Symbol : Xor(IF k <= n THEN p[n - k] ELSE {}, Raised(a, r)) \in Symbol
    <3> SUFFICES ASSUME NEW k \in Nat, NEW a \in Symbol
                 PROVE  Xor(IF k <= n THEN p[n - k] ELSE {}, Raised(a, r)) \in Symbol
      OBVIOUS
    <3>1. (IF k <= n THEN p[n - k] ELSE {}) \in Symbol
      <4>1. k <= n => n - k \in 0 .. Degree
        BY <1>0
      <4> QED
        BY <1>1, <4>1, Widths
    <3> QED
      BY <3>1, RaisedType, XorType
  <2> QED
    BY <2>1
<1>3. PICK g : Recursive(g, Symbol, p[n + 1], F)
  <2> HIDE DEF F
  <2> QED
    BY <1>0, <1>1, <1>2, Recursion
<1>4. /\ g \in [Nat -> Symbol] /\ g[0] = p[n + 1]
      /\ \A k \in Nat : g[k + 1] = Xor(IF k <= n THEN p[n - k] ELSE {}, Raised(g[k], r))
  <2> HIDE DEF F
  <2> QED
    BY <1>2, <1>3 DEF Recursive
<1> HIDE DEF F
<1> DEFINE b == [k \in 0 .. Degree |-> IF k <= n THEN g[n - k] ELSE {}]
<1>5. \A k \in 0 .. Degree : b[k] \in Symbol /\ (k <= n => b[k] = g[n - k]) /\ (k > n => b[k] = {})
  BY <1>0, <1>4, Widths
<1>6. UpTo(b, n) /\ b \in Polynomial /\ b[Degree] = {}
  <2> HIDE DEF b
  <2>1. b = [k \in 0 .. Degree |-> b[k]]
    BY DEF b
  <2> QED
    BY <1>0, <1>5, <2>1 DEF UpTo, Polynomial
<1> HIDE DEF b
<1> DEFINE q == Factor(b, r)
           rest == g[n + 1]
           c == [k \in 0 .. Degree |-> IF k = 0 THEN rest ELSE {}]
<1>7. q \in Polynomial
  BY <1>6, FactorType
<1>8. \A k \in 0 .. Degree : q[k] = Xor(IF k = 0 THEN {} ELSE b[k - 1], Raised(b[k], r))
  BY <1>5, TimesPowerIs DEF Factor, NoBit
<1>9. UpTo(c, 0) /\ c[0] = rest /\ rest \in Symbol
  BY <1>0, <1>4, Widths DEF UpTo, Polynomial
<1>10. \A k \in 0 .. Degree : p[k] = Xor(q[k], c[k])
  <2> SUFFICES ASSUME NEW k \in 0 .. Degree PROVE p[k] = Xor(q[k], c[k])
    OBVIOUS
  <2> HIDE DEF q
  <2>1. CASE k = 0
    <3>1. n <= n /\ n - n = 0 /\ n - 0 = n /\ 0 <= n
      BY <1>0
    <3>2. rest = Xor(p[0], Raised(g[n], r))
      BY <1>0, <1>4, <3>1
    <3>3. q[0] = Raised(b[0], r) /\ b[0] = g[n]
      BY <1>0, <1>5, <1>8, <3>1, XorZero
    <3>5. Xor(Raised(g[n], r), Xor(p[0], Raised(g[n], r))) = p[0]
      BY XorCancel
    <3>6. c[0] = Xor(p[0], Raised(g[n], r)) /\ q[0] = Raised(g[n], r)
      BY <1>9, <3>2, <3>3
    <3> HIDE DEF c, rest
    <3> QED
      BY <2>1, <3>5, <3>6
  <2>2. CASE k \in 1 .. n
    <3>1. /\ n - k \in Nat /\ n - k <= n /\ n - (n - k) = k /\ k - 1 \in 0 .. Degree /\ k - 1 <= n
          /\ n - (k - 1) = (n - k) + 1 /\ k # 0 /\ k <= n
      BY <1>0, <2>2
    <3>2. b[k - 1] = g[(n - k) + 1] /\ b[k] = g[n - k]
      BY <1>5, <3>1
    <3>3. g[(n - k) + 1] = Xor(p[k], Raised(g[n - k], r))
      BY <1>4, <3>1
    <3>4. q[k] = Xor(Xor(p[k], Raised(g[n - k], r)), Raised(g[n - k], r))
      BY <1>8, <3>1, <3>2, <3>3
    <3>5. Xor(Xor(p[k], Raised(g[n - k], r)), Raised(g[n - k], r)) = p[k]
      BY XorCancel
    <3>6. q[k] = p[k] /\ c[k] = {}
      BY <3>1, <3>4, <3>5
    <3> HIDE DEF c
    <3> QED
      BY <3>6, XorZero
  <2>3. CASE k = n + 1
    <3>1. k # 0 /\ k - 1 = n /\ n \in 0 .. Degree /\ n - n = 0 /\ k > n
      BY <1>0, <2>3
    <3>2. b[n] = p[n + 1] /\ b[k] = {}
      BY <1>4, <1>5, <3>1
    <3>5. q[k] = Xor(b[k - 1], Raised(b[k], r)) /\ Raised({}, r) = {}
      BY <1>8, <3>1, RaisedZero
    <3>3. q[k] = p[k]
      BY ZenonT(40), <2>3, <3>1, <3>2, <3>5, XorZero
    <3>4. c[k] = {}
      BY <3>1
    <3> HIDE DEF c
    <3> QED
      BY <3>3, <3>4, XorZero
  <2>4. CASE k > n + 1
    <3>1. k # 0 /\ k - 1 \in 0 .. Degree /\ k - 1 > n /\ k > n
      BY <1>0, <2>4
    <3>2. b[k - 1] = {} /\ b[k] = {} /\ p[k] = {} /\ c[k] = {}
      BY <1>1, <1>5, <2>4, <3>1
    <3>4. q[k] = Xor(b[k - 1], Raised(b[k], r)) /\ Raised({}, r) = {}
      BY <1>8, <3>1, RaisedZero
    <3>3. q[k] = {}
      BY <3>2, <3>4, XorZero
    <3> HIDE DEF c
    <3> QED
      BY <3>2, <3>3, XorZero
  <2> QED
    BY <1>0, <2>1, <2>2, <2>3, <2>4
<1>11. ValueAt(p, r) = Xor(ValueAt(q, r), ValueAt(c, r))
  <2>1. IsSum(0 .. Degree, q, c, p)
    <3> HIDE DEF q, c
    <3> QED
      BY <1>1, <1>7, <1>9, <1>10 DEF IsSum, UpTo, Polynomial
  <2> HIDE DEF q, c
  <2> QED
    BY <1>0, <2>1, ValueAdd
<1>12. ValueAt(q, r) = {}
  <2>1. ValueAt(q, r) = Xor(Raised(ValueAt(b, r), r), Raised(ValueAt(b, r), r))
    BY <1>6, FactorValue
  <2> QED
    BY <2>1, XorZero
<1>13. ValueAt(c, r) = rest
  <2> HIDE DEF c
  <2> QED
    BY <1>9, ConstantValue
<1>14. rest = {}
  <2> HIDE DEF q, c, rest
  <2> QED
    BY <1>11, <1>12, <1>13, XorZero
<1>15. \A k \in 0 .. Degree : p[k] = q[k]
  <2> SUFFICES ASSUME NEW k \in 0 .. Degree PROVE p[k] = q[k]
    OBVIOUS
  <2>1. c[k] = {}
    BY <1>14
  <2> HIDE DEF q, c
  <2> QED
    BY <1>10, <2>1, XorZero
<1>16. p = q
  <2>1. p = [k \in 0 .. Degree |-> p[k]] /\ q = [k \in 0 .. Degree |-> q[k]]
    BY <1>1, <1>7 DEF Polynomial
  <2> HIDE DEF q
  <2> QED
    BY <1>15, <2>1
<1> QED
  BY <1>6, <1>16

\* Different powers of alpha among alpha^1, ..., alpha^nn.
LEMMA PowersDiffer ==
  ASSUME NEW a \in Symbol, a # {}, NEW i \in 1 .. nn, NEW k \in 1 .. nn, Raised(a, i) = Raised(a, k)
  PROVE  i = k
<1>1. PICK x, y : x \in 0 .. nn - 1 /\ y \in 0 .. nn - 1 /\ x \in Nat /\ y \in Nat /\ i = x + 1 /\ k = y + 1
  <2>1. i - 1 \in 0 .. nn - 1 /\ k - 1 \in 0 .. nn - 1 /\ i = (i - 1) + 1 /\ k = (k - 1) + 1
        /\ i - 1 \in Nat /\ k - 1 \in Nat
    BY Widths
  <2> QED
    BY <2>1
<1>2. Raised(Raised(a, x), 1) = Raised(a, x + 1) /\ Raised(Raised(a, y), 1) = Raised(a, y + 1)
  BY <1>1, RaisedSum
<1>3. Raised(a, x) = Raised(a, y)
  <2>1. Raised(a, x) \in Symbol /\ Raised(a, y) \in Symbol
    BY <1>1, RaisedType
  <2> QED
    BY <1>1, <1>2, <2>1, RaisedInjective
<1>4. x = y
  BY <1>1, <1>3, RaisedDistinct
<1> QED
  BY <1>1, <1>4

\* The powers of alpha in R are roots of p.
Roots(p, R) == R \subseteq 1 .. nn /\ \A r \in R : ValueAt(p, r) = {}

\* A polynomial has at most as many roots as its degree says, or is zero.
LEMMA RootCount ==
  ASSUME NEW n \in 0 .. Degree, NEW p, UpTo(p, n), NEW R, Roots(p, R),
         NEW k \in 0 .. Degree, p[k] # {}
  PROVE  IsFiniteSet(R) /\ Cardinality(R) \in Nat /\ Cardinality(R) <= n
<1> DEFINE T == { m \in Nat : m <= Degree =>
                    \A q, S : UpTo(q, m) /\ Roots(q, S) /\ (\E x \in 0 .. Degree : q[x] # {})
                              => Cardinality(S) <= m }
<1>0. Degree \in Nat /\ nn \in Nat
  BY DegreeIs, Widths
<1>1. \A S : S \subseteq 1 .. nn => IsFiniteSet(S) /\ Cardinality(S) \in Nat
  <2>1. IsFiniteSet(1 .. nn)
    BY <1>0, FS_Interval
  <2> QED
    BY <2>1, FS_Subset, FS_CardinalityType
<1>2. 0 \in T
  <2> SUFFICES ASSUME NEW q, NEW S, UpTo(q, 0), Roots(q, S), NEW x \in 0 .. Degree, q[x] # {}
               PROVE  Cardinality(S) <= 0
    OBVIOUS
  <2>1. x = 0
    BY <1>0 DEF UpTo
  <2>2. ASSUME NEW r \in S PROVE FALSE
    <3>1. r \in Nat /\ ValueAt(q, r) = {}
      BY <1>0 DEF Roots
    <3>2. ValueAt(q, r) = q[0]
      BY <3>1, ConstantValue
    <3> QED
      BY <2>1, <3>1, <3>2
  <2>3. S = {}
    BY <2>2
  <2> QED
    BY <2>3, FS_EmptySet
<1>3. ASSUME NEW m \in Nat, m \in T PROVE m + 1 \in T
  <2> SUFFICES ASSUME m + 1 <= Degree, NEW q, NEW S, UpTo(q, m + 1), Roots(q, S),
                      NEW x \in 0 .. Degree, q[x] # {}
               PROVE  Cardinality(S) <= m + 1
    OBVIOUS
  <2>1. IsFiniteSet(S) /\ Cardinality(S) \in Nat /\ S \subseteq 1 .. nn
    BY <1>1 DEF Roots
  <2>2. CASE S = {}
    BY <2>2, FS_EmptySet
  <2>3. CASE S # {}
    <3>0. PICK r \in S : TRUE
      BY <2>3
    <3>1. r \in 1 .. nn /\ r \in Nat /\ ValueAt(q, r) = {}
      <4>1. r \in 1 .. nn /\ ValueAt(q, r) = {}
        BY <3>0 DEF Roots
      <4> QED
        BY <1>0, <4>1
    <3>2. m \in 0 .. Degree - 1 /\ m <= Degree
      BY <1>0
    <3>3. PICK b : UpTo(b, m) /\ q = Factor(b, r)
      BY <3>1, <3>2, Division
    <3>4. b \in Polynomial /\ b[Degree] = {}
      BY <1>0, <3>2, <3>3 DEF UpTo
    <3>5. \E y \in 0 .. Degree : b[y] # {}
      <4> SUFFICES ASSUME \A y \in 0 .. Degree : b[y] = {} PROVE FALSE
        OBVIOUS
      <4>1. TimesPower(b[x], r) = {} /\ (x # 0 => x - 1 \in 0 .. Degree)
        BY <1>0 DEF TimesPower, NoBit
      <4>2. q[x] = {}
        BY <3>3, <4>1, XorZero DEF Factor, NoBit
      <4> QED
        BY <4>2
    <3>6. Roots(b, S \ {r})
      <4>1. ASSUME NEW y \in S \ {r} PROVE ValueAt(b, y) = {}
        <5>1. y \in 1 .. nn /\ y \in Nat /\ ValueAt(q, y) = {}
          BY <1>0, <2>1 DEF Roots
        <5>2. Xor(Raised(ValueAt(b, y), y), Raised(ValueAt(b, y), r)) = {}
          BY <3>1, <3>3, <3>4, <5>1, FactorValue
        <5>3. ValueAt(b, y) \in Symbol
          BY ValueType
        <5>4. Raised(ValueAt(b, y), y) = Raised(ValueAt(b, y), r)
          <6>1. \A v, w : Xor(v, w) = {} => v = w
            BY DEF Xor, SymDiff
          <6> QED
            BY <5>2, <6>1
        <5>5. y # r
          OBVIOUS
        <5> QED
          BY <3>1, <5>1, <5>3, <5>4, <5>5, PowersDiffer
      <4> QED
        BY <2>1, <4>1 DEF Roots
    <3>7. Cardinality(S \ {r}) <= m
      BY <1>3, <3>2, <3>3, <3>5, <3>6
    <3>8. Cardinality(S \ {r}) = Cardinality(S) - 1
      BY <2>1, <3>1, FS_RemoveElement
    <3> QED
      BY <2>1, <3>7, <3>8
  <2> QED
    BY <2>2, <2>3
<1> HIDE DEF T
<1>4. Nat \subseteq T
  BY <1>2, <1>3, NatSetInduction
<1>5. n \in T /\ n <= Degree
  BY <1>0, <1>4
<1>6. Cardinality(R) <= n
  BY <1>5 DEF T
<1>7. R \subseteq 1 .. nn
  BY DEF Roots
<1> QED
  BY <1>1, <1>6, <1>7

-----------------------------------------------------------------------------
(* The errors and the product *)

\* The sums of rows and of columns.
IsRows(M, D, E, f) == f \in [D -> Symbol] /\ \A x \in D : f[x] = XorSum([y \in E |-> M[x][y]])
IsColumns(M, D, E, g) == g \in [E -> Symbol] /\ \A y \in E : g[y] = XorSum([x \in D |-> M[x][y]])

\* A sum of sums in either order.
LEMMA XorSumSwap ==
  ASSUME NEW D, IsFiniteSet(D), NEW E, IsFiniteSet(E), NEW M \in [D -> [E -> Symbol]],
         NEW f, NEW g, IsRows(M, D, E, f), IsColumns(M, D, E, g)
  PROVE  XorSum(f) = XorSum(g)
<1> DEFINE F(S) == [x \in S |-> f[x]]
           C(S, y) == [x \in S |-> M[x][y]]
           G(S) == [y \in E |-> XorSum(C(S, y))]
           T == { n \in Nat : \A S \in SUBSET D : Cardinality(S) = n => XorSum(F(S)) = XorSum(G(S)) }
<1>0. /\ f \in [D -> Symbol] /\ \A x \in D : f[x] = XorSum([y \in E |-> M[x][y]])
      /\ \A x \in D, y \in E : M[x][y] \in Symbol
  BY DEF IsRows
<1>a. ASSUME NEW S \in SUBSET D
      PROVE  IsFiniteSet(S) /\ F(S) \in [S -> Symbol] /\ G(S) \in [E -> Symbol]
             /\ \A y \in E : C(S, y) \in [S -> Symbol]
  <2>1. IsFiniteSet(S)
    BY FS_Subset
  <2>2. F(S) \in [S -> Symbol] /\ \A y \in E : C(S, y) \in [S -> Symbol]
    BY <1>0
  <2>3. \A y \in E : XorSum(C(S, y)) \in Symbol
    BY XorSumType
  <2> HIDE DEF C, F
  <2> QED
    BY <2>1, <2>2, <2>3
<1>1. 0 \in T
  <2> SUFFICES ASSUME NEW S \in SUBSET D, Cardinality(S) = 0 PROVE XorSum(F(S)) = XorSum(G(S))
    OBVIOUS
  <2>1. S = {}
    BY <1>a, FS_EmptySet
  <2>2. XorSum(F(S)) = {}
    BY <1>a, <2>1, XorSumNone
  <2>3. \A y \in E : XorSum(C(S, y)) = {}
    <3> SUFFICES ASSUME NEW y \in E PROVE XorSum(C(S, y)) = {}
      OBVIOUS
    <3>1. C(S, y) \in [S -> Symbol]
      BY <1>a
    <3> HIDE DEF C
    <3> QED
      BY <2>1, <3>1, XorSumNone
  <2>4. G(S) \in [E -> Symbol] /\ \A y \in E : G(S)[y] = {}
    BY <1>a, <2>3
  <2> HIDE DEF F, G
  <2> QED
    BY <2>2, <2>4, XorSumNone
<1>2. ASSUME NEW n \in Nat, n \in T PROVE n + 1 \in T
  <2> SUFFICES ASSUME NEW S \in SUBSET D, Cardinality(S) = n + 1 PROVE XorSum(F(S)) = XorSum(G(S))
    OBVIOUS
  <2>1. IsFiniteSet(S) /\ S # {}
    BY <1>a, FS_EmptySet
  <2>2. PICK x \in S : x \in D
    BY <2>1
  <2> DEFINE R == S \ {x}
             row == [y \in E |-> M[x][y]]
  <2>3. R \in SUBSET D /\ Cardinality(R) = n
    <3>1. Cardinality(R) = Cardinality(S) - 1
      BY <2>1, <2>2, FS_RemoveElement
    <3> QED
      BY <3>1
  <2>4. XorSum(F(R)) = XorSum(G(R))
    BY <1>2, <2>3
  <2>5. XorSum(F(S)) = Xor(XorSum(F(R)), F(S)[x])
    <3>1. F(R) \in [S \ {x} -> Symbol] /\ \A y \in S \ {x} : F(R)[y] = F(S)[y]
      BY <1>a, <2>3
    <3>2. F(S) \in [S -> Symbol]
      BY <1>a
    <3> HIDE DEF F, R
    <3>3. Without(S, x, F(S), F(R))
      BY <3>1, <3>2 DEF Without
    <3> QED
      BY <2>1, <2>2, <3>3, XorSumInsert
  <2>6. F(S)[x] = XorSum(row)
    BY <1>0, <2>2
  <2>7. \A y \in E : G(S)[y] = Xor(G(R)[y], row[y])
    <3> SUFFICES ASSUME NEW y \in E PROVE G(S)[y] = Xor(G(R)[y], row[y])
      OBVIOUS
    <3>1. C(R, y) \in [S \ {x} -> Symbol] /\ \A k \in S \ {x} : C(R, y)[k] = C(S, y)[k]
      BY <1>a, <2>3
    <3>2. C(S, y) \in [S -> Symbol] /\ C(S, y)[x] = row[y]
      BY <1>a, <2>2
    <3>3. G(S)[y] = XorSum(C(S, y)) /\ G(R)[y] = XorSum(C(R, y))
      OBVIOUS
    <3> HIDE DEF C, G, R, row
    <3>4. Without(S, x, C(S, y), C(R, y))
      BY <3>1, <3>2 DEF Without
    <3> QED
      BY <2>1, <2>2, <3>2, <3>3, <3>4, XorSumInsert
  <2>8. IsSum(E, G(R), row, G(S))
    <3>1. G(R) \in [E -> Symbol] /\ G(S) \in [E -> Symbol] /\ row \in [E -> Symbol]
      BY <1>0, <1>a, <2>2, <2>3
    <3> HIDE DEF G, row, R
    <3> QED
      BY <2>7, <3>1 DEF IsSum
  <2> HIDE DEF F, G, R, row
  <2>9. XorSum(G(S)) = Xor(XorSum(G(R)), XorSum(row))
    BY <2>8, XorSumAdd
  <2> QED
    BY <2>4, <2>5, <2>6, <2>9
<1>3. Nat \subseteq T
  <2> HIDE DEF T
  <2> QED
    BY <1>1, <1>2, NatSetInduction
<1>4. Cardinality(D) \in Nat /\ D \in SUBSET D
  BY FS_CardinalityType
<1>5. XorSum(F(D)) = XorSum(G(D))
  <2> HIDE DEF F, G
  <2> QED
    BY <1>3, <1>4
<1>6. F(D) = f
  BY <1>0
<1>7. G(D) = g
  <2>1. g = [y \in E |-> g[y]] /\ \A y \in E : g[y] = XorSum(C(D, y))
    BY DEF IsColumns
  <2> HIDE DEF C
  <2> QED
    BY <2>1
<1> QED
  BY <1>5, <1>6, <1>7

\* An error word whose syndromes are s.
Explains(w, s) == w \in Words /\ \A y \in 1 .. Degree : s[y] = ValueAt(w, y - 1)

\* w, each symbol times the value of p at the inverse of its location alpha^k.
IsLocated(v, w, p) ==
  v \in Words /\ \A k \in 0 .. nn - 1 : v[k] = Mul(w[k], ValueAt(p, nn - k))

\* A polynomial and the syndromes of w: the product from the degree on is a value of w,
\* each symbol times the value of p.
LEMMA ProductLocates ==
  ASSUME NEW s \in SyndromeVectors, NEW w, Explains(w, s), NEW n \in 0 .. Degree, NEW p, UpTo(p, n),
         NEW v, IsLocated(v, w, p), NEW y \in n + 1 .. Degree
  PROVE  Product(p, s, y) = ValueAt(v, y - 1)
<1> DEFINE D == 0 .. Degree
           E == 0 .. nn - 1
           M == [x \in D |-> [k \in E |-> Raised(Mul(p[x], w[k]), (nn - k) * x + (y - 1) * k)]]
           f == [x \in D |-> Mul(p[x], At(s, y - x))]
           g == [k \in E |-> Raised(v[k], (y - 1) * k)]
<1>0. /\ Degree \in Nat /\ n \in Nat /\ n <= Degree /\ nn \in Nat /\ nn - 1 \in Nat
      /\ y \in Nat /\ y \in 1 .. Degree /\ y - 1 \in Nat /\ y >= n + 1 /\ y \in Int
  BY DegreeIs, Widths
<1>a. IsFiniteSet(D) /\ IsFiniteSet(E)
  BY <1>0, FS_Interval
<1>1. /\ p \in Polynomial /\ \A x \in D : p[x] \in Symbol /\ (x > n => p[x] = {})
      /\ w \in Words /\ \A k \in E : w[k] \in Symbol
      /\ v \in Words /\ \A k \in E : v[k] \in Symbol /\ v[k] = Mul(w[k], ValueAt(p, nn - k))
  BY DEF UpTo, Polynomial, Explains, IsLocated, Words
<1>2. ASSUME NEW x \in D, NEW k \in E
      PROVE  /\ Mul(p[x], w[k]) \in Symbol /\ (nn - k) * x + (y - 1) * k \in Nat
             /\ nn - k \in Nat /\ (nn - k) * x \in Nat /\ (y - 1) * k \in Nat
             /\ Raised(Mul(p[x], w[k]), (nn - k) * x + (y - 1) * k) \in Symbol
             /\ M[x][k] = Raised(Mul(p[x], w[k]), (nn - k) * x + (y - 1) * k)
  <2>1. nn - k \in Nat /\ x \in Nat /\ k \in Nat
    BY <1>0
  <2>2. (nn - k) * x \in Nat /\ (y - 1) * k \in Nat
    BY <1>0, <2>1
  <2>3. (nn - k) * x + (y - 1) * k \in Nat
    BY <2>2
  <2>4. Mul(p[x], w[k]) \in Symbol
    BY <1>1, MulType
  <2>5. M[x][k] = Raised(Mul(p[x], w[k]), (nn - k) * x + (y - 1) * k)
    OBVIOUS
  <2> HIDE DEF M
  <2> QED
    BY <2>1, <2>2, <2>3, <2>4, <2>5, RaisedType
<1>3. M \in [D -> [E -> Symbol]]
  <2>1. \A x \in D : \A k \in E : Raised(Mul(p[x], w[k]), (nn - k) * x + (y - 1) * k) \in Symbol
    BY <1>2
  <2> QED
    BY <2>1
<1>4. f \in [D -> Symbol] /\ Product(p, s, y) = XorSum(f)
  BY <1>0, <1>1, ProductType DEF Product
<1>5. g \in [E -> Symbol] /\ ValueAt(v, y - 1) = XorSum(g)
  BY <1>0, <1>1, ValueIs DEF Words
<1>6. IsRows(M, D, E, f)
  <2> SUFFICES ASSUME NEW x \in D PROVE f[x] = XorSum([k \in E |-> M[x][k]])
    BY <1>4 DEF IsRows
  <2> DEFINE h == [k \in E |-> M[x][k]]
  <2>0. h \in [E -> Symbol] /\ f[x] = Mul(p[x], At(s, y - x)) /\ \A k \in E : h[k] = M[x][k]
    BY <1>3
  <2>1. CASE x > n
    <3>1. p[x] = {}
      BY <1>1, <2>1
    <3>2. f[x] = {}
      BY <2>0, <3>1, AtType, MulZero
    <3>3. \A k \in E : h[k] = {}
      <4> SUFFICES ASSUME NEW k \in E PROVE h[k] = {}
        OBVIOUS
      <4>1. h[k] = Raised(Mul(p[x], w[k]), (nn - k) * x + (y - 1) * k)
        BY <1>2, <2>0
      <4>2. Mul(p[x], w[k]) = {} /\ (nn - k) * x + (y - 1) * k \in Nat
        BY <1>1, <1>2, <3>1, MulZero
      <4> HIDE DEF h
      <4> QED
        BY <4>1, <4>2, RaisedZero
    <3> HIDE DEF h, E
    <3>4. XorSum(h) = {}
      BY <2>0, <3>3, XorSumNone
    <3> QED
      BY <3>2, <3>4 DEF h
  <2>2. CASE x <= n
    <3>1. PICK r \in Nat : r = y - x - 1 /\ y - x \in 1 .. Degree /\ (y - x) - 1 = r /\ x + r = y - 1
      BY <1>0, <2>2
    <3> DEFINE e == [k \in E |-> Raised(w[k], r * k)]
    <3>2. At(s, y - x) = ValueAt(w, r) /\ At(s, y - x) \in Symbol
      BY <3>1, AtType DEF At, Explains
    <3>3. ValueAt(w, r) = XorSum(e) /\ e \in [E -> Symbol]
      <4>1. r \in Nat /\ nn - 1 \in Nat /\ w \in [0 .. nn - 1 -> Symbol]
        BY <1>0, <1>1 DEF Words
      <4> QED
        BY <4>1, ValueIs
    <3>4. \A k \in E : h[k] = MulBy(p[x])[e[k]]
      <4> SUFFICES ASSUME NEW k \in E PROVE h[k] = MulBy(p[x])[e[k]]
        OBVIOUS
      <4>1. PICK a \in Symbol, b \in Symbol : a = p[x] /\ b = w[k]
        BY <1>1
      <4>2. k \in Nat /\ x \in Nat /\ r * k \in Nat /\ Mul(a, b) \in Symbol
        BY <1>0, <3>1, <4>1, MulType
      <4>3. e[k] = Raised(b, r * k) /\ e[k] \in Symbol
        BY <3>1, <3>3, <4>1
      <4>4. MulBy(a)[e[k]] = Mul(Raised(b, r * k), a)
        BY <4>3 DEF MulBy
      <4>5. Mul(Raised(b, r * k), a) = Raised(Mul(b, a), r * k)
        BY <4>2, MulRaised
      <4>6. Raised(Raised(Mul(a, b), r * k), x * nn) = Raised(Mul(a, b), r * k + x * nn)
        <5>1. x * nn \in Nat
          BY <1>0, <4>2
        <5> QED
          BY <4>2, <5>1, RaisedSum
      <4>7. Raised(Raised(Mul(a, b), r * k), x * nn) = Raised(Mul(a, b), r * k)
        BY <4>2, RaisedType, RaisedCycles
      <4>8. r * k + x * nn = (nn - k) * x + (y - 1) * k
        <5>1. (nn - k) * x = nn * x - k * x
          BY <1>0, <4>2
        <5>2. (x + r) * k = x * k + r * k
          BY <3>1, <4>2
        <5>3. x * nn = nn * x /\ x * k = k * x /\ nn * x \in Int /\ k * x \in Int
          BY <1>0, <4>2
        <5>4. (y - 1) * k = x * k + r * k
          BY <3>1, <5>2
        <5> QED
          BY <4>2, <5>1, <5>3, <5>4
      <4>9. h[k] = Raised(Mul(a, b), (nn - k) * x + (y - 1) * k)
        BY <1>2, <2>0, <4>1
      <4> HIDE DEF h, e
      <4> QED
        BY <4>1, <4>4, <4>5, <4>6, <4>7, <4>8, <4>9, MulCommute
    <3>5. Maps(MulBy(p[x]), E, e, h)
      <4> HIDE DEF h, e, E
      <4> QED
        BY <2>0, <3>3, <3>4 DEF Maps
    <3>6. Additive(MulBy(p[x]))
      BY <1>1, MulAdditive
    <3> HIDE DEF h, e, E
    <3>7. XorSum(h) = MulBy(p[x])[XorSum(e)]
      BY <1>a, <3>5, <3>6, XorSumAdditive
    <3>8. XorSum(h) = Mul(XorSum(e), p[x])
      BY <3>7, XorSumType DEF MulBy
    <3>9. Mul(XorSum(e), p[x]) = Mul(p[x], XorSum(e))
      BY <1>1, XorSumType, MulCommute
    <3> QED
      BY <2>0, <3>2, <3>3, <3>8, <3>9 DEF h
  <2> QED
    BY <1>0, <2>1, <2>2
<1>7. IsColumns(M, D, E, g)
  <2> SUFFICES ASSUME NEW k \in E PROVE g[k] = XorSum([x \in D |-> M[x][k]])
    BY <1>5 DEF IsColumns
  <2> DEFINE h == [x \in D |-> M[x][k]]
             e == [x \in D |-> Raised(p[x], (nn - k) * x)]
             L == [a \in Symbol |-> Raised(Mul(a, w[k]), (y - 1) * k)]
  <2>0. h \in [D -> Symbol] /\ (\A x \in D : h[x] = M[x][k]) /\ g[k] = Raised(v[k], (y - 1) * k)
    BY <1>3
  <2>1. nn - k \in Nat /\ (y - 1) * k \in Nat /\ k \in Nat
    BY <1>0
  <2>2. ValueAt(p, nn - k) = XorSum(e) /\ e \in [D -> Symbol]
    BY ZenonT(40), <1>0, <1>1, <2>1, ValueIs DEF Polynomial
  <2>3. Additive(L)
    <3>1. ASSUME NEW a \in Symbol, NEW b \in Symbol
          PROVE  L[a] \in Symbol /\ L[Xor(a, b)] = Xor(L[a], L[b])
      <4>1. Xor(a, b) \in Symbol /\ Mul(a, w[k]) \in Symbol /\ Mul(b, w[k]) \in Symbol
        BY <1>1, XorType, MulType
      <4>2. Mul(Xor(a, b), w[k]) = Xor(Mul(a, w[k]), Mul(b, w[k]))
        BY <1>1, MulAdd
      <4>3. Raised(Xor(Mul(a, w[k]), Mul(b, w[k])), (y - 1) * k)
              = Xor(Raised(Mul(a, w[k]), (y - 1) * k), Raised(Mul(b, w[k]), (y - 1) * k))
        BY <2>1, <4>1, RaisedAdd
      <4>4. Raised(Mul(a, w[k]), (y - 1) * k) \in Symbol
        BY <2>1, <4>1, RaisedType
      <4> QED
        BY <4>1, <4>2, <4>3, <4>4
    <3>2. L = [a \in Symbol |-> L[a]]
      OBVIOUS
    <3> HIDE DEF L
    <3> QED
      BY <3>1, <3>2 DEF Additive
  <2>4. \A x \in D : h[x] = L[e[x]]
    <3> SUFFICES ASSUME NEW x \in D PROVE h[x] = L[e[x]]
      OBVIOUS
    <3>1. PICK a \in Symbol, b \in Symbol : a = p[x] /\ b = w[k]
      BY <1>1
    <3>2. (nn - k) * x \in Nat /\ e[x] = Raised(a, (nn - k) * x) /\ e[x] \in Symbol /\ Mul(a, b) \in Symbol
      BY <1>2, <2>2, <3>1
    <3>3. L[e[x]] = Raised(Mul(Raised(a, (nn - k) * x), b), (y - 1) * k)
      BY <3>1, <3>2
    <3>4. Mul(Raised(a, (nn - k) * x), b) = Raised(Mul(a, b), (nn - k) * x)
      BY <3>2, MulRaised
    <3>5. Raised(Raised(Mul(a, b), (nn - k) * x), (y - 1) * k)
            = Raised(Mul(a, b), (nn - k) * x + (y - 1) * k)
      BY <2>1, <3>2, RaisedSum
    <3>6. h[x] = Raised(Mul(a, b), (nn - k) * x + (y - 1) * k)
      BY <1>2, <2>0, <3>1
    <3> HIDE DEF h, L, e
    <3> QED
      BY <3>3, <3>4, <3>5, <3>6
  <2>5. L[XorSum(e)] = Raised(Mul(XorSum(e), w[k]), (y - 1) * k)
    BY XorSumType
  <2>6. Mul(XorSum(e), w[k]) = v[k]
    <3>1. v[k] = Mul(w[k], ValueAt(p, nn - k))
      BY <1>1
    <3>2. Mul(w[k], XorSum(e)) = Mul(XorSum(e), w[k])
      BY <1>1, XorSumType, MulCommute
    <3> HIDE DEF e
    <3> QED
      BY <2>2, <3>1, <3>2
  <2> HIDE DEF h, e, L, D, g
  <2>7. Maps(L, D, e, h)
    BY <2>0, <2>2, <2>4 DEF Maps
  <2>8. XorSum(h) = L[XorSum(e)]
    BY <1>a, <2>3, <2>7, XorSumAdditive
  <2>9. g[k] = XorSum(h)
    BY <2>0, <2>5, <2>6, <2>8
  <2> QED
    BY <2>9 DEF h
<1> HIDE DEF M, f, g, D, E
<1>8. XorSum(f) = XorSum(g)
  BY <1>3, <1>6, <1>7, <1>a, XorSumSwap
<1> QED
  BY <1>4, <1>5, <1>8

\* There are no divisors of zero.
LEMMA MulNonZero ==
  ASSUME NEW a \in Symbol, NEW b \in Symbol, a # {}, Mul(a, b) = {}
  PROVE  b = {}
<1>1. PICK n \in Nat : a = Raised(One, n)
  BY IsPower, Widths
<1>2. Raised(b, n) = {}
  BY <1>1, MulPower
<1> QED
  BY <1>2, RaisedNonZero

\* The values of a word of zeros.
LEMMA ZeroWord ==
  ASSUME NEW v \in Words, \A k \in 0 .. nn - 1 : v[k] = {}, NEW r \in Nat
  PROVE  ValueAt(v, r) = {}
<1> DEFINE D == 0 .. nn - 1
           f == [k \in D |-> Raised(v[k], r * k)]
<1>1. ValueAt(v, r) = XorSum(f) /\ f \in [D -> Symbol]
  <2>1. v \in [0 .. nn - 1 -> Symbol] /\ nn - 1 \in Nat
    BY Widths DEF Words
  <2> QED
    BY <2>1, ValueIs
<1>2. \A k \in D : f[k] = {}
  <2> SUFFICES ASSUME NEW k \in D PROVE f[k] = {}
    OBVIOUS
  <2>1. r * k \in Nat
    BY Widths
  <2> QED
    BY <2>1, RaisedZero
<1> HIDE DEF f, D
<1> QED
  BY <1>1, <1>2, XorSumNone

\* Every symbol multiplied by the n-th power of that of its position: the values from the
\* n-th on.
LEMMA ValuesFrom ==
  ASSUME NEW v \in Words, NEW n \in Nat,
         NEW t \in Words, \A k \in 0 .. nn - 1 : t[k] = Raised(v[k], n * k), NEW r \in Nat
  PROVE  ValueAt(t, r) = ValueAt(v, n + r)
<1> DEFINE f == [k \in 0 .. nn - 1 |-> Raised(t[k], r * k)]
           g == [k \in 0 .. nn - 1 |-> Raised(v[k], (n + r) * k)]
<1>0. nn - 1 \in Nat /\ n + r \in Nat
  BY Widths
<1>1. v \in [0 .. nn - 1 -> Symbol] /\ t \in [0 .. nn - 1 -> Symbol]
  BY DEF Words
<1>2. ValueAt(t, r) = XorSum(f)
  BY <1>0, <1>1, ValueIs
<1>3. ValueAt(v, n + r) = XorSum(g)
  BY <1>0, <1>1, ValueIs
<1>4. ASSUME NEW k \in 0 .. nn - 1 PROVE Raised(t[k], r * k) = Raised(v[k], (n + r) * k)
  <2>1. k \in Nat /\ n * k \in Nat /\ r * k \in Nat /\ v[k] \in Symbol /\ n * k + r * k = (n + r) * k
    BY <1>0, <1>1
  <2>2. Raised(Raised(v[k], n * k), r * k) = Raised(v[k], n * k + r * k)
    BY <2>1, RaisedSum
  <2> QED
    BY <2>1, <2>2
<1>5. f = g
  BY <1>4
<1> QED
  BY <1>2, <1>3, <1>5

\* There is such a word v.
LEMMA LocatedExists ==
  ASSUME NEW s, NEW w, Explains(w, s), NEW p
  PROVE  \E v : IsLocated(v, w, p)
<1> DEFINE v == [k \in 0 .. nn - 1 |-> Mul(w[k], ValueAt(p, nn - k))]
<1>1. \A k \in 0 .. nn - 1 : Mul(w[k], ValueAt(p, nn - k)) \in Symbol
  BY ValueType, MulType DEF Explains, Words
<1>2. IsLocated(v, w, p)
  BY <1>1 DEF IsLocated, Words
<1> QED
  BY <1>2

\* A polynomial that generates as many syndromes in a row as there are errors is zero at the
\* inverse of the location of each.
LEMMA LocatedZero ==
  ASSUME NEW s \in SyndromeVectors, NEW w, Explains(w, s), NEW m \in Nat,
         Cardinality(Support(w)) <= m,
         NEW r \in 1 .. Degree + 1, NEW p, NEW n, Row(r, p, n, s), n + m < r,
         NEW v, IsLocated(v, w, p)
  PROVE  \A k \in 0 .. nn - 1 : v[k] = {}
<1>0. /\ Degree \in Nat /\ n \in 0 .. Degree /\ n \in Nat /\ n < r /\ r \in Nat /\ r # 0
      /\ UpTo(p, n) /\ \A y \in n + 1 .. r - 1 : Product(p, s, y) = {}
  BY DegreeIs DEF Row, UpTo
<1>1. w \in Words /\ v \in Words /\ \A k \in 0 .. nn - 1 : w[k] \in Symbol /\ v[k] \in Symbol
      /\ v[k] = Mul(w[k], ValueAt(p, nn - k))
  BY DEF Explains, IsLocated, Words
<1> DEFINE t == [k \in 0 .. nn - 1 |-> Raised(v[k], n * k)]
<1>2. \A k \in 0 .. nn - 1 : n * k \in Nat /\ t[k] = Raised(v[k], n * k) /\ t[k] \in Symbol
  <2> SUFFICES ASSUME NEW k \in 0 .. nn - 1
               PROVE  n * k \in Nat /\ t[k] = Raised(v[k], n * k) /\ t[k] \in Symbol
    OBVIOUS
  <2>1. n * k \in Nat
    BY <1>0, Widths
  <2> QED
    BY <1>1, <2>1, RaisedType
<1>3. t \in Words
  <2>1. t = [k \in 0 .. nn - 1 |-> t[k]]
    OBVIOUS
  <2> HIDE DEF t
  <2> QED
    BY <1>2, <2>1 DEF Words
<1> HIDE DEF t
<1>4. Cardinality(Support(t)) <= m
  <2>1. Support(t) \subseteq Support(w)
    <3> SUFFICES ASSUME NEW k \in 0 .. nn - 1, w[k] = {} PROVE t[k] = {}
      BY DEF Support
    <3>1. v[k] = {}
      BY <1>1, ValueType, MulZero
    <3> QED
      BY <1>2, <3>1, RaisedZero
  <2>2. IsFiniteSet(Support(w)) /\ Cardinality(Support(w)) \in Nat /\ Cardinality(Support(t)) \in Nat
    BY SupportFinite
  <2>3. Cardinality(Support(t)) <= Cardinality(Support(w))
    BY <2>1, <2>2, FS_Subset
  <2> QED
    BY <2>2, <2>3
<1>5. \A i \in 0 .. m - 1 : ValueAt(t, i) = {}
  <2> SUFFICES ASSUME NEW i \in 0 .. m - 1 PROVE ValueAt(t, i) = {}
    OBVIOUS
  <2>1. PICK y : y = n + 1 + i /\ y \in n + 1 .. r - 1 /\ y \in n + 1 .. Degree /\ n + i = y - 1 /\ i \in Nat
    BY <1>0
  <2>2. Product(p, s, y) = ValueAt(v, y - 1)
    BY <1>0, <2>1, ProductLocates
  <2>3. ValueAt(t, i) = ValueAt(v, n + i)
    BY <1>0, <1>1, <1>2, <1>3, <2>1, ValuesFrom
  <2> QED
    BY <1>0, <2>1, <2>2, <2>3
<1>6. \A k \in 0 .. nn - 1 : t[k] = {}
  <2>1. Sparse(t, m)
    BY <1>3, <1>4, <1>5 DEF Sparse
  <2> QED
    BY <2>1, SparseIsZero
<1>7. ASSUME NEW k \in 0 .. nn - 1 PROVE v[k] = {}
  BY <1>1, <1>2, <1>6, RaisedNonZero
<1> QED
  BY <1>7

\* Massey's bound: a step whose polynomial does not generate the next syndrome comes no
\* later after its degree than there are errors.
LEMMA LengthBound ==
  ASSUME NEW s \in SyndromeVectors, NEW w, Explains(w, s), NEW m \in Nat,
         Cardinality(Support(w)) <= m,
         NEW r \in 1 .. Degree, NEW p, NEW n, Row(r, p, n, s), Gap(r, p, s) # {}
  PROVE  r - n <= m
<1>0. /\ Degree \in Nat /\ n \in 0 .. Degree /\ n \in Nat /\ n < r /\ r \in Nat /\ r # 0
      /\ UpTo(p, n) /\ r \in n + 1 .. Degree /\ r \in 1 .. Degree + 1 /\ r - 1 \in Nat
  BY DegreeIs DEF Row, UpTo
<1> SUFFICES ASSUME n + m < r PROVE FALSE
  BY <1>0
<1>1. PICK v : IsLocated(v, w, p)
  BY LocatedExists
<1>2. \A k \in 0 .. nn - 1 : v[k] = {}
  BY <1>0, <1>1, LocatedZero
<1>3. Product(p, s, r) = ValueAt(v, r - 1)
  BY <1>0, <1>1, ProductLocates
<1>4. v \in Words
  BY <1>1 DEF IsLocated
<1>5. ValueAt(v, r - 1) = {}
  BY <1>0, <1>2, <1>4, ZeroWord
<1> QED
  BY <1>0, <1>3, <1>5 DEF Gap

\* The locations of the errors are roots of the last polynomial.
LEMMA LocationsAreRoots ==
  ASSUME NEW s \in SyndromeVectors, NEW w, Explains(w, s), NEW m \in Nat,
         Cardinality(Support(w)) <= m,
         NEW p, NEW n, Row(Degree + 1, p, n, s), n + m <= Degree, NEW k \in Support(w)
  PROVE  nn - k \in 1 .. nn /\ ValueAt(p, nn - k) = {}
<1>0. Degree \in Nat /\ Degree + 1 \in 1 .. Degree + 1 /\ n \in Nat /\ n + m < Degree + 1
  BY DegreeIs DEF Row
<1>1. k \in 0 .. nn - 1 /\ w[k] # {} /\ w[k] \in Symbol
  BY DEF Support, Explains, Words
<1>2. PICK v : IsLocated(v, w, p)
  BY LocatedExists
<1>3. v[k] = {}
  BY <1>0, <1>1, <1>2, LocatedZero
<1>4. Mul(w[k], ValueAt(p, nn - k)) = {}
  BY <1>1, <1>2, <1>3 DEF IsLocated
<1>5. ValueAt(p, nn - k) = {}
  BY <1>1, <1>4, ValueType, MulNonZero
<1> QED
  BY <1>1, <1>5, Widths

-----------------------------------------------------------------------------
(* The search for roots, on ints *)

\* The symbol one is the number 1.
LEMMA BitsOne == Bits(1) = One /\ Number(One) = 1 /\ 1 \in PolyForm
<1>0. mm \in Nat /\ 1 \in Nat /\ 1 <= nn /\ 1 \in PolyForm /\ 0 \in 0 .. mm
  BY Widths DEF PolyForm
<1>1. PICK h : Halves(1, h) /\ Bits(1) = { b \in 0 .. mm : h[b] % 2 = 1 }
  BY <1>0, BitsIs
<1>2. h \in [0 .. mm -> Nat] /\ h[0] = 1 /\ \A b \in 0 .. mm - 1 : h[b + 1] = h[b] \div 2
  BY <1>1 DEF Halves
<1> DEFINE T == { b \in Nat : b + 1 \in 0 .. mm => h[b + 1] = 0 }
<1>3. 0 \in T
  <2> SUFFICES ASSUME 0 + 1 \in 0 .. mm PROVE h[0 + 1] = 0
    OBVIOUS
  <2>1. 0 \in 0 .. mm - 1
    BY <1>0
  <2>2. h[0 + 1] = 1 \div 2
    BY <1>2, <2>1
  <2> QED
    BY <2>2
<1>4. ASSUME NEW b \in Nat, b \in T PROVE b + 1 \in T
  <2> SUFFICES ASSUME (b + 1) + 1 \in 0 .. mm PROVE h[(b + 1) + 1] = 0
    OBVIOUS
  <2>1. b + 1 \in 0 .. mm - 1 /\ b + 1 \in 0 .. mm
    BY <1>0
  <2>2. h[b + 1] = 0 /\ h[(b + 1) + 1] = h[b + 1] \div 2
    BY <1>2, <1>4, <2>1
  <2> QED
    BY <2>2
<1> HIDE DEF T
<1>5. Nat \subseteq T
  BY <1>3, <1>4, NatSetInduction
<1>6. \A b \in 0 .. mm : b # 0 => h[b] = 0
  <2> SUFFICES ASSUME NEW b \in 0 .. mm, b # 0 PROVE h[b] = 0
    OBVIOUS
  <2>1. b - 1 \in Nat /\ (b - 1) + 1 = b
    BY <1>0
  <2> QED
    BY <1>5, <2>1 DEF T
<1>7. Bits(1) = {0}
  <2>1. \A b \in 0 .. mm : h[b] % 2 = 1 <=> b = 0
    BY <1>2, <1>6
  <2> QED
    BY <1>0, <1>1, <2>1
<1>8. Number(Bits(1)) = 1
  BY <1>0, BitsType
<1> QED
  BY <1>0, <1>7, <1>8 DEF One

\* Every int in index form is that of a symbol.
LEMMA LogOfPower ==
  ASSUME NEW i \in 0 .. nn - 1
  PROVE  Power[i] \in Symbol /\ Power[i] # {} /\ Log[Power[i]] = i
<1>1. Power[i] \in Symbol /\ Power[i] # {}
  BY PrimitiveAssumption DEF NoBit
<1>2. Log[Power[i]] \in 0 .. nn - 1 /\ Power[Log[Power[i]]] = Power[i]
  BY <1>1, LogFacts
<1> QED
  BY <1>1, <1>2, PowerInjective

\* Every index form is that of a symbol.
LEMMA IndexIsLog ==
  ASSUME NEW i \in IndexForm
  PROVE  \E a \in Symbol : i = Log[a]
<1>1. CASE i = -1
  BY <1>1, LogFacts, Widths
<1>2. CASE i # -1
  <2>1. i \in 0 .. nn - 1
    BY <1>2, Widths DEF IndexForm
  <2> QED
    BY <2>1, LogOfPower
<1> QED
  BY <1>1, <1>2

\* Forms of what is computed.
LEMMA FormTypes ==
  /\ \A i \in IndexForm : Poly(i) \in PolyForm
  /\ \A i \in IndexForm, n \in Nat : Times(i, n) \in PolyForm
  /\ \A m, n \in PolyForm : m ^^ n \in PolyForm
  /\ \A n \in PolyForm : IndexOf[n] \in IndexForm
<1>1. ASSUME NEW i \in IndexForm, NEW n \in Nat PROVE Poly(i) \in PolyForm /\ Times(i, n) \in PolyForm
  <2>1. PICK a \in Symbol : i = Log[a]
    BY IndexIsLog
  <2>2. Poly(i) = Number(a) /\ Times(i, n) = Number(Raised(a, n)) /\ Raised(a, n) \in Symbol
    BY <2>1, LogIs, TimesRaised, RaisedType
  <2> QED
    BY <2>2, NumberType
<1>2. 0 \in Nat
  OBVIOUS
<1> QED
  BY <1>1, <1>2, XorInts, IndexOfIs

\* Multiplying by a power of alpha adds to the logarithm.
LEMMA LogRaised ==
  ASSUME NEW a \in Symbol, a # {}, NEW n \in Nat
  PROVE  Log[Raised(a, n)] = (Log[a] + n) % nn /\ (Log[a] + n) % nn \in 0 .. nn - 1
<1>1. PICK i \in 0 .. nn - 1 : i = Log[a]
  BY IsPower
<1>2. (i + n) % nn \in 0 .. nn - 1
  <2>1. i + n \in Nat /\ nn \in Nat \ {0}
    BY Widths
  <2> QED
    BY <2>1, ModStep
<1>3. TimesPower(a, n) = Power[(i + n) % nn]
  BY <1>1 DEF TimesPower, NoBit
<1>4. TimesPower(a, n) = Raised(a, n)
  BY TimesPowerIs
<1> QED
  BY <1>1, <1>2, <1>3, <1>4, LogOfPower

\* The terms of polynomial p up to the degree n at alpha^r, in index form, as reg[] has them.
TermsAt(p, n, r) == [x \in 1 .. n |-> Log[Raised(p[x], x * r)]]

\* The terms at the next candidate.
LEMMA AdvancedIs ==
  ASSUME NEW p \in Polynomial, NEW n \in 0 .. Degree, NEW r \in Nat, reg = TermsAt(p, n, r)
  PROVE  Advanced = TermsAt(p, n, r + 1)
<1>1. ASSUME NEW x \in 1 .. n
      PROVE  (IF reg[x] = -1 THEN -1 ELSE (reg[x] + x) % nn) = Log[Raised(p[x], x * (r + 1))]
  <2>1. x \in 0 .. Degree /\ x \in Nat /\ x * r \in Nat /\ x * (r + 1) \in Nat /\ x * r + x = x * (r + 1)
    BY DegreeIs
  <2>2. PICK a \in Symbol : a = p[x]
    BY <2>1, PolynomialAt
  <2>3. Raised(a, x * r) \in Symbol /\ reg[x] = Log[Raised(a, x * r)]
    BY <2>1, <2>2, RaisedType DEF TermsAt
  <2>4. Raised(Raised(a, x * r), x) = Raised(a, x * (r + 1))
    BY <2>1, RaisedSum
  <2>5. CASE Raised(a, x * r) = {}
    <3>1. Raised(a, x * (r + 1)) = {}
      BY <2>1, <2>4, <2>5, RaisedZero
    <3> QED
      BY <2>2, <2>3, <2>5, <3>1, LogFacts
  <2>6. CASE Raised(a, x * r) # {}
    <3>1. reg[x] # -1
      BY <2>3, <2>6, LogIs
    <3>2. Log[Raised(Raised(a, x * r), x)] = (Log[Raised(a, x * r)] + x) % nn
      BY <2>1, <2>3, <2>6, LogRaised
    <3> QED
      BY <2>2, <2>3, <2>4, <3>1, <3>2
  <2> QED
    BY <2>5, <2>6
<1>2. DOMAIN reg = 1 .. n
  BY DEF TermsAt
<1>3. Advanced = [x \in 1 .. n |-> IF reg[x] = -1 THEN -1 ELSE (reg[x] + x) % nn]
  BY <1>2 DEF Advanced
<1> QED
  BY <1>1, <1>3 DEF TermsAt

\* The sum of the terms of a polynomial with 1 in front is its value.
LEMMA RootSum ==
  ASSUME NEW p, NEW n \in 0 .. Degree, UpTo(p, n), p[0] = One, NEW r \in Nat,
         NEW h \in [1 .. n -> PolyForm], \A k \in 1 .. n : h[k] = Number(Raised(p[k], k * r))
  PROVE  1 ^^ XorOf(h) = Number(ValueAt(p, r))
<1> DEFINE D == 0 .. Degree
           E == 0 .. n
           F == 1 .. n
           f == [k \in D |-> Raised(p[k], r * k)]
           e == [k \in E |-> f[k]]
           g == [k \in F |-> f[k]]
<1>0. /\ Degree \in Nat /\ n \in Nat /\ E \subseteq D /\ F \subseteq D /\ 0 \in E /\ E \ {0} = F
      /\ 0 \in D
  BY DegreeIs
<1>a. IsFiniteSet(E) /\ IsFiniteSet(F)
  BY <1>0, FS_Interval
<1>1. p \in [0 .. Degree -> Symbol] /\ \A k \in D : p[k] \in Symbol /\ (k > n => p[k] = {})
  BY DEF UpTo, Polynomial
<1>2. ValueAt(p, r) = XorSum(f) /\ f \in [D -> Symbol]
  BY ZenonT(40), <1>0, <1>1, ValueIs
<1>3. \A k \in D : k \notin E => f[k] = {}
  <2> SUFFICES ASSUME NEW k \in D, k \notin E PROVE f[k] = {}
    OBVIOUS
  <2>1. p[k] = {} /\ r * k \in Nat
    BY <1>0, <1>1
  <2> QED
    BY <2>1, RaisedZero
<1>4. f[0] = One
  <2>1. r * 0 = 0
    OBVIOUS
  <2>2. f[0] = Raised(One, 0)
    BY <1>0, <2>1
  <2> HIDE DEF f
  <2> QED
    BY <2>2, RaisedFacts, Widths
<1>5. \A k \in F : h[k] = Number(f[k]) /\ h[k] \in PolyForm /\ g[k] = Bits(h[k])
  <2> SUFFICES ASSUME NEW k \in F PROVE h[k] = Number(f[k]) /\ h[k] \in PolyForm /\ g[k] = Bits(h[k])
    OBVIOUS
  <2>1. k \in D /\ r * k = k * r
    BY <1>0
  <2>2. h[k] = Number(Raised(p[k], k * r))
    OBVIOUS
  <2>3. f[k] = Raised(p[k], k * r) /\ g[k] = f[k]
    BY <2>1
  <2>4. f[k] \in Symbol
    BY <1>2, <2>1
  <2> HIDE DEF f, g
  <2> QED
    BY <2>2, <2>3, <2>4, NumberType
<1>6. e \in [E -> Symbol] /\ g \in [F -> Symbol] /\ h \in [F -> PolyForm]
  <2>1. \A k \in E : f[k] \in Symbol
    BY <1>0, <1>2
  <2>2. \A k \in F : f[k] \in Symbol
    BY <1>0, <1>2
  <2> HIDE DEF f
  <2> QED
    BY <2>1, <2>2
<1> HIDE DEF f
<1>8. Extends(D, E, f, e) /\ Without(E, 0, e, g)
  <2>1. Extends(D, E, f, e)
    <3> HIDE DEF D
    <3> QED
      BY <1>0, <1>2, <1>3, <1>6 DEF Extends
  <2>2. \A k \in E \ {0} : g[k] = e[k]
    BY <1>0
  <2> HIDE DEF g, e
  <2> QED
    BY <1>0, <1>6, <2>1, <2>2 DEF Without
<1>9. e[0] = f[0]
  BY <1>0
<1> HIDE DEF D, E, F, e, g
<1>10. XorSum(f) = XorSum(e)
  BY <1>8, XorSumSupport
<1>11. XorSum(e) = Xor(XorSum(g), One)
  BY <1>0, <1>4, <1>8, <1>9, <1>a, XorSumInsert
<1>12. XorOf(h) = Number(XorSum(g))
  <2>1. \A k \in F : g[k] = Bits(h[k])
    BY <1>5
  <2>2. h \in [F -> PolyForm] /\ g \in [F -> Symbol]
    BY <1>6
  <2> QED
    BY <2>1, <2>2, <1>a, XorOfIs
<1>13. 1 ^^ XorOf(h) = Number(Xor(One, XorSum(g))) /\ Xor(One, XorSum(g)) \in Symbol
  BY <1>12, BitsOne, XorSumType, Widths, NumberXor, XorType
<1>14. Xor(One, XorSum(g)) = Xor(XorSum(g), One)
  BY XorFacts
<1>15. ValueAt(p, r) = Xor(One, XorSum(g))
  BY <1>2, <1>10, <1>11, <1>14
<1> QED
  BY <1>13, <1>15

\* The sum of the terms decides about the root.
LEMMA IsRootIs ==
  ASSUME NEW p, NEW n \in 0 .. Degree, UpTo(p, n), p[0] = One, NEW r \in Nat
  PROVE  IsRoot(TermsAt(p, n, r)) <=> ValueAt(p, r) = {}
<1> DEFINE t == TermsAt(p, n, r)
           h == [k \in 1 .. n |-> Poly(t[k])]
<1>1. ASSUME NEW k \in 1 .. n PROVE h[k] = Number(Raised(p[k], k * r)) /\ h[k] \in PolyForm
  <2>1. k \in Nat /\ k \in 0 .. Degree /\ k * r \in Nat
    BY DegreeIs
  <2>2. p[k] \in Symbol
    BY <2>1, PolynomialAt DEF UpTo
  <2>3. Raised(p[k], k * r) \in Symbol
    BY <2>1, <2>2, RaisedType
  <2>4. h[k] = Poly(Log[Raised(p[k], k * r)])
    BY DEF TermsAt
  <2> HIDE DEF h
  <2> QED
    BY <2>3, <2>4, LogIs, NumberType
<1>2. h \in [1 .. n -> PolyForm]
  <2>1. h = [k \in 1 .. n |-> h[k]]
    OBVIOUS
  <2> HIDE DEF h
  <2> QED
    BY <1>1, <2>1
<1>3. IsRoot(t) <=> 1 ^^ XorOf(h) = 0
  <2>1. DOMAIN t = 1 .. n
    BY DEF TermsAt
  <2> HIDE DEF t
  <2> QED
    BY <2>1 DEF IsRoot
<1> HIDE DEF h, t
<1>4. 1 ^^ XorOf(h) = Number(ValueAt(p, r))
  BY <1>1, <1>2, RootSum
<1> QED
  BY <1>3, <1>4, ValueType, NumberZero DEF t

\* rt[] holds the roots of p among alpha^1, ..., alpha^n, in this order.
Found(rt, p, n) ==
  /\ rt \in Seq(1 .. nn)
  /\ \A i \in 1 .. Len(rt) : rt[i] <= n /\ ValueAt(p, rt[i]) = {}
  /\ \A i, k \in 1 .. Len(rt) : i < k => rt[i] < rt[k]
  /\ \A r \in 1 .. n : ValueAt(p, r) = {} => \E i \in 1 .. Len(rt) : rt[i] = r

\* One candidate more.
LEMMA FoundNext ==
  ASSUME NEW rt, NEW p, NEW n \in 0 .. nn - 1, Found(rt, p, n)
  PROVE  Found(IF ValueAt(p, n + 1) = {} THEN Append(rt, n + 1) ELSE rt, p, n + 1)
<1>0. /\ rt \in Seq(1 .. nn) /\ Len(rt) \in Nat /\ n + 1 \in 1 .. nn /\ n \in Nat
      /\ \A i \in 1 .. Len(rt) : rt[i] \in 1 .. nn /\ rt[i] \in Nat
  BY Widths DEF Found
<1>b. \A i \in 1 .. Len(rt) : rt[i] <= n + 1 /\ ValueAt(p, rt[i]) = {}
  <2> SUFFICES ASSUME NEW i \in 1 .. Len(rt) PROVE rt[i] <= n + 1 /\ ValueAt(p, rt[i]) = {}
    OBVIOUS
  <2>1. rt[i] <= n /\ ValueAt(p, rt[i]) = {}
    BY DEF Found
  <2>2. PICK r \in Nat : r = rt[i]
    BY <1>0
  <2>3. r <= n
    BY <2>1, <2>2
  <2>4. r <= n + 1
    BY <1>0, <2>2, <2>3
  <2> QED
    BY <2>1, <2>2, <2>4
<1>1. CASE ValueAt(p, n + 1) # {}
  <2>1. \A r \in 1 .. n + 1 : ValueAt(p, r) = {} => \E i \in 1 .. Len(rt) : rt[i] = r
    BY <1>0, <1>1 DEF Found
  <2> QED
    BY <1>0, <1>1, <1>b, <2>1 DEF Found
<1>2. CASE ValueAt(p, n + 1) = {}
  <2> DEFINE a == Append(rt, n + 1)
  <2>1. /\ a \in Seq(1 .. nn) /\ Len(a) = Len(rt) + 1 /\ a[Len(rt) + 1] = n + 1
        /\ \A i \in 1 .. Len(rt) : a[i] = rt[i]
    BY <1>0
  <2> HIDE DEF a
  <2>2. \A i \in 1 .. Len(a) : i \in 1 .. Len(rt) \/ i = Len(rt) + 1
    BY <1>0, <2>1
  <2>3. \A i \in 1 .. Len(a) : a[i] <= n + 1 /\ ValueAt(p, a[i]) = {}
    <3> SUFFICES ASSUME NEW i \in 1 .. Len(a) PROVE a[i] <= n + 1 /\ ValueAt(p, a[i]) = {}
      OBVIOUS
    <3>1. CASE i \in 1 .. Len(rt)
      <4>1. a[i] = rt[i]
        BY <2>1, <3>1
      <4> QED
        BY <1>b, <3>1, <4>1
    <3>2. CASE i = Len(rt) + 1
      <4>1. a[i] = n + 1 /\ n + 1 <= n + 1
        BY <1>0, <2>1, <3>2
      <4> QED
        BY <1>2, <4>1
    <3> QED
      BY <2>2, <3>1, <3>2
  <2>4. \A i, k \in 1 .. Len(a) : i < k => a[i] < a[k]
    <3> SUFFICES ASSUME NEW i \in 1 .. Len(a), NEW k \in 1 .. Len(a), i < k PROVE a[i] < a[k]
      OBVIOUS
    <3>1. i \in 1 .. Len(rt)
      BY <1>0, <2>1
    <3>2. CASE k \in 1 .. Len(rt)
      BY <2>1, <3>1, <3>2 DEF Found
    <3>3. CASE k = Len(rt) + 1
      <4>1. rt[i] <= n /\ rt[i] \in Nat
        BY <1>0, <3>1 DEF Found
      <4> QED
        BY <1>0, <2>1, <3>1, <3>3, <4>1
    <3> QED
      BY <2>2, <3>2, <3>3
  <2>5. \A r \in 1 .. n + 1 : ValueAt(p, r) = {} => \E i \in 1 .. Len(a) : a[i] = r
    <3> SUFFICES ASSUME NEW r \in 1 .. n + 1, ValueAt(p, r) = {} PROVE \E i \in 1 .. Len(a) : a[i] = r
      OBVIOUS
    <3>1. CASE r = n + 1
      <4>1. Len(rt) + 1 \in 1 .. Len(a)
        BY <1>0, <2>1
      <4> QED
        BY <2>1, <3>1, <4>1
    <3>2. CASE r # n + 1
      <4>1. PICK i \in 1 .. Len(rt) : rt[i] = r
        BY <1>0, <3>2 DEF Found
      <4>2. i \in 1 .. Len(a)
        BY <1>0, <2>1
      <4> QED
        BY <2>1, <4>1, <4>2
    <3> QED
      BY <3>1, <3>2
  <2>6. Found(a, p, n + 1)
    BY <2>1, <2>3, <2>4, <2>5 DEF Found
  <2> QED
    BY <1>2, <2>6 DEF a
<1> QED
  BY <1>1, <1>2

\* The set of the roots found.
RootSet(rt) == { rt[i] : i \in 1 .. Len(rt) }

\* No more roots are found than the degree says.
LEMMA FoundCount ==
  ASSUME NEW rt, NEW p, NEW n, Found(rt, p, n)
  PROVE  /\ Len(rt) \in Nat /\ RootSet(rt) \subseteq 1 .. nn
         /\ IsFiniteSet(RootSet(rt)) /\ Cardinality(RootSet(rt)) = Len(rt)
         /\ \A k \in 0 .. Degree : UpTo(p, k) /\ p[0] = One => Len(rt) <= k
<1> DEFINE h == [i \in 1 .. Len(rt) |-> rt[i]]
<1>0. Len(rt) \in Nat /\ \A i \in 1 .. Len(rt) : rt[i] \in 1 .. nn /\ rt[i] \in Nat
  BY Widths DEF Found
<1>1. RootSet(rt) \subseteq 1 .. nn
  BY <1>0 DEF RootSet
<1>2. h \in Bijection(1 .. Len(rt), RootSet(rt))
  <2>1. h \in [1 .. Len(rt) -> RootSet(rt)]
    BY DEF RootSet
  <2>2. ASSUME NEW i \in 1 .. Len(rt), NEW k \in 1 .. Len(rt), h[i] = h[k] PROVE i = k
    <3>1. i < k => rt[i] < rt[k]
      BY DEF Found
    <3>2. k < i => rt[k] < rt[i]
      BY DEF Found
    <3>3. rt[i] = rt[k] /\ rt[i] \in Nat
      BY <1>0, <2>2
    <3> QED
      BY <1>0, <3>1, <3>2, <3>3
  <2>3. \A y \in RootSet(rt) : \E i \in 1 .. Len(rt) : h[i] = y
    BY DEF RootSet
  <2> HIDE DEF h
  <2> QED
    BY <2>1, <2>2, <2>3 DEF Bijection, Injection, Surjection, IsInjective
<1>3. IsFiniteSet(1 .. Len(rt)) /\ Cardinality(1 .. Len(rt)) = Len(rt)
  <2>1. Cardinality(1 .. Len(rt)) = IF 1 > Len(rt) THEN 0 ELSE Len(rt) - 1 + 1
    BY <1>0, FS_Interval
  <2>2. IsFiniteSet(1 .. Len(rt))
    BY <1>0, FS_Interval
  <2> QED
    BY <1>0, <2>1, <2>2
<1>4. IsFiniteSet(RootSet(rt)) /\ Cardinality(RootSet(rt)) = Len(rt)
  <2> HIDE DEF h
  <2> DEFINE D == 1 .. Len(rt)
  <2>0. IsFiniteSet(D) /\ h \in Bijection(D, RootSet(rt)) /\ Cardinality(D) = Len(rt)
    BY <1>2, <1>3
  <2> HIDE DEF D
  <2>a. ExistsBijection(D, RootSet(rt))
    BY <2>0 DEF ExistsBijection
  <2>1. IsFiniteSet(RootSet(rt)) /\ Cardinality(D) = Cardinality(RootSet(rt))
    BY <2>0, <2>a, FS_Bijection
  <2> QED
    BY <2>0, <2>1
<1>5. ASSUME NEW k \in 0 .. Degree, UpTo(p, k), p[0] = One PROVE Len(rt) <= k
  <2>1. Roots(p, RootSet(rt))
    BY <1>1 DEF Roots, RootSet, Found
  <2>2. 0 \in 0 .. Degree /\ p[0] # {}
    BY <1>5, DegreeIs, Widths
  <2>3. Cardinality(RootSet(rt)) <= k
    BY <1>5, <2>1, <2>2, RootCount
  <2> QED
    BY <1>4, <2>3
<1> QED
  BY <1>0, <1>1, <1>4, <1>5

-----------------------------------------------------------------------------
(* The state of the decoder *)

\* The words the code works on, their syndromes and their index form.
IntWords == [0 .. nn - 1 -> PolyForm]
SynOf(w) == Syndromes(AsSymbols(w))
IndexWord(w) == [x \in 0 .. nn - 1 |-> IndexOf[w[x]]]

\* A word has syndromes, which it explains itself.
LEMMA SynIs ==
  ASSUME NEW w \in IntWords
  PROVE  /\ SynOf(w) \in SyndromeVectors
         /\ AsSymbols(w) \in Words
         /\ Explains(AsSymbols(w), SynOf(w))
<1>0. nn - 1 \in Nat /\ Degree \in Nat
  BY Widths, DegreeIs
<1>1. AsSymbols(w) \in Words
  BY AsSymbolsIs DEF IntWords, Words
<1>2. \A y \in 1 .. Degree : SynOf(w)[y] = ValueAt(AsSymbols(w), y - 1)
  BY DEF SynOf, Syndromes, Degree
<1>3. \A y \in 1 .. Degree : ValueAt(AsSymbols(w), y - 1) \in Symbol
  <2> SUFFICES ASSUME NEW y \in 1 .. Degree PROVE ValueAt(AsSymbols(w), y - 1) \in Symbol
    OBVIOUS
  <2>1. y - 1 \in Nat
    BY <1>0
  <2> QED
    BY <1>0, <1>1, <2>1, ValueType DEF Words
<1>4. SynOf(w) \in SyndromeVectors
  BY <1>2, <1>3 DEF SynOf, Syndromes, SyndromeVectors, Degree
<1> QED
  BY <1>1, <1>2, <1>4 DEF Explains

\* What the syndrome loop computes.
LEMMA SyndromeIs ==
  ASSUME NEW w \in IntWords, NEW y \in 1 .. Degree
  PROVE  IndexOf[XorOf([x \in 0 .. nn - 1 |-> Times(IndexWord(w)[x], (y - 1) * x)])] = Log[SynOf(w)[y]]
<1>0. nn - 1 \in Nat /\ Degree \in Nat /\ y - 1 \in Nat
  BY Widths, DegreeIs
<1>1. ValueOf(w, y - 1) = Number(ValueAt(AsSymbols(w), y - 1))
  BY <1>0, ValueOfIs DEF IntWords
<1>2. ValueOf(w, y - 1) = XorOf([x \in 0 .. nn - 1 |-> Times(IndexWord(w)[x], (y - 1) * x)])
  BY DEF ValueOf, IndexWord, IntWords
<1>3. SynOf(w)[y] = ValueAt(AsSymbols(w), y - 1) /\ SynOf(w)[y] \in Symbol
  BY SynIs DEF Explains, SyndromeVectors
<1> QED
  BY <1>1, <1>2, <1>3, LogIs

\* The conversion back.
LEMMA PolyOfIs ==
  ASSUME NEW w \in IntWords
  PROVE  PolyOf(IndexWord(w)) = w /\ IndexWord(w) \in [0 .. nn - 1 -> IndexForm]
<1>1. \A x \in 0 .. nn - 1 : Poly(IndexWord(w)[x]) = w[x] /\ IndexWord(w)[x] \in IndexForm
  BY IndexOfIs DEF IntWords, IndexWord
<1> QED
  BY <1>1 DEF PolyOf, IntWords, IndexWord

\* Some word with m symbols that are not zero, or fewer, has syndromes s.
ErrorsBelow(m, s) == \E w : Explains(w, s) /\ Cardinality(Support(w)) <= m

\* n is no more than the number of errors, however they are explained.
Short(n, s) == \A m \in Nat : ErrorsBelow(m, s) => n <= m

HasError(w) == \E x \in 1 .. Degree : SynOf(w)[x] # {}

\* All syndromes but the last are zero.
OnlyLast(s) == s[Degree] # {} /\ \A y \in 1 .. Degree - 1 : s[y] = {}

\* What Best(w) looks for: the degree of row w is the greatest step number less degree
\* among the earlier rows with a discrepancy.
Leads(w, n, disc, deg) ==
  /\ \E q \in 0 .. w - 1 : disc[q] # -1 /\ n = q - deg[q]
  /\ \A x \in 0 .. w - 1 : disc[x] # -1 => x - deg[x] <= n

\* The rows of elp[] up to w hold the polynomials p[0], ..., p[w], those before w in index
\* form, with their discrepancies and degrees.
Tracks(w, p, rows, disc, deg, s) ==
  /\ w \in 1 .. Degree + 1
  /\ \A r \in 0 .. w : Row(r, p[r], deg[r], s)
  /\ \A r \in 0 .. w : r <= Degree => disc[r] = Log[Gap(r, p[r], s)]
  /\ \A r \in 0 .. w - 1 : deg[r] <= tt /\ IndexRow(rows[r], p[r], deg[r])
  /\ PolyRow(rows[w], p[w], deg[w])
  /\ Leads(w, deg[w], disc, deg)

\* The last row, with which the search for the roots begins.
Locator(p, w, row, n, s) ==
  /\ w = Degree + 1
  /\ n \in 0 .. tt
  /\ Row(Degree + 1, p, n, s)
  /\ IndexRow(row, p, n)
  /\ Short(n, s)

\* Symbols are changed at the first n locations only.
Repaired(w, v, rt, n) ==
  /\ w \in IntWords
  /\ \A x \in 0 .. nn - 1 : w[x] # v[x] => \E i \in 1 .. n : x = nn - rt[i]

\* The product of the polynomial and the syndromes up to the degree: z(x) less the polynomial.
Numer(p, s, n) == [x \in 0 .. Degree |-> IF x \in 1 .. n THEN Product(p, s, x) ELSE {}]

\* Forney's formula: before symbol i is corrected, the locations still are those of word w,
\* and what is left to correct is what was there, less the errors at the first i - 1 of them.
Correcting(p, n, s, rt, zz, w, i) ==
  /\ zz = [x \in 1 .. n |-> Log[Xor(p[x], Product(p, s, x))]]
  /\ Row(Degree + 1, p, n, SynOf(w))
  /\ \A j \in 1 .. n :
       ValueAt(Numer(p, SynOf(w), n), rt[j]) =
         IF j < i THEN {} ELSE ValueAt(Numer(p, s, n), rt[j])

\* The parts of the invariant.
TypePart ==
  /\ DecodeTypeOK
  /\ root \in Seq(1 .. nn)
  /\ Len(root) <= tt

PhasePart ==
  /\ decodePc # "done" => result = -1
  /\ decodePc \in {"call", "syndromes", "berlekamp"} => root = <<>> /\ decodeRound = 1
  /\ decodePc = "syndromes" => u >= 1

WordPart ==
  /\ received \in IntWords
  /\ decodePc \in {"syndromes", "berlekamp", "roots"} => recd = IndexWord(received)
  /\ decodePc = "call" => recd = received
  /\ decodePc = "done" /\ result # 1 => recd = received
  /\ decodePc = "values" => Repaired(recd, received, root, decodeRound - 1)
  /\ decodePc = "done" /\ result = 1 => Repaired(recd, received, root, Len(root))

SyndromePart ==
  /\ decodePc = "syndromes" => \A x \in 1 .. u - 1 : synd[x] = Log[SynOf(received)[x]]
  /\ decodePc \in {"berlekamp", "roots", "values"} =>
       IndexSyndromes(synd, SynOf(received)) /\ HasError(received)
  /\ decodePc = "done" /\ result \in 1 .. 3 => HasError(received)
  /\ decodePc = "done" /\ result = 0 => ~HasError(received)
  /\ decodePc = "done" /\ result = 1 => ~HasError(recd)

BerlekampPart ==
  decodePc = "berlekamp" => \E p : Tracks(u, p, elp, d, l, SynOf(received))

RootsPart ==
  decodePc \in {"roots", "values"} =>
    \E p : /\ Locator(p, u, elp[u], l[u], SynOf(received))
           /\ decodePc = "roots" => /\ Found(root, p, decodeRound - 1)
                                    /\ reg = TermsAt(p, l[u], decodeRound - 1)
           /\ decodePc = "values" => /\ Found(root, p, nn)
                                     /\ Len(root) = l[u]
                                     /\ decodeRound <= l[u] + 1
                                     /\ Correcting(p, l[u], SynOf(received), root, z, recd, decodeRound)

AnswerPart ==
  decodePc = "done" /\ result \in {2, 3} => ~ErrorsBelow(tt, SynOf(received))

CellPart == ~OnlyLast(SynOf(received)) => ElpInBounds

DecodeInv ==
  /\ TypePart
  /\ PhasePart
  /\ WordPart
  /\ SyndromePart
  /\ BerlekampPart
  /\ RootsPart
  /\ AnswerPart
  /\ CellPart

-----------------------------------------------------------------------------
(* The call and the syndromes *)

\* Before the first iteration nothing is in elp[].
LEMMA NoRowsFit == NoRows \in [Rows -> [0 .. Behind -> Cells]] /\ \A row \in Rows : NoRows[row][Behind] = Unset
BY Widths DEF NoRows, Rows, Behind, Cells

\* The invariant holds at first.
LEMMA InitInv == DecodeInit => DecodeInv
<1> SUFFICES ASSUME DecodeInit PROVE DecodeInv
  OBVIOUS
<1>w. Degree \in Nat /\ nn \in Nat /\ nn > 0 /\ tt \in Nat /\ tt > 0 /\ nn - kk \in Nat /\ Degree = nn - kk
  BY Widths, DegreeIs DEF Degree
<1>0. /\ decodePc = "done" /\ result = -1 /\ recd = [x \in 0 .. nn - 1 |-> 0] /\ received = recd
      /\ synd = NoSyndromes /\ u = 0 /\ elp = NoRows /\ d = NoDiscrepancies /\ l = NoDegrees
      /\ reg = <<>> /\ root = <<>> /\ z = <<>> /\ decodeRound = 1
  BY DEF DecodeInit
<1>1. recd \in IntWords
  BY <1>0, <1>w DEF IntWords, PolyForm
<1>2. TypePart
  <2>1. recd \in [0 .. nn - 1 -> IndexForm \cup PolyForm]
    BY <1>1 DEF IntWords
  <2>2. synd \in [1 .. nn - kk -> {Unset} \cup IndexForm] /\ d \in [0 .. nn - kk -> {Unset} \cup IndexForm]
        /\ l \in [Rows -> {Unset} \cup 0 .. nn - kk] /\ u \in Rows
    BY <1>0, <1>w DEF NoSyndromes, NoDiscrepancies, NoDegrees, Rows
  <2>3. elp \in [Rows -> [0 .. Behind -> Cells]]
    BY <1>0, NoRowsFit
  <2>4. root \in Seq(1 .. nn) /\ Len(root) <= tt
    BY <1>0, <1>w
  <2>5. /\ decodeRound \in 1 .. nn + 1 /\ result \in -1 .. 3
        /\ decodePc \in {"call", "syndromes", "berlekamp", "roots", "values", "done"}
    BY <1>0, <1>w
  <2>6. DOMAIN reg = {} /\ DOMAIN z = {} /\ DOMAIN root = {}
    BY <1>0
  <2> QED
    BY <2>1, <2>2, <2>3, <2>4, <2>5, <2>6 DEF TypePart, DecodeTypeOK
<1>3. PhasePart /\ BerlekampPart /\ RootsPart /\ AnswerPart /\ SyndromePart
  BY <1>0 DEF PhasePart, BerlekampPart, RootsPart, AnswerPart, SyndromePart
<1>4. WordPart
  BY <1>0, <1>1 DEF WordPart
<1>5. CellPart
  BY <1>0, NoRowsFit DEF CellPart, ElpInBounds
<1> QED
  BY <1>2, <1>3, <1>4, <1>5 DEF DecodeInv

\* A call establishes it.
LEMMA CallInv ==
  ASSUME NEW w \in IntWords, DecodeCall(w)
  PROVE  DecodeInv'
<1>w. Degree \in Nat /\ nn \in Nat /\ nn > 0 /\ tt \in Nat /\ tt > 0 /\ nn - kk \in Nat /\ Degree = nn - kk
  BY Widths, DegreeIs DEF Degree
<1>0. /\ decodePc' = "call" /\ result' = -1 /\ recd' = w /\ received' = w
      /\ synd' = NoSyndromes /\ u' = 0 /\ elp' = NoRows /\ d' = NoDiscrepancies /\ l' = NoDegrees
      /\ reg' = <<>> /\ root' = <<>> /\ z' = <<>> /\ decodeRound' = 1
  BY DEF DecodeCall
<1>2. TypePart'
  <2>1. recd' \in [0 .. nn - 1 -> IndexForm \cup PolyForm]
    BY <1>0 DEF IntWords
  <2>2. synd' \in [1 .. nn - kk -> {Unset} \cup IndexForm] /\ d' \in [0 .. nn - kk -> {Unset} \cup IndexForm]
        /\ l' \in [Rows -> {Unset} \cup 0 .. nn - kk] /\ u' \in Rows
    BY <1>0, <1>w DEF NoSyndromes, NoDiscrepancies, NoDegrees, Rows
  <2>3. elp' \in [Rows -> [0 .. Behind -> Cells]]
    BY <1>0, NoRowsFit
  <2>4. root' \in Seq(1 .. nn) /\ Len(root') <= tt
    BY <1>0, <1>w
  <2>5. /\ decodeRound' \in 1 .. nn + 1 /\ result' \in -1 .. 3
        /\ decodePc' \in {"call", "syndromes", "berlekamp", "roots", "values", "done"}
    BY <1>0, <1>w
  <2>6. DOMAIN reg' = {} /\ DOMAIN z' = {} /\ DOMAIN root' = {}
    BY <1>0
  <2> QED
    BY <2>1, <2>2, <2>3, <2>4, <2>5, <2>6 DEF TypePart, DecodeTypeOK
<1>3. PhasePart' /\ BerlekampPart' /\ RootsPart' /\ AnswerPart' /\ SyndromePart'
  BY <1>0 DEF PhasePart, BerlekampPart, RootsPart, AnswerPart, SyndromePart
<1>4. WordPart'
  BY <1>0 DEF WordPart
<1>5. CellPart'
  BY <1>0, NoRowsFit DEF CellPart, ElpInBounds
<1> QED
  BY <1>2, <1>3, <1>4, <1>5 DEF DecodeInv

\* An integer form of what Degree and the bounds are.
LEMMA Bounds ==
  /\ Degree \in Nat /\ Degree = nn - kk /\ nn - kk \in Nat /\ nn \in Nat /\ nn > 0 /\ tt \in Nat /\ tt > 0
  /\ tt < Degree /\ Degree > 1 /\ Degree < nn /\ Degree = 2 * tt /\ Behind = Degree /\ Behind = nn - kk
  /\ Rows = 0 .. Degree + 1
BY Widths, DegreeIs DEF Degree, Behind, Rows

\* The received word in index form.
LEMMA ToIndexFormInv ==
  ASSUME DecodeInv, ToIndexForm
  PROVE  DecodeInv'
<1>0. /\ decodePc = "call" /\ recd' = [x \in 0 .. nn - 1 |-> IndexOf[recd[x]]]
      /\ u' = 1 /\ decodePc' = "syndromes"
      /\ received' = received /\ synd' = synd /\ elp' = elp /\ d' = d /\ l' = l
      /\ reg' = reg /\ root' = root /\ z' = z /\ decodeRound' = decodeRound /\ result' = result
  BY DEF ToIndexForm, correctionVars
<1>1. received \in IntWords /\ recd = received
  BY <1>0 DEF DecodeInv, WordPart
<1>2. recd' = IndexWord(received)
  BY <1>0, <1>1 DEF IndexWord
<1>3. TypePart'
  <2>1. recd' \in [0 .. nn - 1 -> IndexForm \cup PolyForm]
    BY <1>1, <1>2, PolyOfIs
  <2>2. u' \in Rows
    BY <1>0, Bounds
  <2> QED
    BY <1>0, <2>1, <2>2 DEF DecodeInv, TypePart, DecodeTypeOK
<1>4. PhasePart'
  BY <1>0 DEF DecodeInv, PhasePart
<1>5. WordPart'
  BY <1>0, <1>1, <1>2 DEF WordPart
<1>6. SyndromePart' /\ BerlekampPart' /\ RootsPart' /\ AnswerPart'
  BY <1>0 DEF SyndromePart, BerlekampPart, RootsPart, AnswerPart
<1>7. CellPart'
  BY <1>0 DEF DecodeInv, CellPart, ElpInBounds
<1> QED
  BY <1>3, <1>4, <1>5, <1>6, <1>7 DEF DecodeInv

\* One syndrome more.
LEMMA SyndromeInv ==
  ASSUME DecodeInv, Syndrome
  PROVE  DecodeInv'
<1>0. /\ decodePc = "syndromes" /\ u <= nn - kk
      /\ synd' = [synd EXCEPT ![u] =
                   IndexOf[XorOf([x \in 0 .. nn - 1 |-> Times(recd[x], (u - 1) * x)])]]
      /\ u' = u + 1 /\ decodePc' = decodePc
      /\ received' = received /\ recd' = recd /\ elp' = elp /\ d' = d /\ l' = l
      /\ reg' = reg /\ root' = root /\ z' = z /\ decodeRound' = decodeRound /\ result' = result
  BY DEF Syndrome, correctionVars
<1>1. received \in IntWords /\ recd = IndexWord(received)
  BY <1>0 DEF DecodeInv, WordPart
<1>2. u \in 1 .. Degree /\ u \in Nat
  BY <1>0, Bounds DEF DecodeInv, TypePart, DecodeTypeOK, PhasePart
<1>3. PICK a \in Symbol : a = SynOf(received)[u]
  BY <1>1, <1>2, SynIs DEF SyndromeVectors
<1>4. synd' = [synd EXCEPT ![u] = Log[a]] /\ Log[a] \in IndexForm
  <2>1. IndexOf[XorOf([x \in 0 .. nn - 1 |-> Times(IndexWord(received)[x], (u - 1) * x)])]
          = Log[SynOf(received)[u]]
    BY <1>1, <1>2, SyndromeIs
  <2>2. Log[a] \in IndexForm
    BY LogIs
  <2> QED
    BY <1>0, <1>1, <1>3, <2>1, <2>2
<1>5. synd \in [1 .. nn - kk -> {Unset} \cup IndexForm]
  BY DEF DecodeInv, TypePart, DecodeTypeOK
<1>6. TypePart'
  <2>1. synd' \in [1 .. nn - kk -> {Unset} \cup IndexForm]
    BY <1>4, <1>5
  <2>2. u' \in Rows
    BY <1>0, <1>2, Bounds
  <2> QED
    BY <1>0, <2>1, <2>2 DEF DecodeInv, TypePart, DecodeTypeOK
<1>7. PhasePart'
  BY <1>0, <1>2 DEF DecodeInv, PhasePart
<1>8. WordPart'
  BY <1>0 DEF DecodeInv, WordPart
<1>9. SyndromePart'
  <2>1. \A x \in 1 .. u - 1 : synd[x] = Log[SynOf(received)[x]]
    BY <1>0 DEF DecodeInv, SyndromePart
  <2>2. ASSUME NEW x \in 1 .. u' - 1 PROVE synd'[x] = Log[SynOf(received')[x]]
    <3>1. x \in 1 .. nn - kk /\ (x = u \/ x \in 1 .. u - 1)
      BY <1>0, <1>2, Bounds
    <3>2. CASE x = u
      BY <1>0, <1>3, <1>4, <1>5, <3>1, <3>2
    <3>3. CASE x # u
      <4>1. synd'[x] = synd[x]
        BY <1>4, <1>5, <3>1, <3>3
      <4> QED
        BY <1>0, <2>1, <3>1, <3>3, <4>1
    <3> QED
      BY <3>2, <3>3
  <2> QED
    BY <1>0, <2>2 DEF SyndromePart
<1>10. BerlekampPart' /\ RootsPart' /\ AnswerPart'
  BY <1>0 DEF BerlekampPart, RootsPart, AnswerPart
<1>11. CellPart'
  BY <1>0 DEF DecodeInv, CellPart, ElpInBounds
<1> QED
  BY <1>6, <1>7, <1>8, <1>9, <1>10, <1>11 DEF DecodeInv

\* After the last syndrome: the search for a syndrome that is not zero.
LEMMA AllSyndromes ==
  ASSUME DecodeInv, decodePc = "syndromes", u > nn - kk
  PROVE  /\ received \in IntWords
         /\ IndexSyndromes(synd, SynOf(received))
         /\ SynError <=> HasError(received)
<1>1. received \in IntWords
  BY DEF DecodeInv, WordPart
<1>2. u = Degree + 1
  BY Bounds DEF DecodeInv, TypePart, DecodeTypeOK
<1>3. \A x \in 1 .. Degree : synd[x] = Log[SynOf(received)[x]]
  BY <1>2, Bounds DEF DecodeInv, SyndromePart
<1>4. \A x \in 1 .. Degree : SynOf(received)[x] \in Symbol
  BY <1>1, SynIs DEF SyndromeVectors
<1>5. \A x \in 1 .. Degree : Log[SynOf(received)[x]] = -1 <=> SynOf(received)[x] = {}
  BY <1>4, LogIs
<1> QED
  BY <1>1, <1>3, <1>5, Bounds DEF IndexSyndromes, SynError, HasError

\* The syndromes are all zero just when the word is a codeword.
LEMMA NoErrorsInv ==
  ASSUME DecodeInv, NoErrors
  PROVE  DecodeInv'
<1>0. /\ decodePc = "syndromes" /\ u > nn - kk /\ ~SynError /\ recd' = PolyOf(recd)
      /\ result' = 0 /\ decodePc' = "done" /\ u' = u /\ synd' = synd
      /\ received' = received /\ elp' = elp /\ d' = d /\ l' = l
      /\ reg' = reg /\ root' = root /\ z' = z /\ decodeRound' = decodeRound
  BY DEF NoErrors, Finish, berlekampVars, correctionVars
<1>1. received \in IntWords /\ recd = IndexWord(received)
  BY <1>0 DEF DecodeInv, WordPart
<1>2. recd' = received
  BY <1>0, <1>1, PolyOfIs
<1>3. TypePart'
  <2>1. recd' \in [0 .. nn - 1 -> IndexForm \cup PolyForm]
    BY <1>1, <1>2 DEF IntWords
  <2> QED
    BY <1>0, <2>1 DEF DecodeInv, TypePart, DecodeTypeOK
<1>4. PhasePart'
  BY <1>0 DEF DecodeInv, PhasePart
<1>5. WordPart'
  BY <1>0, <1>1, <1>2 DEF WordPart
<1>6. SyndromePart'
  <2>1. ~HasError(received)
    BY <1>0, AllSyndromes
  <2> QED
    BY <1>0, <2>1 DEF SyndromePart
<1>7. BerlekampPart' /\ RootsPart' /\ AnswerPart'
  BY <1>0 DEF BerlekampPart, RootsPart, AnswerPart
<1>8. CellPart'
  BY <1>0 DEF DecodeInv, CellPart, ElpInBounds
<1> QED
  BY <1>3, <1>4, <1>5, <1>6, <1>7, <1>8 DEF DecodeInv

\* The polynomial 1, of steps -1 and 0.
Constant == [x \in 0 .. Degree |-> IF x = 0 THEN One ELSE {}]

\* The polynomial 1, the first row.
LEMMA ConstantIs == Constant \in Polynomial /\ Constant[0] = One /\ \A x \in 0 .. Degree : x > 0 => Constant[x] = {}
BY Widths, Bounds DEF Constant, Polynomial

\* Its products with the syndromes are the syndromes.
LEMMA ConstantProduct ==
  ASSUME NEW s \in SyndromeVectors, NEW y \in 1 .. Degree
  PROVE  Product(Constant, s, y) = s[y]
<1> DEFINE D == 0 .. Degree
           E == {0}
           f == [x \in D |-> Mul(Constant[x], At(s, y - x))]
           e == [x \in E |-> f[x]]
<1>0. y \in Int /\ 0 \in D /\ Degree \in Nat
  BY Bounds
<1>1. f \in [D -> Symbol] /\ Product(Constant, s, y) = XorSum(f)
  BY <1>0, ConstantIs, ProductType DEF Product
<1>2. \A x \in D : x # 0 => f[x] = {}
  <2> SUFFICES ASSUME NEW x \in D, x # 0 PROVE f[x] = {}
    OBVIOUS
  <2>1. Constant[x] = {} /\ At(s, y - x) \in Symbol
    BY <1>0, ConstantIs, AtType
  <2> QED
    BY <2>1, MulZero
<1>3. f[0] = s[y]
  <2>1. At(s, y - 0) = s[y] /\ At(s, y - 0) \in Symbol
    BY <1>0, AtType DEF At
  <2> QED
    BY <1>0, <2>1, ConstantIs, MulCommute, MulOne, Widths
<1> HIDE DEF f
<1>4. Extends(D, E, f, e)
  BY <1>0, <1>1, <1>2 DEF Extends
<1>5. XorSum(f) = XorSum(e)
  BY <1>4, XorSumSupport
<1>6. XorSum(e) = f[0]
  <2> DEFINE g == [x \in {} |-> f[x]]
  <2>1. IsFiniteSet(E) /\ 0 \in E
    BY FS_Singleton
  <2>2. Without(E, 0, e, g)
    BY <1>0, <1>1 DEF Without
  <2>3. XorSum(e) = Xor(XorSum(g), e[0])
    BY <2>1, <2>2, XorSumInsert
  <2>4. g \in [{} -> Symbol] /\ \A x \in {} : g[x] = {}
    OBVIOUS
  <2> HIDE DEF g
  <2>5. XorSum(g) = {}
    BY <2>4, XorSumNone
  <2>6. e[0] = f[0]
    OBVIOUS
  <2> QED
    BY <2>3, <2>5, <2>6, XorZero
<1> QED
  BY <1>1, <1>3, <1>5, <1>6

\* A polynomial of degree 0 is that one, and its discrepancies are the syndromes.
LEMMA ConstantRow ==
  ASSUME NEW s \in SyndromeVectors, NEW r \in 1 .. Degree, NEW p, Row(r, p, 0, s)
  PROVE  Gap(r, p, s) = s[r] /\ \A y \in 1 .. r - 1 : s[y] = {}
<1>0. Degree \in Nat /\ r # 0 /\ r \in Nat
  BY Bounds
<1>1. /\ p \in [0 .. Degree -> Symbol] /\ p[0] = One /\ \A x \in 0 .. Degree : x > 0 => p[x] = {}
      /\ \A y \in 1 .. r - 1 : Product(p, s, y) = {}
  BY <1>0 DEF Row, Polynomial
<1>2. p = Constant
  <2>1. Constant \in [0 .. Degree -> Symbol]
    BY ConstantIs DEF Polynomial
  <2>2. ASSUME NEW x \in 0 .. Degree PROVE p[x] = Constant[x]
    <3>1. x = 0 \/ x > 0
      BY <1>0
    <3>2. p[0] = Constant[0]
      BY <1>1, ConstantIs
    <3> QED
      BY <1>1, <3>1, <3>2, ConstantIs
  <2>3. p = [x \in 0 .. Degree |-> p[x]] /\ Constant = [x \in 0 .. Degree |-> Constant[x]]
    BY <1>1, <2>1
  <2> QED
    BY <2>2, <2>3
<1>3. \A y \in 1 .. r : y \in 1 .. Degree /\ Product(p, s, y) = s[y]
  BY <1>0, <1>2, ConstantProduct
<1>4. Gap(r, p, s) = s[r]
  BY <1>0, <1>3 DEF Gap
<1>5. \A y \in 1 .. r - 1 : s[y] = {}
  BY <1>0, <1>1, <1>3
<1> QED
  BY <1>4, <1>5

\* When it still is the newest one at the last step, and fails, only the last syndrome is
\* not zero.
LEMMA OnlyLastIs ==
  ASSUME NEW s \in SyndromeVectors, NEW p, Row(Degree, p, 0, s), Gap(Degree, p, s) # {}
  PROVE  OnlyLast(s)
<1>1. Degree \in 1 .. Degree
  BY Bounds
<1> QED
  BY <1>1, ConstantRow DEF OnlyLast

\* The rows for steps 0 and 1 are those Berlekamp's algorithm starts with.
LEMMA StartBerlekampInv ==
  ASSUME DecodeInv, StartBerlekamp
  PROVE  DecodeInv'
<1> DEFINE first == [x \in 0 .. Behind |-> CASE x = 0 -> 0 [] x = Behind -> elp[0][x] [] OTHER -> -1]
           second == [x \in 0 .. Behind |-> CASE x = 0 -> 1 [] x = Behind -> elp[1][x] [] OTHER -> 0]
<1>t. /\ elp \in [Rows -> [0 .. Behind -> Cells]]
      /\ d \in [0 .. nn - kk -> {Unset} \cup IndexForm]
      /\ l \in [Rows -> {Unset} \cup 0 .. nn - kk]
      /\ synd \in [1 .. nn - kk -> {Unset} \cup IndexForm]
  BY DEF DecodeInv, TypePart, DecodeTypeOK
<1>0. /\ decodePc = "syndromes" /\ u > nn - kk /\ SynError
      /\ d' = [d EXCEPT ![0] = 0, ![1] = synd[1]]
      /\ l' = [l EXCEPT ![0] = 0, ![1] = 0]
      /\ result' = result /\ decodePc' = "berlekamp" /\ u' = 1 /\ synd' = synd
      /\ received' = received /\ recd' = recd
      /\ reg' = reg /\ root' = root /\ z' = z /\ decodeRound' = decodeRound
  BY DEF StartBerlekamp, correctionVars
<1>1. 0 \in Rows /\ 1 \in Rows /\ 0 \in 0 .. nn - kk /\ 1 \in 0 .. nn - kk /\ 1 \in 1 .. nn - kk
      /\ 0 \in 0 .. Behind /\ Behind # 0 /\ Behind \in 0 .. Behind
  BY Bounds
<1>2. elp' = [elp EXCEPT ![0] = first, ![1] = second]
  BY <1>t, <1>1 DEF StartBerlekamp
<1>3. first \in [0 .. Behind -> Cells] /\ second \in [0 .. Behind -> Cells]
  <2>1. -1 \in Cells /\ 0 \in Cells /\ 1 \in Cells
    BY Bounds DEF Cells, PolyForm, IndexForm
  <2>2. \A x \in 0 .. Behind : elp[0][x] \in Cells /\ elp[1][x] \in Cells
    BY <1>t, <1>1
  <2> QED
    BY <2>1, <2>2
<1>4. /\ first[0] = 0 /\ first[Behind] = elp[0][Behind]
      /\ second[0] = 1 /\ second[Behind] = elp[1][Behind]
  BY <1>1
<1> HIDE DEF first, second
<1>5. /\ elp' \in [Rows -> [0 .. Behind -> Cells]] /\ elp'[0] = first /\ elp'[1] = second
      /\ \A row \in Rows : row # 0 /\ row # 1 => elp'[row] = elp[row]
  <2>1. PICK R : R = [0 .. Behind -> Cells] /\ first \in R /\ second \in R /\ elp \in [Rows -> R]
    BY <1>t, <1>3
  <2>2. elp' \in [Rows -> R]
    BY <1>2, <2>1
  <2>3. elp'[0] = first /\ elp'[1] = second
    BY <1>1, <1>2, <2>1
  <2>4. \A row \in Rows : row # 0 /\ row # 1 => elp'[row] = elp[row]
    BY <1>2, <2>1
  <2> QED
    BY <2>1, <2>2, <2>3, <2>4
<1>6. received \in IntWords /\ IndexSyndromes(synd, SynOf(received)) /\ HasError(received)
  BY <1>0, AllSyndromes
<1>7. PICK s \in SyndromeVectors : s = SynOf(received)
  BY <1>6, SynIs
<1>8. PICK a \in Symbol : a = s[1] /\ synd[1] = Log[a] /\ Log[a] \in IndexForm
  <2>1. s[1] \in Symbol /\ synd[1] = Log[s[1]]
    BY <1>1, <1>6, <1>7, Bounds DEF SyndromeVectors, IndexSyndromes
  <2> QED
    BY <2>1, LogIs
<1>9. /\ d' \in [0 .. nn - kk -> {Unset} \cup IndexForm] /\ d'[0] = 0 /\ d'[1] = Log[a]
      /\ l' \in [Rows -> {Unset} \cup 0 .. nn - kk] /\ l'[0] = 0 /\ l'[1] = 0
  <2> DEFINE S == {Unset} \cup IndexForm
             T == {Unset} \cup 0 .. nn - kk
  <2>1. 0 \in S /\ 0 \in T /\ synd[1] \in S /\ d \in [0 .. nn - kk -> S] /\ l \in [Rows -> T]
    BY <1>t, <1>1, <1>8, Bounds DEF IndexForm
  <2> HIDE DEF S, T
  <2>2. d' \in [0 .. nn - kk -> S] /\ l' \in [Rows -> T]
    BY <1>0, <2>1
  <2>3. d'[0] = 0 /\ d'[1] = synd[1] /\ l'[0] = 0 /\ l'[1] = 0
    BY <1>0, <1>1, <2>1
  <2> QED
    BY <1>8, <2>1, <2>2, <2>3 DEF S, T
<1>10. TypePart'
  BY <1>0, <1>1, <1>5, <1>9 DEF DecodeInv, TypePart, DecodeTypeOK
<1>11. PhasePart'
  BY <1>0 DEF DecodeInv, PhasePart
<1>12. WordPart'
  BY <1>0 DEF DecodeInv, WordPart
<1>13. SyndromePart'
  BY <1>0, <1>6 DEF SyndromePart
<1>14. BerlekampPart'
  <2> DEFINE p == [r \in 0 .. 1 |-> Constant]
  <2>1. p[0] = Constant /\ p[1] = Constant /\ \A r \in 0 .. 1 : r = 0 \/ r = 1
    OBVIOUS
  <2> HIDE DEF p
  <2>2. Row(0, Constant, 0, s) /\ Row(1, Constant, 0, s)
    BY ConstantIs, Bounds DEF Row
  <2>3. Gap(0, Constant, s) = One /\ Gap(1, Constant, s) = a
    BY <1>8, ConstantProduct, Bounds DEF Gap
  <2>4. Leads(1, 0, d', l')
    BY <1>9 DEF Leads
  <2>5. IndexRow(first, Constant, 0) /\ PolyRow(second, Constant, 0)
    BY <1>4, ConstantIs, LogOne, BitsOne DEF IndexRow, PolyRow
  <2>6. Tracks(1, p, elp', d', l', s)
    <3>1. 1 \in 1 .. Degree + 1
      BY Bounds
    <3>2. \A r \in 0 .. 1 : Row(r, p[r], l'[r], s)
      BY <1>9, <2>1, <2>2
    <3>3. \A r \in 0 .. 1 : d'[r] = Log[Gap(r, p[r], s)]
      BY <1>9, <2>1, <2>3, LogOne
    <3>4. \A r \in 0 .. 1 - 1 : r = 0 /\ l'[r] <= tt /\ IndexRow(elp'[r], p[r], l'[r])
      BY <1>5, <1>9, <2>1, <2>5, Bounds
    <3>5. PolyRow(elp'[1], p[1], l'[1])
      BY <1>5, <1>9, <2>1, <2>5
    <3> QED
      BY <1>9, <2>4, <3>1, <3>2, <3>3, <3>4, <3>5 DEF Tracks
  <2> QED
    BY <1>0, <1>7, <2>6 DEF BerlekampPart
<1>15. RootsPart' /\ AnswerPart'
  BY <1>0 DEF RootsPart, AnswerPart
<1>16. CellPart'
  <2> SUFFICES ASSUME ~OnlyLast(SynOf(received)), NEW row \in Rows
               PROVE  elp'[row][Behind] = Unset
    BY <1>0 DEF CellPart, ElpInBounds
  <2>1. \A r \in Rows : elp[r][Behind] = Unset
    BY DEF DecodeInv, CellPart, ElpInBounds
  <2> QED
    BY <1>1, <1>4, <1>5, <2>1
<1> QED
  BY <1>10, <1>11, <1>12, <1>13, <1>14, <1>15, <1>16 DEF DecodeInv

-----------------------------------------------------------------------------
(* Berlekamp's iterations *)

\* The next row leads.
LEMMA LeadsKept ==
  ASSUME NEW w \in Nat \ {0}, NEW n, NEW disc, NEW deg, Leads(w, n, disc, deg), disc[w] = -1
  PROVE  Leads(w + 1, n, disc, deg)
<1>1. \A x \in 0 .. w + 1 - 1 : x \in 0 .. w - 1 \/ x = w
  OBVIOUS
<1>2. \A x \in 0 .. w - 1 : x \in 0 .. w + 1 - 1
  OBVIOUS
<1> QED
  BY <1>1, <1>2 DEF Leads

\* With a discrepancy: the degree is the old one, or what the best earlier row has left.
LEMMA LeadsRaised ==
  ASSUME NEW w \in Nat \ {0}, NEW disc, NEW deg, \A x \in 0 .. w : deg[x] \in Nat,
         Leads(w, deg[w], disc, deg), disc[w] # -1,
         NEW N \in Nat, N = IF deg[w] > w - deg[w] THEN deg[w] ELSE w - deg[w]
  PROVE  Leads(w + 1, N, disc, deg)
<1>0. PICK n \in Nat : n = deg[w]
  OBVIOUS
<1>1. \A x \in 0 .. w + 1 - 1 : x \in 0 .. w - 1 \/ x = w
  OBVIOUS
<1>2. (\A x \in 0 .. w - 1 : x \in 0 .. w + 1 - 1) /\ w \in 0 .. w + 1 - 1
  OBVIOUS
<1>3. n <= N /\ w - n <= N
  BY <1>0
<1>4. \A x \in 0 .. w + 1 - 1 : disc[x] # -1 => x - deg[x] <= N
  <2> SUFFICES ASSUME NEW x \in 0 .. w + 1 - 1, disc[x] # -1 PROVE x - deg[x] <= N
    OBVIOUS
  <2>1. CASE x = w
    BY <1>0, <1>3, <2>1
  <2>2. CASE x # w
    <3>1. x \in 0 .. w - 1
      BY <1>1, <2>2
    <3>2. x - deg[x] <= n
      BY <1>0, <3>1 DEF Leads
    <3>3. deg[x] \in Nat /\ x \in Nat
      BY <3>1
    <3> QED
      BY <1>3, <3>2, <3>3
  <2> QED
    BY <2>1, <2>2
<1>5. \E q \in 0 .. w + 1 - 1 : disc[q] # -1 /\ N = q - deg[q]
  <2>1. CASE N = n
    <3>1. PICK q \in 0 .. w - 1 : disc[q] # -1 /\ n = q - deg[q]
      BY <1>0 DEF Leads
    <3> QED
      BY <1>2, <2>1, <3>1
  <2>2. CASE N = w - n
    BY <1>0, <1>2, <2>2
  <2> QED
    BY <1>0, <2>1, <2>2
<1> QED
  BY <1>4, <1>5 DEF Leads

\* The row Best finds has the degree of the newest one left.
LEMMA BestLeads ==
  ASSUME NEW w \in Nat \ {0}, NEW n, Leads(w, n, d, l), NEW q, IsBest(q, w),
         \A x \in 0 .. w - 1 : l[x] \in Nat
  PROVE  q - l[q] = n /\ q \in 0 .. w - 1 /\ d[q] # -1
<1>1. PICK x \in 0 .. w - 1 : d[x] # -1 /\ n = x - l[x]
  BY DEF Leads
<1>2. q \in 0 .. w - 1 /\ d[q] # -1 /\ (Lead(x) < Lead(q) \/ (Lead(x) = Lead(q) /\ x <= q))
  BY <1>1 DEF IsBest
<1>3. q - l[q] <= n
  BY <1>2 DEF Leads
<1>4. l[q] \in Nat /\ l[x] \in Nat /\ q \in Nat /\ x \in Nat
  BY <1>1, <1>2
<1>5. x - l[x] <= q - l[q]
  BY <1>2, <1>4 DEF Lead
<1> QED
  BY <1>1, <1>2, <1>3, <1>4, <1>5

\* Types of what the iterations read.
LEMMA BerlekampTypes ==
  ASSUME DecodeInv
  PROVE  /\ elp \in [Rows -> [0 .. Behind -> Cells]]
         /\ d \in [0 .. Degree -> {Unset} \cup IndexForm]
         /\ l \in [Rows -> {Unset} \cup 0 .. Degree]
         /\ u \in Rows
BY Bounds DEF DecodeInv, TypePart, DecodeTypeOK

\* The newest row in index form.
LEMMA RowConverted ==
  ASSUME NEW row \in [0 .. Behind -> Cells], NEW p, NEW n \in 0 .. Degree - 1, p \in Polynomial,
         PolyRow(row, p, n)
  PROVE  /\ RowToIndex(row, n) \in [0 .. Behind -> Cells]
         /\ RowToIndex(row, n)[Behind] = row[Behind]
         /\ IndexRow(RowToIndex(row, n), p, n)
         /\ \A x \in 1 .. n : RowToIndex(row, n)[x] = Log[p[x]]
<1>1. IndexRow(RowToIndex(row, n), p, n)
  BY RowToIndexIs
<1>2. n \in Nat /\ n < Degree /\ Behind = Degree /\ Degree \in Nat
  BY Bounds
<1>3. ASSUME NEW x \in 0 .. Behind PROVE (IF x <= n THEN IndexOf[row[x]] ELSE row[x]) \in Cells
  <2>1. CASE x <= n
    <3>1. x \in 0 .. Degree /\ x \in 0 .. n /\ x < Degree
      BY <1>2, <2>1
    <3>2. p[x] \in Symbol /\ row[x] = Number(p[x])
      BY <3>1, PolynomialAt DEF PolyRow
    <3> QED
      BY <2>1, <3>2, LogIs DEF Cells
  <2> QED
    BY <2>1
<1>4. RowToIndex(row, n) \in [0 .. Behind -> Cells]
  BY <1>3 DEF RowToIndex
<1>5. RowToIndex(row, n)[Behind] = row[Behind]
  BY <1>2 DEF RowToIndex
<1>6. \A x \in 1 .. n : RowToIndex(row, n)[x] = Log[p[x]]
  BY <1>1, <1>2 DEF IndexRow
<1> QED
  BY <1>1, <1>4, <1>5, <1>6

\* The loop goes on only while the degree is at most tt.
LEMMA InBerlekampIs ==
  ASSUME DecodeInv, InBerlekamp, NEW p, NEW s, Tracks(u, p, elp, d, l, s)
  PROVE  /\ u \in 1 .. Degree /\ u \in Nat \ {0} /\ u \in Rows /\ u + 1 \in Rows
         /\ \A r \in 0 .. u : r \in Rows /\ r \in 0 .. Degree /\ l[r] \in Nat /\ l[r] <= tt /\ l[r] \in 0 .. Degree - 1
<1>1. u \in 1 .. Degree /\ u \in Nat \ {0} /\ u \in Rows /\ u + 1 \in Rows
  BY Bounds DEF Tracks, InBerlekamp
<1>2. \A r \in 0 .. u : Row(r, p[r], l[r], s)
  BY DEF Tracks
<1>3. ASSUME NEW r \in 0 .. u PROVE l[r] <= tt /\ l[r] \in Nat
  <2>1. l[r] \in Nat /\ l[r] <= IF r = 0 THEN 0 ELSE r - 1
    BY <1>2 DEF Row
  <2>2. CASE r = u /\ u # 1
    BY <2>1, <2>2 DEF InBerlekamp
  <2>3. CASE r = u /\ u = 1
    BY <2>1, <2>3, Bounds
  <2>4. CASE r # u
    <3>1. r \in 0 .. u - 1
      BY <1>1, <2>4
    <3> QED
      BY <2>1, <3>1 DEF Tracks
  <2> QED
    BY <2>2, <2>3, <2>4
<1>4. ASSUME NEW r \in 0 .. u PROVE r \in Rows /\ r \in 0 .. Degree /\ l[r] \in 0 .. Degree - 1
  <2>1. l[r] <= tt /\ l[r] \in Nat
    BY <1>3
  <2> QED
    BY <1>1, <2>1, Bounds
<1> QED
  BY <1>1, <1>3, <1>4

\* Leads depends on the rows before only.
LEMMA LeadsSame ==
  ASSUME NEW w \in Nat, NEW n, NEW disc, NEW deg, NEW disc2, NEW deg2, Leads(w, n, disc, deg),
         \A x \in 0 .. w - 1 : disc[x] = disc2[x] /\ deg[x] = deg2[x]
  PROVE  Leads(w, n, disc2, deg2)
BY DEF Leads

\* An iteration that forms the next row q of degree N keeps the invariant.
LEMMA IteratedInv ==
  ASSUME DecodeInv, InBerlekamp, NEW s \in SyndromeVectors, s = SynOf(received),
         NEW p, Tracks(u, p, elp, d, l, s),
         NEW row \in [0 .. Behind -> Cells], NEW q, NEW N, Row(u + 1, q, N, s), PolyRow(row, q, N),
         Leads(u + 1, N, d, l),
         ~OnlyLast(s) => row[Behind] = Unset,
         Iterated(row, N)
  PROVE  DecodeInv'
<1> DEFINE old == RowToIndex(elp[u], l[u])
           new == Discrepancy(row, N)
<1>t. /\ elp \in [Rows -> [0 .. Behind -> Cells]]
      /\ d \in [0 .. Degree -> {Unset} \cup IndexForm]
      /\ l \in [Rows -> {Unset} \cup 0 .. Degree]
  BY BerlekampTypes
<1>u. /\ u \in 1 .. Degree /\ u \in Nat \ {0} /\ u \in Rows /\ u + 1 \in Rows
      /\ \A r \in 0 .. u : r \in Rows /\ r \in 0 .. Degree /\ l[r] \in Nat /\ l[r] <= tt /\ l[r] \in 0 .. Degree - 1
  BY InBerlekampIs
<1>0. /\ decodePc = "berlekamp" /\ decodePc' = decodePc /\ received' = received /\ recd' = recd
      /\ synd' = synd /\ result' = result /\ u' = u + 1
      /\ reg' = reg /\ root' = root /\ z' = z /\ decodeRound' = decodeRound
  BY DEF InBerlekamp, Iterated, correctionVars
<1>1. /\ elp' = [elp EXCEPT ![u] = old, ![u + 1] = row]
      /\ l' = [l EXCEPT ![u + 1] = N]
      /\ d' = IF u < Degree THEN [d EXCEPT ![u + 1] = new] ELSE d
  BY Bounds DEF Iterated
<1>2. /\ N \in 0 .. Degree /\ N \in Nat /\ q \in Polynomial
  BY Bounds DEF Row
<1>3. /\ p[u] \in Polynomial /\ PolyRow(elp[u], p[u], l[u]) /\ u \in 0 .. u
  BY <1>u DEF Tracks, Row
<1>4. old \in [0 .. Behind -> Cells] /\ old[Behind] = elp[u][Behind] /\ IndexRow(old, p[u], l[u])
  <2>1. elp[u] \in [0 .. Behind -> Cells] /\ l[u] \in 0 .. Degree - 1
    BY <1>t, <1>u, <1>3
  <2> QED
    BY <1>3, <2>1, RowConverted
<1>5. u < Degree => new = Log[Gap(u + 1, q, s)] /\ new \in IndexForm
  <2> SUFFICES ASSUME u < Degree PROVE new = Log[Gap(u + 1, q, s)] /\ new \in IndexForm
    OBVIOUS
  <2>1. IndexSyndromes(synd, s)
    BY <1>0 DEF DecodeInv, SyndromePart
  <2>2. u \in 1 .. Degree - 1
    BY <1>u, Bounds
  <2> QED
    BY <2>1, <2>2, DiscrepancyIs
<1> HIDE DEF old, new
<1>6. /\ elp' \in [Rows -> [0 .. Behind -> Cells]] /\ elp'[u] = old /\ elp'[u + 1] = row
      /\ \A r \in Rows : r # u /\ r # u + 1 => elp'[r] = elp[r]
  <2>1. PICK R : R = [0 .. Behind -> Cells] /\ old \in R /\ row \in R /\ elp \in [Rows -> R]
    BY <1>t, <1>4
  <2>2. elp' \in [Rows -> R]
    BY <1>1, <2>1
  <2>3. elp'[u] = old /\ elp'[u + 1] = row
    BY <1>1, <1>u, <2>1
  <2>4. \A r \in Rows : r # u /\ r # u + 1 => elp'[r] = elp[r]
    BY <1>1, <2>1
  <2> QED
    BY <2>1, <2>2, <2>3, <2>4
<1>7. /\ l' \in [Rows -> {Unset} \cup 0 .. Degree] /\ l'[u + 1] = N
      /\ \A r \in 0 .. u : l'[r] = l[r]
  <2> DEFINE S == {Unset} \cup 0 .. Degree
  <2>1. N \in S /\ l \in [Rows -> S]
    BY <1>t, <1>2
  <2> HIDE DEF S
  <2>2. l' \in [Rows -> S] /\ l'[u + 1] = N
    BY <1>1, <1>u, <2>1
  <2>3. \A r \in 0 .. u : r # u + 1 /\ r \in Rows
    BY <1>u
  <2>4. \A r \in 0 .. u : l'[r] = l[r]
    BY <1>1, <2>1, <2>3
  <2> QED
    BY <2>2, <2>4 DEF S
<1>8. /\ d' \in [0 .. Degree -> {Unset} \cup IndexForm]
      /\ u < Degree => d'[u + 1] = Log[Gap(u + 1, q, s)]
      /\ \A r \in 0 .. u : d'[r] = d[r]
  <2> DEFINE S == {Unset} \cup IndexForm
  <2>1. d \in [0 .. Degree -> S] /\ (u < Degree => new \in S)
    BY <1>t, <1>5
  <2> HIDE DEF S
  <2>2. d' \in [0 .. Degree -> S]
    BY <1>1, <2>1
  <2>3. u < Degree => u + 1 \in 0 .. Degree
    BY <1>u, Bounds
  <2>4. u < Degree => d'[u + 1] = new
    BY <1>1, <2>1, <2>3
  <2>5. \A r \in 0 .. u : r # u + 1 /\ r \in 0 .. Degree
    BY <1>u
  <2>6. \A r \in 0 .. u : d'[r] = d[r]
    BY <1>1, <2>1, <2>5
  <2> QED
    BY <1>5, <2>2, <2>4, <2>6 DEF S
<1>9. TypePart'
  BY <1>0, <1>u, <1>6, <1>7, <1>8, Bounds DEF DecodeInv, TypePart, DecodeTypeOK
<1>10. PhasePart' /\ WordPart' /\ SyndromePart'
  BY <1>0 DEF DecodeInv, PhasePart, WordPart, SyndromePart
<1>11. BerlekampPart'
  <2> DEFINE pp2 == [r \in 0 .. u + 1 |-> IF r = u + 1 THEN q ELSE p[r]]
             w == u + 1
  <2>0. /\ w \in 1 .. Degree + 1 /\ w \in Nat
        /\ \A r \in 0 .. w : r = u + 1 \/ r \in 0 .. u
        /\ \A r \in 0 .. w - 1 : r \in 0 .. u
        /\ \A r \in 0 .. u : r # u + 1 /\ (r = u \/ r \in 0 .. u - 1) /\ (r \in 0 .. u - 1 => r # u)
    BY <1>u, Bounds
  <2>1. pp2[u + 1] = q /\ \A r \in 0 .. u : pp2[r] = p[r]
    BY <1>u
  <2> HIDE DEF pp2
  <2>2. \A r \in 0 .. w : Row(r, pp2[r], l'[r], s)
    <3>1. \A r \in 0 .. u : Row(r, p[r], l[r], s)
      BY DEF Tracks
    <3> QED
      BY <1>7, <2>0, <2>1, <3>1
  <2>3. \A r \in 0 .. w : r <= Degree => d'[r] = Log[Gap(r, pp2[r], s)]
    <3> SUFFICES ASSUME NEW r \in 0 .. w, r <= Degree PROVE d'[r] = Log[Gap(r, pp2[r], s)]
      OBVIOUS
    <3>1. CASE r = u + 1
      <4>1. u < Degree
        BY <1>u, <3>1, Bounds
      <4> QED
        BY <1>8, <2>1, <3>1, <4>1
    <3>2. CASE r \in 0 .. u
      <4>1. d[r] = Log[Gap(r, p[r], s)]
        BY <3>2 DEF Tracks
      <4> QED
        BY <1>8, <2>1, <3>2, <4>1
    <3> QED
      BY <2>0, <3>1, <3>2
  <2>4. \A r \in 0 .. w - 1 : l'[r] <= tt /\ IndexRow(elp'[r], pp2[r], l'[r])
    <3> SUFFICES ASSUME NEW r \in 0 .. w - 1 PROVE l'[r] <= tt /\ IndexRow(elp'[r], pp2[r], l'[r])
      OBVIOUS
    <3>1. r \in 0 .. u /\ r # u + 1 /\ r \in Rows /\ l'[r] = l[r] /\ pp2[r] = p[r] /\ l[r] <= tt
      BY <1>u, <1>7, <2>0, <2>1
    <3>2. CASE r = u
      BY <1>4, <1>6, <3>1, <3>2
    <3>3. CASE r # u
      <4>1. r \in 0 .. u - 1
        BY <2>0, <3>1, <3>3
      <4>2. IndexRow(elp[r], p[r], l[r])
        BY <4>1 DEF Tracks
      <4> QED
        BY <1>6, <3>1, <3>3, <4>2
    <3> QED
      BY <3>2, <3>3
  <2>5. PolyRow(elp'[w], pp2[w], l'[w])
    BY <1>6, <1>7, <2>1
  <2>6. Leads(w, l'[w], d', l')
    <3>1. \A x \in 0 .. w - 1 : d[x] = d'[x] /\ l[x] = l'[x]
      BY <1>7, <1>8, <2>0
    <3>2. Leads(w, N, d', l')
      BY <2>0, <3>1, LeadsSame
    <3> QED
      BY <1>7, <3>2
  <2>7. Tracks(w, pp2, elp', d', l', s)
    BY <2>0, <2>2, <2>3, <2>4, <2>5, <2>6 DEF Tracks
  <2> QED
    BY <1>0, <2>7 DEF BerlekampPart
<1>12. RootsPart' /\ AnswerPart'
  BY <1>0 DEF RootsPart, AnswerPart
<1>13. CellPart'
  <2> SUFFICES ASSUME ~OnlyLast(s), NEW r \in Rows PROVE elp'[r][Behind] = Unset
    BY <1>0 DEF CellPart, ElpInBounds
  <2>1. \A x \in Rows : elp[x][Behind] = Unset
    BY DEF DecodeInv, CellPart, ElpInBounds
  <2>2. row[Behind] = Unset
    OBVIOUS
  <2> QED
    BY <1>u, <1>4, <1>6, <2>1, <2>2
<1> QED
  BY <1>9, <1>10, <1>11, <1>12, <1>13 DEF DecodeInv

\* The syndromes while the algorithm runs, and the polynomials it has so far.
LEMMA InPhase ==
  ASSUME DecodeInv, decodePc = "berlekamp"
  PROVE  \E s, p : /\ s \in SyndromeVectors /\ s = SynOf(received) /\ IndexSyndromes(synd, s)
                   /\ Tracks(u, p, elp, d, l, s)
<1>1. received \in IntWords
  BY DEF DecodeInv, WordPart
<1>2. SynOf(received) \in SyndromeVectors
  BY <1>1, SynIs
<1>3. IndexSyndromes(synd, SynOf(received))
  BY DEF DecodeInv, SyndromePart
<1>4. \E p : Tracks(u, p, elp, d, l, SynOf(received))
  BY DEF DecodeInv, BerlekampPart
<1> QED
  BY <1>2, <1>3, <1>4

\* A row with a discrepancy has one that is not zero.
LEMMA GapIs ==
  ASSUME NEW s \in SyndromeVectors, NEW r \in 0 .. Degree, NEW p, NEW n, Row(r, p, n, s)
  PROVE  Gap(r, p, s) \in Symbol /\ (Log[Gap(r, p, s)] = -1 <=> Gap(r, p, s) = {})
<1>1. p \in Polynomial /\ r \in Int
  BY Bounds DEF Row
<1>2. Gap(r, p, s) \in Symbol
  BY <1>1, ProductType, Widths DEF Gap
<1> QED
  BY <1>2, LogIs

\* Without a discrepancy the row is the next one.
LEMMA KeepPolynomialInv ==
  ASSUME DecodeInv, KeepPolynomial
  PROVE  DecodeInv'
<1> DEFINE row == [x \in 0 .. Behind |-> IF x <= l[u] THEN elp[u][x] ELSE elp[u + 1][x]]
<1>1. PICK s, p : /\ s \in SyndromeVectors /\ s = SynOf(received) /\ IndexSyndromes(synd, s)
                  /\ Tracks(u, p, elp, d, l, s)
  BY InPhase DEF KeepPolynomial, InBerlekamp
<1>2. InBerlekamp /\ d[u] = -1 /\ Iterated(row, l[u])
  BY DEF KeepPolynomial
<1>u. /\ u \in 1 .. Degree /\ u \in Nat \ {0} /\ u \in Rows /\ u + 1 \in Rows
      /\ \A r \in 0 .. u : r \in Rows /\ r \in 0 .. Degree /\ l[r] \in Nat /\ l[r] <= tt /\ l[r] \in 0 .. Degree - 1
  BY <1>1, <1>2, InBerlekampIs
<1>t. /\ elp \in [Rows -> [0 .. Behind -> Cells]]
  BY BerlekampTypes
<1>3. u \in 0 .. u /\ u <= Degree /\ u \in 0 .. Degree /\ l[u] \in Nat /\ l[u] < Behind
  BY <1>u, Bounds
<1>4. Row(u, p[u], l[u], s) /\ d[u] = Log[Gap(u, p[u], s)] /\ PolyRow(elp[u], p[u], l[u])
      /\ Leads(u, l[u], d, l)
  BY <1>1, <1>3 DEF Tracks
<1>5. Gap(u, p[u], s) = {}
  BY <1>1, <1>2, <1>3, <1>4, GapIs
<1>6. Row(u + 1, p[u], l[u], s)
  BY <1>u, <1>4, <1>5, RowKept
<1>7. row \in [0 .. Behind -> Cells] /\ row[Behind] = elp[u + 1][Behind]
  BY <1>u, <1>t, <1>3, Bounds
<1>8. PolyRow(row, p[u], l[u])
  <2>1. \A x \in 0 .. l[u] : x \in 0 .. Behind /\ row[x] = elp[u][x]
    BY <1>3, Bounds
  <2> HIDE DEF row
  <2> QED
    BY <1>4, <2>1 DEF PolyRow
<1>9. Leads(u + 1, l[u], d, l)
  BY <1>u, <1>2, <1>4, LeadsKept
<1>10. ~OnlyLast(s) => row[Behind] = Unset
  BY <1>u, <1>1, <1>7 DEF DecodeInv, CellPart, ElpInBounds
<1> HIDE DEF row
<1> QED
  BY <1>1, <1>2, <1>6, <1>7, <1>8, <1>9, <1>10, IteratedInv

\* The cells of the sum are symbols, and the one behind is written only if the degree
\* reaches it.
LEMMA CorrectedType ==
  ASSUME u \in Nat \ {0}, u + 1 \in Rows, elp \in [Rows -> [0 .. Behind -> Cells]],
         NEW q \in 0 .. u - 1, d[u] \in Int, d[q] \in Int,
         l[u] \in Nat, l[u] < Behind, l[q] \in Nat, l[q] < Behind,
         NEW pu \in Polynomial, PolyRow(elp[u], pu, l[u]),
         NEW pq \in Polynomial, IndexRow(elp[q], pq, l[q])
  PROVE  /\ Corrected(q) \in [0 .. Behind -> Cells]
         /\ l[q] + u - q < Degree => Corrected(q)[Behind] = elp[u + 1][Behind]
<1> DEFINE from(x) == x - (u - q)
           term(x) == IF from(x) \in 0 .. l[q] /\ elp[q][from(x)] # -1
                      THEN AlphaTo[(d[u] + nn - d[q] + elp[q][from(x)]) % nn]
                      ELSE IF x = Behind THEN elp[u + 1][x] ELSE 0
<1>0. Behind = Degree /\ Degree \in Nat /\ u \in Nat /\ q \in Nat /\ q < u /\ nn \in Nat \ {0}
  <2>1. Behind = Degree
    BY DEF Behind, Degree
  <2>3. Degree \in Nat /\ nn \in Nat \ {0}
    BY Widths, DegreeIs
  <2>2. u \in Nat /\ q \in Nat /\ q < u
    OBVIOUS
  <2> QED
    BY <2>1, <2>2, <2>3
<1>1. ASSUME NEW x \in 0 .. Behind, from(x) \in 0 .. l[q], elp[q][from(x)] # -1
      PROVE  AlphaTo[(d[u] + nn - d[q] + elp[q][from(x)]) % nn] \in PolyForm
  <2>1. from(x) \in 0 .. Degree /\ from(x) < Degree
    BY <1>0, <1>1
  <2>2. elp[q][from(x)] = Log[pq[from(x)]] /\ pq[from(x)] \in Symbol
    BY <1>1, <2>1, PolynomialAt DEF IndexRow
  <2>3. Log[pq[from(x)]] \in IndexForm
    BY <2>2, LogIs
  <2>a. PICK v \in Int : v = elp[q][from(x)]
    BY <1>0, <2>2, <2>3 DEF IndexForm
  <2>b. PICK a, b : a \in Int /\ b \in Int /\ a = d[u] /\ b = d[q]
    OBVIOUS
  <2>c. a + nn - b + v \in Int
    BY <1>0, <2>b
  <2>4. PICK y \in Int : y = d[u] + nn - d[q] + elp[q][from(x)]
    BY <2>a, <2>b, <2>c
  <2>5. y % nn \in 0 .. nn - 1
    BY <1>0, <2>4
  <2> QED
    BY <2>4, <2>5, AlphaToIs
<1>z. 0 \in PolyForm
  BY Bounds DEF PolyForm
<1> HIDE DEF from
<1>2. ASSUME NEW x \in 0 .. Behind, x # Behind PROVE term(x) \in PolyForm
  BY <1>1, <1>2, <1>z
<1>3. ASSUME NEW x \in 0 .. Behind PROVE term(x) \in Cells
  <2>1. elp[u + 1][x] \in Cells
    OBVIOUS
  <2>2. PolyForm \subseteq Cells
    BY DEF Cells
  <2> QED
    BY <1>1, <1>z, <2>1, <2>2
<1>4. ASSUME NEW x \in 0 .. Behind, x <= l[u] PROVE term(x) ^^ elp[u][x] \in Cells
  <2>1. x \in 0 .. Degree /\ x \in 0 .. l[u] /\ x < Degree /\ x # Behind
    BY <1>0, <1>4
  <2>2. elp[u][x] = Number(pu[x]) /\ pu[x] \in Symbol
    BY <2>1, PolynomialAt DEF PolyRow
  <2>3. elp[u][x] \in PolyForm
    BY <2>2, NumberType
  <2>4. term(x) \in PolyForm
    BY <1>2, <2>1
  <2> HIDE DEF term
  <2> QED
    BY <2>3, <2>4, FormTypes DEF Cells
<1>5. Corrected(q) = [x \in 0 .. Behind |-> IF x <= l[u] THEN term(x) ^^ elp[u][x] ELSE term(x)]
  BY DEF Corrected, from
<1>6. l[q] + u - q < Degree => term(Behind) = elp[u + 1][Behind]
  BY <1>0 DEF from
<1> HIDE DEF term
<1>7. Corrected(q) \in [0 .. Behind -> Cells]
  BY <1>3, <1>4, <1>5
<1>8. Corrected(q)[Behind] = term(Behind)
  BY <1>0, <1>5
<1> QED
  BY <1>6, <1>7, <1>8

\* With one the row corrected by an earlier row, the one with the greatest lead, is.
LEMMA NewPolynomialInv ==
  ASSUME DecodeInv, NewPolynomial
  PROVE  DecodeInv'
<1>1. PICK s, p : /\ s \in SyndromeVectors /\ s = SynOf(received) /\ IndexSyndromes(synd, s)
                  /\ Tracks(u, p, elp, d, l, s)
  BY InPhase DEF NewPolynomial, InBerlekamp
<1>2. InBerlekamp /\ d[u] # -1
  BY DEF NewPolynomial
<1>q. PICK q : q = Best(u) /\ Iterated(Corrected(q), IF l[u] > l[q] + u - q THEN l[u] ELSE l[q] + u - q)
  BY DEF NewPolynomial
<1>u. /\ u \in 1 .. Degree /\ u \in Nat \ {0} /\ u \in Rows /\ u + 1 \in Rows
      /\ \A r \in 0 .. u : r \in Rows /\ r \in 0 .. Degree /\ l[r] \in Nat /\ l[r] <= tt /\ l[r] \in 0 .. Degree - 1
  BY <1>1, <1>2, InBerlekampIs
<1>t. elp \in [Rows -> [0 .. Behind -> Cells]]
  BY BerlekampTypes
<1>3. u \in 0 .. u /\ 0 \in 0 .. u /\ 0 <= Degree /\ u <= Degree /\ u \in 0 .. Degree
  BY <1>u, Bounds
<1>4. Row(u, p[u], l[u], s) /\ d[u] = Log[Gap(u, p[u], s)] /\ PolyRow(elp[u], p[u], l[u])
      /\ Leads(u, l[u], d, l) /\ d[0] = Log[Gap(0, p[0], s)]
  BY <1>1, <1>3 DEF Tracks
<1>5. d[0] # -1
  BY <1>4, LogOne DEF Gap
<1>6. \A x \in 0 .. u - 1 : x \in 0 .. u /\ l[x] \in Int /\ l[x] \in Nat
  BY <1>u
<1>7. IsBest(q, u)
  BY <1>u, <1>q, <1>5, <1>6, BestIs
<1>8. q - l[q] = l[u] /\ q \in 0 .. u - 1 /\ d[q] # -1
  BY <1>u, <1>4, <1>6, <1>7, BestLeads
<1>9. q \in 0 .. u /\ q \in Nat /\ q <= Degree /\ l[q] \in Nat /\ l[u] \in Nat /\ l[q] \in 0 .. Degree - 1
      /\ l[u] \in 0 .. Degree - 1 /\ l[u] < Behind /\ l[q] < Behind
  BY <1>u, <1>3, <1>8, Bounds
<1>10. Row(q, p[q], l[q], s) /\ IndexRow(elp[q], p[q], l[q]) /\ d[q] = Log[Gap(q, p[q], s)]
  BY <1>1, <1>8, <1>9 DEF Tracks
<1>11. PICK N : N = IF l[u] > l[q] + u - q THEN l[u] ELSE l[q] + u - q
  OBVIOUS
<1>12. N \in Nat /\ N = (IF l[u] > u - l[u] THEN l[u] ELSE u - l[u]) /\ l[q] + u - q = u - l[u]
  BY <1>u, <1>8, <1>9, <1>11
<1>13. PICK pn : Row(u + 1, pn, N, s) /\ PolyRow(Corrected(q), pn, N)
  BY <1>u, <1>1, <1>2, <1>4, <1>8, <1>10, <1>11, CorrectedIs
<1>14. Leads(u + 1, N, d, l)
  BY <1>u, <1>2, <1>4, <1>12, LeadsRaised
<1>15. /\ Corrected(q) \in [0 .. Behind -> Cells]
       /\ l[q] + u - q < Degree => Corrected(q)[Behind] = elp[u + 1][Behind]
  <2>1. p[u] \in Polynomial /\ p[q] \in Polynomial
    BY <1>4, <1>10 DEF Row
  <2>2. \A r \in 0 .. Degree : Gap(r, p[r], s) \in Symbol => Log[Gap(r, p[r], s)] \in Int
    BY LogIs, Bounds DEF IndexForm
  <2>3. d[u] \in Int /\ d[q] \in Int
    BY <1>1, <1>3, <1>4, <1>9, <1>10, <2>2, GapIs
  <2> QED
    BY <1>u, <1>t, <1>4, <1>8, <1>9, <1>10, <2>1, <2>3, CorrectedType
<1>16. ~OnlyLast(s) => Corrected(q)[Behind] = Unset
  <2> SUFFICES ASSUME ~OnlyLast(s) PROVE Corrected(q)[Behind] = Unset
    OBVIOUS
  <2>1. Gap(u, p[u], s) # {}
    BY <1>1, <1>2, <1>3, <1>4, GapIs
  <2>2. ASSUME u - l[u] >= Degree PROVE FALSE
    <3>1. u = Degree /\ l[u] = 0
      BY <1>u, <1>9, <2>2, Bounds
    <3> QED
      BY <1>1, <1>4, <2>1, <3>1, OnlyLastIs
  <2>3. l[q] + u - q < Degree
    BY <1>u, <1>9, <1>12, <2>2, Bounds
  <2>4. elp[u + 1][Behind] = Unset
    BY <1>u, <1>1 DEF DecodeInv, CellPart, ElpInBounds
  <2> QED
    BY <1>15, <2>3, <2>4
<1>17. Iterated(Corrected(q), N)
  BY <1>q, <1>11
<1> QED
  BY <1>1, <1>2, <1>13, <1>14, <1>15, <1>16, <1>17, IteratedInv

\* The degree is no more than the number of errors (Massey).
LEMMA ShortIs ==
  ASSUME NEW s \in SyndromeVectors, NEW w, NEW p, NEW rows, NEW disc, NEW deg,
         Tracks(w, p, rows, disc, deg, s)
  PROVE  Short(deg[w], s)
<1> SUFFICES ASSUME NEW m \in Nat, ErrorsBelow(m, s) PROVE deg[w] <= m
  BY DEF Short
<1>1. PICK e : Explains(e, s) /\ Cardinality(Support(e)) <= m
  BY DEF ErrorsBelow
<1>2. w \in 1 .. Degree + 1 /\ w \in Nat
  BY Bounds DEF Tracks
<1>3. PICK q \in 0 .. w - 1 : disc[q] # -1 /\ deg[w] = q - deg[q]
  BY DEF Tracks, Leads
<1>4. q \in 0 .. w /\ q <= Degree /\ q \in 0 .. Degree /\ q \in Nat
  BY <1>2, Bounds
<1>5. Row(q, p[q], deg[q], s) /\ disc[q] = Log[Gap(q, p[q], s)]
  BY <1>4 DEF Tracks
<1>6. Gap(q, p[q], s) # {}
  BY <1>3, <1>4, <1>5, GapIs
<1>7. CASE q = 0
  <2>1. deg[0] \in Nat /\ deg[0] <= 0
    BY <1>5, <1>7, Bounds DEF Row
  <2> QED
    BY <1>3, <1>7, <2>1
<1>8. CASE q # 0
  <2>1. q \in 1 .. Degree
    BY <1>4, <1>8
  <2>2. q - deg[q] <= m
    BY <1>1, <1>5, <1>6, <2>1, LengthBound
  <2> QED
    BY <1>3, <2>2
<1> QED
  BY <1>7, <1>8

\* A degree above tt shows that there are more errors.
LEMMA TooManyErrorsInv ==
  ASSUME DecodeInv, TooManyErrors
  PROVE  DecodeInv'
<1>0. /\ decodePc = "berlekamp" /\ l[u] > tt /\ recd' = PolyOf(recd)
      /\ result' = 3 /\ decodePc' = "done" /\ u' = u /\ synd' = synd
      /\ received' = received /\ elp' = elp /\ d' = d /\ l' = l
      /\ reg' = reg /\ root' = root /\ z' = z /\ decodeRound' = decodeRound
  BY DEF TooManyErrors, BerlekampDone, Finish, berlekampVars, correctionVars
<1>1. received \in IntWords /\ recd = IndexWord(received)
  BY <1>0 DEF DecodeInv, WordPart
<1>2. recd' = received
  BY <1>0, <1>1, PolyOfIs
<1>3. TypePart'
  <2>1. recd' \in [0 .. nn - 1 -> IndexForm \cup PolyForm]
    BY <1>1, <1>2 DEF IntWords
  <2> QED
    BY <1>0, <2>1 DEF DecodeInv, TypePart, DecodeTypeOK
<1>4. PhasePart'
  BY <1>0 DEF DecodeInv, PhasePart
<1>5. WordPart'
  BY <1>0, <1>1, <1>2 DEF WordPart
<1>6. SyndromePart'
  BY <1>0 DEF DecodeInv, SyndromePart
<1>7. BerlekampPart' /\ RootsPart'
  BY <1>0 DEF BerlekampPart, RootsPart
<1>8. AnswerPart'
  <2>1. PICK s, p : s \in SyndromeVectors /\ s = SynOf(received) /\ Tracks(u, p, elp, d, l, s)
    BY <1>0, InPhase
  <2>2. Short(l[u], s)
    BY <2>1, ShortIs
  <2>3. l[u] \in Nat
    <3>1. u \in 0 .. u
      BY <2>1, Bounds DEF Tracks
    <3> QED
      BY <2>1, <3>1, Bounds DEF Tracks, Row
  <2>4. ~ErrorsBelow(tt, s)
    BY <1>0, <2>2, <2>3, Bounds DEF Short
  <2> QED
    BY <1>0, <2>1, <2>4 DEF AnswerPart
<1>9. CellPart'
  BY <1>0 DEF DecodeInv, CellPart, ElpInBounds
<1> QED
  BY <1>3, <1>4, <1>5, <1>6, <1>7, <1>8, <1>9 DEF DecodeInv

\* The search begins with the last row, the terms of which are in reg[].
LEMMA StartRootsInv ==
  ASSUME DecodeInv, StartRoots
  PROVE  DecodeInv'
<1> DEFINE row == RowToIndex(elp[u], l[u])
<1>0. /\ decodePc = "berlekamp" /\ l[u] <= tt /\ u > 1 /\ (u > nn - kk \/ l[u] > tt)
      /\ elp' = [elp EXCEPT ![u] = row] /\ reg' = [x \in 1 .. l[u] |-> row[x]]
      /\ decodePc' = "roots" /\ received' = received /\ recd' = recd /\ synd' = synd /\ u' = u
      /\ d' = d /\ l' = l /\ root' = root /\ z' = z /\ decodeRound' = decodeRound /\ result' = result
  BY DEF StartRoots, BerlekampDone
<1>1. PICK s, p : s \in SyndromeVectors /\ s = SynOf(received) /\ Tracks(u, p, elp, d, l, s)
  BY <1>0, InPhase
<1>t. elp \in [Rows -> [0 .. Behind -> Cells]] /\ u \in Rows
  BY BerlekampTypes
<1>2. Row(u, p[u], l[u], s) /\ PolyRow(elp[u], p[u], l[u])
  <2>1. u \in 0 .. u
    BY <1>1, Bounds DEF Tracks
  <2> QED
    BY <1>1, <2>1 DEF Tracks
<1>3. PICK n : n = l[u] /\ n \in Nat /\ n \in 0 .. tt /\ n \in 0 .. Degree - 1 /\ n \in 0 .. Degree
  <2>1. l[u] \in Nat
    BY <1>2, Bounds DEF Row
  <2> QED
    BY <1>0, <2>1, Bounds
<1>4. u = Degree + 1
  <2>1. u > Degree
    BY <1>0, <1>3, Bounds
  <2> QED
    BY <1>t, <2>1, Bounds
<1>5. p[u] \in Polynomial
  BY <1>2 DEF Row
<1>6. /\ row \in [0 .. Behind -> Cells] /\ row[Behind] = elp[u][Behind]
      /\ IndexRow(row, p[u], n) /\ \A x \in 1 .. n : row[x] = Log[p[u][x]]
  BY <1>t, <1>2, <1>3, <1>5, RowConverted
<1> HIDE DEF row
<1>7. /\ elp' \in [Rows -> [0 .. Behind -> Cells]] /\ elp'[u] = row
      /\ \A r \in Rows : r # u => elp'[r] = elp[r]
  <2>1. PICK R : R = [0 .. Behind -> Cells] /\ row \in R /\ elp \in [Rows -> R]
    BY <1>t, <1>6
  <2> QED
    BY <1>0, <1>t, <2>1
<1>8. reg' = TermsAt(p[u], n, 0) /\ \A x \in DOMAIN reg' : reg'[x] \in IndexForm
  <2>1. ASSUME NEW x \in 1 .. n PROVE row[x] = Log[Raised(p[u][x], x * 0)] /\ row[x] \in IndexForm
    <3>0. x \in Nat /\ x <= n
      BY <1>3
    <3>1. x \in 0 .. Degree /\ x * 0 = 0
      BY <1>3, <3>0, DegreeIs
    <3>2. p[u][x] \in Symbol
      BY <1>5, <3>1, PolynomialAt
    <3> QED
      BY <1>6, <3>1, <3>2, RaisedFacts, LogIs
  <2> QED
    BY <1>0, <1>3, <2>1 DEF TermsAt
<1>9. TypePart'
  BY <1>0, <1>7, <1>8 DEF DecodeInv, TypePart, DecodeTypeOK
<1>10. PhasePart' /\ WordPart' /\ SyndromePart'
  BY <1>0 DEF DecodeInv, PhasePart, WordPart, SyndromePart
<1>11. BerlekampPart' /\ AnswerPart'
  BY <1>0 DEF BerlekampPart, AnswerPart
<1>12. RootsPart'
  <2>1. root = <<>> /\ decodeRound = 1
    BY <1>0 DEF DecodeInv, PhasePart
  <2>2. Found(<<>>, p[u], 0)
    BY Bounds DEF Found
  <2>3. Short(n, s)
    BY <1>1, <1>3, ShortIs
  <2>4. Locator(p[u], u, row, n, s)
    BY <1>2, <1>3, <1>4, <1>6, <2>3 DEF Locator
  <2>5. 1 - 1 = 0
    OBVIOUS
  <2> QED
    BY <1>0, <1>1, <1>3, <1>7, <1>8, <2>1, <2>2, <2>4, <2>5 DEF RootsPart
<1>13. CellPart'
  BY <1>0, <1>t, <1>6, <1>7 DEF DecodeInv, CellPart, ElpInBounds
<1> QED
  BY <1>9, <1>10, <1>11, <1>12, <1>13 DEF DecodeInv

-----------------------------------------------------------------------------
(* The roots *)

\* The error location polynomial of the search.
LEMMA InRoots ==
  ASSUME DecodeInv, decodePc \in {"roots", "values"}
  PROVE  \E s, p, n :
           /\ s \in SyndromeVectors /\ s = SynOf(received) /\ IndexSyndromes(synd, s)
           /\ n = l[u] /\ n \in 0 .. tt /\ n \in Nat /\ n \in 0 .. Degree
           /\ Locator(p, u, elp[u], n, s) /\ UpTo(p, n) /\ p[0] = One /\ p \in Polynomial
           /\ decodePc = "roots" => Found(root, p, decodeRound - 1) /\ reg = TermsAt(p, n, decodeRound - 1)
           /\ decodePc = "values" => /\ Found(root, p, nn) /\ Len(root) = n /\ decodeRound <= n + 1
                                     /\ Correcting(p, n, s, root, z, recd, decodeRound)
<1>1. received \in IntWords
  BY DEF DecodeInv, WordPart
<1>2. SynOf(received) \in SyndromeVectors
  BY <1>1, SynIs
<1>3. IndexSyndromes(synd, SynOf(received))
  BY DEF DecodeInv, SyndromePart
<1>4. PICK p : /\ Locator(p, u, elp[u], l[u], SynOf(received))
               /\ decodePc = "roots" => /\ Found(root, p, decodeRound - 1)
                                        /\ reg = TermsAt(p, l[u], decodeRound - 1)
               /\ decodePc = "values" => /\ Found(root, p, nn)
                                         /\ Len(root) = l[u]
                                         /\ decodeRound <= l[u] + 1
                                         /\ Correcting(p, l[u], SynOf(received), root, z, recd, decodeRound)
  BY DEF DecodeInv, RootsPart
<1>5. l[u] \in 0 .. tt /\ l[u] \in Nat /\ l[u] \in 0 .. Degree
  BY <1>4, Bounds DEF Locator
<1>6. UpTo(p, l[u]) /\ p[0] = One /\ p \in Polynomial
  BY <1>4 DEF Locator, Row, UpTo
<1> QED
  BY <1>2, <1>3, <1>4, <1>5, <1>6

\* What a sequence holds.
LEMMA SeqPlaces ==
  ASSUME NEW S, NEW q \in Seq(S)
  PROVE  \A x \in DOMAIN q : q[x] \in S
OBVIOUS

\* A candidate is stored when it is a root and only then; there is room for it.
LEMMA CandidateInv ==
  ASSUME DecodeInv, Candidate
  PROVE  DecodeInv'
<1>0. /\ decodePc = "roots" /\ decodeRound <= nn /\ reg' = Advanced
      /\ root' = IF IsRoot(Advanced) THEN Append(root, decodeRound) ELSE root
      /\ decodeRound' = decodeRound + 1
      /\ decodePc' = decodePc /\ received' = received /\ recd' = recd /\ synd' = synd /\ u' = u
      /\ elp' = elp /\ d' = d /\ l' = l /\ z' = z /\ result' = result
  BY DEF Candidate, berlekampVars
<1>1. PICK s, p, n :
           /\ s \in SyndromeVectors /\ s = SynOf(received) /\ IndexSyndromes(synd, s)
           /\ n = l[u] /\ n \in 0 .. tt /\ n \in Nat /\ n \in 0 .. Degree
           /\ Locator(p, u, elp[u], n, s) /\ UpTo(p, n) /\ p[0] = One /\ p \in Polynomial
           /\ decodePc = "roots" => Found(root, p, decodeRound - 1) /\ reg = TermsAt(p, n, decodeRound - 1)
           /\ decodePc = "values" => /\ Found(root, p, nn) /\ Len(root) = n /\ decodeRound <= n + 1
                                     /\ Correcting(p, n, s, root, z, recd, decodeRound)
  BY <1>0, InRoots
<1>2. PICK r : /\ r = decodeRound - 1 /\ r \in 0 .. nn - 1 /\ r \in Nat /\ decodeRound = r + 1
               /\ r + 1 \in Nat /\ decodeRound + 1 \in 1 .. nn + 1 /\ decodeRound + 1 - 1 = r + 1
  BY <1>0, Bounds DEF DecodeInv, TypePart, DecodeTypeOK
<1>3. Advanced = TermsAt(p, n, r + 1)
  BY <1>0, <1>1, <1>2, AdvancedIs
<1>4. IsRoot(Advanced) <=> ValueAt(p, r + 1) = {}
  BY <1>1, <1>2, <1>3, IsRootIs
<1>5. Found(root', p, r + 1)
  <2>1. Found(IF ValueAt(p, r + 1) = {} THEN Append(root, r + 1) ELSE root, p, r + 1)
    BY <1>0, <1>1, <1>2, FoundNext
  <2> QED
    BY <1>0, <1>2, <1>4, <2>1
<1>6. reg' = TermsAt(p, n, r + 1) /\ \A x \in DOMAIN reg' : reg'[x] \in IndexForm
  <2>1. ASSUME NEW x \in 1 .. n PROVE Log[Raised(p[x], x * (r + 1))] \in IndexForm
    <3>0. x \in Nat /\ x <= n
      BY <1>1
    <3>a. x * (r + 1) \in Nat
      BY <1>2, <3>0
    <3>1. x \in 0 .. Degree /\ x * (r + 1) \in Nat
      BY <1>1, <3>0, <3>a, DegreeIs
    <3>2. Raised(p[x], x * (r + 1)) \in Symbol
      BY <1>1, <3>1, PolynomialAt, RaisedType
    <3> QED
      BY <3>2, LogIs
  <2> QED
    BY <1>0, <1>3, <2>1 DEF TermsAt
<1>7. root' \in Seq(1 .. nn) /\ Len(root') <= tt /\ \A x \in DOMAIN root' : root'[x] \in 1 .. nn
  <2>1. Len(root') <= n /\ Len(root') \in Nat
    BY <1>1, <1>5, FoundCount
  <2>2. root' \in Seq(1 .. nn)
    BY <1>5 DEF Found
  <2>3. \A x \in DOMAIN root' : root'[x] \in 1 .. nn
    BY <2>2, SeqPlaces
  <2>4. Len(root') <= tt
    BY <1>1, <2>1, Bounds
  <2> QED
    BY <2>2, <2>3, <2>4
<1>8. TypePart'
  BY <1>0, <1>2, <1>6, <1>7 DEF DecodeInv, TypePart, DecodeTypeOK
<1>9. PhasePart' /\ WordPart' /\ SyndromePart'
  BY <1>0 DEF DecodeInv, PhasePart, WordPart, SyndromePart
<1>10. BerlekampPart' /\ AnswerPart'
  BY <1>0 DEF BerlekampPart, AnswerPart
<1>11. RootsPart'
  <2>1. Locator(p, u', elp'[u'], l'[u'], SynOf(received'))
    BY <1>0, <1>1
  <2>2. Found(root', p, decodeRound' - 1) /\ reg' = TermsAt(p, l'[u'], decodeRound' - 1)
    BY <1>0, <1>1, <1>2, <1>5, <1>6
  <2> QED
    BY <1>0, <2>1, <2>2 DEF RootsPart
<1>12. CellPart'
  BY <1>0 DEF DecodeInv, CellPart, ElpInBounds
<1> QED
  BY <1>8, <1>9, <1>10, <1>11, <1>12 DEF DecodeInv

-----------------------------------------------------------------------------
(* The error values: Forney's formula *)

\* A sum with one term.
LEMMA OneTerm ==
  ASSUME NEW D, NEW f \in [D -> Symbol], NEW a \in D, \A x \in D : x # a => f[x] = {}
  PROVE  XorSum(f) = f[a]
<1> DEFINE E == {a}
           e == [x \in E |-> f[x]]
           g == [x \in {} |-> f[x]]
<1>1. Extends(D, E, f, e)
  <2>1. e \in [E -> Symbol] /\ E \subseteq D
    OBVIOUS
  <2> QED
    BY <2>1 DEF Extends
<1>2. XorSum(f) = XorSum(e)
  BY <1>1, XorSumSupport
<1>3. IsFiniteSet(E) /\ a \in E
  BY FS_Singleton
<1>4. Without(E, a, e, g)
  BY DEF Without
<1>5. g \in [{} -> Symbol] /\ (\A x \in {} : g[x] = {}) /\ e[a] = f[a]
  OBVIOUS
<1> HIDE DEF E, e, g
<1>6. XorSum(e) = Xor(XorSum(g), e[a])
  BY <1>3, <1>4, XorSumInsert
<1>7. XorSum(g) = {}
  BY <1>5, XorSumNone
<1> QED
  BY <1>2, <1>5, <1>6, <1>7, XorZero

\* The product with a sum of two vectors of syndromes.
LEMMA ProductAddRight ==
  ASSUME NEW p \in Polynomial, NEW y \in Int, NEW s \in SyndromeVectors, NEW t \in SyndromeVectors,
         NEW v \in SyndromeVectors, \A x \in 1 .. Degree : v[x] = Xor(s[x], t[x])
  PROVE  Product(p, v, y) = Xor(Product(p, s, y), Product(p, t, y))
<1> DEFINE D == 0 .. Degree
           F(c) == [x \in D |-> Mul(p[x], At(c, y - x))]
<1>1. \A x : At(v, x) = Xor(At(s, x), At(t, x))
  BY XorZero DEF At
<1>2. \A x \in D : F(v)[x] = Xor(F(s)[x], F(t)[x])
  <2> SUFFICES ASSUME NEW x \in D PROVE F(v)[x] = Xor(F(s)[x], F(t)[x])
    OBVIOUS
  <2>1. PICK a, b : a = At(s, y - x) /\ b = At(t, y - x) /\ a \in Symbol /\ b \in Symbol /\ Xor(a, b) \in Symbol
    BY AtType, XorType
  <2>2. p[x] \in Symbol
    BY PolynomialAt
  <2>3. Mul(p[x], Xor(a, b)) = Mul(Xor(a, b), p[x]) /\ Mul(p[x], a) = Mul(a, p[x]) /\ Mul(p[x], b) = Mul(b, p[x])
    BY <2>1, <2>2, MulCommute
  <2>4. Mul(Xor(a, b), p[x]) = Xor(Mul(a, p[x]), Mul(b, p[x]))
    BY <2>1, <2>2, MulAdd
  <2> QED
    BY <1>1, <2>1, <2>3, <2>4
<1>3. /\ F(s) \in [D -> Symbol] /\ F(t) \in [D -> Symbol] /\ F(v) \in [D -> Symbol]
      /\ IsFiniteSet(D)
  BY ProductType
<1>4. Product(p, s, y) = XorSum(F(s)) /\ Product(p, t, y) = XorSum(F(t)) /\ Product(p, v, y) = XorSum(F(v))
  BY DEF Product
<1> HIDE DEF F, D
<1>5. IsSum(D, F(s), F(t), F(v))
  BY <1>2, <1>3 DEF IsSum
<1> QED
  BY <1>3, <1>4, <1>5, XorSumAdd

\* (1 + alpha^e x) * c: c with one location more.
Located(c, e) ==
  [k \in 0 .. Degree |-> Xor(IF k = 0 THEN {} ELSE Raised(c[k - 1], e), c[k])]

\* One location more leaves a polynomial.
LEMMA LocatedType ==
  ASSUME NEW c \in Polynomial, NEW e \in Nat
  PROVE  Located(c, e) \in Polynomial
<1>1. ASSUME NEW k \in 0 .. Degree PROVE Xor(IF k = 0 THEN {} ELSE Raised(c[k - 1], e), c[k]) \in Symbol
  <2>1. c[k] \in Symbol
    BY PolynomialAt
  <2>2. k # 0 => c[k - 1] \in Symbol
    <3>1. k # 0 => k - 1 \in 0 .. Degree
      BY DegreeIs
    <3> QED
      BY <3>1, PolynomialAt
  <2>3. (IF k = 0 THEN {} ELSE Raised(c[k - 1], e)) \in Symbol
    BY <2>2, RaisedType, Widths
  <2> QED
    BY <2>1, <2>3, XorType
<1> QED
  BY <1>1 DEF Located, Polynomial

\* It is a sum, of c and of c moved up.
LEMMA LocatedSum ==
  ASSUME NEW c, NEW n \in 0 .. Degree - 1, UpTo(c, n), NEW e \in Nat
  PROVE  \E b, m : /\ b \in Polynomial /\ (\A k \in 0 .. Degree : b[k] = Raised(c[k], e))
                   /\ m \in Polynomial /\ (\A k \in 0 .. Degree : m[k] = IF k >= 1 THEN b[k - 1] ELSE {})
                   /\ IsSum(0 .. Degree, m, c, Located(c, e))
<1> DEFINE b == [k \in 0 .. Degree |-> Raised(c[k], e)]
           m == [k \in 0 .. Degree |-> IF k >= 1 THEN b[k - 1] ELSE {}]
<1>1. c \in Polynomial
  BY DEF UpTo
<1>2. \A k \in 0 .. Degree : Raised(c[k], e) \in Symbol
  BY <1>1, PolynomialAt, RaisedType
<1>3. b \in Polynomial
  BY <1>2 DEF Polynomial
<1>4. \A k \in 0 .. Degree : k >= 1 => k - 1 \in 0 .. Degree
  BY DegreeIs
<1>5. m \in Polynomial
  BY <1>2, <1>4, Widths DEF Polynomial
<1>6. \A k \in 0 .. Degree : Located(c, e)[k] = Xor(m[k], c[k])
  <2> SUFFICES ASSUME NEW k \in 0 .. Degree PROVE Located(c, e)[k] = Xor(m[k], c[k])
    OBVIOUS
  <2>1. k # 0 <=> k >= 1
    BY DegreeIs
  <2> QED
    BY <1>4, <2>1 DEF Located
<1>7. Located(c, e) \in Polynomial
  BY <1>1, LocatedType
<1>8. \A k \in 0 .. Degree : b[k] = Raised(c[k], e) /\ m[k] = IF k >= 1 THEN b[k - 1] ELSE {}
  OBVIOUS
<1> HIDE DEF b, m
<1>9. IsSum(0 .. Degree, m, c, Located(c, e))
  BY <1>1, <1>5, <1>6, <1>7 DEF IsSum, Polynomial
<1> QED
  BY <1>3, <1>5, <1>8, <1>9

\* Its values.
LEMMA LocatedValue ==
  ASSUME NEW c, NEW n \in 0 .. Degree - 1, UpTo(c, n), NEW e \in Nat, NEW r \in Nat
  PROVE  /\ ValueAt(Located(c, e), r) = Xor(Raised(ValueAt(c, r), e + r), ValueAt(c, r))
         /\ ValueAt(c, r) \in Symbol
<1>1. PICK b, m : /\ b \in Polynomial /\ (\A k \in 0 .. Degree : b[k] = Raised(c[k], e))
                  /\ m \in Polynomial /\ (\A k \in 0 .. Degree : m[k] = IF k >= 1 THEN b[k - 1] ELSE {})
                  /\ IsSum(0 .. Degree, m, c, Located(c, e))
  BY LocatedSum
<1>0. Degree \in Nat /\ Degree - 1 \in Nat /\ (Degree - 1) + 1 = Degree /\ n < Degree /\ n \in Nat
  BY DegreeIs
<1>2. ValueAt(Located(c, e), r) = Xor(ValueAt(m, r), ValueAt(c, r))
  BY <1>0, <1>1, ValueAdd
<1>3. c \in [0 .. Degree -> Symbol] /\ b \in [0 .. Degree -> Symbol] /\ m \in [0 .. Degree -> Symbol]
  BY <1>1 DEF UpTo, Polynomial
<1>4. ValueAt(b, r) = Raised(ValueAt(c, r), e)
  <2>1. \A k \in 0 .. Degree : b[k] = Raised(c[k], e)
    BY <1>1
  <2>2. c \in [0 .. Degree -> Symbol] /\ b \in [0 .. Degree -> Symbol] /\ Degree \in Nat
    BY <1>0, <1>3
  <2> QED
    BY <2>1, <2>2, ValueRaised
<1>5. ValueAt(m, r) = Raised(ValueAt(b, r), r)
  <2> DEFINE a == [k \in 0 .. Degree - 1 |-> b[k]]
  <2>1. \A k \in 0 .. Degree - 1 : k \in 0 .. Degree /\ k + 1 \in 0 .. Degree /\ k + 1 >= 1 /\ (k + 1) - 1 = k
    BY <1>0
  <2>2. a \in [0 .. Degree - 1 -> Symbol] /\ \A k \in 0 .. Degree - 1 : m[k + 1] = a[k]
    BY <1>1, <1>3, <2>1
  <2>3. m[0] = {} /\ m \in [0 .. (Degree - 1) + 1 -> Symbol]
    BY <1>0, <1>1, <1>3
  <2>4. \A k \in 0 .. Degree : k \notin 0 .. Degree - 1 => b[k] = {}
    <3> SUFFICES ASSUME NEW k \in 0 .. Degree, k \notin 0 .. Degree - 1 PROVE b[k] = {}
      OBVIOUS
    <3>1. k > n
      BY <1>0
    <3>2. c[k] = {}
      BY <3>1 DEF UpTo
    <3> QED
      BY <1>1, <3>2, RaisedZero
  <2>5. \A k \in 0 .. Degree - 1 : b[k] = a[k]
    OBVIOUS
  <2> HIDE DEF a
  <2>6. ValueAt(m, r) = Raised(ValueAt(a, r), r)
    BY ZenonT(40), <1>0, <2>2, <2>3, ValueShift
  <2>7. Extends(0 .. Degree, 0 .. Degree - 1, b, a)
    BY <1>3, <2>1, <2>2, <2>4, <2>5 DEF Extends
  <2>8. ValueAt(b, r) = ValueAt(a, r)
    BY <1>0, <2>7, ValueExtend
  <2> QED
    BY <2>6, <2>8
<1>6. ValueAt(c, r) \in Symbol
  BY ValueType
<1>7. Raised(Raised(ValueAt(c, r), e), r) = Raised(ValueAt(c, r), e + r)
  BY <1>6, RaisedSum
<1> QED
  BY <1>2, <1>4, <1>5, <1>6, <1>7

\* Dividing by a location that was found.
LEMMA Quotient ==
  ASSUME NEW n \in 0 .. Degree - 1, NEW p, UpTo(p, n + 1), p[0] = One,
         NEW r \in 1 .. nn, ValueAt(p, r) = {}
  PROVE  \E c : UpTo(c, n) /\ c[0] = One /\ p = Located(c, nn - r)
<1>0. r \in Nat /\ nn - r \in Nat /\ r + (nn - r) = nn /\ Degree \in Nat /\ 0 \in 0 .. Degree
  BY Bounds
<1>1. PICK b : UpTo(b, n) /\ p = Factor(b, r)
  BY <1>0, Division
<1>2. b \in Polynomial /\ \A k \in 0 .. Degree : b[k] \in Symbol /\ (k > n => b[k] = {})
  BY <1>1, PolynomialAt DEF UpTo
<1> DEFINE c == [k \in 0 .. Degree |-> Raised(b[k], r)]
<1>3. UpTo(c, n)
  <2>1. \A k \in 0 .. Degree : Raised(b[k], r) \in Symbol
    BY <1>0, <1>2, RaisedType
  <2>2. \A k \in 0 .. Degree : k > n => Raised(b[k], r) = {}
    BY <1>0, <1>2, RaisedZero
  <2> QED
    BY <2>1, <2>2 DEF UpTo, Polynomial
<1>4. ASSUME NEW k \in 0 .. Degree
      PROVE  p[k] = Xor(IF k = 0 THEN {} ELSE Raised(c[k - 1], nn - r), c[k])
  <2>1. p[k] = Xor(IF k = 0 THEN {} ELSE b[k - 1], TimesPower(b[k], r))
    BY <1>1 DEF Factor, NoBit
  <2>2. TimesPower(b[k], r) = c[k]
    BY <1>0, <1>2, TimesPowerIs
  <2>3. ASSUME k # 0 PROVE Raised(c[k - 1], nn - r) = b[k - 1]
    <3>1. k - 1 \in 0 .. Degree
      BY <1>0, <2>3
    <3>2. c[k - 1] = Raised(b[k - 1], r) /\ b[k - 1] \in Symbol
      BY <1>2, <3>1
    <3>3. Raised(Raised(b[k - 1], r), nn - r) = Raised(b[k - 1], nn)
      BY <1>0, <3>2, RaisedSum
    <3> QED
      BY <3>2, <3>3, RaisedWraps
  <2> QED
    BY <2>1, <2>2, <2>3
<1>5. p = Located(c, nn - r)
  <2>1. p = [k \in 0 .. Degree |-> p[k]]
    BY DEF UpTo, Polynomial
  <2> HIDE DEF c
  <2> QED
    BY <1>4, <2>1 DEF Located
<1>6. c[0] = One
  <2>1. p[0] = Xor({}, c[0])
    BY <1>0, <1>4
  <2> HIDE DEF c
  <2> QED
    BY <2>1, XorZero
<1> HIDE DEF c
<1> QED
  BY <1>3, <1>5, <1>6

\* Syndromes of one error: Y at a place.
IsOneError(t, Y, e) == t \in SyndromeVectors /\ \A y \in 1 .. Degree : t[y] = Raised(Y, e * (y - 1))

\* The other locations of the polynomial are what is left of it.
LEMMA LocatedProduct ==
  ASSUME NEW c, NEW n \in 0 .. Degree - 1, UpTo(c, n), NEW e \in Nat, NEW Y \in Symbol,
         NEW t, IsOneError(t, Y, e), NEW k \in 1 .. Degree
  PROVE  Product(Located(c, e), t, k) = Mul(c[k - 1], Y)
<1>0. /\ Degree \in Nat /\ n \in Nat /\ n < Degree /\ k \in Nat /\ k \in Int /\ k - 1 \in Int
      /\ k - 1 \in 0 .. Degree /\ t \in SyndromeVectors /\ 1 \in 0 .. Degree
  BY DegreeIs DEF IsOneError
<1>1. PICK b, m : /\ b \in Polynomial /\ (\A x \in 0 .. Degree : b[x] = Raised(c[x], e))
                  /\ m \in Polynomial /\ (\A x \in 0 .. Degree : m[x] = IF x >= 1 THEN b[x - 1] ELSE {})
                  /\ IsSum(0 .. Degree, m, c, Located(c, e))
  BY LocatedSum
<1>2. c \in Polynomial /\ \A x \in 0 .. Degree : c[x] \in Symbol /\ (x > n => c[x] = {})
  BY PolynomialAt DEF UpTo
<1>3. Product(Located(c, e), t, k) = Xor(Product(m, t, k), Product(c, t, k))
  BY <1>0, <1>1, ProductAdd
<1>4. Product(m, t, k) = Product(b, t, k - 1)
  <2>1. \A x \in 0 .. Degree : x > Degree - 1 => b[x] = {}
    <3> SUFFICES ASSUME NEW x \in 0 .. Degree, x > Degree - 1 PROVE b[x] = {}
      OBVIOUS
    <3>1. x > n
      BY <1>0
    <3> QED
      BY <1>1, <1>2, <3>1, RaisedZero
  <2>2. \A x \in 0 .. Degree : m[x] = IF x >= 1 THEN b[x - 1] ELSE {}
    BY <1>1
  <2> QED
    <3>1. t \in SyndromeVectors /\ k \in Int /\ 1 \in 0 .. Degree /\ b \in Polynomial /\ m \in Polynomial
      BY <1>0, <1>1
    <3> QED
      BY <2>1, <2>2, <3>1, ProductShifted
<1> DEFINE D == 0 .. Degree
           f == [x \in D |-> Mul(c[x], At(t, k - x))]
           g == [x \in D |-> Mul(b[x], At(t, (k - 1) - x))]
           h == [x \in D |-> Xor(g[x], f[x])]
<1>5. /\ Product(c, t, k) = XorSum(f) /\ Product(b, t, k - 1) = XorSum(g)
      /\ f \in [D -> Symbol] /\ g \in [D -> Symbol] /\ IsFiniteSet(D)
  <2>0. t \in SyndromeVectors /\ k \in Int /\ k - 1 \in Int /\ b \in Polynomial /\ c \in Polynomial
    BY <1>0, <1>1, <1>2
  <2>1. Product(c, t, k) = XorSum(f) /\ f \in [D -> Symbol] /\ IsFiniteSet(D)
    BY <2>0, ProductType DEF Product
  <2>2. Product(b, t, k - 1) = XorSum(g) /\ g \in [D -> Symbol]
    BY <2>0, ProductType DEF Product
  <2> QED
    BY <2>1, <2>2
<1>6. ASSUME NEW x \in D, x # k - 1 PROVE h[x] = {}
  <2>0. x \in Nat /\ c[x] \in Symbol /\ b[x] = Raised(c[x], e)
    BY <1>0, <1>1, <1>2
  <2>1. CASE x > k - 1
    <3>1. k - x \notin 1 .. Degree /\ (k - 1) - x \notin 1 .. Degree
      BY <1>0, <2>0, <2>1
    <3>2. f[x] = Mul(c[x], {}) /\ g[x] = Mul(b[x], {}) /\ b[x] \in Symbol
      BY <1>1, <3>1, PolynomialAt DEF At
    <3>3. f[x] = {} /\ g[x] = {}
      BY <2>0, <3>2, MulZero
    <3> QED
      BY <3>3, XorZero
  <2>2. CASE x < k - 1
    <3>1. PICK i : i \in Nat /\ i = (k - 1) - x /\ i \in 1 .. Degree /\ k - x = i + 1 /\ i + 1 \in 1 .. Degree
                   /\ i - 1 \in Nat /\ (i + 1) - 1 = i
      <4>1. /\ (k - 1) - x \in Nat /\ (k - 1) - x \in 1 .. Degree /\ k - x = ((k - 1) - x) + 1
            /\ ((k - 1) - x) + 1 \in 1 .. Degree /\ ((k - 1) - x) - 1 \in Nat
            /\ (((k - 1) - x) + 1) - 1 = (k - 1) - x
        BY <1>0, <2>0, <2>2
      <4> QED
        BY <4>1
    <3>2. At(t, k - x) = Raised(Y, e * i) /\ At(t, (k - 1) - x) = Raised(Y, e * (i - 1))
      BY <3>1 DEF At, IsOneError
    <3>3. e * i \in Nat /\ e * (i - 1) \in Nat /\ e * (i - 1) + e = e * i
      <4>1. PICK j \in Nat : j = i - 1
        BY <3>1
      <4>2. e * j \in Nat /\ e * (j + 1) = e * j + e
        OBVIOUS
      <4>3. i = j + 1
        BY <3>1, <4>1
      <4> QED
        BY <4>1, <4>2, <4>3
    <3>4. Raised(Y, e * i) \in Symbol /\ Raised(Y, e * (i - 1)) \in Symbol /\ Mul(Y, c[x]) \in Symbol
      BY <2>0, <3>3, RaisedType, MulType
    <3>5. f[x] = Raised(Mul(Y, c[x]), e * i)
      <4>1. f[x] = Mul(Raised(Y, e * i), c[x])
        BY <2>0, <3>2, <3>4, MulCommute
      <4> QED
        BY <2>0, <3>3, <4>1, MulRaised
    <3>6. g[x] = Raised(Mul(Y, c[x]), e * i)
      <4>1. g[x] = Raised(Mul(c[x], Raised(Y, e * (i - 1))), e)
        BY <2>0, <3>2, <3>4, MulRaised
      <4>2. Mul(c[x], Raised(Y, e * (i - 1))) = Mul(Raised(Y, e * (i - 1)), c[x])
        BY <2>0, <3>4, MulCommute
      <4>3. Mul(Raised(Y, e * (i - 1)), c[x]) = Raised(Mul(Y, c[x]), e * (i - 1))
        BY <2>0, <3>3, MulRaised
      <4>4. Raised(Raised(Mul(Y, c[x]), e * (i - 1)), e) = Raised(Mul(Y, c[x]), e * (i - 1) + e)
        BY <3>3, <3>4, RaisedSum
      <4> QED
        BY <3>3, <4>1, <4>2, <4>3, <4>4
    <3> QED
      BY <3>5, <3>6, XorZero
  <2> QED
    BY <1>0, <1>6, <2>0, <2>1, <2>2
<1>7. h[k - 1] = Mul(c[k - 1], Y)
  <2>1. k - (k - 1) = 1 /\ (k - 1) - (k - 1) = 0 /\ 1 \in 1 .. Degree /\ 0 \notin 1 .. Degree /\ e * (1 - 1) = 0
    BY <1>0
  <2>2. At(t, 1) = Raised(Y, 0) /\ At(t, 0) = {}
    BY <2>1 DEF At, IsOneError
  <2>3. f[k - 1] = Mul(c[k - 1], Y) /\ g[k - 1] = Mul(b[k - 1], {}) /\ b[k - 1] \in Symbol
    BY <1>0, <1>1, <2>1, <2>2, RaisedFacts, PolynomialAt
  <2>4. g[k - 1] = {}
    BY <2>3, MulZero
  <2> HIDE DEF f, g
  <2> QED
    BY <1>0, <2>3, <2>4, XorZero
<1>8. h \in [D -> Symbol]
  <2> HIDE DEF f, g
  <2> QED
    BY <1>5, XorType
<1>9. IsSum(D, g, f, h)
  <2>1. \A x \in D : h[x] = Xor(g[x], f[x])
    OBVIOUS
  <2> HIDE DEF f, g, h, D
  <2> QED
    BY <1>5, <1>8, <2>1 DEF IsSum
<1> HIDE DEF f, g, h, D
<1>10. XorSum(h) = Xor(XorSum(g), XorSum(f))
  BY <1>5, <1>9, XorSumAdd
<1>11. k - 1 \in D
  BY <1>0 DEF D
<1>12. XorSum(h) = h[k - 1]
  BY <1>6, <1>8, <1>11, OneTerm
<1> QED
  BY <1>3, <1>4, <1>5, <1>7, <1>10, <1>12

\* What z(x) is a sum with has the degree of the polynomial.
LEMMA NumerType ==
  ASSUME NEW p \in Polynomial, NEW s \in SyndromeVectors, NEW n \in 0 .. Degree
  PROVE  UpTo(Numer(p, s, n), n) /\ Numer(p, s, n) \in Polynomial
<1>1. \A x \in 0 .. Degree : (IF x \in 1 .. n THEN Product(p, s, x) ELSE {}) \in Symbol
  <2> SUFFICES ASSUME NEW x \in 0 .. Degree PROVE (IF x \in 1 .. n THEN Product(p, s, x) ELSE {}) \in Symbol
    OBVIOUS
  <2>1. x \in Int
    OBVIOUS
  <2> QED
    BY <2>1, ProductType, Widths
<1>2. Numer(p, s, n) \in Polynomial
  BY <1>1 DEF Numer, Polynomial
<1>3. \A x \in 0 .. Degree : x > n => x \notin 1 .. n
  OBVIOUS
<1> QED
  BY <1>2, <1>3 DEF UpTo, Numer

\* Numerators are added as the syndromes are.
LEMMA NumerAdd ==
  ASSUME NEW p \in Polynomial, NEW n \in 0 .. Degree, NEW s \in SyndromeVectors, NEW t \in SyndromeVectors,
         NEW v \in SyndromeVectors, \A x \in 1 .. Degree : v[x] = Xor(s[x], t[x]), NEW r \in Nat
  PROVE  ValueAt(Numer(p, v, n), r) = Xor(ValueAt(Numer(p, s, n), r), ValueAt(Numer(p, t, n), r))
<1>1. ASSUME NEW x \in 0 .. Degree
      PROVE  Numer(p, v, n)[x] = Xor(Numer(p, s, n)[x], Numer(p, t, n)[x])
  <2>1. x \in Int
    OBVIOUS
  <2>2. Product(p, v, x) = Xor(Product(p, s, x), Product(p, t, x))
    BY <2>1, ProductAddRight
  <2> QED
    BY <2>2, XorZero DEF Numer
<1>2. Numer(p, s, n) \in Polynomial /\ Numer(p, t, n) \in Polynomial /\ Numer(p, v, n) \in Polynomial
  BY NumerType
<1>3. IsSum(0 .. Degree, Numer(p, s, n), Numer(p, t, n), Numer(p, v, n))
  BY <1>1, <1>2 DEF IsSum, Polynomial
<1> QED
  BY <1>3, DegreeIs, ValueAdd

\* One error of the locations: its value comes back.
LEMMA NumerOne ==
  ASSUME NEW n \in 0 .. Degree - 1, NEW c, UpTo(c, n), NEW e \in Nat, NEW Y \in Symbol,
         NEW t, IsOneError(t, Y, e), NEW r \in Nat
  PROVE  ValueAt(Numer(Located(c, e), t, n + 1), r) = Raised(Mul(ValueAt(c, r), Y), r)
<1> DEFINE p == Located(c, e)
           a == [k \in 0 .. Degree - 1 |-> Mul(c[k], Y)]
           b == [k \in 0 .. Degree |-> Mul(c[k], Y)]
<1>0. /\ Degree \in Nat /\ Degree - 1 \in Nat /\ (Degree - 1) + 1 = Degree /\ n \in Nat /\ n < Degree
      /\ n + 1 \in 0 .. Degree
  BY DegreeIs
<1>1. c \in Polynomial /\ c \in [0 .. Degree -> Symbol] /\ \A x \in 0 .. Degree : c[x] \in Symbol /\ (x > n => c[x] = {})
  BY PolynomialAt DEF UpTo, Polynomial
<1>2. p \in Polynomial /\ t \in SyndromeVectors
  BY <1>1, LocatedType DEF IsOneError
<1>3. Numer(p, t, n + 1) \in [0 .. Degree -> Symbol]
  BY <1>0, <1>2, NumerType DEF Polynomial
<1>4. \A k \in 0 .. Degree : Mul(c[k], Y) \in Symbol /\ (k > n => Mul(c[k], Y) = {})
  BY <1>1, MulType, MulZero
<1>5. a \in [0 .. Degree - 1 -> Symbol] /\ b \in [0 .. Degree -> Symbol]
  <2>1. \A k \in 0 .. Degree - 1 : k \in 0 .. Degree
    BY <1>0
  <2> QED
    BY <1>4, <2>1
<1>6. Numer(p, t, n + 1)[0] = {}
  BY <1>0 DEF Numer
<1>7. ASSUME NEW k \in 0 .. Degree - 1 PROVE Numer(p, t, n + 1)[k + 1] = a[k]
  <2>1. k + 1 \in 0 .. Degree /\ k + 1 \in 1 .. Degree /\ (k + 1) - 1 = k /\ k \in 0 .. Degree /\ k \in Nat
    BY <1>0
  <2>2. CASE k <= n
    <3>1. k + 1 \in 1 .. n + 1
      BY <1>0, <2>1, <2>2
    <3>2. Numer(p, t, n + 1)[k + 1] = Product(p, t, k + 1)
      BY <2>1, <3>1 DEF Numer
    <3>3. Product(p, t, k + 1) = Mul(c[(k + 1) - 1], Y)
      BY <2>1, LocatedProduct
    <3> QED
      BY <2>1, <3>2, <3>3
  <2>3. CASE ~(k <= n)
    <3>1. k + 1 \notin 1 .. n + 1 /\ k > n
      BY <1>0, <2>1, <2>3
    <3>2. Numer(p, t, n + 1)[k + 1] = {}
      BY <2>1, <3>1 DEF Numer
    <3> QED
      BY <1>4, <2>1, <3>1, <3>2
  <2> QED
    BY <2>2, <2>3
<1>8. \A k \in 0 .. Degree - 1 : b[k] = a[k] /\ k \in 0 .. Degree
  BY <1>0
<1>9. \A k \in 0 .. Degree : k \notin 0 .. Degree - 1 => b[k] = {}
  <2> SUFFICES ASSUME NEW k \in 0 .. Degree, k \notin 0 .. Degree - 1 PROVE b[k] = {}
    OBVIOUS
  <2>1. k > n
    BY <1>0
  <2> QED
    BY <1>4, <2>1
<1>10. \A k \in 0 .. Degree : b[k] = Mul(c[k], Y)
  OBVIOUS
<1> HIDE DEF a, b, p
<1>11. ValueAt(Numer(p, t, n + 1), r) = Raised(ValueAt(a, r), r)
  <2>1. Numer(p, t, n + 1) \in [0 .. (Degree - 1) + 1 -> Symbol]
    BY <1>0, <1>3
  <2> QED
    <3>1. \A k \in 0 .. Degree - 1 : Numer(p, t, n + 1)[k + 1] = a[k]
      BY <1>7
    <3>2. Degree - 1 \in Nat /\ r \in Nat /\ a \in [0 .. Degree - 1 -> Symbol]
      BY <1>0, <1>5
    <3> QED
      BY <1>6, <2>1, <3>1, <3>2, ValueShift
<1>12. ValueAt(b, r) = ValueAt(a, r)
  <2>1. Extends(0 .. Degree, 0 .. Degree - 1, b, a)
    BY <1>5, <1>8, <1>9 DEF Extends
  <2> QED
    BY <1>0, <2>1, ValueExtend
<1>13. ValueAt(b, r) = Mul(ValueAt(c, r), Y)
  <2>1. Degree \in Nat /\ r \in Nat /\ c \in [0 .. Degree -> Symbol] /\ b \in [0 .. Degree -> Symbol]
    BY <1>0, <1>1, <1>5
  <2> QED
    BY <1>10, <2>1, ValueMul
<1> QED
  BY <1>11, <1>12, <1>13 DEF p

\* The factor of a location at another root, as the code computes it.
Apart(r, k) == Log[Xor(One, Power[(nn - r + k) % nn])]

\* It is what the code looks up.
LEMMA ApartIs ==
  ASSUME NEW r \in 1 .. nn, NEW k \in 1 .. nn, r # k
  PROVE  /\ (nn - r + k) % nn \in 0 .. nn - 1
         /\ Apart(r, k) \in 0 .. nn - 1
         /\ Xor(One, Power[(nn - r + k) % nn]) = Raised(One, Apart(r, k))
         /\ IndexOf[1 ^^ AlphaTo[(nn - r + k) % nn]] = Apart(r, k)
<1>0. nn \in Nat \ {0} /\ nn \in Nat /\ 0 \in 0 .. nn - 1
  BY Bounds
<1>1. PICK m \in Nat : m = nn - r + k
  <2>1. nn - r + k \in Nat
    BY <1>0
  <2> QED
    BY <2>1
<1>2. PICK i : i = m % nn /\ i \in 0 .. nn - 1
  <2>1. m % nn \in 0 .. nn - 1
    BY <1>0, <1>1, DivMod
  <2> QED
    BY <2>1
<1>3. i # 0
  <2>1. CASE k > r
    <3>1. k - r \in 0 .. nn - 1 /\ m = nn * 1 + (k - r) /\ 1 \in Nat
      BY <1>0, <1>1, <2>1
    <3>2. (nn * 1 + (k - r)) % nn = k - r
      BY <1>0, <3>1, ModUnique
    <3> QED
      BY <1>2, <2>1, <3>1, <3>2
  <2>2. CASE ~(k > r)
    <3>1. m \in 0 .. nn - 1 /\ m # 0
      BY <1>0, <1>1, <2>2
    <3>2. m % nn = m
      BY <1>0, <3>1, ModSmall
    <3> QED
      BY <1>2, <3>1, <3>2
  <2> QED
    BY <2>1, <2>2
<1>4. PICK a : a = Power[i] /\ a \in Symbol /\ AlphaTo[i] = Number(a)
  <2>1. Power[i] \in Symbol
    BY <1>2, AlphaToIs
  <2>2. AlphaTo[i] = Number(Power[i])
    BY <1>2 DEF AlphaTo
  <2> QED
    BY <2>1, <2>2
<1>5. Xor(One, a) # {} /\ Xor(One, a) \in Symbol
  <2>1. a # One
    <3>1. Power[0] = One
      BY LogOne
    <3> QED
      BY <1>0, <1>2, <1>3, <1>4, <3>1, PowerInjective
  <2>2. Xor(One, a) \in Symbol
    BY <1>4, Widths, XorType
  <2>3. Xor(One, a) = {} => a = One
    BY XorCancel, XorZero
  <2> QED
    BY <2>1, <2>2, <2>3
<1>6. Log[Xor(One, a)] \in 0 .. nn - 1 /\ Xor(One, a) = Raised(One, Log[Xor(One, a)])
  BY <1>5, IsPower
<1>7. 1 ^^ AlphaTo[i] = Number(Xor(One, a))
  BY <1>4, BitsOne, Widths, NumberXor
<1>8. IndexOf[Number(Xor(One, a))] = Log[Xor(One, a)]
  BY <1>5, LogIs
<1>9. (nn - r + k) % nn = i
  BY <1>1, <1>2
<1> QED
  BY <1>2, <1>4, <1>6, <1>7, <1>8, <1>9 DEF Apart

\* The value at a root that is not the one divided out.
LEMMA LocatedAway ==
  ASSUME NEW c, NEW n \in 0 .. Degree - 1, UpTo(c, n),
         NEW r \in 1 .. nn, NEW k \in 1 .. nn, r # k
  PROVE  /\ ValueAt(Located(c, nn - r), k) = Raised(ValueAt(c, k), Apart(r, k))
         /\ (ValueAt(Located(c, nn - r), k) = {} => ValueAt(c, k) = {})
<1>0. /\ nn - r \in Nat /\ k \in Nat /\ nn - r + k \in Nat /\ One \in Symbol
      /\ ValueAt(c, k) \in Symbol
  BY Bounds, Widths, ValueType
<1>1. PICK v : v = ValueAt(c, k) /\ v \in Symbol
  BY <1>0
<1>2. ValueAt(Located(c, nn - r), k) = Xor(Raised(v, nn - r + k), v)
  BY <1>0, <1>1, LocatedValue
<1>3. PICK i : i = (nn - r + k) % nn /\ i \in 0 .. nn - 1 /\ i \in Nat
  BY ApartIs
<1>4. Raised(v, nn - r + k) = Raised(v, i)
  BY <1>0, <1>1, <1>3, RaisedMod
<1>5. Power[i] = Raised(One, i) /\ Power[i] \in Symbol
  BY <1>0, <1>3, PowerIs, RaisedType
<1>6. Mul(Xor(One, Power[i]), v) = Xor(v, Raised(v, i))
  <2>1. Mul(Xor(One, Power[i]), v) = Xor(Mul(One, v), Mul(Power[i], v))
    BY <1>0, <1>1, <1>5, MulAdd
  <2>2. Mul(One, v) = v /\ Mul(Raised(One, i), v) = Raised(v, i)
    BY <1>1, <1>3, MulOne, MulPower
  <2> QED
    BY <1>5, <2>1, <2>2
<1>7. PICK g : g = Apart(r, k) /\ g \in Nat /\ Xor(One, Power[i]) = Raised(One, g)
  <2>1. Apart(r, k) \in 0 .. nn - 1 /\ Xor(One, Power[i]) = Raised(One, Apart(r, k))
    BY <1>3, ApartIs
  <2>2. Apart(r, k) \in Nat
    BY <2>1
  <2> QED
    BY <2>1, <2>2
<1>8. Mul(Raised(One, g), v) = Raised(v, g)
  BY <1>1, <1>7, MulPower
<1>9. Xor(Raised(v, i), v) = Raised(v, g)
  BY <1>6, <1>7, <1>8, XorFacts
<1>10. Raised(v, g) = {} => v = {}
  BY <1>1, <1>7, RaisedNonZero
<1> QED
  BY <1>1, <1>2, <1>4, <1>7, <1>9, <1>10

\* z(x) as FormZ computes it.
LEMMA ZIs ==
  ASSUME NEW s \in SyndromeVectors, NEW f, IndexSyndromes(f, s), NEW p, NEW n \in 0 .. Degree - 1,
         UpTo(p, n), p[0] = One, NEW row, IndexRow(row, p, n), NEW x \in 1 .. n
  PROVE  /\ IndexOf[(Poly(f[x]) ^^ Poly(row[x]))
                      ^^ XorOf([y \in 1 .. x - 1 |-> Times(row[x - y], f[y])])]
              = Log[Xor(p[x], Product(p, s, x))]
         /\ Log[Xor(p[x], Product(p, s, x))] \in IndexForm
<1> DEFINE D == 0 .. Degree
           E == 0 .. x - 1
           F == 1 .. x - 1
           T == [k \in D |-> Mul(p[k], At(s, x - k))]
           e == [k \in E |-> T[k]]
           g == [k \in F |-> T[k]]
           b == [k \in F |-> x - k]
           h == [y \in F |-> Times(row[x - y], f[y])]
           hs == [y \in F |-> T[x - y]]
<1>0. /\ Degree \in Nat /\ n \in Nat /\ n < Degree /\ x \in Nat /\ x >= 1 /\ x <= n /\ x \in Int
      /\ E \subseteq D /\ F \subseteq D /\ 0 \in E /\ E \ {0} = F /\ 0 \in D /\ x \in D /\ x \in 1 .. Degree
      /\ p \in Polynomial
  BY DegreeIs DEF UpTo
<1>a. IsFiniteSet(E) /\ IsFiniteSet(F)
  <2>1. 0 \in Int /\ 1 \in Int /\ x - 1 \in Int
    BY <1>0
  <2> QED
    BY <2>1, FS_Interval
<1>1. Product(p, s, x) = XorSum(T) /\ T \in [D -> Symbol]
  BY <1>0, ProductType DEF Product
<1>2. \A k \in D : k \notin E => T[k] = {}
  <2> SUFFICES ASSUME NEW k \in D, k \notin E PROVE T[k] = {}
    OBVIOUS
  <2>1. x - k \notin 1 .. Degree
    BY <1>0
  <2>2. p[k] \in Symbol
    BY <1>0, PolynomialAt
  <2>3. T[k] = Mul(p[k], {})
    BY <2>1 DEF At
  <2> QED
    BY <2>2, <2>3, MulZero
<1>3. T[0] = s[x] /\ s[x] \in Symbol
  <2>1. x - 0 = x
    BY <1>0
  <2>2. T[0] = Mul(One, s[x])
    BY <1>0, <2>1 DEF At
  <2>3. s[x] \in Symbol
    BY <1>0 DEF SyndromeVectors
  <2> QED
    BY <2>2, <2>3, MulOne
<1>4. ASSUME NEW y \in F
      PROVE  /\ x - y \in F /\ x - (x - y) = y /\ x - y \in D
             /\ T[x - y] \in Symbol /\ h[y] = Number(T[x - y])
  <2>1. /\ x - y \in F /\ x - (x - y) = y /\ x - y \in D /\ x - y \in 0 .. n /\ x - y < Degree
        /\ y \in 1 .. Degree
    BY <1>0
  <2>2. T[x - y] = Mul(p[x - y], s[y])
    BY <2>1 DEF At
  <2>3. row[x - y] = Log[p[x - y]] /\ f[y] = Log[s[y]]
    BY <2>1 DEF IndexRow, IndexSyndromes
  <2>4. p[x - y] \in Symbol /\ s[y] \in Symbol
    BY <1>0, <2>1, PolynomialAt DEF SyndromeVectors
  <2>5. h[y] = Number(Mul(p[x - y], s[y]))
    BY <2>3, <2>4, TimesLogs
  <2> QED
    BY <2>1, <2>2, <2>4, <2>5, MulType
<1>5. /\ e \in [E -> Symbol] /\ g \in [F -> Symbol] /\ hs \in [F -> Symbol]
      /\ \A k \in F : hs[k] = g[b[k]]
  <2>1. \A k \in E : T[k] \in Symbol
    BY <1>0, <1>1
  <2>2. \A k \in F : T[k] \in Symbol
    BY <1>0, <1>1
  <2> HIDE DEF T, E, F
  <2> QED
    BY <1>4, <2>1, <2>2
<1>6. b \in Bijection(F, F)
  <2>1. \A k \in F : x - k \in F /\ x - (x - k) = k
    BY <1>4
  <2>2. \A j, k \in F : x - j = x - k => j = k
    BY <1>0
  <2>3. b \in [F -> F] /\ \A k \in F : b[k] = x - k
    BY <2>1
  <2> HIDE DEF F, b
  <2>4. b \in Injection(F, F)
    BY <2>2, <2>3 DEF Injection, IsInjective
  <2>5. b \in Surjection(F, F)
    BY <2>1, <2>3 DEF Surjection
  <2> QED
    BY <2>4, <2>5 DEF Bijection
<1>7. h \in [F -> PolyForm] /\ \A k \in F : hs[k] = Bits(h[k])
  <2>1. ASSUME NEW k \in F PROVE h[k] \in PolyForm /\ hs[k] = Bits(h[k])
    <3>1. PICK a \in Symbol : a = T[x - k] /\ h[k] = Number(a) /\ hs[k] = a
      <4> HIDE DEF h, T
      <4> QED
        BY <1>4
    <3> QED
      BY <3>1, NumberType
  <2>2. h = [k \in F |-> h[k]]
    OBVIOUS
  <2> HIDE DEF h, hs, T, F
  <2> QED
    BY <2>1, <2>2
<1>8. Extends(D, E, T, e) /\ Without(E, 0, e, g)
  <2>1. \A k \in E \ {0} : g[k] = e[k]
    BY <1>0
  <2>2. \A k \in E : T[k] = e[k]
    BY <1>0
  <2> HIDE DEF T, e, g, D, E, F
  <2> QED
    BY <1>0, <1>1, <1>2, <1>5, <2>1, <2>2 DEF Extends, Without
<1>9. e[0] = T[0]
  BY <1>0
<1> HIDE DEF T, e, g, b, h, hs, D, E, F
<1>10. XorSum(T) = Xor(XorSum(g), s[x])
  <2>1. XorSum(T) = XorSum(e)
    BY <1>8, XorSumSupport
  <2>2. XorSum(e) = Xor(XorSum(g), e[0])
    BY <1>0, <1>8, <1>a, XorSumInsert
  <2> QED
    BY <1>3, <1>9, <2>1, <2>2
<1>11. XorSum(hs) = XorSum(g)
  BY <1>5, <1>6, <1>a, XorSumBijection
<1>12. XorOf(h) = Number(XorSum(hs))
  BY <1>5, <1>7, <1>a, XorOfIs
<1>13. Poly(f[x]) = Number(s[x]) /\ Poly(row[x]) = Number(p[x]) /\ p[x] \in Symbol
  <2>1. f[x] = Log[s[x]]
    BY <1>0 DEF IndexSyndromes
  <2>2. row[x] = Log[p[x]]
    <3>1. x \in 0 .. n /\ x < Degree
      BY <1>0
    <3> QED
      BY <3>1 DEF IndexRow
  <2>3. p[x] \in Symbol
    <3>1. x \in 0 .. Degree
      BY <1>0
    <3> QED
      BY <1>0, <3>1, PolynomialAt
  <2> QED
    BY <1>3, <2>1, <2>2, <2>3, LogIs
<1>14. PICK a : a = XorSum(g) /\ a \in Symbol
  BY XorSumType
<1>15. (Number(s[x]) ^^ Number(p[x])) ^^ Number(a) = Number(Xor(Xor(s[x], p[x]), a))
  <2>1. Number(s[x]) ^^ Number(p[x]) = Number(Xor(s[x], p[x])) /\ Xor(s[x], p[x]) \in Symbol
    BY <1>3, <1>13, NumberXor, XorType
  <2> QED
    BY <1>14, <2>1, NumberXor
<1>16. Xor(Xor(s[x], p[x]), a) = Xor(p[x], Product(p, s, x)) /\ Xor(p[x], Product(p, s, x)) \in Symbol
  <2>1. Product(p, s, x) = Xor(a, s[x]) /\ Xor(a, s[x]) \in Symbol
    BY <1>1, <1>3, <1>10, <1>14, XorType
  <2>2. Xor(Xor(s[x], p[x]), a) = Xor(p[x], Xor(a, s[x]))
    BY XorFacts
  <2> QED
    BY <1>13, <2>1, <2>2, XorType
<1>17. IndexOf[Number(Xor(p[x], Product(p, s, x)))] = Log[Xor(p[x], Product(p, s, x))]
       /\ Log[Xor(p[x], Product(p, s, x))] \in IndexForm
  BY <1>16, LogIs
<1>18. XorOf(h) = Number(a)
  BY <1>11, <1>12, <1>14
<1>19. (Poly(f[x]) ^^ Poly(row[x])) ^^ XorOf(h) = Number(Xor(p[x], Product(p, s, x)))
  BY <1>13, <1>15, <1>16, <1>18
<1> QED
  BY <1>17, <1>19 DEF h, F

\* The numerator as the code computes it.
LEMMA NumeratorIs ==
  ASSUME NEW s \in SyndromeVectors, NEW n \in 0 .. Degree, NEW p, UpTo(p, n), p[0] = One,
         z = [x \in 1 .. n |-> Log[Xor(p[x], Product(p, s, x))]],
         NEW r \in Nat, root[decodeRound] = r, ValueAt(p, r) = {}
  PROVE  Numerator = Number(ValueAt(Numer(p, s, n), r))
<1> DEFINE q == Numer(p, s, n)
           c == [x \in 0 .. Degree |-> Xor(p[x], q[x])]
           h == [x \in 1 .. n |-> Times(z[x], x * r)]
<1>0. Degree \in Nat /\ n \in Nat /\ n <= Degree /\ 0 \in 0 .. Degree /\ p \in Polynomial
  BY DegreeIs DEF UpTo
<1>1. UpTo(q, n) /\ q \in Polynomial /\ q[0] = {} /\ \A x \in 1 .. n : x \in 0 .. Degree /\ q[x] = Product(p, s, x)
  <2>1. UpTo(q, n) /\ q \in Polynomial
    BY <1>0, NumerType
  <2>2. q[0] = {} /\ \A x \in 1 .. n : x \in 0 .. Degree /\ q[x] = Product(p, s, x)
    BY <1>0 DEF Numer
  <2> QED
    BY <2>1, <2>2
<1> HIDE DEF q
<1>2. \A x \in 0 .. Degree : p[x] \in Symbol /\ q[x] \in Symbol /\ (x > n => p[x] = {} /\ q[x] = {})
  BY <1>0, <1>1, PolynomialAt DEF UpTo
<1>3. \A x \in 0 .. Degree : c[x] = Xor(p[x], q[x]) /\ c[x] \in Symbol
  BY <1>2, XorType
<1>4. c \in Polynomial
  BY <1>3 DEF Polynomial
<1>5. UpTo(c, n) /\ c[0] = One
  <2>1. \A x \in 0 .. Degree : x > n => c[x] = {}
    BY <1>2, XorZero
  <2>2. c[0] = One
    BY <1>0, <1>1, XorZero
  <2> HIDE DEF c
  <2> QED
    BY <1>4, <2>1, <2>2 DEF UpTo
<1>6. IsSum(0 .. Degree, p, q, c)
  <2> HIDE DEF c
  <2> QED
    BY <1>0, <1>1, <1>3, <1>4 DEF IsSum, Polynomial
<1> HIDE DEF c
<1>7. ValueAt(c, r) = Xor(ValueAt(p, r), ValueAt(q, r))
  BY <1>0, <1>6, ValueAdd
<1>8. ValueAt(c, r) = ValueAt(q, r)
  BY <1>7, XorZero
<1>9. ASSUME NEW x \in 1 .. n PROVE h[x] = Number(Raised(c[x], x * r)) /\ h[x] \in PolyForm
  <2>1. x \in Nat /\ x * r \in Nat /\ x \in 0 .. Degree
    BY <1>0
  <2>2. z[x] = Log[c[x]] /\ c[x] \in Symbol
    BY <1>1, <1>3
  <2>3. Raised(c[x], x * r) \in Symbol
    BY <2>1, <2>2, RaisedType
  <2>4. Times(Log[c[x]], x * r) = Number(Raised(c[x], x * r))
    BY <2>1, <2>2, TimesRaised
  <2> QED
    BY <2>2, <2>3, <2>4, NumberType
<1>10. h \in [1 .. n -> PolyForm]
  <2>1. h = [x \in 1 .. n |-> h[x]]
    OBVIOUS
  <2> HIDE DEF h
  <2> QED
    BY <1>9, <2>1
<1>11. Numerator = 1 ^^ XorOf(h)
  <2>1. DOMAIN z = 1 .. n
    OBVIOUS
  <2> QED
    BY <2>1 DEF Numerator
<1> HIDE DEF h
<1>12. 1 ^^ XorOf(h) = Number(ValueAt(c, r))
  <2>1. \A x \in 1 .. n : h[x] = Number(Raised(c[x], x * r))
    BY <1>9
  <2> QED
    BY <1>5, <1>10, <2>1, RootSum
<1> QED
  BY <1>8, <1>11, <1>12 DEF q

\* The roots of a polynomial with as many as its degree.
Complete(rt, n) ==
  /\ \A j \in 1 .. n : rt[j] \in 1 .. nn
  /\ \A j, k \in 1 .. n : j # k => rt[j] # rt[k]

\* A search that has seen every candidate leaves such roots.
LEMMA CompleteIs ==
  ASSUME NEW rt, NEW p, NEW n, Found(rt, p, nn), Len(rt) = n
  PROVE  Complete(rt, n) /\ \A j \in 1 .. n : ValueAt(p, rt[j]) = {}
<1>1. \A j \in 1 .. n : rt[j] \in 1 .. nn /\ ValueAt(p, rt[j]) = {}
  <2>1. rt \in Seq(1 .. nn) /\ DOMAIN rt = 1 .. n
    BY DEF Found
  <2>2. \A j \in 1 .. n : rt[j] \in 1 .. nn
    BY <2>1, SeqPlaces
  <2>3. \A j \in 1 .. n : ValueAt(p, rt[j]) = {}
    BY DEF Found
  <2> QED
    BY <2>2, <2>3
<1>2. Len(rt) \in Nat /\ n \in Nat
  BY DEF Found
<1>3. \A j, k \in 1 .. n : j < k => rt[j] < rt[k]
  BY DEF Found
<1>4. ASSUME NEW j \in 1 .. n, NEW k \in 1 .. n, j # k PROVE rt[j] # rt[k]
  <2>1. rt[j] \in Int /\ rt[k] \in Int /\ (j < k \/ k < j)
    BY <1>1, <1>2, <1>4
  <2> QED
    BY <1>3, <2>1
<1> QED
  BY <1>1, <1>4 DEF Complete

\* What is left after the locations up to x, but for location i, are divided out.
Left(b, c, rt, n, i, x, q) ==
  /\ UpTo(b, n - 1 - (IF x < i THEN x ELSE x - 1))
  /\ b[0] = One
  /\ ValueAt(c, rt[i]) = Raised(ValueAt(b, rt[i]), q)
  /\ \A j \in 1 .. n : j > x /\ j # i => ValueAt(b, rt[j]) = {}

\* A factor less, unless it is the one that is passed over.
LEMMA LeftNext ==
  ASSUME NEW n \in 1 .. Degree, NEW i \in 1 .. n, NEW rt, Complete(rt, n),
         NEW c, NEW b, NEW x \in 0 .. n - 1, NEW q \in Nat, Left(b, c, rt, n, i, x, q)
  PROVE  x + 1 # i => \E b1 : Left(b1, c, rt, n, i, x + 1, q + Apart(rt[x + 1], rt[i]))
<1> SUFFICES ASSUME x + 1 # i
             PROVE \E b1 : Left(b1, c, rt, n, i, x + 1, q + Apart(rt[x + 1], rt[i]))
  OBVIOUS
<1>0. /\ Degree \in Nat /\ n \in Nat /\ n <= Degree /\ i \in Nat /\ x \in Nat /\ x + 1 \in 1 .. n
      /\ x + 1 > x
  BY DegreeIs
<1>1. PICK m : /\ m \in 0 .. Degree - 1 /\ m + 1 = n - 1 - (IF x < i THEN x ELSE x - 1)
               /\ m = n - 1 - (IF x + 1 < i THEN x + 1 ELSE (x + 1) - 1)
  <2>1. CASE x < i
    <3>1. x + 1 < i /\ n - 1 - (x + 1) \in 0 .. Degree - 1 /\ n - 1 - (x + 1) + 1 = n - 1 - x
      BY <1>0, <2>1
    <3> QED
      BY <2>1, <3>1
  <2>2. CASE ~(x < i)
    <3>1. ~(x + 1 < i) /\ n - 1 - x \in 0 .. Degree - 1 /\ n - 1 - x + 1 = n - 1 - (x - 1) /\ (x + 1) - 1 = x
      BY <1>0, <2>2
    <3> QED
      BY <2>2, <3>1
  <2> QED
    BY <2>1, <2>2
<1>2. PICK r, k : r = rt[x + 1] /\ k = rt[i] /\ r \in 1 .. nn /\ k \in 1 .. nn /\ r # k
  BY <1>0 DEF Complete
<1>3. UpTo(b, m + 1) /\ b[0] = One /\ ValueAt(b, r) = {}
  BY <1>0, <1>1, <1>2 DEF Left
<1>4. PICK b1 : UpTo(b1, m) /\ b1[0] = One /\ b = Located(b1, nn - r)
  <2>1. m \in 0 .. Degree - 1 /\ r \in 1 .. nn
    BY <1>1, <1>2
  <2> QED
    BY <1>3, <2>1, Quotient
<1>5. ValueAt(b, k) = Raised(ValueAt(b1, k), Apart(r, k))
  BY <1>1, <1>2, <1>4, LocatedAway
<1>6. Apart(r, k) \in 0 .. nn - 1 /\ Apart(r, k) \in Nat
  BY <1>2, ApartIs
<1>7. ValueAt(c, k) = Raised(ValueAt(b1, k), q + Apart(r, k))
  <2>1. ValueAt(c, k) = Raised(ValueAt(b, k), q)
    BY <1>2 DEF Left
  <2>2. ValueAt(b1, k) \in Symbol
    BY ValueType
  <2>3. Raised(Raised(ValueAt(b1, k), Apart(r, k)), q) = Raised(ValueAt(b1, k), Apart(r, k) + q)
    BY <1>6, <2>2, RaisedSum
  <2>4. Apart(r, k) + q = q + Apart(r, k)
    BY <1>6
  <2> QED
    BY <1>5, <2>1, <2>3, <2>4
<1>8. ASSUME NEW j \in 1 .. n, j > x + 1, j # i PROVE ValueAt(b1, rt[j]) = {}
  <2>1. j > x /\ j # x + 1
    BY <1>0, <1>8
  <2>2. rt[j] \in 1 .. nn /\ rt[j] # r
    BY <1>0, <1>2, <2>1 DEF Complete
  <2>3. ValueAt(b, rt[j]) = {}
    BY <1>8, <2>1 DEF Left
  <2> QED
    BY <1>1, <1>2, <1>4, <2>2, <2>3, LocatedAway
<1>9. Left(b1, c, rt, n, i, x + 1, q + Apart(r, k))
  BY <1>1, <1>2, <1>4, <1>7, <1>8 DEF Left
<1> QED
  BY <1>2, <1>9

\* The sum of the logarithms of the factors, as the code adds them up.
Adds(f, rt, n, i) ==
  /\ f[0] = 0
  /\ \A x \in 0 .. n - 1 :
       f[x + 1] = IF x + 1 = i THEN f[x] ELSE f[x] + Apart(rt[x + 1], rt[i])

\* The sum of the exponents that the code adds is that of the value.
LEMMA AddsIs ==
  ASSUME NEW n \in 1 .. Degree, NEW i \in 1 .. n, NEW rt, Complete(rt, n),
         NEW c, UpTo(c, n - 1), c[0] = One,
         \A j \in 1 .. n : j # i => ValueAt(c, rt[j]) = {},
         NEW f, Adds(f, rt, n, i)
  PROVE  f[n] \in Nat /\ ValueAt(c, rt[i]) = Raised(One, f[n])
<1> DEFINE T == { x \in Nat : x <= n => f[x] \in Nat /\ \E b : Left(b, c, rt, n, i, x, f[x]) }
<1>0. /\ Degree \in Nat /\ n \in Nat /\ i \in Nat /\ rt[i] \in 1 .. nn /\ rt[i] \in Nat
      /\ ValueAt(c, rt[i]) \in Symbol
  BY DegreeIs, ValueType, Bounds DEF Complete
<1>1. 0 \in T
  <2>1. n - 1 - 0 = n - 1 /\ 0 < i
    BY <1>0
  <2>2. ValueAt(c, rt[i]) = Raised(ValueAt(c, rt[i]), 0)
    BY <1>0, RaisedFacts
  <2>3. Left(c, c, rt, n, i, 0, 0)
    BY <2>1, <2>2 DEF Left
  <2> QED
    BY <2>3 DEF Adds
<1>2. ASSUME NEW x \in Nat, x \in T PROVE x + 1 \in T
  <2> SUFFICES ASSUME x + 1 <= n
               PROVE f[x + 1] \in Nat /\ \E b : Left(b, c, rt, n, i, x + 1, f[x + 1])
    OBVIOUS
  <2>1. x \in 0 .. n - 1 /\ x <= n /\ x + 1 \in 1 .. n
    BY <1>0
  <2>2. f[x] \in Nat /\ \E b : Left(b, c, rt, n, i, x, f[x])
    BY <1>2, <2>1
  <2> HIDE DEF T
  <2>3. PICK b : Left(b, c, rt, n, i, x, f[x])
    BY <2>2
  <2>4. CASE x + 1 = i
    <3>1. f[x + 1] = f[x]
      BY <2>1, <2>4 DEF Adds
    <3>2. x < i /\ ~(x + 1 < i) /\ (x + 1) - 1 = x
      BY <1>0, <2>4
    <3>3. \A j \in 1 .. n : j > x + 1 => j > x
      BY <1>0
    <3>4. Left(b, c, rt, n, i, x + 1, f[x])
      BY <2>3, <3>2, <3>3 DEF Left
    <3> QED
      BY <2>2, <3>1, <3>4
  <2>5. CASE x + 1 # i
    <3>1. f[x + 1] = f[x] + Apart(rt[x + 1], rt[i])
      BY <2>1, <2>5 DEF Adds
    <3>2. \E b1 : Left(b1, c, rt, n, i, x + 1, f[x] + Apart(rt[x + 1], rt[i]))
      BY <2>1, <2>2, <2>3, <2>5, LeftNext
    <3>3. rt[x + 1] \in 1 .. nn /\ rt[x + 1] # rt[i]
      BY <2>1, <2>5 DEF Complete
    <3>4. Apart(rt[x + 1], rt[i]) \in 0 .. nn - 1 /\ nn \in Nat
      BY <1>0, <3>3, ApartIs, Widths
    <3>5. f[x] + Apart(rt[x + 1], rt[i]) \in Nat
      BY <2>2, <3>4
    <3> QED
      BY <3>1, <3>2, <3>5
  <2> QED
    BY <2>4, <2>5
<1> HIDE DEF T
<1>3. n \in T
  BY <1>0, <1>1, <1>2, NatSetInduction
<1>4. f[n] \in Nat /\ \E b : Left(b, c, rt, n, i, n, f[n])
  BY <1>0, <1>3 DEF T
<1>5. PICK b : Left(b, c, rt, n, i, n, f[n])
  BY <1>4
<1>6. UpTo(b, 0) /\ b[0] = One
  <2>1. ~(n < i) /\ n - 1 - (n - 1) = 0
    BY <1>0
  <2> QED
    BY <1>5, <2>1 DEF Left
<1>7. ValueAt(b, rt[i]) = One
  BY <1>0, <1>6, ConstantValue
<1> QED
  BY <1>4, <1>5, <1>7 DEF Left

\* The denominator as the code computes it.
LEMMA DenominatorIs ==
  ASSUME NEW n \in 1 .. Degree, NEW i \in 1 .. n, Complete(root, n), l[u] = n, decodeRound = i,
         NEW c, UpTo(c, n - 1), c[0] = One,
         \A j \in 1 .. n : j # i => ValueAt(c, root[j]) = {}
  PROVE  Denominator \in 0 .. nn - 1 /\ ValueAt(c, root[i]) = Raised(One, Denominator)
<1> DEFINE G(x) == IndexOf[1 ^^ AlphaTo[(Loc(x) + root[decodeRound]) % nn]]
           Body(q) == [x \in 0 .. l[u] |->
                         IF x = 0 THEN 0 ELSE IF x = decodeRound THEN q[x - 1] ELSE q[x - 1] + G(x)]
           F == [y \in Nat \X Nat |->
                   IF y[1] + 1 \in 1 .. n /\ y[1] + 1 # i THEN y[2] + Apart(root[y[1] + 1], root[i]) ELSE y[2]]
<1>0. /\ Degree \in Nat /\ n \in Nat /\ i \in Nat /\ nn \in Nat \ {0} /\ 0 \in 0 .. n /\ n \in 0 .. n
      /\ \A x \in 0 .. n - 1 : x + 1 \in 0 .. n /\ x + 1 \in 1 .. n /\ x + 1 # 0 /\ (x + 1) - 1 = x
  BY DegreeIs, Bounds
<1>1. ASSUME NEW x \in 1 .. n, x # i
      PROVE  Apart(root[x], root[i]) \in Nat /\ G(x) = Apart(root[x], root[i])
  <2>1. root[x] \in 1 .. nn /\ root[i] \in 1 .. nn /\ root[x] # root[i]
    BY <1>1 DEF Complete
  <2>2. Apart(root[x], root[i]) \in 0 .. nn - 1
        /\ IndexOf[1 ^^ AlphaTo[(nn - root[x] + root[i]) % nn]] = Apart(root[x], root[i])
    BY <2>1, ApartIs
  <2>3. Loc(x) = nn - root[x] /\ root[decodeRound] = root[i]
    BY DEF Loc
  <2> QED
    BY <1>0, <2>2, <2>3
<1>2. F \in [Nat \X Nat -> Nat] /\
      \A x \in Nat, v \in Nat :
        F[<<x, v>>] = IF x + 1 \in 1 .. n /\ x + 1 # i THEN v + Apart(root[x + 1], root[i]) ELSE v
  <2>1. ASSUME NEW y \in Nat \X Nat
        PROVE  (IF y[1] + 1 \in 1 .. n /\ y[1] + 1 # i THEN y[2] + Apart(root[y[1] + 1], root[i]) ELSE y[2]) \in Nat
    BY <1>1
  <2> QED
    BY <2>1
<1>3. PICK f : Recursive(f, Nat, 0, F)
  <2> HIDE DEF F
  <2>1. 0 \in Nat
    OBVIOUS
  <2> QED
    BY <1>2, <2>1, Recursion
<1>4. /\ f \in [Nat -> Nat] /\ f[0] = 0
      /\ \A x \in 0 .. n - 1 : f[x + 1] = IF x + 1 = i THEN f[x] ELSE f[x] + Apart(root[x + 1], root[i])
  <2> HIDE DEF F
  <2>1. f \in [Nat -> Nat] /\ f[0] = 0 /\ \A x \in Nat : f[x + 1] = F[<<x, f[x]>>]
    BY <1>3 DEF Recursive
  <2>2. ASSUME NEW x \in 0 .. n - 1
        PROVE f[x + 1] = IF x + 1 = i THEN f[x] ELSE f[x] + Apart(root[x + 1], root[i])
    <3>1. x \in Nat /\ f[x] \in Nat /\ f[x + 1] = F[<<x, f[x]>>] /\ x + 1 \in 1 .. n
      BY <1>0, <2>1
    <3>2. F[<<x, f[x]>>] = IF x + 1 \in 1 .. n /\ x + 1 # i
                           THEN f[x] + Apart(root[x + 1], root[i]) ELSE f[x]
      BY <1>2, <3>1
    <3> QED
      BY <3>1, <3>2
  <2> QED
    BY <2>1, <2>2
<1> DEFINE p == [x \in 0 .. n |-> f[x]]
<1>5. p = Body(p)
  <2>1. ASSUME NEW x \in 0 .. n PROVE p[x] = Body(p)[x]
    <3>1. CASE x = 0
      BY <1>4, <3>1
    <3>2. CASE x # 0
      <4>1. x - 1 \in 0 .. n - 1 /\ (x - 1) + 1 = x /\ x - 1 \in 0 .. n /\ x \in 1 .. n
        BY <1>0, <3>2
      <4>2. f[x] = IF x = i THEN f[x - 1] ELSE f[x - 1] + Apart(root[x], root[i])
        BY <1>4, <4>1
      <4>3. p[x] = f[x] /\ p[x - 1] = f[x - 1]
        BY <4>1
      <4>4. Body(p)[x] = IF x = i THEN p[x - 1] ELSE p[x - 1] + G(x)
        BY <3>2
      <4>5. x # i => G(x) = Apart(root[x], root[i])
        BY <1>1, <4>1
      <4> HIDE DEF p, Body, G
      <4> QED
        BY <4>2, <4>3, <4>4, <4>5
    <3> QED
      BY <3>1, <3>2
  <2>2. p = [x \in 0 .. n |-> p[x]] /\ Body(p) = [x \in 0 .. n |-> Body(p)[x]]
    OBVIOUS
  <2> HIDE DEF p, Body
  <2> QED
    BY <2>1, <2>2
<1>6. PICK g : g = (CHOOSE q : q = Body(q)) /\ Denominator = g[l[u]] % nn
  <2>1. Denominator = (CHOOSE q : q = Body(q))[l[u]] % nn
    BY Zenon DEF Denominator
  <2> HIDE DEF Body
  <2> QED
    BY <2>1
<1>7. g = Body(g)
  <2> HIDE DEF Body, p
  <2> QED
    BY <1>5, <1>6
<1>8. g[0] = 0
  BY <1>0, <1>7
<1>9. ASSUME NEW x \in 0 .. n - 1
      PROVE  g[x + 1] = IF x + 1 = i THEN g[x] ELSE g[x] + Apart(root[x + 1], root[i])
  <2>1. x + 1 \in 0 .. n /\ x + 1 # 0 /\ (x + 1) - 1 = x /\ x + 1 \in 1 .. n
    BY <1>0
  <2> HIDE DEF G
  <2>2. g[x + 1] = IF x + 1 = i THEN g[(x + 1) - 1] ELSE g[(x + 1) - 1] + G(x + 1)
    BY <1>7, <2>1
  <2>3. x + 1 # i => G(x + 1) = Apart(root[x + 1], root[i])
    BY <1>1, <2>1
  <2> QED
    BY <2>1, <2>2, <2>3
<1>10. Adds(g, root, n, i)
  BY <1>8, <1>9 DEF Adds
<1>11. g[n] \in Nat /\ ValueAt(c, root[i]) = Raised(One, g[n])
  BY <1>10, AddsIs
<1>12. Denominator = g[n] % nn
  BY <1>6
<1>13. g[n] % nn \in 0 .. nn - 1
  BY <1>0, <1>11, DivMod
<1>14. Raised(One, g[n]) = Raised(One, g[n] % nn)
  BY <1>11, Widths, RaisedMod
<1> QED
  BY <1>11, <1>12, <1>13, <1>14

\* The error value: what brings the value of the numerator back.
LEMMA ErrorValueIs ==
  ASSUME NEW A \in Symbol, Numerator = Number(A), NEW r \in Nat, root[decodeRound] = r,
         NEW D, D = Denominator, D \in 0 .. nn - 1, NEW v, v = Raised(One, D)
  PROVE  ErrorValue \in PolyForm /\ Raised(Mul(v, Bits(ErrorValue)), r) = A
<1>0. nn \in Nat \ {0} /\ nn \in Nat /\ D \in Nat /\ nn - 1 \in Nat /\ One \in Symbol
  BY Widths, Bounds
<1>v. v \in Symbol
  BY <1>0, RaisedType
<1>1. CASE A = {}
  <2>1. ErrorValue = 0
    BY <1>1, NumberZero DEF ErrorValue
  <2>2. Bits(ErrorValue) = {} /\ ErrorValue \in PolyForm
    BY <1>0, <2>1, BitsZero DEF PolyForm
  <2>3. Mul(v, {}) = {}
    BY <1>v, MulZero
  <2> QED
    BY <1>1, <2>2, <2>3, RaisedZero
<1>2. CASE A # {}
  <2>1. PICK a : a = Log[A] /\ a \in 0 .. nn - 1 /\ a \in Nat /\ A = Raised(One, a) /\ IndexOf[Numerator] = a
    <3>1. Log[A] \in 0 .. nn - 1 /\ A = Raised(One, Log[A])
      BY <1>2, IsPower
    <3>2. IndexOf[Numerator] = Log[A]
      BY LogIs
    <3>3. Log[A] \in Nat
      BY <3>1
    <3> QED
      BY <3>1, <3>2, <3>3
  <2>2. Numerator # 0
    BY <1>2, NumberZero
  <2>3. PICK m \in Nat : m = a + r * (nn - 1)
    <3>1. r * (nn - 1) \in Nat
      BY <1>0
    <3>2. a + r * (nn - 1) \in Nat
      BY <2>1, <3>1
    <3> QED
      BY <3>2
  <2>4. PICK e : e = m % nn /\ e \in 0 .. nn - 1 /\ e \in Nat
    <3>1. m % nn \in 0 .. nn - 1
      BY <1>0, DivMod
    <3> QED
      BY <3>1
  <2>5. PICK x \in Nat : x = e - D + nn /\ x + (D + r) = e + (nn + r)
    <3>1. e - D + nn \in Nat
      BY <1>0, <2>4
    <3> QED
      BY <1>0, <2>4, <3>1
  <2>6. x % nn \in 0 .. nn - 1
    BY <1>0, DivMod
  <2>7. ErrorValue = AlphaTo[x % nn]
    <3>1. (IndexOf[Numerator] + root[decodeRound] * (nn - 1)) % nn = e
      BY <2>1, <2>3, <2>4
    <3>2. (e - Denominator + nn) % nn = x % nn
      BY <2>5
    <3> QED
      BY <2>2, <3>1, <3>2 DEF ErrorValue
  <2>8. PICK Y : Y = Bits(ErrorValue) /\ Y \in Symbol /\ Y = Raised(One, x) /\ ErrorValue \in PolyForm
    <3>1. Bits(ErrorValue) = Power[x % nn] /\ Power[x % nn] \in Symbol /\ ErrorValue \in PolyForm
      BY <2>6, <2>7, AlphaToIs
    <3>2. Power[x % nn] = Raised(One, x % nn)
      BY <2>6, PowerIs
    <3>3. Raised(One, x % nn) = Raised(One, x)
      BY <1>0, RaisedMod
    <3> QED
      BY <3>1, <3>2, <3>3
  <2>9. Mul(v, Y) = Raised(Y, D)
    BY <1>0, <2>8, MulPower
  <2>10. Raised(Raised(Y, D), r) = Raised(Y, D + r)
    BY <1>0, <2>8, RaisedSum
  <2>11. D + r \in Nat /\ nn + r \in Nat
    BY <1>0
  <2>12. Raised(Y, D + r) = Raised(One, x + (D + r))
    BY <1>0, <2>8, <2>11, RaisedSum
  <2>13. Raised(One, e + (nn + r)) = Raised(Raised(One, e), nn + r)
    BY <1>0, <2>4, <2>11, RaisedSum
  <2>14. Raised(One, e) = Raised(One, m)
    BY <1>0, <2>4, RaisedMod
  <2>15. Raised(Raised(One, m), nn + r) = Raised(One, m + (nn + r))
    BY <1>0, <2>11, RaisedSum
  <2>16. PICK k \in Nat : k = r + 1 /\ k * nn \in Nat /\ m + (nn + r) = a + k * nn
    <3>1. PICK y \in Nat : nn = y + 1
      <4>1. nn - 1 \in Nat /\ nn = (nn - 1) + 1
        BY <1>0
      <4> QED
        BY <4>1
    <3>2. r * (nn - 1) = r * y /\ (r + 1) * nn = (r + 1) * (y + 1)
      <4>1. nn - 1 = y
        BY <3>1
      <4> QED
        BY <3>1, <4>1
    <3>3. (r + 1) * (y + 1) = r * y + r + y + 1
      OBVIOUS
    <3>4. (r + 1) * nn \in Nat /\ r * y \in Nat
      <4>1. \A b, c \in Nat : b * c \in Nat
        OBVIOUS
      <4>2. r + 1 \in Nat /\ nn \in Nat /\ y \in Nat
        BY <1>0
      <4> QED
        BY <4>1, <4>2
    <3>5. PICK b \in Nat : b = r * y
      BY <3>4
    <3>6. PICK w : w = (r + 1) * nn /\ w = b + r + y + 1 /\ m = a + b
      BY <2>3, <3>2, <3>3, <3>5
    <3>8. m + (nn + r) = a + w
      <4>1. a \in Nat /\ b \in Nat /\ r \in Nat /\ y \in Nat /\ m = a + b /\ nn = y + 1 /\ w = b + r + y + 1
        BY <2>1, <3>1, <3>5, <3>6
      <4>2. (a + b) + ((y + 1) + r) = a + (b + r + y + 1)
        BY <4>1
      <4> QED
        BY <4>1, <4>2
    <3>7. m + (nn + r) = a + (r + 1) * nn
      BY <3>6, <3>8
    <3> QED
      BY <3>4, <3>7
  <2>17. Raised(One, a + k * nn) = Raised(Raised(One, a), k * nn)
    BY SMTT(30), <1>0, <2>1, <2>16, RaisedSum
  <2>18. Raised(A, k * nn) = A
    BY <2>16, RaisedCycles
  <2> QED
    BY <2>1, <2>5, <2>8, <2>9, <2>10, <2>12, <2>13, <2>14, <2>15, <2>16, <2>17, <2>18
<1> QED
  BY <1>1, <1>2

\* As many errors as can be corrected are all found.
LEMMA AllFound ==
  ASSUME NEW s \in SyndromeVectors, NEW p, NEW n, Row(Degree + 1, p, n, s), Short(n, s),
         NEW rt, Found(rt, p, nn), ErrorsBelow(tt, s)
  PROVE  Len(rt) = n
<1>1. PICK w : Explains(w, s) /\ Cardinality(Support(w)) <= tt
  BY DEF ErrorsBelow
<1>2. PICK m \in Nat : m = Cardinality(Support(w)) /\ m <= tt
  BY <1>1, SupportFinite
<1>0. n \in 0 .. Degree /\ n \in Nat /\ UpTo(p, n) /\ p[0] = One
  BY DegreeIs DEF Row, UpTo
<1>3. n <= m
  BY <1>1, <1>2 DEF Short, ErrorsBelow
<1>4. n + m <= Degree
  BY <1>0, <1>2, <1>3, Bounds
<1>5. /\ Len(rt) \in Nat /\ IsFiniteSet(RootSet(rt)) /\ Cardinality(RootSet(rt)) = Len(rt)
      /\ Len(rt) <= n
  BY <1>0, FoundCount
<1> DEFINE S == Support(w)
           h == [k \in S |-> nn - k]
<1>6. ASSUME NEW k \in S PROVE nn - k \in RootSet(rt) /\ k \in Nat
  <2>1. nn - k \in 1 .. nn /\ ValueAt(p, nn - k) = {}
    <3>1. Cardinality(Support(w)) <= m
      BY <1>2
    <3> QED
      BY <1>1, <1>4, <3>1, LocationsAreRoots
  <2>2. k \in Nat
    BY DEF Support
  <2>3. PICK i \in 1 .. Len(rt) : rt[i] = nn - k
    BY <2>1 DEF Found
  <2> QED
    BY <2>2, <2>3 DEF RootSet
<1>7. h \in [S -> RootSet(rt)] /\ \A k \in S : h[k] = nn - k
  BY <1>6
<1>8. \A i, k \in S : nn - i = nn - k => i = k
  BY <1>6, Widths
<1> HIDE DEF h
<1>9. h \in Injection(S, RootSet(rt))
  BY <1>7, <1>8 DEF Injection, IsInjective
<1>10. Cardinality(S) <= Cardinality(RootSet(rt))
  BY <1>5, <1>9, FS_Injection
<1> QED
  BY <1>0, <1>2, <1>3, <1>5, <1>10

\* Fewer roots than the degree show that there are more errors.
LEMMA WrongCountInv ==
  ASSUME DecodeInv, WrongCount
  PROVE  DecodeInv'
<1>0. /\ decodePc = "roots" /\ decodeRound > nn /\ Len(root) # l[u] /\ recd' = PolyOf(recd)
      /\ result' = 2 /\ decodePc' = "done" /\ u' = u /\ synd' = synd
      /\ received' = received /\ elp' = elp /\ d' = d /\ l' = l
      /\ reg' = reg /\ root' = root /\ z' = z /\ decodeRound' = decodeRound
  BY DEF WrongCount, Finish, berlekampVars, correctionVars
<1>1. received \in IntWords /\ recd = IndexWord(received)
  BY <1>0 DEF DecodeInv, WordPart
<1>2. recd' = received
  BY <1>0, <1>1, PolyOfIs
<1>3. TypePart'
  <2>1. recd' \in [0 .. nn - 1 -> IndexForm \cup PolyForm]
    BY <1>1, <1>2 DEF IntWords
  <2> QED
    BY <1>0, <2>1 DEF DecodeInv, TypePart, DecodeTypeOK
<1>4. PhasePart'
  BY <1>0 DEF DecodeInv, PhasePart
<1>5. WordPart'
  BY <1>0, <1>1, <1>2 DEF WordPart
<1>6. SyndromePart'
  BY <1>0 DEF DecodeInv, SyndromePart
<1>7. BerlekampPart' /\ RootsPart'
  BY <1>0 DEF BerlekampPart, RootsPart
<1>8. AnswerPart'
  <2>1. PICK s, p, n :
           /\ s \in SyndromeVectors /\ s = SynOf(received) /\ IndexSyndromes(synd, s)
           /\ n = l[u] /\ n \in 0 .. tt /\ n \in Nat /\ n \in 0 .. Degree
           /\ Locator(p, u, elp[u], n, s) /\ UpTo(p, n) /\ p[0] = One /\ p \in Polynomial
           /\ decodePc = "roots" => Found(root, p, decodeRound - 1) /\ reg = TermsAt(p, n, decodeRound - 1)
           /\ decodePc = "values" => /\ Found(root, p, nn) /\ Len(root) = n /\ decodeRound <= n + 1
                                     /\ Correcting(p, n, s, root, z, recd, decodeRound)
    BY <1>0, InRoots
  <2>2. decodeRound - 1 = nn
    BY <1>0, Bounds DEF DecodeInv, TypePart, DecodeTypeOK
  <2>3. Found(root, p, nn) /\ Row(Degree + 1, p, n, s) /\ Short(n, s)
    BY <1>0, <2>1, <2>2 DEF Locator
  <2>4. ErrorsBelow(tt, s) => Len(root) = n
    BY <2>1, <2>3, AllFound
  <2> QED
    BY <1>0, <2>1, <2>4 DEF AnswerPart
<1>9. CellPart'
  BY <1>0 DEF DecodeInv, CellPart, ElpInBounds
<1> QED
  BY <1>3, <1>4, <1>5, <1>6, <1>7, <1>8, <1>9 DEF DecodeInv

\* z(x) is the polynomial plus its product with the syndromes.
LEMMA FormZInv ==
  ASSUME DecodeInv, FormZ
  PROVE  DecodeInv'
<1>0. /\ decodePc = "roots" /\ decodeRound > nn /\ Len(root) = l[u] /\ recd' = PolyOf(recd)
      /\ decodePc' = "values" /\ decodeRound' = 1 /\ u' = u /\ synd' = synd
      /\ received' = received /\ elp' = elp /\ d' = d /\ l' = l
      /\ reg' = reg /\ root' = root /\ result' = result
      /\ z' = [x \in 1 .. l[u] |->
                 IndexOf[(Poly(synd[x]) ^^ Poly(elp[u][x]))
                           ^^ XorOf([y \in 1 .. x - 1 |-> Times(elp[u][x - y], synd[y])])]]
  BY DEF FormZ, berlekampVars
<1>1. received \in IntWords /\ recd = IndexWord(received)
  BY <1>0 DEF DecodeInv, WordPart
<1>2. recd' = received
  BY <1>0, <1>1, PolyOfIs
<1>a. PICK s, p, n :
           /\ s \in SyndromeVectors /\ s = SynOf(received) /\ IndexSyndromes(synd, s)
           /\ n = l[u] /\ n \in 0 .. tt /\ n \in Nat /\ n \in 0 .. Degree
           /\ Locator(p, u, elp[u], n, s) /\ UpTo(p, n) /\ p[0] = One /\ p \in Polynomial
           /\ decodePc = "roots" => Found(root, p, decodeRound - 1) /\ reg = TermsAt(p, n, decodeRound - 1)
           /\ decodePc = "values" => /\ Found(root, p, nn) /\ Len(root) = n /\ decodeRound <= n + 1
                                     /\ Correcting(p, n, s, root, z, recd, decodeRound)
  BY <1>0, InRoots
<1>b. decodeRound - 1 = nn
  BY <1>0, Bounds DEF DecodeInv, TypePart, DecodeTypeOK
<1>c. Found(root, p, nn) /\ Row(Degree + 1, p, n, s) /\ IndexRow(elp[u], p, n) /\ n \in 0 .. Degree - 1
  BY <1>0, <1>a, <1>b, Bounds DEF Locator
<1>z. z' = [x \in 1 .. n |-> Log[Xor(p[x], Product(p, s, x))]] /\ \A x \in DOMAIN z' : z'[x] \in IndexForm
  <2>1. ASSUME NEW x \in 1 .. n
        PROVE  /\ IndexOf[(Poly(synd[x]) ^^ Poly(elp[u][x]))
                           ^^ XorOf([y \in 1 .. x - 1 |-> Times(elp[u][x - y], synd[y])])]
                    = Log[Xor(p[x], Product(p, s, x))]
               /\ Log[Xor(p[x], Product(p, s, x))] \in IndexForm
    <3>1. /\ s \in SyndromeVectors /\ IndexSyndromes(synd, s) /\ n \in 0 .. Degree - 1
          /\ UpTo(p, n) /\ p[0] = One /\ IndexRow(elp[u], p, n)
      BY <1>a, <1>c
    <3> QED
      BY <3>1, ZIs
  <2> QED
    BY <1>0, <1>a, <2>1
<1>3. TypePart'
  <2>1. recd' \in [0 .. nn - 1 -> IndexForm \cup PolyForm]
    BY <1>1, <1>2 DEF IntWords
  <2>2. decodeRound' \in 1 .. nn + 1
    BY <1>0, Bounds
  <2> QED
    BY <1>0, <1>z, <2>1, <2>2 DEF DecodeInv, TypePart, DecodeTypeOK
<1>4. PhasePart'
  BY <1>0 DEF DecodeInv, PhasePart
<1>5. WordPart'
  BY <1>0, <1>1, <1>2 DEF WordPart, Repaired
<1>6. SyndromePart'
  BY <1>0 DEF DecodeInv, SyndromePart
<1>7. BerlekampPart' /\ AnswerPart'
  BY <1>0 DEF BerlekampPart, AnswerPart
<1>8. RootsPart'
  <2>1. Correcting(p, n, s, root, z', recd', 1)
    <3>1. \A j \in 1 .. n : ~(j < 1)
      BY <1>a
    <3> QED
      BY <1>2, <1>a, <1>c, <1>z, <3>1 DEF Correcting
  <2>2. 1 <= n + 1
    BY <1>a
  <2>3. Locator(p, u', elp'[u'], l'[u'], SynOf(received')) /\ Len(root') = l'[u'] /\ Found(root', p, nn)
    BY <1>0, <1>a, <1>c
  <2>4. Correcting(p, l'[u'], SynOf(received'), root', z', recd', decodeRound') /\ decodeRound' <= l'[u'] + 1
    BY <1>0, <1>a, <2>1, <2>2
  <2> QED
    BY <1>0, <2>3, <2>4 DEF RootsPart
<1>9. CellPart'
  BY <1>0 DEF DecodeInv, CellPart, ElpInBounds
<1> QED
  BY <1>3, <1>4, <1>5, <1>6, <1>7, <1>8, <1>9 DEF DecodeInv

\* A symbol more: the syndromes of the error are added.
LEMMA SymbolAdded ==
  ASSUME NEW w \in IntWords, NEW k \in 0 .. nn - 1, NEW E \in PolyForm
  PROVE  /\ [w EXCEPT ![k] = @ ^^ E] \in IntWords
         /\ \E t : /\ IsOneError(t, Bits(E), k)
                   /\ \A y \in 1 .. Degree :
                        SynOf([w EXCEPT ![k] = @ ^^ E])[y] = Xor(SynOf(w)[y], t[y])
<1> DEFINE w2 == [w EXCEPT ![k] = @ ^^ E]
           Y == Bits(E)
           e == [x \in 0 .. nn - 1 |-> IF x = k THEN Y ELSE {}]
           t == [y \in 1 .. Degree |-> Raised(Y, k * (y - 1))]
<1>0. nn - 1 \in Nat /\ Degree \in Nat /\ Y \in Symbol /\ {} \in Symbol /\ k \in Nat
  BY Widths, DegreeIs, BitsType
<1>1. w[k] \in PolyForm /\ w[k] ^^ E \in PolyForm /\ Bits(w[k] ^^ E) = Xor(Bits(w[k]), Y)
  <2>1. w[k] \in PolyForm
    BY DEF IntWords
  <2> QED
    BY <2>1, XorInts
<1>2. w2 \in IntWords /\ w2[k] = w[k] ^^ E /\ \A x \in 0 .. nn - 1 : x # k => w2[x] = w[x]
  BY <1>1 DEF IntWords
<1> HIDE DEF w2, Y
<1>3. e \in Words
  BY <1>0 DEF Words
<1>4. ASSUME NEW x \in 0 .. nn - 1 PROVE AsSymbols(w2)[x] = Xor(AsSymbols(w)[x], e[x])
  <2>1. AsSymbols(w2)[x] = Bits(w2[x]) /\ AsSymbols(w)[x] = Bits(w[x])
    BY <1>2, AsSymbolsAt DEF IntWords
  <2>2. CASE x = k
    BY <1>1, <1>2, <2>1, <2>2 DEF Y
  <2>3. CASE x # k
    BY <1>2, <2>1, <2>3, XorZero
  <2> QED
    BY <2>2, <2>3
<1>5. IsSum(0 .. nn - 1, AsSymbols(w), e, AsSymbols(w2))
  <2>1. AsSymbols(w) \in Words /\ AsSymbols(w2) \in Words
    BY <1>2, SynIs
  <2> HIDE DEF e
  <2> QED
    BY <1>3, <1>4, <2>1 DEF IsSum, Words
<1>6. ASSUME NEW y \in 1 .. Degree PROVE SynOf(w2)[y] = Xor(SynOf(w)[y], t[y]) /\ t[y] \in Symbol
  <2>0. y - 1 \in Nat /\ k * (y - 1) \in Nat
    <3>1. y - 1 \in Nat
      BY <1>0
    <3> QED
      BY <1>0, <3>1
  <2>1. ValueAt(AsSymbols(w2), y - 1) = Xor(ValueAt(AsSymbols(w), y - 1), ValueAt(e, y - 1))
    BY <1>0, <1>5, <2>0, ValueAdd
  <2>2. SynOf(w2)[y] = ValueAt(AsSymbols(w2), y - 1) /\ SynOf(w)[y] = ValueAt(AsSymbols(w), y - 1)
    BY <1>2, SynIs DEF Explains
  <2> DEFINE f == [x \in 0 .. nn - 1 |-> Raised(e[x], (y - 1) * x)]
  <2>3. ValueAt(e, y - 1) = XorSum(f) /\ f \in [0 .. nn - 1 -> Symbol]
    <3>1. e \in [0 .. nn - 1 -> Symbol]
      BY <1>3 DEF Words
    <3> HIDE DEF e
    <3> QED
      BY <1>0, <2>0, <3>1, ValueIs
  <2>4. ASSUME NEW x \in 0 .. nn - 1, x # k PROVE f[x] = {}
    <3>1. x \in Nat
      BY <1>0
    <3>2. (y - 1) * x \in Nat
      BY <2>0, <3>1
    <3>3. f[x] = Raised({}, (y - 1) * x)
      BY <2>4
    <3> QED
      BY <3>2, <3>3, RaisedZero
  <2>5. f[k] = t[y]
    <3>1. (y - 1) * k = k * (y - 1)
      BY <1>0, <2>0
    <3> QED
      BY <3>1
  <2>6. t[y] \in Symbol
    BY <1>0, <2>0, RaisedType
  <2> HIDE DEF f, e, t
  <2>7. XorSum(f) = f[k]
    BY <2>3, <2>4, OneTerm
  <2> QED
    BY <2>1, <2>2, <2>3, <2>5, <2>6, <2>7
<1>7. t \in SyndromeVectors
  <2>1. t = [y \in 1 .. Degree |-> t[y]]
    OBVIOUS
  <2> HIDE DEF t
  <2> QED
    BY <1>6, <2>1 DEF SyndromeVectors
<1>8. IsOneError(t, Y, k)
  BY <1>7 DEF IsOneError
<1> HIDE DEF t, e
<1>9. w2 \in IntWords /\ \E v : /\ IsOneError(v, Y, k)
                                /\ \A y \in 1 .. Degree : SynOf(w2)[y] = Xor(SynOf(w)[y], v[y])
  BY <1>2, <1>6, <1>8
<1> QED
  BY <1>9 DEF w2, Y

\* Forney's step: the error Y, with syndromes t, is added to a word with syndromes s at
\* location i; c is the polynomial of the other ones.
CorrectsOne(n, i, rt, c, p, s, Y, t, v) ==
  /\ Complete(rt, n) /\ UpTo(c, n - 1) /\ p = Located(c, nn - rt[i])
  /\ \A j \in 1 .. n : j # i => ValueAt(c, rt[j]) = {}
  /\ s \in SyndromeVectors /\ Row(Degree + 1, p, n, s)
  /\ Y \in Symbol /\ Raised(Mul(ValueAt(c, rt[i]), Y), rt[i]) = ValueAt(Numer(p, s, n), rt[i])
  /\ IsOneError(t, Y, nn - rt[i])
  /\ v \in SyndromeVectors /\ \A y \in 1 .. Degree : v[y] = Xor(s[y], t[y])

\* The error at that location is taken away, the others are as they were.
LEMMA OneCorrected ==
  ASSUME NEW n \in 1 .. Degree, NEW i \in 1 .. n, NEW rt, NEW c, NEW p, NEW s, NEW Y, NEW t, NEW v,
         CorrectsOne(n, i, rt, c, p, s, Y, t, v)
  PROVE  /\ Row(Degree + 1, p, n, v)
         /\ ValueAt(Numer(p, v, n), rt[i]) = {}
         /\ \A j \in 1 .. n : j # i => ValueAt(Numer(p, v, n), rt[j]) = ValueAt(Numer(p, s, n), rt[j])
<1>a. /\ Complete(rt, n) /\ UpTo(c, n - 1) /\ p = Located(c, nn - rt[i])
      /\ \A j \in 1 .. n : j # i => ValueAt(c, rt[j]) = {}
      /\ s \in SyndromeVectors /\ Row(Degree + 1, p, n, s)
      /\ Y \in Symbol /\ Raised(Mul(ValueAt(c, rt[i]), Y), rt[i]) = ValueAt(Numer(p, s, n), rt[i])
      /\ IsOneError(t, Y, nn - rt[i])
      /\ v \in SyndromeVectors /\ \A y \in 1 .. Degree : v[y] = Xor(s[y], t[y])
  BY DEF CorrectsOne
<1>0. /\ Degree \in Nat /\ n \in Nat /\ n \in 0 .. Degree /\ rt[i] \in 1 .. nn /\ nn - rt[i] \in Nat
      /\ n - 1 \in 0 .. Degree - 1 /\ (n - 1) + 1 = n /\ p \in Polynomial /\ t \in SyndromeVectors
      /\ \A j \in 1 .. n : rt[j] \in Nat
  <2>1. Degree \in Nat /\ n \in Nat /\ n \in 0 .. Degree /\ n - 1 \in 0 .. Degree - 1 /\ (n - 1) + 1 = n
    BY DegreeIs
  <2>2. \A j \in 1 .. n : rt[j] \in 1 .. nn
    BY <1>a DEF Complete
  <2>3. rt[i] \in 1 .. nn /\ nn - rt[i] \in Nat /\ \A j \in 1 .. n : rt[j] \in Nat
    BY <1>a, <2>2, Widths
  <2> QED
    BY <1>a, <2>1, <2>3 DEF Row, IsOneError
<1>1. ASSUME NEW y \in n + 1 .. Degree PROVE Product(p, v, y) = {}
  <2>1. y \in Int /\ y \in 1 .. Degree /\ y \in n + 1 .. (Degree + 1) - 1 /\ y - 1 \in 0 .. Degree /\ y - 1 > n - 1
    BY <1>a, <1>0
  <2>2. Product(p, v, y) = Xor(Product(p, s, y), Product(p, t, y))
    BY <1>a, <1>0, <2>1, ProductAddRight
  <2>3. Product(p, s, y) = {}
    BY <1>a, <1>0, <2>1 DEF Row
  <2>4. Product(p, t, y) = Mul(c[y - 1], Y)
    BY <1>a, <1>0, <2>1, LocatedProduct
  <2>5. c[y - 1] = {}
    BY <1>a, <2>1 DEF UpTo
  <2> QED
    BY <1>a, <2>2, <2>3, <2>4, <2>5, MulZero, XorZero
<1>2. Row(Degree + 1, p, n, v)
  <2>1. \A y \in n + 1 .. (Degree + 1) - 1 : y \in n + 1 .. Degree
    BY <1>a, <1>0
  <2> QED
    BY <1>a, <1>0, <1>1, <2>1 DEF Row
<1>3. ASSUME NEW j \in 1 .. n
      PROVE  ValueAt(Numer(p, v, n), rt[j]) =
               Xor(ValueAt(Numer(p, s, n), rt[j]), Raised(Mul(ValueAt(c, rt[j]), Y), rt[j]))
  <2>1. ValueAt(Numer(p, v, n), rt[j]) = Xor(ValueAt(Numer(p, s, n), rt[j]), ValueAt(Numer(p, t, n), rt[j]))
    BY <1>a, <1>0, NumerAdd
  <2>2. ValueAt(Numer(Located(c, nn - rt[i]), t, (n - 1) + 1), rt[j]) = Raised(Mul(ValueAt(c, rt[j]), Y), rt[j])
    BY <1>a, <1>0, NumerOne
  <2> QED
    BY <1>a, <1>0, <2>1, <2>2
<1>4. ASSUME NEW j \in 1 .. n, j # i
      PROVE  ValueAt(Numer(p, v, n), rt[j]) = ValueAt(Numer(p, s, n), rt[j])
  <2>1. Raised(Mul(ValueAt(c, rt[j]), Y), rt[j]) = {}
    <3>1. ValueAt(c, rt[j]) = {} /\ rt[j] \in Nat
      BY <1>a, <1>0, <1>4
    <3> QED
      BY <1>a, <3>1, MulZero, RaisedZero
  <2> QED
    BY <1>a, <1>3, <2>1, XorZero
<1>5. ValueAt(Numer(p, v, n), rt[i]) = {}
  BY <1>a, <1>3, XorZero
<1> QED
  BY <1>a, <1>2, <1>4, <1>5

\* Nothing left to correct: the syndromes are zero.
LEMMA NothingLeft ==
  ASSUME NEW s \in SyndromeVectors, NEW p, NEW n, Row(Degree + 1, p, n, s),
         NEW rt, Found(rt, p, nn), Len(rt) = n,
         \A j \in 1 .. n : ValueAt(Numer(p, s, n), rt[j]) = {}
  PROVE  \A y \in 1 .. Degree : s[y] = {}
<1> DEFINE a == Numer(p, s, n)
<1>0. /\ Degree \in Nat /\ Degree - 1 \in Nat /\ (Degree - 1) + 1 = Degree /\ Degree > 1
      /\ n \in 0 .. Degree /\ n \in Nat /\ p \in Polynomial /\ p[0] = One
  BY DegreeIs DEF Row
<1>1. UpTo(a, n) /\ a \in Polynomial /\ a[0] = {}
      /\ \A x \in 1 .. n : x \in 0 .. Degree /\ a[x] = Product(p, s, x)
  <2>1. UpTo(a, n) /\ a \in Polynomial
    BY <1>0, NumerType
  <2>2. a[0] = {} /\ \A x \in 1 .. n : x \in 0 .. Degree /\ a[x] = Product(p, s, x)
    BY <1>0 DEF Numer
  <2> QED
    BY <2>1, <2>2
<1>r. RootSet(rt) \subseteq 1 .. nn /\ Cardinality(RootSet(rt)) = n /\ \A r \in RootSet(rt) : ValueAt(a, r) = {}
  <2>1. RootSet(rt) \subseteq 1 .. nn /\ Cardinality(RootSet(rt)) = n
    BY FoundCount
  <2>2. \A r \in RootSet(rt) : ValueAt(a, r) = {}
    BY DEF RootSet
  <2> QED
    BY <2>1, <2>2
<1> HIDE DEF a
<1>2. ASSUME NEW y \in 1 .. n PROVE a[y] = {}
  <2> SUFFICES ASSUME a[y] # {} PROVE FALSE
    OBVIOUS
  <2> DEFINE b == [x \in 0 .. Degree - 1 |-> a[x + 1]]
             f == [x \in 0 .. Degree |-> IF x < Degree THEN b[x] ELSE {}]
  <2>0. n - 1 \in 0 .. Degree /\ n - 1 \in Nat /\ y - 1 \in 0 .. Degree /\ (y - 1) + 1 = y /\ y - 1 < Degree
        /\ y - 1 \in 0 .. Degree - 1 /\ \A x \in 0 .. Degree - 1 : x + 1 \in 0 .. Degree /\ x \in 0 .. Degree /\ x < Degree
    BY <1>0
  <2>1. \A x \in 0 .. Degree : a[x] \in Symbol
    BY <1>1, PolynomialAt
  <2>2. b \in [0 .. Degree - 1 -> Symbol] /\ \A x \in 0 .. Degree - 1 : a[x + 1] = b[x]
    BY <2>0, <2>1
  <2> HIDE DEF b
  <2>3. f \in [0 .. Degree -> Symbol] /\ (\A x \in 0 .. Degree - 1 : f[x] = b[x])
        /\ (\A x \in 0 .. Degree : x \notin 0 .. Degree - 1 => f[x] = {})
    <3>1. \A x \in 0 .. Degree : x < Degree => x \in 0 .. Degree - 1
      BY <1>0
    <3>2. \A x \in 0 .. Degree : (IF x < Degree THEN b[x] ELSE {}) \in Symbol
      BY <2>2, <3>1, Widths
    <3> QED
      BY <2>0, <3>1, <3>2
  <2> HIDE DEF f
  <2>4. UpTo(f, n - 1)
    <3> SUFFICES ASSUME NEW x \in 0 .. Degree, x > n - 1 PROVE f[x] = {}
      BY <2>3 DEF UpTo, Polynomial
    <3>1. CASE x \in 0 .. Degree - 1
      <4>1. x + 1 \in 0 .. Degree /\ x + 1 > n
        BY <1>0, <2>0, <3>1
      <4>2. a[x + 1] = {}
        BY <1>1, <4>1 DEF UpTo
      <4> QED
        BY <2>2, <2>3, <3>1, <4>2
    <3>2. CASE x \notin 0 .. Degree - 1
      BY <2>3, <3>2
    <3> QED
      BY <3>1, <3>2
  <2>5. f[y - 1] # {}
    BY <2>0, <2>2, <2>3
  <2>6. ASSUME NEW r \in RootSet(rt) PROVE ValueAt(f, r) = {}
    <3>1. r \in Nat
      BY <1>r
    <3>2. Extends(0 .. Degree, 0 .. Degree - 1, f, b)
      BY <2>0, <2>2, <2>3 DEF Extends
    <3>3. ValueAt(f, r) = ValueAt(b, r)
      BY <1>0, <3>1, <3>2, ValueExtend
    <3>4. ValueAt(a, r) = Raised(ValueAt(b, r), r)
      <4>1. a \in [0 .. (Degree - 1) + 1 -> Symbol]
        BY <1>0, <1>1 DEF Polynomial
      <4> QED
        BY ZenonT(40), <1>0, <1>1, <2>2, <3>1, <4>1, ValueShift
    <3>5. ValueAt(b, r) = {}
      BY <1>r, <3>1, <3>4, ValueType, RaisedNonZero
    <3> QED
      BY <3>3, <3>5
  <2>7. Roots(f, RootSet(rt))
    BY <1>r, <2>6 DEF Roots
  <2>8. Cardinality(RootSet(rt)) <= n - 1
    BY <2>0, <2>4, <2>5, <2>7, RootCount
  <2> QED
    BY <1>0, <1>r, <2>8
<1>3. ASSUME NEW y \in 1 .. Degree PROVE Product(p, s, y) = {}
  <2>1. CASE y \in 1 .. n
    BY <1>1, <1>2, <2>1
  <2>2. CASE y \notin 1 .. n
    <3>1. y \in n + 1 .. (Degree + 1) - 1
      BY <1>0, <2>2
    <3> QED
      BY <1>0, <3>1 DEF Row
  <2> QED
    BY <2>1, <2>2
<1> SUFFICES ASSUME NEW o \in 1 .. Degree, s[o] # {} PROVE FALSE
  OBVIOUS
<1> DEFINE N == { x \in 1 .. Degree : s[x] # {} }
<1>4. N \subseteq Nat /\ N # {}
  OBVIOUS
<1>5. PICK y \in N : \A x \in N : y <= x
  <2> HIDE DEF N
  <2> QED
    BY <1>4, Least
<1>6. y \in 1 .. Degree /\ y \in Int /\ s[y] # {} /\ s[y] \in Symbol
  BY DEF SyndromeVectors
<1> DEFINE D == 0 .. Degree
           f == [x \in D |-> Mul(p[x], At(s, y - x))]
<1>7. Product(p, s, y) = XorSum(f) /\ f \in [D -> Symbol]
  BY <1>0, <1>6, ProductType DEF Product
<1>8. ASSUME NEW x \in D, x # 0 PROVE f[x] = {}
  <2>1. At(s, y - x) = {}
    <3>1. y - x < y /\ y - x \in Int
      BY <1>6, <1>8
    <3>2. y - x \in 1 .. Degree => s[y - x] = {}
      BY <1>5, <1>6, <3>1
    <3> QED
      BY <3>2 DEF At
  <2>2. p[x] \in Symbol
    BY <1>0, PolynomialAt
  <2> QED
    BY <2>1, <2>2, MulZero
<1>9. 0 \in D /\ f[0] = s[y]
  <2>1. y - 0 = y /\ 0 \in D
    BY <1>0, <1>6
  <2>2. f[0] = Mul(One, s[y])
    BY <1>0, <1>6, <2>1 DEF At
  <2> QED
    BY <1>6, <2>1, <2>2, MulOne
<1> HIDE DEF f, D, N
<1>10. XorSum(f) = f[0]
  BY <1>7, <1>8, <1>9, OneTerm
<1> QED
  BY <1>3, <1>6, <1>7, <1>9, <1>10

\* The polynomial of the locations while symbols are corrected.
LEMMA InValues ==
  ASSUME DecodeInv, decodePc = "values"
  PROVE  \E s, p, n :
           /\ s \in SyndromeVectors /\ s = SynOf(received)
           /\ n = l[u] /\ n \in 0 .. tt /\ n \in Nat /\ n \in 0 .. Degree - 1
           /\ Locator(p, u, elp[u], n, s) /\ UpTo(p, n) /\ p[0] = One
           /\ Found(root, p, nn) /\ Len(root) = n /\ decodeRound <= n + 1 /\ decodeRound \in Nat
           /\ Correcting(p, n, s, root, z, recd, decodeRound)
           /\ Complete(root, n) /\ \A j \in 1 .. n : ValueAt(p, root[j]) = {}
<1>1. PICK s, p, n :
           /\ s \in SyndromeVectors /\ s = SynOf(received) /\ IndexSyndromes(synd, s)
           /\ n = l[u] /\ n \in 0 .. tt /\ n \in Nat /\ n \in 0 .. Degree
           /\ Locator(p, u, elp[u], n, s) /\ UpTo(p, n) /\ p[0] = One /\ p \in Polynomial
           /\ decodePc = "roots" => Found(root, p, decodeRound - 1) /\ reg = TermsAt(p, n, decodeRound - 1)
           /\ decodePc = "values" => /\ Found(root, p, nn) /\ Len(root) = n /\ decodeRound <= n + 1
                                     /\ Correcting(p, n, s, root, z, recd, decodeRound)
  BY InRoots
<1>2. n \in 0 .. Degree - 1 /\ decodeRound \in Nat
  BY <1>1, Bounds DEF DecodeInv, TypePart, DecodeTypeOK
<1>3. Complete(root, n) /\ \A j \in 1 .. n : ValueAt(p, root[j]) = {}
  BY <1>1, CompleteIs
<1> QED
  BY <1>1, <1>2, <1>3

\* A symbol is corrected: its error is gone and the others stay.
LEMMA CorrectSymbolInv ==
  ASSUME DecodeInv, CorrectSymbol
  PROVE  DecodeInv'
<1>0. /\ decodePc = "values" /\ decodeRound <= l[u] /\ decodeRound' = decodeRound + 1
      /\ recd' = [recd EXCEPT ![Loc(decodeRound)] = @ ^^ ErrorValue]
      /\ decodePc' = decodePc /\ u' = u /\ synd' = synd
      /\ received' = received /\ elp' = elp /\ d' = d /\ l' = l
      /\ reg' = reg /\ root' = root /\ z' = z /\ result' = result
  BY DEF CorrectSymbol, berlekampVars
<1>1. PICK s, p, n :
           /\ s \in SyndromeVectors /\ s = SynOf(received)
           /\ n = l[u] /\ n \in 0 .. tt /\ n \in Nat /\ n \in 0 .. Degree - 1
           /\ Locator(p, u, elp[u], n, s) /\ UpTo(p, n) /\ p[0] = One
           /\ Found(root, p, nn) /\ Len(root) = n /\ decodeRound <= n + 1 /\ decodeRound \in Nat
           /\ Correcting(p, n, s, root, z, recd, decodeRound)
           /\ Complete(root, n) /\ \A j \in 1 .. n : ValueAt(p, root[j]) = {}
  BY <1>0, InValues
<1>2. PICK i : /\ i = decodeRound /\ i \in 1 .. n /\ n \in 1 .. Degree /\ n \in 0 .. Degree
               /\ n - 1 \in 0 .. Degree - 1 /\ (n - 1) + 1 = n /\ i + 1 <= n + 1 /\ i + 1 \in 1 .. nn + 1
               /\ (i + 1) - 1 = i /\ i \in Nat
  <2>1. decodeRound \in 1 .. nn + 1 /\ decodeRound <= n
    BY <1>0, <1>1 DEF DecodeInv, TypePart, DecodeTypeOK
  <2>2. n < nn /\ Degree \in Nat /\ nn \in Nat
    BY <1>1, Bounds
  <2> QED
    BY <1>1, <2>1, <2>2
<1>3. PICK r : r = root[i] /\ r \in 1 .. nn /\ r \in Nat /\ nn - r \in 0 .. nn - 1 /\ nn - r \in Nat
  <2>1. root[i] \in 1 .. nn
    BY <1>1, <1>2 DEF Complete
  <2>2. root[i] \in Nat /\ nn - root[i] \in 0 .. nn - 1 /\ nn - root[i] \in Nat
    BY <2>1, Widths
  <2> QED
    BY <2>1, <2>2
<1>4. PICK c : UpTo(c, n - 1) /\ c[0] = One /\ p = Located(c, nn - r)
  <2>1. UpTo(p, (n - 1) + 1) /\ p[0] = One /\ ValueAt(p, r) = {}
    BY <1>1, <1>2, <1>3
  <2> QED
    BY <1>2, <1>3, <2>1, Quotient
<1>5. ASSUME NEW j \in 1 .. n, j # i PROVE ValueAt(c, root[j]) = {}
  <2>1. root[j] \in 1 .. nn /\ r # root[j]
    BY <1>1, <1>2, <1>3, <1>5 DEF Complete
  <2>2. ValueAt(Located(c, nn - r), root[j]) = {}
    BY <1>1, <1>4
  <2> QED
    BY <1>2, <1>3, <1>4, <2>1, <2>2, LocatedAway
<1>6. PICK A : A = ValueAt(Numer(p, s, n), r) /\ A \in Symbol
  BY ValueType
<1>7. Numerator = Number(A)
  <2>1. z = [x \in 1 .. n |-> Log[Xor(p[x], Product(p, s, x))]]
    BY <1>1 DEF Correcting
  <2>2. root[decodeRound] = r /\ ValueAt(p, r) = {}
    BY <1>1, <1>2, <1>3
  <2>3. s \in SyndromeVectors /\ n \in 0 .. Degree /\ UpTo(p, n) /\ p[0] = One /\ r \in Nat
    BY <1>1, <1>2, <1>3
  <2>4. Numerator = Number(ValueAt(Numer(p, s, n), r))
    BY <2>1, <2>2, <2>3, NumeratorIs
  <2> QED
    BY <1>6, <2>4
<1>8. Denominator \in 0 .. nn - 1 /\ ValueAt(c, r) = Raised(One, Denominator)
  <2>1. n \in 1 .. Degree /\ i \in 1 .. n /\ Complete(root, n) /\ l[u] = n /\ decodeRound = i
        /\ UpTo(c, n - 1) /\ c[0] = One
    BY <1>1, <1>2, <1>4
  <2>2. \A j \in 1 .. n : j # i => ValueAt(c, root[j]) = {}
    BY <1>5
  <2>3. Denominator \in 0 .. nn - 1 /\ ValueAt(c, root[i]) = Raised(One, Denominator)
    BY <2>1, <2>2, DenominatorIs
  <2> QED
    BY <1>3, <2>3
<1>9. PICK E, Y : /\ E = ErrorValue /\ E \in PolyForm /\ Y = Bits(E) /\ Y \in Symbol
                  /\ Raised(Mul(ValueAt(c, r), Y), r) = A
  <2>1. root[decodeRound] = r /\ A \in Symbol /\ r \in Nat
    BY <1>2, <1>3, <1>6
  <2>2. ErrorValue \in PolyForm /\ Raised(Mul(ValueAt(c, r), Bits(ErrorValue)), r) = A
    BY <1>7, <1>8, <2>1, ErrorValueIs
  <2> QED
    BY <2>2, BitsType
<1>10. recd \in IntWords /\ Repaired(recd, received, root, i - 1)
  BY <1>0, <1>2 DEF DecodeInv, WordPart, Repaired
<1>11. recd' = [recd EXCEPT ![nn - r] = @ ^^ E]
  BY <1>0, <1>2, <1>3, <1>9 DEF Loc
<1>12. recd' \in IntWords /\ \E t : /\ IsOneError(t, Y, nn - r)
                                    /\ \A y \in 1 .. Degree : SynOf(recd')[y] = Xor(SynOf(recd)[y], t[y])
  <2>1. /\ [recd EXCEPT ![nn - r] = @ ^^ E] \in IntWords
        /\ \E t : /\ IsOneError(t, Bits(E), nn - r)
                  /\ \A y \in 1 .. Degree :
                       SynOf([recd EXCEPT ![nn - r] = @ ^^ E])[y] = Xor(SynOf(recd)[y], t[y])
    BY <1>3, <1>9, <1>10, SymbolAdded
  <2> QED
    BY <1>9, <1>11, <2>1
<1>13. PICK t : /\ IsOneError(t, Y, nn - r)
                /\ \A y \in 1 .. Degree : SynOf(recd')[y] = Xor(SynOf(recd)[y], t[y])
  BY <1>12
<1>14. PICK v, w : v = SynOf(recd) /\ w = SynOf(recd') /\ v \in SyndromeVectors /\ w \in SyndromeVectors
  <2>1. SynOf(recd) \in SyndromeVectors
    BY <1>10, SynIs
  <2>2. SynOf(recd') \in SyndromeVectors
    BY <1>12, SynIs
  <2> QED
    BY <2>1, <2>2
<1>15. Row(Degree + 1, p, n, v) /\ ValueAt(Numer(p, v, n), r) = A
       /\ \A j \in 1 .. n : ValueAt(Numer(p, v, n), root[j]) =
                              IF j < i THEN {} ELSE ValueAt(Numer(p, s, n), root[j])
  <2>1. Row(Degree + 1, p, n, v)
        /\ \A j \in 1 .. n : ValueAt(Numer(p, v, n), root[j]) =
                              IF j < i THEN {} ELSE ValueAt(Numer(p, s, n), root[j])
    BY <1>1, <1>2, <1>14 DEF Correcting
  <2>2. ~(i < i)
    BY <1>2
  <2> QED
    BY <1>2, <1>3, <1>6, <2>1, <2>2
<1>16. /\ Row(Degree + 1, p, n, w)
       /\ ValueAt(Numer(p, w, n), root[i]) = {}
       /\ \A j \in 1 .. n : j # i => ValueAt(Numer(p, w, n), root[j]) = ValueAt(Numer(p, v, n), root[j])
  <2>1. /\ n \in 1 .. Degree /\ i \in 1 .. n /\ Complete(root, n) /\ UpTo(c, n - 1)
        /\ p = Located(c, nn - root[i]) /\ v \in SyndromeVectors /\ Row(Degree + 1, p, n, v)
        /\ Y \in Symbol /\ IsOneError(t, Y, nn - root[i]) /\ w \in SyndromeVectors
    BY <1>1, <1>2, <1>3, <1>4, <1>9, <1>13, <1>14, <1>15
  <2>2. \A y \in 1 .. Degree : w[y] = Xor(v[y], t[y])
    BY <1>13, <1>14
  <2>3. \A j \in 1 .. n : j # i => ValueAt(c, root[j]) = {}
    BY <1>5
  <2>4. Raised(Mul(ValueAt(c, root[i]), Y), root[i]) = ValueAt(Numer(p, v, n), root[i])
    BY <1>3, <1>9, <1>15
  <2> QED
    <3>1. CorrectsOne(n, i, root, c, p, v, Y, t, w)
      BY <2>1, <2>2, <2>3, <2>4 DEF CorrectsOne
    <3> QED
      BY <1>2, <3>1, OneCorrected
<1>17. Correcting(p, n, s, root, z, recd', i + 1)
  <2>1. ASSUME NEW j \in 1 .. n
        PROVE  ValueAt(Numer(p, w, n), root[j]) =
                 IF j < i + 1 THEN {} ELSE ValueAt(Numer(p, s, n), root[j])
    <3>1. CASE j = i
      <4>1. i < i + 1
        BY <1>2
      <4> QED
        BY <1>16, <3>1, <4>1
    <3>2. CASE j # i
      <4>1. (j < i + 1) <=> (j < i)
        BY <1>2, <3>2
      <4> QED
        BY <1>15, <1>16, <3>2, <4>1
    <3> QED
      BY <3>1, <3>2
  <2> QED
    BY <1>1, <1>14, <1>16, <2>1 DEF Correcting
<1>18. TypePart'
  <2>1. recd' \in [0 .. nn - 1 -> IndexForm \cup PolyForm]
    BY <1>12 DEF IntWords
  <2>2. decodeRound' \in 1 .. nn + 1
    BY <1>0, <1>2
  <2> QED
    BY <1>0, <2>1, <2>2 DEF DecodeInv, TypePart, DecodeTypeOK
<1>19. PhasePart'
  BY <1>0 DEF DecodeInv, PhasePart
<1>20. WordPart'
  <2>1. \A x \in 0 .. nn - 1 : x # nn - r => recd'[x] = recd[x]
    BY <1>10, <1>11 DEF IntWords
  <2>2. ASSUME NEW x \in 0 .. nn - 1, recd'[x] # received[x]
        PROVE  \E j \in 1 .. i : x = nn - root[j]
    <3>1. CASE x = nn - r
      BY <1>2, <1>3, <3>1
    <3>2. CASE x # nn - r
      <4>1. PICK j \in 1 .. i - 1 : x = nn - root[j]
        BY <1>10, <2>1, <2>2, <3>2 DEF Repaired
      <4>2. j \in 1 .. i
        BY <1>2
      <4> QED
        BY <4>1, <4>2
    <3> QED
      BY <3>1, <3>2
  <2>3. Repaired(recd', received, root, i)
    BY <1>12, <2>2 DEF Repaired
  <2>4. decodeRound' - 1 = i
    BY <1>0, <1>2
  <2> QED
    BY <1>0, <2>3, <2>4 DEF DecodeInv, WordPart
<1>21. SyndromePart'
  BY <1>0 DEF DecodeInv, SyndromePart
<1>22. BerlekampPart' /\ AnswerPart'
  BY <1>0 DEF BerlekampPart, AnswerPart
<1>23. RootsPart'
  <2>1. Locator(p, u', elp'[u'], l'[u'], SynOf(received')) /\ Len(root') = l'[u'] /\ Found(root', p, nn)
    BY <1>0, <1>1
  <2>2. Correcting(p, l'[u'], SynOf(received'), root', z', recd', decodeRound') /\ decodeRound' <= l'[u'] + 1
    BY <1>0, <1>1, <1>2, <1>17
  <2> QED
    BY <1>0, <2>1, <2>2 DEF RootsPart
<1>24. CellPart'
  BY <1>0 DEF DecodeInv, CellPart, ElpInBounds
<1> QED
  BY <1>18, <1>19, <1>20, <1>21, <1>22, <1>23, <1>24 DEF DecodeInv

\* When all are corrected the word has no error.
LEMMA CorrectionDoneInv ==
  ASSUME DecodeInv, CorrectionDone
  PROVE  DecodeInv'
<1>0. /\ decodePc = "values" /\ decodeRound > l[u] /\ result' = 1 /\ decodePc' = "done"
      /\ recd' = recd /\ u' = u /\ synd' = synd
      /\ received' = received /\ elp' = elp /\ d' = d /\ l' = l
      /\ reg' = reg /\ root' = root /\ z' = z /\ decodeRound' = decodeRound
  BY DEF CorrectionDone, Finish, berlekampVars, correctionVars
<1>1. PICK s, p, n :
           /\ s \in SyndromeVectors /\ s = SynOf(received)
           /\ n = l[u] /\ n \in 0 .. tt /\ n \in Nat /\ n \in 0 .. Degree - 1
           /\ Locator(p, u, elp[u], n, s) /\ UpTo(p, n) /\ p[0] = One
           /\ Found(root, p, nn) /\ Len(root) = n /\ decodeRound <= n + 1 /\ decodeRound \in Nat
           /\ Correcting(p, n, s, root, z, recd, decodeRound)
           /\ Complete(root, n) /\ \A j \in 1 .. n : ValueAt(p, root[j]) = {}
  BY <1>0, InValues
<1>2. decodeRound = n + 1 /\ decodeRound - 1 = Len(root) /\ \A j \in 1 .. n : j < n + 1
  BY <1>0, <1>1
<1>3. recd \in IntWords /\ Repaired(recd, received, root, Len(root))
  BY <1>0, <1>2 DEF DecodeInv, WordPart, Repaired
<1>4. ~HasError(recd)
  <2>1. PICK v : v = SynOf(recd) /\ v \in SyndromeVectors
    BY <1>3, SynIs
  <2>2. Row(Degree + 1, p, n, v) /\ \A j \in 1 .. n : ValueAt(Numer(p, v, n), root[j]) = {}
    BY <1>1, <1>2, <2>1 DEF Correcting
  <2>3. Found(root, p, nn) /\ Len(root) = n
    BY <1>1
  <2>4. \A y \in 1 .. Degree : v[y] = {}
    BY <2>1, <2>2, <2>3, NothingLeft
  <2> QED
    BY <2>1, <2>4 DEF HasError
<1>5. TypePart'
  BY <1>0 DEF DecodeInv, TypePart, DecodeTypeOK
<1>6. PhasePart'
  BY <1>0 DEF DecodeInv, PhasePart
<1>7. WordPart'
  BY <1>0, <1>3 DEF DecodeInv, WordPart
<1>8. SyndromePart'
  BY <1>0, <1>4 DEF DecodeInv, SyndromePart
<1>9. BerlekampPart' /\ RootsPart' /\ AnswerPart'
  BY <1>0 DEF BerlekampPart, RootsPart, AnswerPart
<1>10. CellPart'
  BY <1>0 DEF DecodeInv, CellPart, ElpInBounds
<1> QED
  BY <1>5, <1>6, <1>7, <1>8, <1>9, <1>10 DEF DecodeInv

-----------------------------------------------------------------------------
(* The invariant *)

\* Every step of a call.
LEMMA DecodeStepInv ==
  ASSUME DecodeInv, DecodeStep
  PROVE  DecodeInv'
<1>1. CASE ToIndexForm
  BY <1>1, ToIndexFormInv
<1>2. CASE Syndrome
  BY <1>2, SyndromeInv
<1>3. CASE NoErrors
  BY <1>3, NoErrorsInv
<1>4. CASE StartBerlekamp
  BY <1>4, StartBerlekampInv
<1>5. CASE KeepPolynomial
  BY <1>5, KeepPolynomialInv
<1>6. CASE NewPolynomial
  BY <1>6, NewPolynomialInv
<1>7. CASE TooManyErrors
  BY <1>7, TooManyErrorsInv
<1>8. CASE StartRoots
  BY <1>8, StartRootsInv
<1>9. CASE Candidate
  BY <1>9, CandidateInv
<1>10. CASE WrongCount
  BY <1>10, WrongCountInv
<1>11. CASE FormZ
  BY <1>11, FormZInv
<1>12. CASE CorrectSymbol
  BY <1>12, CorrectSymbolInv
<1>13. CASE CorrectionDone
  BY <1>13, CorrectionDoneInv
<1> QED
  BY <1>1, <1>2, <1>3, <1>4, <1>5, <1>6, <1>7, <1>8, <1>9, <1>10, <1>11, <1>12, <1>13 DEF DecodeStep

\* Nothing outside the variables of the call matters.
LEMMA DecodeStutters ==
  ASSUME DecodeInv, UNCHANGED decodeVars
  PROVE  DecodeInv'
<1>0. /\ decodePc' = decodePc /\ decodeRound' = decodeRound /\ received' = received /\ recd' = recd
      /\ synd' = synd /\ u' = u /\ elp' = elp /\ d' = d /\ l' = l
      /\ reg' = reg /\ root' = root /\ z' = z /\ result' = result
  BY DEF decodeVars
<1>1. TypePart' /\ PhasePart' /\ WordPart'
  BY <1>0 DEF DecodeInv, TypePart, DecodeTypeOK, PhasePart, WordPart
<1>2. SyndromePart' /\ BerlekampPart' /\ AnswerPart' /\ CellPart'
  BY <1>0 DEF DecodeInv, SyndromePart, BerlekampPart, AnswerPart, CellPart, ElpInBounds
<1>3. RootsPart'
  BY <1>0 DEF DecodeInv, RootsPart
<1> QED
  BY <1>1, <1>2, <1>3 DEF DecodeInv

\* What the channel delivers.
LEMMA Delivered ==
  ASSUME NEW c \in Sent, NEW e \in Errors
  PROVE  /\ c \in IntWords /\ e \in IntWords
         /\ [x \in 0 .. nn - 1 |-> c[x] ^^ e[x]] \in IntWords
         /\ \A x \in 0 .. nn - 1 : Bits(c[x] ^^ e[x]) = Xor(Bits(c[x]), Bits(e[x]))
<1>1. c \in IntWords /\ e \in IntWords
  BY ChannelAssumption DEF IntWords
<1>2. \A x \in 0 .. nn - 1 : c[x] \in PolyForm /\ e[x] \in PolyForm
  BY <1>1 DEF IntWords
<1>3. \A x \in 0 .. nn - 1 : /\ c[x] ^^ e[x] \in PolyForm
                              /\ Bits(c[x] ^^ e[x]) = Xor(Bits(c[x]), Bits(e[x]))
  BY <1>2, XorInts
<1> QED
  BY <1>1, <1>3 DEF IntWords

\* Every step of the specification keeps the invariant.
LEMMA DecodeNextInv ==
  ASSUME DecodeInv, [DecodeNext]_decodeVars
  PROVE  DecodeInv'
<1>1. CASE Call
  <2>1. PICK c \in Sent, e \in Errors : DecodeCall([x \in 0 .. nn - 1 |-> c[x] ^^ e[x]])
    BY <1>1 DEF Call
  <2>2. [x \in 0 .. nn - 1 |-> c[x] ^^ e[x]] \in IntWords
    BY Delivered
  <2> QED
    BY <2>1, <2>2, CallInv
<1>2. CASE DecodeStep
  BY <1>2, DecodeStepInv
<1>3. CASE UNCHANGED decodeVars
  BY <1>3, DecodeStutters
<1> QED
  BY <1>1, <1>2, <1>3 DEF DecodeNext

\* The inductive invariant of decode_rs.
THEOREM DecodeInvariant == DecodeSpec => []DecodeInv
<1>1. DecodeInit => DecodeInv
  BY InitInv
<1>2. DecodeInv /\ [DecodeNext]_decodeVars => DecodeInv'
  BY DecodeNextInv
<1> QED
  BY <1>1, <1>2, PTL DEF DecodeSpec

\* The arrays keep their types and lengths: no index form where the code reads a symbol, no
\* subscript outside, whatever word was received.
THEOREM DecodeTypes == DecodeSpec => []DecodeTypeOK
<1>1. DecodeInv => DecodeTypeOK
  BY DEF DecodeInv, TypePart
<1> QED
  BY <1>1, DecodeInvariant, PTL

\* Berlekamp's algorithm generates the syndromes seen so far, for every word.
LEMMA KeyEquationIs ==
  ASSUME DecodeInv
  PROVE  KeyEquation
<1> SUFFICES ASSUME decodePc = "berlekamp", NEW y \in l[u] + 1 .. u - 1
             PROVE  XorOf([x \in 0 .. l[u] |-> Times(IndexOf[elp[u][x]], synd[y - x])]) = 0
  BY DEF KeyEquation
<1>1. PICK s, p : /\ s \in SyndromeVectors /\ s = SynOf(received) /\ IndexSyndromes(synd, s)
                  /\ Tracks(u, p, elp, d, l, s)
  BY InPhase
<1>2. u \in 1 .. Degree + 1 /\ u \in 0 .. u
  BY <1>1, Bounds DEF Tracks
<1>3. Row(u, p[u], l[u], s) /\ PolyRow(elp[u], p[u], l[u])
  BY <1>1, <1>2 DEF Tracks
<1>4. s \in SyndromeVectors /\ IndexSyndromes(synd, s)
  BY <1>1
<1> QED
  BY <1>2, <1>3, <1>4, KeySumIs

\* Newton's identities hold between any two iterations of Berlekamp's algorithm.
THEOREM KeyEquationHolds == DecodeSpec => []KeyEquation
<1>1. DecodeInv => KeyEquation
  BY KeyEquationIs
<1> QED
  BY <1>1, DecodeInvariant, PTL

\* root[] and loc[] are never written behind their end, for any word.
THEOREM RootsStayInBounds == DecodeSpec => []RootsInBounds
<1>1. DecodeInv => RootsInBounds
  BY DEF DecodeInv, TypePart, RootsInBounds
<1> QED
  BY <1>1, DecodeInvariant, PTL

-----------------------------------------------------------------------------
(* With fewer errors than parity symbols no row is written behind its end *)

\* What the channel may do at most.
FewErrors ==
  /\ \A c \in Sent : IsCodeword(AsSymbols(c))
  /\ \A e \in Errors : Cardinality(Support(AsSymbols(e))) < nn - kk

\* The word of a call came through the channel.
CameThrough ==
  \/ ~HasError(received) /\ received \in IntWords
  \/ \E c \in Sent, e \in Errors : received = [x \in 0 .. nn - 1 |-> c[x] ^^ e[x]]

\* Then such a number of errors explains the syndromes.
LEMMA FewErrorsExplain ==
  ASSUME FewErrors, CameThrough
  PROVE  ErrorsBelow(Degree - 1, SynOf(received))
<1>0. nn - 1 \in Nat /\ Degree - 1 \in Nat /\ Degree = nn - kk /\ nn - kk \in Nat /\ Degree \in Nat
  BY Bounds
<1>1. CASE ~HasError(received) /\ received \in IntWords
  <2> DEFINE w == [x \in 0 .. nn - 1 |-> {}]
  <2>1. w \in Words /\ \A x \in 0 .. nn - 1 : w[x] = {}
    BY Widths DEF Words
  <2>2. Support(w) = {}
    BY <2>1 DEF Support
  <2> HIDE DEF w
  <2>3. ASSUME NEW y \in 1 .. Degree PROVE SynOf(received)[y] = ValueAt(w, y - 1)
    <3>1. y - 1 \in Nat
      BY <1>0
    <3>2. ValueAt(w, y - 1) = {}
      BY <2>1, <3>1, ZeroWord
    <3> QED
      BY <1>1, <3>2 DEF HasError
  <2>4. Explains(w, SynOf(received))
    BY <2>1, <2>3 DEF Explains
  <2>5. Cardinality(Support(w)) <= Degree - 1
    BY <1>0, <2>2, FS_EmptySet
  <2> QED
    BY <2>4, <2>5 DEF ErrorsBelow
<1>2. CASE \E c \in Sent, e \in Errors : received = [x \in 0 .. nn - 1 |-> c[x] ^^ e[x]]
  <2>1. PICK c \in Sent, e \in Errors : received = [x \in 0 .. nn - 1 |-> c[x] ^^ e[x]]
    BY <1>2
  <2>2. c \in IntWords /\ e \in IntWords /\ received \in IntWords
        /\ \A x \in 0 .. nn - 1 : Bits(received[x]) = Xor(Bits(c[x]), Bits(e[x]))
    BY <2>1, Delivered
  <2>3. AsSymbols(c) \in Words /\ AsSymbols(e) \in Words /\ AsSymbols(received) \in Words
    BY <2>2, SynIs
  <2>4. ASSUME NEW x \in 0 .. nn - 1
        PROVE AsSymbols(received)[x] = Xor(AsSymbols(c)[x], AsSymbols(e)[x])
    BY <2>2, AsSymbolsAt DEF IntWords
  <2>5. IsSum(0 .. nn - 1, AsSymbols(c), AsSymbols(e), AsSymbols(received))
    BY <2>3, <2>4 DEF IsSum, Words
  <2>6. ASSUME NEW y \in 1 .. Degree PROVE SynOf(received)[y] = ValueAt(AsSymbols(e), y - 1)
    <3>1. y - 1 \in Nat /\ y - 1 \in 0 .. Degree - 1
      BY <1>0
    <3>2. ValueAt(AsSymbols(received), y - 1) = Xor(ValueAt(AsSymbols(c), y - 1), ValueAt(AsSymbols(e), y - 1))
      BY <1>0, <2>5, <3>1, ValueAdd
    <3>3. ValueAt(AsSymbols(c), y - 1) = {}
      BY <3>1, CodewordIs DEF FewErrors
    <3>4. SynOf(received)[y] = ValueAt(AsSymbols(received), y - 1)
      BY <2>2, SynIs DEF Explains
    <3> QED
      BY <3>2, <3>3, <3>4, XorZero
  <2>7. Explains(AsSymbols(e), SynOf(received))
    BY <2>3, <2>6 DEF Explains
  <2>8. Cardinality(Support(AsSymbols(e))) < nn - kk /\ Cardinality(Support(AsSymbols(e))) \in Nat
    BY SupportFinite DEF FewErrors
  <2>9. Cardinality(Support(AsSymbols(e))) <= Degree - 1
    BY <1>0, <2>8
  <2> QED
    BY <2>7, <2>9 DEF ErrorsBelow
<1> QED
  BY <1>1, <1>2 DEF CameThrough

\* No step of a call changes the word it was made with.
LEMMA ReceivedStays == DecodeStep => received' = received
<1>1. ToIndexForm \/ Syndrome \/ NoErrors \/ StartBerlekamp => received' = received
  BY DEF ToIndexForm, Syndrome, NoErrors, StartBerlekamp
<1>2. KeepPolynomial \/ NewPolynomial => received' = received
  BY DEF KeepPolynomial, NewPolynomial, Iterated
<1>3. TooManyErrors \/ StartRoots \/ Candidate \/ WrongCount => received' = received
  BY DEF TooManyErrors, StartRoots, Candidate, WrongCount
<1>4. FormZ \/ CorrectSymbol \/ CorrectionDone => received' = received
  BY DEF FormZ, CorrectSymbol, CorrectionDone
<1> QED
  BY <1>1, <1>2, <1>3, <1>4 DEF DecodeStep

\* The word of zeros, which is there before the first call, has no error.
LEMMA NothingReceived ==
  ASSUME DecodeInit
  PROVE  ~HasError(received) /\ received \in IntWords
<1>0. nn - 1 \in Nat /\ nn \in Nat /\ Degree \in Nat
  BY Bounds
<1>1. received = [x \in 0 .. nn - 1 |-> 0]
  BY DEF DecodeInit
<1>2. received \in IntWords /\ \A x \in 0 .. nn - 1 : received[x] = 0
  BY <1>0, <1>1 DEF IntWords, PolyForm
<1>3. \A x \in 0 .. nn - 1 : AsSymbols(received)[x] = {}
  <2>1. \A x \in 0 .. nn - 1 : AsSymbols(received)[x] = Bits(received[x])
    BY <1>2, AsSymbolsAt DEF IntWords
  <2> QED
    BY <1>2, <2>1, BitsZero
<1>4. ASSUME NEW y \in 1 .. Degree PROVE SynOf(received)[y] = {}
  <2>1. y - 1 \in Nat
    BY <1>0
  <2>2. SynOf(received)[y] = ValueAt(AsSymbols(received), y - 1) /\ AsSymbols(received) \in Words
    BY <1>2, SynIs DEF Explains
  <2> QED
    BY <1>3, <2>1, <2>2, ZeroWord
<1> QED
  BY <1>2, <1>4 DEF HasError

\* Every word that is decoded came through the channel.
LEMMA WordsComeThrough == DecodeSpec => []CameThrough
<1>1. DecodeInit => CameThrough
  BY NothingReceived DEF CameThrough
<1>2. CameThrough /\ [DecodeNext]_decodeVars => CameThrough'
  <2> SUFFICES ASSUME CameThrough, [DecodeNext]_decodeVars PROVE CameThrough'
    OBVIOUS
  <2>1. CASE Call
    BY <2>1 DEF Call, DecodeCall, CameThrough
  <2>2. ASSUME received' = received PROVE CameThrough'
    BY <2>2 DEF CameThrough, HasError, SynOf, Syndromes
  <2> QED
    BY <2>1, <2>2, ReceivedStays DEF DecodeNext, decodeVars
<1> QED
  BY <1>1, <1>2, PTL DEF DecodeSpec

\* The last syndrome alone is explained by no fewer errors than there are parity symbols.
LEMMA OnlyLastNeeds ==
  ASSUME NEW s \in SyndromeVectors, ErrorsBelow(Degree - 1, s)
  PROVE  ~OnlyLast(s)
<1> SUFFICES ASSUME OnlyLast(s) PROVE FALSE
  OBVIOUS
<1>0. Degree \in 1 .. Degree /\ Degree - 1 \in Nat /\ Degree \in Nat /\ Degree # 0
  BY Bounds
<1>1. PICK w : Explains(w, s) /\ Cardinality(Support(w)) <= Degree - 1
  BY DEF ErrorsBelow
<1>2. \A y \in 1 .. Degree : Product(Constant, s, y) = s[y]
  BY ConstantProduct
<1>3. Row(Degree, Constant, 0, s)
  BY <1>0, <1>2, ConstantIs DEF Row, OnlyLast
<1>4. Gap(Degree, Constant, s) # {}
  BY <1>0, <1>2 DEF Gap, OnlyLast
<1>5. Degree - 0 <= Degree - 1
  BY <1>0, <1>1, <1>3, <1>4, LengthBound
<1> QED
  BY <1>0, <1>5

\* With fewer errors than parity symbols, as many as there may be beyond those that can be
\* corrected, no iteration of Berlekamp's algorithm writes behind a row of elp[][].
THEOREM RowsStayInBounds ==
  ASSUME FewErrors
  PROVE  DecodeSpec => []ElpInBounds
<1>1. DecodeInv /\ CameThrough => ElpInBounds
  <2> SUFFICES ASSUME DecodeInv, CameThrough PROVE ElpInBounds
    OBVIOUS
  <2>1. SynOf(received) \in SyndromeVectors
    BY SynIs DEF DecodeInv, WordPart
  <2>2. ~OnlyLast(SynOf(received))
    BY <2>1, FewErrorsExplain, OnlyLastNeeds
  <2> QED
    BY <2>2 DEF DecodeInv, CellPart
<1> QED
  BY <1>1, DecodeInvariant, WordsComeThrough, PTL

-----------------------------------------------------------------------------
(* Just when a row is written behind its end *)

\* The way of a call whose syndromes are all zero but the last: the polynomial is 1 up to
\* the last step, whose correction is in the cell behind the row, and the word is given up.
OverrunPart ==
  OnlyLast(SynOf(received)) =>
    /\ decodePc \notin {"roots", "values"}
    /\ decodePc = "berlekamp" /\ u <= Degree => l[u] = 0
    /\ decodePc = "berlekamp" /\ u > Degree => l[u] > tt /\ ~ElpInBounds
    /\ decodePc = "done" /\ result # -1 => result = 3 /\ ~ElpInBounds

\* Before the last step nothing is to be corrected.
LEMMA OverrunKeeps ==
  ASSUME DecodeInv, OverrunPart, KeepPolynomial
  PROVE  OverrunPart'
<1> SUFFICES ASSUME OnlyLast(SynOf(received))' PROVE OverrunPart'
  BY DEF OverrunPart
<1>0. /\ decodePc = "berlekamp" /\ decodePc' = decodePc /\ received' = received /\ u' = u + 1
      /\ InBerlekamp /\ d[u] = -1 /\ l' = [l EXCEPT ![u + 1] = l[u]]
  BY DEF KeepPolynomial, InBerlekamp, Iterated
<1>1. PICK s, p : /\ s \in SyndromeVectors /\ s = SynOf(received) /\ IndexSyndromes(synd, s)
                  /\ Tracks(u, p, elp, d, l, s)
  BY <1>0, InPhase
<1>u. u \in 1 .. Degree /\ u \in 0 .. u /\ u \in 0 .. Degree /\ u + 1 \in Rows /\ u <= Degree
  BY <1>0, <1>1, InBerlekampIs
<1>2. OnlyLast(s)
  BY <1>0, <1>1
<1>3. l[u] = 0
  BY <1>0, <1>u, <1>1, <1>2 DEF OverrunPart
<1>4. Row(u, p[u], 0, s) /\ d[u] = Log[Gap(u, p[u], s)]
  BY <1>u, <1>1, <1>3 DEF Tracks
<1>5. Gap(u, p[u], s) = {}
  BY <1>0, <1>u, <1>1, <1>4, GapIs
<1>6. u # Degree
  BY <1>u, <1>1, <1>2, <1>4, <1>5, ConstantRow DEF OnlyLast
<1>7. u' <= Degree
  BY <1>0, <1>u, <1>6, Bounds
<1>8. l'[u'] = 0
  <2>1. l \in [Rows -> {Unset} \cup 0 .. Degree]
    BY BerlekampTypes, <1>0
  <2> QED
    BY <1>0, <1>u, <1>3, <2>1
<1>9. u' \in Int /\ ~(u' > Degree)
  BY <1>0, <1>u, <1>7, Bounds
<1> QED
  BY <1>0, <1>8, <1>9 DEF OverrunPart

\* At the last step the polynomial 1 is corrected with the row of step -1.
LEMMA OverrunCorrects ==
  ASSUME DecodeInv, OverrunPart, NewPolynomial
  PROVE  OverrunPart'
<1> SUFFICES ASSUME OnlyLast(SynOf(received))' PROVE OverrunPart'
  BY DEF OverrunPart
<1>q. PICK q : q = Best(u) /\ Iterated(Corrected(q), IF l[u] > l[q] + u - q THEN l[u] ELSE l[q] + u - q)
  BY DEF NewPolynomial
<1>0. /\ decodePc = "berlekamp" /\ decodePc' = decodePc /\ received' = received /\ u' = u + 1
      /\ InBerlekamp /\ d[u] # -1
  BY <1>q DEF NewPolynomial, InBerlekamp, Iterated
<1>1. PICK s, p : /\ s \in SyndromeVectors /\ s = SynOf(received) /\ IndexSyndromes(synd, s)
                  /\ Tracks(u, p, elp, d, l, s)
  BY <1>0, InPhase
<1>u. /\ u \in 1 .. Degree /\ u \in Nat \ {0} /\ u \in Rows /\ u + 1 \in Rows
      /\ \A r \in 0 .. u : r \in Rows /\ r \in 0 .. Degree /\ l[r] \in Nat /\ l[r] <= tt /\ l[r] \in 0 .. Degree - 1
  BY <1>0, <1>1, InBerlekampIs
<1>t. elp \in [Rows -> [0 .. Behind -> Cells]] /\ l \in [Rows -> {Unset} \cup 0 .. Degree]
  BY <1>0, BerlekampTypes
<1>3. u \in 0 .. u /\ 0 \in 0 .. u /\ 0 <= Degree /\ u <= Degree /\ u \in 0 .. Degree
  BY <1>u, Bounds
<1>4. OnlyLast(s)
  BY <1>0, <1>1
<1>5. l[u] = 0
  BY <1>0, <1>3, <1>1, <1>4 DEF OverrunPart
<1>6. /\ Row(u, p[u], 0, s) /\ d[u] = Log[Gap(u, p[u], s)] /\ Leads(u, 0, d, l)
      /\ d[0] = Log[Gap(0, p[0], s)] /\ Row(0, p[0], l[0], s)
  BY <1>1, <1>3, <1>5 DEF Tracks
<1>7. u = Degree
  <2>1. Gap(u, p[u], s) # {}
    BY <1>0, <1>3, <1>1, <1>6, GapIs
  <2>2. s[u] # {}
    BY <1>u, <1>1, <1>6, <2>1, ConstantRow
  <2> QED
    BY <1>u, <1>4, <2>2, Bounds DEF OnlyLast
<1>8. q = 0 /\ l[0] = 0
  <2>1. d[0] # -1
    BY <1>6, LogOne DEF Gap
  <2>2. \A x \in 0 .. u - 1 : x \in 0 .. u /\ l[x] \in Int /\ l[x] \in Nat
    BY <1>u
  <2>3. IsBest(q, u)
    BY <1>u, <1>q, <2>1, <2>2, BestIs
  <2>4. q - l[q] = 0 /\ q \in 0 .. u - 1
    BY <1>u, <1>6, <2>2, <2>3, BestLeads
  <2>5. q \in 0 .. u /\ q \in Nat /\ l[q] \in Nat
    BY <1>u, <2>4
  <2>6. Row(q, p[q], l[q], s)
    BY <1>1, <2>5 DEF Tracks
  <2>7. l[q] <= IF q = 0 THEN 0 ELSE q - 1
    BY <2>6 DEF Row
  <2> QED
    BY <2>4, <2>5, <2>7
<1>9. IndexRow(elp[0], p[0], 0)
  BY <1>u, <1>1, <1>8 DEF Tracks
<1>10. elp[0][0] = 0
  BY <1>6, <1>9, LogOne, Bounds DEF IndexRow, Row
<1>11. Corrected(q)[Behind] \in PolyForm
  <2>0. Behind \in 0 .. Behind /\ Behind - (u - q) = 0 /\ ~(Behind <= l[u]) /\ nn \in Nat \ {0}
    BY <1>u, <1>5, <1>7, <1>8, Bounds
  <2>1. Corrected(q)[Behind] = AlphaTo[(d[u] + nn - d[q] + elp[q][0]) % nn]
    BY <1>8, <1>10, <2>0 DEF Corrected
  <2>2. \A r \in 0 .. Degree : Gap(r, p[r], s) \in Symbol => Log[Gap(r, p[r], s)] \in Int
    BY LogIs, Bounds DEF IndexForm
  <2>3. d[u] \in Int /\ d[0] \in Int
    BY <1>1, <1>3, <1>6, <2>2, GapIs
  <2>4. PICK y \in Int : y = d[u] + nn - d[q] + elp[q][0]
    BY <1>8, <1>10, <2>0, <2>3
  <2>5. y % nn \in 0 .. nn - 1
    BY <2>0, <2>4
  <2> QED
    BY <2>1, <2>4, <2>5, AlphaToIs
<1>12. PICK N : N = IF l[u] > l[q] + u - q THEN l[u] ELSE l[q] + u - q
  OBVIOUS
<1>13. N = Degree
  BY <1>5, <1>7, <1>8, <1>12, Bounds
<1>14. Iterated(Corrected(q), N)
  BY <1>q, <1>12
<1> DEFINE old == RowToIndex(elp[u], l[u])
           new == Corrected(q)
<1>15. elp' = [elp EXCEPT ![u] = old, ![u + 1] = new] /\ l' = [l EXCEPT ![u + 1] = N]
  BY <1>14 DEF Iterated
<1>16. new[Behind] # Unset
  <2>1. Unset \notin PolyForm
    BY DEF Unset, PolyForm
  <2> QED
    BY <1>11, <2>1
<1> HIDE DEF old, new
<1>17. elp'[u + 1] = new /\ l'[u + 1] = Degree
  BY <1>u, <1>t, <1>13, <1>15
<1>18. ~ElpInBounds'
  BY <1>u, <1>16, <1>17 DEF ElpInBounds
<1>19. u' > Degree /\ l'[u'] > tt /\ ~(u' <= Degree)
  BY <1>0, <1>7, <1>17, Bounds
<1> QED
  BY <1>0, <1>18, <1>19 DEF OverrunPart

\* The other steps of a call.
LEMMA OverrunStep ==
  ASSUME DecodeInv, DecodeInv', OverrunPart, DecodeStep
  PROVE  OverrunPart'
<1> SUFFICES ASSUME OnlyLast(SynOf(received))' PROVE OverrunPart'
  BY DEF OverrunPart
<1>0. OnlyLast(SynOf(received)) /\ received' = received
  BY ReceivedStays
<1>b. u \in Rows /\ Degree \in Nat /\ Degree >= 1 /\ Rows = 0 .. Degree + 1 /\ nn - kk = Degree
  <2>1. u \in Rows
    BY DEF DecodeInv, TypePart, DecodeTypeOK
  <2> QED
    BY <2>1, Bounds
<1>1. CASE ToIndexForm \/ Syndrome
  BY <1>1 DEF OverrunPart, ToIndexForm, Syndrome
<1>2. CASE NoErrors
  <2>1. decodePc' = "done" /\ result' = 0
    BY <1>2 DEF NoErrors, Finish
  <2>2. ~HasError(received)
    BY <1>0, <2>1 DEF DecodeInv, SyndromePart
  <2>3. Degree \in 1 .. Degree
    BY <1>b
  <2> QED
    BY <1>0, <2>2, <2>3 DEF HasError, OnlyLast
<1>3. CASE StartBerlekamp
  <2>1. decodePc' = "berlekamp" /\ u' = 1 /\ l' = [l EXCEPT ![0] = 0, ![1] = 0]
    BY <1>3 DEF StartBerlekamp
  <2>2. l \in [Rows -> {Unset} \cup 0 .. nn - kk] /\ 1 \in Rows
    BY <1>b DEF DecodeInv, TypePart, DecodeTypeOK
  <2>3. l'[u'] = 0 /\ u' <= Degree /\ ~(u' > Degree)
    BY <1>b, <2>1, <2>2
  <2> QED
    BY <2>1, <2>3 DEF OverrunPart
<1>4. CASE KeepPolynomial \/ NewPolynomial
  BY <1>4, OverrunKeeps, OverrunCorrects
<1>5. ASSUME BerlekampDone PROVE u > Degree /\ l[u] > tt /\ ~ElpInBounds
  <2>1. decodePc = "berlekamp" /\ (u > Degree \/ l[u] > tt)
    BY <1>b, <1>5 DEF BerlekampDone
  <2>2. u <= Degree => l[u] = 0
    BY <1>0, <2>1 DEF OverrunPart
  <2>3. tt \in Nat
    BY Bounds
  <2>4. u > Degree
    BY <1>b, <2>1, <2>2, <2>3
  <2> QED
    BY <1>0, <2>1, <2>4 DEF OverrunPart
<1>6. CASE TooManyErrors
  BY <1>5, <1>6 DEF OverrunPart, TooManyErrors, Finish, berlekampVars, ElpInBounds
<1>7. CASE StartRoots
  <2>1. BerlekampDone /\ l[u] <= tt
    BY <1>7 DEF StartRoots
  <2>2. l[u] > tt /\ l[u] \in {Unset} \cup 0 .. nn - kk /\ tt \in Nat /\ nn - kk \in Nat
    BY <1>5, <2>1, <1>b, Bounds DEF DecodeInv, TypePart, DecodeTypeOK
  <2>3. l[u] \in Int
    BY <2>2 DEF Unset
  <2> QED
    BY <2>1, <2>2, <2>3
<1>8. CASE Candidate \/ WrongCount \/ FormZ
  BY <1>0, <1>8 DEF OverrunPart, Candidate, WrongCount, FormZ
<1>9. CASE CorrectSymbol \/ CorrectionDone
  BY <1>0, <1>9 DEF OverrunPart, CorrectSymbol, CorrectionDone
<1> QED
  BY <1>1, <1>2, <1>3, <1>4, <1>6, <1>7, <1>8, <1>9 DEF DecodeStep

\* Just when a row of elp[][] is written behind its end: when all syndromes of the word are
\* zero but the last; the call then gives the word up with 3.
OverrunExactly ==
  /\ ~ElpInBounds => OnlyLast(SynOf(received))
  /\ decodePc = "done" /\ result # -1 /\ OnlyLast(SynOf(received)) => ~ElpInBounds /\ result = 3

\* The write behind a row of elp[][] happens for the words all of whose syndromes are zero
\* but the last, for every one of them and no other, and never reaches the answer.
THEOREM OverrunIsExact == DecodeSpec => []OverrunExactly
<1>1. DecodeInit => OverrunPart
  BY DEF DecodeInit, OverrunPart
<1>2. DecodeInv /\ DecodeInv' /\ OverrunPart /\ [DecodeNext]_decodeVars => OverrunPart'
  <2> SUFFICES ASSUME DecodeInv, DecodeInv', OverrunPart, [DecodeNext]_decodeVars PROVE OverrunPart'
    OBVIOUS
  <2>1. CASE Call
    BY <2>1 DEF Call, DecodeCall, OverrunPart
  <2>2. CASE DecodeStep
    BY <2>2, OverrunStep
  <2>3. CASE UNCHANGED decodeVars
    BY <2>3 DEF decodeVars, OverrunPart, SynOf, Syndromes, ElpInBounds
  <2> QED
    BY <2>1, <2>2, <2>3 DEF DecodeNext
<1>3. DecodeInv /\ OverrunPart => OverrunExactly
  BY DEF DecodeInv, CellPart, OverrunPart, OverrunExactly
<1> QED
  BY <1>1, <1>2, <1>3, DecodeInvariant, PTL DEF DecodeSpec

-----------------------------------------------------------------------------
(* The words that can be sent *)

\* A word without an error is the one sent for its first kk symbols.
LEMMA WithoutError ==
  ASSUME NEW w \in Words, IsCodeword(w)
  PROVE  \E m \in Messages : w = SentWord(m)
<1>0. nn - 1 \in Nat /\ kk \in Nat /\ nn - kk = 2 * tt /\ tt \in Nat /\ nn \in Nat /\ kk < nn
  BY Widths
<1> DEFINE m == [k \in 0 .. kk - 1 |-> w[k]]
<1>1. m \in Messages /\ \A k \in 0 .. kk - 1 : m[k] = w[k]
  BY <1>0 DEF Words, Messages
<1> HIDE DEF m
<1>2. SentWord(m) \in Words /\ IsCodeword(SentWord(m))
  BY <1>1, SentType, SentIsCodeword
<1>3. ASSUME SentWord(m) # w PROVE FALSE
  <2> DEFINE D == { k \in 0 .. nn - 1 : SentWord(m)[k] # w[k] }
  <2>1. Cardinality(D) > 2 * tt
    BY <1>2, <1>3, MinimumDistance
  <2>2. D \subseteq kk .. nn - 1
    <3> SUFFICES ASSUME NEW k \in 0 .. nn - 1, k < kk PROVE SentWord(m)[k] = w[k]
      BY <1>0
    <3>1. SentWord(m)[k] = m[k]
      BY DEF SentWord, Arranged
    <3> QED
      BY <1>0, <1>1, <3>1
  <2>3. IsFiniteSet(kk .. nn - 1) /\ Cardinality(kk .. nn - 1) = 2 * tt
    <3>1. nn - 1 - kk + 1 = 2 * tt /\ kk \in Int /\ nn - 1 \in Int /\ kk <= nn - 1
      BY <1>0
    <3> QED
      BY <3>1, FS_Interval
  <2>4. Cardinality(D) <= Cardinality(kk .. nn - 1) /\ Cardinality(D) \in Nat
    <3>1. IsFiniteSet(D) /\ Cardinality(D) <= Cardinality(kk .. nn - 1)
      BY <2>2, <2>3, FS_Subset
    <3> QED
      BY <3>1, FS_CardinalityType
  <2> QED
    BY <1>0, <2>1, <2>3, <2>4
<1> QED
  BY <1>1, <1>3

\* Two words of ints with the same symbols are the same.
LEMMA SameSymbols ==
  ASSUME NEW v \in IntWords, NEW w \in IntWords,
         \A x \in 0 .. nn - 1 : AsSymbols(v)[x] = AsSymbols(w)[x]
  PROVE  v = w
<1>1. ASSUME NEW x \in 0 .. nn - 1 PROVE v[x] = w[x]
  <2>1. AsSymbols(v)[x] = Bits(v[x]) /\ AsSymbols(w)[x] = Bits(w[x]) /\ v[x] \in PolyForm /\ w[x] \in PolyForm
    BY AsSymbolsAt DEF IntWords
  <2> QED
    BY <2>1, BitsInjective
<1>2. v = [x \in 0 .. nn - 1 |-> v[x]] /\ w = [x \in 0 .. nn - 1 |-> w[x]]
  BY DEF IntWords
<1> QED
  BY <1>1, <1>2

\* No syndrome is non-zero just when the word is a codeword.
LEMMA NoErrorIs ==
  ASSUME NEW w \in IntWords
  PROVE  ~HasError(w) <=> IsCodeword(AsSymbols(w))
BY DEF HasError, SynOf, IsCodeword, NoBit, Degree

\* The codewords of the abstract decoder are the words without an error.
LEMMA CodewordsAre ==
  ASSUME NEW w \in IntWords
  PROVE  w \in AllCodewords <=> ~HasError(w)
<1>0. AsSymbols(w) \in Words
  BY SynIs
<1>1. ASSUME NEW m \in Messages
      PROVE  LET v == [x \in 0 .. nn - 1 |-> Number(SentWord(m)[x])]
             IN  v \in IntWords /\ AsSymbols(v) = SentWord(m)
  <2> DEFINE v == [x \in 0 .. nn - 1 |-> Number(SentWord(m)[x])]
  <2>1. SentWord(m) \in [0 .. nn - 1 -> Symbol]
    BY SentType DEF Words
  <2>2. \A x \in 0 .. nn - 1 : v[x] \in PolyForm /\ Bits(v[x]) = SentWord(m)[x]
    BY <2>1, NumberType
  <2>3. v \in IntWords
    BY <2>2 DEF IntWords
  <2>4. AsSymbols(v) \in [0 .. nn - 1 -> Symbol] /\ \A x \in 0 .. nn - 1 : AsSymbols(v)[x] = Bits(v[x])
    BY <2>3, AsSymbolsIs DEF IntWords
  <2> HIDE DEF v
  <2>5. \A x \in 0 .. nn - 1 : AsSymbols(v)[x] = SentWord(m)[x]
    BY <2>2, <2>4
  <2>6. /\ AsSymbols(v) = [x \in 0 .. nn - 1 |-> AsSymbols(v)[x]]
        /\ SentWord(m) = [x \in 0 .. nn - 1 |-> SentWord(m)[x]]
    BY <2>1, <2>4
  <2>7. AsSymbols(v) = SentWord(m)
    BY <2>5, <2>6
  <2> QED
    BY <2>3, <2>7 DEF v
<1>2. w \in AllCodewords <=> \E m \in Messages : w = [x \in 0 .. nn - 1 |-> Number(SentWord(m)[x])]
  BY DEF AllCodewords, Encoded, SentWord, Messages
<1>3. ASSUME w \in AllCodewords PROVE ~HasError(w)
  <2>1. PICK m \in Messages : w = [x \in 0 .. nn - 1 |-> Number(SentWord(m)[x])]
    BY <1>2, <1>3
  <2>2. AsSymbols(w) = SentWord(m)
    BY <1>1, <2>1
  <2> QED
    BY <2>2, SentIsCodeword, NoErrorIs
<1>4. ASSUME ~HasError(w) PROVE w \in AllCodewords
  <2>1. PICK m \in Messages : AsSymbols(w) = SentWord(m)
    BY <1>0, <1>4, NoErrorIs, WithoutError
  <2>2. PICK v \in IntWords : v = [x \in 0 .. nn - 1 |-> Number(SentWord(m)[x])] /\ AsSymbols(v) = SentWord(m)
    BY <1>1
  <2>3. v = w
    BY <2>1, <2>2, SameSymbols
  <2> QED
    BY <1>2, <2>2, <2>3
<1> QED
  BY <1>3, <1>4

-----------------------------------------------------------------------------
(* decode_rs implements the bounded-distance decoder *)

\* The places in which two words differ.
Differ(v, w) == { x \in 0 .. nn - 1 : v[x] # w[x] }

\* The instance counts as this module does.
LEMMA DistanceIs == \A v, w : Ideal!Distance(v, w) = Cardinality(Differ(v, w))
<1>1. \A S : Ideal!Cardinality(S) = Cardinality(S)
  BY Zenon DEF Ideal!Cardinality, Cardinality
<1> QED
  BY <1>1 DEF Ideal!Distance, Differ

\* A codeword near the word explains its syndromes with few errors.
LEMMA NearExplains ==
  ASSUME NEW v \in IntWords, NEW w \in IntWords, ~HasError(v), Cardinality(Differ(v, w)) <= tt
  PROVE  ErrorsBelow(tt, SynOf(w))
<1>0. nn - 1 \in Nat /\ Degree \in Nat
  BY Bounds
<1>1. PICK a, b : a = AsSymbols(v) /\ b = AsSymbols(w) /\ a \in Words /\ b \in Words
  BY SynIs
<1> DEFINE e == [x \in 0 .. nn - 1 |-> Xor(b[x], a[x])]
<1>2. e \in Words /\ \A x \in 0 .. nn - 1 : e[x] = Xor(b[x], a[x])
  BY <1>1, XorType DEF Words
<1> HIDE DEF e
<1>3. IsSum(0 .. nn - 1, a, e, b)
  <2>1. \A x \in 0 .. nn - 1 : b[x] = Xor(a[x], e[x])
    BY <1>2, XorCancel
  <2> QED
    BY <1>1, <1>2, <2>1 DEF IsSum, Words
<1>4. ASSUME NEW y \in 1 .. Degree PROVE SynOf(w)[y] = ValueAt(e, y - 1)
  <2>1. y - 1 \in Nat
    BY <1>0
  <2>2. ValueAt(b, y - 1) = Xor(ValueAt(a, y - 1), ValueAt(e, y - 1))
    BY <1>0, <1>3, <2>1, ValueAdd
  <2>3. ValueAt(a, y - 1) = SynOf(v)[y] /\ SynOf(w)[y] = ValueAt(b, y - 1)
    BY <1>1, SynIs DEF Explains
  <2>4. SynOf(v)[y] = {}
    BY DEF HasError
  <2> QED
    BY <2>2, <2>3, <2>4, XorZero
<1>5. Support(e) \subseteq Differ(v, w)
  <2> SUFFICES ASSUME NEW x \in 0 .. nn - 1, v[x] = w[x] PROVE e[x] = {}
    BY DEF Support, Differ
  <2>1. a[x] = Bits(v[x]) /\ b[x] = Bits(w[x])
    BY <1>1, AsSymbolsAt DEF IntWords
  <2> QED
    BY <1>2, <2>1, XorZero
<1>6. Cardinality(Support(e)) <= tt
  <2>1. IsFiniteSet(0 .. nn - 1)
    BY <1>0, FS_Interval
  <2>2. IsFiniteSet(Differ(v, w))
    BY <2>1, FS_Subset DEF Differ
  <2>3. Cardinality(Support(e)) <= Cardinality(Differ(v, w)) /\ Cardinality(Differ(v, w)) \in Nat
    BY <1>5, <2>2, FS_Subset, FS_CardinalityType
  <2> QED
    BY <2>3, SupportFinite, Bounds
<1>7. Explains(e, SynOf(w))
  BY <1>2, <1>4 DEF Explains
<1> QED
  BY <1>6, <1>7 DEF ErrorsBelow

\* No more symbols are changed than there are locations.
LEMMA RepairedNear ==
  ASSUME NEW v \in IntWords, NEW w, NEW rt, NEW n \in Nat, n <= tt, Repaired(w, v, rt, n)
  PROVE  Cardinality(Differ(w, v)) <= tt
<1> DEFINE D == Differ(w, v)
           f == [x \in D |-> CHOOSE i \in 1 .. n : x = nn - rt[i]]
<1>1. \A x \in D : \E i \in 1 .. n : x = nn - rt[i]
  BY DEF Repaired, Differ
<1>2. \A x \in D : f[x] \in 1 .. n /\ x = nn - rt[f[x]]
  BY <1>1
<1>3. f \in [D -> 1 .. n]
  BY <1>2
<1> HIDE DEF f
<1>4. f \in Injection(D, 1 .. n)
  <2>1. ASSUME NEW x \in D, NEW y \in D, f[x] = f[y] PROVE x = y
    BY <1>2, <2>1
  <2> HIDE DEF D
  <2> QED
    BY <1>3, <2>1 DEF Injection, IsInjective
<1>5. IsFiniteSet(1 .. n) /\ Cardinality(1 .. n) = n
  BY FS_Interval
<1> HIDE DEF D
<1>6. Cardinality(D) <= n /\ Cardinality(D) \in Nat
  <2>1. IsFiniteSet(D) /\ Cardinality(D) <= Cardinality(1 .. n)
    BY <1>4, <1>5, FS_Injection
  <2> QED
    BY <1>5, <2>1, FS_CardinalityType
<1>7. Cardinality(D) <= tt
  BY <1>6, Bounds
<1> QED
  BY <1>7 DEF D

\* A word without an error comes back.
LEMMA FinishesIntact ==
  ASSUME DecodeInv, DecodeInv', decodePc # "done", decodePc' = "done", received' = received,
         result' = 0
  PROVE  Ideal!Return
<1>1. received \in IntWords /\ recd' = received /\ ~HasError(received)
  BY DEF DecodeInv, WordPart, SyndromePart
<1>2. received \in AllCodewords
  BY <1>1, CodewordsAre
<1> QED
  BY <1>1, <1>2 DEF Ideal!Return, Ideal!Intact

\* A codeword with at most tt symbols changed is left.
LEMMA FinishesCorrected ==
  ASSUME DecodeInv, DecodeInv', decodePc # "done", decodePc' = "done", received' = received,
         result' = 1
  PROVE  Ideal!Return
<1>1. /\ received \in IntWords /\ Repaired(recd', received, root', Len(root'))
      /\ ~HasError(recd') /\ HasError(received)
  BY DEF DecodeInv, WordPart, SyndromePart
<1>2. recd' \in IntWords
  BY <1>1 DEF Repaired
<1>3. recd' \in AllCodewords \ {received}
  BY <1>1, <1>2, CodewordsAre
<1>4. Len(root') \in Nat /\ Len(root') <= tt
  BY DEF DecodeInv, TypePart
<1>5. Cardinality(Differ(recd', received)) <= tt
  BY <1>1, <1>4, RepairedNear
<1>6. Ideal!Distance(recd', received) <= tt
  BY <1>5, DistanceIs
<1> QED
  BY <1>3, <1>6 DEF Ideal!Return, Ideal!Correct

\* The word comes back as it was when no codeword is near.
LEMMA FinishesGivenUp ==
  ASSUME DecodeInv, DecodeInv', decodePc # "done", decodePc' = "done", received' = received,
         result' \in {2, 3}
  PROVE  Ideal!Return
<1>1. received \in IntWords /\ recd' = received /\ ~ErrorsBelow(tt, SynOf(received))
  BY DEF DecodeInv, WordPart, AnswerPart
<1>2. ASSUME NEW c \in AllCodewords PROVE Ideal!Distance(c, received) > tt
  <2>1. c \in IntWords
    <3>1. PICK m \in Messages : c = [x \in 0 .. nn - 1 |-> Number(SentWord(m)[x])]
      BY DEF AllCodewords, Encoded, SentWord, Messages
    <3>2. \A x \in 0 .. nn - 1 : Number(SentWord(m)[x]) \in PolyForm
      BY SentType, NumberType DEF Words
    <3> QED
      BY <3>1, <3>2 DEF IntWords
  <2>2. ~HasError(c)
    BY <2>1, CodewordsAre
  <2>3. ~(Cardinality(Differ(c, received)) <= tt)
    BY <1>1, <2>1, <2>2, NearExplains
  <2>4. Cardinality(Differ(c, received)) \in Nat
    <3>1. IsFiniteSet(0 .. nn - 1)
      BY Bounds, FS_Interval
    <3>2. IsFiniteSet(Differ(c, received))
      BY <3>1, FS_Subset DEF Differ
    <3> QED
      BY <3>2, FS_CardinalityType
  <2> QED
    BY <2>3, <2>4, Bounds, DistanceIs
<1> QED
  BY <1>1, <1>2 DEF Ideal!Return, Ideal!GiveUp

\* What a step of a call does for the abstract decoder: nothing, or it is its last.
Inner ==
  /\ decodePc # "done" /\ decodePc' # "done"
  /\ received' = received /\ result' = result

Last ==
  /\ decodePc # "done" /\ decodePc' = "done"
  /\ received' = received /\ result' \in 0 .. 3

\* Every step of a call is one of these.
LEMMA InnerOrLast ==
  ASSUME DecodeInv, DecodeStep
  PROVE  Inner \/ Last
<1>1. ToIndexForm \/ Syndrome \/ StartBerlekamp => Inner
  BY DEF ToIndexForm, Syndrome, StartBerlekamp, Inner
<1>2. KeepPolynomial \/ NewPolynomial => Inner
  BY DEF KeepPolynomial, NewPolynomial, InBerlekamp, Iterated, Inner
<1>3. StartRoots \/ Candidate \/ FormZ \/ CorrectSymbol => Inner
  BY DEF StartRoots, BerlekampDone, Candidate, FormZ, CorrectSymbol, Inner
<1>4. NoErrors \/ TooManyErrors \/ WrongCount \/ CorrectionDone => Last
  BY DEF NoErrors, TooManyErrors, BerlekampDone, WrongCount, CorrectionDone, Finish, Last
<1> QED
  BY <1>1, <1>2, <1>3, <1>4 DEF DecodeStep

\* decode_rs is the bounded-distance decoder, for every code and every word, with tt errors
\* or more: the answer is the codeword within tt symbols when there is one, and the word as
\* it was with 2 or 3 when there is none.
THEOREM DecoderImplementsIdeal == DecodeSpec => ImplementsDecoder
<1>1. DecodeInit => Ideal!Init
  <2> SUFFICES ASSUME DecodeInit PROVE Ideal!Init
    OBVIOUS
  <2>1. decodePc = "done" /\ result = -1 /\ recd = received
    BY DEF DecodeInit
  <2>2. recd \in [0 .. nn - 1 -> PolyForm]
    BY <2>1, NothingReceived DEF IntWords
  <2> QED
    BY <2>1, <2>2 DEF Ideal!Init
<1>2. DecodeInv /\ DecodeInv' /\ [DecodeNext]_decodeVars
        => [Ideal!Next]_<<IF decodePc = "done" THEN recd ELSE received, decodePc # "done", result>>
  <2> SUFFICES ASSUME DecodeInv, DecodeInv', [DecodeNext]_decodeVars
               PROVE  \/ Ideal!Next
                      \/ UNCHANGED <<IF decodePc = "done" THEN recd ELSE received, decodePc # "done", result>>
    OBVIOUS
  <2>1. CASE Call
    <3>1. decodePc = "done" /\ decodePc' = "call" /\ result' = -1
      BY <2>1 DEF Call, DecodeCall
    <3>2. received' \in [0 .. nn - 1 -> PolyForm]
      BY DEF DecodeInv, WordPart, IntWords
    <3> QED
      BY <3>1, <3>2 DEF Ideal!Call, Ideal!Next
  <2>2. CASE DecodeStep
    <3>1. CASE Inner
      BY <3>1 DEF Inner
    <3>2. CASE Last
      <4>1. decodePc # "done" /\ decodePc' = "done" /\ received' = received
        BY <3>2 DEF Last
      <4>2. result' = 0 \/ result' = 1 \/ result' \in {2, 3}
        BY <3>2 DEF Last
      <4> QED
        BY <4>1, <4>2, FinishesIntact, FinishesCorrected, FinishesGivenUp DEF Ideal!Next
    <3> QED
      BY <2>2, <3>1, <3>2, InnerOrLast
  <2>3. CASE UNCHANGED decodeVars
    BY <2>3 DEF decodeVars
  <2> QED
    BY <2>1, <2>2, <2>3 DEF DecodeNext
<1> QED
  BY <1>1, <1>2, DecodeInvariant, PTL DEF DecodeSpec, ImplementsDecoder, Ideal!Spec
-----------------------------------------------------------------------------
(* What the modules that move the data assume of the coding functions *)

\* A codeword in polynomial form and its symbols.
LEMMA CodewordForm ==
  ASSUME NEW c \in AllCodewords
  PROVE  c \in IntWords /\ ~HasError(c)
<1>1. PICK m \in Messages : c = [x \in 0 .. nn - 1 |-> Number(SentWord(m)[x])]
  BY DEF AllCodewords, Encoded, SentWord, Messages
<1>2. \A x \in 0 .. nn - 1 : Number(SentWord(m)[x]) \in PolyForm
  BY SentType, NumberType DEF Words
<1>3. c \in IntWords
  BY <1>1, <1>2 DEF IntWords
<1> QED
  BY <1>3, CodewordsAre

\* The symbols of a message of ints, and the ints of a message of symbols.
LEMMA MessageForms ==
  /\ \A m \in System!Message : AsSymbols(m) \in Messages /\ \A x \in 0 .. kk - 1 : AsSymbols(m)[x] = Bits(m[x])
  /\ \A m \in Messages : \E v \in System!Message : AsSymbols(v) = m
<1>1. ASSUME NEW m \in System!Message
      PROVE  AsSymbols(m) \in Messages /\ \A x \in 0 .. kk - 1 : AsSymbols(m)[x] = Bits(m[x])
  <2>1. m \in [0 .. kk - 1 -> PolyForm]
    BY DEF System!Message, System!kk, kk
  <2> QED
    BY <2>1, AsSymbolsIs DEF Messages
<1>2. ASSUME NEW m \in Messages PROVE \E v \in System!Message : AsSymbols(v) = m
  <2> DEFINE v == [x \in 0 .. kk - 1 |-> Number(m[x])]
  <2>1. m \in [0 .. kk - 1 -> Symbol]
    BY DEF Messages
  <2>2. \A x \in 0 .. kk - 1 : v[x] \in PolyForm /\ Bits(v[x]) = m[x]
    BY <2>1, NumberType
  <2>3. v \in [0 .. kk - 1 -> PolyForm]
    BY <2>2
  <2> HIDE DEF v
  <2>4. AsSymbols(v) \in [0 .. kk - 1 -> Symbol] /\ \A x \in 0 .. kk - 1 : AsSymbols(v)[x] = Bits(v[x])
    BY <2>3, AsSymbolsIs
  <2>5. /\ AsSymbols(v) = [x \in 0 .. kk - 1 |-> AsSymbols(v)[x]]
        /\ m = [x \in 0 .. kk - 1 |-> m[x]]
    BY <2>1, <2>4
  <2>6. \A x \in 0 .. kk - 1 : AsSymbols(v)[x] = m[x]
    BY <2>2, <2>4
  <2>7. AsSymbols(v) = m
    BY <2>5, <2>6
  <2>8. v \in System!Message
    BY <2>3 DEF System!Message, System!kk, kk
  <2> QED
    BY <2>7, <2>8
<1> QED
  BY <1>1, <1>2

\* What is sent for a message, int by int, with the parity the code computes.
LEMMA SystemCodeword ==
  ASSUME NEW m \in System!Message
  PROVE  /\ ParityOf[m] \in System!Parity
         /\ System!Codeword(m) = [x \in 0 .. nn - 1 |-> Number(SentWord(AsSymbols(m))[x])]
<1>0. kk \in Nat /\ nn \in Nat /\ kk < nn /\ nn - 1 \in Nat
  BY Widths
<1>1. m \in [0 .. kk - 1 -> PolyForm] /\ System!kk = kk
  BY DEF System!Message, System!kk, kk
<1>2. AsSymbols(m) \in Messages /\ \A x \in 0 .. kk - 1 : AsSymbols(m)[x] = Bits(m[x])
  BY MessageForms
<1>3. ParityOf[m] = [x \in 0 .. nn - kk - 1 |-> Number(EncodeRS(AsSymbols(m))[x])]
  BY <1>1 DEF ParityOf
<1>4. EncodeRS(AsSymbols(m)) \in Registers
  BY <1>2, RegisterIs, Widths DEF EncodeRS
<1>5. \A x \in 0 .. nn - kk - 1 : Number(EncodeRS(AsSymbols(m))[x]) \in PolyForm
  <2>1. Degree - 1 = nn - kk - 1
    BY Bounds
  <2>2. \A x \in 0 .. nn - kk - 1 : EncodeRS(AsSymbols(m))[x] \in Symbol
    BY <1>4, <2>1 DEF Registers
  <2> QED
    BY <2>2, NumberType
<1>6. ParityOf[m] \in System!Parity
  BY <1>1, <1>3, <1>5 DEF System!Parity
<1>7. ASSUME NEW x \in 0 .. nn - 1
      PROVE  (IF x < kk THEN m[x] ELSE ParityOf[m][x - kk]) = Number(SentWord(AsSymbols(m))[x])
  <2>1. SentWord(AsSymbols(m))[x] = IF x < kk THEN AsSymbols(m)[x] ELSE EncodeRS(AsSymbols(m))[x - kk]
    BY DEF SentWord, Arranged
  <2>2. CASE x < kk
    <3>1. x \in 0 .. kk - 1
      BY <1>0, <2>2
    <3>2. Number(Bits(m[x])) = m[x]
      BY <1>1, <3>1, BitsType
    <3> QED
      BY <1>2, <2>1, <2>2, <3>1, <3>2
  <2>3. CASE ~(x < kk)
    <3>1. x - kk \in 0 .. nn - kk - 1
      BY <1>0, <2>3
    <3> QED
      BY <1>3, <2>1, <2>3, <3>1
  <2> QED
    BY <2>2, <2>3
<1> HIDE DEF ParityOf
<1>8. System!Codeword(m) = [x \in 0 .. nn - 1 |-> IF x < kk THEN m[x] ELSE ParityOf[m][x - kk]]
  BY <1>1 DEF System!Codeword
<1> QED
  BY <1>6, <1>7, <1>8

\* The system's codewords are those of the decoder.
LEMMA SystemCodewords == System!Codewords = AllCodewords
<1>1. ASSUME NEW c \in System!Codewords PROVE c \in AllCodewords
  <2>1. PICK m \in System!Message : c = System!Codeword(m)
    BY DEF System!Codewords
  <2>2. AsSymbols(m) \in Messages /\ c = [x \in 0 .. nn - 1 |-> Number(SentWord(AsSymbols(m))[x])]
    BY <2>1, MessageForms, SystemCodeword
  <2> QED
    BY <2>2 DEF AllCodewords, Encoded, SentWord, Messages
<1>2. ASSUME NEW c \in AllCodewords PROVE c \in System!Codewords
  <2>1. PICK m \in Messages : c = [x \in 0 .. nn - 1 |-> Number(SentWord(m)[x])]
    BY DEF AllCodewords, Encoded, SentWord, Messages
  <2>2. PICK v \in System!Message : AsSymbols(v) = m
    BY MessageForms
  <2>3. System!Codeword(v) = c
    BY <2>1, <2>2, SystemCodeword
  <2> QED
    BY <2>2, <2>3 DEF System!Codewords
<1> QED
  BY <1>1, <1>2

\* The instance counts as this module does.
LEMMA SystemDistanceIs == \A v, w : System!Distance(v, w) = Cardinality(Differ(v, w))
<1>1. \A S : System!Cardinality(S) = Cardinality(S)
  BY Zenon DEF System!Cardinality, Cardinality
<1> QED
  BY <1>1 DEF System!Distance, Differ

\* Two codewords in polynomial form are no nearer than their symbols.
LEMMA CodewordsApart ==
  ASSUME NEW c \in AllCodewords, NEW b \in AllCodewords, Cardinality(Differ(c, b)) <= 2 * tt
  PROVE  c = b
<1>1. c \in IntWords /\ ~HasError(c) /\ b \in IntWords /\ ~HasError(b)
  BY CodewordForm
<1>2. PICK v, w : v = AsSymbols(c) /\ w = AsSymbols(b) /\ v \in Words /\ w \in Words
  BY <1>1, SynIs
<1>3. IsCodeword(v) /\ IsCodeword(w)
  BY <1>1, <1>2, NoErrorIs
<1>4. \A x \in 0 .. nn - 1 : v[x] = Bits(c[x]) /\ w[x] = Bits(b[x])
  BY <1>1, <1>2, AsSymbolsAt DEF IntWords
<1>5. ASSUME v # w PROVE FALSE
  <2> DEFINE D == { k \in 0 .. nn - 1 : v[k] # w[k] }
  <2>1. Cardinality(D) > 2 * tt
    BY Zenon, <1>2, <1>3, <1>5, MinimumDistance DEF D
  <2>2. D \subseteq Differ(c, b)
    BY <1>4 DEF Differ
  <2>3. IsFiniteSet(0 .. nn - 1)
    BY Bounds, FS_Interval
  <2>4. IsFiniteSet(Differ(c, b))
    BY <2>3, FS_Subset DEF Differ
  <2>5. IsFiniteSet(D) /\ Cardinality(D) <= Cardinality(Differ(c, b))
    BY <2>2, <2>4, FS_Subset
  <2>6. Cardinality(D) \in Nat /\ Cardinality(Differ(c, b)) \in Nat
    BY <2>4, <2>5, FS_CardinalityType
  <2> HIDE DEF D
  <2> QED
    BY <2>1, <2>5, <2>6, Bounds
<1>6. v = w
  BY <1>5
<1> QED
  BY <1>1, <1>2, <1>6, SameSymbols

\* What the model of the encoder and the test bench assumes of the code is so: encode_rs
\* gives every message a parity, and codewords differ in more than 2 * tt symbols.
THEOREM SystemAssumptionsHold ==
  /\ ParityOf \in [System!Message -> System!Parity]
  /\ \A c, b \in System!Codewords : System!Distance(c, b) <= 2 * tt => c = b
<1>1. ParityOf = [m \in System!Message |-> ParityOf[m]]
  <2>1. System!Message = [0 .. kk - 1 -> PolyForm]
    BY DEF System!Message, System!kk, kk
  <2>2. ParityOf = [m \in [0 .. kk - 1 -> PolyForm] |-> ParityOf[m]]
    BY Zenon DEF ParityOf
  <2> QED
    BY <2>1, <2>2
<1>2. \A m \in System!Message : ParityOf[m] \in System!Parity
  BY SystemCodeword
<1>3. ParityOf \in [System!Message -> System!Parity]
  BY <1>1, <1>2
<1>4. \A c, b \in System!Codewords : System!Distance(c, b) <= 2 * tt => c = b
  BY SystemCodewords, SystemDistanceIs, CodewordsApart
<1> QED
  BY <1>3, <1>4

-----------------------------------------------------------------------------
(* The decoder of the system is decode_rs *)

\* The distance does not depend on the order.
LEMMA DifferSymmetric == \A v, w : Differ(v, w) = Differ(w, v)
BY DEF Differ

\* A call that has returned left what the decoder of the system may leave.
LEMMA SystemDecodes ==
  ASSUME DecodeInv
  PROVE  DecodesForTheSystem
<1> SUFFICES ASSUME decodePc = "done", result # -1 PROVE recd \in System!Decode(received)
  BY DEF DecodesForTheSystem
<1>0. received \in IntWords /\ result \in 0 .. 3
  BY DEF DecodeInv, WordPart, TypePart, DecodeTypeOK
<1>1. CASE result = 0
  <2>1. recd = received /\ ~HasError(received)
    BY <1>1 DEF DecodeInv, WordPart, SyndromePart
  <2>2. received \in System!Codewords
    BY <1>0, <2>1, CodewordsAre, SystemCodewords
  <2> QED
    BY <2>1, <2>2 DEF System!Decode
<1>2. CASE result = 1
  <2>1. Repaired(recd, received, root, Len(root)) /\ ~HasError(recd) /\ HasError(received)
    BY <1>2 DEF DecodeInv, WordPart, SyndromePart
  <2>2. recd \in IntWords
    BY <2>1 DEF Repaired
  <2>3. recd \in System!Codewords /\ received \notin System!Codewords
    BY <1>0, <2>1, <2>2, CodewordsAre, SystemCodewords
  <2>4. Len(root) \in Nat /\ Len(root) <= tt
    BY DEF DecodeInv, TypePart
  <2>5. Cardinality(Differ(recd, received)) <= tt
    BY <1>0, <2>1, <2>2, <2>4, RepairedNear
  <2>6. System!Distance(received, recd) <= tt
    BY <2>5, DifferSymmetric, SystemDistanceIs
  <2>7. recd \in System!Near(received)
    BY <2>3, <2>6 DEF System!Near
  <2> QED
    BY <2>3, <2>7 DEF System!Decode
<1>3. CASE result \in {2, 3}
  <2>1. recd = received /\ ~ErrorsBelow(tt, SynOf(received))
    BY <1>3 DEF DecodeInv, WordPart, AnswerPart
  <2>2. ASSUME NEW c \in System!Near(received) PROVE FALSE
    <3>1. c \in AllCodewords /\ System!Distance(received, c) <= tt
      BY SystemCodewords DEF System!Near
    <3>2. c \in IntWords /\ ~HasError(c)
      BY <3>1, CodewordForm
    <3>3. Cardinality(Differ(c, received)) <= tt
      BY <3>1, DifferSymmetric, SystemDistanceIs
    <3> QED
      BY <1>0, <2>1, <3>2, <3>3, NearExplains
  <2>3. System!Near(received) = {}
    BY <2>2
  <2> QED
    BY <2>1, <2>3 DEF System!Decode
<1> QED
  BY <1>0, <1>1, <1>2, <1>3

\* Every call of decode_rs leaves in recd[] what the test bench is modelled with: the word
\* as it was, or a codeword within tt symbols of it when there is one.
THEOREM DecoderOfTheSystem == DecodeSpec => []DecodesForTheSystem
<1>1. DecodeInv => DecodesForTheSystem
  BY SystemDecodes
<1> QED
  BY <1>1, DecodeInvariant, PTL
=============================================================================
