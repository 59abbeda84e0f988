----------------------------- MODULE GaloisField -----------------------------
(***************************************************************************)
(* The field GF(2^mm) the code computes in.  A symbol, an int whose bits   *)
(* are the coefficients of a polynomial in alpha of degree below mm, is    *)
(* the set of the positions of its 1 bits: ^ is the symmetric difference   *)
(* and << 1 adds 1 to every position.  The definitions are the reference   *)
(* for the tables of generate_gf and for galois; RSTables and Galois   *)
(* compare them with what the code computes.                               *)
(***************************************************************************)
EXTENDS RSCommon, FiniteSets, FiniteSetsExt

CONSTANTS mm,   \* bits of a symbol (8)
          pp    \* exponents of the primitive polynomial pp[] ({0, 2, 3, 4, 8})

ASSUME FieldAssumption ==
  /\ mm \in Nat \ {0, 1}
  /\ pp \subseteq 0 .. mm
  /\ {0, mm} \subseteq pp
  /\ nn = 2 ^ mm - 1

Symbol == SUBSET (0 .. mm - 1)
NoBit == {}
One == {0}

Xor(a, b) == SymDiff(a, b)

\* The exclusive or of the symbols f[x]: a bit is set when an odd number of them set it.
XorSum(f) ==
  { bit \in 0 .. mm - 1 : Cardinality({x \in DOMAIN f : bit \in f[x]}) % 2 = 1 }

ShiftLeft(a) == { bit + 1 : bit \in a }

\* alpha * a: a left shift, and alpha^mm replaced by the lower terms of pp.
TimesAlpha(a) ==
  IF mm - 1 \in a THEN Xor(ShiftLeft(a \ {mm - 1}), pp \ {mm}) ELSE ShiftLeft(a)

\* alpha^i * a for every i.
Multiples(a) ==
  LET times[i \in Nat] == IF i = 0 THEN a ELSE TimesAlpha(times[i - 1])
  IN  times

\* The product of the field: the sum of alpha^i * a for the terms alpha^i of b.
Mul(a, b) == LET multiple == Multiples(a) IN XorSum([i \in b |-> multiple[i]])

\* Powers of alpha and discrete logarithms, what alpha_to[] and index_of[] hold.
Power ==
  LET power[i \in 0 .. nn - 1] ==
        IF i = 0 THEN One
        ELSE IF i % 2 = 1 THEN TimesAlpha(power[i - 1])
        ELSE LET half == power[i \div 2] IN Mul(half, half)
  IN  [i \in 0 .. nn - 1 |-> power[i]]

\* pp[] is primitive: every symbol but zero is a power of alpha.
ASSUME PrimitiveAssumption == { Power[i] : i \in 0 .. nn - 1 } = Symbol \ {NoBit}

Log == [a \in Symbol |-> IF a = NoBit THEN -1 ELSE CHOOSE i \in 0 .. nn - 1 : Power[i] = a]

\* alpha^i * a through the two tables, as the code multiplies.
TimesPower(a, i) == IF a = NoBit THEN NoBit ELSE Power[(Log[a] + i) % nn]

\* The value at alpha^i of the polynomial with coefficients c[0], ..., c[n - 1].
ValueAt(c, i) == XorSum([k \in DOMAIN c |-> TimesPower(c[k], i * k)])
=============================================================================
