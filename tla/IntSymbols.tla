----------------------------- MODULE IntSymbols -----------------------------
(***************************************************************************)
(* Symbols as the ints the code holds them in, with ^ on them, and the     *)
(* tables it multiplies with.  A symbol is in polynomial form when its     *)
(* bits are its coefficients and in index form when it is the exponent of  *)
(* alpha, -1 for zero: an array of the code may hold either.               *)
(***************************************************************************)
EXTENDS ReedSolomon, TLC

\* The bits of the ints that arise, by halving, and the int of a set of bits, from the
\* highest down.
BitsOf ==
  [n \in -2 .. 2 * nn + 1 |->
    LET half[b \in 0 .. mm] == IF b = 0 THEN n ELSE half[b - 1] \div 2
    IN  { b \in 0 .. mm : half[b] % 2 = 1 }]

NumberOf ==
  [a \in SUBSET (0 .. mm) |->
    LET above[b \in 0 .. mm + 1] ==
          IF b = 0 THEN 0 ELSE 2 * above[b - 1] + (IF mm + 1 - b \in a THEN 1 ELSE 0)
    IN  above[mm + 1]]

Bits(n) == BitsOf[n]
Number(a) == NumberOf[a]

\* The largest symbol has all bits set.
ASSUME WidthAssumption == nn = Number(0 .. mm - 1)

a ^^ b == Number(Xor(Bits(a), Bits(b)))

PolyForm  == 0 .. nn
IndexForm == -1 .. nn - 1

\* A cell of an array that holds symbols of either form, or was not written yet.
Unset == -2
Cells == {Unset} \cup IndexForm \cup PolyForm

\* The tables generate_gf leaves (module RSTables shows that it does).
AlphaTo == [i \in 0 .. nn - 1 |-> Number(Power[i])]
IndexOf == [n \in PolyForm |-> Log[Bits(n)]]

\* The polynomial form of an exponent, and of the product of two.
Poly(x) == IF x = -1 THEN 0 ELSE AlphaTo[x]
Times(x, y) == IF x = -1 \/ y = -1 THEN 0 ELSE AlphaTo[(x + y) % nn]

\* gg[] as gen_poly leaves it, in index form.
GG == [k \in 0 .. nn - kk |-> Log[Generator[k]]]

\* The symbols of an array of ints, for the reference definitions.
AsSymbols(f) == [k \in DOMAIN f |-> Bits(f[k])]

\* The exclusive or of the ints f[x]; the pairs have each of them computed once.
XorOf(f) == Number(XorSum([t \in { <<x, Bits(f[x])>> : x \in DOMAIN f } |-> t[2]]))

\* The value at alpha^r of the polynomial with coefficients c[0], ..., c[n - 1].
ValueOf(c, r) == XorOf([k \in DOMAIN c |-> Times(IndexOf[c[k]], r * k)])
=============================================================================
