----------------------------- MODULE CodeProofs -----------------------------
(***************************************************************************)
(* The code, for every width, primitive polynomial and number of errors:   *)
(* the field, the values of polynomials, the generator, the shift register *)
(* of encode_rs and the distance of two codewords.  A symbol is a set of   *)
(* bits and a sum counts them, so that everything follows from one fact:   *)
(* what is multiplied by keeps sums (Additive).  The library's induction   *)
(* theorems take an operator, which cannot be instantiated; the induction  *)
(* here is over sets.                                                      *)
(***************************************************************************)
EXTENDS ReedSolomon, FiniteSetTheorems, TLAPS

-----------------------------------------------------------------------------
(* Induction and recursion *)

\* A set of naturals has a least element: the induction this module rests on.
LEMMA Least ==
  ASSUME NEW T, T \subseteq Nat, T # {}
  PROVE  \E m \in T : \A n \in T : m <= n
<1> DEFINE Below(m) == 0 .. m - 1
           S == { Below(m) : m \in T }
<1>1. S \subseteq FiniteSubsetsOf(Nat)
  <2> SUFFICES ASSUME NEW m \in T PROVE Below(m) \in SUBSET Nat /\ IsFiniteSet(Below(m))
    BY DEF FiniteSubsetsOf
  <2> QED
    BY FS_Interval
<1>2. IsWellFoundedOn(StrictSubsetOrdering(Nat), FiniteSubsetsOf(Nat))
  BY FS_StrictSubsetOrderingWellFounded
<1>3. PICK x \in S : \A y \in S : ~ (<<y, x>> \in StrictSubsetOrdering(Nat))
  <2>1. S # {}
    OBVIOUS
  <2> HIDE DEF S
  <2>2. \A R, D, U : IsWellFoundedOn(R, D) /\ U \subseteq D /\ U # {}
                      => \E x \in U : \A y \in U : ~ (<<y, x>> \in R)
    BY WFMin, ZenonT(30)
  <2> QED
    BY <1>1, <1>2, <2>1, <2>2
<1>4. PICK m \in T : x = Below(m)
  BY <1>3
<1>5. ASSUME NEW n \in T, n < m PROVE FALSE
  <2>1. n \in Nat /\ m \in Nat
    OBVIOUS
  <2>2. Below(n) \subseteq Below(m) /\ n \notin Below(n) /\ n \in Below(m)
    BY <1>5, <2>1
  <2>3. <<Below(n), Below(m)>> \in StrictSubsetOrdering(Nat)
    BY <2>1, <2>2 DEF StrictSubsetOrdering
  <2> QED
    BY <1>3, <1>4, <2>3
<1> QED
  BY <1>5

\* Induction over a set of naturals.
LEMMA NatSetInduction ==
  ASSUME NEW T, 0 \in T, \A n \in Nat : n \in T => n + 1 \in T
  PROVE  Nat \subseteq T
<1> SUFFICES ASSUME Nat \ T # {} PROVE FALSE
  OBVIOUS
<1>1. PICK m \in Nat \ T : \A n \in Nat \ T : m <= n
  BY Least
<1>2. m - 1 \in Nat /\ m - 1 \in T
  BY <1>1
<1> QED
  BY <1>1, <1>2

\* f is defined by its first value and a step.
Recursive(f, S, a, F) ==
  /\ f \in [Nat -> S]
  /\ f[0] = a
  /\ \A n \in Nat : f[n + 1] = F[<<n, f[n]>>]

\* A recursive function over the naturals exists: for the loops of gen_poly and
\* encode_rs, which the model writes as recursive functions.
LEMMA Recursion ==
  ASSUME NEW S, NEW a \in S, NEW F \in [Nat \X S -> S]
  PROVE  \E f : Recursive(f, S, a, F)
<1> DEFINE Good(n, g) == /\ g \in [0 .. n -> S] /\ g[0] = a
                         /\ \A i \in 0 .. n - 1 : g[i + 1] = F[<<i, g[i]>>]
<1>1. \A n \in Nat : \E g : Good(n, g)
  <2> DEFINE T == { n \in Nat : \E g : Good(n, g) }
  <2>1. 0 \in T
    <3>1. Good(0, [i \in 0 .. 0 |-> a])
      OBVIOUS
    <3> QED
      BY <3>1
  <2>2. ASSUME NEW n \in Nat, n \in T PROVE n + 1 \in T
    <3>1. PICK g : Good(n, g)
      BY <2>2
    <3> DEFINE h == [i \in 0 .. n + 1 |-> IF i <= n THEN g[i] ELSE F[<<n, g[n]>>]]
    <3>2. /\ g \in [0 .. n -> S] /\ n \in 0 .. n /\ 0 \in 0 .. n /\ g[0] = a
          /\ \A i \in 0 .. n - 1 : g[i + 1] = F[<<i, g[i]>>]
      BY <3>1
    <3>3. h \in [0 .. n + 1 -> S]
      BY <3>2
    <3>4. h[0] = a
      BY <3>2
    <3>5. ASSUME NEW i \in 0 .. n PROVE h[i + 1] = F[<<i, h[i]>>]
      <4>1. CASE i = n
        <5>1. h[n + 1] = F[<<n, g[n]>>] /\ h[n] = g[n]
          OBVIOUS
        <5> HIDE DEF h
        <5> QED
          BY <4>1, <5>1
      <4>2. CASE i # n
        <5>1. i \in 0 .. n - 1 /\ i + 1 \in 0 .. n
          BY <4>2
        <5>2. h[i + 1] = g[i + 1] /\ h[i] = g[i]
          BY <5>1
        <5> HIDE DEF h
        <5> QED
          BY <5>1, <5>2, <3>2
      <4> QED
        BY <4>1, <4>2
    <3>6. Good(n + 1, h)
      <4> HIDE DEF h
      <4>0. (n + 1) - 1 = n
        OBVIOUS
      <4>1. \A i \in 0 .. (n + 1) - 1 : h[i + 1] = F[<<i, h[i]>>]
        BY <3>5, <4>0
      <4> QED
        BY <3>3, <3>4, <4>1
    <3> HIDE DEF Good, h
    <3> QED
      BY <3>6
  <2> HIDE DEF T
  <2>3. Nat \subseteq T
    BY <2>1, <2>2, NatSetInduction
  <2> QED
    BY <2>3 DEF T
<1>2. ASSUME NEW n \in Nat, NEW m \in Nat, NEW g, NEW h, Good(n, g), Good(m, h)
      PROVE  \A i \in Nat : i <= n /\ i <= m => g[i] = h[i]
  <2> DEFINE T == { i \in Nat : i <= n /\ i <= m => g[i] = h[i] }
  <2>1. 0 \in T
    BY <1>2
  <2>2. ASSUME NEW i \in Nat, i \in T PROVE i + 1 \in T
    <3> SUFFICES ASSUME i + 1 <= n, i + 1 <= m PROVE g[i + 1] = h[i + 1]
      OBVIOUS
    <3>1. g[i] = h[i] /\ i \in 0 .. n - 1 /\ i \in 0 .. m - 1
      BY <2>2
    <3> QED
      BY <1>2, <3>1
  <2> HIDE DEF T
  <2>3. Nat \subseteq T
    BY <2>1, <2>2, NatSetInduction
  <2> QED
    BY <2>3 DEF T
<1> DEFINE f == [n \in Nat |-> (CHOOSE g : Good(n, g))[n]]
<1>3. ASSUME NEW n \in Nat PROVE Good(n, CHOOSE g : Good(n, g))
  BY <1>1
<1>4. ASSUME NEW n \in Nat, NEW g, Good(n, g) PROVE g[n] = f[n]
  <2>1. PICK h : h = (CHOOSE x : Good(n, x)) /\ Good(n, h)
    BY <1>3
  <2>2. g[n] = h[n]
    <3> HIDE DEF Good
    <3> QED
      BY <1>2, <1>4, <2>1
  <2> QED
    BY <2>1, <2>2
<1> HIDE DEF f
<1>5. ASSUME NEW n \in Nat PROVE f[n] \in S /\ f[n + 1] = F[<<n, f[n]>>]
  <2>1. PICK h : Good(n + 1, h)
    <3>1. n + 1 \in Nat
      OBVIOUS
    <3> HIDE DEF Good
    <3> QED
      BY <1>1, <3>1
  <2> DEFINE g == [i \in 0 .. n |-> h[i]]
  <2>2. /\ h \in [0 .. n + 1 -> S] /\ h[0] = a /\ \A i \in 0 .. n : h[i + 1] = F[<<i, h[i]>>]
    BY <2>1
  <2>3. Good(n, g)
    BY <2>2
  <2>4. h[n + 1] = f[n + 1]
    BY <2>1, <1>4
  <2>5. g[n] = f[n]
    BY <2>3, <1>4
  <2> QED
    BY <2>2, <2>4, <2>5
<1>6. f[0] = a
  <2>1. Good(0, [i \in 0 .. 0 |-> a])
    OBVIOUS
  <2> QED
    BY <2>1, <1>4
<1>7. f \in [Nat -> S]
  BY <1>5 DEF f
<1>8. Recursive(f, S, a, F)
  BY <1>5, <1>6, <1>7 DEF Recursive
<1> QED
  BY <1>8

-----------------------------------------------------------------------------
(* Exclusive or *)

\* An odd number of elements.
Odd(S) == Cardinality(S) % 2 = 1

\* The parity of a sum is the sum of the parities.
LEMMA OddXor ==
  ASSUME NEW A, NEW B, IsFiniteSet(A), IsFiniteSet(B)
  PROVE  Odd(SymDiff(A, B)) <=> (Odd(A) <=> ~Odd(B))
<1>1. /\ Cardinality(A) \in Nat /\ Cardinality(B) \in Nat
      /\ IsFiniteSet(A \ B) /\ IsFiniteSet(B \ A) /\ IsFiniteSet(A \cap B)
      /\ Cardinality(A \ B) = Cardinality(A) - Cardinality(A \cap B)
      /\ Cardinality(B \ A) = Cardinality(B) - Cardinality(B \cap A)
  BY FS_CardinalityType, FS_Difference, FS_Intersection
<1>2. /\ A \cap B = B \cap A
      /\ (A \ B) \cap (B \ A) = {}
  OBVIOUS
<1>3. Cardinality(SymDiff(A, B)) =
        Cardinality(A \ B) + Cardinality(B \ A) - Cardinality({})
  <2>1. Cardinality((A \ B) \cup (B \ A)) =
          Cardinality(A \ B) + Cardinality(B \ A) - Cardinality((A \ B) \cap (B \ A))
    BY <1>1, FS_Union
  <2> QED
    BY <1>2, <2>1 DEF SymDiff
<1>4. PICK a \in Nat, b \in Nat, c \in Nat :
        /\ a = Cardinality(A) /\ b = Cardinality(B) /\ c = Cardinality(A \cap B)
  BY <1>1, FS_CardinalityType
<1>5. Cardinality(SymDiff(A, B)) = (a - c) + (b - c)
  <2>1. Cardinality(A \ B) = a - c /\ Cardinality(B \ A) = b - c
    BY <1>1, <1>2, <1>4
  <2>2. Cardinality(SymDiff(A, B)) = (a - c) + (b - c) - 0
    BY <1>3, <2>1, FS_EmptySet
  <2> QED
    BY <2>2
<1>6. ((a - c) + (b - c)) % 2 = 1 <=> (a % 2 = 1 <=> ~(b % 2 = 1))
  OBVIOUS
<1> QED
  BY <1>4, <1>5, <1>6 DEF Odd

\* ^ of two symbols is a symbol.
LEMMA XorType ==
  ASSUME NEW a \in Symbol, NEW b \in Symbol
  PROVE  Xor(a, b) \in Symbol
BY DEF Symbol, Xor, SymDiff

\* ^ makes the symbols a group in which each is its own inverse.
LEMMA XorFacts ==
  /\ \A a, b : Xor(a, b) = Xor(b, a)
  /\ \A a, b, c : Xor(Xor(a, b), c) = Xor(a, Xor(b, c))
  /\ \A a : Xor(a, {}) = a
  /\ \A a : Xor({}, a) = a
  /\ \A a : Xor(a, a) = {}
BY DEF Xor, SymDiff

\* Zero alone.
LEMMA XorZero ==
  \A a : Xor(a, {}) = a /\ Xor({}, a) = a /\ Xor(a, a) = {}
BY XorFacts

\* A sum of symbols is a symbol.
LEMMA XorSumType ==
  ASSUME NEW f
  PROVE  XorSum(f) \in Symbol
BY DEF XorSum, Symbol

\* Two symbols with the same bits are the same.
LEMMA SymbolExtensional ==
  ASSUME NEW a \in Symbol, NEW b \in Symbol,
         \A bit \in 0 .. mm - 1 : bit \in a <=> bit \in b
  PROVE  a = b
BY DEF Symbol

\* The places that set a bit.
LEMMA XorSumBit ==
  ASSUME NEW f, NEW bit \in 0 .. mm - 1
  PROVE  bit \in XorSum(f) <=> Odd({x \in DOMAIN f : bit \in f[x]})
BY DEF XorSum, Odd

\* h is the sum of f and g, term by term.
IsSum(D, f, g, h) ==
  /\ f \in [D -> Symbol] /\ g \in [D -> Symbol] /\ h \in [D -> Symbol]
  /\ \A x \in D : h[x] = Xor(f[x], g[x])

\* Sums are added term by term.
LEMMA XorSumAdd ==
  ASSUME NEW D, IsFiniteSet(D), NEW f, NEW g, NEW h, IsSum(D, f, g, h)
  PROVE  XorSum(h) = Xor(XorSum(f), XorSum(g))
<1> USE DEF IsSum
<1>1. ASSUME NEW bit \in 0 .. mm - 1
      PROVE  bit \in XorSum(h) <=> bit \in Xor(XorSum(f), XorSum(g))
  <2> DEFINE A == {x \in D : bit \in f[x]}
             B == {x \in D : bit \in g[x]}
             C == {x \in D : bit \in h[x]}
  <2>1. C = SymDiff(A, B)
    BY DEF Xor, SymDiff
  <2>2. IsFiniteSet(A) /\ IsFiniteSet(B)
    BY FS_Subset
  <2>3. Odd(C) <=> (Odd(A) <=> ~Odd(B))
    <3> HIDE DEF A, B, C
    <3> QED
      BY <2>1, <2>2, OddXor
  <2>4. /\ bit \in XorSum(f) <=> Odd(A)
        /\ bit \in XorSum(g) <=> Odd(B)
        /\ bit \in XorSum(h) <=> Odd(C)
    BY XorSumBit
  <2> QED
    BY <2>3, <2>4 DEF Xor, SymDiff
<1> QED
  BY <1>1, XorSumType, XorType, SymbolExtensional

\* f is g with zeros around it.
Extends(D, E, f, g) ==
  /\ f \in [D -> Symbol] /\ g \in [E -> Symbol] /\ E \subseteq D
  /\ \A x \in E : f[x] = g[x]
  /\ \A x \in D : x \notin E => f[x] = {}

\* Places that add nothing do not count.
LEMMA XorSumSupport ==
  ASSUME NEW D, NEW E, NEW f, NEW g, Extends(D, E, f, g)
  PROVE  XorSum(f) = XorSum(g)
<1> USE DEF Extends
<1>1. ASSUME NEW bit \in 0 .. mm - 1
      PROVE  bit \in XorSum(f) <=> bit \in XorSum(g)
  <2>1. {x \in D : bit \in f[x]} = {x \in E : bit \in g[x]}
    OBVIOUS
  <2>2. DOMAIN f = D /\ DOMAIN g = E
    OBVIOUS
  <2> QED
    BY <2>1, <2>2, XorSumBit
<1> QED
  BY <1>1, XorSumType, SymbolExtensional

\* A sum of zeros is zero.
LEMMA XorSumNone ==
  ASSUME NEW D, NEW f \in [D -> Symbol], \A x \in D : f[x] = {}
  PROVE  XorSum(f) = {}
<1>1. ASSUME NEW bit \in 0 .. mm - 1
      PROVE  bit \notin XorSum(f)
  <2>1. {x \in D : bit \in f[x]} = {}
    OBVIOUS
  <2>2. ~Odd({})
    BY FS_EmptySet DEF Odd
  <2> QED
    BY <2>1, <2>2, XorSumBit
<1> QED
  BY <1>1, XorSumType DEF Symbol

\* g is f without its term at x.
Without(D, x, f, g) ==
  /\ f \in [D -> Symbol] /\ g \in [D \ {x} -> Symbol]
  /\ \A y \in D \ {x} : g[y] = f[y]

\* One place apart.
LEMMA XorSumInsert ==
  ASSUME NEW D, IsFiniteSet(D), NEW x \in D, NEW f, NEW g, Without(D, x, f, g)
  PROVE  XorSum(f) = Xor(XorSum(g), f[x])
<1> USE DEF Without
<1>1. ASSUME NEW bit \in 0 .. mm - 1
      PROVE  bit \in XorSum(f) <=> bit \in Xor(XorSum(g), f[x])
  <2> DEFINE A == {y \in D : bit \in f[y]}
             B == {y \in D \ {x} : bit \in g[y]}
  <2>1. /\ IsFiniteSet(B) /\ x \notin B
    BY FS_Subset, FS_RemoveElement
  <2>2. Cardinality(B) \in Nat /\ Cardinality(B \cup {x}) = Cardinality(B) + 1
    BY <2>1, FS_AddElement, FS_CardinalityType
  <2>3. Odd(B \cup {x}) <=> ~Odd(B)
    BY <2>2 DEF Odd
  <2>4. A = IF bit \in f[x] THEN B \cup {x} ELSE B
    OBVIOUS
  <2>5. /\ bit \in XorSum(f) <=> Odd(A)
        /\ bit \in XorSum(g) <=> Odd(B)
    BY XorSumBit
  <2> HIDE DEF A, B
  <2> QED
    BY <2>3, <2>4, <2>5 DEF Xor, SymDiff
<1> QED
  <2>1. f[x] \in Symbol
    OBVIOUS
  <2> QED
    BY <1>1, <2>1, XorSumType, XorType, SymbolExtensional

\* The order of the terms does not matter.
LEMMA XorSumBijection ==
  ASSUME NEW D, NEW E, IsFiniteSet(D), NEW h \in Bijection(D, E),
         NEW f \in [D -> Symbol], NEW g \in [E -> Symbol],
         \A x \in D : f[x] = g[h[x]]
  PROVE  XorSum(f) = XorSum(g)
<1>1. /\ h \in [D -> E]
      /\ \A x, y \in D : h[x] = h[y] => x = y
      /\ \A y \in E : \E x \in D : h[x] = y
  BY DEF Bijection, Injection, Surjection, IsInjective
<1>2. ASSUME NEW bit \in 0 .. mm - 1
      PROVE  bit \in XorSum(f) <=> bit \in XorSum(g)
  <2> DEFINE A == {x \in D : bit \in f[x]}
             B == {y \in E : bit \in g[y]}
             k == [x \in A |-> h[x]]
  <2>1. IsFiniteSet(A)
    BY FS_Subset
  <2>2. k \in Bijection(A, B)
    <3>1. k \in [A -> B]
      BY <1>1
    <3>2. \A x, y \in A : k[x] = k[y] => x = y
      BY <1>1
    <3>3. \A y \in B : \E x \in A : k[x] = y
      BY <1>1
    <3> HIDE DEF k, A, B
    <3> QED
      BY <3>1, <3>2, <3>3 DEF Bijection, Injection, Surjection, IsInjective
  <2>3. ExistsBijection(A, B)
    BY <2>2 DEF ExistsBijection
  <2>4. Odd(A) <=> Odd(B)
    BY <2>1, <2>3, FS_Bijection DEF Odd
  <2> QED
    BY <2>4, XorSumBit
<1> QED
  BY <1>2, XorSumType, SymbolExtensional

\* A function on the symbols that keeps sums: multiplication by a constant, mostly.
Additive(L) == /\ L \in [Symbol -> Symbol]
               /\ \A a, b \in Symbol : L[Xor(a, b)] = Xor(L[a], L[b])

\* It maps zero to zero,
LEMMA AdditiveZero ==
  ASSUME NEW L, Additive(L)
  PROVE  L[{}] = {}
<1>1. {} \in Symbol /\ Xor({}, {}) = {}
  BY XorFacts DEF Symbol
<1>2. L[Xor({}, {})] = Xor(L[{}], L[{}])
  BY <1>1 DEF Additive
<1> QED
  BY <1>1, <1>2, XorFacts

\* The terms of g are those of f, mapped by L.
Maps(L, D, f, g) ==
  /\ f \in [D -> Symbol] /\ g \in [D -> Symbol]
  /\ \A x \in D : g[x] = L[f[x]]

\* An additive function of a sum is the sum of its values.
LEMMA XorSumAdditive ==
  ASSUME NEW L, Additive(L), NEW D, IsFiniteSet(D), NEW f, NEW g, Maps(L, D, f, g)
  PROVE  XorSum(g) = L[XorSum(f)]
<1> USE DEF Maps
<1> DEFINE F(E) == [x \in E |-> f[x]]
           G(E) == [x \in E |-> g[x]]
           T == { n \in Nat : \A E \in SUBSET D : Cardinality(E) = n => XorSum(G(E)) = L[XorSum(F(E))] }
<1>0. L \in [Symbol -> Symbol] /\ \A a, b \in Symbol : L[Xor(a, b)] = Xor(L[a], L[b])
  BY DEF Additive
<1>a. ASSUME NEW E \in SUBSET D
      PROVE  F(E) \in [E -> Symbol] /\ G(E) \in [E -> Symbol] /\ IsFiniteSet(E)
  BY FS_Subset
<1>1. 0 \in T
  <2> SUFFICES ASSUME NEW E \in SUBSET D, Cardinality(E) = 0
               PROVE  XorSum(G(E)) = L[XorSum(F(E))]
    OBVIOUS
  <2>1. E = {}
    BY <1>a, FS_EmptySet
  <2>2. XorSum(F(E)) = {} /\ XorSum(G(E)) = {}
    BY <1>a, <2>1, XorSumNone
  <2> QED
    BY <2>2, AdditiveZero
<1>2. ASSUME NEW n \in Nat, n \in T PROVE n + 1 \in T
  <2> SUFFICES ASSUME NEW E \in SUBSET D, Cardinality(E) = n + 1
               PROVE  XorSum(G(E)) = L[XorSum(F(E))]
    OBVIOUS
  <2>1. IsFiniteSet(E) /\ E # {}
    BY <1>a, FS_EmptySet
  <2>2. PICK x \in E : TRUE
    BY <2>1
  <2> DEFINE R == E \ {x}
  <2>3. R \in SUBSET D /\ Cardinality(R) = n
    <3>1. Cardinality(R) = Cardinality(E) - 1
      BY <2>1, <2>2, FS_RemoveElement
    <3> QED
      BY <3>1
  <2>4. XorSum(G(R)) = L[XorSum(F(R))]
    BY <1>2, <2>3
  <2>5. XorSum(F(E)) = Xor(XorSum(F(R)), F(E)[x])
    <3>1. F(R) \in [E \ {x} -> Symbol] /\ \A y \in E \ {x} : F(R)[y] = F(E)[y]
      BY <2>3
    <3>2. F(E) \in [E -> Symbol]
      BY <1>a
    <3> HIDE DEF F
    <3>3. Without(E, x, F(E), F(R))
      BY <3>1, <3>2 DEF Without
    <3> HIDE DEF R
    <3> QED
      BY <2>1, <2>2, <3>3, XorSumInsert
  <2>6. XorSum(G(E)) = Xor(XorSum(G(R)), G(E)[x])
    <3>1. G(R) \in [E \ {x} -> Symbol] /\ \A y \in E \ {x} : G(R)[y] = G(E)[y]
      BY <2>3
    <3>2. G(E) \in [E -> Symbol]
      BY <1>a
    <3> HIDE DEF G
    <3>3. Without(E, x, G(E), G(R))
      BY <3>1, <3>2 DEF Without
    <3> HIDE DEF R
    <3> QED
      BY <2>1, <2>2, <3>3, XorSumInsert
  <2>7. F(E)[x] = f[x] /\ G(E)[x] = L[f[x]] /\ f[x] \in Symbol
    BY <2>2
  <2>8. L[Xor(XorSum(F(R)), f[x])] = Xor(L[XorSum(F(R))], L[f[x]])
    BY <1>0, <2>7, XorSumType
  <2> HIDE DEF F, G, R
  <2> QED
    BY <2>4, <2>5, <2>6, <2>7, <2>8
<1>3. Nat \subseteq T
  <2> HIDE DEF T
  <2> QED
    BY <1>1, <1>2, NatSetInduction
<1>4. Cardinality(D) \in Nat /\ F(D) = f /\ G(D) = g
  BY FS_CardinalityType
<1> QED
  BY <1>3, <1>4

-----------------------------------------------------------------------------
(* The field *)

\* What the assumptions on the sizes say.
LEMMA Widths ==
  /\ mm \in Nat /\ mm - 1 \in Nat /\ nn \in Nat /\ nn > 0 /\ kk \in Nat /\ kk > 2 /\ nn - kk = 2 * tt
  /\ tt \in Nat /\ tt > 0 /\ nn - kk \in Nat /\ nn - kk > 1 /\ nn - kk < nn
  /\ {} \in Symbol /\ One \in Symbol /\ One # {}
BY FieldAssumption, CodeAssumption DEF Symbol, One, kk

\* Quotient and remainder: the modulo (nn) of the exponents.
LEMMA DivMod ==
  ASSUME NEW n \in Nat \ {0}, NEW m \in Nat
  PROVE  m \div n \in Nat /\ m % n \in 0 .. n - 1 /\ m = n * (m \div n) + (m % n)
OBVIOUS

\* Multiples of n are n apart.
LEMMA Bigger ==
  ASSUME NEW n \in Nat, NEW p \in Nat, NEW q \in Nat, p < q
  PROVE n * p + n <= n * q
<1>1. PICK d \in Nat : q = p + 1 + d
   <2>1. q - p - 1 \in Nat
     OBVIOUS
   <2> QED
    BY <2>1
<1>2. n * (p + 1 + d) = n * p + n + n * d
  OBVIOUS
<1>3. n * d \in Nat
  OBVIOUS
<1>4. n * p \in Nat
  OBVIOUS
<1> QED
  BY <1>1, <1>2, <1>3, <1>4

\* The remainder is what is left of a multiple.
LEMMA ModUnique ==
  ASSUME NEW n \in Nat \ {0}, NEW q \in Nat, NEW r \in 0 .. n - 1
  PROVE  (n * q + r) % n = r
<1>1. PICK m \in Nat : m = n * q + r
  OBVIOUS
<1>2. PICK k \in Nat, s \in 0 .. n - 1 : k = m \div n /\ s = m % n
  BY DivMod
<1>3. m = n * k + s
  BY <1>2, DivMod
<1>4. ~(k < q)
  <2> SUFFICES ASSUME k < q PROVE FALSE
    OBVIOUS
  <2>1. n * k + n <= n * q
    BY Bigger
  <2>2. n * k \in Nat /\ n * q \in Nat
    OBVIOUS
  <2> QED
    BY <2>1, <2>2, <1>1, <1>3
<1>5. ~(q < k)
  <2> SUFFICES ASSUME q < k PROVE FALSE
    OBVIOUS
  <2>1. n * q + n <= n * k
    BY Bigger
  <2>2. n * k \in Nat /\ n * q \in Nat
    OBVIOUS
  <2> QED
    BY <2>1, <2>2, <1>1, <1>3
<1>6. k = q /\ n * q \in Nat
  BY <1>4, <1>5
<1>7. s = r
  BY <1>1, <1>3, <1>6
<1> QED
  BY <1>1, <1>2, <1>7

\* The remainder goes up by one and wraps.
LEMMA ModStep ==
  ASSUME NEW n \in Nat \ {0}, NEW m \in Nat
  PROVE  m % n \in 0 .. n - 1 /\ (m + 1) % n = IF m % n = n - 1 THEN 0 ELSE (m % n) + 1
<1>1. PICK q \in Nat, r \in 0 .. n - 1 : q = m \div n /\ r = m % n /\ m = n * q + r
  BY DivMod
<1>2. CASE r = n - 1
  <2>1. m + 1 = n * (q + 1) + 0
    <3>1. n * (q + 1) = n * q + n /\ n * q \in Nat
      OBVIOUS
    <3> QED
      BY <1>1, <1>2, <3>1
  <2>2. (n * (q + 1) + 0) % n = 0
    <3>1. q + 1 \in Nat /\ 0 \in 0 .. n - 1
      OBVIOUS
    <3> QED
      BY <3>1, ModUnique
  <2> QED
    BY <1>1, <1>2, <2>1, <2>2
<1>3. CASE r # n - 1
  <2>1. m + 1 = n * q + (r + 1) /\ r + 1 \in 0 .. n - 1
    <3>1. n * q \in Nat
      OBVIOUS
    <3> QED
      BY <1>1, <1>3, <3>1
  <2>2. (n * q + (r + 1)) % n = r + 1
    BY <2>1, ModUnique
  <2> QED
    BY <1>1, <1>3, <2>1, <2>2
<1> QED
  BY <1>2, <1>3

\* Below n nothing is taken off.
LEMMA ModSmall ==
  ASSUME NEW n \in Nat \ {0}, NEW m \in 0 .. n - 1
  PROVE  m % n = m
OBVIOUS

\* The bits of alpha * a.
LEMMA TimesAlphaBit ==
  ASSUME NEW a \in Symbol, NEW bit \in 0 .. mm - 1
  PROVE  bit \in TimesAlpha(a) <=> (bit - 1 \in a <=> ~(mm - 1 \in a /\ bit \in pp))
<1>1. a \subseteq 0 .. mm - 1 /\ mm \in Nat
  BY Widths DEF Symbol
<1>2. bit \in ShiftLeft(a \ {mm - 1}) <=> bit - 1 \in a
  BY <1>1 DEF ShiftLeft
<1>3. mm - 1 \notin a => (bit \in ShiftLeft(a) <=> bit - 1 \in a)
  BY <1>1 DEF ShiftLeft
<1>4. bit \in pp \ {mm} <=> bit \in pp
  BY <1>1
<1> QED
  BY <1>2, <1>3, <1>4 DEF TimesAlpha, Xor, SymDiff

\* alpha times a symbol is a symbol.
LEMMA TimesAlphaType ==
  ASSUME NEW a \in Symbol
  PROVE  TimesAlpha(a) \in Symbol
<1>1. a \subseteq 0 .. mm - 1 /\ mm \in Nat /\ pp \subseteq 0 .. mm
  BY Widths, FieldAssumption DEF Symbol
<1>2. ShiftLeft(a \ {mm - 1}) \subseteq 0 .. mm - 1
  BY <1>1 DEF ShiftLeft
<1>3. mm - 1 \notin a => ShiftLeft(a) \subseteq 0 .. mm - 1
  <2>1. mm - 1 \notin a => a \ {mm - 1} = a
    OBVIOUS
  <2> QED
    BY <1>2, <2>1
<1>4. pp \ {mm} \subseteq 0 .. mm - 1
  BY <1>1
<1> QED
  BY <1>2, <1>3, <1>4 DEF TimesAlpha, Xor, SymDiff, Symbol

\* Multiplication by alpha keeps sums.
LEMMA TimesAlphaAdd ==
  ASSUME NEW a \in Symbol, NEW b \in Symbol
  PROVE  TimesAlpha(Xor(a, b)) = Xor(TimesAlpha(a), TimesAlpha(b))
<1>1. ASSUME NEW bit \in 0 .. mm - 1
      PROVE  bit \in TimesAlpha(Xor(a, b)) <=> bit \in Xor(TimesAlpha(a), TimesAlpha(b))
  <2>1. bit \in TimesAlpha(Xor(a, b))
          <=> (bit - 1 \in Xor(a, b) <=> ~(mm - 1 \in Xor(a, b) /\ bit \in pp))
    BY TimesAlphaBit, XorType
  <2>2. \A x : x \in Xor(a, b) <=> (x \in a <=> x \notin b)
    BY DEF Xor, SymDiff
  <2>3. bit \in Xor(TimesAlpha(a), TimesAlpha(b))
          <=> (bit \in TimesAlpha(a) <=> bit \notin TimesAlpha(b))
    BY DEF Xor, SymDiff
  <2> QED
    BY <2>1, <2>2, <2>3, TimesAlphaBit
<1> QED
  BY <1>1, TimesAlphaType, XorType, SymbolExtensional

\* No symbol but zero becomes zero: pp has the bit 0.
LEMMA TimesAlphaNonZero ==
  ASSUME NEW a \in Symbol, TimesAlpha(a) = {}
  PROVE  a = {}
<1>1. mm \in Nat /\ mm - 1 \in Nat /\ 0 \in pp /\ a \subseteq 0 .. mm - 1
  BY Widths, FieldAssumption DEF Symbol
<1>2. mm - 1 \notin a
  BY <1>1, TimesAlphaBit
<1>3. ASSUME NEW bit \in a PROVE FALSE
  <2>1. bit + 1 \in 0 .. mm - 1 /\ (bit + 1) - 1 = bit
    BY <1>1, <1>2
  <2> QED
    BY <1>2, <1>3, <2>1, TimesAlphaBit
<1> QED
  BY <1>3

\* Different symbols stay different.
LEMMA TimesAlphaInjective ==
  ASSUME NEW a \in Symbol, NEW b \in Symbol, TimesAlpha(a) = TimesAlpha(b)
  PROVE  a = b
<1>1. TimesAlpha(Xor(a, b)) = {}
  BY TimesAlphaAdd, XorFacts
<1>2. Xor(a, b) = {}
  BY <1>1, XorType, TimesAlphaNonZero
<1> QED
  BY <1>2 DEF Xor, SymDiff

-----------------------------------------------------------------------------
\* alpha^n * a.
Raised(a, n) == Multiples(a)[n]

\* alpha^(n+1) * a is alpha times alpha^n * a.
LEMMA RaisedFacts ==
  ASSUME NEW a \in Symbol
  PROVE  /\ Raised(a, 0) = a
         /\ \A n \in Nat : Raised(a, n) \in Symbol /\ Raised(a, n + 1) = TimesAlpha(Raised(a, n))
<1> DEFINE Body(g) == [i \in Nat |-> IF i = 0 THEN a ELSE TimesAlpha(g[i - 1])]
           F == [x \in Nat \X Symbol |-> TimesAlpha(x[2])]
<1>1. F \in [Nat \X Symbol -> Symbol] /\ \A n \in Nat, s \in Symbol : F[<<n, s>>] = TimesAlpha(s)
  BY TimesAlphaType
<1>2. PICK f : Recursive(f, Symbol, a, F)
  <2> HIDE DEF F
  <2> QED
    BY <1>1, Recursion
<1>2x. f \in [Nat -> Symbol] /\ f[0] = a /\ \A n \in Nat : f[n + 1] = TimesAlpha(f[n])
  <2> HIDE DEF F
  <2> QED
    BY <1>1, <1>2 DEF Recursive
<1>3. f = Body(f)
  <2>1. \A i \in Nat : f[i] = IF i = 0 THEN a ELSE TimesAlpha(f[i - 1])
    <3> SUFFICES ASSUME NEW i \in Nat, i # 0 PROVE f[i] = TimesAlpha(f[i - 1])
      BY <1>2x
    <3>1. i - 1 \in Nat /\ (i - 1) + 1 = i
      OBVIOUS
    <3> QED
      BY <1>2x, <3>1
  <2> QED
    BY <1>2x, <2>1
<1>4. PICK t : t = (CHOOSE g : g = Body(g)) /\ t = Multiples(a)
  BY DEF Multiples
<1>5. t = Body(t)
  <2> HIDE DEF Body
  <2> QED
    BY <1>3, <1>4
<1>6. t[0] = a /\ \A n \in Nat : t[n + 1] = TimesAlpha(t[n])
  BY <1>5
<1>7. \A n \in Nat : t[n] \in Symbol
  <2> DEFINE T == { n \in Nat : t[n] \in Symbol }
  <2>1. 0 \in T
    BY <1>6
  <2>2. ASSUME NEW n \in Nat, n \in T PROVE n + 1 \in T
    BY <1>6, <2>2, TimesAlphaType
  <2> HIDE DEF T
  <2>3. Nat \subseteq T
    BY <2>1, <2>2, NatSetInduction
  <2> QED
    BY <2>3 DEF T
<1> QED
  BY <1>4, <1>6, <1>7 DEF Raised

\* Whatever starts at a and is multiplied by alpha in each step.
LEMMA RaisedUnique ==
  ASSUME NEW a \in Symbol, NEW f, f[0] = a, \A n \in Nat : f[n + 1] = TimesAlpha(f[n])
  PROVE  \A n \in Nat : f[n] = Raised(a, n)
<1> DEFINE T == { n \in Nat : f[n] = Raised(a, n) }
<1>1. 0 \in T
  BY RaisedFacts
<1>2. ASSUME NEW n \in Nat, n \in T PROVE n + 1 \in T
  BY <1>2, RaisedFacts
<1> HIDE DEF T
<1>3. Nat \subseteq T
  BY <1>1, <1>2, NatSetInduction
<1> QED
  BY <1>3 DEF T

\* alpha^n * a is a symbol.
LEMMA RaisedType ==
  ASSUME NEW a \in Symbol, NEW n \in Nat
  PROVE  Raised(a, n) \in Symbol
BY RaisedFacts

\* Multiplication by alpha^n keeps sums.
LEMMA RaisedAdd ==
  ASSUME NEW a \in Symbol, NEW b \in Symbol, NEW n \in Nat
  PROVE  Raised(Xor(a, b), n) = Xor(Raised(a, n), Raised(b, n))
<1> DEFINE f == [k \in Nat |-> Xor(Raised(a, k), Raised(b, k))]
<1>1. f[0] = Xor(a, b)
  BY RaisedFacts
<1>2. ASSUME NEW k \in Nat PROVE f[k + 1] = TimesAlpha(f[k])
  <2>1. /\ Raised(a, k) \in Symbol /\ Raised(a, k + 1) = TimesAlpha(Raised(a, k))
        /\ Raised(b, k) \in Symbol /\ Raised(b, k + 1) = TimesAlpha(Raised(b, k))
    BY RaisedFacts
  <2> QED
    BY <2>1, TimesAlphaAdd
<1>3. f[n] = Xor(Raised(a, n), Raised(b, n)) /\ Xor(a, b) \in Symbol
  BY XorType
<1> HIDE DEF f
<1> QED
  BY <1>1, <1>2, <1>3, RaisedUnique

\* Exponents are added.
LEMMA RaisedSum ==
  ASSUME NEW a \in Symbol, NEW m \in Nat, NEW n \in Nat
  PROVE  Raised(Raised(a, m), n) = Raised(a, m + n)
<1> DEFINE f == [k \in Nat |-> Raised(a, m + k)]
<1>1. f[0] = Raised(a, m) /\ f[n] = Raised(a, m + n) /\ Raised(a, m) \in Symbol
  BY RaisedFacts
<1>2. ASSUME NEW k \in Nat PROVE f[k + 1] = TimesAlpha(f[k])
  <2>1. m + k \in Nat /\ m + (k + 1) = (m + k) + 1
    OBVIOUS
  <2> QED
    BY <2>1, RaisedFacts
<1> HIDE DEF f
<1> QED
  BY <1>1, <1>2, RaisedUnique

\* The order of two powers does not matter.
LEMMA RaisedCommute ==
  ASSUME NEW a \in Symbol, NEW m \in Nat, NEW n \in Nat
  PROVE  Raised(Raised(a, m), n) = Raised(Raised(a, n), m)
<1>1. m + n = n + m
  OBVIOUS
<1> QED
  BY <1>1, RaisedSum

\* Multiplication by alpha^n as a function.
RaisedBy(n) == [a \in Symbol |-> Raised(a, n)]

\* It keeps sums,
LEMMA RaisedAdditive ==
  ASSUME NEW n \in Nat
  PROVE  Additive(RaisedBy(n))
BY RaisedType, RaisedAdd, XorType DEF Additive, RaisedBy

\* and zero stays zero.
LEMMA RaisedZero ==
  ASSUME NEW n \in Nat
  PROVE  Raised({}, n) = {}
<1>1. RaisedBy(n)[{}] = {}
  BY RaisedAdditive, AdditiveZero
<1> QED
  BY <1>1, Widths DEF RaisedBy

\* The first powers of alpha are the single bits.
LEMMA OneRaised ==
  ASSUME NEW i \in 0 .. mm - 1
  PROVE  Raised(One, i) = {i}
<1> DEFINE T == { n \in Nat : n \in 0 .. mm - 1 => Raised(One, n) = {n} }
<1>1. 0 \in T
  BY RaisedFacts, Widths DEF One
<1>2. ASSUME NEW n \in Nat, n \in T PROVE n + 1 \in T
  <2> SUFFICES ASSUME n + 1 \in 0 .. mm - 1 PROVE Raised(One, n + 1) = {n + 1}
    OBVIOUS
  <2>1. n \in 0 .. mm - 1 /\ mm - 1 # n
    BY Widths
  <2>2. Raised(One, n + 1) = TimesAlpha({n})
    <3>1. Raised(One, n) = {n}
      BY <1>2, <2>1
    <3>2. Raised(One, n + 1) = TimesAlpha(Raised(One, n))
      BY RaisedFacts, Widths
    <3> QED
      BY <3>1, <3>2
  <2>3. TimesAlpha({n}) = {n + 1}
    BY <2>1 DEF TimesAlpha, ShiftLeft
  <2> QED
    BY <2>2, <2>3
<1> HIDE DEF T
<1>3. Nat \subseteq T
  BY <1>1, <1>2, NatSetInduction
<1> QED
  BY <1>3, Widths DEF T

-----------------------------------------------------------------------------
(* The product *)

\* A symbol has few bits.
LEMMA SymbolFinite ==
  ASSUME NEW b \in Symbol
  PROVE  IsFiniteSet(b) /\ b \subseteq Nat /\ b \subseteq 0 .. mm - 1
<1>1. IsFiniteSet(0 .. mm - 1)
  BY FS_Interval, Widths
<1>2. b \subseteq 0 .. mm - 1
  BY DEF Symbol
<1>3. IsFiniteSet(b)
  BY <1>1, <1>2, FS_Subset
<1> QED
  BY <1>2, <1>3, Widths

\* A product is the sum of the multiples of a by alpha^i for the bits i of b.
LEMMA MulIs ==
  ASSUME NEW a \in Symbol, NEW b \in Symbol
  PROVE  /\ Mul(a, b) = XorSum([i \in b |-> Raised(a, i)])
         /\ [i \in b |-> Raised(a, i)] \in [b -> Symbol]
<1>1. Mul(a, b) = XorSum([i \in b |-> Raised(a, i)])
  BY DEF Mul, Raised
<1>2. \A i \in b : Raised(a, i) \in Symbol
  BY SymbolFinite, RaisedType
<1> QED
  BY <1>1, <1>2

\* A product is a symbol.
LEMMA MulType ==
  ASSUME NEW a \in Symbol, NEW b \in Symbol
  PROVE  Mul(a, b) \in Symbol
<1>1. Mul(a, b) = XorSum([i \in b |-> Raised(a, i)])
  BY MulIs
<1> QED
  BY <1>1, XorSumType

\* Products are distributive.
LEMMA MulAdd ==
  ASSUME NEW a \in Symbol, NEW c \in Symbol, NEW b \in Symbol
  PROVE  Mul(Xor(a, c), b) = Xor(Mul(a, b), Mul(c, b))
<1> DEFINE f == [i \in b |-> Raised(a, i)]
           g == [i \in b |-> Raised(c, i)]
           h == [i \in b |-> Raised(Xor(a, c), i)]
<1>1. \A i \in b : h[i] = Xor(f[i], g[i])
  BY SymbolFinite, RaisedAdd
<1>2. /\ f \in [b -> Symbol] /\ g \in [b -> Symbol] /\ h \in [b -> Symbol]
      /\ Mul(a, b) = XorSum(f) /\ Mul(c, b) = XorSum(g) /\ Mul(Xor(a, c), b) = XorSum(h)
  BY MulIs, XorType
<1> HIDE DEF f, g, h
<1>3. IsSum(b, f, g, h)
  BY <1>1, <1>2 DEF IsSum
<1> QED
  BY <1>2, <1>3, SymbolFinite, XorSumAdd

\* A factor alpha^n can be taken out.
LEMMA MulRaised ==
  ASSUME NEW a \in Symbol, NEW b \in Symbol, NEW n \in Nat
  PROVE  Mul(Raised(a, n), b) = Raised(Mul(a, b), n)
<1> DEFINE f == [i \in b |-> Raised(a, i)]
           g == [i \in b |-> Raised(Raised(a, n), i)]
<1>1. \A i \in b : g[i] = RaisedBy(n)[f[i]]
  <2>1. \A i \in b : i \in Nat
    BY SymbolFinite
  <2>2. ASSUME NEW i \in b PROVE g[i] = RaisedBy(n)[f[i]]
    <3>1. Raised(a, i) \in Symbol /\ Raised(Raised(a, n), i) = Raised(Raised(a, i), n)
      BY <2>1, RaisedCommute, RaisedType
    <3> QED
      BY <3>1 DEF RaisedBy
  <2> HIDE DEF f, g
  <2> QED
    BY <2>2
<1>2. /\ f \in [b -> Symbol] /\ g \in [b -> Symbol]
      /\ Mul(a, b) = XorSum(f) /\ Mul(Raised(a, n), b) = XorSum(g)
  BY MulIs, RaisedType
<1> HIDE DEF f, g
<1>3. XorSum(g) = RaisedBy(n)[XorSum(f)]
  <2>1. Maps(RaisedBy(n), b, f, g)
    BY <1>1, <1>2 DEF Maps
  <2> QED
    <3>1. Additive(RaisedBy(n)) /\ IsFiniteSet(b)
      BY SymbolFinite, RaisedAdditive
    <3> QED
      BY <2>1, <3>1, XorSumAdditive
<1> QED
  BY <1>2, <1>3, XorSumType DEF RaisedBy

\* Multiplication by b as a function.
MulBy(b) == [a \in Symbol |-> Mul(a, b)]

\* It keeps sums,
LEMMA MulAdditive ==
  ASSUME NEW b \in Symbol
  PROVE  Additive(MulBy(b))
<1>1. \A a \in Symbol : Mul(a, b) \in Symbol
  BY MulType
<1>2. ASSUME NEW x \in Symbol, NEW y \in Symbol
      PROVE  MulBy(b)[Xor(x, y)] = Xor(MulBy(b)[x], MulBy(b)[y])
  <2>1. Xor(x, y) \in Symbol /\ Mul(Xor(x, y), b) = Xor(Mul(x, b), Mul(y, b))
    BY MulAdd, XorType
  <2> QED
    BY <2>1 DEF MulBy
<1>3. MulBy(b) \in [Symbol -> Symbol]
  BY <1>1 DEF MulBy
<1> QED
  BY <1>2, <1>3 DEF Additive

\* and zero stays zero, on both sides.
LEMMA MulZero ==
  ASSUME NEW a \in Symbol
  PROVE  Mul({}, a) = {} /\ Mul(a, {}) = {}
<1>1. Mul({}, a) = {}
  <2>1. MulBy(a)[{}] = {}
    BY MulAdditive, AdditiveZero
  <2> QED
    BY <2>1, Widths DEF MulBy
<1>2. Mul(a, {}) = {}
  <2> DEFINE f == [i \in {} |-> Raised(a, i)]
  <2>1. Mul(a, {}) = XorSum(f) /\ f \in [{} -> Symbol]
    BY MulIs, Widths
  <2> HIDE DEF f
  <2> QED
    BY <2>1, XorSumNone
<1> QED
  BY <1>1, <1>2

\* One is the neutral element.
LEMMA MulOne ==
  ASSUME NEW b \in Symbol
  PROVE  Mul(One, b) = b
<1> DEFINE f == [i \in b |-> Raised(One, i)]
<1>1. \A i \in b : f[i] = {i}
  BY SymbolFinite, OneRaised
<1>2. Mul(One, b) = XorSum(f) /\ f \in [b -> Symbol] /\ DOMAIN f = b
  BY MulIs, Widths
<1> HIDE DEF f
<1>3. ASSUME NEW bit \in 0 .. mm - 1
      PROVE  bit \in XorSum(f) <=> bit \in b
  <2>1. {i \in b : bit \in f[i]} = IF bit \in b THEN {bit} ELSE {}
    BY <1>1
  <2>2. Cardinality({bit}) = 1 /\ Cardinality({}) = 0
    BY FS_Singleton, FS_EmptySet
  <2>3. Odd({bit}) /\ ~Odd({})
    BY <2>2 DEF Odd
  <2> QED
    BY <1>2, <2>1, <2>3, XorSumBit
<1> QED
  BY <1>2, <1>3, XorSumType, SymbolExtensional

-----------------------------------------------------------------------------
(* The powers of alpha *)

\* alpha_to[i], as the model has it, is alpha^i.
LEMMA PowerIs ==
  /\ Power = [i \in 0 .. nn - 1 |-> Power[i]]
  /\ \A i \in 0 .. nn - 1 : Power[i] = Raised(One, i)
<1> DEFINE Body(g) == [i \in 0 .. nn - 1 |->
                         IF i = 0 THEN One
                         ELSE IF i % 2 = 1 THEN TimesAlpha(g[i - 1])
                         ELSE LET half == g[i \div 2] IN Mul(half, half)]
           f == [i \in 0 .. nn - 1 |-> Raised(One, i)]
<1>1. ASSUME NEW i \in 0 .. nn - 1, i # 0
      PROVE  /\ i - 1 \in 0 .. nn - 1 /\ Raised(One, i) = TimesAlpha(Raised(One, i - 1))
             /\ i % 2 # 1 => /\ i \div 2 \in 0 .. i - 1
                             /\ Raised(One, i) = Mul(Raised(One, i \div 2), Raised(One, i \div 2))
  <2>1. i - 1 \in Nat /\ (i - 1) + 1 = i /\ i - 1 \in 0 .. nn - 1
    BY <1>1, Widths
  <2>2. Raised(One, i) = TimesAlpha(Raised(One, i - 1))
    BY <2>1, RaisedFacts, Widths
  <2>3. CASE i % 2 # 1
    <3>1. PICK h \in Nat : h = i \div 2 /\ h + h = i
      BY <2>1, <2>3
    <3>2. Raised(One, h) \in Symbol
      BY RaisedType, Widths
    <3>3. Mul(Raised(One, h), Raised(One, h)) = Raised(Raised(One, h), h)
      BY <3>2, MulRaised, MulOne, Widths
    <3>4. Raised(Raised(One, h), h) = Raised(One, h + h)
      BY RaisedSum, Widths
    <3>5. h \in 0 .. i - 1
      BY <3>1, <1>1
    <3> QED
      BY <2>1, <2>2, <3>1, <3>3, <3>4, <3>5
  <2> QED
    BY <2>1, <2>2, <2>3
<1>2. f = Body(f)
  <2>1. ASSUME NEW i \in 0 .. nn - 1 PROVE f[i] = Body(f)[i]
    <3>1. CASE i = 0
      BY <3>1, RaisedFacts, Widths
    <3>2. CASE i # 0
      <4>1. f[i] = Raised(One, i) /\ f[i - 1] = Raised(One, i - 1)
        BY <1>1, <3>2
      <4>2. i % 2 # 1 => i \div 2 \in 0 .. nn - 1 /\ f[i \div 2] = Raised(One, i \div 2)
        <5> SUFFICES ASSUME i % 2 # 1
                     PROVE  i \div 2 \in 0 .. nn - 1 /\ f[i \div 2] = Raised(One, i \div 2)
          OBVIOUS
        <5>1. PICK h : h = i \div 2 /\ h \in 0 .. i - 1
          BY <1>1, <3>2
        <5>2. h \in 0 .. nn - 1
          BY <5>1, Widths
        <5> QED
          BY <5>1, <5>2
      <4> HIDE DEF f
      <4> QED
        BY <1>1, <3>2, <4>1, <4>2
    <3> QED
      BY <3>1, <3>2
  <2> QED
    BY <2>1
<1>3. PICK p : p = (CHOOSE g : g = Body(g)) /\ Power = [i \in 0 .. nn - 1 |-> p[i]]
  <2>1. Power = [i \in 0 .. nn - 1 |-> (CHOOSE g : g = Body(g))[i]]
    BY Zenon DEF Power
  <2> HIDE DEF Body, f
  <2> QED
    BY <2>1
<1>4. p = Body(p)
  <2> HIDE DEF Body, f
  <2> QED
    BY <1>2, <1>3
<1>5. \A i \in 0 .. nn - 1 : p[i] = Raised(One, i)
  <2> DEFINE T == { n \in Nat : \A i \in 0 .. nn - 1 : i <= n => p[i] = Raised(One, i) }
  <2>1. 0 \in T
    <3>1. p[0] = One
      BY <1>4, Widths
    <3> QED
      BY <3>1, RaisedFacts, Widths
  <2>2. ASSUME NEW n \in Nat, n \in T PROVE n + 1 \in T
    <3> SUFFICES ASSUME NEW i \in 0 .. nn - 1, i = n + 1 PROVE p[i] = Raised(One, i)
      BY <2>2
    <3>1. i # 0 /\ i - 1 <= n
      OBVIOUS
    <3>2. p[i] = IF i % 2 = 1 THEN TimesAlpha(p[i - 1]) ELSE Mul(p[i \div 2], p[i \div 2])
      BY <1>4, <3>1
    <3>3. p[i - 1] = Raised(One, i - 1)
      BY <1>1, <2>2, <3>1
    <3>4. i % 2 # 1 => p[i \div 2] = Raised(One, i \div 2)
      <4> SUFFICES ASSUME i % 2 # 1 PROVE p[i \div 2] = Raised(One, i \div 2)
        OBVIOUS
      <4>1. PICK h : h = i \div 2 /\ h \in 0 .. i - 1
        BY <1>1, <3>1
      <4>2. h \in 0 .. nn - 1 /\ h <= n
        BY <4>1, Widths
      <4> QED
        BY <2>2, <4>1, <4>2
    <3> QED
      BY <1>1, <3>1, <3>2, <3>3, <3>4
  <2> HIDE DEF T
  <2>3. Nat \subseteq T
    BY <2>1, <2>2, NatSetInduction
  <2> QED
    BY <2>3, Widths DEF T
<1> QED
  BY <1>3, <1>5

\* No power occurs twice before alpha^nn = 1.
LEMMA PowerInjective ==
  ASSUME NEW i \in 0 .. nn - 1, NEW k \in 0 .. nn - 1, Power[i] = Power[k]
  PROVE  i = k
<1> DEFINE S == 0 .. nn - 1
           U == Symbol \ {{}}
<1>1. Power \in Surjection(S, U)
  <2>1. \A x \in S : Power[x] \in U
    BY PrimitiveAssumption DEF NoBit
  <2>2. \A y \in U : \E x \in S : Power[x] = y
    BY PrimitiveAssumption DEF NoBit
  <2>3. Power \in [S -> U]
    BY <2>1, PowerIs
  <2> QED
    BY <2>2, <2>3 DEF Surjection
<1>2. IsFiniteSet(S) /\ Cardinality(S) = nn
  BY FS_Interval, Widths
<1>3. Cardinality(U) = nn
  <2> DEFINE B == 0 .. mm - 1
  <2>1. IsFiniteSet(B) /\ Cardinality(B) = mm
    BY FS_Interval, Widths
  <2>2. IsFiniteSet(SUBSET B) /\ Cardinality(SUBSET B) = 2 ^ Cardinality(B)
    BY <2>1, FS_SUBSET
  <2>3. IsFiniteSet(Symbol) /\ Cardinality(Symbol) = 2 ^ mm
    BY <2>1, <2>2 DEF Symbol
  <2>4. Cardinality(U) = Cardinality(Symbol) - 1
    BY <2>3, FS_RemoveElement, Widths
  <2> QED
    BY <2>3, <2>4, FieldAssumption
<1>4. Power \in Injection(S, U)
  <2> HIDE DEF S, U
  <2> QED
    BY <1>1, <1>2, <1>3, FS_SurjSameCardinalityImpliesInj
<1> QED
  BY <1>4 DEF Injection, IsInjective

\* alpha^nn is one: what lies behind the last power is none of the others, as they are
\* different and multiplication by alpha keeps them so.
LEMMA OneWraps == Raised(One, nn) = One
<1>1. nn - 1 \in 0 .. nn - 1 /\ (nn - 1) + 1 = nn /\ 0 \in 0 .. nn - 1
  BY Widths
<1>2. Raised(One, nn) = TimesAlpha(Power[nn - 1]) /\ Power[nn - 1] \in Symbol /\ Power[nn - 1] # {}
  <2>1. Raised(One, nn) = TimesAlpha(Raised(One, nn - 1))
    BY <1>1, RaisedFacts, Widths
  <2> QED
    BY <1>1, <2>1, PowerIs, PrimitiveAssumption DEF NoBit
<1>3. TimesAlpha(Power[nn - 1]) \in Symbol \ {NoBit}
  BY <1>2, TimesAlphaType, TimesAlphaNonZero DEF NoBit
<1>4. PICK k \in 0 .. nn - 1 : Power[k] = TimesAlpha(Power[nn - 1])
  BY <1>3, PrimitiveAssumption
<1>5. CASE k = 0
  BY <1>1, <1>2, <1>4, <1>5, PowerIs, RaisedFacts, Widths
<1>6. CASE k # 0
  <2>1. k - 1 \in 0 .. nn - 1 /\ k - 1 \in Nat /\ (k - 1) + 1 = k /\ k - 1 # nn - 1
    BY <1>6, Widths
  <2>2. Power[k] = TimesAlpha(Power[k - 1]) /\ Power[k - 1] \in Symbol
    <3>1. Power[k] = Raised(One, k) /\ Power[k - 1] = Raised(One, k - 1)
      BY <2>1, PowerIs
    <3> QED
      BY <2>1, <3>1, RaisedFacts, Widths
  <2>3. Power[k - 1] = Power[nn - 1]
    BY <1>2, <1>4, <2>2, TimesAlphaInjective
  <2> QED
    BY <1>1, <2>1, <2>3, PowerInjective
<1> QED
  BY <1>5, <1>6

\* index_of is the inverse of alpha_to.
LEMMA LogFacts ==
  /\ Log[{}] = -1
  /\ \A a \in Symbol \ {{}} : Log[a] \in 0 .. nn - 1 /\ Power[Log[a]] = a
<1>1. Log[{}] = -1
  BY Widths DEF Log, NoBit
<1>2. ASSUME NEW a \in Symbol \ {{}} PROVE Log[a] \in 0 .. nn - 1 /\ Power[Log[a]] = a
  <2>1. \E i \in 0 .. nn - 1 : Power[i] = a
    BY PrimitiveAssumption DEF NoBit
  <2>2. Log[a] = CHOOSE i \in 0 .. nn - 1 : Power[i] = a
    BY DEF Log, NoBit
  <2> QED
    BY <2>1, <2>2
<1> QED
  BY <1>1, <1>2

\* Only zero becomes zero.
LEMMA RaisedNonZero ==
  ASSUME NEW a \in Symbol, NEW n \in Nat, Raised(a, n) = {}
  PROVE  a = {}
<1> DEFINE T == { k \in Nat : Raised(a, k) = {} => a = {} }
<1>1. 0 \in T
  BY RaisedFacts
<1>2. ASSUME NEW k \in Nat, k \in T PROVE k + 1 \in T
  BY <1>2, RaisedFacts, TimesAlphaNonZero
<1> HIDE DEF T
<1>3. Nat \subseteq T
  BY <1>1, <1>2, NatSetInduction
<1> QED
  BY <1>3 DEF T

\* Different symbols stay different.
LEMMA RaisedInjective ==
  ASSUME NEW a \in Symbol, NEW b \in Symbol, NEW n \in Nat, Raised(a, n) = Raised(b, n)
  PROVE  a = b
<1>1. Raised(Xor(a, b), n) = {}
  BY RaisedAdd, XorFacts
<1>2. Xor(a, b) = {}
  BY <1>1, XorType, RaisedNonZero
<1> QED
  BY <1>2 DEF Xor, SymDiff

\* Different positions of a word have different powers.
LEMMA RaisedDistinct ==
  ASSUME NEW a \in Symbol, a # {}, NEW i \in 0 .. nn - 1, NEW k \in 0 .. nn - 1,
         Raised(a, i) = Raised(a, k)
  PROVE  i = k
<1>1. PICK n \in Nat : a = Raised(One, n)
  <2>1. Log[a] \in 0 .. nn - 1 /\ Power[Log[a]] = a
    BY LogFacts
  <2> QED
    BY <2>1, PowerIs, Widths
<1>2. i \in Nat /\ k \in Nat
  BY Widths
<1>3. Raised(Raised(One, i), n) = Raised(Raised(One, k), n)
  BY <1>1, <1>2, RaisedCommute, Widths
<1>4. Raised(One, i) = Raised(One, k)
  BY <1>2, <1>3, RaisedInjective, RaisedType, Widths
<1> QED
  BY <1>4, PowerIs, PowerInjective

\* alpha^nn changes nothing,
LEMMA RaisedWraps ==
  ASSUME NEW a \in Symbol
  PROVE  Raised(a, nn) = a
<1>1. CASE a = {}
  BY <1>1, RaisedZero, Widths
<1>2. CASE a # {}
  <2>1. PICK i \in Nat : a = Raised(One, i)
    <3>1. Log[a] \in 0 .. nn - 1 /\ Power[Log[a]] = a
      BY <1>2, LogFacts
    <3> QED
      BY <3>1, PowerIs, Widths
  <2>2. Raised(Raised(One, i), nn) = Raised(Raised(One, nn), i)
    BY RaisedCommute, Widths
  <2> QED
    BY <2>1, <2>2, OneWraps
<1> QED
  BY <1>1, <1>2

\* so that exponents count modulo nn.
LEMMA RaisedMod ==
  ASSUME NEW a \in Symbol, NEW m \in Nat
  PROVE  Raised(a, m) = Raised(a, m % nn)
<1> DEFINE T == { n \in Nat : Raised(a, n) = Raised(a, n % nn) }
<1>0. nn \in Nat \ {0}
  BY Widths
<1>1. 0 \in T
  <2>1. 0 % nn = 0
    BY <1>0, ModSmall
  <2> QED
    BY <2>1
<1>2. ASSUME NEW n \in Nat, n \in T PROVE n + 1 \in T
  <2>1. PICK r : r = n % nn /\ r \in 0 .. nn - 1
    BY <1>0, ModStep
  <2>2. Raised(a, n + 1) = Raised(a, r + 1)
    BY <1>2, <2>1, RaisedFacts, Widths
  <2>3. (n + 1) % nn = IF r = nn - 1 THEN 0 ELSE r + 1
    BY <1>0, <2>1, ModStep
  <2>4. CASE r = nn - 1
    <3>1. r + 1 = nn
      BY <1>0, <2>4
    <3>2. Raised(a, r + 1) = Raised(a, 0)
      BY <3>1, RaisedWraps, RaisedFacts
    <3> QED
      BY <2>2, <2>3, <2>4, <3>2
  <2>5. CASE r # nn - 1
    BY <2>2, <2>3, <2>5
  <2> QED
    BY <2>4, <2>5
<1> HIDE DEF T
<1>3. Nat \subseteq T
  BY <1>1, <1>2, NatSetInduction
<1> QED
  BY <1>3 DEF T

\* Through the tables or not.
LEMMA TimesPowerIs ==
  ASSUME NEW a \in Symbol, NEW i \in Nat
  PROVE  TimesPower(a, i) = Raised(a, i)
<1>1. CASE a = {}
  BY <1>1, RaisedZero DEF TimesPower, NoBit
<1>2. CASE a # {}
  <2>1. PICK k \in 0 .. nn - 1 : k = Log[a] /\ Power[k] = a
    BY <1>2, LogFacts
  <2>2. a = Raised(One, k) /\ k \in Nat /\ k + i \in Nat
    BY <2>1, PowerIs, Widths
  <2>3. Raised(a, i) = Raised(One, k + i)
    BY <2>2, RaisedSum, Widths
  <2>4. Raised(One, k + i) = Raised(One, (k + i) % nn) /\ (k + i) % nn \in 0 .. nn - 1
    <3>1. nn \in Nat \ {0} /\ One \in Symbol
      BY Widths
    <3>2. (k + i) % nn \in 0 .. nn - 1
      BY <2>2, <3>1, ModStep
    <3> QED
      BY <2>2, <3>1, <3>2, RaisedMod
  <2> QED
    BY <1>2, <2>1, <2>3, <2>4, PowerIs DEF TimesPower, NoBit
<1> QED
  BY <1>1, <1>2

-----------------------------------------------------------------------------
(* Polynomials *)

\* The terms of the value at alpha^i.
LEMMA ValueIs ==
  ASSUME NEW n \in Nat, NEW c \in [0 .. n -> Symbol], NEW i \in Nat
  PROVE  /\ ValueAt(c, i) = XorSum([k \in 0 .. n |-> Raised(c[k], i * k)])
         /\ [k \in 0 .. n |-> Raised(c[k], i * k)] \in [0 .. n -> Symbol]
         /\ IsFiniteSet(0 .. n)
<1>1. ASSUME NEW k \in 0 .. n
      PROVE  TimesPower(c[k], i * k) = Raised(c[k], i * k) /\ Raised(c[k], i * k) \in Symbol
  <2>1. i * k \in Nat /\ c[k] \in Symbol
    OBVIOUS
  <2> QED
    BY <2>1, TimesPowerIs, RaisedType
<1>2. [k \in DOMAIN c |-> TimesPower(c[k], i * k)] = [k \in 0 .. n |-> Raised(c[k], i * k)]
  BY <1>1
<1>3. ValueAt(c, i) = XorSum([k \in 0 .. n |-> Raised(c[k], i * k)])
  BY <1>2 DEF ValueAt
<1>4. [k \in 0 .. n |-> Raised(c[k], i * k)] \in [0 .. n -> Symbol]
  BY <1>1
<1>5. IsFiniteSet(0 .. n)
  BY FS_Interval
<1> QED
  BY <1>3, <1>4, <1>5

\* A value is a symbol.
LEMMA ValueType ==
  ASSUME NEW c, NEW i
  PROVE  ValueAt(c, i) \in Symbol
BY XorSumType DEF ValueAt

\* The value of a sum is the sum of the values.
LEMMA ValueAdd ==
  ASSUME NEW n \in Nat, NEW i \in Nat, NEW c, NEW d, NEW e, IsSum(0 .. n, c, d, e)
  PROVE  ValueAt(e, i) = Xor(ValueAt(c, i), ValueAt(d, i))
<1> DEFINE f(x) == [k \in 0 .. n |-> Raised(x[k], i * k)]
<1>1. ASSUME NEW x \in [0 .. n -> Symbol]
      PROVE  /\ f(x) \in [0 .. n -> Symbol] /\ IsFiniteSet(0 .. n)
             /\ ValueAt(x, i) = XorSum(f(x))
  BY ValueIs
<1>0. c \in [0 .. n -> Symbol] /\ d \in [0 .. n -> Symbol] /\ e \in [0 .. n -> Symbol]
  BY DEF IsSum
<1>2. ASSUME NEW k \in 0 .. n PROVE f(e)[k] = Xor(f(c)[k], f(d)[k])
  <2>1. /\ c[k] \in Symbol /\ d[k] \in Symbol /\ i * k \in Nat
        /\ e[k] = Xor(c[k], d[k])
    BY DEF IsSum
  <2> QED
    BY <2>1, RaisedAdd
<1> HIDE DEF f
<1> DEFINE D == 0 .. n
<1>3. /\ f(c) \in [D -> Symbol] /\ f(d) \in [D -> Symbol] /\ f(e) \in [D -> Symbol]
      /\ IsFiniteSet(D) /\ \A k \in D : f(e)[k] = Xor(f(c)[k], f(d)[k])
  BY <1>0, <1>1, <1>2
<1>4. /\ ValueAt(c, i) = XorSum(f(c)) /\ ValueAt(d, i) = XorSum(f(d))
      /\ ValueAt(e, i) = XorSum(f(e))
  BY <1>0, <1>1
<1> HIDE DEF D
<1>5. IsSum(D, f(c), f(d), f(e))
  BY <1>3 DEF IsSum
<1>6. XorSum(f(e)) = Xor(XorSum(f(c)), XorSum(f(d)))
  BY <1>3, <1>5, XorSumAdd
<1> QED
  BY <1>4, <1>6

\* A multiple of a polynomial.
LEMMA ValueAdditive ==
  ASSUME NEW L, Additive(L), \A a \in Symbol, m \in Nat : Raised(L[a], m) = L[Raised(a, m)],
         NEW n \in Nat, NEW i \in Nat, NEW c, NEW d, Maps(L, 0 .. n, c, d)
  PROVE  ValueAt(d, i) = L[ValueAt(c, i)]
<1> DEFINE f(x) == [k \in 0 .. n |-> Raised(x[k], i * k)]
<1>1. ASSUME NEW x \in [0 .. n -> Symbol]
      PROVE  /\ f(x) \in [0 .. n -> Symbol] /\ IsFiniteSet(0 .. n)
             /\ ValueAt(x, i) = XorSum(f(x))
  BY ValueIs
<1>0. c \in [0 .. n -> Symbol] /\ d \in [0 .. n -> Symbol]
  BY DEF Maps
<1>2. ASSUME NEW k \in 0 .. n PROVE f(d)[k] = L[f(c)[k]]
  <2>1. c[k] \in Symbol /\ i * k \in Nat /\ d[k] = L[c[k]]
    BY DEF Maps
  <2> QED
    BY <2>1
<1> HIDE DEF f
<1> DEFINE D == 0 .. n
<1>3. /\ f(c) \in [D -> Symbol] /\ f(d) \in [D -> Symbol]
      /\ IsFiniteSet(D) /\ \A k \in D : f(d)[k] = L[f(c)[k]]
  BY <1>0, <1>1, <1>2
<1>4. ValueAt(c, i) = XorSum(f(c)) /\ ValueAt(d, i) = XorSum(f(d))
  BY <1>0, <1>1
<1> HIDE DEF D
<1>5. Maps(L, D, f(c), f(d))
  BY <1>3 DEF Maps
<1>6. XorSum(f(d)) = L[XorSum(f(c))]
  BY <1>3, <1>5, XorSumAdditive
<1> QED
  BY <1>4, <1>6

\* In particular multiplication by alpha^m
LEMMA ValueRaised ==
  ASSUME NEW n \in Nat, NEW i \in Nat, NEW m \in Nat,
         NEW c \in [0 .. n -> Symbol], NEW d \in [0 .. n -> Symbol],
         \A k \in 0 .. n : d[k] = Raised(c[k], m)
  PROVE  ValueAt(d, i) = Raised(ValueAt(c, i), m)
<1>1. \A k \in 0 .. n : d[k] = RaisedBy(m)[c[k]]
  BY DEF RaisedBy
<1>2. \A a \in Symbol, x \in Nat : Raised(RaisedBy(m)[a], x) = RaisedBy(m)[Raised(a, x)]
  BY RaisedCommute, RaisedType DEF RaisedBy
<1>3. Maps(RaisedBy(m), 0 .. n, c, d)
  BY <1>1 DEF Maps
<1>4. ValueAt(d, i) = RaisedBy(m)[ValueAt(c, i)]
  BY <1>2, <1>3, RaisedAdditive, ValueAdditive
<1> QED
  BY <1>4, ValueType DEF RaisedBy

\* and by any symbol.
LEMMA ValueMul ==
  ASSUME NEW n \in Nat, NEW i \in Nat, NEW b \in Symbol,
         NEW c \in [0 .. n -> Symbol], NEW d \in [0 .. n -> Symbol],
         \A k \in 0 .. n : d[k] = Mul(c[k], b)
  PROVE  ValueAt(d, i) = Mul(ValueAt(c, i), b)
<1>1. \A k \in 0 .. n : d[k] = MulBy(b)[c[k]]
  BY DEF MulBy
<1>2. \A a \in Symbol, x \in Nat : Raised(MulBy(b)[a], x) = MulBy(b)[Raised(a, x)]
  BY MulRaised, RaisedType DEF MulBy
<1>3. Maps(MulBy(b), 0 .. n, c, d)
  BY <1>1 DEF Maps
<1>4. ValueAt(d, i) = MulBy(b)[ValueAt(c, i)]
  BY <1>2, <1>3, MulAdditive, ValueAdditive
<1> QED
  BY <1>4, ValueType DEF MulBy

\* Leading zeros.
LEMMA ValueExtend ==
  ASSUME NEW n \in Nat, NEW m \in Nat, NEW i \in Nat, NEW c, NEW d, Extends(0 .. m, 0 .. n, d, c)
  PROVE  ValueAt(d, i) = ValueAt(c, i)
<1> DEFINE f == [k \in 0 .. n |-> Raised(c[k], i * k)]
           g == [k \in 0 .. m |-> Raised(d[k], i * k)]
<1>1. /\ c \in [0 .. n -> Symbol] /\ d \in [0 .. m -> Symbol] /\ 0 .. n \subseteq 0 .. m
      /\ \A k \in 0 .. n : d[k] = c[k]
      /\ \A k \in 0 .. m : k \notin 0 .. n => d[k] = {}
  BY DEF Extends
<1>2. f \in [0 .. n -> Symbol] /\ ValueAt(c, i) = XorSum(f)
  BY <1>1, ValueIs
<1>3. g \in [0 .. m -> Symbol] /\ ValueAt(d, i) = XorSum(g)
  BY <1>1, ValueIs
<1>4. \A k \in 0 .. n : g[k] = f[k]
  BY <1>1
<1>5. ASSUME NEW k \in 0 .. m, k \notin 0 .. n PROVE g[k] = {}
  <2>1. d[k] = {} /\ i * k \in Nat
    BY <1>1, <1>5
  <2> QED
    BY <2>1, RaisedZero
<1> HIDE DEF f, g
<1>6. Extends(0 .. m, 0 .. n, g, f)
  BY <1>1, <1>2, <1>3, <1>4, <1>5 DEF Extends
<1> QED
  BY <1>2, <1>3, <1>6, XorSumSupport

\* A zero in front does not count.
LEMMA XorSumRest ==
  ASSUME NEW n \in Nat, NEW g \in [0 .. n + 1 -> Symbol], NEW e \in [1 .. n + 1 -> Symbol],
         \A x \in 1 .. n + 1 : g[x] = e[x],
         \A x \in 0 .. n + 1 : x \notin 1 .. n + 1 => g[x] = {}
  PROVE  XorSum(g) = XorSum(e)
<1> DEFINE D == 0 .. n + 1
           E == 1 .. n + 1
<1>1. /\ e \in [E -> Symbol] /\ g \in [D -> Symbol] /\ E \subseteq D
      /\ \A x \in E : g[x] = e[x]
      /\ \A x \in D : x \notin E => g[x] = {}
  OBVIOUS
<1> HIDE DEF D, E
<1>2. Extends(D, E, g, e)
  BY <1>1 DEF Extends
<1> QED
  BY <1>2, XorSumSupport

\* A polynomial times x.
LEMMA ValueShift ==
  ASSUME NEW n \in Nat, NEW i \in Nat,
         NEW c \in [0 .. n -> Symbol], NEW d \in [0 .. n + 1 -> Symbol],
         d[0] = {}, \A k \in 0 .. n : d[k + 1] = c[k]
  PROVE  ValueAt(d, i) = Raised(ValueAt(c, i), i)
<1> DEFINE f == [k \in 0 .. n |-> Raised(c[k], i * k)]
           g == [k \in 0 .. n + 1 |-> Raised(d[k], i * k)]
           e == [k \in 1 .. n + 1 |-> g[k]]
           a == [k \in 0 .. n |-> Raised(f[k], i)]
           h == [k \in 0 .. n |-> k + 1]
<1>1. /\ f \in [0 .. n -> Symbol] /\ g \in [0 .. n + 1 -> Symbol] /\ IsFiniteSet(0 .. n)
      /\ ValueAt(c, i) = XorSum(f) /\ ValueAt(d, i) = XorSum(g)
  <2>1. n + 1 \in Nat
    OBVIOUS
  <2>2. /\ f \in [0 .. n -> Symbol] /\ IsFiniteSet(0 .. n) /\ ValueAt(c, i) = XorSum(f)
    BY ValueIs
  <2>3. g \in [0 .. n + 1 -> Symbol] /\ ValueAt(d, i) = XorSum(g)
    <3>1. n + 1 \in Nat /\ d \in [0 .. n + 1 -> Symbol] /\ i \in Nat
      BY <2>1
    <3> QED
      BY <3>1, ValueIs, Zenon
  <2> QED
    BY <2>2, <2>3
<1>2. e \in [1 .. n + 1 -> Symbol] /\ a \in [0 .. n -> Symbol]
  <2>1. \A k \in 0 .. n : f[k] \in Symbol
    BY <1>1
  <2>2. \A k \in 1 .. n + 1 : k \in 0 .. n + 1
    OBVIOUS
  <2>3. \A k \in 1 .. n + 1 : g[k] \in Symbol
    BY <1>1, <2>2
  <2> HIDE DEF f, g
  <2>4. e \in [1 .. n + 1 -> Symbol]
    BY <2>3
  <2>5. \A k \in 0 .. n : Raised(f[k], i) \in Symbol
    BY <2>1, RaisedType
  <2>6. a \in [0 .. n -> Symbol]
    BY <2>5
  <2> QED
    BY <2>4, <2>6
<1>3. XorSum(g) = XorSum(e)
  <2>1. g[0] = {}
    <3>1. i * 0 \in Nat /\ 0 \in 0 .. n + 1
      OBVIOUS
    <3>2. g[0] = Raised({}, i * 0)
      BY <3>1
    <3> HIDE DEF g
    <3> QED
      BY <3>1, <3>2, RaisedZero
  <2>2. \A k \in 0 .. n + 1 : k \notin 1 .. n + 1 => g[k] = {}
    <3>1. \A k \in 0 .. n + 1 : k \notin 1 .. n + 1 => k = 0
      OBVIOUS
    <3> HIDE DEF g
    <3> QED
      BY <2>1, <3>1
  <2>3. 1 .. n + 1 \subseteq 0 .. n + 1 /\ \A k \in 1 .. n + 1 : g[k] = e[k]
    OBVIOUS
  <2>4. g \in [0 .. n + 1 -> Symbol] /\ e \in [1 .. n + 1 -> Symbol]
    BY <1>1, <1>2
  <2> HIDE DEF f, g, e, a, h
  <2> QED
    BY <2>2, <2>3, <2>4, XorSumRest
<1>4. XorSum(a) = XorSum(e)
  <2>1. h \in Bijection(0 .. n, 1 .. n + 1)
    <3>1. h \in [0 .. n -> 1 .. n + 1] /\ \A x, y \in 0 .. n : h[x] = h[y] => x = y
      OBVIOUS
    <3>2. ASSUME NEW y \in 1 .. n + 1 PROVE \E x \in 0 .. n : h[x] = y
      <4>1. y - 1 \in 0 .. n /\ (y - 1) + 1 = y
        OBVIOUS
      <4> QED
        BY <4>1
    <3> HIDE DEF h
    <3> QED
      BY <3>1, <3>2 DEF Bijection, Injection, Surjection, IsInjective
  <2>2. ASSUME NEW k \in 0 .. n PROVE a[k] = e[h[k]]
    <3>1. k + 1 \in 1 .. n + 1 /\ k + 1 \in 0 .. n + 1 /\ d[k + 1] = c[k] /\ c[k] \in Symbol
      OBVIOUS
    <3>2. e[h[k]] = Raised(c[k], i * (k + 1))
      BY <3>1
    <3>3. i * (k + 1) = i * k + i /\ i * k \in Nat
      OBVIOUS
    <3>4. Raised(Raised(c[k], i * k), i) = Raised(c[k], i * k + i)
      BY <3>1, <3>3, RaisedSum
    <3> QED
      BY <3>2, <3>3, <3>4
  <2> HIDE DEF a, e, h, f, g
  <2>3. IsFiniteSet(0 .. n)
    BY <1>1
  <2> DEFINE D == 0 .. n
             E == 1 .. n + 1
  <2>4. /\ e \in [E -> Symbol] /\ a \in [D -> Symbol] /\ IsFiniteSet(D)
        /\ h \in Bijection(D, E) /\ \A x \in D : a[x] = e[h[x]]
    BY <1>2, <2>1, <2>2, <2>3
  <2> HIDE DEF D, E
  <2> QED
    BY <2>4, XorSumBijection
<1>5. XorSum(a) = Raised(XorSum(f), i)
  <2>1. \A k \in 0 .. n : a[k] = RaisedBy(i)[f[k]]
    BY <1>1 DEF RaisedBy
  <2>2. XorSum(a) = RaisedBy(i)[XorSum(f)]
    <3> DEFINE L == RaisedBy(i)
    <3>1. Additive(L) /\ \A k \in 0 .. n : a[k] = L[f[k]]
      BY <2>1, RaisedAdditive
    <3>2. f \in [0 .. n -> Symbol] /\ a \in [0 .. n -> Symbol] /\ IsFiniteSet(0 .. n)
      BY <1>1, <1>2
    <3> HIDE DEF a, f, g, e, h, L
    <3> DEFINE D == 0 .. n
    <3>3. Maps(L, D, f, a) /\ IsFiniteSet(D)
      BY <3>1, <3>2 DEF Maps
    <3> HIDE DEF D
    <3>4. XorSum(a) = L[XorSum(f)]
      BY <3>1, <3>3, XorSumAdditive
    <3> QED
      BY <3>4 DEF L
  <2> QED
    BY <2>2, XorSumType DEF RaisedBy
<1> QED
  BY <1>1, <1>3, <1>4, <1>5

-----------------------------------------------------------------------------
(* The generator polynomial *)

\* The degree of the generator, 2 tt.
Degree == nn - kk
Polynomial == [0 .. Degree -> Symbol]

\* (x + alpha^i) * p, the leading coefficient of p dropped.
Factor(p, i) ==
  [k \in 0 .. Degree |-> Xor(IF k = 0 THEN NoBit ELSE p[k - 1], TimesPower(p[k], i))]

\* One round of gen_poly keeps polynomials of that degree.
LEMMA FactorType ==
  ASSUME NEW p \in Polynomial, NEW i \in Nat
  PROVE  Factor(p, i) \in Polynomial
<1> SUFFICES ASSUME NEW k \in 0 .. Degree
             PROVE  Xor(IF k = 0 THEN NoBit ELSE p[k - 1], TimesPower(p[k], i)) \in Symbol
  BY DEF Factor, Polynomial
<1>1. p[k] \in Symbol /\ (k # 0 => p[k - 1] \in Symbol) /\ NoBit \in Symbol
  BY Widths DEF Polynomial, NoBit, Degree
<1>2. TimesPower(p[k], i) \in Symbol
  BY <1>1, TimesPowerIs, RaisedType
<1> QED
  BY <1>1, <1>2, XorType

\* The product of the first factors.
IsProduct(p) ==
  /\ p \in [0 .. Degree -> Polynomial]
  /\ p[0] = [k \in 0 .. Degree |-> IF k = 0 THEN One ELSE NoBit]
  /\ \A i \in 0 .. Degree - 1 : p[i + 1] = Factor(p[i], i)

\* The generator is what the rounds of gen_poly make of one.
LEMMA GeneratorIs ==
  \E p : IsProduct(p) /\ Generator = p[Degree]
<1> DEFINE first == [k \in 0 .. Degree |-> IF k = 0 THEN One ELSE NoBit]
           F == [x \in Nat \X Polynomial |-> Factor(x[2], x[1])]
           Body(g) == [i \in 0 .. nn - kk |->
                         IF i = 0 THEN [k \in 0 .. nn - kk |-> IF k = 0 THEN One ELSE NoBit]
                         ELSE [k \in 0 .. nn - kk |->
                                 Xor(IF k = 0 THEN NoBit ELSE g[i - 1][k - 1],
                                     TimesPower(g[i - 1][k], i - 1))]]
<1>1. /\ F \in [Nat \X Polynomial -> Polynomial]
      /\ \A n \in Nat, p \in Polynomial : F[<<n, p>>] = Factor(p, n)
  BY FactorType
<1>2. first \in Polynomial
  BY Widths DEF Polynomial, NoBit
<1>3. PICK f : Recursive(f, Polynomial, first, F)
  <2> HIDE DEF F, first
  <2> QED
    BY <1>1, <1>2, Recursion
<1>4. /\ f \in [Nat -> Polynomial] /\ f[0] = first
      /\ \A n \in Nat : f[n + 1] = Factor(f[n], n)
  <2> HIDE DEF F, first
  <2> QED
    BY <1>1, <1>3 DEF Recursive
<1> DEFINE p == [i \in 0 .. Degree |-> f[i]]
<1>5. p = Body(p)
  <2>1. ASSUME NEW i \in 0 .. nn - kk PROVE p[i] = Body(p)[i]
    <3>1. CASE i = 0
      BY <1>4, <3>1 DEF Degree
    <3>2. CASE i # 0
      <4>1. i - 1 \in Nat /\ (i - 1) + 1 = i /\ i - 1 \in 0 .. Degree /\ i \in 0 .. Degree
        BY <3>2, Widths DEF Degree
      <4>2. p[i] = Factor(p[i - 1], i - 1)
        BY <1>4, <4>1
      <4> HIDE DEF p
      <4> QED
        BY <3>2, <4>2 DEF Factor, Degree
    <3> QED
      BY <3>1, <3>2
  <2>2. p = [i \in 0 .. nn - kk |-> p[i]]
    BY DEF Degree
  <2> HIDE DEF p
  <2> QED
    BY <2>1, <2>2
<1>6. PICK g : g = (CHOOSE x : x = Body(x)) /\ Generator = g[nn - kk]
  <2>1. Generator = (CHOOSE x : x = Body(x))[nn - kk]
    BY Zenon DEF Generator
  <2> HIDE DEF Body
  <2> QED
    BY <2>1
<1>7. g = Body(g)
  <2> HIDE DEF Body, p
  <2> QED
    BY <1>5, <1>6
<1>8. g = [i \in 0 .. Degree |-> g[i]] /\ g[0] = first
  BY <1>7, Widths DEF Degree
<1>9. ASSUME NEW i \in 0 .. Degree - 1 PROVE g[i + 1] = Factor(g[i], i)
  <2>1. i + 1 \in 0 .. nn - kk /\ i + 1 # 0 /\ (i + 1) - 1 = i
    BY Widths DEF Degree
  <2>2. g[i + 1] = [k \in 0 .. nn - kk |->
                      Xor(IF k = 0 THEN NoBit ELSE g[(i + 1) - 1][k - 1],
                          TimesPower(g[(i + 1) - 1][k], (i + 1) - 1))]
    BY <1>7, <2>1
  <2> QED
    BY <2>1, <2>2 DEF Factor, Degree
<1>10. \A i \in 0 .. Degree : g[i] \in Polynomial
  <2> DEFINE T == { n \in Nat : n \in 0 .. Degree => g[n] \in Polynomial }
  <2>1. 0 \in T
    BY <1>2, <1>8
  <2>2. ASSUME NEW n \in Nat, n \in T PROVE n + 1 \in T
    <3> SUFFICES ASSUME n + 1 \in 0 .. Degree PROVE g[n + 1] \in Polynomial
      OBVIOUS
    <3>1. n \in 0 .. Degree - 1 /\ n \in 0 .. Degree
      BY Widths DEF Degree
    <3> QED
      BY <1>9, <2>2, <3>1, FactorType
  <2> HIDE DEF T
  <2>3. Nat \subseteq T
    BY <2>1, <2>2, NatSetInduction
  <2> QED
    BY <2>3, Widths DEF T, Degree
<1> HIDE DEF Body, p, F
<1>11. IsProduct(g)
  <2>1. g \in [0 .. Degree -> Polynomial]
    BY <1>8, <1>10
  <2> QED
    BY <1>8, <1>9, <2>1 DEF IsProduct
<1> QED
  BY <1>6, <1>11 DEF Degree

\* The value of a multiple: as long as p has no leading coefficient that is dropped.
LEMMA FactorValue ==
  ASSUME NEW q \in Polynomial, q[Degree] = {}, NEW n \in Nat, NEW r \in Nat
  PROVE  ValueAt(Factor(q, n), r) = Xor(Raised(ValueAt(q, r), r), Raised(ValueAt(q, r), n))
<1>1. Degree \in Nat /\ Degree > 1 /\ Degree - 1 \in Nat /\ q \in [0 .. Degree -> Symbol]
  BY Widths DEF Degree, Polynomial
<1>2. PICK s : s = Factor(q, n) /\ s \in [0 .. Degree -> Symbol]
  BY FactorType DEF Polynomial
<1>3. \A k \in 0 .. Degree : s[k] = Xor(IF k = 0 THEN {} ELSE q[k - 1], Raised(q[k], n))
  <2> SUFFICES ASSUME NEW k \in 0 .. Degree
               PROVE  s[k] = Xor(IF k = 0 THEN {} ELSE q[k - 1], Raised(q[k], n))
    OBVIOUS
  <2>1. TimesPower(q[k], n) = Raised(q[k], n)
    BY <1>1, TimesPowerIs
  <2> QED
    BY <1>2, <2>1 DEF Factor, NoBit
<1> DEFINE c == [k \in 0 .. Degree - 1 |-> q[k]]
           d == [k \in 0 .. Degree |-> IF k = 0 THEN {} ELSE q[k - 1]]
           e == [k \in 0 .. Degree |-> Raised(q[k], n)]
<1>4. /\ c \in [0 .. Degree - 1 -> Symbol] /\ d \in [0 .. (Degree - 1) + 1 -> Symbol]
      /\ d \in [0 .. Degree -> Symbol] /\ e \in [0 .. Degree -> Symbol]
  <2>1. \A k \in 0 .. Degree : k # 0 => k - 1 \in 0 .. Degree
    BY <1>1
  <2>2. (Degree - 1) + 1 = Degree /\ 0 .. Degree - 1 \subseteq 0 .. Degree
    BY <1>1
  <2>3. \A k \in 0 .. Degree : Raised(q[k], n) \in Symbol
    BY <1>1, RaisedType
  <2>4. c \in [0 .. Degree - 1 -> Symbol]
    BY <1>1, <2>2
  <2>5. d \in [0 .. Degree -> Symbol]
    BY <1>1, <2>1, Widths
  <2>6. e \in [0 .. Degree -> Symbol]
    BY <2>3
  <2> HIDE DEF c, d, e
  <2> QED
    BY <2>2, <2>4, <2>5, <2>6
<1>5. ValueAt(q, r) = ValueAt(c, r)
  <2>1. \A k \in 0 .. Degree - 1 : q[k] = c[k]
    OBVIOUS
  <2>2. \A k \in 0 .. Degree : k \notin 0 .. Degree - 1 => q[k] = {}
    <3>1. \A k \in 0 .. Degree : k \notin 0 .. Degree - 1 => k = Degree
      BY <1>1
    <3> QED
      BY <3>1
  <2>3. 0 .. Degree - 1 \subseteq 0 .. Degree
    BY <1>1
  <2> HIDE DEF c
  <2>4. Extends(0 .. Degree, 0 .. Degree - 1, q, c)
    BY <1>1, <1>4, <2>1, <2>2, <2>3 DEF Extends
  <2> QED
    BY <1>1, <1>4, <2>3, <2>4, ValueExtend
<1>6. ValueAt(d, r) = Raised(ValueAt(c, r), r)
  <2>1. d[0] = {} /\ \A k \in 0 .. Degree - 1 : d[k + 1] = c[k]
    BY <1>1
  <2> DEFINE N == Degree - 1
  <2>2. /\ N \in Nat /\ c \in [0 .. N -> Symbol] /\ d \in [0 .. N + 1 -> Symbol]
        /\ d[0] = {} /\ \A k \in 0 .. N : d[k + 1] = c[k]
    BY <1>1, <1>4, <2>1
  <2> HIDE DEF c, d, N
  <2> QED
    BY <2>2, ValueShift
<1>7. ValueAt(e, r) = Raised(ValueAt(q, r), n)
  <2>1. \A k \in 0 .. Degree : e[k] = Raised(q[k], n)
    OBVIOUS
  <2>2. /\ q \in [0 .. Degree -> Symbol] /\ e \in [0 .. Degree -> Symbol]
        /\ Degree \in Nat /\ r \in Nat /\ n \in Nat
    BY <1>1, <1>4
  <2> HIDE DEF e
  <2> QED
    BY <2>1, <2>2, ValueRaised
<1>8. ValueAt(s, r) = Xor(ValueAt(d, r), ValueAt(e, r))
  <2>1. \A k \in 0 .. Degree : s[k] = Xor(d[k], e[k])
    BY <1>3
  <2> HIDE DEF d, e
  <2>2. IsSum(0 .. Degree, d, e, s)
    BY <1>2, <1>4, <2>1 DEF IsSum
  <2> QED
    BY <1>1, <2>2, ValueAdd
<1> QED
  BY <1>2, <1>5, <1>6, <1>7, <1>8

\* After n rounds the polynomial is monic of degree n, its constant term is not zero, and
\* of the powers of alpha just alpha^0, ..., alpha^(n-1) are roots.
MonicWithRoots(p, n) ==
  /\ p \in Polynomial
  /\ p[n] = One
  /\ p[0] # {}
  /\ \A k \in 0 .. Degree : k > n => p[k] = {}
  /\ \A r \in 0 .. nn - 1 : ValueAt(p, r) = {} <=> r < n

\* One round adds a root.
LEMMA FactorRoots ==
  ASSUME NEW n \in 0 .. Degree - 1, NEW q, MonicWithRoots(q, n)
  PROVE  MonicWithRoots(Factor(q, n), n + 1)
<1>1. /\ Degree \in Nat /\ Degree > 1 /\ Degree < nn /\ nn \in Nat
      /\ n \in Nat /\ n < Degree /\ n \in 0 .. Degree /\ n + 1 \in 0 .. Degree /\ Degree \in 0 .. Degree
      /\ n \in 0 .. nn - 1
  BY Widths DEF Degree
<1>2. /\ q \in Polynomial /\ q \in [0 .. Degree -> Symbol] /\ q[n] = One /\ q[0] # {}
      /\ \A k \in 0 .. Degree : k > n => q[k] = {}
      /\ \A r \in 0 .. nn - 1 : ValueAt(q, r) = {} <=> r < n
  BY DEF MonicWithRoots, Polynomial
<1>3. PICK s : s = Factor(q, n) /\ s \in Polynomial
  BY <1>1, <1>2, FactorType
<1>4. \A k \in 0 .. Degree : s[k] = Xor(IF k = 0 THEN {} ELSE q[k - 1], Raised(q[k], n))
  <2> SUFFICES ASSUME NEW k \in 0 .. Degree
               PROVE  s[k] = Xor(IF k = 0 THEN {} ELSE q[k - 1], Raised(q[k], n))
    OBVIOUS
  <2>1. TimesPower(q[k], n) = Raised(q[k], n)
    BY <1>1, <1>2, TimesPowerIs
  <2> QED
    BY <1>3, <2>1 DEF Factor, NoBit
<1>5. s[n + 1] = One
  <2>0. n + 1 > n /\ (n + 1) - 1 = n /\ n + 1 # 0
    BY <1>1
  <2>1. q[n + 1] = {} /\ q[(n + 1) - 1] = One
    BY <1>1, <1>2, <2>0
  <2>2. s[n + 1] = Xor(One, Raised({}, n))
    <3>1. s[n + 1] = Xor(IF n + 1 = 0 THEN {} ELSE q[(n + 1) - 1], Raised(q[n + 1], n))
      BY <1>1, <1>4
    <3> QED
      BY <2>0, <2>1, <3>1
  <2> QED
    BY <1>1, <2>2, RaisedZero, XorZero
<1>6. ASSUME NEW k \in 0 .. Degree, k > n + 1 PROVE s[k] = {}
  <2>1. k - 1 \in 0 .. Degree /\ k - 1 > n /\ k # 0 /\ k > n
    BY <1>1, <1>6
  <2>2. q[k] = {} /\ q[k - 1] = {}
    BY <1>2, <2>1
  <2>3. s[k] = Xor({}, Raised({}, n))
    <3>1. s[k] = Xor(IF k = 0 THEN {} ELSE q[k - 1], Raised(q[k], n))
      BY <1>4
    <3> QED
      BY <2>1, <2>2, <3>1
  <2> QED
    BY <1>1, <2>3, RaisedZero, XorZero
<1>7. s[0] # {}
  <2>1. 0 \in 0 .. Degree /\ q[0] \in Symbol
    BY <1>1, <1>2
  <2>2. s[0] = Xor({}, Raised(q[0], n))
    BY <1>4, <2>1
  <2>3. s[0] = Raised(q[0], n)
    BY <2>2, XorZero
  <2> QED
    BY <1>1, <1>2, <2>1, <2>3, RaisedNonZero
<1>8. ASSUME NEW r \in 0 .. nn - 1 PROVE ValueAt(s, r) = {} <=> r < n + 1
  <2>1. PICK v \in Symbol : v = ValueAt(q, r)
    BY ValueType
  <2>2. ValueAt(s, r) = Xor(Raised(v, r), Raised(v, n)) /\ r \in Nat
    <3>1. q[Degree] = {} /\ r \in Nat
      BY <1>1, <1>2
    <3> QED
      BY <1>1, <1>2, <1>3, <2>1, <3>1, FactorValue
  <2>3. CASE r < n
    <3>1. v = {} /\ r < n + 1
      BY <1>1, <1>2, <2>1, <2>3
    <3> QED
      BY <1>1, <2>2, <3>1, RaisedZero, XorZero
  <2>4. CASE r = n
    <3>1. ValueAt(s, r) = Xor(Raised(v, r), Raised(v, r)) /\ r < n + 1
      BY <1>1, <2>2, <2>4
    <3> QED
      BY <3>1, XorZero
  <2>5. CASE r > n
    <3>1. v # {} /\ r # n /\ ~(r < n + 1)
      BY <1>1, <1>2, <2>1, <2>5
    <3>2. Raised(v, r) # Raised(v, n)
      BY <1>1, <3>1, RaisedDistinct
    <3>3. Xor(Raised(v, r), Raised(v, n)) # {}
      BY <3>2 DEF Xor, SymDiff
    <3> QED
      BY <2>2, <3>1, <3>3
  <2> QED
    BY <1>1, <2>3, <2>4, <2>5
<1> QED
  BY <1>3, <1>5, <1>6, <1>7, <1>8 DEF MonicWithRoots

\* So it is in every round.
LEMMA ProductRoots ==
  ASSUME NEW p, IsProduct(p), NEW n \in 0 .. Degree
  PROVE  MonicWithRoots(p[n], n)
<1>0. Degree \in Nat /\ Degree > 1 /\ Degree < nn /\ nn \in Nat
  BY Widths DEF Degree
<1> DEFINE T == { k \in Nat : k <= Degree => MonicWithRoots(p[k], k) }
<1>1. 0 \in T
  <2>1. /\ p[0] = [k \in 0 .. Degree |-> IF k = 0 THEN One ELSE NoBit]
        /\ p[0] \in Polynomial
    BY <1>0 DEF IsProduct
  <2>2. p[0][0] = One /\ One # {} /\ \A k \in 0 .. Degree : k > 0 => p[0][k] = {}
    BY <1>0, <2>1, Widths DEF NoBit
  <2>3. ASSUME NEW r \in 0 .. nn - 1 PROVE ValueAt(p[0], r) # {}
    <3>1. PICK q : q = p[0] /\ q \in [0 .. Degree -> Symbol]
      BY <2>1 DEF Polynomial
    <3>0. PICK z \in Nat : z = 0
      OBVIOUS
    <3> DEFINE E == 0 .. z
               D == 0 .. Degree
               c == [k \in E |-> q[k]]
    <3>2. /\ E = {0} /\ E \subseteq D /\ r \in Nat
          /\ q \in [D -> Symbol] /\ \A k \in D : k \notin E => q[k] = {}
      BY <1>0, <2>2, <3>0, <3>1
    <3>3. c \in [E -> Symbol] /\ c[0] = One /\ \A k \in E : q[k] = c[k]
      BY <2>2, <3>1, <3>2
    <3>4. ValueAt(q, r) = ValueAt(c, r)
      <4>1. Extends(D, E, q, c)
        <5> HIDE DEF c, D, E
        <5> QED
          BY <3>2, <3>3 DEF Extends
      <4>2. Extends(0 .. Degree, 0 .. z, q, c)
        <5> HIDE DEF c
        <5> QED
          BY <4>1 DEF D, E
      <4>3. z \in Nat /\ Degree \in Nat /\ r \in Nat
        BY <1>0, <3>0, <3>2
      <4> HIDE DEF c, D, E
      <4> QED
        BY <4>2, <4>3, ValueExtend
    <3>5. ValueAt(c, r) = One
      <4> DEFINE f == [k \in E |-> Raised(c[k], r * k)]
                 g == [x \in E \ {0} |-> f[x]]
      <4>1. f \in [E -> Symbol] /\ IsFiniteSet(E) /\ ValueAt(c, r) = XorSum(f)
        <5>1. c \in [0 .. z -> Symbol] /\ r \in Nat /\ z \in Nat
          BY <3>0, <3>2, <3>3
        <5> HIDE DEF c
        <5> QED
          BY <5>1, ValueIs
      <4>2. f[0] = One
        <5>1. r * 0 = 0 /\ 0 \in E
          BY <3>2
        <5> HIDE DEF c, E
        <5>2. f[0] = Raised(One, 0)
          BY <3>3, <5>1
        <5> QED
          BY <5>2, RaisedFacts, Widths
      <4>3. g \in [E \ {0} -> Symbol] /\ E \ {0} = {} /\ 0 \in E
        <5> HIDE DEF E
        <5> QED
          BY <3>2
      <4> HIDE DEF c, f, g, E
      <4>4. XorSum(g) = {}
        BY <4>3, XorSumNone
      <4>5. Without(E, 0, f, g)
        BY <4>1, <4>3 DEF Without
      <4>6. XorSum(f) = Xor(XorSum(g), f[0])
        BY <4>1, <4>3, <4>5, XorSumInsert
      <4> QED
        BY <4>1, <4>2, <4>4, <4>6, XorZero
    <3> QED
      BY <2>2, <3>1, <3>4, <3>5
  <2>4. \A r \in 0 .. nn - 1 : ~(r < 0)
    BY <1>0
  <2> QED
    BY <2>1, <2>2, <2>3, <2>4 DEF MonicWithRoots
<1>2. ASSUME NEW k \in Nat, k \in T PROVE k + 1 \in T
  <2> SUFFICES ASSUME k + 1 <= Degree PROVE MonicWithRoots(p[k + 1], k + 1)
    OBVIOUS
  <2>1. k \in 0 .. Degree - 1 /\ k <= Degree
    BY <1>0
  <2>2. MonicWithRoots(p[k], k)
    BY <1>2, <2>1
  <2>3. p[k + 1] = Factor(p[k], k)
    BY <2>1 DEF IsProduct
  <2> QED
    BY <2>1, <2>2, <2>3, FactorRoots
<1> HIDE DEF T
<1>3. Nat \subseteq T
  BY <1>1, <1>2, NatSetInduction
<1> QED
  BY <1>0, <1>3 DEF T

\* The leading coefficient is 1 and the roots are alpha^0, ..., alpha^(2tt-1).
LEMMA GeneratorFacts ==
  /\ Generator \in Polynomial
  /\ Generator[Degree] = One
  /\ \A r \in 0 .. Degree - 1 : ValueAt(Generator, r) = {}
<1>1. PICK p : IsProduct(p) /\ Generator = p[Degree]
  BY GeneratorIs
<1>2. Degree \in Nat /\ Degree < nn /\ Degree \in 0 .. Degree /\ nn \in Nat
  BY Widths DEF Degree
<1>3. MonicWithRoots(Generator, Degree)
  BY <1>1, <1>2, ProductRoots
<1>4. \A r \in 0 .. Degree - 1 : r \in 0 .. nn - 1 /\ r < Degree
  BY <1>2
<1> QED
  BY <1>3, <1>4 DEF MonicWithRoots

-----------------------------------------------------------------------------
(* The feedback shift register *)

\* The arrays bb[] and data[], and bb[] cleared.
Registers == [0 .. Degree - 1 -> Symbol]
Messages == [0 .. kk - 1 -> Symbol]
Cleared == [k \in 0 .. Degree - 1 |-> NoBit]

\* A round of encode_rs keeps a register.
LEMMA ShiftInType ==
  ASSUME NEW c \in Registers, NEW s \in Symbol
  PROVE  ShiftIn(c, s) \in Registers /\ Xor(s, c[Degree - 1]) \in Symbol
<1>1. Xor(s, c[Degree - 1]) \in Symbol
  <2>1. Degree - 1 \in 0 .. Degree - 1
    BY Widths DEF Degree
  <2> QED
    BY <2>1, XorType DEF Registers
<1>2. PICK x : x = Xor(s, c[Degree - 1]) /\ x \in Symbol
  BY <1>1
<1>3. ASSUME NEW k \in 0 .. nn - kk - 1
      PROVE  Xor(IF k = 0 THEN NoBit ELSE c[k - 1], Mul(Generator[k], x)) \in Symbol
  <2>1. Generator[k] \in Symbol
    BY GeneratorFacts, Widths DEF Polynomial, Degree
  <2>2. k # 0 => c[k - 1] \in Symbol
    BY Widths DEF Registers, Degree
  <2> QED
    BY <1>2, <2>1, <2>2, MulType, XorType, Widths DEF NoBit
<1>4. ShiftIn(c, s) = [k \in 0 .. nn - kk - 1 |->
                         Xor(IF k = 0 THEN NoBit ELSE c[k - 1], Mul(Generator[k], x))]
  BY <1>2 DEF ShiftIn, Degree
<1>5. ShiftIn(c, s) \in Registers
  BY <1>3, <1>4 DEF Registers, Degree
<1> QED
  BY <1>1, <1>5

\* The cells of the next register.
LEMMA ShiftInIs ==
  ASSUME NEW c \in Registers, NEW s \in Symbol, NEW k \in 0 .. Degree - 1
  PROVE  ShiftIn(c, s)[k] =
           Xor(IF k = 0 THEN {} ELSE c[k - 1], Mul(Generator[k], Xor(s, c[Degree - 1])))
BY DEF ShiftIn, Degree, NoBit

\* The register after each symbol: cleared first, then shifted once for each symbol from
\* the last one down.
LEMMA RegisterIs ==
  ASSUME NEW m \in Messages
  PROVE  /\ Register(m) \in [0 .. kk -> Registers]
         /\ Register(m)[0] = Cleared
         /\ \A i \in 0 .. kk - 1 : Register(m)[i + 1] = ShiftIn(Register(m)[i], m[kk - (i + 1)])
<1> DEFINE Body(g) == [i \in 0 .. kk |->
                         IF i = 0 THEN [k \in 0 .. nn - kk - 1 |-> NoBit]
                         ELSE ShiftIn(g[i - 1], m[kk - i])]
           F == [x \in Nat \X Registers |->
                   IF x[1] < kk THEN ShiftIn(x[2], m[kk - (x[1] + 1)]) ELSE x[2]]
<1>0. \A n \in Nat : n < kk => n + 1 \in 0 .. kk /\ n \in 0 .. kk - 1 /\ kk - (n + 1) \in 0 .. kk - 1
  BY Widths
<1>1. /\ F \in [Nat \X Registers -> Registers]
      /\ \A n \in Nat, c \in Registers :
           F[<<n, c>>] = IF n < kk THEN ShiftIn(c, m[kk - (n + 1)]) ELSE c
  <2>1. ASSUME NEW n \in Nat, NEW c \in Registers, n < kk
        PROVE  ShiftIn(c, m[kk - (n + 1)]) \in Registers
    <3>1. m[kk - (n + 1)] \in Symbol
      BY <1>0, <2>1 DEF Messages
    <3> QED
      BY <3>1, ShiftInType
  <2> QED
    BY <2>1
<1>2. Cleared \in Registers
  BY Widths DEF Cleared, Registers, NoBit
<1>3. PICK f : Recursive(f, Registers, Cleared, F)
  <2> HIDE DEF F
  <2> QED
    BY <1>1, <1>2, Recursion
<1>4. /\ f \in [Nat -> Registers] /\ f[0] = Cleared
      /\ \A n \in Nat : f[n + 1] = IF n < kk THEN ShiftIn(f[n], m[kk - (n + 1)]) ELSE f[n]
  <2> HIDE DEF F
  <2> QED
    BY <1>1, <1>3 DEF Recursive
<1> DEFINE p == [i \in 0 .. kk |-> f[i]]
<1>5. p = Body(p)
  <2>1. ASSUME NEW i \in 0 .. kk PROVE p[i] = Body(p)[i]
    <3>1. CASE i = 0
      BY <1>4, <3>1 DEF Degree, Cleared
    <3>2. CASE i # 0
      <4>1. i - 1 \in Nat /\ (i - 1) + 1 = i /\ i - 1 \in 0 .. kk /\ i - 1 < kk
        BY <3>2, Widths
      <4>2. p[i] = ShiftIn(p[i - 1], m[kk - i])
        BY <1>4, <4>1
      <4> HIDE DEF p
      <4> QED
        BY <3>2, <4>2
    <3> QED
      BY <3>1, <3>2
  <2>2. p = [i \in 0 .. kk |-> p[i]]
    OBVIOUS
  <2> HIDE DEF p
  <2> QED
    BY <2>1, <2>2
<1>6. PICK g : g = (CHOOSE x : x = Body(x)) /\ Register(m) = g
  <2>1. Register(m) = (CHOOSE x : x = Body(x))
    BY Zenon DEF Register
  <2> HIDE DEF Body
  <2> QED
    BY <2>1
<1>7. g = Body(g)
  <2> HIDE DEF Body, p
  <2> QED
    BY <1>5, <1>6
<1>8. g = [i \in 0 .. kk |-> g[i]] /\ g[0] = Cleared
  BY <1>7, Widths DEF Degree, Cleared
<1>9. ASSUME NEW i \in 0 .. kk - 1 PROVE g[i + 1] = ShiftIn(g[i], m[kk - (i + 1)])
  <2>1. i + 1 \in 0 .. kk /\ i + 1 # 0 /\ (i + 1) - 1 = i
    BY Widths
  <2>2. g[i + 1] = ShiftIn(g[(i + 1) - 1], m[kk - (i + 1)])
    BY <1>7, <2>1
  <2> QED
    BY <2>1, <2>2
<1>10. \A i \in 0 .. kk : g[i] \in Registers
  <2> DEFINE T == { n \in Nat : n \in 0 .. kk => g[n] \in Registers }
  <2>1. 0 \in T
    BY <1>2, <1>8
  <2>2. ASSUME NEW n \in Nat, n \in T PROVE n + 1 \in T
    <3> SUFFICES ASSUME n + 1 \in 0 .. kk PROVE g[n + 1] \in Registers
      OBVIOUS
    <3>1. n \in 0 .. kk - 1 /\ n \in 0 .. kk /\ kk - (n + 1) \in 0 .. kk - 1
      BY Widths
    <3>2. m[kk - (n + 1)] \in Symbol
      BY <3>1 DEF Messages
    <3> QED
      BY <1>9, <2>2, <3>1, <3>2, ShiftInType
  <2> HIDE DEF T
  <2>3. Nat \subseteq T
    BY <2>1, <2>2, NatSetInduction
  <2> QED
    BY <2>3, Widths DEF T
<1> HIDE DEF Body, p, F
<1>11. g \in [0 .. kk -> Registers]
  BY <1>8, <1>10
<1> QED
  BY <1>6, <1>8, <1>9, <1>11

\* The parity so far, and behind it the symbols of the message that were shifted in.
Prefix(m, i) ==
  [e \in 0 .. Degree - 1 + i |-> IF e < Degree THEN Register(m)[i][e] ELSE m[kk - i + (e - Degree)]]

\* It is a polynomial.
LEMMA PrefixType ==
  ASSUME NEW m \in Messages, NEW i \in 0 .. kk
  PROVE  Prefix(m, i) \in [0 .. Degree - 1 + i -> Symbol]
<1>1. ASSUME NEW e \in 0 .. Degree - 1 + i
      PROVE  (IF e < Degree THEN Register(m)[i][e] ELSE m[kk - i + (e - Degree)]) \in Symbol
  <2>1. CASE e < Degree
    <3>1. Register(m)[i] \in Registers /\ e \in 0 .. Degree - 1
      BY <2>1, RegisterIs, Widths DEF Degree
    <3> QED
      BY <2>1, <3>1 DEF Registers
  <2>2. CASE ~(e < Degree)
    <3>1. kk - i + (e - Degree) \in 0 .. kk - 1
      BY <2>2, Widths DEF Degree
    <3> QED
      BY <2>2, <3>1 DEF Messages
  <2> QED
    BY <2>1, <2>2
<1> QED
  BY <1>1 DEF Prefix

\* What was encoded so far is a multiple of the generator.
LEMMA PrefixRoots ==
  ASSUME NEW m \in Messages
  PROVE  \A i \in 0 .. kk, r \in 0 .. Degree - 1 : ValueAt(Prefix(m, i), r) = {}
<1>0. Degree \in Nat /\ Degree > 1 /\ Degree - 1 \in Nat /\ kk \in Nat /\ Degree = nn - kk
  BY Widths DEF Degree
<1> DEFINE T == { n \in Nat : n <= kk => \A r \in 0 .. Degree - 1 : ValueAt(Prefix(m, n), r) = {} }
<1>1. 0 \in T
  <2> SUFFICES ASSUME NEW r \in 0 .. Degree - 1 PROVE ValueAt(Prefix(m, 0), r) = {}
    OBVIOUS
  <2>1. Degree - 1 + 0 = Degree - 1 /\ 0 \in 0 .. kk /\ r \in Nat
    BY <1>0
  <2>2. PICK c : c = Prefix(m, 0) /\ c \in [0 .. Degree - 1 -> Symbol]
    BY <2>1, PrefixType
  <2>3. ASSUME NEW k \in 0 .. Degree - 1 PROVE c[k] = {}
    <3>1. k < Degree /\ k \in 0 .. Degree - 1 + 0
      BY <1>0
    <3>2. Prefix(m, 0)[k] = Register(m)[0][k]
      BY <3>1 DEF Prefix
    <3> QED
      BY <2>2, <3>2, RegisterIs DEF Cleared, NoBit
  <2> DEFINE f == [k \in 0 .. Degree - 1 |-> Raised(c[k], r * k)]
  <2>4. ValueAt(c, r) = XorSum(f) /\ f \in [0 .. Degree - 1 -> Symbol]
    <3>1. c \in [0 .. Degree - 1 -> Symbol] /\ Degree - 1 \in Nat /\ r \in Nat
      BY <1>0, <2>1, <2>2
    <3> QED
      BY <3>1, ValueIs
  <2>5. ASSUME NEW k \in 0 .. Degree - 1 PROVE f[k] = {}
    <3>1. r * k \in Nat
      BY <2>1
    <3> QED
      BY <2>3, <3>1, RaisedZero
  <2> HIDE DEF f
  <2>6. XorSum(f) = {}
    <3> DEFINE D == 0 .. Degree - 1
    <3>1. f \in [D -> Symbol] /\ \A k \in D : f[k] = {}
      BY <2>4, <2>5
    <3> HIDE DEF D
    <3> QED
      BY <3>1, XorSumNone
  <2> QED
    BY <2>2, <2>4, <2>6
<1>2. ASSUME NEW n \in Nat, n \in T PROVE n + 1 \in T
  <2> SUFFICES ASSUME n + 1 <= kk, NEW r \in 0 .. Degree - 1
               PROVE  ValueAt(Prefix(m, n + 1), r) = {}
    OBVIOUS
  <2>1. /\ n \in 0 .. kk - 1 /\ n \in 0 .. kk /\ n + 1 \in 0 .. kk /\ r \in Nat
        /\ kk - (n + 1) \in 0 .. kk - 1 /\ Degree - 1 \in 0 .. Degree - 1
    BY <1>0
  <2>2. PICK s \in Symbol, b \in Registers, g \in Registers :
          /\ s = m[kk - (n + 1)] /\ b = Register(m)[n] /\ g = Register(m)[n + 1]
          /\ g = ShiftIn(b, s)
    <3>1. m[kk - (n + 1)] \in Symbol
      BY <2>1 DEF Messages
    <3>2. Register(m)[n] \in Registers /\ Register(m)[n + 1] \in Registers
          /\ Register(m)[n + 1] = ShiftIn(Register(m)[n], m[kk - (n + 1)])
      BY <2>1, RegisterIs
    <3> QED
      BY <3>1, <3>2
  <2>3. PICK x \in Symbol : x = Xor(s, b[Degree - 1])
    BY ShiftInType
  <2>4. PICK N \in Nat : N = Degree - 1 + n /\ N + 1 = Degree - 1 + (n + 1) /\ Degree <= N + 1
    <3>1. Degree - 1 + n \in Nat /\ (Degree - 1 + n) + 1 = Degree - 1 + (n + 1)
      BY <1>0
    <3>2. Degree <= (Degree - 1 + n) + 1
      BY <1>0
    <3> QED
      BY <3>1, <3>2
  <2>5. PICK w : w = Prefix(m, n) /\ w \in [0 .. N -> Symbol]
    BY <2>1, <2>4, PrefixType
  <2>6. PICK v : v = Prefix(m, n + 1) /\ v \in [0 .. N + 1 -> Symbol]
    BY <2>1, <2>4, PrefixType
  <2> DEFINE c == [k \in 0 .. N + 1 |-> IF k = 0 THEN {} ELSE w[k - 1]]
             p == [k \in 0 .. Degree |-> Mul(Generator[k], x)]
             d == [k \in 0 .. N + 1 |-> IF k <= Degree THEN p[k] ELSE {}]
  <2>7. c \in [0 .. N + 1 -> Symbol]
    <3>1. \A k \in 0 .. N + 1 : k # 0 => k - 1 \in 0 .. N
      OBVIOUS
    <3> QED
      BY <2>5, <3>1, Widths
  <2>8. p \in [0 .. Degree -> Symbol]
    BY <2>3, GeneratorFacts, MulType DEF Polynomial
  <2>9. d \in [0 .. N + 1 -> Symbol]
    <3>1. \A k \in 0 .. N + 1 : k <= Degree => k \in 0 .. Degree
      BY <1>0
    <3> HIDE DEF p
    <3> QED
      BY <2>8, <3>1, Widths
  <2>10. ASSUME NEW k \in 0 .. N + 1 PROVE v[k] = Xor(c[k], d[k])
    <3>0. k \in 0 .. Degree - 1 + (n + 1) /\ k \in Nat
      BY <2>4
    <3>1. v[k] = IF k < Degree THEN g[k] ELSE m[kk - (n + 1) + (k - Degree)]
      BY <2>2, <2>6, <3>0 DEF Prefix
    <3>2. k # 0 => /\ k - 1 \in 0 .. Degree - 1 + n
                   /\ w[k - 1] = IF k - 1 < Degree THEN b[k - 1] ELSE m[kk - n + (k - 1 - Degree)]
      <4>1. k # 0 => k - 1 \in 0 .. Degree - 1 + n
        BY <1>0, <3>0
      <4> QED
        BY <2>2, <2>5, <4>1 DEF Prefix
    <3>3. CASE k < Degree
      <4>1. k \in 0 .. Degree - 1 /\ (k # 0 => k - 1 < Degree) /\ k <= Degree /\ k \in 0 .. Degree
        BY <1>0, <3>0, <3>3
      <4>2. v[k] = Xor(IF k = 0 THEN {} ELSE b[k - 1], Mul(Generator[k], x))
        BY <2>2, <2>3, <3>1, <3>3, <4>1, ShiftInIs
      <4>3. c[k] = IF k = 0 THEN {} ELSE b[k - 1]
        BY <3>2, <4>1
      <4>4. d[k] = Mul(Generator[k], x)
        BY <4>1
      <4> HIDE DEF c, d, p
      <4> QED
        BY <4>2, <4>3, <4>4
    <3>4. CASE k = Degree
      <4>1. v[k] = s
        <5>1. kk - (n + 1) + (k - Degree) = kk - (n + 1) /\ ~(k < Degree)
          BY <1>0, <3>4
        <5> QED
          BY <2>2, <3>1, <5>1
      <4>2. c[k] = b[Degree - 1]
        <5>1. k # 0 /\ k - 1 < Degree /\ k - 1 = Degree - 1
          BY <1>0, <3>4
        <5>2. c[k] = w[k - 1]
          BY <5>1
        <5> QED
          BY <3>2, <5>1, <5>2
      <4>3. d[k] = x
        <5>1. k \in 0 .. Degree /\ k <= Degree /\ d[k] = Mul(Generator[k], x)
          BY <1>0, <3>4
        <5> QED
          BY <3>4, <5>1, GeneratorFacts, MulOne
      <4>4. Xor(b[Degree - 1], Xor(s, b[Degree - 1])) = s
        BY DEF Xor, SymDiff
      <4> HIDE DEF c, d, p
      <4> QED
        BY <2>3, <4>1, <4>2, <4>3, <4>4
    <3>5. CASE k > Degree
      <4>1. /\ k # 0 /\ ~(k < Degree) /\ ~(k - 1 < Degree) /\ ~(k <= Degree)
            /\ kk - (n + 1) + (k - Degree) = kk - n + (k - 1 - Degree)
        BY <1>0, <3>0, <3>5
      <4>2. v[k] = w[k - 1]
        BY <3>1, <3>2, <4>1
      <4>3. c[k] = w[k - 1] /\ d[k] = {}
        BY <4>1
      <4> HIDE DEF c, d, p
      <4> QED
        BY <4>2, <4>3, XorFacts
    <3> QED
      BY <1>0, <3>0, <3>3, <3>4, <3>5
  <2>11. ValueAt(c, r) = {}
    <3>1. ValueAt(w, r) = {}
      BY <1>2, <2>1, <2>5
    <3>2. c[0] = {} /\ \A k \in 0 .. N : c[k + 1] = w[k]
      OBVIOUS
    <3> HIDE DEF c
    <3>3. ValueAt(c, r) = Raised(ValueAt(w, r), r)
      BY <2>1, <2>5, <2>7, <3>2, ValueShift
    <3> QED
      BY <2>1, <3>1, <3>3, RaisedZero
  <2>12. ValueAt(d, r) = {}
    <3>1. ValueAt(p, r) = Mul(ValueAt(Generator, r), x)
      <4>1. Generator \in [0 .. Degree -> Symbol] /\ \A k \in 0 .. Degree : p[k] = Mul(Generator[k], x)
        BY GeneratorFacts DEF Polynomial
      <4>2. /\ Degree \in Nat /\ r \in Nat /\ x \in Symbol /\ p \in [0 .. Degree -> Symbol]
        BY <1>0, <2>1, <2>8
      <4> HIDE DEF p
      <4> QED
        BY <4>1, <4>2, ValueMul
    <3>2. ValueAt(p, r) = {}
      BY <3>1, GeneratorFacts, MulZero
    <3>3. /\ \A k \in 0 .. Degree : d[k] = p[k]
          /\ \A k \in 0 .. N + 1 : k > Degree => d[k] = {}
      <4>1. \A k \in 0 .. Degree : k \in 0 .. N + 1 /\ k <= Degree
        BY <1>0, <2>4
      <4>2. \A k \in 0 .. N + 1 : k > Degree => ~(k <= Degree)
        BY <1>0
      <4> HIDE DEF p
      <4> QED
        BY <4>1, <4>2
    <3> HIDE DEF d, p
    <3>4. ValueAt(d, r) = ValueAt(p, r)
      <4>1. N + 1 \in Nat
        OBVIOUS
      <4>2. /\ Degree \in Nat /\ r \in Nat /\ Degree <= N + 1
            /\ p \in [0 .. Degree -> Symbol] /\ d \in [0 .. N + 1 -> Symbol]
        BY <1>0, <2>1, <2>4, <2>8, <2>9
      <4>3. \A k \in 0 .. N + 1 : k \notin 0 .. Degree => k > Degree
        BY <1>0
      <4>4. 0 .. Degree \subseteq 0 .. N + 1
        BY <4>1, <4>2
      <4>5. Extends(0 .. N + 1, 0 .. Degree, d, p)
        BY <3>3, <4>2, <4>3, <4>4 DEF Extends
      <4> QED
        BY <4>1, <4>2, <4>5, ValueExtend
    <3> QED
      BY <3>2, <3>4
  <2>13. ValueAt(v, r) = Xor(ValueAt(c, r), ValueAt(d, r))
    <3>1. N + 1 \in Nat
      OBVIOUS
    <3> HIDE DEF c, d
    <3>2. IsSum(0 .. N + 1, c, d, v)
      BY <2>6, <2>7, <2>9, <2>10 DEF IsSum
    <3> QED
      BY <2>1, <3>1, <3>2, ValueAdd
  <2> QED
    BY <2>6, <2>11, <2>12, <2>13, XorFacts
<1> HIDE DEF T
<1>3. Nat \subseteq T
  BY <1>1, <1>2, NatSetInduction
<1> QED
  BY <1>0, <1>3 DEF T

-----------------------------------------------------------------------------
(* Words and their values *)

\* Whole turns change nothing.
LEMMA RaisedCycles ==
  ASSUME NEW a \in Symbol, NEW n \in Nat
  PROVE  Raised(a, n * nn) = a
<1> DEFINE T == { k \in Nat : Raised(a, k * nn) = a }
<1>1. 0 \in T
  <2>1. 0 * nn = 0
    BY Widths
  <2> QED
    BY <2>1, RaisedFacts
<1>2. ASSUME NEW k \in Nat, k \in T PROVE k + 1 \in T
  <2>1. (k + 1) * nn = k * nn + nn /\ k * nn \in Nat /\ nn \in Nat
    BY Widths
  <2>2. Raised(a, k * nn + nn) = Raised(Raised(a, k * nn), nn)
    BY <2>1, RaisedSum
  <2>3. Raised(a, k * nn) = a
    BY <1>2
  <2> QED
    BY <2>1, <2>2, <2>3, RaisedWraps
<1> HIDE DEF T
<1>3. Nat \subseteq T
  BY <1>1, <1>2, NatSetInduction
<1> QED
  BY <1>3 DEF T

\* Received words, and those with all syndromes zero.
Words == [0 .. nn - 1 -> Symbol]
IsCodeword(w) == \A i \in 1 .. nn - kk : Syndromes(w)[i] = NoBit

\* The syndromes are the values at the powers of alpha.
LEMMA CodewordIs ==
  ASSUME NEW w
  PROVE  IsCodeword(w) <=> \A r \in 0 .. Degree - 1 : ValueAt(w, r) = {}
<1>1. \A i \in 1 .. nn - kk : i - 1 \in 0 .. Degree - 1 /\ Syndromes(w)[i] = ValueAt(w, i - 1)
  BY Widths DEF Syndromes, Degree
<1>2. \A r \in 0 .. Degree - 1 : r + 1 \in 1 .. nn - kk /\ (r + 1) - 1 = r
  BY Widths DEF Degree
<1> QED
  BY <1>1, <1>2 DEF IsCodeword, NoBit

\* The word the encoder sends.
SentWord(m) == Arranged(m, EncodeRS(m))

\* The word that is sent is a word.
LEMMA SentType ==
  ASSUME NEW m \in Messages
  PROVE  SentWord(m) \in Words
<1>1. EncodeRS(m) \in Registers
  BY RegisterIs, Widths DEF EncodeRS
<1>2. ASSUME NEW i \in 0 .. nn - 1
      PROVE  (IF i < kk THEN m[i] ELSE EncodeRS(m)[i - kk]) \in Symbol
  <2>1. i < kk => i \in 0 .. kk - 1
    BY Widths
  <2>2. ~(i < kk) => i - kk \in 0 .. Degree - 1
    BY Widths DEF Degree
  <2> QED
    BY <1>1, <2>1, <2>2 DEF Messages, Registers
<1> QED
  BY <1>2 DEF SentWord, Arranged, Words

\* What encode_rs computes makes a codeword of any message, the parity behind the data.
THEOREM SentIsCodeword ==
  ASSUME NEW m \in Messages
  PROVE  IsCodeword(SentWord(m))
<1> SUFFICES ASSUME NEW r \in 0 .. Degree - 1 PROVE ValueAt(SentWord(m), r) = {}
  BY CodewordIs
<1>0. /\ Degree \in Nat /\ Degree > 1 /\ kk \in Nat /\ kk > 2 /\ nn \in Nat /\ nn = kk + Degree
      /\ r \in Nat /\ nn - 1 \in Nat
  BY Widths DEF Degree
<1>1. PICK P : P = Prefix(m, kk) /\ P \in [0 .. nn - 1 -> Symbol]
  <2>1. kk \in 0 .. kk /\ Degree - 1 + kk = nn - 1
    BY <1>0
  <2> QED
    BY <2>1, PrefixType
<1>2. PICK A : A = SentWord(m) /\ A \in [0 .. nn - 1 -> Symbol]
  BY SentType DEF Words
<1>3. ValueAt(P, r) = {}
  BY <1>0, <1>1, PrefixRoots
<1> DEFINE f == [k \in 0 .. nn - 1 |-> Raised(A[k], r * k)]
           g == [k \in 0 .. nn - 1 |-> Raised(P[k], r * k)]
           e == [k \in 0 .. nn - 1 |-> Raised(f[k], r * Degree)]
           h == [k \in 0 .. nn - 1 |-> IF k < kk THEN k + Degree ELSE k - kk]
<1>3x. nn - 1 \in Nat /\ r \in Nat
  BY <1>0
<1>4. ValueAt(A, r) = XorSum(f) /\ f \in [0 .. nn - 1 -> Symbol] /\ IsFiniteSet(0 .. nn - 1)
  BY <1>2, <1>3x, ValueIs
<1>5. ValueAt(P, r) = XorSum(g) /\ g \in [0 .. nn - 1 -> Symbol]
  BY <1>1, <1>3x, ValueIs
<1>6. r * Degree \in Nat
  BY <1>0
<1>7. e \in [0 .. nn - 1 -> Symbol]
  <2> HIDE DEF f
  <2> QED
    BY <1>4, <1>6, RaisedType
<1>8. h \in Bijection(0 .. nn - 1, 0 .. nn - 1)
  <2>1. h \in [0 .. nn - 1 -> 0 .. nn - 1]
    BY <1>0
  <2>2. ASSUME NEW x \in 0 .. nn - 1, NEW y \in 0 .. nn - 1, h[x] = h[y] PROVE x = y
    BY <1>0, <2>2
  <2>3. ASSUME NEW y \in 0 .. nn - 1 PROVE \E x \in 0 .. nn - 1 : h[x] = y
    <3>1. CASE y < Degree
      <4>1. y + kk \in 0 .. nn - 1 /\ ~(y + kk < kk) /\ (y + kk) - kk = y
        BY <1>0, <3>1
      <4> QED
        BY <4>1
    <3>2. CASE ~(y < Degree)
      <4>1. y - Degree \in 0 .. nn - 1 /\ y - Degree < kk /\ (y - Degree) + Degree = y
        BY <1>0, <3>2
      <4> QED
        BY <4>1
    <3> QED
      BY <3>1, <3>2
  <2> HIDE DEF h
  <2> QED
    BY <2>1, <2>2, <2>3 DEF Bijection, Injection, Surjection, IsInjective
<1>9. ASSUME NEW k \in 0 .. nn - 1 PROVE e[k] = g[h[k]]
  <2>1. e[k] = Raised(Raised(A[k], r * k), r * Degree)
    OBVIOUS
  <2>2. k \in Nat /\ r * k \in Nat /\ A[k] \in Symbol
    BY <1>0, <1>2
  <2>3. e[k] = Raised(A[k], r * k + r * Degree)
    BY <1>6, <2>1, <2>2, RaisedSum
  <2>4. A[k] = IF k < kk THEN m[k] ELSE Register(m)[kk][k - kk]
    BY <1>2 DEF SentWord, Arranged, EncodeRS
  <2>5. CASE k < kk
    <3>1. /\ k + Degree \in 0 .. nn - 1 /\ h[k] = k + Degree /\ ~(k + Degree < Degree)
          /\ kk - kk + ((k + Degree) - Degree) = k /\ k + Degree \in 0 .. Degree - 1 + kk
      BY <1>0, <2>5
    <3>2. P[k + Degree] = A[k]
      BY <1>1, <2>4, <2>5, <3>1 DEF Prefix
    <3>3. r * (k + Degree) = r * k + r * Degree
      BY <1>0, <2>2
    <3>4. g[k + Degree] = Raised(P[k + Degree], r * (k + Degree))
      BY <3>1
    <3> HIDE DEF g, e, h
    <3> QED
      BY <2>3, <3>1, <3>2, <3>3, <3>4
  <2>6. CASE ~(k < kk)
    <3>1. PICK q \in Nat : q = k - kk /\ k = q + kk
      BY <1>0, <2>2, <2>6
    <3>2. q \in 0 .. nn - 1 /\ h[k] = q /\ q < Degree /\ q \in 0 .. Degree - 1 + kk
      BY <1>0, <2>6, <3>1
    <3>3. P[q] = A[k]
      BY <1>1, <2>4, <2>6, <3>1, <3>2 DEF Prefix
    <3>4. r * k + r * Degree = r * nn + r * q /\ r * nn \in Nat /\ r * q \in Nat
      <4>1. r * (q + kk) = r * q + r * kk /\ r * (kk + Degree) = r * kk + r * Degree
        BY <1>0
      <4>2. r * q \in Nat /\ r * kk \in Nat
        BY <1>0
      <4> QED
        BY <1>0, <1>6, <3>1, <4>1, <4>2
    <3>5. Raised(A[k], r * nn + r * q) = Raised(Raised(A[k], r * nn), r * q)
      BY <2>2, <3>4, RaisedSum
    <3>6. Raised(A[k], r * nn) = A[k]
      BY <1>0, <2>2, RaisedCycles
    <3>7. g[q] = Raised(P[q], r * q)
      BY <3>2
    <3> HIDE DEF g, e, h
    <3> QED
      BY <2>3, <3>2, <3>3, <3>4, <3>5, <3>6, <3>7
  <2> QED
    BY <2>5, <2>6
<1>10. XorSum(e) = XorSum(g)
  <2> DEFINE D == 0 .. nn - 1
  <2>1. /\ e \in [D -> Symbol] /\ g \in [D -> Symbol] /\ IsFiniteSet(D)
        /\ h \in Bijection(D, D) /\ \A x \in D : e[x] = g[h[x]]
    BY <1>4, <1>5, <1>7, <1>8, <1>9
  <2> HIDE DEF D, e, g, h
  <2> QED
    BY <2>1, XorSumBijection
<1>11. XorSum(e) = Raised(XorSum(f), r * Degree)
  <2> DEFINE L == RaisedBy(r * Degree)
             D == 0 .. nn - 1
  <2>1. \A k \in D : e[k] = L[f[k]]
    <3> HIDE DEF f
    <3> QED
      BY <1>4 DEF RaisedBy
  <2>2. /\ Additive(L) /\ f \in [D -> Symbol] /\ e \in [D -> Symbol] /\ IsFiniteSet(D)
    BY <1>4, <1>6, <1>7, RaisedAdditive
  <2> HIDE DEF L, D, e, f
  <2>3. XorSum(e) = L[XorSum(f)]
    <3>1. Maps(L, D, f, e)
      BY <2>1, <2>2 DEF Maps
    <3> QED
      BY <2>2, <3>1, XorSumAdditive
  <2> QED
    BY <2>3, XorSumType DEF L, RaisedBy
<1> HIDE DEF e, f, g, h
<1>12. XorSum(f) = {}
  BY <1>3, <1>5, <1>6, <1>10, <1>11, XorSumType, RaisedNonZero
<1> QED
  BY <1>2, <1>4, <1>12

-----------------------------------------------------------------------------
(* The minimum distance *)

\* The places of a word where it is not zero.
Support(w) == { k \in 0 .. nn - 1 : w[k] # {} }

\* They are finitely many.
LEMMA SupportFinite ==
  ASSUME NEW w
  PROVE  IsFiniteSet(Support(w)) /\ Cardinality(Support(w)) \in Nat
<1>1. IsFiniteSet(0 .. nn - 1)
  BY FS_Interval, Widths
<1>2. IsFiniteSet(Support(w))
  BY <1>1, FS_Subset DEF Support
<1> QED
  BY <1>2, FS_CardinalityType

\* One symbol only: the value at alpha^0 is that symbol.
LEMMA OneSymbol ==
  ASSUME NEW w \in Words, NEW p \in 0 .. nn - 1,
         \A k \in 0 .. nn - 1 : k # p => w[k] = {}
  PROVE  ValueAt(w, 0) = w[p]
<1> DEFINE D == 0 .. nn - 1
           f == [k \in 0 .. nn - 1 |-> Raised(w[k], 0 * k)]
           g == [k \in D \ {p} |-> f[k]]
<1>1. /\ ValueAt(w, 0) = XorSum(f) /\ f \in [D -> Symbol] /\ IsFiniteSet(D)
  <2>1. w \in [0 .. nn - 1 -> Symbol] /\ nn - 1 \in Nat /\ 0 \in Nat
    BY Widths DEF Words
  <2> QED
    BY <2>1, ValueIs
<1>2. ASSUME NEW k \in D PROVE f[k] = w[k]
  <2>1. w[k] \in Symbol /\ 0 * k = 0
    BY Widths DEF Words
  <2> QED
    BY <2>1, RaisedFacts
<1>3. g \in [D \ {p} -> Symbol] /\ \A k \in D \ {p} : g[k] = {} /\ g[k] = f[k]
  BY <1>1, <1>2
<1>4. f[p] = w[p] /\ p \in D
  BY <1>2
<1> HIDE DEF f, g, D
<1>5. XorSum(g) = {}
  <2> DEFINE E == D \ {p}
  <2>1. g \in [E -> Symbol] /\ \A k \in E : g[k] = {}
    BY <1>3
  <2> HIDE DEF E
  <2> QED
    BY <2>1, XorSumNone
<1>6. XorSum(f) = Xor(XorSum(g), f[p])
  <2>1. /\ f \in [D -> Symbol] /\ IsFiniteSet(D) /\ p \in D /\ g \in [D \ {p} -> Symbol]
        /\ \A k \in D \ {p} : g[k] = f[k]
    BY <1>1, <1>3, <1>4
  <2>2. Without(D, p, f, g)
    BY <2>1 DEF Without
  <2> QED
    BY <2>1, <2>2, XorSumInsert
<1> QED
  BY <1>1, <1>4, <1>5, <1>6, XorFacts

\* Every symbol multiplied by the power of its position.
LEMMA Weighted ==
  ASSUME NEW w \in Words, NEW v \in Words, \A k \in 0 .. nn - 1 : v[k] = Raised(w[k], k),
         NEW r \in Nat
  PROVE  ValueAt(v, r) = ValueAt(w, r + 1)
<1>0. /\ w \in [0 .. nn - 1 -> Symbol] /\ v \in [0 .. nn - 1 -> Symbol]
      /\ nn - 1 \in Nat /\ r + 1 \in Nat
  BY Widths DEF Words
<1>1. ASSUME NEW k \in 0 .. nn - 1
      PROVE  Raised(v[k], r * k) = Raised(w[k], (r + 1) * k)
  <2>1. k \in Nat /\ w[k] \in Symbol /\ r * k \in Nat
    BY <1>0
  <2>2. (r + 1) * k = k + r * k
    BY <2>1
  <2>3. Raised(Raised(w[k], k), r * k) = Raised(w[k], k + r * k)
    BY <2>1, RaisedSum
  <2> QED
    BY <2>2, <2>3
<1>2. ValueAt(v, r) = XorSum([k \in 0 .. nn - 1 |-> Raised(v[k], r * k)])
  BY <1>0, ValueIs
<1>3. ValueAt(w, r + 1) = XorSum([k \in 0 .. nn - 1 |-> Raised(w[k], (r + 1) * k)])
  BY <1>0, ValueIs
<1>4. [k \in 0 .. nn - 1 |-> Raised(v[k], r * k)] = [k \in 0 .. nn - 1 |-> Raised(w[k], (r + 1) * k)]
  BY <1>1
<1> QED
  BY <1>2, <1>3, <1>4

\* A word with no more than n symbols other than zero, and the first n powers of alpha
\* among its roots.
Sparse(w, n) ==
  /\ w \in Words
  /\ Cardinality(Support(w)) <= n
  /\ \A r \in 0 .. n - 1 : ValueAt(w, r) = {}

\* Such a word is zero.  By induction on n: with p one of its places, every symbol is
\* multiplied by the power of its place and the word times alpha^p is added, which is
\* zero at p and has one root less.
LEMMA SparseIsZero ==
  ASSUME NEW n \in Nat, NEW w, Sparse(w, n)
  PROVE  \A k \in 0 .. nn - 1 : w[k] = {}
<1> DEFINE T == { s \in Nat : \A x : Sparse(x, s) => \A k \in 0 .. nn - 1 : x[k] = {} }
<1>1. 0 \in T
  <2> SUFFICES ASSUME NEW x, Sparse(x, 0) PROVE \A k \in 0 .. nn - 1 : x[k] = {}
    OBVIOUS
  <2>1. Cardinality(Support(x)) = 0
    BY SupportFinite DEF Sparse
  <2>2. Support(x) = {}
    BY <2>1, SupportFinite, FS_EmptySet
  <2> QED
    BY <2>2 DEF Support
<1>2. ASSUME NEW s \in Nat, s \in T PROVE s + 1 \in T
  <2> SUFFICES ASSUME NEW x, Sparse(x, s + 1), NEW p \in 0 .. nn - 1, x[p] # {}
               PROVE  FALSE
    OBVIOUS
  <2>0. /\ x \in Words /\ x \in [0 .. nn - 1 -> Symbol] /\ nn - 1 \in Nat /\ p \in Nat
        /\ \A r \in 0 .. s : ValueAt(x, r) = {} /\ (s + 1) - 1 = s
    BY Widths DEF Sparse, Words
  <2> DEFINE y == [k \in 0 .. nn - 1 |-> Raised(x[k], k)]
             z == [k \in 0 .. nn - 1 |-> Raised(x[k], p)]
             v == [k \in 0 .. nn - 1 |-> Xor(y[k], z[k])]
  <2>1. y \in [0 .. nn - 1 -> Symbol] /\ z \in [0 .. nn - 1 -> Symbol]
    BY <2>0, RaisedType
  <2>2. v \in [0 .. nn - 1 -> Symbol] /\ \A k \in 0 .. nn - 1 : v[k] = Xor(y[k], z[k])
    <3> HIDE DEF y, z
    <3> QED
      BY <2>1, XorType
  <2>3. ASSUME NEW r \in 0 .. s - 1 PROVE ValueAt(v, r) = {}
    <3>0. r \in 0 .. s /\ r + 1 \in 0 .. s /\ r \in Nat
      OBVIOUS
    <3>1. ValueAt(y, r) = {}
      <4>1. y \in Words /\ \A k \in 0 .. nn - 1 : y[k] = Raised(x[k], k)
        BY <2>1 DEF Words
      <4> HIDE DEF y
      <4>2. ValueAt(y, r) = ValueAt(x, r + 1)
        BY <2>0, <3>0, <4>1, Weighted
      <4> QED
        BY <2>0, <3>0, <4>2
    <3>2. ValueAt(z, r) = {}
      <4>1. \A k \in 0 .. nn - 1 : z[k] = Raised(x[k], p)
        OBVIOUS
      <4> HIDE DEF z
      <4>2. ValueAt(z, r) = Raised(ValueAt(x, r), p)
        <5>1. /\ x \in [0 .. nn - 1 -> Symbol] /\ z \in [0 .. nn - 1 -> Symbol]
              /\ nn - 1 \in Nat /\ r \in Nat /\ p \in Nat
          BY <2>0, <2>1, <3>0
        <5> DEFINE N == nn - 1
        <5>2. /\ N \in Nat /\ r \in Nat /\ p \in Nat
              /\ x \in [0 .. N -> Symbol] /\ z \in [0 .. N -> Symbol]
              /\ \A k \in 0 .. N : z[k] = Raised(x[k], p)
          BY <4>1, <5>1
        <5> HIDE DEF N
        <5> QED
          BY <5>2, ValueRaised
      <4> QED
        BY <2>0, <3>0, <4>2, RaisedZero
    <3>3. ValueAt(v, r) = Xor(ValueAt(y, r), ValueAt(z, r))
      <4> HIDE DEF v, y, z
      <4> QED
        <5>1. /\ y \in [0 .. nn - 1 -> Symbol] /\ z \in [0 .. nn - 1 -> Symbol]
              /\ v \in [0 .. nn - 1 -> Symbol] /\ nn - 1 \in Nat /\ r \in Nat
          BY <2>0, <2>1, <2>2, <3>0
        <5>2. IsSum(0 .. nn - 1, y, z, v)
          BY <2>2, <5>1 DEF IsSum
        <5> QED
          BY <5>1, <5>2, ValueAdd
    <3> QED
      BY <3>1, <3>2, <3>3, XorFacts
  <2>4. Support(v) \subseteq Support(x) \ {p}
    <3> SUFFICES ASSUME NEW k \in 0 .. nn - 1, v[k] # {} PROVE x[k] # {} /\ k # p
      BY DEF Support
    <3>1. k \in Nat /\ p \in Nat
      BY <2>0
    <3>2. v[k] = Xor(Raised(x[k], k), Raised(x[k], p))
      OBVIOUS
    <3> HIDE DEF v
    <3>3. x[k] # {}
      <4> SUFFICES ASSUME x[k] = {} PROVE FALSE
        OBVIOUS
      <4>1. Raised(x[k], k) = {} /\ Raised(x[k], p) = {}
        BY <3>1, RaisedZero
      <4> QED
        BY <3>2, <4>1, XorFacts
    <3>4. k # p
      BY <3>2, XorFacts
    <3> QED
      BY <3>3, <3>4
  <2>5. Cardinality(Support(v)) <= s
    <3>1. p \in Support(x) /\ IsFiniteSet(Support(x)) /\ Cardinality(Support(x)) <= s + 1
      BY SupportFinite DEF Support, Sparse
    <3>2. /\ IsFiniteSet(Support(x) \ {p})
          /\ Cardinality(Support(x) \ {p}) = Cardinality(Support(x)) - 1
      BY <3>1, FS_RemoveElement
    <3>3. Cardinality(Support(v)) <= Cardinality(Support(x) \ {p})
      <4> HIDE DEF v
      <4> QED
        BY <2>4, <3>2, FS_Subset
    <3>4. Cardinality(Support(x)) \in Nat /\ Cardinality(Support(v)) \in Nat
      BY SupportFinite
    <3> HIDE DEF v
    <3> QED
      BY <3>1, <3>2, <3>3, <3>4
  <2>6. \A k \in 0 .. nn - 1 : v[k] = {}
    <3>1. Sparse(v, s)
      <4> HIDE DEF v
      <4> QED
        BY <2>2, <2>3, <2>5 DEF Sparse, Words
    <3> HIDE DEF v
    <3> QED
      BY <1>2, <3>1
  <2>7. ASSUME NEW k \in 0 .. nn - 1, k # p PROVE x[k] = {}
    <3>1. Xor(Raised(x[k], k), Raised(x[k], p)) = {}
      BY <2>6
    <3>2. Raised(x[k], k) = Raised(x[k], p)
      BY <3>1 DEF Xor, SymDiff
    <3>3. x[k] \in Symbol
      BY <2>0
    <3> QED
      BY <2>7, <3>2, <3>3, RaisedDistinct
  <2>8. ValueAt(x, 0) = x[p]
    BY <2>0, <2>7, OneSymbol
  <2>9. 0 \in 0 .. s
    OBVIOUS
  <2> QED
    BY <2>0, <2>8, <2>9
<1> HIDE DEF T
<1>3. Nat \subseteq T
  BY <1>1, <1>2, NatSetInduction
<1> QED
  BY <1>3 DEF T

\* Two codewords differ in more than 2 tt symbols, so that at most one is within tt
\* symbols of a received word.
THEOREM MinimumDistance ==
  ASSUME NEW v \in Words, NEW w \in Words, IsCodeword(v), IsCodeword(w), v # w
  PROVE  Cardinality({ k \in 0 .. nn - 1 : v[k] # w[k] }) > 2 * tt
<1>0. v \in [0 .. nn - 1 -> Symbol] /\ w \in [0 .. nn - 1 -> Symbol] /\ nn - 1 \in Nat
  BY Widths DEF Words
<1> DEFINE x == [k \in 0 .. nn - 1 |-> Xor(v[k], w[k])]
<1>1. x \in [0 .. nn - 1 -> Symbol] /\ \A k \in 0 .. nn - 1 : x[k] = Xor(v[k], w[k])
  BY <1>0, XorType
<1>2. Support(x) = { k \in 0 .. nn - 1 : v[k] # w[k] }
  <2>1. \A k \in 0 .. nn - 1 : x[k] # {} <=> v[k] # w[k]
    BY DEF Xor, SymDiff
  <2> HIDE DEF x
  <2> QED
    BY <2>1 DEF Support
<1> HIDE DEF x
<1>3. ASSUME NEW r \in 0 .. Degree - 1 PROVE ValueAt(x, r) = {}
  <2>1. r \in Nat
    OBVIOUS
  <2>2. ValueAt(x, r) = Xor(ValueAt(v, r), ValueAt(w, r))
    <3>1. IsSum(0 .. nn - 1, v, w, x)
      BY <1>0, <1>1 DEF IsSum
    <3> QED
      BY <1>0, <2>1, <3>1, ValueAdd
  <2>3. ValueAt(v, r) = {} /\ ValueAt(w, r) = {}
    BY CodewordIs
  <2> QED
    BY <2>2, <2>3, XorFacts
<1>4. Degree \in Nat /\ Degree = 2 * tt
  BY Widths DEF Degree
<1>5. ~(Cardinality(Support(x)) <= Degree)
  <2> SUFFICES ASSUME Cardinality(Support(x)) <= Degree PROVE FALSE
    OBVIOUS
  <2>1. Sparse(x, Degree)
    BY <1>1, <1>3 DEF Sparse, Words
  <2>2. \A k \in 0 .. nn - 1 : x[k] = {}
    BY <1>4, <2>1, SparseIsZero
  <2>3. ASSUME NEW k \in 0 .. nn - 1 PROVE v[k] = w[k]
    <3>1. Xor(v[k], w[k]) = {}
      BY <1>1, <2>2
    <3>2. Xor(v[k], w[k]) = (v[k] \ w[k]) \cup (w[k] \ v[k])
      BY DEF Xor, SymDiff
    <3> QED
      BY <3>1, <3>2, Zenon
  <2> QED
    BY <1>0, <2>3
<1>6. Cardinality(Support(x)) \in Nat
  BY SupportFinite
<1>7. Cardinality(Support(x)) > 2 * tt
  BY <1>4, <1>5, <1>6
<1> QED
  BY <1>2, <1>7

\* No coefficient of the generator is zero: alpha_to[gg[x]] never reads at index -1.
THEOREM GeneratorNonZero == \A k \in 0 .. nn - kk : Generator[k] # NoBit
<1> SUFFICES ASSUME NEW q \in 0 .. Degree, Generator[q] = {} PROVE FALSE
  BY DEF Degree, NoBit
<1>0. /\ Degree \in Nat /\ Degree > 1 /\ Degree < nn /\ nn \in Nat /\ nn - 1 \in Nat /\ Degree <= nn - 1
  BY Widths DEF Degree
<1>1. Generator \in [0 .. Degree -> Symbol]
  BY GeneratorFacts DEF Polynomial
<1> DEFINE w == [k \in 0 .. nn - 1 |-> IF k <= Degree THEN Generator[k] ELSE {}]
<1>2. /\ w \in [0 .. nn - 1 -> Symbol]
      /\ \A k \in 0 .. Degree : w[k] = Generator[k]
      /\ \A k \in 0 .. nn - 1 : k > Degree => w[k] = {}
  <2>1. \A k \in 0 .. nn - 1 : k <= Degree => k \in 0 .. Degree
    BY <1>0
  <2>2. w \in [0 .. nn - 1 -> Symbol]
    BY <1>1, <2>1, Widths
  <2>3. \A k \in 0 .. Degree : k \in 0 .. nn - 1 /\ k <= Degree
    BY <1>0
  <2>4. \A k \in 0 .. nn - 1 : k > Degree => ~(k <= Degree)
    BY <1>0
  <2> QED
    BY <2>2, <2>3, <2>4
<1> HIDE DEF w
<1>3. ASSUME NEW r \in 0 .. Degree - 1 PROVE ValueAt(w, r) = {}
  <2>1. r \in Nat
    BY <1>0
  <2>2. ValueAt(w, r) = ValueAt(Generator, r)
    <3>1. \A k \in 0 .. nn - 1 : k \notin 0 .. Degree => k > Degree
      BY <1>0
    <3>2. 0 .. Degree \subseteq 0 .. nn - 1
      BY <1>0
    <3>3. Extends(0 .. nn - 1, 0 .. Degree, w, Generator)
      BY <1>1, <1>2, <3>1, <3>2 DEF Extends
    <3> QED
      BY <1>0, <2>1, <3>3, ValueExtend
  <2> QED
    BY <2>2, GeneratorFacts
<1>4. Support(w) \subseteq (0 .. Degree) \ {q}
  BY <1>0, <1>2 DEF Support
<1>5. Cardinality(Support(w)) <= Degree
  <2>1. IsFiniteSet(0 .. Degree) /\ Cardinality(0 .. Degree) = Degree + 1
    BY <1>0, FS_Interval
  <2>2. /\ IsFiniteSet((0 .. Degree) \ {q})
        /\ Cardinality((0 .. Degree) \ {q}) = Cardinality(0 .. Degree) - 1
    BY <2>1, FS_RemoveElement
  <2>3. Cardinality(Support(w)) <= Cardinality((0 .. Degree) \ {q})
    BY <1>4, <2>2, FS_Subset
  <2> QED
    BY <1>0, <2>1, <2>2, <2>3, SupportFinite
<1>6. Sparse(w, Degree)
  BY <1>2, <1>3, <1>5 DEF Sparse, Words
<1>7. w[Degree] = One /\ Degree \in 0 .. nn - 1
  BY <1>0, <1>2, GeneratorFacts
<1> QED
  BY <1>0, <1>6, <1>7, SparseIsZero, Widths
=============================================================================
