------------------------- MODULE SCSchedulerProofs -------------------------
(***************************************************************************)
(* For any number of threads, first the run lists: every operation keeps   *)
(* the two chains, and following the links reads them out.  Then           *)
(* SCDispatch: the lists stay well linked whatever the kernel does with    *)
(* them between two updates, and realise the order of RunOrder.  Then the  *)
(* kernel of the headers, for any symbols, any number of lanes and         *)
(* whatever the two threads write: its update list is sound, and it is the *)
(* kernel the two threads are modelled with.                               *)
(***************************************************************************)
EXTENDS SCScheduler, SequenceTheorems, FiniteSetTheorems, TLAPS

-----------------------------------------------------------------------------
(* Operations keep the chains *)

\* What Linked says of a sequence of processes, element by element.
LEMMA SeqFacts ==
  ASSUME NEW s \in Seq(Runnable)
  PROVE  /\ Len(s) \in Nat /\ DOMAIN s = 1 .. Len(s)
         /\ \A i \in 1 .. Len(s) : s[i] \in Runnable
         /\ s = <<>> <=> Len(s) = 0
         /\ \A p : p \in ToSet(s) <=> \E i \in 1 .. Len(s) : s[i] = p
         /\ IsInjective(s) <=> \A i, k \in 1 .. Len(s) : s[i] = s[k] => i = k
BY LenProperties, EmptySeq DEF ToSet, IsInjective

\* push_back appends to the push list, and the mark of the new last element is END.
LEMMA PushBackLinks ==
  ASSUME NEW q, NEW a, NEW b, Linked(q, a, b), NEW p \in Runnable, ~IsRunnable(q, p)
  PROVE  Linked(PushBack(q, p), Append(a, p), b)
<1> DEFINE r == PushBack(q, p)
           c == Append(a, p)
<1>1. /\ a \in Seq(Runnable) /\ b \in Seq(Runnable) /\ p \notin ToSet(a) /\ p \notin ToSet(b)
      /\ q.next \in [Runnable \cup {PushHead} -> Runnable \cup {NULL, END}]
  BY DEF Linked, Lists
<1>2. /\ c \in Seq(Runnable) /\ Len(c) = Len(a) + 1 /\ c # <<>> /\ c[Len(a) + 1] = p
      /\ \A i \in 1 .. Len(a) : c[i] = a[i]
  BY <1>1, AppendProperties
<1>3. q.tail \in Runnable \cup {PushHead} /\ q.tail # p
  <2>1. a # <<>> => Last(a) \in ToSet(a)
    BY <1>1, SeqFacts DEF Last
  <2> QED
    BY <1>1, <2>1, PointersDiffer DEF Linked, Lists
<1>4. /\ r.next \in [Runnable \cup {PushHead} -> Runnable \cup {NULL, END}]
      /\ r.next[p] = END /\ r.next[q.tail] = p
      /\ \A x \in Runnable \cup {PushHead} : x # p /\ x # q.tail => r.next[x] = q.next[x]
      /\ r.tail = p /\ r.pop = q.pop
      /\ r \in Lists
  BY <1>1, <1>3 DEF PushBack, Linked, Lists
<1> HIDE DEF r, c
<1>5. IsInjective(c) /\ ToSet(c) = ToSet(a) \cup {p}
  <2>1. /\ Len(a) \in Nat
        /\ \A x : x \in ToSet(c) <=> \E i \in 1 .. Len(a) + 1 : c[i] = x
        /\ \A x : x \in ToSet(a) <=> \E i \in 1 .. Len(a) : a[i] = x
    <3>1. \A x : x \in ToSet(c) <=> \E i \in 1 .. Len(c) : c[i] = x
      BY <1>2, SeqFacts
    <3>2. \A x : x \in ToSet(a) <=> \E i \in 1 .. Len(a) : a[i] = x
      BY <1>1, SeqFacts
    <3> QED
      BY <1>1, <1>2, <3>1, <3>2, SeqFacts
  <2>2. ToSet(c) = ToSet(a) \cup {p}
    <3>1. ASSUME NEW x \in ToSet(c) PROVE x \in ToSet(a) \cup {p}
      <4>1. PICK i \in 1 .. Len(a) + 1 : c[i] = x
        BY <2>1
      <4>2. i \in 1 .. Len(a) \/ i = Len(a) + 1
        BY <2>1
      <4> QED
        BY <1>2, <2>1, <4>1, <4>2
    <3>2. ASSUME NEW x \in ToSet(a) \cup {p} PROVE x \in ToSet(c)
      <4>1. Len(a) + 1 \in 1 .. Len(a) + 1 /\ 1 .. Len(a) \subseteq 1 .. Len(a) + 1
        BY <2>1
      <4> QED
        BY <1>2, <2>1, <4>1
    <3> QED
      BY <3>1, <3>2
  <2>3. ASSUME NEW i \in 1 .. Len(a) + 1, NEW k \in 1 .. Len(a) + 1, c[i] = c[k]
        PROVE  i = k
    <3>1. \A n \in 1 .. Len(a) : c[n] = a[n] /\ a[n] # p
      BY <1>1, <1>2, <2>1
    <3>2. (i \in 1 .. Len(a) \/ i = Len(a) + 1) /\ (k \in 1 .. Len(a) \/ k = Len(a) + 1)
      BY <2>1
    <3>3. \A n, m \in 1 .. Len(a) : a[n] = a[m] => n = m
      BY <1>1, SeqFacts DEF Linked
    <3> QED
      BY <1>2, <2>3, <3>1, <3>2, <3>3
  <2> QED
    BY <1>2, <2>2, <2>3, SeqFacts
<1>6. Chained(r, c)
  <2> SUFFICES ASSUME NEW i \in 1 .. Len(a) + 1
               PROVE  r.next[c[i]] = IF i = Len(a) + 1 THEN END ELSE c[i + 1]
    BY <1>2 DEF Chained
  <2>1. Len(a) \in Nat
    BY <1>1, SeqFacts
  <2>2. CASE i = Len(a) + 1
    BY <1>2, <1>4, <2>2
  <2>3. CASE i = Len(a)
    <3>1. a # <<>> /\ c[i] = Last(a) /\ c[i + 1] = p
      BY <1>1, <1>2, <2>1, <2>3, SeqFacts DEF Last
    <3> QED
      BY <1>4, <2>1, <2>3, <3>1 DEF Linked
  <2>4. CASE i < Len(a)
    <3>1. a # <<>> /\ i \in 1 .. Len(a) /\ i + 1 \in 1 .. Len(a) /\ a[i] # Last(a)
      BY <1>1, <2>1, <2>4, SeqFacts DEF Last, Linked
    <3>2. a[i] # p /\ a[i] \in Runnable
      BY <1>1, <3>1, SeqFacts
    <3> QED
      BY <1>2, <1>4, <2>1, <2>4, <3>1, <3>2 DEF Linked, Chained
  <2> QED
    BY <2>1, <2>2, <2>3, <2>4
<1>7. Chained(r, b)
  <2> SUFFICES ASSUME NEW i \in 1 .. Len(b) PROVE r.next[b[i]] = q.next[b[i]]
    BY DEF Chained, Linked
  <2>1. b[i] \in Runnable /\ b[i] # p /\ b[i] \in ToSet(b)
    BY <1>1, SeqFacts
  <2>2. b[i] # q.tail
    <3>1. a # <<>> => Last(a) \in ToSet(a)
      BY <1>1, SeqFacts DEF Last
    <3> QED
      BY <2>1, <3>1, PointersDiffer DEF Linked
  <2> QED
    BY <1>4, <2>1, <2>2
<1>8. r.next[PushHead] = FirstOf(c) /\ r.tail = Last(c)
  <2>1. CASE a = <<>>
    <3>1. q.tail = PushHead /\ Len(a) = 0
      BY <1>1, <2>1, SeqFacts DEF Linked
    <3> QED
      BY <1>2, <1>4, <3>1 DEF FirstOf, Last
  <2>2. CASE a # <<>>
    <3>1. q.tail \in Runnable /\ 1 \in 1 .. Len(a)
      BY <1>1, <2>2, SeqFacts DEF Linked, Last
    <3>2. r.next[PushHead] = q.next[PushHead]
      BY <1>4, <3>1, PointersDiffer
    <3>3. FirstOf(c) = FirstOf(a)
      BY <1>1, <1>2, <2>2, <3>1 DEF FirstOf
    <3>4. r.tail = Last(c)
      BY <1>2, <1>4 DEF Last
    <3> QED
      BY <3>2, <3>3, <3>4 DEF Linked
  <2> QED
    BY <2>1, <2>2
<1>9. \A x \in Runnable : IsRunnable(r, x) <=> x \in ToSet(c) \cup ToSet(b)
  <2> SUFFICES ASSUME NEW x \in Runnable
               PROVE  r.next[x] # NULL <=> x \in ToSet(a) \cup {p} \cup ToSet(b)
    BY <1>5 DEF IsRunnable
  <2>1. x # p /\ x = q.tail => x \in ToSet(a)
    <3>1. a # <<>> => Last(a) \in ToSet(a)
      BY <1>1, SeqFacts DEF Last
    <3> QED
      BY <3>1, PointersDiffer DEF Linked
  <2> QED
    BY <1>4, <2>1, PointersDiffer DEF Linked, IsRunnable
<1>10. Linked(r, c, b)
  BY <1>1, <1>2, <1>4, <1>5, <1>6, <1>7, <1>8, <1>9 DEF Linked
<1> QED
  BY <1>10 DEF r, c

\* A process put after a sequence.
LEMMA AppendFacts ==
  ASSUME NEW s \in Seq(Runnable), NEW p \in Runnable
  PROVE  ToSet(Append(s, p)) = ToSet(s) \cup {p}
<1>1. PICK c : c = Append(s, p)
  OBVIOUS
<1>2. /\ c \in Seq(Runnable) /\ Len(c) = Len(s) + 1 /\ c[Len(s) + 1] = p /\ Len(s) \in Nat
      /\ \A i \in 1 .. Len(s) : c[i] = s[i]
  BY <1>1, AppendProperties, SeqFacts
<1>3. /\ \A x : x \in ToSet(c) <=> \E i \in 1 .. Len(c) : c[i] = x
      /\ \A x : x \in ToSet(s) <=> \E i \in 1 .. Len(s) : s[i] = x
  BY <1>2, SeqFacts
<1>4. ASSUME NEW x \in ToSet(c) PROVE x \in ToSet(s) \cup {p}
  <2>1. PICK i \in 1 .. Len(c) : c[i] = x
    BY <1>3
  <2>2. i \in 1 .. Len(s) \/ i = Len(s) + 1
    BY <1>2
  <2> QED
    BY <1>2, <1>3, <2>1, <2>2
<1>5. ASSUME NEW x \in ToSet(s) \cup {p} PROVE x \in ToSet(c)
  <2>1. Len(s) + 1 \in 1 .. Len(c) /\ \A i \in 1 .. Len(s) : i \in 1 .. Len(c)
    BY <1>2
  <2> QED
    BY <1>2, <1>3, <2>1
<1> QED
  BY <1>1, <1>4, <1>5

\* A process put before a sequence.
LEMMA ConsFacts ==
  ASSUME NEW s \in Seq(Runnable), NEW p \in Runnable, NEW c, c = <<p>> \o s
  PROVE  /\ c \in Seq(Runnable) /\ c # <<>> /\ Len(c) = Len(s) + 1
         /\ c[1] = p /\ \A i \in 1 .. Len(s) : c[i + 1] = s[i]
         /\ ToSet(c) = {p} \cup ToSet(s)
         /\ IsInjective(s) /\ p \notin ToSet(s) => IsInjective(c)
         /\ Last(c) = IF s = <<>> THEN p ELSE Last(s)
<1>1. <<p>> \in Seq(Runnable) /\ Len(<<p>>) = 1 /\ <<p>>[1] = p /\ Len(s) \in Nat
  BY SeqFacts
<1>2. /\ c \in Seq(Runnable) /\ Len(c) = 1 + Len(s)
      /\ \A i \in 1 .. 1 + Len(s) : c[i] = IF i <= 1 THEN <<p>>[i] ELSE s[i - 1]
  BY <1>1, ConcatProperties
<1>3. c # <<>> /\ Len(c) = Len(s) + 1 /\ c[1] = p
  BY <1>1, <1>2, SeqFacts
<1>4. ASSUME NEW i \in 1 .. Len(s)
      PROVE  c[i + 1] = s[i]
  <2>1. i + 1 \in 1 .. 1 + Len(s) /\ ~(i + 1 <= 1) /\ (i + 1) - 1 = i
    BY <1>1
  <2> QED
    BY <1>2, <2>1
<1>5. ASSUME NEW n \in 1 .. Len(c)
      PROVE  n = 1 \/ \E i \in 1 .. Len(s) : n = i + 1
  <2>1. n # 1 => n - 1 \in 1 .. Len(s) /\ n = (n - 1) + 1
    BY <1>1, <1>3
  <2> QED
    BY <2>1
<1>6. /\ \A x : x \in ToSet(c) <=> \E i \in 1 .. Len(c) : c[i] = x
      /\ \A x : x \in ToSet(s) <=> \E i \in 1 .. Len(s) : s[i] = x
  BY <1>2, SeqFacts
<1>7. ToSet(c) = {p} \cup ToSet(s)
  <2>1. ASSUME NEW x \in ToSet(c) PROVE x \in {p} \cup ToSet(s)
    <3>1. PICK n \in 1 .. Len(c) : c[n] = x
      BY <1>6
    <3>2. CASE n = 1
      BY <1>3, <3>1, <3>2
    <3>3. CASE n # 1
      <4>1. PICK i \in 1 .. Len(s) : n = i + 1
        BY <1>5, <3>3
      <4>2. s[i] = x
        BY <1>4, <3>1, <4>1
      <4> QED
        BY <1>6, <4>2
    <3> QED
      BY <3>2, <3>3
  <2>2. ASSUME NEW x \in ToSet(s) PROVE x \in ToSet(c)
    <3>1. PICK i \in 1 .. Len(s) : s[i] = x
      BY <1>6
    <3>2. i + 1 \in 1 .. Len(c) /\ c[i + 1] = x
      BY <1>1, <1>3, <1>4, <3>1
    <3> QED
      BY <1>6, <3>2
  <2>3. p \in ToSet(c)
    <3>1. 1 \in 1 .. Len(c)
      BY <1>1, <1>3
    <3> QED
      BY <1>3, <1>6, <3>1
  <2> QED
    BY <2>1, <2>2, <2>3
<1>8. ASSUME IsInjective(s), p \notin ToSet(s)
      PROVE  IsInjective(c)
  <2> SUFFICES ASSUME NEW n \in 1 .. Len(c), NEW m \in 1 .. Len(c), c[n] = c[m] PROVE n = m
    BY <1>2, SeqFacts
  <2>1. \A i \in 1 .. Len(s) : s[i] # p
    BY <1>6, <1>8
  <2>2. \A i, k \in 1 .. Len(s) : s[i] = s[k] => i = k
    BY <1>8, SeqFacts
  <2> QED
    BY <1>3, <1>4, <1>5, <2>1, <2>2
<1>9. Last(c) = IF s = <<>> THEN p ELSE Last(s)
  <2>1. CASE Len(s) = 0
    BY <1>3, <2>1, SeqFacts DEF Last
  <2>2. CASE Len(s) # 0
    <3>1. Len(s) \in 1 .. Len(s) /\ s # <<>>
      BY <1>1, <2>2, SeqFacts
    <3> QED
      BY <1>3, <1>4, <3>1 DEF Last
  <2> QED
    BY <2>1, <2>2
<1> QED
  BY <1>2, <1>3, <1>4, <1>7, <1>8, <1>9

\* push_front puts a process at the head of the push list, also of an empty one.
LEMMA PushFrontLinks ==
  ASSUME NEW q, NEW a, NEW b, Linked(q, a, b), NEW p \in Runnable, ~IsRunnable(q, p)
  PROVE  Linked(PushFront(q, p), <<p>> \o a, b)
<1> SUFFICES ASSUME NEW c, c = <<p>> \o a PROVE Linked(PushFront(q, p), c, b)
  OBVIOUS
<1> DEFINE r == PushFront(q, p)
<1>1. /\ a \in Seq(Runnable) /\ b \in Seq(Runnable) /\ p \notin ToSet(a) /\ p \notin ToSet(b)
      /\ q.next \in [Runnable \cup {PushHead} -> Runnable \cup {NULL, END}]
      /\ q.next[PushHead] = FirstOf(a) /\ Len(a) \in Nat
      /\ IsInjective(a) /\ IsInjective(b)
  BY SeqFacts DEF Linked, Lists
<1>2. /\ c \in Seq(Runnable) /\ c # <<>> /\ Len(c) = Len(a) + 1
      /\ c[1] = p /\ (\A i \in 1 .. Len(a) : c[i + 1] = a[i])
      /\ ToSet(c) = {p} \cup ToSet(a) /\ IsInjective(c)
      /\ Last(c) = IF a = <<>> THEN p ELSE Last(a)
  <2>1. c \in Seq(Runnable) /\ c # <<>> /\ Len(c) = Len(a) + 1 /\ c[1] = p
    BY <1>1, ConsFacts
  <2>2. \A i \in 1 .. Len(a) : c[i + 1] = a[i]
    BY <1>1, ConsFacts
  <2>3. ToSet(c) = {p} \cup ToSet(a) /\ IsInjective(c)
    BY <1>1, ConsFacts
  <2>4. Last(c) = IF a = <<>> THEN p ELSE Last(a)
    BY <1>1, ConsFacts
  <2> QED
    BY <2>1, <2>2, <2>3, <2>4
<1>3. FirstOf(a) \in Runnable \cup {END}
  BY <1>1, SeqFacts DEF FirstOf
<1>4. /\ r.next[p] = FirstOf(a) /\ r.next[PushHead] = p
      /\ \A x \in Runnable : x # p => r.next[x] = q.next[x]
      /\ r.tail = (IF q.tail = PushHead THEN p ELSE q.tail) /\ r.pop = q.pop
      /\ r \in Lists
  BY <1>1, <1>3, PointersDiffer DEF PushFront, Linked, Lists
<1> HIDE DEF r
<1>5. Chained(r, c)
  <2> SUFFICES ASSUME NEW n \in 1 .. Len(a) + 1
               PROVE  r.next[c[n]] = IF n = Len(a) + 1 THEN END ELSE c[n + 1]
    BY <1>2 DEF Chained
  <2>1. CASE n = 1
    <3>1. a # <<>> => 1 \in 1 .. Len(a) /\ Len(a) # 0
      BY <1>1, SeqFacts
    <3>2. a = <<>> => Len(a) = 0
      BY <1>1, SeqFacts
    <3> QED
      BY <1>1, <1>2, <1>4, <2>1, <3>1, <3>2 DEF FirstOf
  <2>2. CASE n # 1
    <3>1. PICK i \in 1 .. Len(a) : n = i + 1
      <4>1. n - 1 \in 1 .. Len(a) /\ n = (n - 1) + 1
        BY <1>1, <2>2
      <4> QED
        BY <4>1
    <3>2. c[n] = a[i] /\ a[i] \in Runnable /\ a[i] # p
      BY <1>1, <1>2, <3>1, SeqFacts
    <3>3. r.next[c[n]] = IF i = Len(a) THEN END ELSE a[i + 1]
      BY <1>4, <3>2 DEF Linked, Chained
    <3>4. i # Len(a) => i + 1 \in 1 .. Len(a)
      BY <1>1
    <3> QED
      BY <1>1, <1>2, <3>1, <3>3, <3>4
  <2> QED
    BY <2>1, <2>2
<1>6. Chained(r, b)
  <2> SUFFICES ASSUME NEW i \in 1 .. Len(b) PROVE r.next[b[i]] = q.next[b[i]]
    BY DEF Chained, Linked
  <2>1. b[i] \in Runnable /\ b[i] # p
    BY <1>1, SeqFacts
  <2> QED
    BY <1>4, <2>1
<1>7. r.tail = Last(c)
  <2>1. a # <<>> => Last(a) \in Runnable
    BY <1>1, SeqFacts DEF Last
  <2> QED
    BY <1>2, <1>4, <2>1, PointersDiffer DEF Linked
<1>8. \A x \in Runnable : IsRunnable(r, x) <=> x \in ToSet(c) \cup ToSet(b)
  BY <1>2, <1>3, <1>4, PointersDiffer DEF Linked, IsRunnable
<1>9. FirstOf(c) = p /\ ToSet(c) \cap ToSet(b) = {}
  BY <1>1, <1>2 DEF FirstOf, Linked
<1>10. Linked(r, c, b)
  BY <1>1, <1>2, <1>4, <1>5, <1>6, <1>7, <1>8, <1>9 DEF Linked
<1> QED
  BY <1>10 DEF r

\* execute_next puts a process at the head of the pop list.
LEMMA ExecuteNextLinks ==
  ASSUME NEW q, NEW a, NEW b, Linked(q, a, b), NEW p \in Runnable, ~IsRunnable(q, p)
  PROVE  Linked(ExecuteNext(q, p), a, <<p>> \o b)
<1> SUFFICES ASSUME NEW c, c = <<p>> \o b PROVE Linked(ExecuteNext(q, p), a, c)
  OBVIOUS
<1> DEFINE r == ExecuteNext(q, p)
<1>1. /\ a \in Seq(Runnable) /\ b \in Seq(Runnable) /\ p \notin ToSet(a) /\ p \notin ToSet(b)
      /\ q.next \in [Runnable \cup {PushHead} -> Runnable \cup {NULL, END}]
      /\ q.pop = FirstOf(b) /\ Len(b) \in Nat
      /\ IsInjective(a) /\ IsInjective(b)
  BY SeqFacts DEF Linked, Lists
<1>2. /\ c \in Seq(Runnable) /\ c # <<>> /\ Len(c) = Len(b) + 1
      /\ c[1] = p /\ (\A i \in 1 .. Len(b) : c[i + 1] = b[i])
      /\ ToSet(c) = {p} \cup ToSet(b) /\ IsInjective(c)
  <2>1. c \in Seq(Runnable) /\ c # <<>> /\ Len(c) = Len(b) + 1 /\ c[1] = p
    BY <1>1, ConsFacts
  <2>2. \A i \in 1 .. Len(b) : c[i + 1] = b[i]
    BY <1>1, ConsFacts
  <2>3. ToSet(c) = {p} \cup ToSet(b) /\ IsInjective(c)
    BY <1>1, ConsFacts
  <2>4. Last(c) = IF b = <<>> THEN p ELSE Last(b)
    BY <1>1, ConsFacts
  <2> QED
    BY <2>1, <2>2, <2>3, <2>4
<1>3. FirstOf(b) \in Runnable \cup {END}
  BY <1>1, SeqFacts DEF FirstOf
<1>4. /\ r.next[p] = FirstOf(b)
      /\ \A x \in Runnable \cup {PushHead} : x # p => r.next[x] = q.next[x]
      /\ r.tail = q.tail /\ r.pop = p
      /\ r \in Lists
  BY <1>1, <1>3, PointersDiffer DEF ExecuteNext, Linked, Lists
<1> HIDE DEF r
<1>5. Chained(r, c)
  <2> SUFFICES ASSUME NEW n \in 1 .. Len(b) + 1
               PROVE  r.next[c[n]] = IF n = Len(b) + 1 THEN END ELSE c[n + 1]
    BY <1>2 DEF Chained
  <2>1. CASE n = 1
    <3>1. b # <<>> => 1 \in 1 .. Len(b) /\ Len(b) # 0
      BY <1>1, SeqFacts
    <3>2. b = <<>> => Len(b) = 0
      BY <1>1, SeqFacts
    <3> QED
      BY <1>1, <1>2, <1>4, <2>1, <3>1, <3>2 DEF FirstOf
  <2>2. CASE n # 1
    <3>1. PICK i \in 1 .. Len(b) : n = i + 1
      <4>1. n - 1 \in 1 .. Len(b) /\ n = (n - 1) + 1
        BY <1>1, <2>2
      <4> QED
        BY <4>1
    <3>2. c[n] = b[i] /\ b[i] \in Runnable /\ b[i] # p
      BY <1>1, <1>2, <3>1, SeqFacts
    <3>3. r.next[c[n]] = IF i = Len(b) THEN END ELSE b[i + 1]
      <4>1. q.next[b[i]] = IF i = Len(b) THEN END ELSE b[i + 1]
        BY DEF Linked, Chained
      <4>2. c[n] = b[i] /\ b[i] \in Runnable \cup {PushHead} /\ b[i] # p
        BY <3>2
      <4> QED
        BY <1>4, <4>1, <4>2
    <3>4. i # Len(b) => i + 1 \in 1 .. Len(b)
      BY <1>1
    <3> QED
      BY <1>1, <1>2, <3>1, <3>3, <3>4
  <2> QED
    BY <2>1, <2>2
<1>6. Chained(r, a)
  <2> SUFFICES ASSUME NEW i \in 1 .. Len(a) PROVE r.next[a[i]] = q.next[a[i]]
    BY DEF Chained, Linked
  <2>1. a[i] \in Runnable /\ a[i] # p
    BY <1>1, SeqFacts
  <2> QED
    BY <1>4, <2>1
<1>7. r.next[PushHead] = FirstOf(a)
  BY <1>4, PointersDiffer DEF Linked
<1>8. \A x \in Runnable : IsRunnable(r, x) <=> x \in ToSet(a) \cup ToSet(c)
  BY <1>2, <1>3, <1>4, PointersDiffer DEF Linked, IsRunnable
<1>9. FirstOf(c) = p /\ ToSet(a) \cap ToSet(c) = {}
  <2>1. FirstOf(c) = p
    BY <1>2 DEF FirstOf
  <2>2. ToSet(a) \cap ToSet(b) = {}
    BY DEF Linked
  <2>3. p \notin ToSet(a) /\ ToSet(c) = {p} \cup ToSet(b)
    BY <1>1, <1>2
  <2> QED
    BY <2>1, <2>2, <2>3
<1>10. Linked(r, a, c)
  BY <1>1, <1>2, <1>4, <1>5, <1>6, <1>7, <1>8, <1>9 DEF Linked
<1> QED
  BY <1>10 DEF r

\* A sequence without its first process.
LEMMA TailFacts ==
  ASSUME NEW s \in Seq(Runnable), s # <<>>, NEW t, t = Tail(s)
  PROVE  /\ t \in Seq(Runnable) /\ Len(t) = Len(s) - 1
         /\ \A i \in 1 .. Len(t) : t[i] = s[i + 1]
         /\ s[1] \in Runnable /\ Head(s) = s[1]
         /\ ToSet(s) = {s[1]} \cup ToSet(t)
         /\ IsInjective(s) => IsInjective(t) /\ s[1] \notin ToSet(t)
<1>1. /\ t \in Seq(Runnable) /\ Len(t) = Len(s) - 1 /\ Len(s) \in Nat /\ 1 \in 1 .. Len(s)
      /\ \A i \in 1 .. Len(t) : t[i] = s[i + 1]
  BY HeadTailProperties, SeqFacts
<1>2. s[1] \in Runnable /\ Head(s) = s[1]
  BY <1>1, SeqFacts
<1>3. /\ \A x : x \in ToSet(t) <=> \E i \in 1 .. Len(t) : t[i] = x
      /\ \A x : x \in ToSet(s) <=> \E i \in 1 .. Len(s) : s[i] = x
  BY <1>1, SeqFacts
<1>4. ToSet(s) = {s[1]} \cup ToSet(t)
  <2>1. ASSUME NEW x \in ToSet(s) PROVE x \in {s[1]} \cup ToSet(t)
    <3>1. PICK n \in 1 .. Len(s) : s[n] = x
      BY <1>3
    <3>2. n # 1 => n - 1 \in 1 .. Len(t) /\ (n - 1) + 1 = n
      BY <1>1
    <3> QED
      BY <1>1, <1>3, <3>1, <3>2
  <2>2. ASSUME NEW x \in {s[1]} \cup ToSet(t) PROVE x \in ToSet(s)
    <3>1. \A i \in 1 .. Len(t) : i + 1 \in 1 .. Len(s)
      BY <1>1
    <3> QED
      BY <1>1, <1>3, <3>1
  <2> QED
    BY <2>1, <2>2
<1>5. ASSUME IsInjective(s)
      PROVE  IsInjective(t) /\ s[1] \notin ToSet(t)
  <2>1. \A n, m \in 1 .. Len(s) : s[n] = s[m] => n = m
    BY <1>5, SeqFacts
  <2>2. \A i \in 1 .. Len(t) : i + 1 \in 1 .. Len(s) /\ i + 1 # 1
    BY <1>1
  <2>3. \A i, k \in 1 .. Len(t) : t[i] = t[k] => i = k
    BY <1>1, <2>1, <2>2
  <2>4. s[1] \notin ToSet(t)
    BY <1>1, <1>3, <2>1, <2>2
  <2> QED
    BY <1>1, <2>3, <2>4, SeqFacts
<1> QED
  BY <1>1, <1>2, <1>4, <1>5

\* pop gives the head of the pop list and leaves the rest.
LEMMA PopLinks ==
  ASSUME NEW q, NEW a, NEW b, Linked(q, a, b), b # <<>>
  PROVE  Linked(Pop(q), a, Tail(b)) /\ q.pop = Head(b)
<1>a. b \in Seq(Runnable)
  BY DEF Linked
<1>b. PICK t : /\ t = Tail(b) /\ t \in Seq(Runnable) /\ Len(t) = Len(b) - 1
               /\ \A i \in 1 .. Len(t) : t[i] = b[i + 1]
  BY <1>a, TailFacts
<1>c. t = Tail(b) /\ ToSet(b) = {b[1]} \cup ToSet(t) /\ (IsInjective(b) => IsInjective(t) /\ b[1] \notin ToSet(t))
  BY <1>a, <1>b, TailFacts
<1> DEFINE r == Pop(q)
<1>1. /\ a \in Seq(Runnable) /\ b \in Seq(Runnable) /\ Len(b) \in Nat /\ 1 \in 1 .. Len(b)
      /\ q.next \in [Runnable \cup {PushHead} -> Runnable \cup {NULL, END}]
      /\ q.tail \in Runnable \cup {PushHead}
      /\ q.pop = b[1] /\ IsInjective(b)
  BY SeqFacts DEF Linked, Lists, FirstOf
<1>2. /\ t \in Seq(Runnable) /\ Len(t) = Len(b) - 1 /\ Len(t) \in Nat
      /\ \A i \in 1 .. Len(t) : t[i] = b[i + 1]
  BY <1>b, SeqFacts
<1>3. /\ b[1] \in Runnable /\ Head(b) = b[1]
      /\ ToSet(b) = {b[1]} \cup ToSet(t) /\ IsInjective(t) /\ b[1] \notin ToSet(t)
  BY <1>1, <1>c, SeqFacts
<1>4. q.next[b[1]] = FirstOf(t) /\ FirstOf(t) \in Runnable \cup {END}
  <2>1. q.next[b[1]] = IF 1 = Len(b) THEN END ELSE b[1 + 1]
    BY <1>1 DEF Linked, Chained
  <2>2. ASSUME Len(b) # 1
        PROVE  t # <<>> /\ t[1] = b[1 + 1]
    <3>1. 1 \in 1 .. Len(t)
      BY <1>1, <1>2, <2>2
    <3>2. t # <<>>
      BY <1>2, <3>1, SeqFacts
    <3> QED
      BY <1>2, <3>1, <3>2
  <2>3. Len(b) = 1 => t = <<>>
    BY <1>1, <1>2, SeqFacts
  <2> QED
    BY <1>2, <2>1, <2>2, <2>3, SeqFacts DEF FirstOf
<1>5. /\ r.next[b[1]] = NULL
      /\ \A x \in Runnable \cup {PushHead} : x # b[1] => r.next[x] = q.next[x]
      /\ r.pop = FirstOf(t) /\ r.tail = q.tail
      /\ r \in Lists
  BY <1>1, <1>3, <1>4, PointersDiffer DEF Pop, Linked, Lists
<1> HIDE DEF r
<1>6. Chained(r, a)
  <2> SUFFICES ASSUME NEW i \in 1 .. Len(a) PROVE r.next[a[i]] = q.next[a[i]]
    BY DEF Chained, Linked
  <2>1. a[i] \in Runnable /\ a[i] # b[1]
    BY <1>1, <1>3, SeqFacts DEF Linked
  <2> QED
    BY <1>5, <2>1
<1>7. Chained(r, t)
  <2> SUFFICES ASSUME NEW i \in 1 .. Len(t)
               PROVE  r.next[t[i]] = IF i = Len(t) THEN END ELSE t[i + 1]
    BY DEF Chained
  <2>1. i + 1 \in 1 .. Len(b) /\ t[i] = b[i + 1] /\ t[i] \in Runnable /\ t[i] # b[1]
    BY <1>1, <1>2, <1>3, SeqFacts
  <2>2. r.next[t[i]] = IF i + 1 = Len(b) THEN END ELSE b[(i + 1) + 1]
    BY <1>5, <2>1 DEF Linked, Chained
  <2>3. i \in Nat /\ (i # Len(t) => i + 1 \in 1 .. Len(t))
    BY <1>2
  <2>4. i + 1 = Len(b) <=> i = Len(t)
    BY <1>1, <1>2, <2>3
  <2>5. i # Len(t) => t[i + 1] = b[(i + 1) + 1]
    BY <1>2, <2>3
  <2> QED
    BY <2>2, <2>4, <2>5
<1>8. r.next[PushHead] = FirstOf(a)
  BY <1>3, <1>5, PointersDiffer DEF Linked
<1>9. \A x \in Runnable : IsRunnable(r, x) <=> x \in ToSet(a) \cup ToSet(t)
  BY <1>3, <1>5 DEF Linked, IsRunnable
<1>10. ToSet(a) \cap ToSet(t) = {}
  BY <1>3 DEF Linked
<1>11. Linked(r, a, t)
  BY <1>1, <1>2, <1>3, <1>5, <1>6, <1>7, <1>8, <1>9, <1>10 DEF Linked
<1> QED
  BY <1>1, <1>3, <1>c, <1>11 DEF r

\* A round ends when the pop list is empty; the push list is the next one.
LEMMA ToggleLinks ==
  ASSUME NEW q, NEW a, NEW b, Linked(q, a, b)
  PROVE  /\ q.pop = END <=> b = <<>>
         /\ b = <<>> => Linked(Toggle(q), <<>>, a)
         /\ b # <<>> => Toggle(q) = q
<1>1. /\ a \in Seq(Runnable) /\ b \in Seq(Runnable)
      /\ q.next \in [Runnable \cup {PushHead} -> Runnable \cup {NULL, END}]
      /\ q.next[PushHead] = FirstOf(a) /\ FirstOf(a) \in Runnable \cup {END}
  BY SeqFacts DEF Linked, Lists, FirstOf
<1>2. q.pop = END <=> b = <<>>
  <2>1. b # <<>> => b[1] \in Runnable
    BY <1>1, SeqFacts
  <2> QED
    BY <2>1, PointersDiffer DEF Linked, FirstOf
<1>3. ASSUME b = <<>>
      PROVE  Linked(Toggle(q), <<>>, a)
  <2> DEFINE r == Toggle(q)
  <2>1. /\ r.next[PushHead] = END
        /\ \A x \in Runnable : r.next[x] = q.next[x]
        /\ r.pop = FirstOf(a) /\ r.tail = PushHead
        /\ r \in Lists
    <3>1. /\ q.pop = END /\ q \in Lists
          /\ r = [q EXCEPT !.pop = q.next[PushHead], !.next[PushHead] = END, !.tail = PushHead]
      BY <1>2, <1>3 DEF Toggle, Linked
    <3>2. r.pop = FirstOf(a) /\ r.tail = PushHead /\ r.next = [q.next EXCEPT ![PushHead] = END]
      BY <1>1, <3>1 DEF Lists
    <3>3. /\ r.next[PushHead] = END
          /\ \A x \in Runnable : r.next[x] = q.next[x]
          /\ r.next \in [Runnable \cup {PushHead} -> Runnable \cup {NULL, END}]
      BY <1>1, <3>2, PointersDiffer
    <3>4. r \in Lists
      BY <1>1, <3>1, <3>2, <3>3 DEF Lists
    <3> QED
      BY <3>2, <3>3, <3>4
  <2> HIDE DEF r
  <2>2. <<>> \in Seq(Runnable) /\ ToSet(<<>>) = {} /\ IsInjective(<<>>) /\ Len(<<>>) = 0
    BY DEF ToSet, IsInjective
  <2>3. Chained(r, <<>>) /\ r.next[PushHead] = FirstOf(<<>>)
    BY <2>1, <2>2 DEF Chained, FirstOf
  <2>4. Chained(r, a)
    BY <1>1, <2>1, SeqFacts DEF Linked, Chained
  <2>5. \A x \in Runnable : IsRunnable(r, x) <=> x \in ToSet(<<>>) \cup ToSet(a)
    BY <1>3, <2>1, <2>2 DEF Linked, IsRunnable
  <2>6. Linked(r, <<>>, a)
    BY <1>1, <2>1, <2>2, <2>3, <2>4, <2>5 DEF Linked
  <2> QED
    BY <2>6 DEF r
<1>4. b # <<>> => Toggle(q) = q
  BY <1>2 DEF Toggle
<1> QED
  BY <1>2, <1>3, <1>4

\* The sequence s without its k-th process.
IsWithout(s, k, t) ==
  /\ t \in Seq(Runnable) /\ Len(t) = Len(s) - 1
  /\ \A i \in 1 .. Len(t) : t[i] = IF i < k THEN s[i] ELSE s[i + 1]
  /\ IsInjective(t) /\ ToSet(t) = ToSet(s) \ {s[k]}

\* RemoveFirst of a list without repetitions: the element is gone, the others keep their order.
LEMMA RemoveFirstFacts ==
  ASSUME NEW s \in Seq(Runnable), IsInjective(s)
  PROVE  /\ \A k \in 1 .. Len(s) : IsWithout(s, k, RemoveFirst(s, s[k]))
         /\ \A p : p \notin ToSet(s) => RemoveFirst(s, p) = s
<1>1. ASSUME NEW k \in 1 .. Len(s)
      PROVE  IsWithout(s, k, RemoveFirst(s, s[k]))
  <2>1. /\ Len(s) \in Nat /\ (\A i \in 1 .. Len(s) : s[i] \in Runnable)
        /\ \A i, n \in 1 .. Len(s) : s[i] = s[n] => i = n
    BY <1>1, SeqFacts
  <2>2. RemoveFirst(s, s[k]) = RemoveAt(s, k)
    <3>1. SelectInSeq(s, LAMBDA v : v = s[k]) = k
      <4>1. { i \in 1 .. Len(s) : s[i] = s[k] } = {k}
        BY <1>1, <2>1
      <4>2. SelectInSeq(s, LAMBDA v : v = s[k]) = Min({k})
        BY <4>1 DEF SelectInSeq
      <4> QED
        BY <1>1, <2>1, <4>2 DEF Min
    <3> QED
      BY <1>1, <3>1 DEF RemoveFirst
  <2> DEFINE t == RemoveAt(s, k)
  <2>3. /\ t \in Seq(Runnable) /\ Len(t) = Len(s) - 1
        /\ \A i \in 1 .. Len(t) : t[i] = IF i < k THEN s[i] ELSE s[i + 1]
    <3> DEFINE u == SubSeq(s, 1, k - 1)
               v == SubSeq(s, k + 1, Len(s))
    <3>1. u \in Seq(Runnable) /\ Len(u) = k - 1 /\ \A i \in 1 .. k - 1 : u[i] = s[i]
      <4>1. \A i \in 1 .. k - 1 : s[i] \in Runnable
        BY <1>1, <2>1
      <4>2. /\ u \in Seq(Runnable) /\ Len(u) = IF 1 <= k - 1 THEN k - 1 - 1 + 1 ELSE 0
            /\ \A i \in 1 .. k - 1 - 1 + 1 : u[i] = s[1 + i - 1]
        BY <1>1, <2>1, <4>1, SubSeqProperties
      <4> HIDE DEF u
      <4>3. Len(u) = k - 1
        BY <1>1, <2>1, <4>2
      <4>4. ASSUME NEW i \in 1 .. k - 1 PROVE u[i] = s[i]
        <5>1. i \in 1 .. k - 1 - 1 + 1 /\ 1 + i - 1 = i
          BY <1>1, <2>1
        <5> QED
          BY <4>2, <5>1
      <4> QED
        BY <4>2, <4>3, <4>4
    <3>2. v \in Seq(Runnable) /\ Len(v) = Len(s) - k /\ \A i \in 1 .. Len(s) - k : v[i] = s[k + i]
      <4>1. \A i \in k + 1 .. Len(s) : s[i] \in Runnable
        BY <1>1, <2>1
      <4>2. /\ v \in Seq(Runnable) /\ Len(v) = IF k + 1 <= Len(s) THEN Len(s) - (k + 1) + 1 ELSE 0
            /\ \A i \in 1 .. Len(s) - (k + 1) + 1 : v[i] = s[k + 1 + i - 1]
        BY <1>1, <2>1, <4>1, SubSeqProperties
      <4> HIDE DEF v
      <4>3. Len(v) = Len(s) - k
        BY <1>1, <2>1, <4>2
      <4>4. ASSUME NEW i \in 1 .. Len(s) - k PROVE v[i] = s[k + i]
        <5>1. i \in 1 .. Len(s) - (k + 1) + 1 /\ k + 1 + i - 1 = k + i
          BY <1>1, <2>1
        <5> QED
          BY <4>2, <5>1
      <4> QED
        BY <4>2, <4>3, <4>4
    <3>3. t = u \o v
      BY DEF RemoveAt
    <3> HIDE DEF u, v, t
    <3>4. /\ t \in Seq(Runnable) /\ Len(t) = Len(u) + Len(v)
          /\ \A i \in 1 .. Len(u) + Len(v) : t[i] = IF i <= Len(u) THEN u[i] ELSE v[i - Len(u)]
      BY <3>1, <3>2, <3>3, ConcatProperties
    <3>5. Len(u) = k - 1 /\ Len(u) + Len(v) = Len(s) - 1
      BY <1>1, <2>1, <3>1, <3>2
    <3>6. ASSUME NEW i \in 1 .. Len(s) - 1
          PROVE  t[i] = IF i < k THEN s[i] ELSE s[i + 1]
      <4>1. i < k => i <= k - 1 /\ i \in 1 .. k - 1
        BY <1>1, <2>1
      <4>2. ~(i < k) => /\ ~(i <= k - 1) /\ i - (k - 1) \in 1 .. Len(s) - k
                        /\ k + (i - (k - 1)) = i + 1
        BY <1>1, <2>1
      <4>3. t[i] = IF i <= k - 1 THEN u[i] ELSE v[i - (k - 1)]
        BY <3>4, <3>5
      <4>4. CASE i < k
        BY <3>1, <4>1, <4>3, <4>4
      <4>5. CASE ~(i < k)
        <5>1. t[i] = v[i - (k - 1)]
          BY <4>2, <4>3, <4>5
        <5>2. v[i - (k - 1)] = s[k + (i - (k - 1))]
          BY <3>2, <4>2, <4>5
        <5> QED
          BY <4>2, <4>5, <5>1, <5>2
      <4> QED
        BY <4>4, <4>5
    <3> QED
      BY <3>4, <3>5, <3>6
  <2> HIDE DEF t
  <2>4. ASSUME NEW i \in 1 .. Len(t)
        PROVE  \E n \in 1 .. Len(s) : n = (IF i < k THEN i ELSE i + 1) /\ n # k /\ t[i] = s[n]
    <3>1. (IF i < k THEN i ELSE i + 1) \in 1 .. Len(s) \ {k}
      BY <1>1, <2>1, <2>3
    <3> QED
      BY <2>3, <3>1
  <2>5. ASSUME NEW n \in 1 .. Len(s), n # k
        PROVE  \E i \in 1 .. Len(t) : t[i] = s[n]
    <3>1. n < k => n \in 1 .. Len(t)
      BY <1>1, <2>1, <2>3, <2>5
    <3>2. ~(n < k) => n - 1 \in 1 .. Len(t) /\ ~(n - 1 < k) /\ (n - 1) + 1 = n
      BY <1>1, <2>1, <2>3, <2>5
    <3> QED
      BY <2>3, <3>1, <3>2
  <2>6. IsInjective(t)
    <3> SUFFICES ASSUME NEW i \in 1 .. Len(t), NEW j \in 1 .. Len(t), t[i] = t[j] PROVE i = j
      BY <2>3, SeqFacts
    <3>1. PICK n \in 1 .. Len(s) : n = (IF i < k THEN i ELSE i + 1) /\ t[i] = s[n]
      BY <2>4
    <3>2. PICK m \in 1 .. Len(s) : m = (IF j < k THEN j ELSE j + 1) /\ t[j] = s[m]
      BY <2>4
    <3>3. n = m
      BY <2>1, <3>1, <3>2
    <3>4. i \in Int /\ j \in Int /\ k \in Int
      BY <1>1, <2>1, <2>3
    <3> QED
      BY <3>1, <3>2, <3>3, <3>4
  <2>7. /\ \A p : p \in ToSet(t) <=> \E i \in 1 .. Len(t) : t[i] = p
        /\ \A p : p \in ToSet(s) <=> \E i \in 1 .. Len(s) : s[i] = p
    BY <2>3, SeqFacts
  <2>8. ToSet(t) = ToSet(s) \ {s[k]}
    <3>1. ASSUME NEW p \in ToSet(t) PROVE p \in ToSet(s) \ {s[k]}
      <4>1. PICK i \in 1 .. Len(t) : t[i] = p
        BY <2>7
      <4>2. PICK n \in 1 .. Len(s) : n # k /\ t[i] = s[n]
        BY <2>4
      <4> QED
        BY <1>1, <2>1, <2>7, <4>1, <4>2
    <3>2. ASSUME NEW p \in ToSet(s) \ {s[k]} PROVE p \in ToSet(t)
      <4>1. PICK n \in 1 .. Len(s) : s[n] = p /\ n # k
        BY <2>7
      <4> QED
        BY <2>5, <2>7, <4>1
    <3> QED
      BY <3>1, <3>2
  <2>9. IsWithout(s, k, t)
    BY <2>3, <2>6, <2>8 DEF IsWithout
  <2> QED
    BY <2>2, <2>9 DEF t
<1>2. ASSUME NEW p, p \notin ToSet(s)
      PROVE  RemoveFirst(s, p) = s
  BY <1>2, SeqFacts DEF RemoveFirst
<1> QED
  BY <1>1, <1>2

\* The elements that are left.
LEMMA RemovedOff ==
  ASSUME NEW s \in Seq(Runnable), IsInjective(s), NEW p
  PROVE  /\ RemoveFirst(s, p) \in Seq(Runnable) /\ IsInjective(RemoveFirst(s, p))
         /\ ToSet(RemoveFirst(s, p)) = ToSet(s) \ {p}
<1>1. CASE p \in ToSet(s)
  <2>1. PICK k \in 1 .. Len(s) : s[k] = p
    BY <1>1, SeqFacts
  <2>2. IsWithout(s, k, RemoveFirst(s, p))
    BY <2>1, RemoveFirstFacts
  <2> QED
    BY <2>1, <2>2 DEF IsWithout
<1>2. CASE p \notin ToSet(s)
  <2>1. RemoveFirst(s, p) = s
    BY <1>2, RemoveFirstFacts
  <2> QED
    BY <1>2, <2>1
<1> QED
  BY <1>1, <1>2

\* The last process of a sequence without its k-th.
LEMMA LastOfWithout ==
  ASSUME NEW s \in Seq(Runnable), NEW k \in 1 .. Len(s), NEW t, IsWithout(s, k, t)
  PROVE  /\ k # Len(s) => t # <<>> /\ Last(t) = Last(s)
         /\ k = Len(s) /\ k # 1 => t # <<>> /\ Last(t) = s[k - 1]
         /\ Len(s) = 1 => t = <<>>
<1>1. /\ Len(s) \in Nat /\ k \in Nat /\ 1 <= k /\ k <= Len(s)
      /\ t \in Seq(Runnable) /\ Len(t) = Len(s) - 1 /\ (t = <<>> <=> Len(t) = 0)
      /\ \A i \in 1 .. Len(t) : t[i] = IF i < k THEN s[i] ELSE s[i + 1]
  <2>1. Len(s) \in Nat /\ t \in Seq(Runnable) /\ Len(t) = Len(s) - 1
    BY SeqFacts DEF IsWithout
  <2>2. t = <<>> <=> Len(t) = 0
    BY <2>1, SeqFacts
  <2> QED
    BY <2>1, <2>2 DEF IsWithout
<1>5. ASSUME k # Len(s)
      PROVE  t # <<>> /\ Last(t) = Last(s)
  <2>1. Len(t) # 0 /\ Len(t) \in 1 .. Len(t) /\ ~(Len(t) < k) /\ Len(t) + 1 = Len(s)
    BY <1>1, <1>5
  <2> QED
    BY <1>1, <2>1 DEF Last
<1>6. ASSUME k = Len(s), k # 1
      PROVE  t # <<>> /\ Last(t) = s[k - 1]
  <2>1. Len(t) # 0 /\ Len(t) \in 1 .. Len(t) /\ Len(t) < k /\ Len(t) = k - 1
    BY <1>1, <1>6
  <2> QED
    BY <1>1, <2>1 DEF Last
<1> QED
  BY <1>1, <1>5, <1>6

\* What its first process is reached by.
LEMMA FirstOfWithout ==
  ASSUME NEW q, NEW s \in Seq(Runnable), NEW k \in 1 .. Len(s),
         NEW t, IsWithout(s, k, t), Chained(q, s)
  PROVE  FirstOf(t) = IF k = 1 THEN q.next[s[1]] ELSE FirstOf(s)
<1>1. /\ Len(s) \in Nat /\ k \in Nat /\ 1 <= k /\ k <= Len(s)
      /\ t \in Seq(Runnable) /\ Len(t) = Len(s) - 1 /\ (t = <<>> <=> Len(t) = 0)
      /\ \A i \in 1 .. Len(t) : t[i] = IF i < k THEN s[i] ELSE s[i + 1]
  <2>1. Len(s) \in Nat /\ t \in Seq(Runnable) /\ Len(t) = Len(s) - 1
    BY SeqFacts DEF IsWithout
  <2>2. t = <<>> <=> Len(t) = 0
    BY <2>1, SeqFacts
  <2> QED
    BY <2>1, <2>2 DEF IsWithout
<1>2. \A i \in 1 .. Len(s) : q.next[s[i]] = IF i = Len(s) THEN END ELSE s[i + 1]
  BY DEF Chained
<1>3. FirstOf(t) = IF k = 1 THEN q.next[s[1]] ELSE FirstOf(s)
  <2>1. s # <<>>
    BY <1>1, SeqFacts
  <2>2. CASE Len(s) = 1
    BY <1>1, <1>2, <2>2 DEF FirstOf
  <2>3. CASE Len(s) # 1
    <3>1. 1 \in 1 .. Len(t) /\ 1 \in 1 .. Len(s) /\ Len(t) # 0 /\ (k # 1 => 1 < k)
      BY <1>1, <2>3
    <3>2. t # <<>> /\ t[1] = IF k = 1 THEN s[2] ELSE s[1]
      BY <1>1, <3>1
    <3>3. q.next[s[1]] = s[2]
      <4>1. q.next[s[1]] = s[1 + 1]
        BY <1>2, <2>3, <3>1
      <4> QED
        BY <4>1
    <3>4. FirstOf(t) = t[1] /\ FirstOf(s) = s[1]
      BY <2>1, <3>2 DEF FirstOf
    <3> QED
      BY <3>2, <3>3, <3>4
  <2> QED
    BY <2>2, <2>3
<1> QED
  BY <1>3

\* A chain without its k-th process, the link to it led past it.
LEMMA Unchain ==
  ASSUME NEW q, NEW r, NEW s \in Seq(Runnable), NEW k \in 1 .. Len(s),
         NEW t, IsWithout(s, k, t), Chained(q, s),
         \A i \in 1 .. Len(s) :
           i # k => r.next[s[i]] = IF i = k - 1 THEN q.next[s[k]] ELSE q.next[s[i]]
  PROVE  Chained(r, t)
<1>1. /\ Len(s) \in Nat /\ k \in Nat /\ 1 <= k /\ k <= Len(s)
      /\ t \in Seq(Runnable) /\ Len(t) = Len(s) - 1 /\ (t = <<>> <=> Len(t) = 0)
      /\ \A i \in 1 .. Len(t) : t[i] = IF i < k THEN s[i] ELSE s[i + 1]
  <2>1. Len(s) \in Nat /\ t \in Seq(Runnable) /\ Len(t) = Len(s) - 1
    BY SeqFacts DEF IsWithout
  <2>2. t = <<>> <=> Len(t) = 0
    BY <2>1, SeqFacts
  <2> QED
    BY <2>1, <2>2 DEF IsWithout
<1>2. \A i \in 1 .. Len(s) : q.next[s[i]] = IF i = Len(s) THEN END ELSE s[i + 1]
  BY DEF Chained
<1>3. ASSUME NEW i \in 1 .. Len(t)
      PROVE  r.next[t[i]] = IF i = Len(t) THEN END ELSE t[i + 1]
  <2>1. i \in Nat /\ 1 <= i /\ i <= Len(s) - 1
    BY <1>1
  <2>2. CASE i < k - 1
    <3>1. i \in 1 .. Len(s) /\ i # k /\ i # k - 1 /\ i # Len(s) /\ i # Len(t)
      BY <1>1, <2>1, <2>2
    <3>2. i + 1 \in 1 .. Len(t) /\ i + 1 < k /\ i < k
      BY <1>1, <2>1, <2>2
    <3> QED
      BY <1>1, <1>2, <3>1, <3>2
  <2>3. CASE i = k - 1
    <3>1. /\ i \in 1 .. Len(s) /\ i # k /\ i < k
          /\ k = Len(s) <=> i = Len(t)
          /\ k # Len(s) => i + 1 \in 1 .. Len(t) /\ ~(i + 1 < k) /\ (i + 1) + 1 = k + 1
      BY <1>1, <2>1, <2>3
    <3>2. r.next[t[i]] = q.next[s[k]]
      BY <1>1, <2>3, <3>1
    <3> QED
      BY <1>1, <1>2, <3>1, <3>2
  <2>4. CASE i >= k
    <3>1. /\ i + 1 \in 1 .. Len(s) /\ i + 1 # k /\ i + 1 # k - 1 /\ ~(i < k)
          /\ i + 1 = Len(s) <=> i = Len(t)
          /\ i # Len(t) => i + 1 \in 1 .. Len(t) /\ ~(i + 1 < k)
      BY <1>1, <2>1, <2>4
    <3>2. r.next[t[i]] = q.next[s[i + 1]]
      BY <1>1, <3>1
    <3> QED
      BY <1>1, <1>2, <3>1, <3>2
  <2> QED
    BY <1>1, <2>1, <2>2, <2>3, <2>4
<1> QED
  BY <1>3 DEF Chained

\* What leads to a process.
LEMMA NextIs ==
  ASSUME NEW q, NEW a, NEW b, Linked(q, a, b),
         NEW x \in Runnable \cup {PushHead}, q.next[x] \in Runnable
  PROVE  \/ x = PushHead /\ a # <<>> /\ q.next[x] = a[1]
         \/ \E i \in 1 .. Len(a) : i # Len(a) /\ x = a[i] /\ q.next[x] = a[i + 1]
         \/ \E i \in 1 .. Len(b) : i # Len(b) /\ x = b[i] /\ q.next[x] = b[i + 1]
<1>1. CASE x = PushHead
  BY <1>1, PointersDiffer DEF Linked, FirstOf
<1>2. CASE x \in Runnable
  <2>1. x \in ToSet(a) \cup ToSet(b)
    BY <1>2, PointersDiffer DEF Linked, IsRunnable
  <2>2. CASE x \in ToSet(a)
    <3>1. PICK i \in 1 .. Len(a) : x = a[i]
      BY <2>2, SeqFacts DEF Linked
    <3> QED
      BY <3>1, PointersDiffer DEF Linked, Chained
  <2>3. CASE x \in ToSet(b)
    <3>1. PICK i \in 1 .. Len(b) : x = b[i]
      BY <2>3, SeqFacts DEF Linked
    <3> QED
      BY <3>1, PointersDiffer DEF Linked, Chained
  <2> QED
    BY <2>1, <2>2, <2>3
<1> QED
  BY <1>1, <1>2

\* remove_thread unlinks a process from the list it is on, at either end or inside.
LEMMA TakeOutLinks ==
  ASSUME NEW q, NEW a, NEW b, Linked(q, a, b), NEW p \in Runnable
  PROVE  Linked(TakeOut(q, p), RemoveFirst(a, p), RemoveFirst(b, p))
<1> DEFINE r == TakeOut(q, p)
           prior == { x \in Runnable \cup {PushHead} : IsPrior(q, x, p) }
<1>1. /\ a \in Seq(Runnable) /\ b \in Seq(Runnable) /\ IsInjective(a) /\ IsInjective(b)
      /\ ToSet(a) \cap ToSet(b) = {}
      /\ q \in Lists /\ q.next \in [Runnable \cup {PushHead} -> Runnable \cup {NULL, END}]
      /\ q.next[p] = NULL <=> p \notin ToSet(a) \cup ToSet(b)
  BY DEF Linked, Lists, IsRunnable
<1>2. /\ \A i \in 1 .. Len(a) : a[i] \in Runnable /\ a[i] \in ToSet(a)
      /\ \A i \in 1 .. Len(b) : b[i] \in Runnable /\ b[i] \in ToSet(b)
      /\ \A i, k \in 1 .. Len(a) : a[i] = a[k] => i = k
      /\ \A i, k \in 1 .. Len(b) : b[i] = b[k] => i = k
      /\ Len(a) \in Nat /\ Len(b) \in Nat
  BY <1>1, SeqFacts
<1>3. CASE p \notin ToSet(a) \cup ToSet(b)
  <2>1. r = q
    BY <1>1, <1>3 DEF TakeOut, IsRunnable
  <2>2. RemoveFirst(a, p) = a
    BY <1>1, <1>3, RemoveFirstFacts
  <2>3. RemoveFirst(b, p) = b
    BY <1>1, <1>3, RemoveFirstFacts
  <2> QED
    BY <2>1, <2>2, <2>3
<1>4. ASSUME p \in ToSet(a) \cup ToSet(b)
      PROVE  /\ r.next[p] = NULL
             /\ \A x \in prior : x # p => r.next[x] = q.next[p]
             /\ \A x \in Runnable \cup {PushHead} : x # p /\ x \notin prior => r.next[x] = q.next[x]
             /\ r.tail = (IF q.tail = p THEN CHOOSE x \in prior : TRUE ELSE q.tail)
             /\ r.pop = (IF q.pop = p THEN q.next[p] ELSE q.pop)
             /\ r.next \in [Runnable \cup {PushHead} -> Runnable \cup {NULL, END}]
             /\ DOMAIN r = DOMAIN q
             /\ r = [next |-> r.next, tail |-> r.tail, pop |-> r.pop]
  <2>1. r = [q EXCEPT !.next = [x \in DOMAIN @ |-> IF x = p THEN NULL
                                                   ELSE IF x \in prior THEN @[p] ELSE @[x]],
                      !.tail = IF @ = p THEN CHOOSE x \in prior : TRUE ELSE @,
                      !.pop  = IF @ = p THEN q.next[p] ELSE @]
    BY <1>1, <1>4 DEF TakeOut, IsRunnable
  <2> HIDE DEF r
  <2>2. prior \subseteq Runnable \cup {PushHead}
    OBVIOUS
  <2> HIDE DEF prior
  <2>3. r.next = [x \in Runnable \cup {PushHead} |->
                    IF x = p THEN NULL ELSE IF x \in prior THEN q.next[p] ELSE q.next[x]]
    BY <1>1, <2>1 DEF Lists
  <2>4. /\ r.tail = (IF q.tail = p THEN CHOOSE x \in prior : TRUE ELSE q.tail)
        /\ r.pop = (IF q.pop = p THEN q.next[p] ELSE q.pop)
        /\ DOMAIN r = DOMAIN q
        /\ r = [next |-> r.next, tail |-> r.tail, pop |-> r.pop]
    BY <1>1, <2>1 DEF Lists
  <2> QED
    BY <1>1, <2>2, <2>3, <2>4
<1> HIDE DEF r
<1>5. CASE p \in ToSet(a)
  <2> DEFINE t == RemoveFirst(a, p)
  <2>1. PICK k \in 1 .. Len(a) : a[k] = p
    BY <1>1, <1>5, SeqFacts
  <2>2. IsWithout(a, k, t)
    BY <1>1, <2>1, RemoveFirstFacts
  <2>3. RemoveFirst(b, p) = b
    BY <1>1, <1>5, RemoveFirstFacts
  <2> HIDE DEF t
  <2>4. PICK pr : pr = IF k = 1 THEN PushHead ELSE a[k - 1]
    OBVIOUS
  <2>5. pr \in Runnable \cup {PushHead} /\ pr # p /\ prior = {pr}
    <3>1. pr \in Runnable \cup {PushHead} /\ pr # p /\ q.next[pr] = p
      <4>1. CASE k = 1
        <5>1. a # <<>>
          BY <1>1, <2>1, <4>1, SeqFacts
        <5> QED
          BY <2>1, <2>4, <4>1, <5>1, PointersDiffer DEF Linked, FirstOf
      <4>2. CASE k # 1
        <5>1. k - 1 \in 1 .. Len(a) /\ k - 1 # Len(a) /\ (k - 1) + 1 = k /\ k - 1 # k
          BY <1>2, <2>1, <4>2
        <5>2. pr = a[k - 1] /\ pr \in Runnable /\ pr # p
          BY <1>2, <2>1, <2>4, <4>2, <5>1
        <5>3. q.next[a[k - 1]] = a[(k - 1) + 1]
          BY <5>1 DEF Linked, Chained
        <5> QED
          BY <2>1, <5>1, <5>2, <5>3
      <4> QED
        BY <4>1, <4>2
    <3>2. ASSUME NEW x \in Runnable \cup {PushHead}, q.next[x] = p
          PROVE  x = pr
      <4>1. CASE x = PushHead /\ a # <<>> /\ p = a[1]
        <5>1. 1 \in 1 .. Len(a)
          BY <1>2, <2>1
        <5> QED
          BY <1>2, <2>1, <2>4, <4>1, <5>1
      <4>2. ASSUME NEW i \in 1 .. Len(a), i # Len(a), x = a[i], p = a[i + 1]
            PROVE  x = pr
        <5>1. i + 1 \in 1 .. Len(a) /\ i \in Nat
          BY <1>2, <4>2
        <5>2. i + 1 = k
          BY <1>2, <2>1, <4>2, <5>1
        <5>3. k # 1 /\ k - 1 = i
          BY <4>2, <5>1, <5>2
        <5> QED
          BY <2>4, <4>2, <5>3
      <4>3. ASSUME NEW i \in 1 .. Len(b), i # Len(b), x = b[i], p = b[i + 1]
            PROVE  FALSE
        <5>1. i + 1 \in 1 .. Len(b)
          BY <1>2, <4>3
        <5> QED
          BY <1>1, <1>2, <1>5, <4>3, <5>1
      <4>0. q.next[x] \in Runnable
        BY <3>2
      <4>4. \/ x = PushHead /\ a # <<>> /\ q.next[x] = a[1]
            \/ \E i \in 1 .. Len(a) : i # Len(a) /\ x = a[i] /\ q.next[x] = a[i + 1]
            \/ \E i \in 1 .. Len(b) : i # Len(b) /\ x = b[i] /\ q.next[x] = b[i + 1]
        BY <4>0, NextIs
      <4> QED
        BY <3>2, <4>1, <4>2, <4>3, <4>4
    <3> QED
      BY <3>1, <3>2 DEF IsPrior
  <2> HIDE DEF prior
  <2>6. /\ r.next[p] = NULL /\ r.next[pr] = q.next[p]
        /\ \A x \in Runnable \cup {PushHead} : x # p /\ x # pr => r.next[x] = q.next[x]
        /\ r.tail = IF q.tail = p THEN pr ELSE q.tail
    BY <1>4, <1>5, <2>5
  <2>7. r.pop = q.pop
    <3>1. b # <<>> => 1 \in 1 .. Len(b)
      BY <1>1, <1>2, SeqFacts
    <3>2. q.pop # p
      BY <1>1, <1>2, <1>5, <3>1, PointersDiffer DEF Linked, FirstOf
    <3> QED
      BY <1>4, <1>5, <3>2
  <2>8. ASSUME NEW i \in 1 .. Len(a), i # k
        PROVE  r.next[a[i]] = IF i = k - 1 THEN q.next[a[k]] ELSE q.next[a[i]]
    <3>1. a[i] \in Runnable /\ a[i] # p
      BY <1>2, <2>1, <2>8
    <3>2. CASE i = k - 1
      <4>1. k # 1
        BY <1>2, <3>2
      <4> QED
        BY <2>1, <2>4, <2>6, <3>2, <4>1
    <3>3. CASE i # k - 1
      <4>1. a[i] # pr
        <5>1. k # 1 => k - 1 \in 1 .. Len(a)
          BY <1>2
        <5> QED
          BY <1>2, <2>4, <3>1, <3>3, <5>1, PointersDiffer
      <4> QED
        BY <2>6, <3>1, <3>3, <4>1
    <3> QED
      BY <3>2, <3>3
  <2>9. /\ Chained(r, t)
        /\ FirstOf(t) = IF k = 1 THEN q.next[a[1]] ELSE FirstOf(a)
        /\ k # Len(a) => t # <<>> /\ Last(t) = Last(a)
        /\ k = Len(a) /\ k # 1 => t # <<>> /\ Last(t) = a[k - 1]
        /\ Len(a) = 1 => t = <<>>
    <3>1. Chained(q, a)
      BY DEF Linked
    <3>2. Chained(r, t)
      BY <1>1, <2>2, <2>8, <3>1, Unchain
    <3>3. FirstOf(t) = IF k = 1 THEN q.next[a[1]] ELSE FirstOf(a)
      BY <1>1, <2>2, <3>1, FirstOfWithout
    <3>4. k # Len(a) => t # <<>> /\ Last(t) = Last(a)
      BY <1>1, <2>2, LastOfWithout
    <3>5. k = Len(a) /\ k # 1 => t # <<>> /\ Last(t) = a[k - 1]
      BY <1>1, <2>2, LastOfWithout
    <3>6. Len(a) = 1 => t = <<>>
      BY <1>1, <2>2, LastOfWithout
    <3> QED
      BY <3>2, <3>3, <3>4, <3>5, <3>6
  <2>10. Chained(r, b)
    <3> SUFFICES ASSUME NEW i \in 1 .. Len(b) PROVE r.next[b[i]] = q.next[b[i]]
      BY DEF Chained, Linked
    <3>1. k # 1 => k - 1 \in 1 .. Len(a)
      BY <1>2
    <3>2. b[i] \in Runnable /\ b[i] # p /\ b[i] # pr
      BY <1>1, <1>2, <1>5, <2>4, <3>1, PointersDiffer
    <3> QED
      BY <2>6, <3>2
  <2>11. r.next[PushHead] = FirstOf(t)
    <3>1. CASE k = 1
      BY <2>1, <2>4, <2>6, <2>9, <3>1
    <3>2. CASE k # 1
      <4>1. k - 1 \in 1 .. Len(a)
        BY <1>2, <3>2
      <4>2. PushHead # p /\ PushHead # pr
        BY <1>2, <2>4, <3>2, <4>1, PointersDiffer
      <4> QED
        BY <2>6, <2>9, <3>2, <4>2 DEF Linked
    <3> QED
      BY <3>1, <3>2
  <2>12. r.tail = IF t = <<>> THEN PushHead ELSE Last(t)
    <3>1. a # <<>> /\ q.tail = Last(a) /\ Last(a) = a[Len(a)] /\ Len(a) \in 1 .. Len(a)
      BY <1>1, <1>2, <2>1, SeqFacts DEF Linked, Last
    <3>2. q.tail = p <=> k = Len(a)
      BY <1>2, <2>1, <3>1
    <3>3. CASE k # Len(a)
      BY <2>6, <2>9, <3>1, <3>2, <3>3
    <3>4. CASE k = Len(a) /\ k # 1
      BY <2>4, <2>6, <2>9, <3>2, <3>4
    <3>5. CASE k = Len(a) /\ k = 1
      BY <2>4, <2>6, <2>9, <3>2, <3>5
    <3> QED
      BY <3>3, <3>4, <3>5
  <2>13. t \in Seq(Runnable) /\ IsInjective(t) /\ ToSet(t) = ToSet(a) \ {p}
    BY <2>1, <2>2 DEF IsWithout
  <2>14. \A x \in Runnable : IsRunnable(r, x) <=> x \in ToSet(t) \cup ToSet(b)
    <3> SUFFICES ASSUME NEW x \in Runnable
                 PROVE  r.next[x] # NULL <=> x \in (ToSet(a) \ {p}) \cup ToSet(b)
      BY <2>13 DEF IsRunnable
    <3>1. CASE x = p
      BY <1>1, <1>5, <2>6, <3>1
    <3>2. CASE x # p /\ x = pr
      <4>1. k # 1 => k - 1 \in 1 .. Len(a)
        BY <1>2
      <4>2. x \in ToSet(a)
        BY <1>2, <2>4, <3>2, <4>1, PointersDiffer
      <4> QED
        BY <1>1, <1>5, <2>6, <3>2, <4>2
    <3>3. CASE x # p /\ x # pr
      BY <2>6, <3>3 DEF Linked, IsRunnable
    <3> QED
      BY <3>1, <3>2, <3>3
  <2>15. r \in Lists
    BY <1>1, <1>4, <1>5, <2>5, <2>6, <2>7 DEF Lists
  <2>16. Linked(r, t, b)
    BY <1>1, <2>7, <2>9, <2>10, <2>11, <2>12, <2>13, <2>14, <2>15 DEF Linked
  <2> QED
    BY <2>3, <2>16 DEF r, t
<1>6. CASE p \in ToSet(b)
  <2> DEFINE t == RemoveFirst(b, p)
  <2>1. PICK k \in 1 .. Len(b) : b[k] = p
    BY <1>1, <1>6, SeqFacts
  <2>2. IsWithout(b, k, t)
    BY <1>1, <2>1, RemoveFirstFacts
  <2>3. RemoveFirst(a, p) = a
    BY <1>1, <1>6, RemoveFirstFacts
  <2> HIDE DEF t
  <2>4. /\ \A x \in prior : k # 1 /\ x = b[k - 1]
        /\ k # 1 => b[k - 1] \in prior
    <3>1. ASSUME k # 1
          PROVE  b[k - 1] \in Runnable /\ q.next[b[k - 1]] = p
      <4>1. k - 1 \in 1 .. Len(b) /\ k - 1 # Len(b) /\ (k - 1) + 1 = k
        BY <1>2, <2>1, <3>1
      <4>2. q.next[b[k - 1]] = b[(k - 1) + 1]
        BY <4>1 DEF Linked, Chained
      <4> QED
        BY <1>2, <2>1, <4>1, <4>2
    <3>2. ASSUME NEW x \in Runnable \cup {PushHead}, q.next[x] = p
          PROVE  k # 1 /\ x = b[k - 1]
      <4>1. ASSUME a # <<>>, p = a[1]
            PROVE  FALSE
        <5>1. 1 \in 1 .. Len(a)
          BY <1>1, <1>2, <4>1, SeqFacts
        <5> QED
          BY <1>1, <1>2, <1>6, <4>1, <5>1
      <4>2. ASSUME NEW i \in 1 .. Len(a), i # Len(a), x = a[i], p = a[i + 1]
            PROVE  FALSE
        <5>1. i + 1 \in 1 .. Len(a)
          BY <1>2, <4>2
        <5> QED
          BY <1>1, <1>2, <1>6, <4>2, <5>1
      <4>3. ASSUME NEW i \in 1 .. Len(b), i # Len(b), x = b[i], p = b[i + 1]
            PROVE  k # 1 /\ x = b[k - 1]
        <5>1. i + 1 \in 1 .. Len(b) /\ i \in Nat /\ i + 1 # 1
          BY <1>2, <4>3
        <5>2. i + 1 = k
          BY <1>2, <2>1, <4>3, <5>1
        <5>3. k # 1 /\ k - 1 = i
          BY <5>1, <5>2
        <5> QED
          BY <4>3, <5>3
      <4>0. q.next[x] \in Runnable
        BY <3>2
      <4>4. \/ x = PushHead /\ a # <<>> /\ q.next[x] = a[1]
            \/ \E i \in 1 .. Len(a) : i # Len(a) /\ x = a[i] /\ q.next[x] = a[i + 1]
            \/ \E i \in 1 .. Len(b) : i # Len(b) /\ x = b[i] /\ q.next[x] = b[i + 1]
        BY <4>0, NextIs
      <4> QED
        BY <3>2, <4>1, <4>2, <4>3, <4>4
    <3> QED
      BY <3>1, <3>2 DEF IsPrior
  <2>5. k # 1 => b[k - 1] \in ToSet(b) /\ b[k - 1] \in Runnable /\ b[k - 1] # p
    <3>1. k # 1 => k - 1 \in 1 .. Len(b) /\ k - 1 # k
      BY <1>2
    <3> QED
      BY <1>2, <2>1, <3>1
  <2> HIDE DEF prior
  <2>6. /\ r.next[p] = NULL
        /\ k # 1 => r.next[b[k - 1]] = q.next[p]
        /\ \A x \in Runnable \cup {PushHead} :
             x # p /\ ~(k # 1 /\ x = b[k - 1]) => r.next[x] = q.next[x]
    BY <1>4, <1>6, <2>4, <2>5
  <2>7. r.tail = q.tail
    <3>1. a # <<>> => Len(a) \in 1 .. Len(a)
      BY <1>1, <1>2, SeqFacts
    <3>2. q.tail # p
      BY <1>1, <1>2, <1>6, <3>1, PointersDiffer DEF Linked, Last
    <3> QED
      BY <1>4, <1>6, <3>2
  <2>8. ASSUME NEW i \in 1 .. Len(b), i # k
        PROVE  r.next[b[i]] = IF i = k - 1 THEN q.next[b[k]] ELSE q.next[b[i]]
    <3>1. b[i] \in Runnable /\ b[i] # p
      BY <1>2, <2>1, <2>8
    <3>2. CASE i = k - 1
      <4>1. k # 1
        BY <1>2, <3>2
      <4> QED
        BY <2>1, <2>6, <3>2, <4>1
    <3>3. CASE i # k - 1
      <4>1. k # 1 => k - 1 \in 1 .. Len(b)
        BY <1>2
      <4>2. k # 1 => b[i] # b[k - 1]
        BY <1>2, <3>3, <4>1
      <4> QED
        BY <2>6, <3>1, <3>3, <4>2
    <3> QED
      BY <3>2, <3>3
  <2>9. /\ Chained(r, t)
        /\ FirstOf(t) = IF k = 1 THEN q.next[b[1]] ELSE FirstOf(b)
    <3>1. Chained(q, b)
      BY DEF Linked
    <3>2. Chained(r, t)
      BY <1>1, <2>2, <2>8, <3>1, Unchain
    <3>3. FirstOf(t) = IF k = 1 THEN q.next[b[1]] ELSE FirstOf(b)
      BY <1>1, <2>2, <3>1, FirstOfWithout
    <3> QED
      BY <3>2, <3>3
  <2>10. Chained(r, a)
    <3> SUFFICES ASSUME NEW i \in 1 .. Len(a) PROVE r.next[a[i]] = q.next[a[i]]
      BY DEF Chained, Linked
    <3>1. a[i] \in Runnable /\ a[i] # p /\ (k # 1 => a[i] # b[k - 1])
      BY <1>1, <1>2, <1>6, <2>5
    <3> QED
      BY <2>6, <3>1
  <2>11. r.next[PushHead] = FirstOf(a)
    BY <2>5, <2>6, PointersDiffer DEF Linked
  <2>12. r.pop = FirstOf(t)
    <3>1. b # <<>> /\ q.pop = b[1] /\ 1 \in 1 .. Len(b)
      BY <1>1, <1>2, <2>1, SeqFacts DEF Linked, FirstOf
    <3>2. q.pop = p <=> k = 1
      BY <1>2, <2>1, <3>1
    <3> QED
      BY <1>4, <1>6, <2>1, <2>9, <3>1, <3>2 DEF FirstOf
  <2>13. t \in Seq(Runnable) /\ IsInjective(t) /\ ToSet(t) = ToSet(b) \ {p}
    BY <2>1, <2>2 DEF IsWithout
  <2>14. \A x \in Runnable : IsRunnable(r, x) <=> x \in ToSet(a) \cup ToSet(t)
    <3> SUFFICES ASSUME NEW x \in Runnable
                 PROVE  r.next[x] # NULL <=> x \in ToSet(a) \cup (ToSet(b) \ {p})
      BY <2>13 DEF IsRunnable
    <3>1. CASE x = p
      BY <1>1, <1>6, <2>6, <3>1
    <3>2. CASE x # p /\ k # 1 /\ x = b[k - 1]
      BY <1>1, <1>6, <2>5, <2>6, <3>2
    <3>3. CASE x # p /\ ~(k # 1 /\ x = b[k - 1])
      BY <2>6, <3>3 DEF Linked, IsRunnable
    <3> QED
      BY <3>1, <3>2, <3>3
  <2>15. r \in Lists
    <3>1. q.next[p] \in Runnable \cup {NULL, END} /\ q.next[p] # NULL
      BY <1>1, <1>6
    <3> QED
      BY <1>1, <1>4, <1>6, <2>7, <3>1 DEF Lists
  <2>16. Linked(r, a, t)
    BY <1>1, <2>7, <2>9, <2>10, <2>11, <2>12, <2>13, <2>14, <2>15 DEF Linked
  <2> QED
    BY <2>3, <2>16 DEF r, t
<1> QED
  BY <1>3, <1>5, <1>6 DEF r

-----------------------------------------------------------------------------
(* Following the links *)

\* A set of naturals has a least element: a least initial segment 0 .. m - 1, by
\* well-foundedness of the strict subset ordering of finite sets.
LEMMA Least ==
  ASSUME NEW T, T \subseteq Nat, T # {}
  PROVE  \E m \in T : \A n \in T : m <= n
<1> DEFINE Below(m) == 0 .. m - 1
           S == { Below(m) : m \in T }
<1>1. S \subseteq FiniteSubsetsOf(Nat)
  <2> SUFFICES ASSUME NEW m \in T PROVE Below(m) \in SUBSET Nat /\ IsFiniteSet(Below(m))
    BY DEF FiniteSubsetsOf
  <2> QED
    BY FS_Interval
<1>2. IsWellFoundedOn(StrictSubsetOrdering(Nat), FiniteSubsetsOf(Nat))
  BY FS_StrictSubsetOrderingWellFounded
<1>3. PICK x \in S : \A y \in S : ~ (<<y, x>> \in StrictSubsetOrdering(Nat))
  <2>1. S # {}
    OBVIOUS
  <2> HIDE DEF S
  <2>2. \A R, D, U : IsWellFoundedOn(R, D) /\ U \subseteq D /\ U # {}
                      => \E x \in U : \A y \in U : ~ (<<y, x>> \in R)
    BY WFMin, ZenonT(30)
  <2> QED
    BY <1>1, <1>2, <2>1, <2>2
<1>4. PICK m \in T : x = Below(m)
  BY <1>3
<1>5. ASSUME NEW n \in T, n < m PROVE FALSE
  <2>1. n \in Nat /\ m \in Nat
    OBVIOUS
  <2>2. Below(n) \subseteq Below(m) /\ n \notin Below(n) /\ n \in Below(m)
    BY <1>5, <2>1
  <2>3. <<Below(n), Below(m)>> \in StrictSubsetOrdering(Nat)
    BY <2>1, <2>2 DEF StrictSubsetOrdering
  <2> QED
    BY <1>3, <1>4, <2>3
<1> QED
  BY <1>5

\* Induction over a set of naturals.
LEMMA NatSetInduction ==
  ASSUME NEW T, 0 \in T, \A n \in Nat : n \in T => n + 1 \in T
  PROVE  Nat \subseteq T
<1> SUFFICES ASSUME Nat \ T # {} PROVE FALSE
  OBVIOUS
<1>1. PICK m \in Nat \ T : \A n \in Nat \ T : m <= n
  BY Least
<1>2. m - 1 \in Nat /\ m - 1 \in T
  BY <1>1
<1> QED
  BY <1>1, <1>2

\* No list is longer than there are processes.
LEMMA ListBound ==
  ASSUME NEW s \in Seq(Runnable), IsInjective(s)
  PROVE  Cardinality(Runnable) \in Nat /\ Len(s) <= Cardinality(Runnable)
<1>1. Cardinality(Runnable) \in Nat /\ Len(s) \in Nat /\ IsFiniteSet(Runnable)
  BY PointersDiffer, FS_CardinalityType, SeqFacts
<1>2. IsFiniteSet(1 .. Len(s)) /\ Cardinality(1 .. Len(s)) = Len(s)
  <2>1. PICK m \in Int : m = Len(s)
    BY <1>1
  <2>2. IsFiniteSet(1 .. m) /\ Cardinality(1 .. m) = IF 1 > m THEN 0 ELSE m - 1 + 1
    BY FS_Interval
  <2> QED
    BY <1>1, <2>1, <2>2
<1>3. s \in [1 .. Len(s) -> Runnable]
  BY LenProperties
<1>4. ~ \E i, k \in 1 .. Len(s) : i # k /\ s[i] = s[k]
  BY SeqFacts
<1>5. ~ (Cardinality(Runnable) < Cardinality(1 .. Len(s)))
  BY <1>1, <1>2, <1>3, <1>4, FS_PigeonHole
<1> QED
  BY <1>1, <1>2, <1>5

\* What one more step along the links adds to what has been read so far.
Read(q, x, sofar) ==
  LET at == IF sofar = <<>> THEN x ELSE q.next[Last(sofar)]
  IN  IF at \in Runnable THEN Append(sofar, at) ELSE sofar

\* The first n processes of s, or all of them.
Upto(s, n) == SubSeq(s, 1, IF n <= Len(s) THEN n ELSE Len(s))

\* One step of the walk along the links reads one element more.
LEMMA ReadStep ==
  ASSUME NEW q, NEW s \in Seq(Runnable), Chained(q, s), NEW n \in Nat
  PROVE  Read(q, FirstOf(s), Upto(s, n)) = Upto(s, n + 1)
<1>1. Len(s) \in Nat /\ (s = <<>> <=> Len(s) = 0) /\ \A i \in 1 .. Len(s) : s[i] \in Runnable
  BY SeqFacts
<1>2. ASSUME NEW m \in 0 .. Len(s)
      PROVE  /\ SubSeq(s, 1, m) \in Seq(Runnable) /\ Len(SubSeq(s, 1, m)) = m
             /\ \A i \in 1 .. m : SubSeq(s, 1, m)[i] = s[i]
  <2>1. \A i \in 1 .. m : s[i] \in Runnable
    BY <1>1
  <2>2. /\ SubSeq(s, 1, m) \in Seq(Runnable)
        /\ Len(SubSeq(s, 1, m)) = IF 1 <= m THEN m - 1 + 1 ELSE 0
        /\ \A i \in 1 .. m - 1 + 1 : SubSeq(s, 1, m)[i] = s[1 + i - 1]
    BY <1>1, <2>1, SubSeqProperties
  <2>3. Len(SubSeq(s, 1, m)) = m
    BY <1>1, <2>2
  <2>4. ASSUME NEW i \in 1 .. m PROVE SubSeq(s, 1, m)[i] = s[i]
    <3>1. i \in 1 .. m - 1 + 1 /\ 1 + i - 1 = i
      BY <1>1
    <3> QED
      BY <2>2, <3>1
  <2> QED
    BY <2>2, <2>3, <2>4
<1>3. CASE n < Len(s)
  <2>1. PICK t : t = SubSeq(s, 1, n)
    OBVIOUS
  <2>2. Upto(s, n) = t /\ Upto(s, n + 1) = SubSeq(s, 1, n + 1)
    <3>1. n <= Len(s) /\ n + 1 <= Len(s)
      BY <1>1, <1>3
    <3> QED
      BY <2>1, <3>1 DEF Upto
  <2>3. t \in Seq(Runnable) /\ Len(t) = n /\ (t = <<>> <=> n = 0) /\ \A i \in 1 .. n : t[i] = s[i]
    <3>1. n \in 0 .. Len(s)
      BY <1>1, <1>3
    <3>2. t \in Seq(Runnable) /\ Len(t) = n /\ \A i \in 1 .. n : t[i] = s[i]
      BY <1>2, <2>1, <3>1
    <3> QED
      BY <3>2, SeqFacts
  <2>4. n + 1 \in 1 .. Len(s) /\ s[n + 1] \in Runnable
    BY <1>1, <1>3
  <2>5. Read(q, FirstOf(s), t) = Append(t, s[n + 1])
    <3>1. CASE n = 0
      <4>1. s # <<>> /\ s[n + 1] = s[1]
        BY <1>1, <1>3, <3>1
      <4> QED
        BY <2>3, <2>4, <3>1, <4>1 DEF Read, FirstOf
    <3>2. CASE n # 0
      <4>1. n \in 1 .. n /\ n \in 1 .. Len(s) /\ n # Len(s)
        BY <1>1, <1>3, <3>2
      <4>2. t # <<>> /\ Last(t) = s[n]
        BY <2>3, <3>2, <4>1 DEF Last
      <4>3. q.next[s[n]] = s[n + 1]
        BY <4>1 DEF Chained
      <4> QED
        BY <2>4, <4>2, <4>3 DEF Read
    <3> QED
      BY <3>1, <3>2
  <2>6. Append(t, s[n + 1]) = SubSeq(s, 1, n + 1)
    <3>1. PICK u : u = Append(t, s[n + 1])
      OBVIOUS
    <3>2. PICK v : v = SubSeq(s, 1, n + 1)
      OBVIOUS
    <3>3. /\ u \in Seq(Runnable) /\ Len(u) = n + 1 /\ u[n + 1] = s[n + 1]
          /\ \A i \in 1 .. n : u[i] = s[i]
      BY <2>3, <2>4, <3>1, AppendProperties
    <3>4. n + 1 \in 0 .. Len(s)
      BY <2>4
    <3>5. v \in Seq(Runnable) /\ Len(v) = n + 1 /\ \A i \in 1 .. n + 1 : v[i] = s[i]
      BY <1>2, <3>2, <3>4
    <3>6. \A i \in 1 .. n + 1 : i \in 1 .. n \/ i = n + 1
      OBVIOUS
    <3>7. \A i \in 1 .. Len(u) : u[i] = v[i]
      BY <3>3, <3>5, <3>6
    <3>8. u = v
      BY <3>3, <3>5, <3>7, SeqEqual
    <3> QED
      BY <3>1, <3>2, <3>8
  <2> QED
    BY <2>2, <2>5, <2>6
<1>4. CASE ~(n < Len(s))
  <2>1. SubSeq(s, 1, Len(s)) = s
    BY SubSeqFull
  <2>2. Upto(s, n) = s /\ Upto(s, n + 1) = s
    <3>1. (n <= Len(s) => n = Len(s)) /\ ~(n + 1 <= Len(s))
      BY <1>1, <1>4
    <3> QED
      BY <2>1, <3>1 DEF Upto
  <2>3. Read(q, FirstOf(s), s) = s
    <3>1. CASE s = <<>>
      BY <3>1, PointersDiffer DEF Read, FirstOf
    <3>2. CASE s # <<>>
      <4>1. Len(s) \in 1 .. Len(s)
        BY <1>1, <3>2
      <4>2. q.next[Last(s)] = END
        BY <4>1 DEF Chained, Last
      <4> QED
        BY <3>2, <4>2, PointersDiffer DEF Read
    <3> QED
      BY <3>1, <3>2
  <2> QED
    BY <2>2, <2>3
<1> QED
  BY <1>3, <1>4

\* The walk reads the whole chain.
LEMMA ReadsChain ==
  ASSUME NEW q, NEW s \in Seq(Runnable), IsInjective(s), Chained(q, s)
  PROVE  ListFrom(q, FirstOf(s)) = s
<1>1. PICK N \in Nat : N = Cardinality(Runnable) /\ Len(s) <= N
  BY ListBound
<1>2. Len(s) \in Nat
  BY SeqFacts
<1> DEFINE Walk(g) == [n \in 0 .. N + 1 |-> IF n = 0 THEN <<>> ELSE Read(q, FirstOf(s), g[n - 1])]
           f == [n \in 0 .. N + 1 |-> Upto(s, n)]
<1>3. ListFrom(q, FirstOf(s)) = (CHOOSE g : g = Walk(g))[N + 1]
  BY <1>1 DEF ListFrom, Read
<1>4. Upto(s, 0) = <<>> /\ Upto(s, N + 1) = s
  <2>1. 0 <= Len(s) /\ ~(N + 1 <= Len(s))
    BY <1>1, <1>2
  <2>2. SubSeq(s, 1, 0) = <<>> /\ SubSeq(s, 1, Len(s)) = s
    BY SubSeqEmpty, SubSeqFull
  <2> QED
    BY <2>1, <2>2 DEF Upto
<1>5. f = Walk(f)
  <2> SUFFICES ASSUME NEW n \in 0 .. N + 1
               PROVE  Upto(s, n) = IF n = 0 THEN <<>> ELSE Read(q, FirstOf(s), f[n - 1])
    OBVIOUS
  <2>1. CASE n = 0
    BY <1>4, <2>1
  <2>2. CASE n # 0
    <3>1. n - 1 \in Nat /\ n - 1 \in 0 .. N + 1 /\ (n - 1) + 1 = n
      BY <1>1, <2>2
    <3>2. f[n - 1] = Upto(s, n - 1)
      BY <3>1
    <3>3. Read(q, FirstOf(s), Upto(s, n - 1)) = Upto(s, (n - 1) + 1)
      BY <3>1, ReadStep
    <3> QED
      BY <2>2, <3>1, <3>2, <3>3
  <2> QED
    BY <2>1, <2>2
<1>6. ASSUME NEW g, g = Walk(g)
      PROVE  g[N + 1] = s
  <2> DEFINE T == { n \in Nat : n <= N + 1 => g[n] = Upto(s, n) }
  <2>1. 0 \in T
    <3>1. g[0] = <<>>
      BY <1>1, <1>6
    <3> QED
      BY <1>4, <3>1
  <2>2. ASSUME NEW n \in Nat, n \in T PROVE n + 1 \in T
    <3> SUFFICES ASSUME n + 1 <= N + 1 PROVE g[n + 1] = Upto(s, n + 1)
      OBVIOUS
    <3>1. n + 1 \in 0 .. N + 1 /\ n + 1 # 0 /\ (n + 1) - 1 = n /\ n <= N + 1
      BY <1>1
    <3>2. g[n + 1] = Read(q, FirstOf(s), g[n])
      BY <1>6, <3>1
    <3> QED
      BY <2>2, <3>1, <3>2, ReadStep
  <2> HIDE DEF T
  <2>3. Nat \subseteq T
    BY <2>1, <2>2, NatSetInduction
  <2>4. N + 1 \in T
    BY <1>1, <2>3
  <2> QED
    BY <1>1, <1>4, <2>4 DEF T
<1>7. PICK w : w = CHOOSE g : g = Walk(g)
  OBVIOUS
<1> HIDE DEF Walk, f
<1>8. w = Walk(w)
  BY <1>5, <1>7
<1> QED
  BY <1>3, <1>6, <1>7, <1>8

\* Following the links reads out the two lists.
LEMMA ReadsOut ==
  ASSUME NEW q, NEW a, NEW b, Linked(q, a, b)
  PROVE  PushList(q) = a /\ PopList(q) = b
BY ReadsChain DEF Linked, PushList, PopList

\* A process put before a sequence, and taken from it.
LEMMA HeadTailCons ==
  ASSUME NEW s \in Seq(Runnable), NEW p \in Runnable
  PROVE  <<p>> \o s # <<>> /\ Head(<<p>> \o s) = p /\ Tail(<<p>> \o s) = s
<1>1. PICK c : c = <<p>> \o s
  OBVIOUS
<1>2. c \in Seq(Runnable) /\ c # <<>> /\ Len(c) = Len(s) + 1
  BY <1>1, ConsFacts
<1>3. c[1] = p
  BY <1>1, ConsFacts
<1>4. \A i \in 1 .. Len(s) : c[i + 1] = s[i]
  BY <1>1, ConsFacts
<1>5. PICK t : t = Tail(c)
  OBVIOUS
<1>6. t \in Seq(Runnable) /\ Len(t) = Len(c) - 1
  BY <1>2, <1>5, TailFacts
<1>7. \A i \in 1 .. Len(t) : t[i] = c[i + 1]
  BY <1>2, <1>5, TailFacts
<1>8. Head(c) = c[1]
  BY <1>2, TailFacts
<1>9. Len(t) = Len(s)
  BY <1>2, <1>6, SeqFacts
<1>10. t = s
  BY <1>4, <1>6, <1>7, <1>9, SeqEqual
<1> QED
  BY <1>1, <1>2, <1>3, <1>5, <1>8, <1>10

\* What toggle appends: two lists without a common element.
LEMMA ConcatFacts ==
  ASSUME NEW a \in Seq(Runnable), NEW b \in Seq(Runnable),
         IsInjective(a), IsInjective(b), ToSet(a) \cap ToSet(b) = {}
  PROVE  IsInjective(a \o b) /\ ToSet(a \o b) = ToSet(a) \cup ToSet(b)
<1>1. PICK c : c = a \o b
  OBVIOUS
<1>2. /\ c \in Seq(Runnable) /\ Len(c) = Len(a) + Len(b)
      /\ \A i \in 1 .. Len(a) + Len(b) : c[i] = IF i <= Len(a) THEN a[i] ELSE b[i - Len(a)]
  BY <1>1, ConcatProperties
<1>3. /\ Len(a) \in Nat /\ Len(b) \in Nat
      /\ \A p : p \in ToSet(a) <=> \E i \in 1 .. Len(a) : a[i] = p
      /\ \A p : p \in ToSet(b) <=> \E i \in 1 .. Len(b) : b[i] = p
      /\ \A i, k \in 1 .. Len(a) : a[i] = a[k] => i = k
      /\ \A i, k \in 1 .. Len(b) : b[i] = b[k] => i = k
  BY SeqFacts
<1>4. \A p : p \in ToSet(c) <=> \E i \in 1 .. Len(c) : c[i] = p
  BY <1>2, SeqFacts
<1>5. ASSUME NEW i \in 1 .. Len(c)
      PROVE  \/ i \in 1 .. Len(a) /\ c[i] = a[i] /\ c[i] \in ToSet(a)
             \/ ~(i <= Len(a)) /\ i - Len(a) \in 1 .. Len(b) /\ c[i] = b[i - Len(a)] /\ c[i] \in ToSet(b)
  <2>1. CASE i <= Len(a)
    BY <1>2, <1>3, <2>1
  <2>2. CASE ~(i <= Len(a))
    <3>1. i - Len(a) \in 1 .. Len(b)
      BY <1>2, <1>3, <2>2
    <3> QED
      BY <1>2, <1>3, <2>2, <3>1
  <2> QED
    BY <2>1, <2>2
<1>6. IsInjective(c)
  <2> SUFFICES ASSUME NEW i \in 1 .. Len(c), NEW k \in 1 .. Len(c), c[i] = c[k] PROVE i = k
    BY <1>2, SeqFacts
  <2>1. i \in Int /\ k \in Int
    OBVIOUS
  <2>2. CASE i \in 1 .. Len(a) /\ c[i] = a[i] /\ c[i] \in ToSet(a)
    <3>1. k \in 1 .. Len(a) /\ c[k] = a[k]
      BY <1>5, <2>2
    <3> QED
      BY <1>3, <2>2, <3>1
  <2>3. CASE i - Len(a) \in 1 .. Len(b) /\ c[i] = b[i - Len(a)] /\ c[i] \in ToSet(b)
    <3>1. k - Len(a) \in 1 .. Len(b) /\ c[k] = b[k - Len(a)]
      BY <1>5, <2>3
    <3>2. i - Len(a) = k - Len(a)
      BY <1>3, <2>3, <3>1
    <3> QED
      BY <1>3, <2>1, <3>2
  <2> QED
    BY <1>5, <2>2, <2>3
<1>7. ToSet(c) = ToSet(a) \cup ToSet(b)
  <2>1. ASSUME NEW p \in ToSet(c) PROVE p \in ToSet(a) \cup ToSet(b)
    BY <1>4, <1>5
  <2>2. ASSUME NEW p \in ToSet(a) PROVE p \in ToSet(c)
    <3>1. PICK i \in 1 .. Len(a) : a[i] = p
      BY <1>3
    <3>2. i \in 1 .. Len(c) /\ i \in 1 .. Len(a) + Len(b) /\ i <= Len(a)
      BY <1>2, <1>3
    <3> QED
      BY <1>2, <1>4, <3>1, <3>2
  <2>3. ASSUME NEW p \in ToSet(b) PROVE p \in ToSet(c)
    <3>1. PICK i \in 1 .. Len(b) : b[i] = p
      BY <1>3
    <3>2. PICK k \in Nat : k = Len(a) + i
      BY <1>3
    <3>3. k \in 1 .. Len(c) /\ k \in 1 .. Len(a) + Len(b) /\ ~(k <= Len(a)) /\ k - Len(a) = i
      BY <1>2, <1>3, <3>2
    <3> QED
      BY <1>2, <1>4, <3>1, <3>3
  <2> QED
    BY <2>1, <2>2, <2>3
<1> QED
  BY <1>1, <1>6, <1>7

\* Lists so linked are what the runs check of them.
LEMMA LinkedIsWell ==
  ASSUME NEW q, NEW a, NEW b, Linked(q, a, b)
  PROVE  WellLinked(q)
<1>1. PushList(q) = a /\ PopList(q) = b
  BY ReadsOut
<1>2. IsInjective(a \o b) /\ ToSet(a \o b) = ToSet(a) \cup ToSet(b)
  BY ConcatFacts DEF Linked
<1> QED
  BY <1>1, <1>2 DEF WellLinked, Linked

\* The lists the kernel starts with.
LEMMA EmptyLinks == Linked(EmptyLists, <<>>, <<>>)
<1>1. /\ <<>> \in Seq(Runnable) /\ ToSet(<<>>) = {} /\ IsInjective(<<>>) /\ Len(<<>>) = 0
  BY DEF ToSet, IsInjective
<1>2. EmptyLists \in Lists
  BY DEF EmptyLists, Lists
<1> QED
  BY <1>1, <1>2, PointersDiffer DEF Linked, Chained, FirstOf, IsRunnable, EmptyLists

-----------------------------------------------------------------------------
(* The dispatcher *)

\* The inductive invariant: the two lists are what the links read out, the running
\* thread is on neither, and when nobody runs the round is over.
DInv ==
  /\ active \in Runnable \cup {Nobody}
  /\ Linked(threads, PushList(threads), PopList(threads))
  /\ active \notin ToSet(PushList(threads)) \cup ToSet(PopList(threads))
  /\ active = Nobody => PopList(threads) = <<>>

-----------------------------------------------------------------------------
\* Pop, or the end of the round.
LEMMA PopRunnableLinks ==
  ASSUME NEW q, NEW a, NEW b, Linked(q, a, b), PopRunnable(q)
  PROVE  \/ b = <<>> /\ Linked(threads', a, <<>>) /\ active' = Nobody
         \/ b # <<>> /\ Linked(threads', a, Tail(b)) /\ active' = Head(b)
<1>1. q.pop = END <=> b = <<>>
  BY ToggleLinks
<1>2. CASE b = <<>>
  BY <1>1, <1>2 DEF PopRunnable
<1>3. CASE b # <<>>
  <2>1. threads' = Pop(q) /\ active' = q.pop
    BY <1>1, <1>3 DEF PopRunnable
  <2>2. Linked(Pop(q), a, Tail(b)) /\ q.pop = Head(b)
    BY <1>3, PopLinks
  <2> QED
    BY <1>3, <2>1, <2>2
<1> QED
  BY <1>2, <1>3

\* A thread popped is on neither list any more.
LEMMA PoppedOff ==
  ASSUME NEW q, NEW a, NEW b, Linked(q, a, b), b # <<>>
  PROVE  /\ Head(b) \in Runnable /\ Head(b) # Nobody
         /\ Head(b) \notin ToSet(a) \cup ToSet(Tail(b))
<1>1. b \in Seq(Runnable) /\ IsInjective(b) /\ ToSet(a) \cap ToSet(b) = {}
  BY DEF Linked
<1>2. Head(b) = b[1] /\ b[1] \in Runnable
  BY <1>1, TailFacts
<1>3. ToSet(b) = {b[1]} \cup ToSet(Tail(b))
  BY <1>1, TailFacts
<1>4. b[1] \notin ToSet(Tail(b))
  BY <1>1, TailFacts
<1> QED
  BY <1>1, <1>2, <1>3, <1>4, NobodyAssumption

\* The lists are empty at first.
LEMMA DInvInit == DispatchInit => DInv
<1> SUFFICES ASSUME DispatchInit PROVE DInv
  OBVIOUS
<1>1. Linked(threads, <<>>, <<>>)
  BY EmptyLinks DEF DispatchInit
<1>2. PushList(threads) = <<>> /\ PopList(threads) = <<>>
  BY <1>1, ReadsOut
<1>3. ToSet(<<>>) = {}
  BY DEF ToSet
<1> QED
  BY <1>1, <1>2, <1>3 DEF DInv, DispatchInit

\* What each step makes of the lists: the round b and the list a of the next.
Moves(a, b) ==
  \/ \E p \in Runnable \ (ToSet(a) \cup ToSet(b) \cup {active}) :
       /\ Linked(threads', Append(a, p), b) \/ Linked(threads', <<p>> \o a, b)
       /\ active' = active
  \/ \E p \in Runnable \ {active} :
       /\ Linked(threads', RemoveFirst(a, p), RemoveFirst(b, p))
       /\ active' = active
  \/ \E p \in Runnable :
       /\ active \in Runnable \ {p}
       /\ Linked(threads', RemoveFirst(a, p), <<active>> \o RemoveFirst(b, p))
       /\ active' = p
  \/ /\ active # Nobody
     /\ \/ b = <<>> /\ Linked(threads', a, <<>>) /\ active' = Nobody
        \/ b # <<>> /\ Linked(threads', a, Tail(b)) /\ active' = Head(b)
  \/ /\ active = Nobody
     /\ \/ a = <<>> /\ Linked(threads', <<>>, <<>>) /\ active' = Nobody
        \/ a # <<>> /\ Linked(threads', <<>>, Tail(a)) /\ active' = Head(a)
  \/ Linked(threads', a, b) /\ active' = active

\* Every step moves the two chains in one of a few ways.
LEMMA StepMoves ==
  ASSUME DInv, [DispatchNext]_dispatchVars
  PROVE  Moves(PushList(threads), PopList(threads))
<1> SUFFICES ASSUME NEW a, NEW b, a = PushList(threads), b = PopList(threads)
             PROVE  Moves(a, b)
  OBVIOUS
<1>1. /\ Linked(threads, a, b) /\ active \in Runnable \cup {Nobody}
      /\ active \notin ToSet(a) \cup ToSet(b)
      /\ active = Nobody => b = <<>>
  BY DEF DInv
<1>2. \A p \in Runnable : ~IsRunnable(threads, p) <=> p \notin ToSet(a) \cup ToSet(b)
  BY <1>1 DEF Linked
<1>3. ASSUME NEW p \in Runnable, Trigger(p) PROVE Moves(a, b)
  <2>1. Linked(threads', Append(a, p), b)
    BY <1>1, <1>3, PushBackLinks DEF Trigger
  <2> QED
    BY <1>2, <1>3, <2>1 DEF Trigger, Moves
<1>4. ASSUME NEW p \in Runnable, PushToFront(p) PROVE Moves(a, b)
  <2>1. Linked(threads', <<p>> \o a, b)
    BY <1>1, <1>4, PushFrontLinks DEF PushToFront
  <2> QED
    BY <1>2, <1>4, <2>1 DEF PushToFront, Moves
<1>5. ASSUME NEW p \in Runnable, TakeOff(p) PROVE Moves(a, b)
  <2>1. Linked(threads', RemoveFirst(a, p), RemoveFirst(b, p))
    BY <1>1, <1>5, TakeOutLinks DEF TakeOff
  <2> QED
    BY <1>5, <2>1 DEF TakeOff, Moves
<1>6. ASSUME NEW p \in Runnable, PreemptWith(p) PROVE Moves(a, b)
  <2>1. PICK c, d : c = RemoveFirst(a, p) /\ d = RemoveFirst(b, p)
    OBVIOUS
  <2>2. active \in Runnable \ {p}
    BY <1>6 DEF PreemptWith
  <2>3. PICK q : q = TakeOut(threads, p)
    OBVIOUS
  <2>4. Linked(q, c, d)
    BY <1>1, <2>1, <2>3, TakeOutLinks
  <2>5. ToSet(c) \subseteq ToSet(a) \ {p} /\ ToSet(d) \subseteq ToSet(b) \ {p}
    BY <1>1, <2>1, RemovedOff DEF Linked
  <2>6. ~IsRunnable(q, active)
    BY <1>1, <2>2, <2>4, <2>5 DEF Linked
  <2>7. PICK e : e = ExecuteNext(q, active)
    OBVIOUS
  <2>8. Linked(e, c, <<active>> \o d)
    BY <2>2, <2>4, <2>6, <2>7, ExecuteNextLinks
  <2>9. PICK f : f = <<active>> \o d
    OBVIOUS
  <2>10. ToSet(f) = {active} \cup ToSet(d)
    BY <2>2, <2>4, <2>9, ConsFacts DEF Linked
  <2>11. ~IsRunnable(e, p)
    BY <2>2, <2>5, <2>8, <2>9, <2>10 DEF Linked
  <2>12. Linked(ExecuteNext(e, p), c, <<p>> \o f)
    BY <2>8, <2>9, <2>11, ExecuteNextLinks
  <2>13. <<p>> \o f # <<>> /\ Head(<<p>> \o f) = p /\ Tail(<<p>> \o f) = f
    <3>1. f \in Seq(Runnable)
      BY <2>8, <2>9 DEF Linked
    <3> QED
      BY <3>1, HeadTailCons
  <2>14. PopRunnable(ExecuteNext(e, p))
    BY <1>6, <2>3, <2>7 DEF PreemptWith
  <2>15. Linked(threads', c, f) /\ active' = p
    BY <2>12, <2>13, <2>14, PopRunnableLinks
  <2> QED
    BY <2>1, <2>2, <2>9, <2>15 DEF Moves
<1>7. ASSUME SuspendMe PROVE Moves(a, b)
  <2>1. \/ b = <<>> /\ Linked(threads', a, <<>>) /\ active' = Nobody
        \/ b # <<>> /\ Linked(threads', a, Tail(b)) /\ active' = Head(b)
    BY <1>1, <1>7, PopRunnableLinks DEF SuspendMe
  <2> QED
    BY <1>7, <2>1 DEF SuspendMe, Moves
<1>8. ASSUME Dispatch PROVE Moves(a, b)
  <2>1. Linked(Toggle(threads), <<>>, a)
    BY <1>1, <1>8, ToggleLinks DEF Dispatch
  <2>2. \/ a = <<>> /\ Linked(threads', <<>>, <<>>) /\ active' = Nobody
        \/ a # <<>> /\ Linked(threads', <<>>, Tail(a)) /\ active' = Head(a)
    BY <1>8, <2>1, PopRunnableLinks DEF Dispatch
  <2> QED
    BY <1>8, <2>2 DEF Dispatch, Moves
<1>9. ASSUME PreemptSelf PROVE Moves(a, b)
  <2>1. active \in Runnable /\ ~IsRunnable(threads, active)
    BY <1>1, <1>2, <1>9 DEF PreemptSelf
  <2>2. Linked(ExecuteNext(threads, active), a, <<active>> \o b)
    BY <1>1, <2>1, ExecuteNextLinks
  <2>3. <<active>> \o b # <<>> /\ Head(<<active>> \o b) = active /\ Tail(<<active>> \o b) = b
    BY <1>1, <2>1, HeadTailCons DEF Linked
  <2>4. Linked(threads', a, b) /\ active' = active
    BY <1>9, <2>2, <2>3, PopRunnableLinks DEF PreemptSelf
  <2> QED
    BY <2>4 DEF Moves
<1>10. CASE UNCHANGED dispatchVars
  BY <1>1, <1>10 DEF dispatchVars, Moves
<1> QED
  BY <1>3, <1>4, <1>5, <1>6, <1>7, <1>8, <1>9, <1>10 DEF DispatchNext

\* The lists after a step are what the links read out then.
LEMMA ReadNext ==
  ASSUME NEW a, NEW b, Linked(threads', a, b)
  PROVE  PushList(threads)' = a /\ PopList(threads)' = b
BY ReadsOut

\* What has to be shown of a new state.
LEMMA Keeps ==
  ASSUME NEW a, NEW b, Linked(threads', a, b), active' \in Runnable \cup {Nobody},
         active' \notin ToSet(a) \cup ToSet(b), active' = Nobody => b = <<>>
  PROVE  DInv'
BY ReadNext DEF DInv

\* The invariant is inductive.
LEMMA DInvNext == DInv /\ [DispatchNext]_dispatchVars => DInv'
<1> SUFFICES ASSUME DInv, [DispatchNext]_dispatchVars PROVE DInv'
  OBVIOUS
<1>1. PICK a, b : a = PushList(threads) /\ b = PopList(threads)
  OBVIOUS
<1>2. /\ Linked(threads, a, b) /\ active \in Runnable \cup {Nobody}
      /\ active \notin ToSet(a) \cup ToSet(b)
      /\ active = Nobody => b = <<>>
  BY <1>1 DEF DInv
<1>3. /\ a \in Seq(Runnable) /\ b \in Seq(Runnable) /\ IsInjective(a) /\ IsInjective(b)
      /\ ToSet(a) \cap ToSet(b) = {}
  BY <1>2 DEF Linked
<1>4. Moves(a, b)
  BY <1>1, StepMoves
<1>5. ToSet(<<>>) = {}
  BY DEF ToSet
<1>6. ASSUME NEW p \in Runnable \ (ToSet(a) \cup ToSet(b) \cup {active}), active' = active,
             Linked(threads', Append(a, p), b) \/ Linked(threads', <<p>> \o a, b)
      PROVE  DInv'
  <2>1. ToSet(Append(a, p)) = ToSet(a) \cup {p}
    BY <1>3, <1>6, AppendFacts
  <2>2. ToSet(<<p>> \o a) = {p} \cup ToSet(a)
    BY <1>3, <1>6, ConsFacts
  <2>3. CASE Linked(threads', Append(a, p), b)
    BY <1>2, <1>6, <2>1, <2>3, Keeps
  <2>4. CASE Linked(threads', <<p>> \o a, b)
    BY <1>2, <1>6, <2>2, <2>4, Keeps
  <2> QED
    BY <1>6, <2>3, <2>4
<1>7. ASSUME NEW p \in Runnable \ {active}, active' = active,
             Linked(threads', RemoveFirst(a, p), RemoveFirst(b, p))
      PROVE  DInv'
  <2>1. ToSet(RemoveFirst(a, p)) \subseteq ToSet(a) /\ ToSet(RemoveFirst(b, p)) \subseteq ToSet(b)
    BY <1>3, RemovedOff
  <2>2. b = <<>> => RemoveFirst(b, p) = <<>>
    BY <1>3, <1>5, RemoveFirstFacts
  <2> QED
    BY <1>2, <1>7, <2>1, <2>2, Keeps
<1>8. ASSUME NEW p \in Runnable, active \in Runnable \ {p}, active' = p,
             Linked(threads', RemoveFirst(a, p), <<active>> \o RemoveFirst(b, p))
      PROVE  DInv'
  <2>1. PICK d : d = RemoveFirst(b, p)
    OBVIOUS
  <2>2. p \notin ToSet(RemoveFirst(a, p)) /\ p \notin ToSet(d) /\ d \in Seq(Runnable)
    BY <1>3, <2>1, RemovedOff
  <2>3. ToSet(<<active>> \o d) = {active} \cup ToSet(d)
    BY <1>8, <2>2, ConsFacts
  <2> QED
    BY <1>8, <2>1, <2>2, <2>3, NobodyAssumption, Keeps
<1>9. ASSUME \/ b = <<>> /\ Linked(threads', a, <<>>) /\ active' = Nobody
             \/ b # <<>> /\ Linked(threads', a, Tail(b)) /\ active' = Head(b)
      PROVE  DInv'
  <2>1. Nobody \notin ToSet(a)
    BY <1>3, NobodyAssumption, SeqFacts
  <2>2. b # <<>> => /\ Head(b) \in Runnable /\ Head(b) # Nobody
                    /\ Head(b) \notin ToSet(a) \cup ToSet(Tail(b))
    BY <1>2, PoppedOff
  <2>3. CASE b = <<>>
    BY <1>5, <1>9, <2>1, <2>3, Keeps
  <2>4. CASE b # <<>>
    BY <1>9, <2>2, <2>4, Keeps
  <2> QED
    BY <2>3, <2>4
<1>10. ASSUME active = Nobody,
              \/ a = <<>> /\ Linked(threads', <<>>, <<>>) /\ active' = Nobody
              \/ a # <<>> /\ Linked(threads', <<>>, Tail(a)) /\ active' = Head(a)
       PROVE  DInv'
  <2>1. a # <<>> => Linked(Toggle(threads), <<>>, a)
    BY <1>2, <1>10, ToggleLinks
  <2>2. a # <<>> => /\ Head(a) \in Runnable /\ Head(a) # Nobody
                    /\ Head(a) \notin ToSet(<<>>) \cup ToSet(Tail(a))
    BY <2>1, PoppedOff
  <2>3. CASE a = <<>>
    BY <1>5, <1>10, <2>3, Keeps
  <2>4. CASE a # <<>>
    BY <1>5, <1>10, <2>2, <2>4, Keeps
  <2> QED
    BY <2>3, <2>4
<1>11. ASSUME Linked(threads', a, b), active' = active
       PROVE  DInv'
  BY <1>2, <1>11, Keeps
<1> QED
  BY <1>4, <1>6, <1>7, <1>8, <1>9, <1>10, <1>11 DEF Moves

-----------------------------------------------------------------------------
(* Theorems *)

\* The inductive invariant holds in every reachable state.
THEOREM DispatchInvariant == DispatchSpec => []DInv
BY DInvInit, DInvNext, PTL DEF DispatchSpec

\* Type correctness of the run lists and of the running thread.
THEOREM DispatchTypeCorrect == DispatchSpec => []DispatchTypeOK
<1>1. DInv => DispatchTypeOK
  BY DEF DInv, DispatchTypeOK, Linked
<1> QED
  BY <1>1, DispatchInvariant, PTL

\* However many threads there are and whatever they do, none is on the lists twice or
\* on them while it runs, and its link tells whether it is (QueuedOnce).
THEOREM DispatchQueuedOnce == DispatchSpec => []QueuedOnce
<1>1. DInv => QueuedOnce
  <2> SUFFICES ASSUME DInv PROVE QueuedOnce
    OBVIOUS
  <2>1. WellLinked(threads)
    BY LinkedIsWell DEF DInv
  <2>2. active # Nobody => ~IsRunnable(threads, active)
    BY DEF DInv, Linked
  <2> QED
    BY <2>1, <2>2 DEF QueuedOnce
<1> QED
  BY <1>1, DispatchInvariant, PTL

\* The initial state is that of RunOrder.
LEMMA OrderInit == DispatchInit => Order!Init
<1> SUFFICES ASSUME DispatchInit PROVE Order!Init
  OBVIOUS
<1>1. PushList(threads) = <<>> /\ PopList(threads) = <<>>
  BY EmptyLinks, ReadsOut DEF DispatchInit
<1> QED
  BY <1>1 DEF DispatchInit, Order!Init

\* RunOrder's sequence operators are the same ones.
LEMMA SameOperators ==
  /\ \A s, p : Order!RemoveFirst(s, p) = RemoveFirst(s, p)
  /\ \A s : Order!ToSet(s) = ToSet(s)
<1>1. \A s, p : Order!RemoveFirst(s, p) = RemoveFirst(s, p)
  BY DEF RemoveFirst, RemoveAt, SelectInSeq, Min,
         Order!RemoveFirst, Order!RemoveAt, Order!SelectInSeq, Order!Min
<1>2. \A s : Order!ToSet(s) = ToSet(s)
  BY DEF ToSet, Order!ToSet
<1> QED
  BY <1>1, <1>2

\* A step on the lists is a step of RunOrder, or none.
LEMMA OrderNext ==
  DInv /\ [DispatchNext]_dispatchVars => [Order!Next]_<<PopList(threads), PushList(threads), active>>
<1> SUFFICES ASSUME DInv, [DispatchNext]_dispatchVars
             PROVE  [Order!Next]_<<PopList(threads), PushList(threads), active>>
  OBVIOUS
<1> DEFINE a == PushList(threads)
           b == PopList(threads)
<1>1. active \in Runnable \cup {Nobody}
  BY DEF DInv
<1>2. Moves(a, b)
  BY StepMoves
<1>3. ASSUME NEW p \in Runnable \ (ToSet(a) \cup ToSet(b) \cup {active}), active' = active,
             Linked(threads', Append(a, p), b) \/ Linked(threads', <<p>> \o a, b)
      PROVE  Order!Next
  <2>1. (a' = Append(a, p) \/ a' = <<p>> \o a) /\ b' = b
    BY <1>3, ReadNext
  <2>2. Order!Become(p)
    BY <1>3, <2>1, SameOperators DEF Order!Become, Order!Waiting
  <2> QED
    BY <2>2 DEF Order!Next
<1>4. ASSUME NEW p \in Runnable \ {active}, active' = active,
             Linked(threads', RemoveFirst(a, p), RemoveFirst(b, p))
      PROVE  Order!Next
  <2>1. a' = RemoveFirst(a, p) /\ b' = RemoveFirst(b, p)
    BY <1>4, ReadNext
  <2>2. Order!Cancel(p)
    BY <1>4, <2>1, SameOperators DEF Order!Cancel
  <2> QED
    BY <2>2 DEF Order!Next
<1>5. ASSUME NEW p \in Runnable, active \in Runnable \ {p}, active' = p,
             Linked(threads', RemoveFirst(a, p), <<active>> \o RemoveFirst(b, p))
      PROVE  Order!Next
  <2>1. a' = RemoveFirst(a, p) /\ b' = <<active>> \o RemoveFirst(b, p)
    BY <1>5, ReadNext
  <2>2. Order!Preempt(p)
    BY <1>5, <2>1, SameOperators DEF Order!Preempt
  <2> QED
    BY <2>2 DEF Order!Next
<1>6. ASSUME active # Nobody,
             \/ b = <<>> /\ Linked(threads', a, <<>>) /\ active' = Nobody
             \/ b # <<>> /\ Linked(threads', a, Tail(b)) /\ active' = Head(b)
      PROVE  Order!Next
  <2>1. /\ a' = a
        /\ b' = (IF b = <<>> THEN <<>> ELSE Tail(b))
        /\ active' = (IF b = <<>> THEN Nobody ELSE Head(b))
    BY <1>6, ReadNext
  <2>2. Order!Yield
    BY <1>6, <2>1 DEF Order!Yield, Order!RunFirst
  <2> QED
    BY <2>2 DEF Order!Next
<1>7. ASSUME active = Nobody,
             \/ a = <<>> /\ Linked(threads', <<>>, <<>>) /\ active' = Nobody
             \/ a # <<>> /\ Linked(threads', <<>>, Tail(a)) /\ active' = Head(a)
      PROVE  Order!Next
  <2>1. /\ a' = <<>>
        /\ b' = (IF a = <<>> THEN <<>> ELSE Tail(a))
        /\ active' = (IF a = <<>> THEN Nobody ELSE Head(a))
    BY <1>7, ReadNext
  <2>2. Order!NextRound
    BY <1>7, <2>1 DEF Order!NextRound, Order!RunFirst
  <2> QED
    BY <2>2 DEF Order!Next
<1>8. ASSUME Linked(threads', a, b), active' = active
      PROVE  UNCHANGED <<b, a, active>>
  BY <1>8, ReadNext
<1> QED
  BY <1>2, <1>3, <1>4, <1>5, <1>6, <1>7, <1>8 DEF Moves

\* The linked lists, for any number of threads, implement the order of RunOrder: nobody
\* is lost, overtaken or run twice.
THEOREM DispatchRunsInOrder == DispatchSpec => RunsInOrder
<1>1. DispatchSpec => Order!Init
  BY OrderInit DEF DispatchSpec
<1> QED
  BY <1>1, OrderNext, DispatchInvariant, PTL DEF DispatchSpec, RunsInOrder, Order!Spec
-----------------------------------------------------------------------------
(* The run lists, as sets of processes *)

Sound(q) == Linked(q, PushList(q), PopList(q))

OnList(q) == { p \in Runnable : IsRunnable(q, p) }

\* Two chains are the lists read out, and have the processes that are runnable.
LEMMA ChainsAreTheLists ==
  ASSUME NEW q, NEW a, NEW b, Linked(q, a, b)
  PROVE  /\ Sound(q) /\ OnList(q) = ToSet(a) \cup ToSet(b)
         /\ ToSet(a) \cup ToSet(b) \subseteq Runnable
<1>1. PushList(q) = a /\ PopList(q) = b
  BY ReadsOut
<1>2. \A s \in Seq(Runnable) : ToSet(s) \subseteq Runnable
  BY SeqFacts
<1>3. a \in Seq(Runnable) /\ b \in Seq(Runnable)
  BY DEF Linked
<1> QED
  BY <1>1, <1>2, <1>3 DEF Sound, OnList, Linked

\* IsEmpty looks at two pointers, and means that no process is on the lists.
LEMMA EmptyMeansNone ==
  ASSUME NEW q, Sound(q)
  PROVE  q \in Lists /\ (IsEmpty(q) <=> OnList(q) = {})
<1>1. PICK a, b : Linked(q, a, b)
  BY DEF Sound
<1>2. \A s \in Seq(Runnable) : (FirstOf(s) = END <=> s = <<>>) /\ (s = <<>> <=> ToSet(s) = {})
  <2> SUFFICES ASSUME NEW s \in Seq(Runnable)
               PROVE  (FirstOf(s) = END <=> s = <<>>) /\ (s = <<>> <=> ToSet(s) = {})
    OBVIOUS
  <2>1. s = <<>> => ToSet(s) = {}
    BY DEF ToSet
  <2>2. s # <<>> => s[1] \in Runnable /\ s[1] \in ToSet(s)
    <3>1. s # <<>> => 1 \in 1 .. Len(s)
      BY SeqFacts
    <3> QED
      BY <3>1, SeqFacts
  <2> QED
    BY <2>1, <2>2, PointersDiffer DEF FirstOf
<1>3. OnList(q) = ToSet(a) \cup ToSet(b)
  BY <1>1, ChainsAreTheLists
<1> QED
  BY <1>1, <1>2, <1>3 DEF IsEmpty, Linked

\* Empty lists hold nobody.
LEMMA NoneAtFirst == Sound(EmptyLists) /\ OnList(EmptyLists) = {}
<1>1. ToSet(<<>>) = {}
  BY DEF ToSet
<1> QED
  BY <1>1, EmptyLinks, ChainsAreTheLists

\* trigger_static adds the process, once.
LEMMA TriggerAdds ==
  ASSUME NEW q, Sound(q), NEW p \in Runnable
  PROVE  Sound(TriggerStatic(q, p)) /\ OnList(TriggerStatic(q, p)) = OnList(q) \cup {p}
<1>1. CASE IsRunnable(q, p)
  BY <1>1 DEF TriggerStatic, OnList
<1>2. CASE ~IsRunnable(q, p)
  <2>1. PICK a, b : Linked(q, a, b)
    BY DEF Sound
  <2>2. Linked(PushBack(q, p), Append(a, p), b)
    BY <1>2, <2>1, PushBackLinks
  <2>3. ToSet(Append(a, p)) = ToSet(a) \cup {p}
    BY <2>1, AppendFacts DEF Linked
  <2>4. OnList(PushBack(q, p)) = ToSet(Append(a, p)) \cup ToSet(b) /\ Sound(PushBack(q, p))
    BY <2>2, ChainsAreTheLists
  <2>5. OnList(q) = ToSet(a) \cup ToSet(b)
    BY <2>1, ChainsAreTheLists
  <2> QED
    BY <1>2, <2>3, <2>4, <2>5 DEF TriggerStatic
<1> QED
  BY <1>1, <1>2

\* toggle keeps the processes, and leaves an empty pop list only when there are none.
LEMMA ToggleKeeps ==
  ASSUME NEW q, Sound(q)
  PROVE  /\ Sound(Toggle(q)) /\ OnList(Toggle(q)) = OnList(q)
         /\ Toggle(q).pop = END => OnList(q) = {}
<1>1. PICK a, b : Linked(q, a, b)
  BY DEF Sound
<1>2. OnList(q) = ToSet(a) \cup ToSet(b)
  BY <1>1, ChainsAreTheLists
<1>3. ToSet(<<>>) = {}
  BY DEF ToSet
<1>4. CASE b = <<>>
  <2>1. Linked(Toggle(q), <<>>, a)
    BY <1>1, <1>4, ToggleLinks
  <2>2. Sound(Toggle(q)) /\ OnList(Toggle(q)) = ToSet(<<>>) \cup ToSet(a)
    BY <2>1, ChainsAreTheLists
  <2>3. Toggle(q).pop = END <=> a = <<>>
    BY <2>1, ToggleLinks
  <2> QED
    BY <1>2, <1>3, <1>4, <2>2, <2>3
<1>5. CASE b # <<>>
  <2>1. Toggle(q) = q /\ q.pop # END
    BY <1>1, <1>5, ToggleLinks
  <2> QED
    BY <2>1
<1> QED
  BY <1>4, <1>5

\* pop takes one process off.
LEMMA PopTakesOff ==
  ASSUME NEW q, Sound(q), q.pop # END
  PROVE  q.pop \in OnList(q) /\ Sound(Pop(q)) /\ OnList(Pop(q)) = OnList(q) \ {q.pop}
<1>1. PICK a, b : Linked(q, a, b)
  BY DEF Sound
<1>2. b # <<>> /\ b \in Seq(Runnable) /\ IsInjective(b) /\ ToSet(a) \cap ToSet(b) = {}
  BY <1>1, ToggleLinks DEF Linked
<1>3. Linked(Pop(q), a, Tail(b)) /\ q.pop = Head(b)
  BY <1>1, <1>2, PopLinks
<1>4. Sound(Pop(q)) /\ OnList(Pop(q)) = ToSet(a) \cup ToSet(Tail(b))
  BY <1>3, ChainsAreTheLists
<1>5. OnList(q) = ToSet(a) \cup ToSet(b)
  BY <1>1, ChainsAreTheLists
<1>6. Head(b) = b[1]
  BY <1>2, TailFacts
<1>7. ToSet(b) = {b[1]} \cup ToSet(Tail(b))
  BY <1>2, TailFacts
<1>8. b[1] \notin ToSet(Tail(b))
  BY <1>2, TailFacts
<1> QED
  BY <1>2, <1>3, <1>4, <1>5, <1>6, <1>7, <1>8

\* Popping, or finding nothing to pop: the process popped is active now.
LEMMA PopRunnableFacts ==
  ASSUME NEW q, Sound(q), PopRunnable(q)
  PROVE  /\ Sound(threads')
         /\ \/ active' = Nobody /\ q.pop = END /\ OnList(threads') = OnList(q)
            \/ active' \in OnList(q) /\ OnList(threads') = OnList(q) \ {active'}
BY PopTakesOff DEF PopRunnable

-----------------------------------------------------------------------------
(* The update list *)

\* The links l lead from f[n] to f[n - 1] and so on, and from f[1] to END: n channels,
\* all different, numbered from the end of the list.
Chain(l, n, f) ==
  /\ f \in [1 .. n -> Channel]
  /\ \A i, k \in 1 .. n : f[i] = f[k] => i = k
  /\ \A i \in 1 .. n : l[f[i]] = IF i = 1 THEN END ELSE f[i - 1]

HeadOf(n, f) == IF n = 0 THEN END ELSE f[n]

\* A list that starts at h and has just the channels whose link is set.
Pending(l, h) ==
  \E n \in Nat : \E f \in [1 .. n -> Channel] :
    /\ Chain(l, n, f)
    /\ h = HeadOf(n, f)
    /\ \A c \in Channel : l[c] # NULL <=> \E i \in 1 .. n : f[i] = c

Links == [Channel -> Channel \cup {NULL, END}]

\* Nothing pending: no link is set.
LEMMA NothingPending ==
  ASSUME NEW l, NEW h, Pending(l, h)
  PROVE  /\ h \in Channel \cup {END}
         /\ h = END => \A c \in Channel : l[c] = NULL
<1>1. PICK n, f :
        /\ n \in Nat /\ f \in [1 .. n -> Channel] /\ h = HeadOf(n, f)
        /\ \A c \in Channel : l[c] # NULL <=> \E i \in 1 .. n : f[i] = c
  BY DEF Pending
<1>2. n # 0 => n \in 1 .. n /\ f[n] \in Channel
  BY <1>1
<1> QED
  BY <1>1, <1>2, NobodyAssumption, KernelAssumption DEF HeadOf

\* With no channel linked the update list is empty.
LEMMA NothingLinked ==
  ASSUME NEW l, \A c \in Channel : l[c] = NULL
  PROVE  Pending(l, END)
<1> DEFINE f == [i \in 1 .. 0 |-> END]
<1>1. f \in [1 .. 0 -> Channel] /\ 1 .. 0 = {}
  OBVIOUS
<1> HIDE DEF f
<1>2. Chain(l, 0, f) /\ END = HeadOf(0, f)
  BY <1>1 DEF Chain, HeadOf
<1> QED
  BY <1>1, <1>2 DEF Pending

\* request_update of a channel that is not on the list puts it in front.
LEMMA PendingRequest ==
  ASSUME NEW l \in Links, NEW h, Pending(l, h), NEW c \in Channel, l[c] = NULL
  PROVE  [l EXCEPT ![c] = h] \in Links /\ Pending([l EXCEPT ![c] = h], c)
<1> DEFINE m == [l EXCEPT ![c] = h]
<1>1. PICK n, f :
        /\ n \in Nat /\ f \in [1 .. n -> Channel] /\ Chain(l, n, f)
        /\ h = HeadOf(n, f)
        /\ \A x \in Channel : l[x] # NULL <=> \E i \in 1 .. n : f[i] = x
  BY DEF Pending
<1> DEFINE g == [i \in 1 .. n + 1 |-> IF i = n + 1 THEN c ELSE f[i]]
<1>2. h \in Channel \cup {END}
  BY NothingPending
<1>3. m \in Links /\ m[c] = h /\ \A x \in Channel : x # c => m[x] = l[x]
  BY <1>2 DEF Links
<1>4. /\ \A i \in 1 .. n : i \in 1 .. n + 1 /\ i # n + 1 /\ f[i] \in Channel /\ f[i] # c
      /\ \A i \in 1 .. n + 1 : i \in 1 .. n \/ i = n + 1
      /\ n + 1 \in 1 .. n + 1
  BY <1>1
<1>5. /\ g \in [1 .. n + 1 -> Channel] /\ g[n + 1] = c
      /\ \A i \in 1 .. n : g[i] = f[i]
  BY <1>4
<1> HIDE DEF m, g
<1>6. \A i, k \in 1 .. n + 1 : g[i] = g[k] => i = k
  BY <1>1, <1>4, <1>5 DEF Chain
<1>7. ASSUME NEW i \in 1 .. n + 1
      PROVE  m[g[i]] = IF i = 1 THEN END ELSE g[i - 1]
  <2>1. CASE i = n + 1
    <3>1. n # 0 => n \in 1 .. n /\ i # 1 /\ i - 1 = n /\ (n = 0 => i = 1)
      BY <1>1, <2>1
    <3>2. n + 1 # 0
      BY <1>1
    <3> QED
      BY <1>1, <1>3, <1>5, <2>1, <3>1 DEF HeadOf
  <2>2. CASE i # n + 1
    <3>1. i \in 1 .. n
      BY <1>4, <2>2
    <3>2. m[g[i]] = l[f[i]]
      BY <1>3, <1>4, <1>5, <3>1
    <3>3. i # 1 => i - 1 \in 1 .. n
      BY <1>1, <3>1
    <3> QED
      BY <1>1, <1>5, <3>1, <3>2, <3>3 DEF Chain
  <2> QED
    BY <2>1, <2>2
<1>8. Chain(m, n + 1, g) /\ c = HeadOf(n + 1, g)
  BY <1>1, <1>5, <1>6, <1>7 DEF Chain, HeadOf
<1>9. ASSUME NEW x \in Channel
      PROVE  m[x] # NULL <=> \E i \in 1 .. n + 1 : g[i] = x
  <2>1. CASE x = c
    BY <1>1, <1>2, <1>3, <1>4, <1>5, <2>1, PointersDiffer, NobodyAssumption, KernelAssumption
  <2>2. CASE x # c
    BY <1>1, <1>3, <1>4, <1>5, <2>2
  <2> QED
    BY <2>1, <2>2
<1>10. n + 1 \in Nat
  BY <1>1
<1>11. Pending(m, c)
  BY <1>5, <1>8, <1>9, <1>10 DEF Pending
<1> QED
  BY <1>3, <1>11 DEF m

\* perform_update takes the first channel off.
LEMMA PendingNext ==
  ASSUME NEW l \in Links, NEW h, Pending(l, h), h # END
  PROVE  /\ h \in Channel /\ [l EXCEPT ![h] = NULL] \in Links
         /\ Pending([l EXCEPT ![h] = NULL], l[h])
<1> DEFINE m == [l EXCEPT ![h] = NULL]
<1>1. PICK n, f :
        /\ n \in Nat /\ f \in [1 .. n -> Channel] /\ Chain(l, n, f)
        /\ h = HeadOf(n, f)
        /\ \A x \in Channel : l[x] # NULL <=> \E i \in 1 .. n : f[i] = x
  BY DEF Pending
<1>2. n # 0 /\ h = f[n] /\ n \in 1 .. n /\ n - 1 \in Nat /\ h \in Channel
  BY <1>1 DEF HeadOf
<1>3. /\ \A i \in 1 .. n - 1 : i \in 1 .. n /\ i # n
      /\ \A i \in 1 .. n : i \in 1 .. n - 1 \/ i = n
  BY <1>2
<1> DEFINE g == [i \in 1 .. n - 1 |-> f[i]]
<1>4. /\ g \in [1 .. n - 1 -> Channel]
      /\ \A i \in 1 .. n - 1 : g[i] = f[i] /\ f[i] # h
  BY <1>1, <1>2, <1>3 DEF Chain
<1>5. m \in Links /\ m[h] = NULL /\ \A x \in Channel : x # h => m[x] = l[x]
  BY <1>2 DEF Links
<1> HIDE DEF m, g
<1>6. Chain(m, n - 1, g)
  <2>1. \A i, k \in 1 .. n - 1 : g[i] = g[k] => i = k
    BY <1>1, <1>3, <1>4 DEF Chain
  <2>2. ASSUME NEW i \in 1 .. n - 1
        PROVE  m[g[i]] = IF i = 1 THEN END ELSE g[i - 1]
    <3>1. m[g[i]] = l[f[i]] /\ i \in 1 .. n
      BY <1>3, <1>4, <1>5
    <3>2. i # 1 => i - 1 \in 1 .. n - 1
      BY <1>2
    <3> QED
      BY <1>1, <1>4, <3>1, <3>2 DEF Chain
  <2> QED
    BY <1>4, <2>1, <2>2 DEF Chain
<1>7. l[h] = HeadOf(n - 1, g)
  <2>1. l[h] = IF n = 1 THEN END ELSE f[n - 1]
    BY <1>1, <1>2 DEF Chain
  <2>2. n # 1 => n - 1 \in 1 .. n - 1 /\ n - 1 # 0
    BY <1>2
  <2> QED
    BY <1>4, <2>1, <2>2 DEF HeadOf
<1>8. \A x \in Channel : m[x] # NULL <=> \E i \in 1 .. n - 1 : g[i] = x
  BY <1>1, <1>2, <1>3, <1>4, <1>5
<1>9. Pending(m, l[h])
  BY <1>2, <1>4, <1>6, <1>7, <1>8 DEF Pending
<1> QED
  BY <1>2, <1>5, <1>9 DEF m

\* No update list is longer than there are channels.
LEMMA ChainBound ==
  ASSUME NEW l, NEW n \in Nat, NEW f, Chain(l, n, f)
  PROVE  Cardinality(Channel) \in Nat /\ n <= Cardinality(Channel)
<1>1. Channel = ((((({"reset"} \cup {"ready"}) \cup {"valid"}) \cup {"in"}) \cup {"out"}) \cup {"clk"})
  BY DEF Channel, Buffer, Value
<1>2. IsFiniteSet(Channel)
  <2>1. \A S, x : IsFiniteSet(S) => IsFiniteSet(S \cup {x})
    BY FS_AddElement
  <2>2. IsFiniteSet({"reset"})
    BY FS_Singleton
  <2> QED
    BY <1>1, <2>1, <2>2
<1>3. Cardinality(Channel) \in Nat
  BY <1>2, FS_CardinalityType
<1>4. IsFiniteSet(1 .. n) /\ Cardinality(1 .. n) = n
  <2>1. IsFiniteSet(1 .. n) /\ Cardinality(1 .. n) = IF 1 > n THEN 0 ELSE n - 1 + 1
    BY FS_Interval
  <2> QED
    BY <2>1
<1>5. f \in [1 .. n -> Channel] /\ ~ \E i, k \in 1 .. n : i # k /\ f[i] = f[k]
  BY DEF Chain
<1>6. ~ (Cardinality(Channel) < Cardinality(1 .. n))
  BY <1>2, <1>4, <1>5, FS_PigeonHole
<1> QED
  BY <1>3, <1>4, <1>6

\* What ReachedFrom adds to the channels reached so far.
Reached(S) == S \cup { link[c] : c \in S \cap Channel }

\* The pointers reached within m steps: to the first m channels and the one behind.
Within(n, f, m) == { HeadOf(i, f) : i \in { k \in 0 .. n : k + m >= n } }

\* One more round of the walk from the head reaches one more channel.
LEMMA ReachedStep ==
  ASSUME NEW n \in Nat, NEW f, Chain(link, n, f), NEW m \in Nat
  PROVE  Reached(Within(n, f, m)) = Within(n, f, m + 1)
<1>1. /\ \A i \in 1 .. n : HeadOf(i, f) \in Channel /\ link[HeadOf(i, f)] = HeadOf(i - 1, f)
      /\ HeadOf(0, f) = END /\ END \notin Channel
  <2>1. ASSUME NEW i \in 1 .. n
        PROVE  HeadOf(i, f) \in Channel /\ link[HeadOf(i, f)] = HeadOf(i - 1, f)
    <3>1. i # 0 /\ (i - 1 = 0 <=> i = 1) /\ f[i] \in Channel
      BY DEF Chain
    <3> QED
      BY <3>1 DEF Chain, HeadOf
  <2> QED
    BY <2>1, NobodyAssumption, KernelAssumption DEF HeadOf
<1>2. ASSUME NEW x \in Within(n, f, m + 1)
      PROVE  x \in Reached(Within(n, f, m))
  <2>1. PICK k \in 0 .. n : k + (m + 1) >= n /\ x = HeadOf(k, f)
    BY DEF Within
  <2>2. CASE k + m >= n
    BY <2>1, <2>2 DEF Within, Reached
  <2>3. CASE ~(k + m >= n)
    <3>1. k + 1 \in 1 .. n /\ k + 1 \in 0 .. n /\ (k + 1) + m >= n /\ (k + 1) - 1 = k
      BY <2>1, <2>3
    <3>2. HeadOf(k + 1, f) \in Within(n, f, m) \cap Channel /\ link[HeadOf(k + 1, f)] = x
      BY <1>1, <2>1, <3>1 DEF Within
    <3> QED
      BY <3>2 DEF Reached
  <2> QED
    BY <2>2, <2>3
<1>3. ASSUME NEW x \in Reached(Within(n, f, m))
      PROVE  x \in Within(n, f, m + 1)
  <2>1. ASSUME NEW k \in 0 .. n, k + m >= n
        PROVE  HeadOf(k, f) \in Within(n, f, m + 1)
    <3>1. k + (m + 1) >= n
      BY <2>1
    <3> QED
      BY <3>1 DEF Within
  <2>2. CASE x \in Within(n, f, m)
    BY <2>1, <2>2 DEF Within
  <2>3. CASE \E c \in Within(n, f, m) \cap Channel : x = link[c]
    <3>1. PICK k \in 0 .. n : k + m >= n /\ HeadOf(k, f) \in Channel /\ x = link[HeadOf(k, f)]
      BY <2>3 DEF Within
    <3>2. k # 0 /\ k \in 1 .. n
      BY <1>1, <3>1
    <3>3. k - 1 \in 0 .. n /\ (k - 1) + (m + 1) >= n /\ x = HeadOf(k - 1, f)
      BY <1>1, <3>1, <3>2
    <3> QED
      BY <3>3 DEF Within
  <2> QED
    BY <2>2, <2>3 DEF Reached
<1> QED
  BY <1>2, <1>3

\* From the head of a chain the links lead to all of it and to END, and no further.
LEMMA ReachesChain ==
  ASSUME NEW n \in Nat, NEW f, Chain(link, n, f)
  PROVE  ReachedFrom(HeadOf(n, f)) = {END} \cup { f[i] : i \in 1 .. n }
<1>1. PICK N \in Nat : N = Cardinality(Channel) /\ n <= N
  BY ChainBound
<1> DEFINE Walk(g) == [m \in 0 .. N |-> IF m = 0 THEN {HeadOf(n, f)} ELSE Reached(g[m - 1])]
           r == [m \in 0 .. N |-> Within(n, f, m)]
<1>2. ReachedFrom(HeadOf(n, f)) = (CHOOSE g : g = Walk(g))[N]
  BY <1>1 DEF ReachedFrom, Reached
<1>3. Within(n, f, 0) = {HeadOf(n, f)}
  <2>1. { k \in 0 .. n : k + 0 >= n } = {n}
    OBVIOUS
  <2> QED
    BY <2>1 DEF Within
<1>4. Within(n, f, N) = {END} \cup { f[i] : i \in 1 .. n }
  <2>1. { k \in 0 .. n : k + N >= n } = {0} \cup 1 .. n
    BY <1>1
  <2>2. \A i \in 1 .. n : HeadOf(i, f) = f[i]
    BY DEF HeadOf
  <2>3. HeadOf(0, f) = END
    BY DEF HeadOf
  <2> QED
    BY <2>1, <2>2, <2>3 DEF Within
<1>5. r = Walk(r)
  <2> SUFFICES ASSUME NEW m \in 0 .. N
               PROVE  Within(n, f, m) = IF m = 0 THEN {HeadOf(n, f)} ELSE Reached(r[m - 1])
    OBVIOUS
  <2>1. CASE m = 0
    BY <1>3, <2>1
  <2>2. CASE m # 0
    <3>1. m - 1 \in Nat /\ m - 1 \in 0 .. N /\ (m - 1) + 1 = m
      BY <1>1, <2>2
    <3>2. r[m - 1] = Within(n, f, m - 1)
      BY <3>1
    <3>3. Reached(Within(n, f, m - 1)) = Within(n, f, (m - 1) + 1)
      BY <3>1, ReachedStep
    <3> QED
      BY <2>2, <3>1, <3>2, <3>3
  <2> QED
    BY <2>1, <2>2
<1>6. ASSUME NEW g, g = Walk(g)
      PROVE  g[N] = Within(n, f, N)
  <2> DEFINE T == { m \in Nat : m <= N => g[m] = Within(n, f, m) }
  <2>1. 0 \in T
    <3>1. g[0] = {HeadOf(n, f)}
      BY <1>1, <1>6
    <3> QED
      BY <1>3, <3>1
  <2>2. ASSUME NEW m \in Nat, m \in T PROVE m + 1 \in T
    <3> SUFFICES ASSUME m + 1 <= N PROVE g[m + 1] = Within(n, f, m + 1)
      OBVIOUS
    <3>1. m + 1 \in 0 .. N /\ m + 1 # 0 /\ (m + 1) - 1 = m /\ m <= N
      BY <1>1
    <3>2. g[m + 1] = Reached(g[m])
      BY <1>6, <3>1
    <3> QED
      BY <2>2, <3>1, <3>2, ReachedStep
  <2> HIDE DEF T
  <2>3. Nat \subseteq T
    BY <2>1, <2>2, NatSetInduction
  <2>4. N \in T
    BY <1>1, <2>3
  <2> QED
    BY <1>1, <2>4 DEF T
<1>7. PICK w : w = CHOOSE g : g = Walk(g)
  OBVIOUS
<1> HIDE DEF Walk, r
<1>8. w = Walk(w)
  BY <1>5, <1>7
<1> QED
  BY <1>2, <1>4, <1>6, <1>7, <1>8

\* From the head of the update list, or from END.
LEMMA ReachesPending ==
  /\ \A h : Pending(link, h) => ReachedFrom(h) = {END} \cup { c \in Channel : link[c] # NULL }
  /\ ReachedFrom(END) = {END}
<1>1. ASSUME NEW h, Pending(link, h)
      PROVE  ReachedFrom(h) = {END} \cup { c \in Channel : link[c] # NULL }
  <2>1. PICK n, f :
          /\ n \in Nat /\ f \in [1 .. n -> Channel] /\ Chain(link, n, f)
          /\ h = HeadOf(n, f)
          /\ \A x \in Channel : link[x] # NULL <=> \E i \in 1 .. n : f[i] = x
    BY <1>1 DEF Pending
  <2>2. { c \in Channel : link[c] # NULL } = { f[i] : i \in 1 .. n }
    BY <2>1
  <2> QED
    BY <2>1, <2>2, ReachesChain
<1>2. ReachedFrom(END) = {END}
  <2> DEFINE f == [i \in 1 .. 0 |-> END]
  <2>1. f \in [1 .. 0 -> Channel] /\ 1 .. 0 = {}
    OBVIOUS
  <2> HIDE DEF f
  <2>2. Chain(link, 0, f) /\ HeadOf(0, f) = END /\ { f[i] : i \in 1 .. 0 } = {}
    BY <2>1 DEF Chain, HeadOf
  <2>3. ReachedFrom(HeadOf(0, f)) = {END} \cup { f[i] : i \in 1 .. 0 }
    BY <2>2, ReachesChain
  <2> QED
    BY <2>2, <2>3
<1> QED
  BY <1>1, <1>2

-----------------------------------------------------------------------------
(* Events *)

\* An event with one static process triggers it.
LEMMA TriggerAllOfOne ==
  ASSUME NEW q, NEW p
  PROVE  TriggerAll(q, <<p>>) = TriggerStatic(q, p)
<1> DEFINE After(g) == [n \in 0 .. 1 |-> IF n = 0 THEN q ELSE TriggerStatic(g[n - 1], <<p>>[n])]
           f == [n \in 0 .. 1 |-> IF n = 0 THEN q ELSE TriggerStatic(q, p)]
<1>1. TriggerAll(q, <<p>>) = (CHOOSE g : g = After(g))[1]
  BY DEF TriggerAll
<1>2. f = After(f)
  OBVIOUS
<1>3. PICK g : g = CHOOSE h : h = After(h)
  OBVIOUS
<1>4. g = After(g)
  <2> HIDE DEF f, After
  <2> QED
    BY <1>2, <1>3
<1>5. g[0] = q /\ g[1] = TriggerStatic(g[0], p)
  BY <1>4
<1> QED
  BY <1>1, <1>3, <1>5

\* An event with two static processes triggers them in their order.
LEMMA TriggerAllOfTwo ==
  ASSUME NEW q, NEW p1, NEW p2
  PROVE  TriggerAll(q, <<p1, p2>>) = TriggerStatic(TriggerStatic(q, p1), p2)
<1> DEFINE After(g) == [n \in 0 .. 2 |-> IF n = 0 THEN q ELSE TriggerStatic(g[n - 1], <<p1, p2>>[n])]
           f == [n \in 0 .. 2 |-> IF n = 0 THEN q
                                  ELSE IF n = 1 THEN TriggerStatic(q, p1)
                                  ELSE TriggerStatic(TriggerStatic(q, p1), p2)]
<1>1. TriggerAll(q, <<p1, p2>>) = (CHOOSE g : g = After(g))[2]
  BY DEF TriggerAll
<1>2. f = After(f)
  OBVIOUS
<1>3. PICK g : g = CHOOSE h : h = After(h)
  OBVIOUS
<1>4. g = After(g)
  <2> HIDE DEF f, After
  <2> QED
    BY <1>2, <1>3
<1>5. g[0] = q /\ g[1] = TriggerStatic(g[0], p1) /\ g[2] = TriggerStatic(g[1], p2)
  BY <1>4
<1> QED
  BY <1>1, <1>3, <1>5

\* Whatever the order, the processes that are sensitive to the event become runnable.
LEMMA TriggerFacts ==
  ASSUME NEW q, Sound(q), NEW e \in DOMAIN Sensitive,
         NEW order \in {Sensitive[e], Reverse(Sensitive[e])}
  PROVE  /\ Sound(TriggerAll(q, order))
         /\ e = "next_posedge" => OnList(TriggerAll(q, order)) = OnList(q) \cup {"posedge_action"}
         /\ e = "next_negedge" => OnList(TriggerAll(q, order)) = OnList(q) \cup {"negedge_action"}
         /\ e = "posedge" => OnList(TriggerAll(q, order)) = OnList(q) \cup Thread
<1>1. Thread \cup Method \subseteq Runnable
  BY NobodyAssumption, KernelAssumption
<1>2. CASE e = "posedge"
  <2>1. order = <<"encoder", "testbench">> \/ order = <<"testbench", "encoder">>
    BY <1>2 DEF Sensitive, Reverse
  <2>2. ASSUME NEW p1 \in Runnable, NEW p2 \in Runnable
        PROVE  /\ Sound(TriggerAll(q, <<p1, p2>>))
               /\ OnList(TriggerAll(q, <<p1, p2>>)) = OnList(q) \cup {p1, p2}
    BY TriggerAllOfTwo, TriggerAdds
  <2> QED
    BY <1>1, <1>2, <2>1, <2>2 DEF Thread
<1>3. CASE e = "next_posedge"
  <2>1. order = <<"posedge_action">>
    BY <1>3 DEF Sensitive, Reverse
  <2> QED
    BY <1>1, <1>3, <2>1, TriggerAllOfOne, TriggerAdds DEF Method
<1>4. CASE e = "next_negedge"
  <2>1. order = <<"negedge_action">>
    BY <1>4 DEF Sensitive, Reverse
  <2> QED
    BY <1>1, <1>4, <2>1, TriggerAllOfOne, TriggerAdds DEF Method
<1> QED
  BY <1>2, <1>3, <1>4 DEF Sensitive

-----------------------------------------------------------------------------
(* The inductive invariant *)

\* The run lists are linked and hold what they are for; the running thread is on neither.
RunInv ==
  /\ Sound(methods) /\ OnList(methods) \subseteq Method
  /\ Sound(threads) /\ OnList(threads) \subseteq Thread
  /\ active \in Thread \cup {Nobody}
  /\ active \notin OnList(threads)

ValueOf(c) == IF c = "clk" THEN BOOLEAN ELSE Value[c]

Held(values) ==
  /\ values = [c \in Channel |-> values[c]]
  /\ \A c \in Channel : values[c] \in ValueOf(c)

\* A value is requested only of a channel on the update list, which starts at walk while
\* perform_update goes through it and at list otherwise.
SignalInv ==
  /\ Held(m_cur_val) /\ Held(m_new_val)
  /\ link \in Links
  /\ IF phase = "update" THEN Pending(link, walk) /\ list = END
                         ELSE Pending(link, list) /\ walk = END
  /\ \A c \in Channel : link[c] = NULL => m_cur_val[c] = m_new_val[c]

EventInv ==
  /\ phase \in {"evaluate", "update", "notify", "time"}
  /\ notified \in [DOMAIN Sensitive -> {"NONE", "DELTA", "TIMED"}]
  /\ notified["posedge"] # "TIMED" /\ notified["next_negedge"] # "DELTA"

\* What is left to do in each phase.  Methods run before threads, on their own; the
\* clock has been updated before a thread runs; an event is due for the next phase only.
PhaseInv ==
  /\ phase # "evaluate" => active = Nobody
  /\ phase \in {"update", "time"} => OnList(methods) = {} /\ OnList(threads) = {}
  /\ phase \in {"notify", "time"} => list = END
  /\ OnList(methods) # {} => OnList(threads) = {} /\ active = Nobody
  /\ OnList(threads) # {} \/ active # Nobody => link["clk"] = NULL
  /\ notified["posedge"] = "DELTA" =>
       /\ phase \in {"update", "notify"}
       /\ OnList(methods) = {} /\ OnList(threads) = {}
       /\ notified["next_posedge"] # "DELTA"
  /\ notified["next_posedge"] = "DELTA" => phase = "notify" /\ OnList(threads) = {}

SInv ==
  /\ RunInv
  /\ SignalInv
  /\ EventInv
  /\ PhaseInv

\* The kernel at the start of the simulation.
LEMMA SInvInit == Init => SInv
<1> SUFFICES ASSUME Init PROVE SInv
  OBVIOUS
<1>1. RunInv /\ OnList(methods) = {} /\ OnList(threads) = {}
  BY NoneAtFirst, NobodyAssumption, KernelAssumption DEF Init, DispatchInit, RunInv
<1>2. \A c \in Channel : Initially[c] \in ValueOf(c)
  <2>1. [i \in Lane |-> Zero] \in [Lane -> Byte]
    BY ByteAssumption
  <2>2. Channel = {"reset", "ready", "valid", "in", "out", "clk"}
    BY DEF Channel, Buffer, Value
  <2>3. /\ \A c \in {"reset", "ready", "valid", "clk"} : ValueOf(c) = BOOLEAN
        /\ \A c \in {"in", "out"} : ValueOf(c) = [Lane -> Byte]
    BY DEF ValueOf, Value
  <2>4. /\ \A c \in {"reset", "ready", "valid", "clk"} : Initially[c] = FALSE
        /\ \A c \in {"in", "out"} : Initially[c] = [i \in Lane |-> Zero]
    BY <2>2 DEF Initially
  <2>5. ASSUME NEW c \in Channel PROVE Initially[c] \in ValueOf(c)
    <3>1. CASE c \in {"reset", "ready", "valid", "clk"}
      <4>1. Initially[c] = FALSE /\ ValueOf(c) = BOOLEAN
        BY <2>3, <2>4, <3>1
      <4> QED
        BY <4>1
    <3>2. CASE c \in {"in", "out"}
      BY <2>1, <2>3, <2>4, <3>2
    <3> QED
      BY <2>2, <3>1, <3>2
  <2> QED
    BY <2>5
<1>3. Held(Initially)
  BY <1>2 DEF Held, Initially
<1>4. link \in Links /\ (\A c \in Channel : link[c] = NULL) /\ Pending(link, END)
  BY NothingLinked DEF Init, Links
<1>5. SignalInv
  BY <1>3, <1>4 DEF SignalInv, Init
<1>6. EventInv
  BY DEF EventInv, Init, Sensitive
<1>7. PhaseInv
  <2>1. notified["posedge"] = "NONE"
    BY DEF Init, Sensitive
  <2> QED
    BY <1>1, <2>1 DEF PhaseInv, Init, DispatchInit
<1> QED
  BY <1>1, <1>5, <1>6, <1>7 DEF SInv

\* request_update, whoever calls it: the list stays sound, and its new value is on it.
LEMMA RequestFacts ==
  ASSUME SInv, phase = "evaluate", NEW c \in Channel, NEW v \in ValueOf(c),
         RequestUpdate(c), m_new_val' = [m_new_val EXCEPT ![c] = v],
         UNCHANGED <<phase, m_cur_val, walk>>
  PROVE  SignalInv' /\ link'[c] # NULL /\ \A x \in Channel : x # c => link'[x] = link[x]
<1>1. /\ link \in Links /\ Pending(link, list) /\ walk = END
      /\ Held(m_cur_val) /\ Held(m_new_val)
      /\ \A x \in Channel : link[x] = NULL => m_cur_val[x] = m_new_val[x]
  BY DEF SInv, SignalInv
<1>2. Held(m_new_val') /\ \A x \in Channel : x # c => m_new_val'[x] = m_new_val[x]
  BY <1>1 DEF Held
<1>3. /\ link' \in Links /\ Pending(link', list') /\ link'[c] # NULL
      /\ \A x \in Channel : x # c => link'[x] = link[x]
  <2>1. CASE link[c] = NULL
    <3>1. link' = [link EXCEPT ![c] = list] /\ list' = c
      BY <2>1 DEF RequestUpdate
    <3>2. link' \in Links /\ Pending(link', list')
      BY <1>1, <2>1, <3>1, PendingRequest
    <3>3. list \in Channel \cup {END}
      BY <1>1, NothingPending
    <3> QED
      BY <1>1, <3>1, <3>2, <3>3, PointersDiffer, NobodyAssumption, KernelAssumption DEF Links
  <2>2. CASE link[c] # NULL
    BY <1>1, <2>2 DEF RequestUpdate
  <2> QED
    BY <2>1, <2>2
<1> QED
  BY <1>1, <1>2, <1>3 DEF SignalInv

\* No thread runs while a method is left; the method asks for an update of the clock.
LEMMA RunMethodStep ==
  ASSUME SInv, RunMethod
  PROVE  /\ SInv'
         /\ OnList(methods) # {} /\ OnList(threads) = {} /\ OnList(threads') = {}
         /\ active = Nobody /\ active' = Nobody
         /\ phase' = "evaluate" /\ link'["clk"] # NULL
         /\ \A b \in Buffer : m_new_val'[b] = m_new_val[b]
<1>1. PICK q : /\ q = Toggle(methods) /\ q.pop # END /\ methods' = Pop(q) /\ ClockAction(q.pop)
               /\ phase = "evaluate" /\ active = Nobody
               /\ UNCHANGED <<phase, threads, active, m_cur_val, walk>>
  BY DEF RunMethod
<1>2. Sound(q) /\ OnList(q) = OnList(methods)
  BY <1>1, ToggleKeeps DEF SInv, RunInv
<1>3. q.pop \in OnList(methods) /\ Sound(methods') /\ OnList(methods') = OnList(methods) \ {q.pop}
  BY <1>1, <1>2, PopTakesOff
<1>4. OnList(threads) = {} /\ threads' = threads /\ active' = Nobody /\ active = Nobody
  BY <1>1, <1>3 DEF SInv, PhaseInv
<1>5. PICK v \in BOOLEAN : m_new_val' = [m_new_val EXCEPT !["clk"] = v]
  <2>1. (q.pop = "posedge_action") \in BOOLEAN
    OBVIOUS
  <2> QED
    BY <1>1, <2>1 DEF ClockAction
<1>6. "clk" \in Channel /\ v \in ValueOf("clk") /\ "clk" \notin Buffer /\ Buffer \subseteq Channel
  BY DEF Channel, ValueOf, Buffer, Value
<1>7. SignalInv' /\ link'["clk"] # NULL
  <2>1. RequestUpdate("clk") /\ UNCHANGED <<phase, m_cur_val, walk>> /\ phase = "evaluate"
    BY <1>1 DEF ClockAction
  <2> QED
    BY <1>5, <1>6, <2>1, RequestFacts
<1>8. \A b \in Buffer : m_new_val'[b] = m_new_val[b]
  <2>1. m_new_val = [c \in Channel |-> m_new_val[c]]
    BY DEF SInv, SignalInv, Held
  <2> QED
    BY <1>5, <1>6, <2>1
<1>9. RunInv'
  BY <1>1, <1>3, <1>4 DEF SInv, RunInv
<1>10. /\ EventInv' /\ notified'["posedge"] = notified["posedge"]
       /\ notified'["next_posedge"] \in {notified["next_posedge"], "TIMED"}
  BY <1>1 DEF SInv, EventInv, ClockAction, Sensitive
<1>11. notified["posedge"] # "DELTA" /\ notified["next_posedge"] # "DELTA" /\ phase' = "evaluate"
  BY <1>1 DEF SInv, PhaseInv
<1>12. PhaseInv'
  BY <1>4, <1>10, <1>11 DEF PhaseInv
<1> QED
  BY <1>3, <1>4, <1>7, <1>8, <1>9, <1>10, <1>11, <1>12 DEF SInv

\* The first thread of the round.
LEMMA RunThreadStep ==
  ASSUME SInv, RunThread
  PROVE  /\ SInv'
         /\ active = Nobody /\ active' \in OnList(threads)
         /\ OnList(threads') = OnList(threads) \ {active'}
         /\ UNCHANGED <<m_cur_val, m_new_val>>
<1>1. /\ phase = "evaluate" /\ active = Nobody /\ IsEmpty(methods) /\ ~IsEmpty(threads)
      /\ PopRunnable(Toggle(threads)) /\ phase' = phase /\ methods' = methods
      /\ UNCHANGED <<m_cur_val, m_new_val, link, list, walk>> /\ notified' = notified
  BY DEF RunThread, Dispatch, signalVars
<1>2. OnList(methods) = {} /\ OnList(threads) # {} /\ Sound(threads)
  BY <1>1, EmptyMeansNone DEF SInv, RunInv
<1>3. /\ Sound(Toggle(threads)) /\ OnList(Toggle(threads)) = OnList(threads)
      /\ Toggle(threads).pop # END
  BY <1>2, ToggleKeeps
<1>4. /\ Sound(threads') /\ active' \in OnList(threads)
      /\ OnList(threads') = OnList(threads) \ {active'}
  BY <1>1, <1>3, PopRunnableFacts
<1>5. RunInv'
  BY <1>1, <1>4 DEF SInv, RunInv
<1>6. SignalInv' /\ EventInv'
  BY <1>1 DEF SInv, SignalInv, EventInv
<1>7. PhaseInv'
  <2>1. link["clk"] = NULL /\ notified["posedge"] # "DELTA" /\ notified["next_posedge"] # "DELTA"
    BY <1>1, <1>2 DEF SInv, PhaseInv
  <2> QED
    BY <1>1, <1>2, <2>1 DEF PhaseInv
<1> QED
  BY <1>1, <1>4, <1>5, <1>6, <1>7 DEF SInv

\* A running thread: the methods have run, and the clock is up to date.
LEMMA Running ==
  ASSUME SInv, active \in Thread
  PROVE  /\ phase = "evaluate" /\ OnList(methods) = {} /\ link["clk"] = NULL
         /\ active \in Runnable /\ active # Nobody
         /\ notified["posedge"] # "DELTA" /\ notified["next_posedge"] # "DELTA"
<1>1. active \in Runnable /\ active # Nobody
  BY NobodyAssumption, KernelAssumption
<1> QED
  BY <1>1 DEF SInv, PhaseInv

\* A write of the running thread requests an update of its own signal only.
LEMMA WriteStep ==
  ASSUME SInv, Write
  PROVE  /\ SInv'
         /\ active \in Thread /\ active' = active /\ threads' = threads /\ m_cur_val' = m_cur_val
         /\ \A b \in Buffer : b \notin Drives[active] => m_new_val'[b] = m_new_val[b]
<1>1. PICK c \in Drives[active] : \E v \in Value[c] :
        /\ m_new_val' = [m_new_val EXCEPT ![c] = v]
        /\ RequestUpdate(c)
  BY DEF Write
<1>2. PICK v \in Value[c] :
        m_new_val' = [m_new_val EXCEPT ![c] = v] /\ RequestUpdate(c)
  BY <1>1
<1>3. /\ active \in Thread /\ UNCHANGED <<phase, methods, threads, active, m_cur_val, walk, notified>>
  BY DEF Write, runVars
<1>4. c \in Buffer /\ c \in Channel /\ c # "clk" /\ v \in ValueOf(c) /\ Buffer \subseteq Channel
  <2>1. Drives[active] \subseteq {"reset", "ready", "valid", "in", "out"}
    BY <1>3 DEF Drives, Thread
  <2> QED
    BY <2>1 DEF Buffer, Value, Channel, ValueOf
<1>5. phase = "evaluate" /\ OnList(methods) = {} /\ link["clk"] = NULL
      /\ notified["posedge"] # "DELTA" /\ notified["next_posedge"] # "DELTA"
  BY <1>3, Running
<1>6. SignalInv' /\ \A x \in Channel : x # c => link'[x] = link[x]
  BY <1>2, <1>3, <1>4, <1>5, RequestFacts
<1>7. link'["clk"] = NULL
  BY <1>4, <1>5, <1>6 DEF Channel
<1>8. RunInv' /\ EventInv'
  BY <1>3 DEF SInv, RunInv, EventInv
<1>9. PhaseInv'
  BY <1>3, <1>5, <1>7 DEF SInv, PhaseInv
<1>10. \A b \in Buffer : b # c => m_new_val'[b] = m_new_val[b]
  <2>1. m_new_val = [x \in Channel |-> m_new_val[x]]
    BY DEF SInv, SignalInv, Held
  <2> QED
    BY <1>2, <1>4, <2>1
<1> QED
  BY <1>3, <1>6, <1>8, <1>9, <1>10 DEF SInv

\* The next thread, or nobody.
LEMMA WaitStep ==
  ASSUME SInv, Wait
  PROVE  /\ SInv'
         /\ active \in Thread /\ phase' = "evaluate" /\ OnList(methods') = {}
         /\ link'["clk"] = NULL
         /\ \/ active' = Nobody /\ OnList(threads') = OnList(threads)
            \/ active' \in OnList(threads) /\ OnList(threads') = OnList(threads) \ {active'}
         /\ UNCHANGED <<m_cur_val, m_new_val>>
<1>1. /\ active \in Thread /\ PopRunnable(threads) /\ phase' = phase /\ methods' = methods
      /\ UNCHANGED <<m_cur_val, m_new_val, link, list, walk>> /\ notified' = notified
  BY DEF Wait, SuspendMe, signalVars
<1>2. phase = "evaluate" /\ OnList(methods) = {} /\ link["clk"] = NULL
      /\ notified["posedge"] # "DELTA" /\ notified["next_posedge"] # "DELTA"
  BY <1>1, Running
<1>3. Sound(threads) /\ OnList(threads) \subseteq Thread
  BY DEF SInv, RunInv
<1>4. Sound(threads')
      /\ \/ active' = Nobody /\ OnList(threads') = OnList(threads)
         \/ active' \in OnList(threads) /\ OnList(threads') = OnList(threads) \ {active'}
  BY <1>1, <1>3, PopRunnableFacts
<1>5. RunInv'
  BY <1>1, <1>3, <1>4, NobodyAssumption, KernelAssumption DEF SInv, RunInv
<1>6. SignalInv' /\ EventInv'
  BY <1>1 DEF SInv, SignalInv, EventInv
<1>7. PhaseInv'
  BY <1>1, <1>2 DEF PhaseInv
<1> QED
  BY <1>1, <1>2, <1>4, <1>5, <1>6, <1>7 DEF SInv

\* Nothing is runnable any more: perform_update takes the list over.
LEMMA StartUpdateStep ==
  ASSUME SInv, StartUpdate
  PROVE  /\ SInv'
         /\ phase = "evaluate" /\ active = Nobody /\ OnList(methods) = {} /\ OnList(threads) = {}
         /\ phase' = "update" /\ active' = Nobody /\ OnList(threads') = {}
         /\ UNCHANGED <<m_cur_val, m_new_val>>
<1>1. /\ phase = "evaluate" /\ active = Nobody /\ IsEmpty(methods) /\ IsEmpty(threads)
      /\ phase' = "update" /\ walk' = list /\ list' = END
      /\ UNCHANGED <<methods, threads, active, m_cur_val, m_new_val, link, notified>>
  BY DEF StartUpdate, runVars
<1>2. OnList(methods) = {} /\ OnList(threads) = {}
  BY <1>1, EmptyMeansNone DEF SInv, RunInv
<1>3. RunInv' /\ EventInv'
  BY <1>1 DEF SInv, RunInv, EventInv
<1>4. SignalInv'
  BY <1>1 DEF SInv, SignalInv
<1>5. PhaseInv'
  BY <1>1, <1>2 DEF SInv, PhaseInv
<1> QED
  BY <1>1, <1>2, <1>3, <1>4, <1>5 DEF SInv

\* One channel is updated: its value is the one requested, and it is off the list.
LEMMA PerformUpdateStep ==
  ASSUME SInv, PerformUpdate
  PROVE  /\ SInv'
         /\ phase = "update" /\ phase' = "update" /\ active = Nobody /\ active' = Nobody
         /\ OnList(threads) = {} /\ OnList(threads') = {} /\ m_new_val' = m_new_val
<1>1. /\ phase = "update" /\ walk # END
      /\ m_cur_val' = [m_cur_val EXCEPT ![walk] = m_new_val[walk]]
      /\ walk' = link[walk] /\ link' = [link EXCEPT ![walk] = NULL]
      /\ UNCHANGED <<phase, methods, threads, active, m_new_val, list>>
  BY DEF PerformUpdate, runVars
<1>2. notified' = notified \/ notified' = [notified EXCEPT !["posedge"] = "DELTA"]
  BY DEF PerformUpdate
<1>3. /\ Held(m_cur_val) /\ Held(m_new_val) /\ link \in Links
      /\ Pending(link, walk) /\ list = END
      /\ \A c \in Channel : link[c] = NULL => m_cur_val[c] = m_new_val[c]
  BY <1>1 DEF SInv, SignalInv
<1>4. walk \in Channel /\ link' \in Links /\ Pending(link', walk')
  BY <1>1, <1>3, PendingNext
<1>5. Held(m_cur_val') /\ \A c \in Channel : link'[c] = NULL => m_cur_val'[c] = m_new_val[c]
  BY <1>1, <1>3, <1>4 DEF Held, Links
<1>6. SignalInv'
  BY <1>1, <1>3, <1>4, <1>5 DEF SignalInv
<1>7. RunInv'
  BY <1>1 DEF SInv, RunInv
<1>8. EventInv' /\ notified'["next_posedge"] = notified["next_posedge"]
  BY <1>1, <1>2 DEF SInv, EventInv, Sensitive
<1>9. active = Nobody /\ OnList(methods) = {} /\ OnList(threads) = {}
      /\ notified["next_posedge"] # "DELTA"
  BY <1>1 DEF SInv, PhaseInv
<1>10. PhaseInv'
  BY <1>1, <1>8, <1>9 DEF PhaseInv
<1> QED
  BY <1>1, <1>6, <1>7, <1>8, <1>9, <1>10 DEF SInv

\* The update list has ended.
LEMMA UpdateDoneStep ==
  ASSUME SInv, UpdateDone
  PROVE  /\ SInv'
         /\ phase = "update" /\ phase' = "notify" /\ active = Nobody /\ active' = Nobody
         /\ OnList(threads) = {} /\ OnList(threads') = {} /\ m_new_val' = m_new_val
<1>1. /\ phase = "update" /\ walk = END /\ phase' = "notify"
      /\ UNCHANGED <<methods, threads, active, m_cur_val, m_new_val, link, list, walk, notified>>
  BY DEF UpdateDone, runVars, signalVars
<1>2. active = Nobody /\ OnList(methods) = {} /\ OnList(threads) = {} /\ list = END
      /\ notified["next_posedge"] # "DELTA"
  BY <1>1 DEF SInv, PhaseInv, SignalInv
<1>3. RunInv' /\ EventInv' /\ SignalInv'
  BY <1>1, <1>2 DEF SInv, RunInv, EventInv, SignalInv
<1>4. PhaseInv'
  BY <1>1, <1>2 DEF SInv, PhaseInv
<1> QED
  BY <1>1, <1>2, <1>3, <1>4 DEF SInv

\* An event, notified for this delta or due at this time: the processes sensitive to
\* it are added to their list.
LEMMA TriggerStep ==
  ASSUME SInv, NEW e \in DOMAIN Sensitive, TriggerEvent(e)
  PROVE  /\ Sound(methods') /\ Sound(threads')
         /\ active' = active /\ UNCHANGED <<m_cur_val, m_new_val, link, list, walk>>
         /\ notified' = [notified EXCEPT ![e] = "NONE"]
         /\ e = "posedge" => methods' = methods /\ OnList(threads') = OnList(threads) \cup Thread
         /\ e # "posedge" => /\ threads' = threads
                             /\ OnList(methods') # {}
                             /\ OnList(methods') \subseteq OnList(methods) \cup Method
<1>1. PICK order \in {Sensitive[e], Reverse(Sensitive[e])} :
        IF e = "posedge"
        THEN threads' = TriggerAll(threads, order) /\ UNCHANGED methods
        ELSE methods' = TriggerAll(methods, order) /\ UNCHANGED threads
  BY DEF TriggerEvent
<1>2. Sound(methods) /\ Sound(threads)
  BY DEF SInv, RunInv
<1>3. e \in {"next_posedge", "next_negedge", "posedge"}
  BY DEF Sensitive
<1>4. active' = active /\ UNCHANGED <<m_cur_val, m_new_val, link, list, walk>>
      /\ notified' = [notified EXCEPT ![e] = "NONE"]
  BY DEF TriggerEvent, signalVars
<1>5. CASE e = "posedge"
  BY <1>1, <1>2, <1>4, <1>5, TriggerFacts
<1>6. CASE e # "posedge"
  <2>1. methods' = TriggerAll(methods, order) /\ threads' = threads
    BY <1>1, <1>6
  <2>2. Sound(methods')
    BY <1>2, <2>1, TriggerFacts
  <2>3. \E p \in Method : OnList(methods') = OnList(methods) \cup {p}
    BY <1>2, <1>3, <1>6, <2>1, TriggerFacts DEF Method
  <2> QED
    BY <1>2, <1>4, <1>6, <2>1, <2>2, <2>3
<1> QED
  BY <1>5, <1>6

\* Behind the update phase every request has taken effect.
LEMMA AllUpdated ==
  ASSUME SInv, phase \in {"notify", "time"}
  PROVE  /\ \A c \in Channel : m_cur_val[c] = m_new_val[c] /\ link[c] = NULL
         /\ active = Nobody
<1>1. list = END /\ active = Nobody /\ phase # "update"
  BY DEF SInv, PhaseInv
<1>2. Pending(link, END)
  BY <1>1 DEF SInv, SignalInv
<1>3. \A c \in Channel : link[c] = NULL
  BY <1>2, NothingPending
<1> QED
  BY <1>1, <1>3 DEF SInv, SignalInv

\* An event of this delta.
LEMMA NotifyDeltaStep ==
  ASSUME SInv, NotifyDelta
  PROVE  /\ SInv'
         /\ phase = "notify" /\ phase' = "notify" /\ active = Nobody /\ active' = Nobody
         /\ UNCHANGED <<m_cur_val, m_new_val>>
         /\ \/ OnList(threads') = OnList(threads)
            \/ OnList(threads) = {} /\ OnList(threads') = Thread
<1>1. PICK e \in DOMAIN Sensitive : notified[e] = "DELTA" /\ TriggerEvent(e)
  BY DEF NotifyDelta
<1>2. phase = "notify" /\ phase' = "notify"
  BY DEF NotifyDelta
<1>3. active = Nobody /\ link["clk"] = NULL /\ list = END
  <2>1. "clk" \in Channel
    BY DEF Channel
  <2> QED
    BY <1>2, <2>1, AllUpdated DEF SInv, PhaseInv
<1>4. /\ Sound(methods') /\ Sound(threads')
      /\ active' = active /\ UNCHANGED <<m_cur_val, m_new_val, link, list, walk>>
      /\ notified' = [notified EXCEPT ![e] = "NONE"]
      /\ e = "posedge" => methods' = methods /\ OnList(threads') = OnList(threads) \cup Thread
      /\ e # "posedge" => /\ threads' = threads
                          /\ OnList(methods') \subseteq OnList(methods) \cup Method
  BY <1>1, TriggerStep
<1>5. SignalInv'
  BY <1>2, <1>4 DEF SInv, SignalInv
<1>6. EventInv' /\ notified'[e] = "NONE" /\ \A x \in DOMAIN Sensitive : x # e => notified'[x] = notified[x]
  BY <1>2, <1>4 DEF SInv, EventInv
<1>7. RunInv'
  <2>1. OnList(methods') \subseteq Method /\ OnList(threads') \subseteq Thread
    BY <1>4 DEF SInv, RunInv
  <2>2. active' \notin OnList(threads')
    BY <1>3, <1>4, NobodyAssumption, KernelAssumption DEF OnList
  <2> QED
    BY <1>3, <1>4, <2>1, <2>2 DEF RunInv
<1>8. {"posedge", "next_posedge"} \subseteq DOMAIN Sensitive
  BY DEF Sensitive
<1>9. CASE e = "posedge"
  <2>1. OnList(methods) = {} /\ OnList(threads) = {} /\ notified["next_posedge"] # "DELTA"
    BY <1>1, <1>9 DEF SInv, PhaseInv
  <2>2. OnList(threads') = Thread /\ OnList(methods') = {} /\ notified'["posedge"] = "NONE"
        /\ notified'["next_posedge"] # "DELTA"
    BY <1>4, <1>6, <1>8, <1>9, <2>1
  <2>3. PhaseInv'
    BY <1>2, <1>3, <1>4, <2>2 DEF PhaseInv
  <2> QED
    BY <1>2, <1>3, <1>4, <1>5, <1>6, <1>7, <2>1, <2>2, <2>3 DEF SInv
<1>10. CASE e # "posedge"
  <2>1. e = "next_posedge"
    BY <1>1, <1>10 DEF SInv, EventInv, Sensitive
  <2>2. OnList(threads) = {} /\ notified["posedge"] # "DELTA"
    BY <1>1, <2>1 DEF SInv, PhaseInv
  <2>3. OnList(threads') = {} /\ notified'["posedge"] # "DELTA" /\ notified'["next_posedge"] # "DELTA"
    BY <1>4, <1>6, <1>8, <1>10, <2>1, <2>2
  <2>4. PhaseInv'
    BY <1>2, <1>3, <1>4, <2>3 DEF PhaseInv
  <2> QED
    BY <1>2, <1>3, <1>4, <1>5, <1>6, <1>7, <2>2, <2>3, <2>4 DEF SInv
<1> QED
  BY <1>9, <1>10

\* All delta notifications were given.
LEMMA NotifyDoneStep ==
  ASSUME SInv, NotifyDone
  PROVE  /\ SInv'
         /\ phase = "notify" /\ active = Nobody /\ active' = Nobody
         /\ UNCHANGED <<m_cur_val, m_new_val>> /\ threads' = threads
         /\ phase' = "time" \/ OnList(methods') \cup OnList(threads') # {}
<1>1. /\ phase = "notify" /\ (\A e \in DOMAIN Sensitive : notified[e] # "DELTA")
      /\ phase' = IF IsEmpty(methods) /\ IsEmpty(threads) THEN "time" ELSE "evaluate"
      /\ UNCHANGED <<methods, threads, active, m_cur_val, m_new_val, link, list, walk, notified>>
  BY DEF NotifyDone, runVars, signalVars
<1>2. /\ IsEmpty(methods) <=> OnList(methods) = {}
      /\ IsEmpty(threads) <=> OnList(threads) = {}
  BY EmptyMeansNone DEF SInv, RunInv
<1>3. active = Nobody
  BY <1>1, AllUpdated
<1>4. notified["posedge"] # "DELTA" /\ notified["next_posedge"] # "DELTA"
  BY <1>1 DEF Sensitive
<1>5. RunInv' /\ EventInv'
  BY <1>1 DEF SInv, RunInv, EventInv
<1>6. SignalInv'
  BY <1>1 DEF SInv, SignalInv
<1>7. PhaseInv'
  BY <1>1, <1>2, <1>3, <1>4 DEF SInv, PhaseInv
<1> QED
  BY <1>1, <1>2, <1>3, <1>5, <1>6, <1>7 DEF SInv

\* The next edge: a method of the clock is runnable.
LEMMA AdvanceTimeStep ==
  ASSUME SInv, AdvanceTime
  PROVE  /\ SInv'
         /\ phase = "time" /\ phase' = "evaluate" /\ active = Nobody /\ active' = Nobody
         /\ UNCHANGED <<m_cur_val, m_new_val>>
         /\ OnList(threads) = {} /\ OnList(threads') = {} /\ OnList(methods') # {}
<1>1. PICK e \in DOMAIN Sensitive : notified[e] = "TIMED" /\ TriggerEvent(e)
  BY DEF AdvanceTime
<1>2. phase = "time" /\ phase' = "evaluate"
  BY DEF AdvanceTime
<1>3. active = Nobody /\ OnList(threads) = {} /\ OnList(methods) = {}
      /\ notified["posedge"] # "DELTA" /\ notified["next_posedge"] # "DELTA"
  BY <1>2 DEF SInv, PhaseInv
<1>4. e # "posedge"
  BY <1>1 DEF SInv, EventInv
<1>5. /\ Sound(methods') /\ threads' = threads
      /\ active' = active /\ UNCHANGED <<m_cur_val, m_new_val, link, list, walk>>
      /\ notified' = [notified EXCEPT ![e] = "NONE"]
      /\ OnList(methods') # {} /\ OnList(methods') \subseteq OnList(methods) \cup Method
  BY <1>1, <1>4, TriggerStep
<1>6. SignalInv'
  BY <1>2, <1>5 DEF SInv, SignalInv
<1>7. EventInv' /\ \A x \in DOMAIN Sensitive : notified'[x] = IF x = e THEN "NONE" ELSE notified[x]
  BY <1>2, <1>5 DEF SInv, EventInv
<1>8. RunInv'
  BY <1>3, <1>5 DEF SInv, RunInv
<1>9. {"posedge", "next_posedge"} \subseteq DOMAIN Sensitive
  BY DEF Sensitive
<1>10. PhaseInv'
  BY <1>2, <1>3, <1>5, <1>7, <1>9 DEF PhaseInv
<1> QED
  BY <1>2, <1>3, <1>5, <1>6, <1>7, <1>8, <1>10 DEF SInv

\* The invariant is inductive.
LEMMA SInvNext == SInv /\ [Next]_vars => SInv'
<1> SUFFICES ASSUME SInv, [Next]_vars PROVE SInv'
  OBVIOUS
<1>1. CASE KernelStep
  BY <1>1, RunMethodStep, RunThreadStep, StartUpdateStep, PerformUpdateStep, UpdateDoneStep,
     NotifyDeltaStep, NotifyDoneStep, AdvanceTimeStep DEF KernelStep
<1>2. CASE Write
  BY <1>2, WriteStep
<1>3. CASE Wait
  BY <1>3, WaitStep
<1>4. CASE UNCHANGED vars
  BY <1>4 DEF vars, SInv, RunInv, SignalInv, EventInv, PhaseInv
<1> QED
  BY <1>1, <1>2, <1>3, <1>4 DEF Next

\* What the kernel keeps true between any two of its steps.
THEOREM SchedulerInvariant == Spec => []SInv
BY SInvInit, SInvNext, PTL DEF Spec

\* The variables keep their types, the links of the run lists included.
THEOREM SchedulerTypeCorrect == Spec => []TypeOK
<1>1. SInv => TypeOK
  <2> SUFFICES ASSUME SInv PROVE TypeOK
    OBVIOUS
  <2>1. methods \in Lists /\ threads \in Lists
    BY EmptyMeansNone DEF SInv, RunInv
  <2>2. active \in Runnable \cup {Nobody}
    BY NobodyAssumption, KernelAssumption DEF SInv, RunInv
  <2>3. \A b \in Buffer : {m_cur_val[b], m_new_val[b]} \subseteq Value[b]
    <3>1. \A b \in Buffer : b \in Channel /\ ValueOf(b) = Value[b]
      BY DEF Channel, ValueOf, Buffer, Value
    <3> QED
      BY <3>1 DEF SInv, SignalInv, Held
  <2>4. {m_cur_val["clk"], m_new_val["clk"]} \subseteq BOOLEAN
    <3>1. "clk" \in Channel /\ ValueOf("clk") = BOOLEAN
      BY DEF Channel, ValueOf
    <3> QED
      BY <3>1 DEF SInv, SignalInv, Held
  <2>5. {list, walk} \subseteq Channel \cup {END}
    BY NothingPending DEF SInv, SignalInv
  <2>6. link \in [Channel -> Channel \cup {NULL, END}]
    BY DEF SInv, SignalInv, Links
  <2> QED
    BY <2>1, <2>2, <2>3, <2>4, <2>5, <2>6 DEF TypeOK, DispatchTypeOK, SInv, EventInv
<1> QED
  BY <1>1, SchedulerInvariant, PTL

\* The update list always ends, and request_update can trust m_update_next_p: it is set
\* for just the channels on the list, the last one included.
THEOREM SchedulerUpdateList == Spec => []UpdateListSound
<1>1. SInv => UpdateListSound
  <2> SUFFICES ASSUME SInv PROVE UpdateListSound
    OBVIOUS
  <2>1. CASE phase = "update"
    <3>1. Pending(link, walk) /\ list = END
      BY <2>1 DEF SInv, SignalInv
    <3> QED
      BY <3>1, ReachesPending DEF UpdateListSound
  <2>2. CASE phase # "update"
    <3>1. Pending(link, list) /\ walk = END
      BY <2>2 DEF SInv, SignalInv
    <3> QED
      BY <3>1, ReachesPending DEF UpdateListSound
  <2> QED
    BY <2>1, <2>2
<1> QED
  BY <1>1, SchedulerInvariant, PTL

-----------------------------------------------------------------------------
(* The kernel the threads are modelled with *)

\* The values of the channels are those of the abstract signals.
LEMMA SignalsAreTyped ==
  ASSUME NEW values, Held(values)
  PROVE  SignalsOf(values) \in Kernel!Signals
<1>1. Buffer = {"reset", "ready", "valid", "in", "out"}
  BY DEF Buffer, Value
<1>2. \A b \in Buffer : values[b] \in Value[b]
  BY <1>1 DEF Held, Channel, ValueOf
<1>3. /\ values["reset"] \in BOOLEAN /\ values["ready"] \in BOOLEAN /\ values["valid"] \in BOOLEAN
      /\ values["in"] \in [Lane -> Byte] /\ values["out"] \in [Lane -> Byte]
  BY <1>1, <1>2 DEF Value
<1>4. SignalsOf(values) = [reset |-> values["reset"], ready |-> values["ready"],
                           valid |-> values["valid"], in |-> values["in"], out |-> values["out"]]
  BY <1>1 DEF SignalsOf
<1> QED
  BY <1>3, <1>4 DEF Kernel!Signals, Kernel!Lane, Lane

\* The signals the kernel starts with.
LEMMA InitiallyNoSignal == SignalsOf(Initially) = Kernel!NoSignal
<1>1. Buffer = {"reset", "ready", "valid", "in", "out"} /\ Buffer \subseteq Channel
  BY DEF Channel, Buffer, Value
<1>2. SignalsOf(Initially) =
        [reset |-> Initially["reset"], ready |-> Initially["ready"], valid |-> Initially["valid"],
         in |-> Initially["in"], out |-> Initially["out"]]
  BY <1>1 DEF SignalsOf
<1>3. /\ Initially["reset"] = FALSE /\ Initially["ready"] = FALSE /\ Initially["valid"] = FALSE
      /\ Initially["in"] = [i \in Lane |-> Zero] /\ Initially["out"] = [i \in Lane |-> Zero]
  BY <1>1 DEF Initially
<1> QED
  BY <1>2, <1>3 DEF Kernel!NoSignal, Kernel!Lane, Lane

\* The values a port reads, and the threads of the present or of the next round.
Cur == SignalsOf(IF ToRun # {} \/ AllWaiting THEN m_cur_val ELSE m_new_val)
Nxt == SignalsOf(m_new_val)
ThreadsToRun == IF ToRun # {} THEN ToRun ELSE IF AllWaiting THEN {} ELSE Thread

\* The same in terms of who is on the run lists.
StageIs ==
  /\ ToRun = OnList(threads) \cup ({active} \ {Nobody})
  /\ AllWaiting <=> /\ phase = "evaluate" /\ active = Nobody /\ link["clk"] = NULL
                    /\ OnList(methods) = {} /\ OnList(threads) = {}

\* Each phase of the kernel belongs to one stage of a clock cycle.
LEMMA Stages == SInv => StageIs
<1> SUFFICES ASSUME SInv PROVE StageIs
  OBVIOUS
<1>1. /\ IsEmpty(methods) <=> OnList(methods) = {}
      /\ IsEmpty(threads) <=> OnList(threads) = {}
  BY EmptyMeansNone DEF SInv, RunInv
<1>2. ToRun = OnList(threads) \cup ({active} \ {Nobody})
  BY NobodyAssumption, KernelAssumption DEF ToRun, OnList, SInv, RunInv
<1> QED
  BY <1>1, <1>2 DEF AllWaiting, StageIs

\* Nothing of it is seen by the threads.
LEMMA KernelStutters ==
  ASSUME SInv, KernelStep, ~StartUpdate
  PROVE  UNCHANGED <<Cur, Nxt, ThreadsToRun>>
<1>1. StageIs
  BY Stages
<1>2. SInv'
  BY SInvNext DEF Next
<1>3. StageIs'
  BY <1>2, Stages, PTL
<1>4. CASE RunMethod
  <2>1. /\ OnList(methods) # {} /\ OnList(threads) = {} /\ OnList(threads') = {}
        /\ active = Nobody /\ active' = Nobody /\ link'["clk"] # NULL
        /\ \A b \in Buffer : m_new_val'[b] = m_new_val[b]
    BY <1>4, RunMethodStep
  <2>2. ToRun = {} /\ ToRun' = {} /\ ~AllWaiting /\ ~AllWaiting'
    BY <1>1, <1>3, <2>1 DEF StageIs
  <2>3. SignalsOf(m_new_val') = SignalsOf(m_new_val)
    BY <2>1 DEF SignalsOf
  <2> QED
    BY <2>2, <2>3 DEF Cur, Nxt, ThreadsToRun, SignalsOf
<1>5. CASE RunThread
  <2>1. /\ active = Nobody /\ active' \in OnList(threads)
        /\ OnList(threads') = OnList(threads) \ {active'}
        /\ UNCHANGED <<m_cur_val, m_new_val>>
    BY <1>5, RunThreadStep
  <2>2. active' # Nobody
    BY <2>1, NobodyAssumption, KernelAssumption DEF OnList
  <2>3. ToRun' = ToRun /\ ToRun # {}
    BY <1>1, <1>3, <2>1, <2>2 DEF StageIs
  <2> QED
    BY <2>1, <2>3 DEF Cur, Nxt, ThreadsToRun, SignalsOf
<1>6. CASE PerformUpdate \/ UpdateDone
  <2>1. /\ phase = "update" /\ phase' \in {"update", "notify"}
        /\ active = Nobody /\ active' = Nobody
        /\ OnList(threads) = {} /\ OnList(threads') = {} /\ m_new_val' = m_new_val
    BY <1>6, PerformUpdateStep, UpdateDoneStep
  <2>2. ToRun = {} /\ ToRun' = {} /\ ~AllWaiting /\ ~AllWaiting'
    BY <1>1, <1>3, <2>1 DEF StageIs
  <2> QED
    BY <2>1, <2>2 DEF Cur, Nxt, ThreadsToRun, SignalsOf
<1>7. CASE NotifyDelta
  <2>1. /\ phase = "notify" /\ phase' = "notify" /\ active = Nobody /\ active' = Nobody
        /\ UNCHANGED <<m_cur_val, m_new_val>>
        /\ \/ OnList(threads') = OnList(threads)
           \/ OnList(threads) = {} /\ OnList(threads') = Thread
    BY <1>7, NotifyDeltaStep
  <2>2. \A b \in Buffer : m_cur_val[b] = m_new_val[b]
    BY <2>1, AllUpdated DEF Channel
  <2>3. SignalsOf(m_cur_val) = SignalsOf(m_new_val)
    BY <2>2 DEF SignalsOf
  <2>4. ~AllWaiting /\ ~AllWaiting' /\ ToRun = OnList(threads) /\ ToRun' = OnList(threads')
    BY <1>1, <1>3, <2>1 DEF StageIs
  <2>5. SignalsOf(m_cur_val') = SignalsOf(m_cur_val) /\ SignalsOf(m_new_val') = SignalsOf(m_new_val)
    BY <2>1
  <2>6. Cur = SignalsOf(m_new_val) /\ Cur' = SignalsOf(m_new_val) /\ Nxt' = Nxt
    BY <2>3, <2>5 DEF Cur, Nxt
  <2>7. ThreadsToRun = (IF OnList(threads) # {} THEN OnList(threads) ELSE Thread)
        /\ ThreadsToRun' = (IF OnList(threads') # {} THEN OnList(threads') ELSE Thread)
    BY <2>4 DEF ThreadsToRun
  <2> QED
    BY <2>1, <2>6, <2>7
<1>8. CASE NotifyDone
  <2>1. /\ phase = "notify" /\ active = Nobody /\ active' = Nobody
        /\ UNCHANGED <<m_cur_val, m_new_val>> /\ threads' = threads
        /\ phase' = "time" \/ OnList(methods') \cup OnList(threads') # {}
    BY <1>8, NotifyDoneStep
  <2>2. ToRun' = ToRun /\ ~AllWaiting /\ ~AllWaiting'
    BY <1>1, <1>3, <2>1 DEF StageIs
  <2> QED
    BY <2>1, <2>2 DEF Cur, Nxt, ThreadsToRun, SignalsOf
<1>9. CASE AdvanceTime
  <2>1. /\ phase = "time" /\ active = Nobody /\ active' = Nobody
        /\ UNCHANGED <<m_cur_val, m_new_val>>
        /\ OnList(threads) = {} /\ OnList(threads') = {} /\ OnList(methods') # {}
    BY <1>9, AdvanceTimeStep
  <2>2. ToRun = {} /\ ToRun' = {} /\ ~AllWaiting /\ ~AllWaiting'
    BY <1>1, <1>3, <2>1 DEF StageIs
  <2> QED
    BY <2>1, <2>2 DEF Cur, Nxt, ThreadsToRun, SignalsOf
<1> QED
  BY <1>4, <1>5, <1>6, <1>7, <1>8, <1>9 DEF KernelStep

\* The update phase is where a new round takes over what the last one wrote.
LEMMA UpdateIsTheEdge ==
  ASSUME SInv, StartUpdate
  PROVE  UNCHANGED <<Cur, Nxt, ThreadsToRun>> \/ Kernel!NextEdge
<1>1. /\ phase = "evaluate" /\ active = Nobody /\ OnList(methods) = {} /\ OnList(threads) = {}
      /\ phase' = "update" /\ active' = Nobody /\ OnList(threads') = {} /\ SInv'
      /\ UNCHANGED <<m_cur_val, m_new_val>>
  BY StartUpdateStep
<1>2. StageIs
  BY Stages
<1>3. StageIs'
  BY <1>1, Stages, PTL
<1>4. ToRun = {} /\ ToRun' = {} /\ ~AllWaiting'
  BY <1>1, <1>2, <1>3 DEF StageIs
<1>5. Cur' = SignalsOf(m_new_val) /\ Nxt = SignalsOf(m_new_val) /\ Nxt' = Nxt /\ ThreadsToRun' = Thread
  BY <1>1, <1>4 DEF Cur, Nxt, ThreadsToRun, SignalsOf
<1>6. CASE AllWaiting
  BY <1>4, <1>5, <1>6 DEF Kernel!NextEdge, Kernel!Process, Thread, Cur, Nxt, ThreadsToRun
<1>7. CASE ~AllWaiting
  BY <1>4, <1>5, <1>7 DEF Cur, ThreadsToRun
<1> QED
  BY <1>6, <1>7

\* A write is part of an activation, and a wait() the end of one.
LEMMA ThreadsActivate ==
  ASSUME SInv, Write \/ Wait
  PROVE  \E p \in Kernel!Process : Kernel!Activation(p)
<1>1. StageIs
  BY Stages
<1>2. SInv'
  BY SInvNext DEF Next
<1>3. StageIs'
  BY <1>2, Stages, PTL
<1>4. active \in Thread /\ active # Nobody /\ active \in ToRun /\ active \notin OnList(threads)
  <2>1. active \in Thread
    BY DEF Write, Wait, SuspendMe
  <2> QED
    BY <1>1, <2>1, Running DEF SInv, RunInv, StageIs
<1>5. Nxt' \in Kernel!Signals
  BY <1>2, SignalsAreTyped DEF SInv, SignalInv, Nxt
<1>6. /\ Cur' = Cur
      /\ ThreadsToRun = ToRun
      /\ ThreadsToRun' = ToRun \/ ThreadsToRun' = ToRun \ {active}
  <2>1. CASE Write
    <3>1. active' = active /\ threads' = threads /\ m_cur_val' = m_cur_val
      BY <2>1, WriteStep
    <3>2. ToRun' = ToRun /\ ToRun # {}
      BY <1>1, <1>3, <1>4, <3>1 DEF StageIs
    <3> QED
      BY <3>1, <3>2 DEF Cur, ThreadsToRun, SignalsOf
  <2>2. CASE Wait
    <3>1. /\ phase' = "evaluate" /\ OnList(methods') = {} /\ link'["clk"] = NULL
          /\ \/ active' = Nobody /\ OnList(threads') = OnList(threads)
             \/ active' \in OnList(threads) /\ OnList(threads') = OnList(threads) \ {active'}
          /\ UNCHANGED <<m_cur_val, m_new_val>>
      BY <2>2, WaitStep
    <3>2. Nobody \notin OnList(threads)
      BY NobodyAssumption, KernelAssumption DEF OnList
    <3>3. ToRun' = ToRun \ {active}
      BY <1>1, <1>3, <1>4, <3>1, <3>2 DEF StageIs
    <3>4. ToRun' = {} => AllWaiting'
      BY <1>3, <3>1 DEF StageIs
    <3> QED
      BY <1>4, <3>1, <3>3, <3>4 DEF Cur, ThreadsToRun, SignalsOf
  <2> QED
    BY <2>1, <2>2
<1>7. \A b \in DOMAIN Nxt \ Kernel!Drives[active] : Nxt'[b] = Nxt[b]
  <2>1. Kernel!Drives = Drives
    BY DEF Kernel!Drives, Drives
  <2>2. \A b \in Buffer : b \notin Drives[active] => m_new_val'[b] = m_new_val[b]
    BY WriteStep, WaitStep
  <2>3. DOMAIN Nxt = Buffer /\ \A b \in Buffer : Nxt[b] = m_new_val[b] /\ Nxt'[b] = m_new_val'[b]
    BY DEF Nxt, SignalsOf
  <2> QED
    BY <2>1, <2>2, <2>3
<1>8. Kernel!Activation(active)
  BY <1>4, <1>5, <1>6, <1>7 DEF Kernel!Activation, Kernel!Wait, Cur, Nxt, ThreadsToRun
<1> QED
  BY <1>4, <1>8 DEF Kernel!Process, Thread

\* The kernel of the headers implements the kernel the threads are modelled with.
THEOREM SchedulerImplementsKernel == Spec => ImplementsKernel
<1>1. Init => Kernel!KernelInit
  <2> SUFFICES ASSUME Init PROVE Kernel!KernelInit
    OBVIOUS
  <2>1. SInv
    BY SInvInit
  <2>2. ToRun = {} /\ ~AllWaiting
    <3>1. OnList(threads) = {} /\ active = Nobody /\ phase = "notify"
      BY NoneAtFirst DEF Init, DispatchInit
    <3> QED
      BY <2>1, <3>1, Stages DEF StageIs
  <2>3. m_new_val = Initially
    BY DEF Init
  <2> QED
    BY <2>2, <2>3, InitiallyNoSignal DEF Kernel!KernelInit, Kernel!Process, Thread
<1>2. SInv /\ [Next]_vars => [Kernel!KernelNext]_Kernel!kernelVars
  <2> SUFFICES ASSUME SInv, [Next]_vars
               PROVE  Kernel!KernelNext \/ UNCHANGED Kernel!kernelVars
    OBVIOUS
  <2>1. UNCHANGED <<Cur, Nxt, ThreadsToRun>> => UNCHANGED Kernel!kernelVars
    BY DEF Cur, Nxt, ThreadsToRun, Kernel!kernelVars
  <2>2. CASE KernelStep
    BY <2>1, <2>2, KernelStutters, UpdateIsTheEdge DEF Kernel!KernelNext
  <2>3. CASE Write \/ Wait
    BY <2>3, ThreadsActivate DEF Kernel!KernelNext
  <2>4. CASE UNCHANGED vars
    BY <2>1, <2>4 DEF vars, Cur, Nxt, ThreadsToRun, ToRun, AllWaiting, SignalsOf
  <2> QED
    BY <2>2, <2>3, <2>4 DEF Next
<1> QED
  BY <1>1, <1>2, SchedulerInvariant, PTL DEF Spec, ImplementsKernel, Kernel!KernelSpec

=============================================================================
