----------------------------- MODULE SCRunnable -----------------------------
(***************************************************************************)
(* The two lists of runnable processes of the SystemC kernel               *)
(* (sysc/kernel/sc_runnable_int.h).  Processes are linked through their    *)
(* own field m_runnable_p, here next[p]; it is NULL while a process is on  *)
(* neither list and END, the value 0xdb, for the last one of a list.       *)
(* Processes are appended to the push list and taken from the pop list;    *)
(* toggle makes the one the other.  The lists of methods and of threads    *)
(* have the same code.                                                     *)
(***************************************************************************)
EXTENDS Naturals, Sequences, FiniteSets, SequencesExt

CONSTANTS Runnable,          \* the processes
          PushHead, NULL, END    \* m_threads_push_head, 0, SC_NO_THREADS

ASSUME PointersDiffer ==
  /\ IsFiniteSet(Runnable)
  /\ PushHead \notin Runnable \cup {NULL, END}
  /\ NULL \notin Runnable \cup {END}
  /\ END \notin Runnable

Lists == [next : [Runnable \cup {PushHead} -> Runnable \cup {NULL, END}],
          tail : Runnable \cup {PushHead},
          pop  : Runnable \cup {END}]

EmptyLists ==
  [next |-> [x \in Runnable \cup {PushHead} |-> IF x = PushHead THEN END ELSE NULL],
   tail |-> PushHead,
   pop  |-> END]

IsRunnable(q, p) == q.next[p] # NULL
IsEmpty(q) == q.next[PushHead] = END /\ q.pop = END

\* (Definitions named Mut... are the errors in the code that the properties must find.)
\* A list ended with 0, as the comment at the head of the file warns.
MutPushBack(q, p) ==
  [q EXCEPT !.next = [@ EXCEPT ![p] = NULL, ![q.tail] = p], !.tail = p]

PushBack(q, p) ==
  [q EXCEPT !.next = [@ EXCEPT ![p] = END, ![q.tail] = p], !.tail = p]

\* The first process pushed to the front of an empty list not made its tail.
MutPushFront(q, p) ==
  [q EXCEPT !.next = [@ EXCEPT ![p] = q.next[PushHead], ![PushHead] = p]]

PushFront(q, p) ==
  [q EXCEPT !.next = [@ EXCEPT ![p] = q.next[PushHead], ![PushHead] = p],
            !.tail = IF @ = PushHead THEN p ELSE @]

ExecuteNext(q, p) == [q EXCEPT !.next[p] = q.pop, !.pop = p]

\* Pop when the pop list is not empty: its first process is q.pop.
Pop(q) == [q EXCEPT !.next[q.pop] = NULL, !.pop = q.next[q.pop]]

Toggle(q) ==
  IF q.pop = END THEN [q EXCEPT !.pop = q.next[PushHead], !.next[PushHead] = END, !.tail = PushHead] ELSE q

\* The process before p on its list.
IsPrior(q, x, p) == q.next[x] = p

\* remove_thread without moving the tail back.
MutTakeOut(q, p) ==
  LET prior == { x \in Runnable \cup {PushHead} : IsPrior(q, x, p) }
  IN  [q EXCEPT !.next = [x \in DOMAIN @ |-> IF x = p THEN NULL
                                             ELSE IF x \in prior THEN @[p] ELSE @[x]],
                !.pop = IF @ = p THEN q.next[p] ELSE @]

\* p taken out of the list it is on, if any.
TakeOut(q, p) ==
  IF ~IsRunnable(q, p) THEN q
  ELSE LET prior == { x \in Runnable \cup {PushHead} : IsPrior(q, x, p) }
       IN  [q EXCEPT !.next = [x \in DOMAIN @ |-> IF x = p THEN NULL
                                                  ELSE IF x \in prior THEN @[p] ELSE @[x]],
                     !.tail = IF @ = p THEN CHOOSE x \in prior : TRUE ELSE @,
                     !.pop  = IF @ = p THEN q.next[p] ELSE @]

\* The processes reached from pointer x on, at most one more than there are.
ListFrom(q, x) ==
  LET walk[n \in 0 .. Cardinality(Runnable) + 1] ==
        IF n = 0 THEN <<>>
        ELSE LET sofar == walk[n - 1]
                 at == IF sofar = <<>> THEN x ELSE q.next[Last(sofar)]
             IN  IF at \in Runnable THEN Append(sofar, at) ELSE sofar
  IN  walk[Cardinality(Runnable) + 1]

PushList(q) == ListFrom(q, q.next[PushHead])
PopList(q)  == ListFrom(q, q.pop)

\* Each process is on the lists at most once, and its field tells whether it is.
WellLinked(q) ==
  LET both == PushList(q) \o PopList(q)
  IN  /\ IsInjective(both)
      /\ \A p \in Runnable : IsRunnable(q, p) <=> p \in ToSet(both)
      /\ q.tail = IF PushList(q) = <<>> THEN PushHead ELSE Last(PushList(q))

-----------------------------------------------------------------------------
\* The links lead from each process of s to the next one and from the last one to END.
Chained(q, s) ==
  \A i \in 1 .. Len(s) : q.next[s[i]] = IF i = Len(s) THEN END ELSE s[i + 1]

FirstOf(s) == IF s = <<>> THEN END ELSE s[1]

\* The push list is a and the pop list is b, said without following the links.
Linked(q, a, b) ==
  /\ q \in Lists
  /\ {a, b} \subseteq Seq(Runnable)
  /\ IsInjective(a) /\ IsInjective(b) /\ ToSet(a) \cap ToSet(b) = {}
  /\ Chained(q, a) /\ q.next[PushHead] = FirstOf(a)
  /\ Chained(q, b) /\ q.pop = FirstOf(b)
  /\ q.tail = IF a = <<>> THEN PushHead ELSE Last(a)
  /\ \A p \in Runnable : IsRunnable(q, p) <=> p \in ToSet(a) \cup ToSet(b)
=============================================================================
