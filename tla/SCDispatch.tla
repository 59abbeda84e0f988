----------------------------- MODULE SCDispatch -----------------------------
(***************************************************************************)
(* The run lists under everything the kernel does with them between two    *)
(* updates: threads become runnable by an event, are pushed to the front,  *)
(* removed, preempt one another (sc_simcontext_int.h, preempt_with) and    *)
(* give way in suspend_me (sc_thread_process.h).                           *)
(***************************************************************************)
EXTENDS SCRunnable

CONSTANT Nobody

ASSUME NobodyAssumption == Nobody \notin Runnable

VARIABLES threads,   \* the run lists
          active     \* the running process (m_curr_proc_info), or Nobody

dispatchVars == <<threads, active>>

DispatchTypeOK ==
  /\ threads \in Lists
  /\ active \in Runnable \cup {Nobody}

DispatchInit ==
  /\ threads = EmptyLists
  /\ active = Nobody

\* trigger_static for a thread that waits for its static event.
Trigger(p) ==
  /\ ~IsRunnable(threads, p)
  /\ p # active
  /\ threads' = PushBack(threads, p)
  /\ UNCHANGED active

\* push_runnable_thread_front, for which the same must hold: "Can't queue twice".
PushToFront(p) ==
  /\ ~IsRunnable(threads, p)
  /\ p # active
  /\ threads' = PushFront(threads, p)
  /\ UNCHANGED active

\* remove_runnable_thread
TakeOff(p) ==
  /\ p # active
  /\ threads' = TakeOut(threads, p)
  /\ UNCHANGED active

\* pop_runnable_thread: the popped thread is the running one.
PopRunnable(q) ==
  IF q.pop = END
  THEN threads' = q /\ active' = Nobody
  ELSE threads' = Pop(q) /\ active' = q.pop

\* suspend_me: the next thread of this round runs.
SuspendMe ==
  /\ active # Nobody
  /\ PopRunnable(threads)

\* The scheduler itself: a new round if the last one is over.
Dispatch ==
  /\ active = Nobody
  /\ PopRunnable(Toggle(threads))

\* The two pushed in the wrong order.
MutPreemptWith(p) ==
  /\ active \in Runnable \ {p}
  /\ PopRunnable(ExecuteNext(ExecuteNext(TakeOut(threads, p), p), active))

\* The running thread gives way to p, which runs at once, and continues after it.
PreemptWith(p) ==
  /\ active \in Runnable \ {p}
  /\ PopRunnable(ExecuteNext(ExecuteNext(TakeOut(threads, p), active), p))

\* A thread that preempts itself goes on.
PreemptSelf ==
  /\ active # Nobody
  /\ PopRunnable(ExecuteNext(threads, active))

DispatchNext ==
  \/ \E p \in Runnable : Trigger(p) \/ PushToFront(p) \/ TakeOff(p) \/ PreemptWith(p)
  \/ SuspendMe
  \/ Dispatch
  \/ PreemptSelf

DispatchSpec == DispatchInit /\ [][DispatchNext]_dispatchVars

-----------------------------------------------------------------------------
\* A process is never on the lists twice, nor on them while it runs, and m_runnable_p,
\* which trigger_static trusts, tells whether it is on one: also for the last of a list.
QueuedOnce ==
  /\ WellLinked(threads)
  /\ active # Nobody => ~IsRunnable(threads, active)

Order == INSTANCE RunOrder
           WITH round <- PopList(threads), later <- PushList(threads), running <- active

\* The lists realise the order of RunOrder: nobody is lost, overtaken or run twice.
RunsInOrder == Order!Spec
=============================================================================
