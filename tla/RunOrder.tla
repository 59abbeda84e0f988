------------------------------ MODULE RunOrder ------------------------------
(***************************************************************************)
(* What the run lists promise: the order in which processes run.  A round  *)
(* of processes is run to its end before those that became runnable        *)
(* meanwhile; a process that preempts the running one runs at once, and    *)
(* the preempted one right after it.                                       *)
(***************************************************************************)
EXTENDS Sequences, SequencesExt

CONSTANTS Runnable, Nobody

VARIABLES round,    \* the processes still to run in this round, in order
          later,    \* those of the next round
          running   \* the process that runs, or Nobody

Waiting == Runnable \ (ToSet(round) \cup ToSet(later) \cup {running})

Init ==
  /\ round = <<>>
  /\ later = <<>>
  /\ running = Nobody

Become(p) ==
  /\ p \in Waiting
  /\ \/ later' = Append(later, p)
     \/ later' = <<p>> \o later
  /\ UNCHANGED <<round, running>>

Cancel(p) ==
  /\ p # running
  /\ round' = RemoveFirst(round, p)
  /\ later' = RemoveFirst(later, p)
  /\ UNCHANGED running

Preempt(p) ==
  /\ running \in Runnable \ {p}
  /\ round' = <<running>> \o RemoveFirst(round, p)
  /\ later' = RemoveFirst(later, p)
  /\ running' = p

\* The next of s runs, if there is one.
RunFirst(s) ==
  /\ running' = IF s = <<>> THEN Nobody ELSE Head(s)
  /\ round' = IF s = <<>> THEN <<>> ELSE Tail(s)

Yield ==
  /\ running # Nobody
  /\ RunFirst(round)
  /\ UNCHANGED later

NextRound ==
  /\ running = Nobody
  /\ RunFirst(later)
  /\ later' = <<>>

Next ==
  \/ \E p \in Runnable : Become(p) \/ Cancel(p) \/ Preempt(p)
  \/ Yield
  \/ NextRound

Spec == Init /\ [][Next]_<<round, later, running>>
=============================================================================
