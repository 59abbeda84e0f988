---------------------------- MODULE SCScheduler ----------------------------
(***************************************************************************)
(* The SystemC kernel as its headers have it, around two threads that      *)
(* write what they like to the ports they drive: the run lists of methods  *)
(* beside those of threads (SCDispatch), the update list of the signals,   *)
(* the clock with its two methods, and the phases of sc_simcontext.  The   *)
(* loop that goes through the phases (crunch) and sc_event::trigger are in *)
(* the library's .cpp files.                                               *)
(***************************************************************************)
EXTENDS RSBuffers, SCDispatch

CONSTANT Written    \* the signals the two threads write to in this instance

VARIABLES phase,     \* m_execution_phase, and "time" when no delta is left
          methods,   \* the run lists of methods
          m_cur_val, m_new_val,    \* of every signal and of the clock
          link,      \* m_update_next_p of every signal and of the clock
          list,      \* m_update_list_p
          walk,      \* where perform_update is in the list it took over
          notified   \* m_notify_type of the three events of the clock

runVars    == <<methods, threads, active>>
signalVars == <<m_cur_val, m_new_val, link, list, walk>>
vars == <<phase, methods, threads, active, m_cur_val, m_new_val, link, list, walk, notified>>

Thread == {"encoder", "testbench"}
Method == {"posedge_action", "negedge_action"}

Value == [reset |-> BOOLEAN, ready |-> BOOLEAN, valid |-> BOOLEAN,
          in |-> [Lane -> Byte], out |-> [Lane -> Byte]]
Buffer  == DOMAIN Value
Channel == Buffer \cup {"clk"}

\* The pointers to processes and to channels that are none of them.
ASSUME KernelAssumption ==
  /\ Thread \cup Method \subseteq Runnable
  /\ {NULL, END} \cap Channel = {}

\* The events, and the processes that are sensitive to them.
Sensitive ==
  [next_posedge |-> <<"posedge_action">>, next_negedge |-> <<"negedge_action">>,
   posedge |-> <<"encoder", "testbench">>]

TypeOK ==
  /\ phase \in {"evaluate", "update", "notify", "time"}
  /\ methods \in Lists
  /\ DispatchTypeOK
  /\ \A b \in Buffer : {m_cur_val[b], m_new_val[b]} \subseteq Value[b]
  /\ {m_cur_val["clk"], m_new_val["clk"]} \subseteq BOOLEAN
  /\ link \in [Channel -> Channel \cup {NULL, END}]
  /\ {list, walk} \subseteq Channel \cup {END}
  /\ notified \in [DOMAIN Sensitive -> {"NONE", "DELTA", "TIMED"}]

Initially == [c \in Channel |-> IF c \in {"in", "out"} THEN [i \in Lane |-> Zero] ELSE FALSE]

\* The first rising edge is due at time 0.
Init ==
  /\ phase = "notify"
  /\ methods = EmptyLists
  /\ DispatchInit
  /\ m_cur_val = Initially
  /\ m_new_val = Initially
  /\ link = [c \in Channel |-> NULL]
  /\ list = END
  /\ walk = END
  /\ notified = [e \in DOMAIN Sensitive |-> IF e = "next_posedge" THEN "DELTA" ELSE "NONE"]

-----------------------------------------------------------------------------
\* (Definitions named Mut... are the errors in the code that the properties must find.)
\* request_update guarded by update_requested(), which takes an idle channel for a
\* listed one and the last of the list for an idle one.
MutRequestUpdate(c) ==
  IF link[c] = END
  THEN link' = [link EXCEPT ![c] = list] /\ list' = c
  ELSE UNCHANGED <<link, list>>

\* No guard: a channel written twice is put before itself.
MutRequestAgain(c) == link' = [link EXCEPT ![c] = list] /\ list' = c

RequestUpdate(c) ==
  IF link[c] = NULL
  THEN link' = [link EXCEPT ![c] = list] /\ list' = c
  ELSE UNCHANGED <<link, list>>

\* posedge_action and negedge_action, called through the method p of the clock: the
\* other edge is scheduled and the clock asks for an update.
ClockAction(p) ==
  /\ m_new_val' = [m_new_val EXCEPT !["clk"] = (p = "posedge_action")]
  /\ notified' = [notified EXCEPT
       ![IF p = "posedge_action" THEN "next_negedge" ELSE "next_posedge"] = "TIMED"]
  /\ RequestUpdate("clk")

\* A method runs to its end.
RunMethod ==
  /\ phase = "evaluate"
  /\ active = Nobody
  /\ \E q \in {Toggle(methods)} :
       /\ q.pop # END
       /\ methods' = Pop(q)
       /\ ClockAction(q.pop)
  /\ UNCHANGED <<phase, threads, active, m_cur_val, walk>>

RunThread ==
  /\ phase = "evaluate"
  /\ IsEmpty(methods)
  /\ ~IsEmpty(threads)
  /\ Dispatch
  /\ UNCHANGED <<phase, methods, signalVars, notified>>

Drives == [encoder |-> {"ready", "valid", "out"}, testbench |-> {"reset", "in"}]

\* sc_buffer::write
Write ==
  /\ active \in Thread
  /\ \E c \in Drives[active] \cap Written : \E v \in Value[c] :
       /\ m_new_val' = [m_new_val EXCEPT ![c] = v]
       /\ RequestUpdate(c)
  /\ UNCHANGED <<phase, runVars, m_cur_val, walk, notified>>

\* wait() gives way to the next thread.
Wait ==
  /\ active \in Thread
  /\ SuspendMe
  /\ UNCHANGED <<phase, methods, signalVars, notified>>

StartUpdate ==
  /\ phase = "evaluate"
  /\ active = Nobody
  /\ IsEmpty(methods)
  /\ IsEmpty(threads)
  /\ phase' = "update"
  /\ walk' = list
  /\ list' = END
  /\ UNCHANGED <<runVars, m_cur_val, m_new_val, link, notified>>

\* perform_update without clearing m_update_next_p.
MutPerformUpdate ==
  /\ phase = "update"
  /\ walk # END
  /\ m_cur_val' = [m_cur_val EXCEPT ![walk] = m_new_val[walk]]
  /\ notified' = IF walk = "clk" /\ m_new_val["clk"] /\ ~m_cur_val["clk"]
                 THEN [notified EXCEPT !["posedge"] = "DELTA"] ELSE notified
  /\ walk' = link[walk]
  /\ UNCHANGED <<phase, runVars, m_new_val, link, list>>

\* The next channel of the list: the value changes hands, a rising clock notifies its
\* event, and the channel is off the list.
PerformUpdate ==
  /\ phase = "update"
  /\ walk # END
  /\ m_cur_val' = [m_cur_val EXCEPT ![walk] = m_new_val[walk]]
  /\ notified' = IF walk = "clk" /\ m_new_val["clk"] /\ ~m_cur_val["clk"]
                 THEN [notified EXCEPT !["posedge"] = "DELTA"] ELSE notified
  /\ walk' = link[walk]
  /\ link' = [link EXCEPT ![walk] = NULL]
  /\ UNCHANGED <<phase, runVars, m_new_val, list>>

UpdateDone ==
  /\ phase = "update"
  /\ walk = END
  /\ phase' = "notify"
  /\ UNCHANGED <<runVars, signalVars, notified>>

TriggerStatic(q, p) == IF IsRunnable(q, p) THEN q ELSE PushBack(q, p)

\* trigger_static for the processes of s, one after the other.
TriggerAll(q, s) ==
  LET after[n \in 0 .. Len(s)] == IF n = 0 THEN q ELSE TriggerStatic(after[n - 1], s[n])
  IN  after[Len(s)]

\* Event e is notified: its processes become runnable, in an order of the kernel's own.
TriggerEvent(e) ==
  /\ notified' = [notified EXCEPT ![e] = "NONE"]
  /\ \E order \in {Sensitive[e], Reverse(Sensitive[e])} :
       IF e = "posedge"
       THEN threads' = TriggerAll(threads, order) /\ UNCHANGED methods
       ELSE methods' = TriggerAll(methods, order) /\ UNCHANGED threads
  /\ UNCHANGED <<active, signalVars>>

NotifyDelta ==
  /\ phase = "notify"
  /\ \E e \in DOMAIN Sensitive : notified[e] = "DELTA" /\ TriggerEvent(e)
  /\ UNCHANGED phase

NotifyDone ==
  /\ phase = "notify"
  /\ \A e \in DOMAIN Sensitive : notified[e] # "DELTA"
  /\ phase' = IF IsEmpty(methods) /\ IsEmpty(threads) THEN "time" ELSE "evaluate"
  /\ UNCHANGED <<runVars, signalVars, notified>>

\* Time advances to the only timed event there is, the next edge of the clock.
AdvanceTime ==
  /\ phase = "time"
  /\ \E e \in DOMAIN Sensitive : notified[e] = "TIMED" /\ TriggerEvent(e)
  /\ phase' = "evaluate"

KernelStep ==
  \/ RunMethod
  \/ RunThread
  \/ StartUpdate
  \/ PerformUpdate
  \/ UpdateDone
  \/ NotifyDelta
  \/ NotifyDone
  \/ AdvanceTime

Next ==
  \/ KernelStep
  \/ Write
  \/ Wait

\* Every thread comes to its next wait(), and the kernel goes on.
Spec == Init /\ [][Next]_vars /\ WF_vars(KernelStep) /\ WF_vars(Wait)

-----------------------------------------------------------------------------
\* The threads this rising edge still has to run, the running one included.
ToRun == { p \in Thread : IsRunnable(threads, p) \/ active = p }

\* All have run, and their writes are still to take effect.
AllWaiting ==
  /\ phase = "evaluate"
  /\ active = Nobody
  /\ IsEmpty(methods)
  /\ IsEmpty(threads)
  /\ link["clk"] = NULL

SignalsOf(values) == [b \in Buffer |-> values[b]]

Kernel == INSTANCE SCKernel WITH
  cur <- SignalsOf(IF ToRun # {} \/ AllWaiting THEN m_cur_val ELSE m_new_val),
  nxt <- SignalsOf(m_new_val),
  runnable <- IF ToRun # {} THEN ToRun ELSE IF AllWaiting THEN {} ELSE Thread

\* The kernel is the one the threads are modelled with: a write of one activation is
\* seen at the next rising edge, by both threads, not earlier, and none is lost.
ImplementsKernel == Kernel!KernelSpec

\* The signals on the list that starts at x, one more step than there are.
ReachedFrom(x) ==
  LET reached[n \in 0 .. Cardinality(Channel)] ==
        IF n = 0 THEN {x} ELSE reached[n - 1] \cup { link[c] : c \in reached[n - 1] \cap Channel }
  IN  reached[Cardinality(Channel)]

\* The update list, or what perform_update has left of it, ends; m_update_next_p, which
\* request_update trusts, is set for just the channels on it, the last one included.
UpdateListSound ==
  /\ {list, walk} \cap {END} # {}
  /\ ReachedFrom(list) \cup ReachedFrom(walk) = {END} \cup { c \in Channel : link[c] # NULL }

\* No thread is left out: each runs again and again.
EveryThreadRuns == \A p \in Thread : []<>(active = p)
=============================================================================
