------------------------------ MODULE SCKernel ------------------------------
(***************************************************************************)
(* The part of the SystemC kernel the two threads rely on.  Both are       *)
(* SC_CTHREADs of the same clock: at a rising edge both become runnable    *)
(* and the kernel resumes them, one at a time and in no order the program  *)
(* fixes, each up to its next wait().  A port read returns the value a     *)
(* signal had at the edge; a write is requested and takes effect in the    *)
(* update phase, when no thread is runnable any more.                      *)
(***************************************************************************)
EXTENDS RSBuffers

VARIABLES cur,       \* the values of the signals of sc_main
          nxt,       \* the values requested for the update phase
          runnable   \* the threads this clock edge still has to resume

kernelVars == <<cur, nxt, runnable>>

Process == {"encoder", "testbench"}

Signals == [reset : BOOLEAN,         \* resetPort
            ready : BOOLEAN,         \* inputReadyPort
            valid : BOOLEAN,         \* outputValidPort
            in    : [Lane -> Byte],  \* dataInputPort, test bench to encoder
            out   : [Lane -> Byte]]  \* encodingOutputPort, encoder to test bench

KernelTypeOK ==
  /\ cur \in Signals
  /\ nxt \in Signals
  /\ runnable \subseteq Process

NoSignal == [reset |-> FALSE, ready |-> FALSE, valid |-> FALSE,
             in |-> [i \in Lane |-> Zero], out |-> [i \in Lane |-> Zero]]

EncoderToRun   == "encoder" \in runnable
TestBenchToRun == "testbench" \in runnable

Control(s, reset, ready, valid) ==
  /\ s.reset = reset
  /\ s.ready = ready
  /\ s.valid = valid

KernelInit ==
  /\ cur = NoSignal
  /\ nxt = NoSignal
  /\ runnable = Process

\* Thread p reaches a wait(): it stays out until the next edge.
Wait(p) == runnable' = runnable \ {p}

\* Update phase, time advance and the next rising edge.
NextEdge ==
  /\ runnable = {}
  /\ cur' = nxt
  /\ runnable' = Process
  /\ UNCHANGED nxt

\* The signals bound to the output ports of each module.
Drives == [encoder |-> {"ready", "valid", "out"}, testbench |-> {"reset", "in"}]

\* Thread p runs, up to its next wait() or not so far: it writes to its own signals.
Activation(p) ==
  /\ p \in runnable
  /\ nxt' \in Signals
  /\ \A s \in DOMAIN nxt \ Drives[p] : nxt'[s] = nxt[s]
  /\ runnable' = runnable \/ Wait(p)
  /\ UNCHANGED cur

KernelNext ==
  \/ \E p \in Process : Activation(p)
  \/ NextEdge

\* What any two threads may do with the signals, and no more.
KernelSpec == KernelInit /\ [][KernelNext]_kernelVars
=============================================================================
