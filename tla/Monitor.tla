------------------------------- MODULE Monitor -------------------------------
(***************************************************************************)
(* The assertions of SystemVerilog/Monitor.sv, over the encoder driven by  *)
(* a test bench that may raise the reset in any cycle and send anything.   *)
(*                                                                         *)
(* The assertions sample the signals at the rising edge.  readyAge and     *)
(* validAge are what their sequences remember: the cycles since "ready"    *)
(* (since "valid") was last seen to rise, Never once "disable iff (reset)" *)
(* has dropped the attempt or the horizon has passed.                      *)
(***************************************************************************)
EXTENDS RSEncoder

VARIABLES was,        \* ready and valid at the sample before this one
          readyAge,   \* cycles since $rose(encoderReadyPort)
          validAge    \* cycles since $rose(encoderValidPort)

monitorVars == <<was, readyAge, validAge>>
vars == <<cur, nxt, runnable, encPc, encCnt, encMem, was, readyAge, validAge>>

\* Clock cycles a packet of n symbols takes.
Rounds(n) == (n + NB_BYTE_INPUT - 1) \div NB_BYTE_INPUT

Never == -1
Horizon == Rounds(nn) + 1

MonitorTypeOK ==
  /\ was \in [ready : BOOLEAN, valid : BOOLEAN]
  /\ readyAge \in {Never} \cup 0 .. Horizon
  /\ validAge \in {Never} \cup 0 .. Horizon

Init ==
  /\ KernelInit
  /\ EncoderInit
  /\ was = [ready |-> FALSE, valid |-> FALSE]
  /\ readyAge = Never
  /\ validAge = Never

RunEncoder ==
  /\ EncoderStep
  /\ UNCHANGED monitorVars

\* The driver of the reset and of the input ports.
RunDriver ==
  /\ "testbench" \in runnable
  /\ \E level \in BOOLEAN, chunk \in [Lane -> Byte] :
       nxt' = [nxt EXCEPT !.reset = level, !.in = chunk]
  /\ Wait("testbench")
  /\ UNCHANGED <<cur, encVars, monitorVars>>

\* The age of a signal after a sample in which it is "now", "before" in the last one.
Aged(age, before, now) ==
  IF now /\ ~before THEN 0
  ELSE IF age \in 0 .. Horizon - 1 THEN age + 1 ELSE Never

\* disable iff (reset)
SampleRises ==
  /\ was' = [ready |-> cur.ready, valid |-> cur.valid]
  /\ readyAge' = IF nxt.reset THEN Never ELSE Aged(readyAge, cur.ready, nxt.ready)
  /\ validAge' = IF nxt.reset THEN Never ELSE Aged(validAge, cur.valid, nxt.valid)

Sample ==
  /\ NextEdge
  /\ SampleRises
  /\ UNCHANGED encVars

Next ==
  \/ RunEncoder
  \/ RunDriver
  \/ Sample

Spec == Init /\ [][Next]_vars

TypeOK == KernelTypeOK /\ EncoderTypeOK /\ MonitorTypeOK

Rose(before, now) == now /\ ~before
Fell(before, now) == before /\ ~now

-----------------------------------------------------------------------------
\* Comment of assertion 1: the encoder raises "valid" just one cycle more after
\* "ready" than the chunks of a message take (16), at no other time.
ReadyThenValid ==
  ~cur.reset => (Rose(was.valid, cur.valid) <=> readyAge = Rounds(kk) + 1)

\* Comment of assertion 2: after "valid" has risen, "ready" rises just when the chunks
\* of a codeword are through (16 cycles), and not earlier.
ValidThenReady ==
  validAge \in 1 .. Horizon => (Rose(was.ready, cur.ready) <=> validAge = Rounds(nn))

\* Comment of assertion 3: "ready" stays up until the whole message was received and
\* goes down then.  The assertions as written ask for something else: in the cycle after
\* "ready" rose, where number 2 wants it low again (Monitor.sv:17), it is up, and it is up
\* Rounds(kk) = 15 cycles after, where number 3 wants it to have fallen (Monitor.sv:24).
ReadyWhileReceiving ==
  /\ readyAge \in 0 .. Rounds(kk) => cur.ready
  /\ readyAge = Rounds(kk) + 1 => Fell(was.ready, cur.ready)

\* Assertion 4 without its stable(): "valid" stays up while the codeword is written
\* and falls 16 cycles after it rose.
ValidWhileSending ==
  /\ validAge \in 0 .. Rounds(nn) - 1 => cur.valid
  /\ validAge = Rounds(nn) => Fell(was.valid, cur.valid)

\* Comment of assertion 5: the two signals exclude each other.
MutualExclusion == ~(cur.ready /\ cur.valid)

\* What assertions 1 and 2 end in, and what 5 excludes.
BothLow == ~cur.ready /\ ~cur.valid

\* The assertions as written.  At the sample where it is decided, no attempt of number 1,
\* 2 or 3 succeeds that a reset has not dropped: a cycle after "valid" rose it is still up
\* (line 10), a cycle after "ready" rose it is still up (line 17), and 15 cycles after it
\* does not fall (line 24).  Number 5 (line 38) fails in the cycle after a reset.
AttemptsFail ==
  /\ validAge = 1 => ~BothLow
  /\ readyAge = 1 => ~BothLow
  /\ readyAge = Rounds(kk) => ~Fell(was.ready, cur.ready)
  /\ Resumed("init") => BothLow

-----------------------------------------------------------------------------
\* The inductive invariant.  Signals s of an edge, "before" those of the edge before it,
\* where the encoder is suspended, and the two ages at that edge: the age of "ready"
\* counts the chunks of the message, the age of "valid" those of the codeword.
AtEdge(s, before, r, v) ==
  /\ encPc \in {"start", "init"} => ~s.ready /\ ~s.valid /\ r = Never /\ v = Never
  /\ encPc = "ready" =>
       /\ s.ready /\ ~s.valid /\ ~before.ready
       /\ r = 0
       /\ v = Never \/ (v = Rounds(nn) /\ before.valid)
  /\ encPc = "recv" =>
       /\ s.ready /\ ~s.valid /\ before.ready
       /\ r \in 1 .. Rounds(kk)
       /\ encCnt = (r - 1) * NB_BYTE_INPUT
       /\ v \notin 0 .. Rounds(nn)
  /\ encPc = "send" =>
       /\ ~s.ready /\ s.valid
       /\ v \in 0 .. Rounds(nn) - 1
       /\ encCnt = (v + 1) * NB_BYTE_INPUT
       /\ IF v = 0 THEN ~before.valid /\ before.ready /\ r = Rounds(kk) + 1
                   ELSE before.valid /\ r \notin 0 .. Rounds(kk) + 1

\* Before the encoder runs in a cycle: a reset has ended what the assertions remember.
BeforeEncoder ==
  /\ nxt.ready = cur.ready
  /\ nxt.valid = cur.valid
  /\ IF cur.reset THEN readyAge = Never /\ validAge = Never
                  ELSE AtEdge(cur, was, readyAge, validAge)

\* After it: what the next edge will sample, unless it samples a reset.
AfterEncoder ==
  AtEdge(nxt, cur, Aged(readyAge, cur.ready, nxt.ready), Aged(validAge, cur.valid, nxt.valid))

Assertions ==
  /\ ReadyThenValid
  /\ ValidThenReady
  /\ ReadyWhileReceiving
  /\ ValidWhileSending
  /\ MutualExclusion

MonitorInv ==
  /\ TypeOK
  /\ StoredSymbols
  /\ IF "encoder" \in runnable THEN BeforeEncoder ELSE AfterEncoder
  /\ Assertions
=============================================================================
