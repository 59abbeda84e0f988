---------------------------- MODULE MonitorProofs ----------------------------
(***************************************************************************)
(* What the comments of the assertions in Monitor.sv say holds for every   *)
(* size of code and chunk, any data and a reset in any cycle: MonitorInv   *)
(* is inductive.  What four of them ask as written does not.               *)
(***************************************************************************)
EXTENDS Monitor, RSEncoderProofs

\* Rounds(n) is the number of chunks up to and with the one that completes n symbols.
LEMMA RoundsBound ==
  ASSUME NEW n \in Nat, NEW i \in Nat
  PROVE  /\ Rounds(n) \in Nat
         /\ i * NB_BYTE_INPUT < n <=> i < Rounds(n)
<1> DEFINE w == NB_BYTE_INPUT
           q == (n + w - 1) \div w
<1>1. w \in Nat /\ 0 < w
  BY Sizes DEF W
<1>2. q \in Nat /\ q * w <= n + w - 1 /\ n + w - 1 < (q + 1) * w
  BY <1>1
<1>3. CASE i < q
  <2>1. (i + 1) * w <= q * w
    BY <1>1, <1>2, <1>3
  <2>2. (i + 1) * w = i * w + w
    BY <1>1
  <2> QED
    BY <1>1, <1>2, <1>3, <2>1, <2>2 DEF Rounds
<1>4. CASE ~(i < q)
  <2>1. q * w <= i * w
    BY <1>1, <1>2, <1>4
  <2>2. (q + 1) * w = q * w + w
    BY <1>1, <1>2
  <2> QED
    BY <1>1, <1>2, <1>4, <2>1, <2>2 DEF Rounds
<1> QED
  BY <1>3, <1>4

\* A message takes a chunk at least and no more of them than its codeword.
LEMMA RoundsOfAPacket ==
  /\ Rounds(kk) \in Nat /\ 1 <= Rounds(kk)
  /\ Rounds(nn) \in Nat /\ 1 <= Rounds(nn)
  /\ Rounds(kk) <= Rounds(nn)
  /\ Horizon = Rounds(nn) + 1
<1>1. /\ Rounds(kk) \in Nat /\ Rounds(nn) \in Nat
      /\ 0 < Rounds(kk) /\ 0 < Rounds(nn)
  <2>1. 0 * NB_BYTE_INPUT = 0 /\ 0 < kk /\ 0 < nn
    BY Sizes DEF W
  <2> QED
    BY <2>1, RoundsBound, Sizes
<1>2. Rounds(kk) <= Rounds(nn)
  <2> SUFFICES ASSUME Rounds(nn) < Rounds(kk) PROVE FALSE
    BY <1>1
  <2>1. Rounds(nn) * NB_BYTE_INPUT < kk
    BY <1>1, RoundsBound, Sizes
  <2>2. Rounds(nn) * NB_BYTE_INPUT < nn
    BY <1>1, <2>1, Sizes DEF W
  <2> QED
    BY <1>1, <2>2, RoundsBound, Sizes
<1> QED
  BY <1>1, <1>2 DEF Horizon

-----------------------------------------------------------------------------
(* The assertions at an edge *)

\* What AtEdge says of the signals just sampled is what the assertions ask of them.
LEMMA AssertionsAtEdge ==
  TypeOK /\ ~cur.reset /\ AtEdge(cur, was, readyAge, validAge) => Assertions
<1> SUFFICES ASSUME TypeOK, ~cur.reset, AtEdge(cur, was, readyAge, validAge)
             PROVE  Assertions
  OBVIOUS
<1>1. encPc \in {"start", "init", "ready", "recv", "send"}
  BY DEF TypeOK, EncoderTypeOK
<1>2. /\ readyAge \in {Never} \cup 0 .. Horizon /\ validAge \in {Never} \cup 0 .. Horizon
      /\ cur.ready \in BOOLEAN /\ cur.valid \in BOOLEAN
      /\ was.ready \in BOOLEAN /\ was.valid \in BOOLEAN
  BY DEF TypeOK, MonitorTypeOK, KernelTypeOK, Signals
<1>3. CASE encPc \in {"start", "init"}
  BY <1>2, <1>3, RoundsOfAPacket
     DEF AtEdge, Assertions, ReadyThenValid, ValidThenReady, ReadyWhileReceiving, ValidWhileSending,
         MutualExclusion, Rose, Fell, Never
<1>4. CASE encPc = "ready"
  BY <1>2, <1>4, RoundsOfAPacket
     DEF AtEdge, Assertions, ReadyThenValid, ValidThenReady, ReadyWhileReceiving, ValidWhileSending,
         MutualExclusion, Rose, Fell, Never
<1>5. CASE encPc = "recv"
  BY <1>2, <1>5, RoundsOfAPacket
     DEF AtEdge, Assertions, ReadyThenValid, ValidThenReady, ReadyWhileReceiving, ValidWhileSending,
         MutualExclusion, Rose, Fell, Never
<1>6. CASE encPc = "send"
  BY <1>2, <1>6, RoundsOfAPacket
     DEF AtEdge, Assertions, ReadyThenValid, ValidThenReady, ReadyWhileReceiving, ValidWhileSending,
         MutualExclusion, Rose, Fell, Never
<1> QED
  BY <1>1, <1>3, <1>4, <1>5, <1>6

\* After a reset the assertions have nothing to remember.
LEMMA AssertionsAtReset ==
  cur.reset /\ readyAge = Never /\ validAge = Never /\ ~(cur.ready /\ cur.valid) => Assertions
BY RoundsOfAPacket
   DEF Assertions, ReadyThenValid, ValidThenReady, ReadyWhileReceiving, ValidWhileSending,
       MutualExclusion, Never

-----------------------------------------------------------------------------
(* The encoder runs *)

\* A signal that does not rise grows older, up to the horizon.
LEMMA Older ==
  ASSUME NEW before \in BOOLEAN, NEW now \in BOOLEAN, before \/ ~now, NEW age \in Int
  PROVE  /\ 0 <= age /\ age < Horizon => Aged(age, before, now) = age + 1
         /\ age < 0 \/ Horizon <= age => Aged(age, before, now) = Never
<1>1. Horizon \in Nat
  BY RoundsOfAPacket
<1>2. Aged(age, before, now) = IF age \in 0 .. Horizon - 1 THEN age + 1 ELSE Never
  BY DEF Aged
<1> QED
  BY <1>1, <1>2 DEF Never

\* What it was told at the edge decides what it leaves for the next one.
LEMMA RunEncoderStep ==
  ASSUME MonitorInv, RunEncoder
  PROVE  MonitorInv'
<1>1. TypeOK' /\ StoredSymbols'
  BY EncoderTypeStep, StoredSymbolsStep
     DEF MonitorInv, TypeOK, RunEncoder, monitorVars, MonitorTypeOK
<1>2. /\ nxt \in Signals /\ cur \in Signals
      /\ cur.ready \in BOOLEAN /\ cur.valid \in BOOLEAN
      /\ readyAge \in {Never} \cup 0 .. Horizon /\ validAge \in {Never} \cup 0 .. Horizon
      /\ encCnt \in Nat
  BY Sizes DEF MonitorInv, TypeOK, KernelTypeOK, EncoderTypeOK, MonitorTypeOK, Signals, W
<1>3. /\ "encoder" \in runnable /\ "encoder" \notin runnable' /\ BeforeEncoder
      /\ cur' = cur /\ UNCHANGED monitorVars
  BY DEF MonitorInv, RunEncoder, EncoderStep, EncoderReset, EncoderAnnounce, EncoderPause,
         EncoderReceive, EncoderEncode, EncodeAndSend, EncoderSend, EncoderEnd, Resumed, Wait
<1>4. Assertions'
  BY <1>3 DEF MonitorInv, monitorVars, Assertions, ReadyThenValid, ValidThenReady,
              ReadyWhileReceiving, ValidWhileSending, MutualExclusion
<1>5. /\ cur'.ready = cur.ready /\ cur'.valid = cur.valid
      /\ readyAge' = readyAge /\ validAge' = validAge
  BY <1>3 DEF monitorVars
<1>6. AfterEncoder'
  <2>1. CASE EncoderReset
    <3>1. readyAge = Never /\ validAge = Never
      BY <1>3, <2>1 DEF EncoderReset, BeforeEncoder, AtEdge
    <3>2. nxt'.ready = FALSE /\ nxt'.valid = FALSE /\ encPc' = "init"
      BY <1>2, <2>1 DEF EncoderReset, Signals
    <3> QED
      BY <1>5, <3>1, <3>2 DEF AfterEncoder, AtEdge, Aged, Never
  <2>2. CASE ~EncoderReset
    <3>1. /\ nxt.ready = cur.ready /\ nxt.valid = cur.valid
          /\ AtEdge(cur, was, readyAge, validAge)
      BY <1>3, <2>2 DEF RunEncoder, EncoderStep, EncoderAnnounce, EncoderPause, EncoderReceive,
                        EncoderEncode, EncodeAndSend, EncoderSend, EncoderEnd, Resumed,
                        MonitorInv, BeforeEncoder
    <3>2. CASE EncoderAnnounce
      <4>1. encPc = "init" /\ encPc' = "ready" /\ nxt'.ready = TRUE /\ nxt'.valid = nxt.valid
        BY <1>2, <3>2 DEF EncoderAnnounce, Resumed, Signals
      <4> QED
        BY <1>5, <3>1, <4>1 DEF AfterEncoder, AtEdge, Aged, Never
    <3>3. CASE EncoderPause
      <4>1. encPc = "ready" /\ encPc' = "recv" /\ nxt' = nxt /\ encCnt' = 0
        BY <3>3 DEF EncoderPause, Resumed
      <4>2. (1 - 1) * NB_BYTE_INPUT = 0
        BY Sizes DEF W
      <4> QED
        BY <1>2, <1>5, <3>1, <4>1, <4>2, RoundsOfAPacket DEF AfterEncoder, AtEdge, Aged, Never
    <3>4. CASE EncoderReceive
      <4>1. /\ encPc = "recv" /\ encPc' = "recv" /\ nxt' = nxt
            /\ encCnt + NB_BYTE_INPUT < kk /\ encCnt' = encCnt + NB_BYTE_INPUT
        BY <3>4 DEF EncoderReceive, Resumed
      <4>2. /\ readyAge \in 1 .. Rounds(kk) /\ encCnt = (readyAge - 1) * NB_BYTE_INPUT
            /\ validAge \notin 0 .. Rounds(nn)
            /\ cur.ready /\ ~cur.valid
        BY <3>1, <4>1 DEF AtEdge
      <4>3. encCnt' = readyAge * NB_BYTE_INPUT
        BY <4>1, <4>2, Sizes DEF W
      <4>4. readyAge < Rounds(kk)
        BY <4>1, <4>2, <4>3, RoundsBound, Sizes
      <4>5. Aged(readyAge, cur.ready, nxt'.ready) = readyAge + 1
        <5>1. cur.ready \in BOOLEAN /\ nxt'.ready \in BOOLEAN /\ (cur.ready \/ ~nxt'.ready)
          BY <1>2, <3>1, <4>1, <4>2
        <5>2. readyAge \in Int /\ 0 <= readyAge /\ readyAge < Horizon
          BY <4>2, <4>4, RoundsOfAPacket
        <5> QED
          BY <5>1, <5>2, Older
      <4>6. Aged(validAge, cur.valid, nxt'.valid) = Never
        BY <1>2, <3>1, <4>1, <4>2, Older, RoundsOfAPacket DEF Never
      <4>7. (readyAge + 1) - 1 = readyAge
        BY <4>2
      <4>8. AtEdge(nxt, cur, Aged(readyAge, cur.ready, nxt.ready), Aged(validAge, cur.valid, nxt.valid))'
        <5>1. nxt'.ready /\ ~nxt'.valid /\ cur'.ready
          BY <1>5, <3>1, <4>1, <4>2
        <5>2. readyAge + 1 \in 1 .. Rounds(kk)
          BY <4>2, <4>4, RoundsOfAPacket
        <5>3. encCnt' = ((readyAge + 1) - 1) * NB_BYTE_INPUT
          BY <4>3, <4>7
        <5>4. Never \notin 0 .. Rounds(nn)
          BY DEF Never
        <5> QED
          BY <1>5, <4>1, <4>5, <4>6, <5>1, <5>2, <5>3, <5>4 DEF AtEdge
      <4> QED
        BY <4>8 DEF AfterEncoder
    <3>5. CASE EncoderEncode
      <4>1. /\ encPc = "recv" /\ encPc' = "send" /\ nxt'.ready = FALSE /\ nxt'.valid = TRUE
            /\ encCnt + NB_BYTE_INPUT >= kk /\ encCnt' = NB_BYTE_INPUT
        BY <1>2, <3>5 DEF EncoderEncode, EncodeAndSend, Resumed, Signals
      <4>2. /\ readyAge \in 1 .. Rounds(kk) /\ encCnt = (readyAge - 1) * NB_BYTE_INPUT
            /\ cur.ready /\ ~cur.valid
        BY <3>1, <4>1 DEF AtEdge
      <4>3. encCnt + NB_BYTE_INPUT = readyAge * NB_BYTE_INPUT
        BY <4>2, Sizes DEF W
      <4>4. readyAge = Rounds(kk)
        <5>1. ~(readyAge * NB_BYTE_INPUT < kk)
          BY <4>1, <4>3, <1>2, Sizes DEF W
        <5> QED
          BY <4>2, <5>1, RoundsBound, RoundsOfAPacket, Sizes
      <4>5. Aged(readyAge, TRUE, FALSE) = Rounds(kk) + 1
        BY <4>4, RoundsOfAPacket DEF Aged
      <4>6. (0 + 1) * NB_BYTE_INPUT = NB_BYTE_INPUT
        BY Sizes DEF W
      <4>7. AtEdge(nxt, cur, Rounds(kk) + 1, 0)'
        BY <1>5, <4>1, <4>2, <4>6, RoundsOfAPacket DEF AtEdge
      <4>8. Aged(readyAge, cur.ready, nxt'.ready) = Rounds(kk) + 1
            /\ Aged(validAge, cur.valid, nxt'.valid) = 0
        BY <4>1, <4>2, <4>4, RoundsOfAPacket DEF Aged
      <4> QED
        BY <1>5, <4>7, <4>8 DEF AfterEncoder, Aged
    <3>6. CASE EncoderSend
      <4>1. /\ encPc = "send" /\ encPc' = "send" /\ nxt'.ready = nxt.ready /\ nxt'.valid = nxt.valid
            /\ encCnt < nn /\ encCnt' = encCnt + NB_BYTE_INPUT
        BY <1>2, <3>6 DEF EncoderSend, Resumed, Signals
      <4>2. /\ validAge \in 0 .. Rounds(nn) - 1 /\ encCnt = (validAge + 1) * NB_BYTE_INPUT
            /\ ~cur.ready /\ cur.valid
            /\ IF validAge = 0 THEN readyAge = Rounds(kk) + 1 ELSE readyAge \notin 0 .. Rounds(kk) + 1
        BY <3>1, <4>1 DEF AtEdge
      <4>3. validAge + 1 < Rounds(nn)
        BY <4>1, <4>2, RoundsBound, RoundsOfAPacket, Sizes
      <4>4. encCnt' = (validAge + 1 + 1) * NB_BYTE_INPUT
        BY <4>1, <4>2, Sizes DEF W
      <4>5. Aged(validAge, cur.valid, nxt'.valid) = validAge + 1
        <5>1. cur.valid \in BOOLEAN /\ nxt'.valid \in BOOLEAN /\ (cur.valid \/ ~nxt'.valid)
          BY <1>2, <3>1, <4>1, <4>2
        <5>2. validAge \in Int /\ 0 <= validAge /\ validAge < Horizon
          BY <4>2, <4>3, RoundsOfAPacket
        <5> QED
          BY <5>1, <5>2, Older
      <4>6. Aged(readyAge, cur.ready, nxt'.ready) \notin 0 .. Rounds(kk) + 1
        <5>1. readyAge \in Int /\ (readyAge < 0 \/ Rounds(kk) + 1 <= readyAge)
          BY <1>2, <4>2, RoundsOfAPacket DEF Never
        <5>2. Aged(readyAge, cur.ready, nxt'.ready) \in {Never, readyAge + 1}
          BY <1>2, <3>1, <4>1, <5>1, Older, RoundsOfAPacket
        <5>3. readyAge < 0 => Aged(readyAge, cur.ready, nxt'.ready) = Never
          BY <1>2, <3>1, <4>1, <5>1, Older
        <5> QED
          BY <5>1, <5>2, <5>3, RoundsOfAPacket DEF Never
      <4>7. /\ nxt'.valid /\ ~nxt'.ready /\ cur'.valid
            /\ validAge + 1 \in 0 .. Rounds(nn) - 1 /\ validAge + 1 # 0
        BY <1>5, <3>1, <4>1, <4>2, <4>3, RoundsOfAPacket
      <4> QED
        BY <1>5, <4>1, <4>4, <4>5, <4>6, <4>7 DEF AfterEncoder, AtEdge
    <3>7. CASE EncoderEnd
      <4>1. /\ encPc = "send" /\ encPc' = "ready" /\ nxt'.ready = TRUE /\ nxt'.valid = FALSE
            /\ encCnt >= nn
        BY <1>2, <3>7 DEF EncoderEnd, Resumed, Signals
      <4>2. /\ validAge \in 0 .. Rounds(nn) - 1 /\ encCnt = (validAge + 1) * NB_BYTE_INPUT
            /\ ~cur.ready /\ cur.valid
        BY <3>1, <4>1 DEF AtEdge
      <4>3. validAge + 1 = Rounds(nn)
        <5>1. ~((validAge + 1) * NB_BYTE_INPUT < nn)
          BY <1>2, <4>1, <4>2, Sizes
        <5> QED
          BY <4>2, <5>1, RoundsBound, RoundsOfAPacket, Sizes
      <4> QED
        BY <1>5, <4>1, <4>2, <4>3, RoundsOfAPacket DEF AfterEncoder, AtEdge, Aged
    <3> QED
      BY <2>2, <3>2, <3>3, <3>4, <3>5, <3>6, <3>7 DEF RunEncoder, EncoderStep
  <2> QED
    BY <2>1, <2>2
<1> QED
  BY <1>1, <1>3, <1>4, <1>6 DEF MonitorInv

-----------------------------------------------------------------------------
(* The driver runs, and the next edge *)

\* Any level on the reset port and any chunk: the handshake signals are not its.
LEMMA RunDriverStep ==
  ASSUME MonitorInv, RunDriver
  PROVE  MonitorInv'
<1>1. PICK level \in BOOLEAN, chunk \in [Lane -> Byte] :
        nxt' = [nxt EXCEPT !.reset = level, !.in = chunk]
  BY DEF RunDriver
<1>2. /\ cur' = cur /\ runnable' = runnable \ {"testbench"} /\ "testbench" # "encoder"
      /\ UNCHANGED encVars /\ UNCHANGED monitorVars
  BY DEF RunDriver, Wait
<1>3. nxt' \in Signals /\ nxt'.ready = nxt.ready /\ nxt'.valid = nxt.valid
  BY <1>1 DEF MonitorInv, TypeOK, KernelTypeOK, Signals
<1>4. TypeOK'
  BY <1>2, <1>3 DEF MonitorInv, TypeOK, KernelTypeOK, EncoderTypeOK, MonitorTypeOK, encVars,
                    monitorVars
<1>5. StoredSymbols' /\ Assertions'
  BY <1>2 DEF MonitorInv, StoredSymbols, encVars, monitorVars, Assertions, ReadyThenValid,
              ValidThenReady, ReadyWhileReceiving, ValidWhileSending, MutualExclusion
<1>6. ("encoder" \in runnable) = ("encoder" \in runnable')
  BY <1>2
<1>7. BeforeEncoder => BeforeEncoder'
  BY <1>2, <1>3 DEF BeforeEncoder, AtEdge, encVars, monitorVars
<1>8. AfterEncoder => AfterEncoder'
  BY <1>2, <1>3 DEF AfterEncoder, AtEdge, encVars, monitorVars
<1> QED
  BY <1>4, <1>5, <1>6, <1>7, <1>8 DEF MonitorInv

\* The assertions see the signals that the encoder has left, or drop their attempts.
LEMMA SampleStep ==
  ASSUME MonitorInv, Sample
  PROVE  MonitorInv'
<1>1. /\ runnable = {} /\ runnable' = Process /\ cur' = nxt /\ nxt' = nxt
      /\ encPc' = encPc /\ encCnt' = encCnt /\ encMem' = encMem
      /\ was' = [ready |-> cur.ready, valid |-> cur.valid]
  BY DEF Sample, NextEdge, SampleRises, encVars
<1>2. AfterEncoder
  BY <1>1 DEF MonitorInv
<1>3. /\ cur \in Signals /\ nxt \in Signals
      /\ readyAge \in {Never} \cup 0 .. Horizon /\ validAge \in {Never} \cup 0 .. Horizon
  BY DEF MonitorInv, TypeOK, KernelTypeOK, MonitorTypeOK
<1>4. was' \in [ready : BOOLEAN, valid : BOOLEAN]
  BY <1>1, <1>3 DEF Signals
<1>5. readyAge' \in {Never} \cup 0 .. Horizon /\ validAge' \in {Never} \cup 0 .. Horizon
  <2>1. ASSUME NEW age \in {Never} \cup 0 .. Horizon, NEW before, NEW now
        PROVE  Aged(age, before, now) \in {Never} \cup 0 .. Horizon
    BY RoundsOfAPacket DEF Aged, Never
  <2> QED
    BY <1>3, <2>1 DEF Sample, SampleRises
<1>6. TypeOK' /\ StoredSymbols'
  BY <1>1, <1>3, <1>4, <1>5 DEF MonitorInv, TypeOK, KernelTypeOK, EncoderTypeOK, MonitorTypeOK,
                                StoredSymbols
<1>7. ~(cur'.ready /\ cur'.valid) /\ encPc \in {"start", "init", "ready", "recv", "send"}
  BY <1>1, <1>2 DEF AfterEncoder, AtEdge, MonitorInv, TypeOK, EncoderTypeOK
<1>8. nxt'.ready = cur'.ready /\ nxt'.valid = cur'.valid
  BY <1>1
<1>9. CASE nxt.reset
  <2>1. readyAge' = Never /\ validAge' = Never /\ cur'.reset
    BY <1>1, <1>9 DEF Sample, SampleRises
  <2>2. BeforeEncoder'
    BY <1>8, <2>1 DEF BeforeEncoder
  <2>3. Assertions'
    <3>1. (cur.reset /\ readyAge = Never /\ validAge = Never /\ ~(cur.ready /\ cur.valid)
             => Assertions)'
      BY AssertionsAtReset, PTL
    <3> QED
      BY <1>7, <2>1, <3>1
  <2> QED
    BY <1>1, <1>6, <2>2, <2>3 DEF MonitorInv, Process
<1>10. CASE ~nxt.reset
  <2>1. /\ readyAge' = Aged(readyAge, cur.ready, nxt.ready)
        /\ validAge' = Aged(validAge, cur.valid, nxt.valid)
        /\ ~cur'.reset
    BY <1>1, <1>10 DEF Sample, SampleRises
  <2>2. was'.ready = cur.ready /\ was'.valid = cur.valid
    BY <1>1
  <2>3. AtEdge(cur, was, readyAge, validAge)'
    BY <1>1, <1>2, <2>1, <2>2 DEF AfterEncoder, AtEdge
  <2>4. BeforeEncoder'
    BY <1>8, <2>1, <2>3 DEF BeforeEncoder
  <2>5. Assertions'
    <3>1. (TypeOK /\ ~cur.reset /\ AtEdge(cur, was, readyAge, validAge) => Assertions)'
      BY AssertionsAtEdge, PTL
    <3> QED
      BY <1>6, <2>1, <2>3, <3>1
  <2> QED
    BY <1>1, <1>6, <2>4, <2>5 DEF MonitorInv, Process
<1> QED
  BY <1>9, <1>10

-----------------------------------------------------------------------------
(* The invariant *)

\* No edge was seen yet.
LEMMA MonitorInit ==
  ASSUME Init
  PROVE  MonitorInv
<1>1. TypeOK /\ StoredSymbols
  BY ByteAssumption, InitialMemoryAssumption, Sizes
     DEF Init, KernelInit, EncoderInit, TypeOK, KernelTypeOK, EncoderTypeOK, MonitorTypeOK,
         NoSignal, Signals, StoredSymbols, W
<1>2. /\ encPc = "start" /\ "encoder" \in runnable /\ readyAge = Never /\ validAge = Never
      /\ ~cur.ready /\ ~cur.valid /\ ~cur.reset /\ nxt = cur
  BY DEF Init, KernelInit, EncoderInit, NoSignal, Process
<1>3. AtEdge(cur, was, readyAge, validAge)
  BY <1>2 DEF AtEdge
<1>4. BeforeEncoder
  BY <1>2, <1>3 DEF BeforeEncoder
<1> QED
  BY <1>1, <1>2, <1>3, <1>4, AssertionsAtEdge DEF MonitorInv

\* The invariant is inductive.
LEMMA MonitorStep ==
  ASSUME MonitorInv, [Next]_vars
  PROVE  MonitorInv'
<1>1. CASE UNCHANGED vars
  BY <1>1 DEF vars, MonitorInv, TypeOK, KernelTypeOK, EncoderTypeOK, MonitorTypeOK, StoredSymbols,
              BeforeEncoder, AfterEncoder, AtEdge, Assertions, ReadyThenValid, ValidThenReady,
              ReadyWhileReceiving, ValidWhileSending, MutualExclusion
<1> QED
  BY <1>1, RunEncoderStep, RunDriverStep, SampleStep DEF Next

\* The ages of the two signals and the place of the encoder fit in every cycle.
THEOREM MonitorInvariant == Spec => []MonitorInv
<1>1. Init => MonitorInv
  BY MonitorInit
<1>2. MonitorInv /\ [Next]_vars => MonitorInv'
  BY MonitorStep
<1> QED
  BY <1>1, <1>2, PTL DEF Spec

\* The encoder's own array accesses stay in recd[], data[] and bb[] and its counter in its
\* range, whatever the driver sends and whenever it resets.
THEOREM MonitorTypeCorrect == Spec => []TypeOK
<1>1. MonitorInv => TypeOK
  BY DEF MonitorInv
<1> QED
  BY <1>1, MonitorInvariant, PTL

\* Comment of assertion 1: "valid" rises one cycle more after "ready" than a message has chunks.
THEOREM ReadyLeadsToValid == Spec => []ReadyThenValid
<1>1. MonitorInv => ReadyThenValid
  BY DEF MonitorInv, Assertions
<1> QED
  BY <1>1, MonitorInvariant, PTL

\* Comment of assertion 2: "ready" rises after as many cycles as a codeword has chunks.
THEOREM ValidLeadsToReady == Spec => []ValidThenReady
<1>1. MonitorInv => ValidThenReady
  BY DEF MonitorInv, Assertions
<1> QED
  BY <1>1, MonitorInvariant, PTL

\* Comment of assertion 3: "ready" stays up for the whole message and falls then.
THEOREM ReadyStaysUp == Spec => []ReadyWhileReceiving
<1>1. MonitorInv => ReadyWhileReceiving
  BY DEF MonitorInv, Assertions
<1> QED
  BY <1>1, MonitorInvariant, PTL

\* Comment of assertion 4: "valid" stays up for the whole codeword and falls then.
THEOREM ValidStaysUp == Spec => []ValidWhileSending
<1>1. MonitorInv => ValidWhileSending
  BY DEF MonitorInv, Assertions
<1> QED
  BY <1>1, MonitorInvariant, PTL

\* Comment of assertion 5: not even in the cycle of a reset are both signals up.
THEOREM NeverBoth == Spec => []MutualExclusion
<1>1. MonitorInv => MutualExclusion
  BY DEF MonitorInv, Assertions
<1> QED
  BY <1>1, MonitorInvariant, PTL

\* For every size and wherever a reset comes, no attempt of the assertions 1 to 3 as they
\* are written succeeds, and assertion 5 fails after each reset: what lines 10, 17, 24 and
\* 38 of Monitor.sv ask is not what their comments say, nor what the encoder does.
THEOREM AssertionsAsWrittenFail == Spec => []AttemptsFail
<1>1. MonitorInv => AttemptsFail
  <2> SUFFICES ASSUME MonitorInv PROVE AttemptsFail
    OBVIOUS
  <2>1. ReadyWhileReceiving /\ ValidWhileSending
    BY DEF MonitorInv, Assertions
  <2>2. Rounds(kk) \in Nat /\ Rounds(nn) \in Nat /\ 1 <= Rounds(kk) /\ 2 <= Rounds(nn)
    <3>1. W < nn /\ 1 * NB_BYTE_INPUT = W
      BY Sizes DEF W
    <3>2. 1 < Rounds(nn)
      BY <3>1, Sizes, RoundsBound
    <3> QED
      BY <3>2, RoundsOfAPacket
  <2>3. /\ validAge = 1 => ~BothLow
        /\ readyAge = 1 => ~BothLow
        /\ readyAge = Rounds(kk) => ~Fell(was.ready, cur.ready)
    BY <2>1, <2>2 DEF ReadyWhileReceiving, ValidWhileSending, BothLow, Fell
  <2>4. Resumed("init") => BothLow
    BY DEF MonitorInv, Resumed, BeforeEncoder, AtEdge, BothLow
  <2> QED
    BY <2>3, <2>4 DEF AttemptsFail
<1> QED
  BY <1>1, MonitorInvariant, PTL
=============================================================================
