-------------------------- MODULE SVTestBenchProofs --------------------------
(***************************************************************************)
(* Proofs about SVTestBench, for every size of code and chunk: SVInv       *)
(* (module SVPhases) is inductive.                                         *)
(***************************************************************************)
EXTENDS SVPhases, RSEncoderProofs

-----------------------------------------------------------------------------
(* The encoder runs *)

\* The encoder runs in an unsettled step only.
LEMMA EncoderRuns ==
  ASSUME SVInv, RunEncoder
  PROVE  /\ EncoderToRun /\ ~EncoderToRun' /\ (TestBenchToRun' <=> TestBenchToRun)
         /\ settled' = settled /\ svPc' = svPc /\ svCnt' = svCnt /\ svRecd' = svRecd /\ cur' = cur
         /\ TypeOK' /\ StoredSymbols'
         /\ ~Ended => ~settled
<1>1. "encoder" \in runnable /\ runnable' = runnable \ {"encoder"} /\ cur' = cur
  BY DEF RunEncoder, EncoderStep, EncoderReset, EncoderAnnounce, EncoderPause, EncoderReceive,
         EncoderEncode, EncodeAndSend, EncoderSend, EncoderEnd, Resumed, Wait
<1>2. UNCHANGED <<settled, benchVars>> /\ EncoderStep
  BY DEF RunEncoder
<1>3. TypeOK' /\ StoredSymbols'
  BY <1>2, EncoderTypeStep, StoredSymbolsStep DEF SVInv, TypeOK, benchVars, countVars
<1>4. ~Ended => ~settled
  <2>1. Quiet \/ ReadyRises \/ ValidRises \/ Ended
    BY DEF SVInv, Phase, Resetting, Beginning, Sending, Coding, Receiving
  <2>2. Quiet => ~settled
    BY <1>1 DEF Quiet
  <2>3. ~ReadyRises /\ ~ValidRises
    <3>1. runnable # {"testbench"}
      BY <1>1
    <3> QED
      BY <3>1 DEF ReadyRises, ValidRises
  <2> QED
    BY <2>1, <2>2, <2>3
<1>5. EncoderToRun /\ ~EncoderToRun' /\ (TestBenchToRun' <=> TestBenchToRun)
  BY <1>1 DEF EncoderToRun, TestBenchToRun
<1>6. settled' = settled /\ svPc' = svPc /\ svCnt' = svCnt /\ svRecd' = svRecd
  BY <1>2 DEF benchVars
<1> QED
  BY <1>1, <1>3, <1>4, <1>5, <1>6

LEMMA EncoderKeepsPhase ==
  ASSUME SVInv, RunEncoder
  PROVE  Phase'
<1>1. /\ EncoderToRun /\ ~EncoderToRun' /\ (TestBenchToRun' <=> TestBenchToRun)
      /\ settled' = settled /\ svPc' = svPc /\ svCnt' = svCnt /\ cur' = cur
      /\ TypeOK /\ EncoderStep /\ nxt \in Signals
  BY EncoderRuns DEF SVInv, RunEncoder, TypeOK, KernelTypeOK
<1>2. CASE Ended
  BY <1>1, <1>2 DEF Ended, Phase
<1>3. CASE ~Ended
  <2>1. /\ ~settled /\ ~settled' /\ EncoderDue = TRUE /\ EncoderDue' = FALSE
        /\ BenchDue' = BenchDue /\ Quiet'
    BY <1>1, <1>3, EncoderRuns DEF EncoderDue, BenchDue, Quiet
  <2>2. CASE Resetting
    <3>1. EncoderReset
      BY <1>1, <2>2 DEF Resetting, Control, EncoderStep, EncoderAnnounce, EncoderPause,
                        EncoderReceive, EncoderEncode, EncodeAndSend, EncoderSend, EncoderEnd, Resumed
    <3>2. /\ encPc' = "init" /\ nxt'.reset = nxt.reset /\ nxt'.ready = FALSE /\ nxt'.valid = FALSE
      BY <1>1, <3>1 DEF EncoderReset, Signals
    <3> QED
      BY <1>1, <2>1, <2>2, <3>2 DEF Resetting, Control, Phase
  <2>3. CASE Beginning
    <3>1. EncoderAnnounce
      BY <1>1, <2>1, <2>3 DEF Beginning, Control, EncoderStep, EncoderReset, EncoderPause,
                        EncoderReceive, EncoderEncode, EncodeAndSend, EncoderSend, EncoderEnd, Resumed
    <3>2. /\ encPc' = "ready" /\ nxt'.reset = nxt.reset /\ nxt'.ready = TRUE /\ nxt'.valid = nxt.valid
      BY <1>1, <3>1 DEF EncoderAnnounce, Signals
    <3> QED
      BY <1>1, <2>1, <2>3, <3>2 DEF Beginning, Control, Phase
  <2>4. ASSUME NEW c \in 0 .. nn + W, Sending(c)
        PROVE  Sending(c)'
    <3>1. encPc' = "recv" /\ encCnt' = c - W /\ nxt' = nxt
      <4>1. CASE c = W
        <5>1. EncoderPause
          BY <1>1, <2>1, <2>4, <4>1 DEF Sending, Control, EncoderStep, EncoderReset, EncoderAnnounce,
                        EncoderReceive, EncoderEncode, EncodeAndSend, EncoderSend, EncoderEnd, Resumed
        <5> QED
          BY <4>1, <5>1, Sizes DEF EncoderPause
      <4>2. CASE c # W
        <5>1. encPc = "recv" /\ encCnt = c - 2 * W /\ encCnt + NB_BYTE_INPUT = c - W /\ c - W < kk
          BY <2>1, <2>4, <4>2, Sizes DEF Sending, Encoder, W
        <5>2. EncoderReceive
          BY <1>1, <2>4, <5>1, Sizes DEF Sending, Control, EncoderStep, EncoderReset, EncoderAnnounce,
                        EncoderPause, EncoderEncode, EncodeAndSend, EncoderSend, EncoderEnd, Resumed, W
        <5> QED
          BY <5>1, <5>2 DEF EncoderReceive
      <4> QED
        BY <4>1, <4>2
    <3> QED
      BY <1>1, <2>1, <2>4, <3>1 DEF Sending, Control, Encoder, Bench
  <2>5. ASSUME NEW c \in 0 .. nn + W, Coding(c)
        PROVE  Coding(c)'
    <3>1. encPc = "recv" /\ encCnt + NB_BYTE_INPUT = c /\ kk <= c
      BY <2>1, <2>5, Sizes DEF Coding, Encoder, W
    <3>2. EncoderEncode
      BY <1>1, <2>5, <3>1, Sizes DEF Coding, Control, EncoderStep, EncoderReset, EncoderAnnounce,
                        EncoderPause, EncoderReceive, EncoderSend, EncoderEnd, Resumed
    <3>3. /\ encPc' = "send" /\ encCnt' = W /\ nxt'.out = Chunk(encMem', Recd(0))
          /\ nxt'.reset = nxt.reset /\ nxt'.ready = FALSE /\ nxt'.valid = TRUE
      BY <1>1, <3>2 DEF EncoderEncode, EncodeAndSend, Signals, W
    <3> QED
      BY <1>1, <2>1, <2>5, <3>3 DEF Coding, Control, Encoder, Bench, Out
  <2>6. ASSUME NEW c \in 0 .. nn + W, Receiving(c)
        PROVE  Receiving(c)'
    <3>1. encPc = "send" /\ encCnt = c /\ ~cur.reset
      BY <2>1, <2>6 DEF Receiving, Encoder, Control
    <3>2. encMem' = encMem
      BY <1>1, <3>1 DEF EncoderStep, EncoderReset, EncoderAnnounce, EncoderPause, EncoderReceive,
                        EncoderEncode, EncodeAndSend, EncoderSend, EncoderEnd, Resumed
    <3>3. CASE c < nn
      <4>1. EncoderSend
        BY <1>1, <3>1, <3>3, Sizes DEF EncoderStep, EncoderReset, EncoderAnnounce, EncoderPause,
                        EncoderReceive, EncoderEncode, EncodeAndSend, EncoderEnd, Resumed
      <4>2. /\ encPc' = "send" /\ encCnt' = c + W /\ nxt'.out = Chunk(encMem, Recd(c))
            /\ nxt'.reset = nxt.reset /\ nxt'.ready = nxt.ready /\ nxt'.valid = nxt.valid
        BY <1>1, <3>1, <4>1 DEF EncoderSend, Signals, W
      <4> QED
        BY <1>1, <2>1, <2>6, <3>2, <3>3, <4>2 DEF Receiving, Control, Encoder, Bench, Out
    <3>4. CASE ~(c < nn)
      <4>1. EncoderEnd
        BY <1>1, <3>1, <3>4, Sizes DEF EncoderStep, EncoderReset, EncoderAnnounce, EncoderPause,
                        EncoderReceive, EncoderEncode, EncodeAndSend, EncoderSend, Resumed
      <4>2. /\ encPc' = "ready"
            /\ nxt'.reset = nxt.reset /\ nxt'.ready = TRUE /\ nxt'.valid = FALSE
        BY <1>1, <4>1 DEF EncoderEnd, Signals
      <4> QED
        BY <1>1, <2>1, <2>6, <3>2, <3>4, <4>2 DEF Receiving, Control, Encoder, Bench, Out
    <3> QED
      BY <3>3, <3>4
  <2> QED
    BY <1>3, <2>1, <2>2, <2>3, <2>4, <2>5, <2>6 DEF SVInv, Phase, ReadyRises, ValidRises
<1> QED
  BY <1>2, <1>3

\* While the bench receives, the encoder does not touch its arrays.
LEMMA EncoderKeepsReceived ==
  ASSUME SVInv, RunEncoder
  PROVE  ReceivesOneChunkLate'
<1> SUFFICES ASSUME svPc = "recv" PROVE encMem' = encMem
  BY EncoderRuns DEF SVInv, ReceivesOneChunkLate
<1>1. ~cur.reset /\ encPc # "recv"
  BY DEF SVInv, Phase, Resetting, Beginning, ReadyRises, Sending, Coding, ValidRises, Receiving, Ended,
         Bench, Control, Encoder
<1> QED
  BY <1>1 DEF RunEncoder, EncoderStep, EncoderReset, EncoderAnnounce, EncoderPause, EncoderReceive,
              EncoderEncode, EncodeAndSend, EncoderSend, EncoderEnd, Resumed

\* One lemma for each process, then for each action of the bench.
LEMMA RunEncoderStep ==
  ASSUME SVInv, RunEncoder
  PROVE  SVInv'
BY EncoderRuns, EncoderKeepsPhase, EncoderKeepsReceived DEF SVInv

-----------------------------------------------------------------------------
(* The bench runs *)

\* What a step of the bench leaves alone.
LEMMA BenchFrame ==
  ASSUME SVInv, "testbench" \in runnable, Wait("testbench"), UNCHANGED <<settled, encVars>>
  PROVE  /\ TestBenchToRun = TRUE /\ TestBenchToRun' = FALSE /\ EncoderToRun' = EncoderToRun
         /\ BenchDue = TRUE /\ BenchDue' = settled /\ EncoderDue' = EncoderDue
         /\ settled' = settled /\ encPc' = encPc /\ encCnt' = encCnt /\ encMem' = encMem
         /\ EncoderTypeOK' /\ StoredSymbols' /\ runnable' \subseteq Process /\ settled' \in BOOLEAN
         /\ ~Ended
         /\ Quiet => settled = FALSE
         /\ settled => runnable' = {}
<1>1. /\ runnable' = runnable \ {"testbench"} /\ settled' = settled
      /\ encPc' = encPc /\ encCnt' = encCnt /\ encMem' = encMem
  BY DEF Wait, encVars
<1>2. settled \in BOOLEAN /\ runnable \subseteq Process
  BY DEF SVInv, TypeOK, KernelTypeOK
<1>3. /\ TestBenchToRun = TRUE /\ TestBenchToRun' = FALSE /\ EncoderToRun' = EncoderToRun
  BY <1>1 DEF TestBenchToRun, EncoderToRun
<1>4. /\ BenchDue = TRUE /\ BenchDue' = settled /\ EncoderDue' = EncoderDue
  BY <1>1, <1>2, <1>3 DEF BenchDue, EncoderDue
<1>5. EncoderTypeOK' /\ StoredSymbols' /\ runnable' \subseteq Process
  BY <1>1, <1>2 DEF SVInv, TypeOK, EncoderTypeOK, StoredSymbols
<1>6. ~Ended
  BY DEF Ended, TestBenchToRun
<1>7. Quiet => settled = FALSE
  BY <1>2 DEF Quiet
<1>8. settled => runnable' = {}
  <2>1. SUFFICES ASSUME settled PROVE runnable = {"testbench"}
    BY <1>1
  <2>2. ~Quiet
    BY <2>1 DEF Quiet
  <2>3. ReadyRises \/ ValidRises
    BY <1>6, <2>2 DEF SVInv, Phase, Resetting, Beginning, Sending, Coding, Receiving
  <2> QED
    BY <2>3 DEF ReadyRises, ValidRises
<1> QED
  BY <1>1, <1>2, <1>3, <1>4, <1>5, <1>6, <1>7, <1>8

\* The phase when the bench goes on from the place it waits at.
LEMMA WhereWoken ==
  ASSUME SVInv, "testbench" \in runnable, Wait("testbench"), UNCHANGED <<settled, encVars>>
  PROVE  /\ svPc = "reset" => Resetting
         /\ svPc = "release" => Beginning
         /\ svPc = "ready" => ReadyRises
         /\ svPc = "send" => \E c \in 0 .. nn + W : Sending(c) /\ svCnt = c
         /\ svPc = "valid" => ValidRises
         /\ svPc = "recv" => \E c \in 0 .. nn + W : Receiving(c) /\ svCnt = c
         /\ svPc # "end"
<1>1. BenchDue = TRUE /\ TestBenchToRun = TRUE /\ ~Ended
  BY BenchFrame
<1>3. CASE Resetting
  BY <1>1, <1>3 DEF Resetting
<1>4. CASE Beginning
  BY <1>1, <1>4 DEF Beginning
<1>5. CASE ReadyRises
  BY <1>5 DEF ReadyRises
<1>6. CASE ValidRises
  BY <1>6 DEF ValidRises
<1>7. ASSUME NEW c \in 0 .. nn + W, Sending(c)
      PROVE  svPc = "send" /\ svCnt = c
  BY <1>1, <1>7 DEF Sending, Bench
<1>8. ASSUME NEW c \in 0 .. nn + W, Coding(c)
      PROVE  FALSE
  BY <1>1, <1>8 DEF Coding
<1>9. ASSUME NEW c \in 0 .. nn + W, Receiving(c)
      PROVE  svPc = "recv" /\ svCnt = c
  BY <1>1, <1>9 DEF Receiving, Bench
<1> QED
  BY <1>1, <1>3, <1>4, <1>5, <1>6, <1>7, <1>8, <1>9 DEF SVInv, Phase

LEMMA ReleaseStep ==
  ASSUME SVInv, Release, UNCHANGED <<settled, encVars>>
  PROVE  SVInv'
<1>1. "testbench" \in runnable /\ Wait("testbench") /\ svPc = "reset"
  BY DEF Release, Woken
<1>2. Resetting
  BY <1>1, WhereWoken
<1>3. settled = FALSE /\ BenchDue' = FALSE /\ Quiet'
  BY <1>1, <1>2, BenchFrame DEF Resetting, Quiet
<1>4. /\ nxt' \in Signals /\ nxt'.reset = FALSE /\ nxt'.ready = nxt.ready /\ nxt'.valid = nxt.valid
      /\ cur' = cur /\ svPc' = "release"
  <2>1. nxt \in Signals /\ nxt' = [nxt EXCEPT !.reset = FALSE] /\ cur' = cur /\ svPc' = "release"
    BY DEF Release, SVInv, TypeOK, KernelTypeOK
  <2>2. nxt' \in Signals
    BY <2>1 DEF Signals
  <2>3. nxt'.reset = FALSE /\ nxt'.ready = nxt.ready /\ nxt'.valid = nxt.valid
    BY <2>1 DEF Signals
  <2> QED
    BY <2>1, <2>2, <2>3
<1>5. TypeOK'
  BY <1>1, <1>4, BenchFrame DEF Release, SVInv, TypeOK, KernelTypeOK, countVars
<1>6. Resetting'
  <2>1. EncoderDue' = EncoderDue /\ BenchDue' = FALSE /\ encPc' = encPc
    BY <1>1, <1>3, BenchFrame
  <2>2. /\ cur.reset = TRUE /\ cur.ready = FALSE /\ cur.valid = FALSE
        /\ nxt.ready = FALSE /\ nxt.valid = FALSE
    BY <1>2 DEF Resetting, Control
  <2> QED
    BY <1>2, <1>3, <1>4, <2>1, <2>2 DEF Resetting, Control
<1> QED
  BY <1>1, <1>4, <1>5, <1>6, BenchFrame DEF SVInv, Phase, ReceivesOneChunkLate

LEMMA BeginStep ==
  ASSUME SVInv, Begin, UNCHANGED <<settled, encVars>>
  PROVE  SVInv'
<1>1. "testbench" \in runnable /\ Wait("testbench") /\ svPc = "release"
  BY DEF Begin, Woken
<1>2. Beginning
  BY <1>1, WhereWoken
<1>3. settled = FALSE /\ BenchDue' = FALSE /\ Quiet'
  BY <1>1, <1>2, BenchFrame DEF Beginning, Quiet
<1>4. cur' = cur /\ nxt' = nxt /\ svPc' = "ready"
  BY DEF Begin
<1>5. TypeOK'
  BY <1>1, <1>4, BenchFrame, BenchAssumption DEF Begin, Generate, SVInv, TypeOK, KernelTypeOK
<1>6. Beginning'
  BY <1>1, <1>2, <1>3, <1>4, BenchFrame DEF Beginning, Control
<1> QED
  BY <1>1, <1>4, <1>5, <1>6, BenchFrame DEF SVInv, Phase, ReceivesOneChunkLate

\* A chunk on the port, in whatever step: the control signals and types stay.
LEMMA PutStep ==
  ASSUME SVInv, NEW a \in Nat, a < nn, Put(a),
         "testbench" \in runnable, Wait("testbench"), UNCHANGED <<settled, encVars>>
  PROVE  /\ TypeOK'
         /\ cur'.reset = cur.reset /\ cur'.ready = cur.ready /\ cur'.valid = cur.valid
         /\ nxt'.reset = nxt.reset /\ nxt'.ready = nxt.ready /\ nxt'.valid = nxt.valid
         /\ svPc' = "send" /\ svCnt' = a + W
<1>1. PICK chunk \in [Lane -> Byte] : /\ cur' = [cur EXCEPT !.in = chunk]
                                      /\ nxt' = [nxt EXCEPT !.in = chunk]
  BY DEF Put
<1>2. /\ cur' \in Signals /\ nxt' \in Signals
      /\ cur'.reset = cur.reset /\ cur'.ready = cur.ready /\ cur'.valid = cur.valid
      /\ nxt'.reset = nxt.reset /\ nxt'.ready = nxt.ready /\ nxt'.valid = nxt.valid
  BY <1>1 DEF SVInv, TypeOK, KernelTypeOK, Signals
<1>3. svPc' = "send" /\ svCnt' = a + W /\ svCnt' \in 0 .. nn + NB_BYTE_INPUT
  BY Sizes DEF Put, W
<1>4. TypeOK'
  BY <1>2, <1>3, BenchFrame DEF Put, SVInv, TypeOK, KernelTypeOK, countVars
<1> QED
  BY <1>2, <1>3, <1>4

LEMMA StartSendStep ==
  ASSUME SVInv, StartSend, UNCHANGED <<settled, encVars>>
  PROVE  SVInv'
<1>1. "testbench" \in runnable /\ Wait("testbench") /\ svPc = "ready" /\ Put(0) /\ 0 < nn
  BY Sizes DEF StartSend, Woken
<1>2. ReadyRises
  BY <1>1, WhereWoken
<1>3. settled /\ BenchDue' /\ EncoderDue' /\ Quiet'
  BY <1>1, <1>2, BenchFrame DEF ReadyRises, Quiet, EncoderDue
<1>4. W \in 0 .. nn + W /\ W <= W /\ W < kk + W /\ 0 + W = W
  BY Sizes
<1>5. Sending(W)'
  BY <1>1, <1>2, <1>3, <1>4, BenchFrame, PutStep DEF ReadyRises, Sending, Control, Bench
<1>6. TypeOK' /\ svPc' = "send"
  BY <1>1, PutStep
<1> QED
  BY <1>1, <1>4, <1>5, <1>6, BenchFrame DEF SVInv, Phase, ReceivesOneChunkLate

LEMMA SendStep ==
  ASSUME SVInv, Send, UNCHANGED <<settled, encVars>>
  PROVE  SVInv'
<1>1. "testbench" \in runnable /\ Wait("testbench") /\ svPc = "send" /\ Put(svCnt) /\ svCnt < kk
  BY DEF Send, Woken
<1>2. PICK c \in 0 .. nn + W : Sending(c) /\ svCnt = c
  BY <1>1, WhereWoken
<1>3. settled = FALSE /\ BenchDue' = FALSE /\ Quiet'
  BY <1>1, <1>2, BenchFrame DEF Sending, Quiet
<1>4. c \in Nat /\ c < nn /\ c < kk
  BY <1>1, <1>2, Sizes
<1>5. Sending(c)'
  BY <1>1, <1>2, <1>3, <1>4, BenchFrame, PutStep DEF Sending, Control, Bench, Encoder
<1>6. TypeOK' /\ svPc' = "send"
  BY <1>1, <1>2, <1>4, PutStep
<1> QED
  BY <1>1, <1>5, <1>6, BenchFrame DEF SVInv, Phase, ReceivesOneChunkLate

LEMMA SentStep ==
  ASSUME SVInv, Sent, UNCHANGED <<settled, encVars>>
  PROVE  SVInv'
<1>1. "testbench" \in runnable /\ Wait("testbench") /\ svPc = "send" /\ svCnt >= kk
  BY DEF Sent, Woken
<1>2. PICK c \in 0 .. nn + W : Sending(c) /\ svCnt = c
  BY <1>1, WhereWoken
<1>3. settled = FALSE /\ BenchDue' = FALSE /\ Quiet'
  BY <1>1, <1>2, BenchFrame DEF Sending, Quiet
<1>4. svPc' = "valid" /\ svCnt' = c /\ cur' = cur /\ nxt' = nxt /\ ~(c < kk)
  BY <1>1, <1>2, Sizes DEF Sent
<1>5. Sending(c)'
  BY <1>1, <1>2, <1>3, <1>4, BenchFrame DEF Sending, Control, Bench, Encoder
<1>6. TypeOK'
  BY <1>1, <1>4, BenchFrame DEF Sent, SVInv, TypeOK, KernelTypeOK, countVars
<1> QED
  BY <1>1, <1>4, <1>5, <1>6, BenchFrame DEF SVInv, Phase, ReceivesOneChunkLate

\* A chunk stored: the types, and what is new in recd[].
LEMMA TakeStep ==
  ASSUME SVInv, NEW a \in Nat, a < nn, Take(a),
         "testbench" \in runnable, Wait("testbench"), UNCHANGED <<settled, encVars>>
  PROVE  /\ TypeOK'
         /\ cur' = cur /\ nxt' = nxt /\ svPc' = "recv" /\ svCnt' = a + W
         /\ \A x \in 0 .. nn - 1 :
              svRecd'[x] = IF x - a \in Lane THEN cur.out[x - a] ELSE svRecd[x]
<1>1. /\ cur' = cur /\ nxt' = nxt /\ svPc' = "recv" /\ svCnt' = a + W
      /\ svCnt' \in 0 .. nn + NB_BYTE_INPUT
  BY Sizes DEF Take, W
<1>2. \A x \in 0 .. nn - 1 : svRecd'[x] = IF x - a \in Lane THEN cur.out[x - a] ELSE svRecd[x]
  BY DEF Take
<1>3. svRecd' \in [0 .. nn - 1 -> Byte]
  <2>1. cur.out \in [Lane -> Byte] /\ svRecd \in [0 .. nn - 1 -> Byte]
    BY DEF SVInv, TypeOK, KernelTypeOK, Signals
  <2> QED
    BY <2>1 DEF Take
<1>4. TypeOK'
  BY <1>1, <1>3, BenchFrame DEF Take, SVInv, TypeOK, KernelTypeOK, countVars
<1> QED
  BY <1>1, <1>2, <1>4

LEMMA StartReceiveStep ==
  ASSUME SVInv, StartReceive, UNCHANGED <<settled, encVars>>
  PROVE  SVInv'
<1>1. "testbench" \in runnable /\ Wait("testbench") /\ svPc = "valid" /\ Take(0) /\ 0 < nn
  BY Sizes DEF StartReceive, Woken
<1>2. ValidRises
  BY <1>1, WhereWoken
<1>3. settled /\ BenchDue' /\ EncoderDue' /\ Quiet'
  BY <1>1, <1>2, BenchFrame DEF ValidRises, Quiet, EncoderDue
<1>4. W \in 0 .. nn + W /\ W <= W /\ W < nn + W /\ 0 + W = W /\ W - W = 0
  BY Sizes
<1>5. encMem' = encMem /\ encPc' = encPc /\ encCnt' = encCnt
  BY <1>1, BenchFrame
<1>6. /\ TypeOK' /\ cur' = cur /\ nxt' = nxt /\ svPc' = "recv" /\ svCnt' = W
      /\ \A x \in 0 .. nn - 1 :
           svRecd'[x] = IF x - 0 \in Lane THEN cur.out[x - 0] ELSE svRecd[x]
  BY <1>1, <1>4, TakeStep
<1>7. Receiving(W)'
  BY <1>2, <1>3, <1>4, <1>5, <1>6 DEF ValidRises, Receiving, Control, Bench, Encoder, Out
<1>8. ReceivesOneChunkLate'
  <2> SUFFICES ASSUME NEW x \in 0 .. nn - 1, x < W
               PROVE  svRecd'[x] = ToByte(encMem[Recd(x)])
    BY <1>5, <1>6 DEF ReceivesOneChunkLate, W
  <2>1. x - 0 = x /\ x \in Lane /\ Recd(0) + x = Recd(x)
    BY Sizes DEF Lane, W, Recd
  <2> QED
    BY <1>2, <1>6, <2>1 DEF ValidRises, Out, Chunk
<1> QED
  BY <1>1, <1>4, <1>6, <1>7, <1>8, BenchFrame DEF SVInv, Phase

LEMMA ReceiveStep ==
  ASSUME SVInv, Receive, UNCHANGED <<settled, encVars>>
  PROVE  SVInv'
<1>1. "testbench" \in runnable /\ Wait("testbench") /\ svPc = "recv" /\ Take(svCnt) /\ svCnt < nn
  BY DEF Receive, Woken
<1>2. PICK c \in 0 .. nn + W : Receiving(c) /\ svCnt = c
  BY <1>1, WhereWoken
<1>3. settled = FALSE /\ BenchDue' = FALSE /\ Quiet'
  BY <1>1, <1>2, BenchFrame DEF Receiving, Quiet
<1>4. c \in Nat /\ c < nn /\ W <= c
  BY <1>1, <1>2, Sizes DEF Receiving
<1>5. encMem' = encMem /\ encPc' = encPc /\ encCnt' = encCnt /\ EncoderDue' = EncoderDue
  BY <1>1, BenchFrame
<1>6. /\ TypeOK' /\ cur' = cur /\ nxt' = nxt /\ svPc' = "recv" /\ svCnt' = c + W
      /\ \A x \in 0 .. nn - 1 :
           svRecd'[x] = IF x - c \in Lane THEN cur.out[x - c] ELSE svRecd[x]
  BY <1>1, <1>2, <1>4, TakeStep
<1>7. Receiving(c)'
  BY <1>2, <1>3, <1>4, <1>5, <1>6 DEF Receiving, Control, Bench, Encoder, Out
<1>8. ReceivesOneChunkLate'
  <2> SUFFICES ASSUME NEW x \in 0 .. nn - 1, x < c + W
               PROVE  svRecd'[x] = ToByte(encMem[Recd(IF x < W THEN x ELSE x - W)])
    BY <1>5, <1>6 DEF ReceivesOneChunkLate, W
  <2>1. CASE x < c
    <3>1. x - c \notin Lane
      BY <1>4, <2>1 DEF Lane
    <3> QED
      BY <1>1, <1>2, <1>6, <2>1, <3>1 DEF SVInv, ReceivesOneChunkLate, W
  <2>2. CASE ~(x < c)
    <3>1. /\ x - c \in Lane /\ ~(x < W)
          /\ Recd(c - W) + (x - c) = Recd(x - W)
      BY <1>4, <2>2, Sizes DEF Lane, W, Recd
    <3>2. cur.out = Chunk(encMem, Recd(c - W))
      BY <1>2 DEF Receiving, Out
    <3> QED
      BY <1>6, <3>1, <3>2 DEF Chunk
  <2> QED
    BY <2>1, <2>2
<1> QED
  BY <1>1, <1>2, <1>6, <1>7, <1>8, BenchFrame DEF SVInv, Phase

\* With tables full of 0 every symbol comes back from the decoder as 0.
LEMMA DecodeType ==
  ASSUME NEW word \in [0 .. nn - 1 -> Byte]
  PROVE  decode(word) \in [0 .. nn - 1 -> Byte]
<1> SUFFICES ASSUME NEW x \in 0 .. nn - 1
             PROVE  (IF index_of[word[x]] # -1 THEN alpha_to[index_of[word[x]]] ELSE 0) \in Byte
  BY DEF decode
<1>1. word[x] \in 0 .. nn /\ 0 \in 0 .. nn /\ 0 \in Byte
  BY SymbolAssumption, ByteAssumption, Sizes
<1>2. index_of[word[x]] = 0 /\ alpha_to[0] = 0
  BY <1>1 DEF index_of, alpha_to
<1> QED
  BY <1>1, <1>2

\* A word with errors injected is a word.
LEMMA NoisyType ==
  ASSUME NEW r \in [0 .. nn - 1 -> Byte], NEW word \in Noisy(r)
  PROVE  word \in [0 .. nn - 1 -> Byte]
<1>1. PICK where \in SUBSET (0 .. nn - 1) :
        \E e \in [where -> Byte] : word = [x \in 0 .. nn - 1 |-> IF x \in DOMAIN e THEN e[x] ELSE r[x]]
  BY DEF Noisy
<1>2. PICK e \in [where -> Byte] :
        word = [x \in 0 .. nn - 1 |-> IF x \in DOMAIN e THEN e[x] ELSE r[x]]
  BY <1>1
<1> QED
  BY <1>2

LEMMA CompareStep ==
  ASSUME SVInv, Compare, UNCHANGED <<settled, encVars>>
  PROVE  SVInv'
<1>1. "testbench" \in runnable /\ Wait("testbench") /\ svPc = "recv" /\ svCnt >= nn
  BY DEF Compare, Woken
<1>2. PICK c \in 0 .. nn + W : Receiving(c) /\ svCnt = c
  BY <1>1, WhereWoken
<1>3. settled = FALSE /\ BenchDue' = FALSE /\ TestBenchToRun' = FALSE /\ Quiet'
  BY <1>1, <1>2, BenchFrame DEF Receiving, Quiet
<1>4. cur' = cur /\ nxt' = nxt /\ svCnt' = svCnt /\ svPc' \in {"ready", "end"} /\ ~(c < nn)
  BY <1>1, <1>2, Sizes DEF Compare
<1>5. encMem' = encMem /\ encPc' = encPc /\ encCnt' = encCnt /\ EncoderDue' = EncoderDue
  BY <1>1, BenchFrame
<1>6. TypeOK'
  <2>1. svRecd' \in [0 .. nn - 1 -> Byte]
    BY DecodeType, NoisyType DEF Compare, SVInv, TypeOK
  <2>2. svData' \in Message /\ errorNumberIT' \in 0 .. tt + 1 /\ j' \in Seeds \cup {0}
    BY BenchAssumption, Sizes DEF Compare, Generate, SVInv, TypeOK
  <2> QED
    BY <1>1, <1>4, <2>1, <2>2, BenchFrame DEF SVInv, TypeOK, KernelTypeOK
<1>7. CASE svPc' = "ready"
  <2>1. Receiving(c)'
    BY <1>2, <1>3, <1>4, <1>5, <1>7 DEF Receiving, Control, Bench, Encoder, Out
  <2> QED
    BY <1>1, <1>2, <1>6, <1>7, <2>1, BenchFrame DEF SVInv, Phase, ReceivesOneChunkLate
<1>8. CASE svPc' = "end"
  BY <1>1, <1>3, <1>6, <1>8, BenchFrame DEF SVInv, Phase, Ended, ReceivesOneChunkLate
<1> QED
  BY <1>4, <1>7, <1>8

LEMMA RunBenchStep ==
  ASSUME SVInv, RunBench
  PROVE  SVInv'
BY ReleaseStep, BeginStep, StartSendStep, SendStep, SentStep, StartReceiveStep, ReceiveStep,
   CompareStep DEF RunBench

-----------------------------------------------------------------------------
(* The time step ends, and the next edge *)

\* A step that runs no process leaves the arrays of both sides alone.
LEMMA NoProcessRuns ==
  ASSUME SVInv, UNCHANGED <<nxt, encVars, benchVars>>, cur' \in Signals, settled' \in BOOLEAN,
         runnable' \subseteq Process, Phase'
  PROVE  SVInv'
BY DEF SVInv, TypeOK, KernelTypeOK, EncoderTypeOK, StoredSymbols, ReceivesOneChunkLate, encVars,
       benchVars, countVars

LEMMA SettleStep ==
  ASSUME SVInv, Settle
  PROVE  SVInv'
<1>1. /\ runnable = {} /\ settled = FALSE /\ settled' = TRUE /\ cur' = nxt
      /\ UNCHANGED <<nxt, encVars, benchVars>>
  BY DEF Settle, SVInv, TypeOK
<1>2. /\ encPc' = encPc /\ encCnt' = encCnt /\ encMem' = encMem /\ nxt' = nxt
      /\ svPc' = svPc /\ svCnt' = svCnt
  BY <1>1 DEF encVars, benchVars
<1>3. /\ EncoderDue = FALSE /\ BenchDue = FALSE /\ EncoderDue' = TRUE /\ BenchDue' = TRUE
  BY <1>1 DEF EncoderDue, BenchDue, EncoderToRun, TestBenchToRun
<1>4. Changes => runnable' = {"testbench"}
  BY DEF Settle
<1>5. ~Changes => runnable' = {} /\ Quiet' /\ ~TestBenchToRun'
  BY DEF Settle, Quiet, TestBenchToRun
<1>6. ASSUME Resetting
      PROVE  Phase'
  <2>1. encPc = "init" /\ svPc = "release" /\ Control(nxt, FALSE, FALSE, FALSE)
    BY <1>3, <1>6 DEF Resetting
  <2>2. ~Changes
    BY <2>1 DEF Changes
  <2>3. Beginning'
    BY <1>1, <1>2, <1>3, <1>5, <2>1, <2>2 DEF Beginning, Control
  <2> QED
    BY <2>3 DEF Phase
<1>7. ASSUME Beginning
      PROVE  Phase'
  <2>1. /\ encPc = "ready" /\ svPc = "ready"
        /\ Control(cur, FALSE, FALSE, FALSE) /\ Control(nxt, FALSE, TRUE, FALSE)
    BY <1>3, <1>7 DEF Beginning, Control
  <2>2. Changes
    BY <2>1 DEF Changes, Control
  <2>3. ReadyRises'
    BY <1>1, <1>2, <1>4, <2>1, <2>2 DEF ReadyRises, Control
  <2> QED
    BY <2>3 DEF Phase
<1>8. ASSUME NEW c \in 0 .. nn + W, Sending(c)
      PROVE  Phase'
  <2>1. /\ W <= c /\ c < kk + W /\ encPc = "recv" /\ encCnt = c - W
        /\ Control(cur, FALSE, TRUE, FALSE) /\ Control(nxt, FALSE, TRUE, FALSE)
        /\ IF c < kk THEN Bench("send", c + W) ELSE Bench("valid", c)
    BY <1>3, <1>8 DEF Sending, Encoder
  <2>2. ~Changes
    BY <2>1 DEF Changes, Control, Bench
  <2>3. CASE c < kk
    <3>1. PICK d \in 0 .. nn + W : d = c + W
      BY <2>1, <2>3, Sizes
    <3>2. W <= d /\ d < kk + W /\ d # W /\ d - 2 * W = c - W
      BY <2>1, <2>3, <3>1, Sizes
    <3>3. svPc' = "send" /\ svCnt' = d /\ encPc' = "recv" /\ encCnt' = d - 2 * W
      BY <1>2, <2>1, <2>3, <3>1, <3>2 DEF Bench
    <3>4. Sending(d)'
      BY <1>1, <1>2, <1>3, <1>5, <2>1, <2>2, <3>2, <3>3 DEF Sending, Control, Bench, Encoder
    <3> QED
      BY <3>4 DEF Phase
  <2>4. CASE ~(c < kk)
    <3>1. kk <= c
      BY <2>4, Sizes
    <3>2. Coding(c)'
      BY <1>1, <1>2, <1>3, <1>5, <2>1, <2>2, <2>4, <3>1 DEF Coding, Control, Bench, Encoder
    <3> QED
      BY <3>2 DEF Phase
  <2> QED
    BY <2>3, <2>4
<1>9. ASSUME NEW c \in 0 .. nn + W, Coding(c)
      PROVE  Phase'
  <2>1. /\ svPc = "valid" /\ Encoder("send", W) /\ Out(nxt, 0)
        /\ Control(cur, FALSE, TRUE, FALSE) /\ Control(nxt, FALSE, FALSE, TRUE)
    BY <1>3, <1>9 DEF Coding, Bench, Control
  <2>2. Changes
    BY <2>1 DEF Changes, Control
  <2>3. ValidRises'
    BY <1>1, <1>2, <1>4, <2>1, <2>2 DEF ValidRises, Control, Encoder, Out
  <2> QED
    BY <2>3 DEF Phase
<1>10. ASSUME NEW c \in 0 .. nn + W, Receiving(c)
       PROVE  Phase'
  <2>1. /\ W <= c /\ c < nn + W
        /\ IF c < nn THEN Encoder("send", c + W) /\ Out(nxt, c) ELSE encPc = "ready"
        /\ IF c < nn THEN Bench("recv", c + W) ELSE svPc = "ready"
        /\ Control(cur, FALSE, FALSE, TRUE)
        /\ IF c < nn THEN Control(nxt, FALSE, FALSE, TRUE) ELSE Control(nxt, FALSE, TRUE, FALSE)
    BY <1>3, <1>10 DEF Receiving
  <2>2. CASE c < nn
    <3>1. ~Changes
      BY <2>1, <2>2 DEF Changes, Bench
    <3>2. PICK d \in 0 .. nn + W : d = c + W
      BY <2>1, <2>2, Sizes
    <3>3. W <= d /\ d < nn + W /\ d - W = c
      BY <2>1, <2>2, <3>2, Sizes
    <3>4. /\ svPc' = "recv" /\ svCnt' = d /\ encPc' = "send" /\ encCnt' = d
          /\ nxt.out = Chunk(encMem, Recd(d - W))
      BY <1>2, <2>1, <2>2, <3>2, <3>3 DEF Bench, Encoder, Out
    <3>5. Receiving(d)'
      BY <1>1, <1>2, <1>3, <1>5, <2>1, <2>2, <3>1, <3>3, <3>4
         DEF Receiving, Control, Bench, Encoder, Out
    <3> QED
      BY <3>5 DEF Phase
  <2>3. CASE ~(c < nn)
    <3>1. Changes
      BY <2>1, <2>3 DEF Changes, Control
    <3>2. ReadyRises'
      BY <1>1, <1>2, <1>4, <2>1, <2>3, <3>1 DEF ReadyRises, Control
    <3> QED
      BY <3>2 DEF Phase
  <2> QED
    BY <2>2, <2>3
<1>11. ASSUME Ended
       PROVE  Phase'
  <2>1. ~Changes
    BY <1>11 DEF Ended, Changes
  <2>2. Ended'
    BY <1>2, <1>5, <1>11, <2>1 DEF Ended
  <2> QED
    BY <2>2 DEF Phase
<1>12. ~ReadyRises /\ ~ValidRises
  BY <1>1 DEF ReadyRises, ValidRises
<1>13. Phase'
  BY <1>6, <1>7, <1>8, <1>9, <1>10, <1>11, <1>12 DEF SVInv, Phase
<1>14. cur' \in Signals /\ settled' \in BOOLEAN /\ runnable' \subseteq Process
  BY <1>1, <1>4, <1>5 DEF SVInv, TypeOK, KernelTypeOK, Process
<1> QED
  BY <1>1, <1>13, <1>14, NoProcessRuns

LEMMA EdgeStep ==
  ASSUME SVInv, Edge
  PROVE  SVInv'
<1>1. /\ runnable = {} /\ settled = TRUE /\ settled' = FALSE /\ cur' = cur
      /\ UNCHANGED <<nxt, encVars, benchVars>>
  BY DEF Edge, SVInv, TypeOK
<1>2. /\ encPc' = encPc /\ encCnt' = encCnt /\ encMem' = encMem /\ nxt' = nxt
      /\ svPc' = svPc /\ svCnt' = svCnt
  BY <1>1 DEF encVars, benchVars
<1>3. /\ EncoderDue = TRUE /\ BenchDue = TRUE /\ EncoderDue' = TRUE /\ Quiet'
      /\ EncoderToRun'
  BY <1>1 DEF EncoderDue, BenchDue, EncoderToRun, Quiet, Edge
<1>4. TestBenchToRun' <=> svPc \in {"reset", "release", "send", "recv"}
  BY DEF Edge, TestBenchToRun
<1>5. svPc \in {"reset", "release", "send", "recv"} => BenchDue' = TRUE
  BY <1>4 DEF BenchDue
<1>6. ASSUME Resetting
      PROVE  Phase'
  BY <1>1, <1>2, <1>3, <1>5, <1>6 DEF Resetting, Control, Phase
<1>7. ASSUME Beginning
      PROVE  Phase'
  BY <1>1, <1>2, <1>3, <1>5, <1>7 DEF Beginning, Control, Phase
<1>8. ASSUME NEW c \in 0 .. nn + W, Sending(c)
      PROVE  Sending(c)'
  BY <1>1, <1>2, <1>3, <1>5, <1>8 DEF Sending, Control, Bench, Encoder
<1>9. ASSUME NEW c \in 0 .. nn + W, Coding(c)
      PROVE  Coding(c)'
  BY <1>1, <1>2, <1>3, <1>4, <1>9 DEF Coding, Control, Bench, Encoder
<1>10. ASSUME NEW c \in 0 .. nn + W, Receiving(c)
       PROVE  Receiving(c)'
  BY <1>1, <1>2, <1>3, <1>5, <1>10 DEF Receiving, Control, Bench, Encoder, Out
<1>11. ASSUME Ended
       PROVE  Phase'
  BY <1>2, <1>4, <1>11 DEF Ended, Phase
<1>12. ~ReadyRises /\ ~ValidRises
  BY <1>1 DEF ReadyRises, ValidRises
<1>13. Phase'
  BY <1>6, <1>7, <1>8, <1>9, <1>10, <1>11, <1>12 DEF SVInv, Phase
<1>14. cur' \in Signals /\ settled' \in BOOLEAN /\ runnable' \subseteq Process
  BY <1>1 DEF Edge, SVInv, TypeOK, KernelTypeOK, Process
<1> QED
  BY <1>1, <1>13, <1>14, NoProcessRuns

-----------------------------------------------------------------------------
(* The invariant *)

\* The initial state is the first phase.
LEMMA SVInit ==
  ASSUME Init
  PROVE  SVInv
<1>1. 0 \in 0 .. nn + NB_BYTE_INPUT /\ 0 \in 0 .. tt + 1
  BY Sizes DEF W
<1>2. TypeOK
  <2>1. cur \in Signals /\ nxt \in Signals
    BY ByteAssumption DEF Init, NoSignal, Signals
  <2>2. EncoderTypeOK
    BY <1>1, InitialMemoryAssumption DEF Init, EncoderInit, EncoderTypeOK
  <2> QED
    BY <1>1, <2>1, <2>2, ByteAssumption DEF Init, TypeOK, KernelTypeOK, Message
<1>3. /\ cur.reset = TRUE /\ cur.ready = FALSE /\ cur.valid = FALSE /\ nxt = cur
  BY DEF Init, NoSignal
<1>4. Resetting
  BY <1>3 DEF Init, EncoderInit, Resetting, Quiet, EncoderDue, BenchDue, Control
<1>5. StoredSymbols /\ ReceivesOneChunkLate
  BY DEF Init, EncoderInit, StoredSymbols, ReceivesOneChunkLate
<1> QED
  BY <1>2, <1>4, <1>5 DEF SVInv, Phase

\* The invariant is inductive.
LEMMA SVStep ==
  ASSUME SVInv, [Next]_vars
  PROVE  SVInv'
<1>1. CASE UNCHANGED vars
  <2>1. /\ UNCHANGED <<nxt, encVars, benchVars>> /\ cur' = cur /\ settled' = settled
        /\ runnable' = runnable
    BY <1>1 DEF vars
  <2>2. Phase'
    BY <2>1 DEF SVInv, Phase, Resetting, Beginning, ReadyRises, Sending, Coding, ValidRises,
                Receiving, Ended, Quiet, EncoderDue, BenchDue, EncoderToRun, TestBenchToRun, Control,
                Encoder, Bench, Out, encVars, benchVars
  <2> QED
    BY <2>1, <2>2, NoProcessRuns DEF SVInv, TypeOK, KernelTypeOK
<1> QED
  BY <1>1, RunBenchStep, RunEncoderStep, SettleStep, EdgeStep DEF Next

\* In every cycle the bench and the encoder are in the same phase of a vector, the bench
\* one chunk ahead when it sends and reading the port before the encoder writes it.
THEOREM SVInvariant == Spec => []SVInv
<1>1. Init => SVInv
  BY SVInit
<1>2. SVInv /\ [Next]_vars => SVInv'
  BY SVStep
<1> QED
  BY <1>1, <1>2, PTL DEF Spec

\* The bench too stays in its arrays and the range of its counters, with the decoder's
\* tables full of 0.
THEOREM SVTypeCorrect == Spec => []TypeOK
<1>1. SVInv => TypeOK
  BY DEF SVInv
<1> QED
  BY <1>1, SVInvariant, PTL

\* @(inputReadyPort) and @(outputValidPort) wake the bench at a rise only: it never takes
\* the end of one phase for the beginning of the next.
THEOREM BenchWakesOnRise == Spec => []WakesOnRise
<1>1. SVInv => WakesOnRise
  <2> SUFFICES ASSUME SVInv, settled PROVE WakesOnRise
    BY DEF WakesOnRise
  <2>1. EncoderDue = TRUE /\ BenchDue = TRUE /\ (Quiet => ~TestBenchToRun)
    BY DEF EncoderDue, BenchDue, Quiet, TestBenchToRun
  <2>2. CASE ReadyRises
    BY <2>2 DEF WakesOnRise, ReadyRises, Control
  <2>3. CASE ValidRises
    BY <2>3 DEF WakesOnRise, ValidRises, Control
  <2>4. ASSUME NEW c \in 0 .. nn + W, Coding(c)
        PROVE  WakesOnRise
    BY <2>1, <2>4 DEF WakesOnRise, Coding, Bench, Control, TestBenchToRun
  <2>5. CASE svPc \notin {"ready", "valid"}
    BY <2>5 DEF WakesOnRise
  <2> QED
    BY <2>1, <2>2, <2>3, <2>4, <2>5 DEF SVInv, Phase, Resetting, Beginning, Sending, Receiving,
                                        Ended, Bench
<1> QED
  BY <1>1, SVInvariant, PTL

\* Every vector comes back with its first chunk twice and each other chunk one chunk late,
\* whatever the sizes: the bench never sees the last chunk of a codeword in its place.
THEOREM BenchReceivesLate == Spec => []ReceivesOneChunkLate
<1>1. SVInv => ReceivesOneChunkLate
  BY DEF SVInv
<1> QED
  BY <1>1, SVInvariant, PTL
=============================================================================
