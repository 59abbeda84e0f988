------------------------- MODULE MainTopLevelProofs -------------------------
(***************************************************************************)
(* Proofs about MainTopLevel, for every size of code, chunk and packet     *)
(* loop that meets the assumptions of RSCommon, RSBuffers and RSEncoderTB. *)
(* IInv (module Phases) is shown to be inductive, one lemma per action;    *)
(* then JudgeInv, with which the two threads implement StoreAndForward and *)
(* the decoder gives the message back.  That needs what the findings are   *)
(* about: rand() % 256 never hits index 255, and data[] holds symbols from *)
(* the start.                                                              *)
(***************************************************************************)
EXTENDS Phases, RSEncoderProofs, FiniteSetTheorems

LEMMA MessageInType ==
  ASSUME NEW mem \in Memory
  PROVE  MessageIn(mem) \in Message
<1> SUFFICES ASSUME NEW i \in 0 .. kk - 1 PROVE ToByte(mem[Data(i)]) \in Byte
  BY DEF MessageIn, Message
<1>1. Data(i) \in Addr
  BY Sizes DEF Addr, Data
<1> QED
  BY <1>1, ByteAssumption DEF Memory

LEMMA FlowType ==
  ASSUME NEW m \in Message, NEW x \in 0 .. nn + kk - 1
  PROVE  Flow(m, x) \in Byte
<1>1. CASE x < nn
  BY <1>1, CodewordType, Sizes DEF Flow, Vector
<1>2. CASE ~(x < nn)
  <2>1. x - nn \in 0 .. kk - 1
    BY <1>2, Sizes
  <2> QED
    BY <1>2, <2>1 DEF Flow, Message
<1> QED
  BY <1>1, <1>2

-----------------------------------------------------------------------------
(* Steps of the encoder *)

\* What a step of the encoder leaves alone.
LEMMA EncoderFrame ==
  ASSUME IInv, UNCHANGED tbVars
  PROVE  /\ TestBenchTypeOK'
         /\ TestBenchReceived'
         /\ Generated'
         /\ Counted'
         /\ MessageIn(tbMem)' = MessageIn(tbMem)
BY DEF IInv, TypeOK, tbVars, TestBenchTypeOK, TestBenchReceived, Generated, Counted

LEMMA ResetStep ==
  ASSUME IInv, EncoderReset, UNCHANGED tbVars
  PROVE  IInv'
<1>1. EncoderToRun /\ (Starting \/ Resetting)
  BY DEF IInv, EncoderReset, EncoderToRun, Phase, Starting, Resetting, Released, Announced,
         Sending, Encoding, Receiving, Ending, Decoding, Control, Encoder
<1>2. TypeOK'
  BY EncoderFrame, ByteAssumption DEF IInv, TypeOK, KernelTypeOK, EncoderTypeOK, EncoderReset, Signals, Wait
<1>3. Starting' \/ Resetting'
  BY <1>1 DEF IInv, TypeOK, KernelTypeOK, Signals, EncoderReset, Starting, Resetting, Control,
              EncoderToRun, TestBenchToRun, Wait, tbVars
<1>4. EncoderStored' /\ EncoderCoded'
  BY DEF EncoderReset, EncoderStored, EncoderCoded
<1> QED
  BY <1>2, <1>3, <1>4, EncoderFrame DEF IInv, Phase

LEMMA AnnounceStep ==
  ASSUME IInv, EncoderAnnounce, UNCHANGED tbVars
  PROVE  IInv'
<1>1. EncoderToRun /\ Released
  BY DEF IInv, EncoderAnnounce, Resumed, EncoderToRun, Phase, Starting, Resetting, Released,
         Announced, Sending, Encoding, Receiving, Ending, Decoding, Control, Encoder
<1>2. TypeOK'
  BY EncoderFrame DEF IInv, TypeOK, KernelTypeOK, EncoderTypeOK, EncoderAnnounce, Signals, Wait
<1>3. Released'
  BY <1>1 DEF IInv, TypeOK, KernelTypeOK, Signals, EncoderAnnounce, Released, Control,
              EncoderToRun, TestBenchToRun, Wait, tbVars
<1>4. EncoderStored' /\ EncoderCoded'
  BY DEF EncoderAnnounce, EncoderStored, EncoderCoded
<1> QED
  BY <1>2, <1>3, <1>4, EncoderFrame DEF IInv, Phase

LEMMA PauseStep ==
  ASSUME IInv, EncoderPause, UNCHANGED tbVars
  PROVE  IInv'
<1>1. EncoderToRun /\ (Announced \/ Decoding)
  BY DEF IInv, EncoderPause, Resumed, EncoderToRun, Phase, Starting, Resetting, Released,
         Announced, Sending, Encoding, Receiving, Ending, Decoding, Control, Encoder
<1>2. TypeOK'
  BY EncoderFrame, Sizes DEF IInv, TypeOK, KernelTypeOK, EncoderTypeOK, EncoderPause, Wait, W
<1>3. Announced' \/ Decoding'
  BY <1>1 DEF EncoderPause, Announced, Decoding, Control, Encoder, TestBench, Carries,
              EncoderToRun, TestBenchToRun, Wait, tbVars
<1>4. EncoderStored' /\ EncoderCoded'
  BY DEF EncoderPause, EncoderStored, EncoderCoded
<1> QED
  BY <1>2, <1>3, <1>4, EncoderFrame DEF IInv, Phase

\* The chunk on the input ports, stored behind the symbols already there.
LEMMA StoredChunk ==
  ASSUME IInv, encPc = "recv", NEW c \in 0 .. kk - 1, encCnt = c, Carries(cur, c),
         NEW i \in 0 .. kk - 1, i < c + W
  PROVE  Overwrite(encMem, Data(c), cur.in)[Data(i)] = MessageIn(tbMem)[i]
<1>1. Data(i) \in Addr /\ Data(c) \in Int /\ Data(i) - Data(c) = i - c
  BY Sizes DEF Addr, Data
<1>2. cur.in \in [Lane -> Byte]
  BY DEF IInv, TypeOK, KernelTypeOK, Signals
<1>3. CASE i - c \in Lane
  <2>1. cur.in[i - c] = ToByte(tbMem[Data(c) + (i - c)])
    BY <1>3 DEF Carries
  <2>2. Data(c) + (i - c) = Data(i)
    BY Sizes DEF Data
  <2> QED
    BY <1>1, <1>2, <1>3, <2>1, <2>2, StoredCell DEF MessageIn
<1>4. CASE i - c \notin Lane
  <2>1. i < c
    BY <1>4, Sizes DEF Lane, W
  <2>2. encMem[Data(i)] = MessageIn(tbMem)[i]
    BY <2>1 DEF IInv, EncoderStored
  <2> QED
    BY <1>1, <1>2, <1>4, <2>2, StoredCell
<1> QED
  BY <1>3, <1>4

LEMMA ReceiveStep ==
  ASSUME IInv, EncoderReceive, UNCHANGED tbVars
  PROVE  IInv'
<1>1. PICK c \in 0 .. nn : EncoderToRun /\ Sending(c)
  BY Sizes DEF IInv, EncoderReceive, Resumed, EncoderToRun, Phase, Starting, Resetting, Released,
         Announced, Sending, Encoding, Receiving, Ending, Decoding, Control, Encoder, W
<1>2. encCnt = c /\ encPc = "recv" /\ Carries(cur, c) /\ c + W < kk
  BY <1>1 DEF Sending, Encoder
<1>3. encMem' \in Memory
  <2>1. cur.in \in [Lane -> Byte]
    BY DEF IInv, TypeOK, KernelTypeOK, Signals
  <2>2. Data(encCnt) \in Int
    BY <1>2, Sizes DEF Data
  <2> QED
    BY <2>1, <2>2, OverwriteType, BytesAreWords DEF IInv, TypeOK, EncoderTypeOK, EncoderReceive
<1>4. TypeOK'
  BY <1>2, <1>3, EncoderFrame, Sizes
     DEF IInv, TypeOK, KernelTypeOK, EncoderTypeOK, EncoderReceive, Wait, W
<1>5. Sending(c)'
  BY <1>1, <1>2, Sizes DEF EncoderReceive, Sending, Control, Encoder, TestBench, Carries,
              EncoderToRun, TestBenchToRun, Wait, tbVars, W
<1>6. EncoderStored'
  <2>1. encCnt' = c + W /\ encMem' = Overwrite(encMem, Data(c), cur.in)
    BY <1>2 DEF EncoderReceive, W
  <2> SUFFICES ASSUME NEW i \in 0 .. kk - 1, i < c + W
               PROVE  encMem'[Data(i)] = MessageIn(tbMem)'[i]
    BY <2>1 DEF EncoderStored
  <2>2. c \in 0 .. kk - 1
    BY <1>2, Sizes
  <2> QED
    BY <1>2, <2>1, <2>2, StoredChunk, EncoderFrame
<1>7. EncoderCoded'
  BY <1>2 DEF EncoderReceive, EncoderCoded
<1> QED
  BY <1>4, <1>5, <1>6, <1>7, EncoderFrame DEF IInv, Phase

\* What the encoder's arrays hold once the last chunk is stored and encoded.
LEMMA AssembledFlow ==
  ASSUME NEW mem \in Memory, NEW m \in Message, m = Block(mem, Data(0), kk),
         NEW x \in 0 .. nn + kk - 1
  PROVE  Assembled(mem)[x] = Flow(m, x)
<1>1. x \in Addr /\ x - Recd(0) = x
  BY Sizes DEF Addr, Recd
<1>2. DOMAIN Codeword(m) = 0 .. nn - 1
  BY DEF Codeword
<1>3. PICK coded : coded = Overwrite(mem, BB(0), Encode[m])
  OBVIOUS
<1>4. Assembled(mem) = Overwrite(coded, Recd(0), Codeword(m))
  BY <1>3 DEF Assembled
<1>5. Assembled(mem)[x] = IF x \in 0 .. nn - 1 THEN Codeword(m)[x] ELSE coded[x]
  BY <1>1, <1>2, <1>4, Sizes DEF Overwrite, Recd
<1>6. CASE x < nn
  BY <1>5, <1>6, Sizes DEF Flow
<1>7. CASE ~(x < nn)
  <2>1. DOMAIN Encode[m] = 0 .. nn - kk - 1
    BY EncodeAssumption DEF Parity
  <2>2. x - BB(0) \notin 0 .. nn - kk - 1
    BY Sizes DEF BB
  <2>3. coded[x] = mem[x]
    BY <1>1, <1>3, <2>1, <2>2 DEF Overwrite
  <2>4. x - nn \in 0 .. kk - 1 /\ Data(0) + (x - nn) = x
    BY <1>7, Sizes DEF Data
  <2>5. m[x - nn] = mem[x]
    BY <2>4 DEF Block
  <2> QED
    BY <1>5, <1>7, <2>3, <2>5, Sizes DEF Flow
<1> QED
  BY <1>6, <1>7

\* A chunk of the encoded arrays is what Flow says of the message.
LEMMA ReturnedChunk ==
  ASSUME NEW mem, NEW m \in Message,
         \A x \in 0 .. nn + kk - 1 : mem[x] = Flow(m, x),
         NEW c \in 0 .. nn - 1, NEW i \in Lane
  PROVE  Chunk(mem, Recd(c))[i] = Flow(m, c + i)
<1>1. c + i \in 0 .. nn + kk - 1 /\ Recd(c) + i = c + i
  BY Sizes DEF Lane, Recd, W
<1>2. Chunk(mem, Recd(c))[i] = ToByte(mem[c + i])
  BY <1>1 DEF Chunk
<1> QED
  BY <1>1, <1>2, FlowType, ByteAssumption

LEMMA EncodeStep ==
  ASSUME IInv, EncoderEncode, UNCHANGED tbVars
  PROVE  IInv'
<1>1. PICK c \in 0 .. nn : EncoderToRun /\ Encoding(c)
  BY Sizes DEF IInv, EncoderEncode, EncodeAndSend, Resumed, EncoderToRun, Phase, Starting, Resetting, Released,
         Announced, Sending, Encoding, Receiving, Ending, Decoding, Control, Encoder, W
<1>2. encCnt = c /\ encPc = "recv" /\ Carries(cur, c) /\ c \in 0 .. kk - 1 /\ kk <= c + W
  BY <1>1, Sizes DEF Encoding, Encoder
<1>3. PICK received : /\ received = Overwrite(encMem, Data(c), cur.in)
                      /\ encMem' = Assembled(received)
  BY <1>2 DEF EncoderEncode, EncodeAndSend
<1>4. received \in Memory
  <2>1. cur.in \in [Lane -> Byte]
    BY DEF IInv, TypeOK, KernelTypeOK, Signals
  <2>2. Data(c) \in Int
    BY <1>2, Sizes DEF Data
  <2> QED
    BY <1>3, <2>1, <2>2, OverwriteType, BytesAreWords DEF IInv, TypeOK, EncoderTypeOK
<1>5. PICK m \in Message : m = MessageIn(tbMem)
  BY MessageInType DEF IInv, TypeOK, TestBenchTypeOK
<1>6. Block(received, Data(0), kk) = m
  <2> SUFFICES ASSUME NEW i \in 0 .. kk - 1 PROVE received[Data(0) + i] = m[i]
    BY <1>5 DEF Block, Message
  <2>1. i < c + W /\ Data(0) + i = Data(i)
    BY <1>2, Sizes DEF Data
  <2> QED
    BY <1>2, <1>3, <1>5, <2>1, StoredChunk
<1>7. \A x \in 0 .. nn + kk - 1 : encMem'[x] = Flow(m, x)
  BY <1>3, <1>4, <1>6, AssembledFlow
<1>8. encMem' \in Memory
  BY <1>3, <1>4, <1>6, AssembledType
<1>9. Chunk(encMem', Recd(0)) \in [Lane -> Byte]
  BY <1>8, ChunkType, Sizes DEF Recd
<1>step. /\ nxt' = [nxt EXCEPT !.ready = FALSE, !.valid = TRUE, !.out = Chunk(encMem', Recd(0))]
         /\ encPc' = "send" /\ encCnt' = W
         /\ runnable' = runnable \ {"encoder"} /\ cur' = cur /\ tbMem' = tbMem
  BY DEF EncoderEncode, EncodeAndSend, Wait, W, tbVars,
         IInv, TypeOK, KernelTypeOK, Signals
<1>10. TypeOK'
  <2>1. nxt' \in Signals /\ cur' \in Signals /\ runnable' \subseteq Process
    BY <1>9, <1>step DEF IInv, TypeOK, KernelTypeOK, Signals
  <2>2. EncoderTypeOK'
    BY <1>8, <1>step, Sizes DEF EncoderTypeOK, W
  <2> QED
    BY <2>1, <2>2, EncoderFrame DEF TypeOK, KernelTypeOK
<1>11. Returns(nxt, 0)'
  <2>1. nxt'.out = Chunk(encMem', Recd(0))
    BY <1>step DEF IInv, TypeOK, KernelTypeOK, Signals
  <2> SUFFICES ASSUME NEW i \in Lane PROVE nxt'.out[i] = Flow(m, 0 + i)
    BY <1>5, EncoderFrame DEF Returns
  <2>2. 0 \in 0 .. nn - 1
    BY Sizes
  <2> QED
    BY <1>7, <2>1, <2>2, ReturnedChunk
<1>12. Encoding(c)'
  <2>1. Control(nxt', FALSE, FALSE, TRUE)
    BY <1>1, <1>step DEF Encoding, Control, IInv, TypeOK, KernelTypeOK, Signals
  <2>2. EncoderToRun' = FALSE /\ EncoderToRun = TRUE /\ TestBenchToRun' = TestBenchToRun
    BY <1>1, <1>step DEF EncoderToRun, TestBenchToRun
  <2> QED
    BY <1>1, <1>11, <1>step, <2>1, <2>2 DEF Encoding, Control, Encoder, TestBench, Carries, tbVars
<1>13. EncoderStored' /\ EncoderCoded'
  BY <1>5, <1>7, EncoderFrame DEF EncoderEncode, EncodeAndSend, EncoderStored, EncoderCoded
<1> QED
  BY <1>10, <1>12, <1>13, EncoderFrame DEF IInv, Phase

LEMMA SendStep ==
  ASSUME IInv, EncoderSend, UNCHANGED tbVars
  PROVE  IInv'
<1>1. PICK c \in 0 .. nn : EncoderToRun /\ Receiving(c)
  BY Sizes DEF IInv, EncoderSend, Resumed, EncoderToRun, Phase, Starting, Resetting, Released,
         Announced, Sending, Encoding, Receiving, Ending, Decoding, Control, Encoder, W
<1>2. encCnt = c + W /\ encPc = "send" /\ c + W \in 0 .. nn - 1
  BY <1>1, Sizes DEF Receiving, Encoder
<1>3. PICK m \in Message : m = MessageIn(tbMem)
  BY MessageInType DEF IInv, TypeOK, TestBenchTypeOK
<1>4. nxt' = [nxt EXCEPT !.out = Chunk(encMem, Recd(c + W))]
  BY <1>2 DEF EncoderSend
<1>5. Chunk(encMem, Recd(c + W)) \in [Lane -> Byte]
  BY <1>2, ChunkType, Sizes DEF Recd, IInv, TypeOK, EncoderTypeOK
<1>6. TypeOK'
  BY <1>2, <1>4, <1>5, EncoderFrame, Sizes
     DEF IInv, TypeOK, KernelTypeOK, Signals, EncoderTypeOK, EncoderSend, Wait, W
<1>7. Returns(nxt, c + W)'
  <2>1. nxt'.out = Chunk(encMem, Recd(c + W))
    BY <1>4 DEF IInv, TypeOK, KernelTypeOK, Signals
  <2> SUFFICES ASSUME NEW i \in Lane PROVE nxt'.out[i] = Flow(m, c + W + i)
    BY <1>3, EncoderFrame DEF Returns
  <2>2. \A x \in 0 .. nn + kk - 1 : encMem[x] = Flow(m, x)
    BY <1>2, <1>3 DEF IInv, EncoderCoded
  <2> QED
    BY <1>2, <2>1, <2>2, ReturnedChunk
<1>8. cur' = cur /\ tbMem' = tbMem
  BY DEF EncoderSend, tbVars
<1>9. Receiving(c)'
  BY <1>1, <1>2, <1>4, <1>7, <1>8, Sizes
     DEF EncoderSend, Receiving, Control, Encoder, TestBench, Returns,
         EncoderToRun, TestBenchToRun, Wait, tbVars, W, IInv, TypeOK, KernelTypeOK, Signals
<1>10. EncoderStored' /\ EncoderCoded'
  BY <1>2, EncoderFrame DEF EncoderSend, EncoderStored, EncoderCoded, IInv
<1> QED
  BY <1>6, <1>9, <1>10, EncoderFrame DEF IInv, Phase

LEMMA EndStep ==
  ASSUME IInv, EncoderEnd, UNCHANGED tbVars
  PROVE  IInv'
<1>1. PICK c \in 0 .. nn : EncoderToRun /\ Ending(c)
  BY Sizes DEF IInv, EncoderEnd, Resumed, EncoderToRun, Phase, Starting, Resetting, Released,
         Announced, Sending, Encoding, Receiving, Ending, Decoding, Control, Encoder, W
<1>2. TypeOK'
  BY EncoderFrame DEF IInv, TypeOK, KernelTypeOK, EncoderTypeOK, EncoderEnd, Signals, Wait
<1>3. cur' = cur /\ tbMem' = tbMem
  BY DEF EncoderEnd, tbVars
<1>4. Ending(c)'
  <2>1. Control(nxt', FALSE, TRUE, FALSE)
    BY <1>1 DEF EncoderEnd, Ending, Control, IInv, TypeOK, KernelTypeOK, Signals
  <2>2. EncoderToRun' = FALSE /\ EncoderToRun = TRUE /\ TestBenchToRun' = TestBenchToRun
    BY <1>1 DEF EncoderEnd, Wait, EncoderToRun, TestBenchToRun
  <2>3. Returns(cur, c)'
    BY <1>1, <1>3 DEF Ending, Returns
  <2> QED
    BY <1>1, <1>3, <2>1, <2>2, <2>3 DEF EncoderEnd, Ending, Control, Encoder, TestBench, tbVars
<1>5. EncoderStored' /\ EncoderCoded'
  BY DEF EncoderEnd, EncoderStored, EncoderCoded
<1> QED
  BY <1>2, <1>4, <1>5, EncoderFrame DEF IInv, Phase

-----------------------------------------------------------------------------
(* Steps of the test bench *)

\* What a step of the test bench leaves alone while the message stays.
LEMMA TestBenchFrame ==
  ASSUME IInv, UNCHANGED encVars, MessageIn(tbMem)' = MessageIn(tbMem)
  PROVE  EncoderTypeOK' /\ EncoderStored' /\ EncoderCoded'
BY DEF IInv, TypeOK, encVars, EncoderTypeOK, EncoderStored, EncoderCoded

LEMMA StartStep ==
  ASSUME IInv, TBStart, UNCHANGED encVars
  PROVE  IInv'
<1>1. TestBenchToRun /\ Starting
  BY DEF IInv, TBStart, At, TestBenchToRun, Phase, Starting, Resetting, Released, Announced,
         Sending, Encoding, Receiving, Ending, Decoding, TestBench
<1>2. tbMem' = tbMem /\ MessageIn(tbMem)' = MessageIn(tbMem)
  BY DEF TBStart
<1>3. TypeOK'
  BY <1>2, TestBenchFrame, ByteAssumption
     DEF IInv, TypeOK, KernelTypeOK, TestBenchTypeOK, TBStart, Signals, Wait, loopVars
<1>4. Starting'
  BY <1>1 DEF IInv, TypeOK, KernelTypeOK, Signals, TBStart, Starting, Control, EncoderToRun,
              TestBenchToRun, Wait, encVars
<1>5. TestBenchReceived' /\ Generated' /\ Counted'
  BY DEF IInv, TBStart, At, loopVars, TestBenchReceived, Generated, Counted
<1> QED
  BY <1>2, <1>3, <1>4, <1>5, TestBenchFrame DEF IInv, Phase

LEMMA ReleaseStep ==
  ASSUME IInv, TBRelease, UNCHANGED encVars
  PROVE  IInv'
<1>1. TestBenchToRun /\ Resetting
  BY DEF IInv, TBRelease, At, TestBenchToRun, Phase, Starting, Resetting, Released, Announced,
         Sending, Encoding, Receiving, Ending, Decoding, TestBench
<1>2. tbMem' = tbMem /\ MessageIn(tbMem)' = MessageIn(tbMem)
  BY DEF TBRelease
<1>3. TypeOK'
  BY <1>2, TestBenchFrame
     DEF IInv, TypeOK, KernelTypeOK, TestBenchTypeOK, TBRelease, Signals, Wait, loopVars
<1>4. Resetting'
  <2>1. Control(nxt', FALSE, FALSE, FALSE)
    BY <1>1 DEF TBRelease, Resetting, Control, IInv, TypeOK, KernelTypeOK, Signals
  <2>2. TestBenchToRun' = FALSE
    BY DEF TBRelease, Wait, TestBenchToRun
  <2> QED
    BY <1>1, <2>1, <2>2 DEF TBRelease, Resetting, Control, encVars
<1>5. TestBenchReceived' /\ Generated' /\ Counted'
  BY DEF IInv, TBRelease, At, loopVars, TestBenchReceived, Generated, Counted
<1> QED
  BY <1>2, <1>3, <1>4, <1>5, TestBenchFrame DEF IInv, Phase

LEMMA BeginStep ==
  ASSUME IInv, TBBegin, UNCHANGED encVars
  PROVE  IInv'
<1>1. TestBenchToRun /\ Released
  BY DEF IInv, TBBegin, At, TestBenchToRun, Phase, Starting, Resetting, Released, Announced,
         Sending, Encoding, Receiving, Ending, Decoding, TestBench
<1>2. tbMem' = tbMem /\ MessageIn(tbMem)' = MessageIn(tbMem)
  BY DEF TBBegin
<1>3. TypeOK'
  BY <1>2, TestBenchFrame
     DEF IInv, TypeOK, KernelTypeOK, TestBenchTypeOK, TBBegin, kernelVars, loopVars
<1>4. Released'
  BY <1>1 DEF TBBegin, Released, Control, EncoderToRun, TestBenchToRun, kernelVars, encVars
<1>5. TestBenchReceived' /\ Generated' /\ Counted'
  BY DEF IInv, TBBegin, At, loopVars, TestBenchReceived, Generated, Counted
<1> QED
  BY <1>2, <1>3, <1>4, <1>5, TestBenchFrame DEF IInv, Phase

\* The first chunk of the message, or the wait for "ready", whichever it is.
LEMMA AwaitReadyStep ==
  ASSUME IInv, NEW mem \in Memory, AwaitReady(mem), tbMem' = mem,
         "testbench" \in runnable, UNCHANGED <<cur, loopVars, encVars>>,
         Released \/ Announced \/ Decoding, tbPc \in {"generate", "waitReady"},
         EncoderStored', \A i \in 0 .. kk - 3 : mem[Data(i)] \in Byte
  PROVE  IInv'
<1>1. Data(0) \in Nat /\ Data(0) < nn + kk
  BY Sizes DEF Data
<1>2. /\ runnable' = runnable \ {"testbench"}
      /\ EncoderToRun' = EncoderToRun /\ TestBenchToRun' = FALSE /\ TestBenchToRun = TRUE
  BY DEF AwaitReady, SendChunk, Wait, EncoderToRun, TestBenchToRun
<1>3. cur' = cur /\ encPc' = encPc /\ encCnt' = encCnt
  BY DEF encVars
<1>4. encPc \notin {"send"}
  BY DEF Released, Announced, Decoding, Encoder
<1>5. EncoderTypeOK' /\ EncoderCoded'
  BY <1>4 DEF IInv, TypeOK, EncoderTypeOK, EncoderCoded, encVars
<1>6. TestBenchReceived' /\ Generated' /\ Counted'
  BY DEF IInv, AwaitReady, SendChunk, loopVars, TestBenchReceived, Generated, Counted
<1>7. CASE ~cur.ready
  <2>1. nxt' = nxt /\ tbPc' = "waitReady" /\ tbCnt' = tbCnt
    BY <1>7 DEF AwaitReady
  <2>2. TypeOK'
    BY <1>2, <1>3, <1>5, <2>1 DEF IInv, TypeOK, KernelTypeOK, TestBenchTypeOK, loopVars
  <2>3. Released
    BY <1>7 DEF Announced, Decoding, Control
  <2>4. Released'
    BY <1>2, <1>3, <2>1, <2>3 DEF Released, Control
  <2> QED
    BY <1>5, <1>6, <2>2, <2>4 DEF IInv, Phase
<1>8. CASE cur.ready
  <2>1. /\ nxt' = [nxt EXCEPT !.in = Chunk(mem, Data(0))]
        /\ tbPc' = "send" /\ tbCnt' = W
    BY <1>8, Sizes DEF AwaitReady, SendChunk, W
  <2>2. Chunk(mem, Data(0)) \in [Lane -> Byte]
    BY <1>1, ChunkType
  <2>3. TypeOK'
    <3>1. KernelTypeOK'
      BY <1>2, <1>3, <2>1, <2>2 DEF IInv, TypeOK, KernelTypeOK, Signals
    <3>2. TestBenchTypeOK'
      BY <2>1, Sizes DEF IInv, TypeOK, TestBenchTypeOK, loopVars, W
    <3> QED
      BY <1>5, <3>1, <3>2 DEF TypeOK
  <2>4. Carries(nxt, 0)'
    BY <2>1 DEF Carries, Chunk, IInv, TypeOK, KernelTypeOK, Signals
  <2>5. /\ nxt'.reset = nxt.reset /\ nxt'.ready = nxt.ready /\ nxt'.valid = nxt.valid
    BY <2>1 DEF IInv, TypeOK, KernelTypeOK, Signals
  <2>6. CASE Announced
    <3>1. Announced'
      BY <1>2, <1>3, <2>1, <2>4, <2>5, <2>6 DEF Announced, Control, Encoder, TestBench
    <3> QED
      BY <1>5, <1>6, <2>3, <3>1 DEF IInv, Phase
  <2>7. CASE Decoding
    <3>1. Decoding'
      BY <1>2, <1>3, <2>1, <2>4, <2>5, <2>7 DEF Decoding, Control, Encoder, TestBench
    <3> QED
      BY <1>5, <1>6, <2>3, <3>1 DEF IInv, Phase
  <2> QED
    BY <1>8, <2>6, <2>7 DEF Released, Control
<1> QED
  BY <1>7, <1>8

LEMMA GenerateStep ==
  ASSUME IInv, TBGenerate, UNCHANGED encVars
  PROVE  IInv'
<1>1. Released \/ Decoding
  BY DEF IInv, TBGenerate, At, TestBenchToRun, Phase, Starting, Resetting, Released, Announced,
         Sending, Encoding, Receiving, Ending, Decoding, TestBench
<1>2. PICK random \in [0 .. kk - 3 -> Byte] : tbMem' = Overwrite(tbMem, Data(0), random)
  BY DEF TBGenerate
<1>3. Data(0) \in Int
  BY Sizes DEF Data
<1>4. tbMem' \in Memory
  BY <1>2, <1>3, OverwriteType, BytesAreWords DEF IInv, TypeOK, TestBenchTypeOK
<1>5. ASSUME NEW i \in 0 .. kk - 3 PROVE tbMem'[Data(i)] \in Byte
  <2>1. Data(i) \in Addr /\ Data(i) - Data(0) = i
    BY Sizes DEF Addr, Data
  <2> QED
    BY <1>2, <2>1 DEF Overwrite
<1>6. EncoderStored'
  BY <1>1, Sizes DEF Released, Decoding, Encoder, EncoderStored, encVars, IInv
<1> QED
  BY <1>1, <1>4, <1>5, <1>6, AwaitReadyStep DEF TBGenerate, At

LEMMA WaitReadyStep ==
  ASSUME IInv, TBWaitReady, UNCHANGED encVars
  PROVE  IInv'
<1>1. Announced
  BY DEF IInv, TBWaitReady, At, TestBenchToRun, Phase, Starting, Resetting, Released, Announced,
         Sending, Encoding, Receiving, Ending, Decoding, TestBench
<1>2. tbMem \in Memory /\ tbMem' = tbMem /\ \A i \in 0 .. kk - 3 : tbMem[Data(i)] \in Byte
  BY DEF IInv, TypeOK, TestBenchTypeOK, TBWaitReady, At, Generated
<1>3. EncoderStored'
  BY <1>2, TestBenchFrame
<1> QED
  BY <1>1, <1>2, <1>3, AwaitReadyStep DEF TBWaitReady, At

\* The chunk a phase of a transfer is at.
LEMMA Bounds ==
  ASSUME NEW c \in 0 .. nn
  PROVE  /\ Sending(c) => c + W < kk
         /\ Encoding(c) => c < kk /\ kk <= c + W
         /\ Receiving(c) => c < nn /\ c + W < nn
         /\ Ending(c) => 0 < c /\ c < nn /\ nn <= c + W
<1>1. /\ Sending(c) => c + W < kk
      /\ Encoding(c) => c < kk /\ kk <= c + W
      /\ Receiving(c) => c + W < nn
      /\ Ending(c) => 0 < c /\ c < nn /\ nn <= c + W
  BY DEF Sending, Encoding, Receiving, Ending
<1> QED
  BY <1>1, Sizes

\* Where the cycle is when the test bench runs in its send or its receive loop.
LEMMA InSend ==
  ASSUME IInv, At("send")
  PROVE  TestBenchToRun /\ \E c \in 0 .. nn : tbCnt = c + W /\ (Sending(c) \/ Encoding(c))
<1>1. TestBenchToRun = TRUE /\ tbPc = "send"
  BY DEF At, TestBenchToRun
<1>2. PICK c \in 0 .. nn : Sending(c) \/ Encoding(c)
  BY <1>1 DEF IInv, Phase, Starting, Resetting, Released, Announced, Receiving, Ending, Decoding,
              TestBench
<1>3. tbCnt = c + W
  BY <1>1, <1>2 DEF Sending, Encoding, TestBench
<1> QED
  BY <1>1, <1>2, <1>3

LEMMA InRecv ==
  ASSUME IInv, At("recv")
  PROVE  /\ TestBenchToRun
         /\ \/ Decoding /\ nn <= tbCnt
            \/ \E c \in 0 .. nn - 1 : tbCnt = c /\ (Receiving(c) \/ Ending(c))
<1>1. TestBenchToRun = TRUE /\ tbPc = "recv"
  BY DEF At, TestBenchToRun
<1>2. CASE Decoding
  BY <1>1, <1>2, Sizes DEF Decoding
<1>3. CASE ~Decoding
  <2>1. PICK c \in 0 .. nn : Receiving(c) \/ Ending(c)
    BY <1>1, <1>3 DEF IInv, Phase, Starting, Resetting, Released, Announced, Sending, Encoding,
                TestBench
  <2>2. tbCnt = c
    BY <1>1, <2>1 DEF Receiving, Ending, TestBench
  <2>3. c \in 0 .. nn - 1
    BY <2>1, Bounds, Sizes
  <2> QED
    BY <1>1, <2>1, <2>2, <2>3
<1> QED
  BY <1>2, <1>3

\* The next chunk of the message.
LEMMA TBSendStep ==
  ASSUME IInv, TBSend, UNCHANGED encVars
  PROVE  IInv'
<1>1. PICK c \in 0 .. nn : TestBenchToRun /\ Sending(c)
  <2>1. PICK c \in 0 .. nn : TestBenchToRun /\ tbCnt = c + W /\ (Sending(c) \/ Encoding(c))
    BY InSend DEF TBSend
  <2>2. tbCnt < kk /\ c + W \in Int
    BY Sizes DEF TBSend
  <2>3. ~Encoding(c)
    BY <2>1, <2>2, Bounds, Sizes
  <2> QED
    BY <2>1, <2>3
<1>2. tbCnt = c + W /\ tbPc = "send" /\ c + W < kk
  BY <1>1 DEF Sending, TestBench
<1>3. Data(c + W) \in Nat /\ Data(c + W) < nn + kk
  BY <1>2, Sizes DEF Data
<1>4. Chunk(tbMem, Data(c + W)) \in [Lane -> Byte]
  BY <1>3, ChunkType DEF IInv, TypeOK, TestBenchTypeOK
<1>step. /\ nxt' = [nxt EXCEPT !.in = Chunk(tbMem, Data(c + W))]
         /\ tbPc' = "send" /\ tbCnt' = c + W + W /\ tbMem' = tbMem /\ cur' = cur
         /\ runnable' = runnable \ {"testbench"}
  BY <1>2 DEF TBSend, SendChunk, Wait, W
<1>5. TypeOK'
  <2>1. KernelTypeOK'
    BY <1>4, <1>step DEF IInv, TypeOK, KernelTypeOK, Signals
  <2>2. TestBenchTypeOK'
    BY <1>step, <1>2, Sizes DEF IInv, TypeOK, TestBenchTypeOK, TBSend, loopVars, W
  <2> QED
    BY <1>step, <2>1, <2>2, TestBenchFrame DEF TypeOK
<1>6. Sending(c)'
  <2>1. /\ nxt'.reset = nxt.reset /\ nxt'.ready = nxt.ready /\ nxt'.valid = nxt.valid
    BY <1>step DEF IInv, TypeOK, KernelTypeOK, Signals
  <2>2. Carries(nxt, c + W)'
    <3> SUFFICES ASSUME NEW i \in Lane PROVE nxt'.in[i] = ToByte(tbMem[Data(c + W) + i])
      BY <1>step DEF Carries
    <3> QED
      BY <1>step DEF Chunk, IInv, TypeOK, KernelTypeOK, Signals
  <2>3. EncoderToRun' = EncoderToRun /\ TestBenchToRun' = FALSE /\ TestBenchToRun = TRUE
    BY <1>1, <1>step DEF EncoderToRun, TestBenchToRun
  <2>4. Carries(cur, c)'
    BY <1>1, <1>step DEF Sending, Carries
  <2> QED
    BY <1>1, <1>step, <2>1, <2>2, <2>3, <2>4 DEF Sending, Control, Encoder, TestBench, encVars
<1>7. TestBenchReceived' /\ Generated' /\ Counted'
  BY <1>2, <1>step DEF IInv, TBSend, loopVars, TestBenchReceived, Generated, Counted
<1> QED
  BY <1>5, <1>6, <1>7, <1>step, TestBenchFrame DEF IInv, Phase

LEMMA SentStep ==
  ASSUME IInv, TBSent, UNCHANGED encVars
  PROVE  IInv'
<1>1. PICK c \in 0 .. nn : TestBenchToRun /\ Encoding(c)
  <2>1. PICK c \in 0 .. nn : TestBenchToRun /\ tbCnt = c + W /\ (Sending(c) \/ Encoding(c))
    BY InSend DEF TBSent
  <2>2. tbCnt >= kk /\ c + W \in Int
    BY Sizes DEF TBSent
  <2>3. ~Sending(c)
    BY <2>1, <2>2, Bounds, Sizes
  <2> QED
    BY <2>1, <2>3
<1>2. /\ tbPc' = "waitValid" /\ tbCnt' = tbCnt /\ tbMem' = tbMem /\ cur' = cur /\ nxt' = nxt
      /\ runnable' = runnable \ {"testbench"}
  BY <1>1 DEF TBSent, AwaitValid, Encoding, Control, Wait
<1>3. TypeOK'
  BY <1>2, TestBenchFrame
     DEF IInv, TypeOK, KernelTypeOK, TestBenchTypeOK, TBSent, AwaitValid, loopVars
<1>4. Encoding(c)'
  <2>1. EncoderToRun' = EncoderToRun /\ TestBenchToRun' = FALSE
    BY <1>2 DEF EncoderToRun, TestBenchToRun
  <2> QED
    BY <1>1, <1>2, <2>1 DEF Encoding, Control, Encoder, Carries, Returns, encVars
<1>5. TestBenchReceived' /\ Generated' /\ Counted'
  BY <1>2 DEF IInv, TBSent, At, AwaitValid, loopVars, TestBenchReceived, Generated, Counted
<1> QED
  BY <1>2, <1>3, <1>4, <1>5, TestBenchFrame DEF IInv, Phase

-----------------------------------------------------------------------------
(* The test bench receives *)

\* A received chunk: the codeword goes on, and what overruns recd[] stores in data[]
\* the values data[] has.
LEMMA ReceivedCell ==
  ASSUME IInv, tbPc \in {"waitValid", "recv"}, NEW c \in 0 .. nn - 1, Returns(cur, c),
         NEW x \in Addr
  PROVE  Overwrite(tbMem, Recd(c), cur.out)[x]
           = IF x - c \in Lane /\ x < nn THEN Flow(MessageIn(tbMem), x) ELSE tbMem[x]
<1>1. cur.out \in [Lane -> Byte]
  BY DEF IInv, TypeOK, KernelTypeOK, Signals
<1>2. Recd(c) \in Int /\ Recd(c) = c
  BY Sizes DEF Recd
<1>3. Overwrite(tbMem, Recd(c), cur.out)[x] = IF x - c \in Lane THEN cur.out[x - c] ELSE tbMem[x]
  BY <1>1, <1>2, StoredCell
<1>4. CASE x - c \in Lane
  <2>1. c + (x - c) = x
    BY Sizes DEF Addr
  <2>2. cur.out[x - c] = Flow(MessageIn(tbMem), x)
    BY <1>4, <2>1 DEF Returns
  <2>3. CASE ~(x < nn)
    <3>1. x - nn \in 0 .. kk - 3 /\ x - nn \in 0 .. kk - 1 /\ Data(x - nn) = x
      BY <1>4, <2>3, Sizes, OverrunAssumption DEF Lane, Addr, Data, W
    <3>2. tbMem[x] \in Byte
      BY <3>1 DEF IInv, Generated
    <3>3. Flow(MessageIn(tbMem), x) = ToByte(tbMem[x])
      BY <2>3, <3>1 DEF Flow, MessageIn
    <3> QED
      BY <1>3, <1>4, <2>2, <2>3, <3>2, <3>3, ByteAssumption
  <2> QED
    BY <1>3, <1>4, <2>2, <2>3
<1> QED
  BY <1>3, <1>4

LEMMA ReceiveChunkStep ==
  ASSUME IInv, NEW c \in 0 .. nn - 1, Returns(cur, c), ReceiveChunk(c), TestBenchToRun,
         UNCHANGED <<cur, nxt, loopVars, encVars>>,
         \/ c = 0 /\ tbPc = "waitValid"
         \/ tbPc = "recv" /\ tbCnt = c
  PROVE  /\ TypeOK'
         /\ MessageIn(tbMem)' = MessageIn(tbMem)
         /\ TestBenchReceived' /\ Generated' /\ Counted'
         /\ \A i \in 0 .. kk - 1 : tbMem'[Data(i)] = tbMem[Data(i)]
<1>1. tbMem' = Overwrite(tbMem, Recd(c), cur.out) /\ tbPc' = "recv" /\ tbCnt' = c + W
  BY DEF ReceiveChunk, W
<1>2. ASSUME NEW x \in Addr
      PROVE  tbMem'[x] = IF x - c \in Lane /\ x < nn THEN Flow(MessageIn(tbMem), x) ELSE tbMem[x]
  BY <1>1, ReceivedCell
<1>3. ASSUME NEW i \in 0 .. kk - 1 PROVE tbMem'[Data(i)] = tbMem[Data(i)]
  <2>1. Data(i) \in Addr /\ ~(Data(i) < nn)
    BY Sizes DEF Addr, Data
  <2> QED
    BY <1>2, <2>1
<1>4. MessageIn(tbMem)' = MessageIn(tbMem)
  BY <1>3 DEF MessageIn
<1>5. TestBenchReceived'
  <2> SUFFICES ASSUME NEW x \in 0 .. nn - 1, x < c + W
               PROVE  tbMem'[x] = Flow(MessageIn(tbMem), x)
    BY <1>1, <1>4 DEF TestBenchReceived
  <2>1. x \in Addr /\ x < nn
    BY Sizes DEF Addr
  <2>2. CASE x - c \in Lane
    BY <1>2, <2>1, <2>2
  <2>3. CASE x - c \notin Lane
    <3>1. x < c
      BY <2>3, Sizes DEF Lane, W
    <3>2. tbMem[x] = Flow(MessageIn(tbMem), x)
      BY <3>1 DEF IInv, TestBenchReceived
    <3> QED
      BY <1>2, <2>1, <2>3, <3>2
  <2> QED
    BY <2>2, <2>3
<1>6. Generated' /\ Counted'
  <2>1. \A i \in 0 .. kk - 3 : tbMem'[Data(i)] \in Byte
    BY <1>3, Sizes DEF IInv, Generated
  <2> QED
    BY <1>1, <2>1 DEF IInv, Generated, Counted, loopVars
<1>7. TypeOK'
  <2>1. KernelTypeOK'
    BY DEF IInv, TypeOK, KernelTypeOK, ReceiveChunk, Wait
  <2>2. tbMem' \in Memory
    <3>1. cur.out \in [Lane -> Byte]
      BY DEF IInv, TypeOK, KernelTypeOK, Signals
    <3>2. Recd(c) \in Int
      BY Sizes DEF Recd
    <3> QED
      BY <1>1, <3>1, <3>2, OverwriteType, BytesAreWords DEF IInv, TypeOK, TestBenchTypeOK
  <2>3. TestBenchTypeOK'
    BY <1>1, <2>2, Sizes DEF IInv, TypeOK, TestBenchTypeOK, loopVars, W
  <2> QED
    BY <1>4, <2>1, <2>3, TestBenchFrame DEF TypeOK
<1> QED
  BY <1>3, <1>4, <1>5, <1>6, <1>7

LEMMA ReceivingStep ==
  ASSUME IInv, NEW c \in 0 .. nn, TestBenchToRun, Receiving(c) \/ Ending(c), ReceiveChunk(c),
         UNCHANGED <<cur, nxt, loopVars, encVars>>
  PROVE  IInv'
<1>1. /\ c \in 0 .. nn - 1 /\ Returns(cur, c)
      /\ (c = 0 /\ tbPc = "waitValid") \/ (tbPc = "recv" /\ tbCnt = c)
  <2>1. CASE Receiving(c)
    BY <2>1, Sizes DEF Receiving, TestBench
  <2>2. CASE Ending(c)
    BY <2>2, Sizes DEF Ending, TestBench
  <2> QED
    BY <2>1, <2>2
<1>2. /\ TypeOK' /\ MessageIn(tbMem)' = MessageIn(tbMem)
      /\ TestBenchReceived' /\ Generated' /\ Counted'
  BY <1>1, ReceiveChunkStep
<1>3. tbPc' = "recv" /\ tbCnt' = c + W
  BY DEF ReceiveChunk, W
<1>4. EncoderToRun' = EncoderToRun /\ TestBenchToRun' = FALSE
  BY DEF ReceiveChunk, Wait, EncoderToRun, TestBenchToRun
<1>5. Receiving(c)' \/ Ending(c)'
  BY <1>2, <1>3, <1>4 DEF Receiving, Ending, Control, Encoder, TestBench, Returns, encVars
<1> QED
  BY <1>2, <1>5, TestBenchFrame DEF IInv, Phase

LEMMA WaitValidStep ==
  ASSUME IInv, TBWaitValid, UNCHANGED encVars
  PROVE  IInv'
<1>1. TestBenchToRun /\ Receiving(0)
  BY Sizes DEF IInv, TBWaitValid, At, TestBenchToRun, Phase, Starting, Resetting, Released,
         Announced, Sending, Encoding, Receiving, Ending, Decoding, TestBench
<1>2. ReceiveChunk(0) /\ UNCHANGED <<cur, nxt, loopVars, encVars>> /\ 0 \in 0 .. nn
  BY <1>1, Sizes DEF TBWaitValid, AwaitValid, Receiving, Control
<1> QED
  BY <1>1, <1>2, ReceivingStep

LEMMA RecvStep ==
  ASSUME IInv, TBRecv, UNCHANGED encVars
  PROVE  IInv'
<1>1. PICK c \in 0 .. nn - 1 : TestBenchToRun /\ tbCnt = c /\ (Receiving(c) \/ Ending(c))
  <2>1. tbCnt < nn /\ tbCnt \in Nat
    BY Sizes DEF TBRecv, IInv, TypeOK, TestBenchTypeOK
  <2>2. At("recv") /\ ~(nn <= tbCnt)
    BY <2>1, Sizes DEF TBRecv
  <2> QED
    BY <2>2, InRecv
<1>2. c \in 0 .. nn /\ ReceiveChunk(c) /\ UNCHANGED <<cur, nxt, loopVars, encVars>>
  BY <1>1, Sizes DEF TBRecv
<1> QED
  BY <1>1, <1>2, ReceivingStep


-----------------------------------------------------------------------------
(* Injection, decoding and the packet loop *)

LEMMA DecodeType ==
  ASSUME NEW r \in [0 .. nn - 1 -> Word], NEW word \in Decode(r)
  PROVE  word \in [0 .. nn - 1 -> Word]
<1>1. CASE word = r
  BY <1>1
<1>2. CASE word # r
  <2>1. word \in Codewords
    BY <1>2 DEF Decode, Near
  <2>2. PICK m \in Message : word = Codeword(m)
    BY <2>1 DEF Codewords
  <2> QED
    BY <2>2, CodewordType, BytesAreWords DEF Vector
<1> QED
  BY <1>1, <1>2

\* Neither the injection nor the decoder leaves the ints the arrays can hold.
LEMMA DecodedType ==
  ASSUME NEW mem \in Memory, NEW corrupted \in Injected(mem), NEW decoded \in Decoded(corrupted)
  PROVE  decoded \in Memory
<1>1. PICK f : /\ corrupted = Overwrite(mem, Recd(0), f)
               /\ \E indices \in SUBSET RandIndex : f \in [indices -> RandByte]
  BY DEF Injected
<1>2. PICK word \in Decode(Block(corrupted, Recd(0), nn)) :
        decoded = Overwrite(corrupted, Recd(0), word)
  BY DEF Decoded
<1>3. Recd(0) \in Int
  BY Sizes DEF Recd
<1>4. corrupted \in Memory
  <2>1. \A i \in DOMAIN f : f[i] \in Word
    BY <1>1, BytesAreWords, TestBenchAssumption
  <2> QED
    BY <1>1, <1>3, <2>1, OverwriteType
<1>5. Block(corrupted, Recd(0), nn) \in [0 .. nn - 1 -> Word]
  BY <1>4, Sizes DEF Block, Recd, Memory, Addr
<1>6. word \in [0 .. nn - 1 -> Word]
  BY <1>5, DecodeType
<1> QED
  BY <1>2, <1>3, <1>4, <1>6, OverwriteType

LEMMA InDecoding ==
  ASSUME IInv, "testbench" \in runnable, tbPc = "next" \/ (tbPc = "recv" /\ tbCnt >= nn)
  PROVE  Decoding /\ TestBenchToRun
<1>1. CASE tbPc = "next"
  BY <1>1 DEF IInv, TestBenchToRun, Phase, Starting, Resetting, Released, Announced,
       Sending, Encoding, Receiving, Ending, Decoding, TestBench
<1>2. CASE tbPc = "recv" /\ tbCnt >= nn
  <2>1. At("recv")
    BY <1>2 DEF At
  <2>2. ~ \E c \in 0 .. nn - 1 : tbCnt = c
    BY <1>2, Sizes
  <2> QED
    BY <2>1, <2>2, InRecv
<1> QED
  BY <1>1, <1>2

\* While the test bench decodes, the encoder holds nothing of the packet.
LEMMA EncoderIdle ==
  ASSUME IInv, UNCHANGED encVars, Decoding
  PROVE  EncoderTypeOK' /\ EncoderStored' /\ EncoderCoded'
<1>1. encPc # "send" /\ (encPc = "recv" => encCnt = 0)
  BY DEF Decoding, Encoder
<1> QED
  BY <1>1 DEF IInv, TypeOK, EncoderTypeOK, EncoderStored, EncoderCoded, encVars

LEMMA InjectAndDecodeStep ==
  ASSUME IInv, TBInjectAndDecode, UNCHANGED encVars
  PROVE  IInv'
<1>1. Decoding /\ TestBenchToRun
  BY InDecoding DEF TBInjectAndDecode, At
<1>2. tbMem' \in Memory
  <2>1. PICK corrupted \in Injected(tbMem) : tbMem' \in Decoded(corrupted)
    BY DEF TBInjectAndDecode
  <2> QED
    BY <2>1, DecodedType DEF IInv, TypeOK, TestBenchTypeOK
<1>3. j \in 0 .. NUMBER_OF_TEST_VECTOR - 1 /\ no_encoder_errors <= j /\ no_encoder_errors \in Nat
  BY TestBenchAssumption DEF IInv, TypeOK, TestBenchTypeOK, Counted, TBInjectAndDecode, At
<1>4. no_encoder_errors' \in 0 .. j + 1
  BY <1>3 DEF TBInjectAndDecode
<1>5. TypeOK'
  BY <1>1, <1>2, <1>3, <1>4, EncoderIdle, TestBenchAssumption
     DEF IInv, TypeOK, KernelTypeOK, TestBenchTypeOK, TBInjectAndDecode, kernelVars
<1>6. Decoding'
  BY <1>1 DEF Decoding, TBInjectAndDecode, At, kernelVars, encVars, Control, Encoder,
              EncoderToRun, TestBenchToRun
<1>7. TestBenchReceived' /\ Generated' /\ Counted'
  BY <1>4 DEF TBInjectAndDecode, TestBenchReceived, Generated, Counted
<1> QED
  BY <1>1, <1>5, <1>6, <1>7, EncoderIdle DEF IInv, Phase

LEMMA NextVectorStep ==
  ASSUME IInv, TBNextVector, UNCHANGED encVars
  PROVE  IInv'
<1>1. Decoding /\ TestBenchToRun
  BY InDecoding DEF TBNextVector, At
<1>2. TypeOK'
  BY <1>1, EncoderIdle, TestBenchAssumption
     DEF IInv, TypeOK, KernelTypeOK, TestBenchTypeOK, TBNextVector, kernelVars
<1>3. Decoding'
  BY <1>1 DEF Decoding, TBNextVector, At, kernelVars, encVars, Control, Encoder,
              EncoderToRun, TestBenchToRun
<1>4. TestBenchReceived' /\ Generated' /\ Counted'
  BY DEF IInv, TBNextVector, At, TestBenchReceived, Generated, Counted
<1> QED
  BY <1>1, <1>2, <1>3, <1>4, EncoderIdle DEF IInv, Phase

LEMMA NextErrorCountStep ==
  ASSUME IInv, TBNextErrorCount, UNCHANGED encVars
  PROVE  IInv'
<1>1. Decoding /\ TestBenchToRun
  BY InDecoding DEF TBNextErrorCount, At
<1>2. TypeOK'
  BY <1>1, EncoderIdle, TestBenchAssumption, Sizes
     DEF IInv, TypeOK, KernelTypeOK, TestBenchTypeOK, TBNextErrorCount, kernelVars
<1>3. Decoding'
  BY <1>1 DEF Decoding, TBNextErrorCount, At, kernelVars, encVars, Control, Encoder,
              EncoderToRun, TestBenchToRun
<1>4. TestBenchReceived' /\ Generated' /\ Counted'
  BY DEF TBNextErrorCount, TestBenchReceived, Generated, Counted
<1> QED
  BY <1>1, <1>2, <1>3, <1>4, EncoderIdle DEF IInv, Phase

LEMMA StopStep ==
  ASSUME IInv, TBStop, UNCHANGED encVars
  PROVE  IInv'
<1>1. Decoding /\ TestBenchToRun
  BY InDecoding DEF TBStop, At
<1>2. TypeOK'
  BY <1>1, EncoderIdle
     DEF IInv, TypeOK, KernelTypeOK, TestBenchTypeOK, TBStop, Wait, loopVars
<1>3. Decoding'
  BY <1>1 DEF Decoding, TBStop, At, Wait, encVars, Control, Encoder, EncoderToRun, TestBenchToRun
<1>4. TestBenchReceived' /\ Generated' /\ Counted'
  BY DEF IInv, TBStop, At, loopVars, TestBenchReceived, Generated, Counted
<1> QED
  BY <1>1, <1>2, <1>3, <1>4, EncoderIdle DEF IInv, Phase

-----------------------------------------------------------------------------
(* The clock *)

\* A transfer goes on to its next chunk.
LEMMA NextChunk ==
  ASSUME NEW c \in 0 .. nn
  PROVE  /\ c + W < kk => c + W \in 0 .. nn
         /\ c + W < nn => c + W \in 0 .. nn /\ 0 < c + W /\ c + W # 0
BY Sizes

\* The edge takes every phase to the one that follows it.
LEMMA ClockStep ==
  ASSUME IInv, ClockEdge
  PROVE  IInv'
<1>1. /\ runnable = {} /\ cur' = nxt /\ nxt' = nxt /\ tbPc # "ended" /\ tbMem' = tbMem
      /\ encPc' = encPc /\ encCnt' = encCnt /\ tbPc' = tbPc /\ tbCnt' = tbCnt
  BY DEF ClockEdge, NextEdge, encVars, tbVars
<1>2. /\ EncoderToRun = FALSE /\ TestBenchToRun = FALSE
      /\ EncoderToRun' = TRUE /\ TestBenchToRun' = TRUE
  BY <1>1 DEF ClockEdge, NextEdge, Process, EncoderToRun, TestBenchToRun
<1>3. TypeOK'
  BY <1>1 DEF IInv, TypeOK, KernelTypeOK, EncoderTypeOK, TestBenchTypeOK, ClockEdge, NextEdge,
              encVars, tbVars
<1>4. EncoderStored' /\ EncoderCoded' /\ TestBenchReceived' /\ Generated' /\ Counted'
  BY DEF IInv, ClockEdge, encVars, tbVars, EncoderStored, EncoderCoded, TestBenchReceived,
         Generated, Counted
<1>5. /\ \A c : (Carries(nxt, c) => Carries(cur, c)') /\ (Returns(nxt, c) => Returns(cur, c)')
      /\ \A reset, ready, valid : Control(nxt, reset, ready, valid) =>
            Control(cur', reset, ready, valid) /\ Control(nxt', reset, ready, valid)
  BY <1>1 DEF Carries, Returns, Control
<1>6. CASE Starting
  <2>1. Resetting'
    BY <1>1, <1>2, <1>5, <1>6 DEF Starting, Resetting
  <2> QED
    BY <1>3, <1>4, <2>1 DEF IInv, Phase
<1>7. CASE Resetting
  <2>1. Released'
    BY <1>1, <1>2, <1>5, <1>7 DEF Resetting, Released
  <2> QED
    BY <1>3, <1>4, <2>1 DEF IInv, Phase
<1>8. CASE Released
  <2>1. Announced'
    BY <1>1, <1>2, <1>5, <1>8 DEF Released, Announced
  <2> QED
    BY <1>3, <1>4, <2>1 DEF IInv, Phase
<1>9. CASE Announced \/ Decoding
  <2>1. 0 \in 0 .. nn /\ 0 + W < kk /\ 0 + W = W
    BY Sizes
  <2>2. Sending(0)'
    BY <1>1, <1>2, <1>5, <1>9, <2>1 DEF Announced, Decoding, Sending, Encoder, TestBench
  <2> QED
    BY <1>3, <1>4, <2>1, <2>2 DEF IInv, Phase
<1>10. ASSUME NEW c \in 0 .. nn, Sending(c) PROVE IInv'
  <2>1. c + W < kk /\ c + W \in 0 .. nn
    BY <1>10, Bounds, NextChunk
  <2>2. Encoder("recv", c + W)' /\ TestBench("send", c + W + W)' /\ Carries(cur, c + W)'
        /\ Control(cur, FALSE, TRUE, FALSE)' /\ Control(nxt, FALSE, TRUE, FALSE)'
    BY <1>1, <1>2, <1>5, <1>10 DEF Sending, Encoder, TestBench
  <2>3. CASE c + W + W < kk
    <3>1. Sending(c + W)'
      BY <1>2, <2>2, <2>3 DEF Sending
    <3> QED
      BY <1>3, <1>4, <2>1, <3>1 DEF IInv, Phase
  <2>4. CASE kk <= c + W + W
    <3>1. Encoding(c + W)'
      BY <1>2, <2>1, <2>2, <2>4 DEF Encoding
    <3> QED
      BY <1>3, <1>4, <2>1, <3>1 DEF IInv, Phase
  <2> QED
    BY <2>3, <2>4, Sizes
<1>11. ASSUME NEW c \in 0 .. nn, Encoding(c) PROVE IInv'
  <2>1. 0 \in 0 .. nn /\ 0 + W < nn /\ 0 + W = W
    BY Sizes
  <2>2. Receiving(0)'
    BY <1>1, <1>2, <1>5, <1>11, <2>1 DEF Encoding, Receiving, Encoder, TestBench
  <2> QED
    BY <1>3, <1>4, <2>1, <2>2 DEF IInv, Phase
<1>12. ASSUME NEW c \in 0 .. nn, Receiving(c) PROVE IInv'
  <2>1. c + W < nn /\ c + W \in 0 .. nn /\ 0 < c + W /\ c + W # 0
    BY <1>12, Bounds, NextChunk
  <2>2. Encoder("send", c + W + W)' /\ TestBench("recv", c + W)' /\ Returns(cur, c + W)'
        /\ Control(cur, FALSE, FALSE, TRUE)' /\ Control(nxt, FALSE, FALSE, TRUE)'
    BY <1>1, <1>2, <1>5, <1>12 DEF Receiving, Encoder, TestBench
  <2>3. CASE c + W + W < nn
    <3>1. Receiving(c + W)'
      BY <1>2, <2>1, <2>2, <2>3 DEF Receiving
    <3> QED
      BY <1>3, <1>4, <2>1, <3>1 DEF IInv, Phase
  <2>4. CASE nn <= c + W + W
    <3>1. Ending(c + W)'
      BY <1>2, <2>1, <2>2, <2>4 DEF Ending
    <3> QED
      BY <1>3, <1>4, <2>1, <3>1 DEF IInv, Phase
  <2> QED
    BY <2>3, <2>4, Sizes
<1>13. ASSUME NEW c \in 0 .. nn, Ending(c) PROVE IInv'
  <2>1. nn <= c + W
    BY <1>13, Bounds
  <2>2. Decoding'
    BY <1>1, <1>2, <1>5, <1>13, <2>1 DEF Ending, Decoding, TestBench
  <2> QED
    BY <1>3, <1>4, <2>2 DEF IInv, Phase
<1> QED
  BY <1>6, <1>7, <1>8, <1>9, <1>10, <1>11, <1>12, <1>13 DEF IInv, Phase

-----------------------------------------------------------------------------
(* The invariant *)

LEMMA InitStep ==
  ASSUME Init
  PROVE  IInv
<1>1. TypeOK
  BY ByteAssumption, InitialMemoryAssumption, TestBenchAssumption, Sizes
     DEF Init, KernelInit, EncoderInit, TestBenchInit, TypeOK, KernelTypeOK, EncoderTypeOK,
         TestBenchTypeOK, NoSignal, Signals, W
<1>2. Starting
  BY DEF Init, KernelInit, EncoderInit, TestBenchInit, NoSignal, Starting, Control,
         EncoderToRun, TestBenchToRun, Process
<1>3. EncoderStored /\ EncoderCoded /\ TestBenchReceived /\ Generated /\ Counted
  BY DEF Init, EncoderInit, TestBenchInit, EncoderStored, EncoderCoded, TestBenchReceived,
         Generated, Counted
<1> QED
  BY <1>1, <1>2, <1>3 DEF IInv, Phase

LEMMA InductiveStep ==
  ASSUME IInv, [Next]_vars
  PROVE  IInv'
<1>1. CASE RunEncoder
  BY <1>1, ResetStep, AnnounceStep, PauseStep, ReceiveStep, EncodeStep, SendStep, EndStep
     DEF RunEncoder, EncoderStep
<1>2. CASE RunTestBench
  BY <1>2, StartStep, ReleaseStep, BeginStep, GenerateStep, WaitReadyStep, TBSendStep, SentStep,
     WaitValidStep, RecvStep, InjectAndDecodeStep, NextVectorStep, NextErrorCountStep, StopStep
     DEF RunTestBench, TestBenchStep
<1>3. CASE ClockEdge
  BY <1>3, ClockStep
<1>4. CASE Stopped \/ UNCHANGED vars
  BY <1>4 DEF Stopped, vars, IInv, TypeOK, KernelTypeOK, EncoderTypeOK, TestBenchTypeOK, Phase,
              Starting, Resetting, Released, Announced, Sending, Encoding, Receiving, Ending,
              Decoding, Control, Encoder, TestBench, Carries, Returns, EncoderToRun,
              TestBenchToRun, EncoderStored, EncoderCoded, TestBenchReceived, Generated, Counted
<1> QED
  BY <1>1, <1>2, <1>3, <1>4 DEF Next

\* The lock step: in every reachable state the cycle is in one of the phases of Phases
\* and each side holds the part of the packet that the phase says.
THEOREM LockStep == SafetySpec => []IInv
BY InitStep, InductiveStep, PTL DEF SafetySpec

\* No index leaves recd[], data[] and bb[] as the modules lay them out, and no counter
\* its range, although both threads run past the end of an array.
THEOREM TypeCorrect == SafetySpec => []TypeOK
<1>1. IInv => TypeOK
  BY DEF IInv
<1> QED
  BY <1>1, LockStep, PTL

\* "ready" and "valid" are never high together.
THEOREM MutuallyExclusive == SafetySpec => []MutualExclusion
<1>1. IInv => MutualExclusion
  BY DEF IInv, Phase, MutualExclusion, Starting, Resetting, Released, Announced, Sending,
         Encoding, Receiving, Ending, Decoding, Control
<1> QED
  BY <1>1, LockStep, PTL

\* What the encoder sends is the codeword of the message the test bench holds.
THEOREM EncodedIsTheMessage == SafetySpec => []EncodesTheMessage
<1>1. ASSUME IInv PROVE EncodesTheMessage
  <2> SUFFICES ASSUME encPc = "send", NEW i \in 0 .. nn - 1
               PROVE  encMem[Recd(0) + i] = Codeword(MessageIn(tbMem))[i]
    BY DEF EncodesTheMessage, Block, Codeword
  <2>1. i \in 0 .. nn + kk - 1 /\ i < nn /\ Recd(0) + i = i
    BY Sizes DEF Recd
  <2> QED
    BY <1>1, <2>1 DEF IInv, EncoderCoded, Flow
<1> QED
  BY <1>1, LockStep, PTL

\* What the test bench has received is the codeword of the message it holds.
THEOREM ReceivedIsTheCodeword == SafetySpec => []ReceivesTheCodeword
<1>1. ASSUME IInv PROVE ReceivesTheCodeword
  <2> SUFFICES ASSUME tbPc = "recv", tbCnt >= nn, NEW i \in 0 .. nn - 1
               PROVE  tbMem[Recd(0) + i] = Codeword(MessageIn(tbMem))[i]
    BY DEF ReceivesTheCodeword, Block, Codeword
  <2>1. i < tbCnt /\ i < nn /\ Recd(0) + i = i
    BY <1>1, Sizes DEF Recd, IInv, TypeOK, TestBenchTypeOK
  <2> QED
    BY <1>1, <2>1 DEF IInv, TestBenchReceived, Flow
<1> QED
  BY <1>1, LockStep, PTL

-----------------------------------------------------------------------------
(* The message between two packets *)

\* The injection stays in recd[] if rand() % 256 is never 255; decode_rs always does.
LEMMA DataOutsideDecoding ==
  ASSUME nn \notin RandIndex, NEW mem \in Memory, NEW corrupted \in Injected(mem),
         NEW decoded \in Decoded(corrupted), NEW i \in 0 .. kk - 1
  PROVE  decoded[Data(i)] = mem[Data(i)]
<1>1. PICK f : /\ corrupted = Overwrite(mem, Recd(0), f)
               /\ \E indices \in SUBSET RandIndex : f \in [indices -> RandByte]
  BY DEF Injected
<1>2. PICK word \in Decode(Block(corrupted, Recd(0), nn)) :
        decoded = Overwrite(corrupted, Recd(0), word)
  BY DEF Decoded
<1>3. Data(i) \in Addr /\ Data(i) - Recd(0) \in Nat /\ nn <= Data(i) - Recd(0)
  BY Sizes DEF Addr, Data, Recd
<1>4. DOMAIN f \subseteq 0 .. nn - 1
  BY <1>1, TestBenchAssumption, Sizes
<1>5. DOMAIN word = 0 .. nn - 1
  BY CodewordType DEF Decode, Near, Block, Codewords, Vector
<1>6. corrupted[Data(i)] = mem[Data(i)]
  BY <1>1, <1>3, <1>4, Sizes DEF Overwrite
<1>7. decoded[Data(i)] = corrupted[Data(i)]
  BY <1>2, <1>3, <1>5, Sizes DEF Overwrite
<1> QED
  BY <1>6, <1>7

LEMMA DataKeptByStep ==
  ASSUME nn \notin RandIndex, IInv, RunTestBench, tbPc # "generate", NEW i \in 0 .. kk - 1
  PROVE  tbMem'[Data(i)] = tbMem[Data(i)]
<1>1. CASE TBStart \/ TBRelease \/ TBBegin \/ TBWaitReady \/ TBSend \/ TBSent
           \/ TBNextVector \/ TBNextErrorCount \/ TBStop
  <2>1. CASE TBSent
    <3>1. PICK c \in 0 .. nn : TestBenchToRun /\ Encoding(c)
      <4>1. PICK c \in 0 .. nn : TestBenchToRun /\ tbCnt = c + W /\ (Sending(c) \/ Encoding(c))
        BY <2>1, InSend DEF TBSent
      <4>2. tbCnt >= kk /\ c + W \in Int
        BY <2>1, Sizes DEF TBSent
      <4> QED
        BY <4>1, <4>2, Bounds, Sizes
    <3> QED
      BY <2>1, <3>1 DEF TBSent, AwaitValid, Encoding, Control
  <2> QED
    BY <1>1, <2>1 DEF TBStart, TBRelease, TBBegin, TBWaitReady, TBSend, TBNextVector,
                      TBNextErrorCount, TBStop
<1>2. CASE TBGenerate
  BY <1>2 DEF TBGenerate, At
<1>3. CASE TBWaitValid
  <2>1. TestBenchToRun /\ Receiving(0)
    BY <1>3, Sizes DEF IInv, TBWaitValid, At, TestBenchToRun, Phase, Starting, Resetting, Released,
           Announced, Sending, Encoding, Receiving, Ending, Decoding, TestBench
  <2>2. ReceiveChunk(0) /\ UNCHANGED <<cur, nxt, loopVars, encVars>> /\ 0 \in 0 .. nn - 1
    BY <1>3, <2>1, Sizes DEF TBWaitValid, AwaitValid, Receiving, Control, RunTestBench
  <2> QED
    BY <1>3, <2>1, <2>2, ReceiveChunkStep DEF TBWaitValid, At, Receiving
<1>4. CASE TBRecv
  <2>1. At("recv") /\ ~(nn <= tbCnt)
    BY <1>4, Sizes DEF TBRecv, IInv, TypeOK, TestBenchTypeOK
  <2>2. PICK c \in 0 .. nn - 1 : TestBenchToRun /\ tbCnt = c /\ (Receiving(c) \/ Ending(c))
    BY <2>1, InRecv
  <2>3. ReceiveChunk(c) /\ UNCHANGED <<cur, nxt, loopVars, encVars>> /\ tbPc = "recv"
    BY <1>4, <2>2 DEF TBRecv, RunTestBench, At
  <2> QED
    BY <2>2, <2>3, ReceiveChunkStep DEF Receiving, Ending
<1>5. CASE TBInjectAndDecode
  <2>1. PICK corrupted \in Injected(tbMem) : tbMem' \in Decoded(corrupted)
    BY <1>5 DEF TBInjectAndDecode
  <2> QED
    BY <2>1, DataOutsideDecoding DEF IInv, TypeOK, TestBenchTypeOK
<1> QED
  BY <1>1, <1>2, <1>3, <1>4, <1>5 DEF RunTestBench, TestBenchStep

\* Only the generation of a packet changes the message it will be compared with.
THEOREM MessageIsKept ==
  ASSUME nn \notin RandIndex
  PROVE  SafetySpec => MessageKept
<1>1. ASSUME IInv, [Next]_vars
      PROVE  [tbPc # "generate" => Block(tbMem, Data(0), kk)' = Block(tbMem, Data(0), kk)]_vars
  <2>1. CASE UNCHANGED vars
    BY <2>1
  <2>2. CASE RunEncoder \/ ClockEdge \/ Stopped
    BY <2>2 DEF RunEncoder, ClockEdge, Stopped, tbVars, vars, Block
  <2>3. CASE RunTestBench
    <3> SUFFICES ASSUME tbPc # "generate", NEW i \in 0 .. kk - 1
                 PROVE  tbMem'[Data(0) + i] = tbMem[Data(0) + i]
      BY DEF Block
    <3>1. Data(0) + i = Data(i)
      BY Sizes DEF Data
    <3> QED
      BY <1>1, <2>3, <3>1, DataKeptByStep
  <2> QED
    BY <1>1, <2>1, <2>2, <2>3 DEF Next
<1> QED
  BY <1>1, LockStep, PTL DEF SafetySpec, MessageKept
-----------------------------------------------------------------------------
(* The kernel as the two threads use it *)

\* Each thread writes to the signals bound to its own output ports and to no other.
LEMMA KernelStep ==
  ASSUME IInv, [Next]_vars
  PROVE  [KernelNext]_kernelVars
<1>1. TypeOK /\ TypeOK'
  BY InductiveStep DEF IInv
<1>2. nxt \in Signals /\ nxt' \in Signals
  BY <1>1 DEF TypeOK, KernelTypeOK
<1>3. DOMAIN nxt = {"reset", "ready", "valid", "in", "out"}
  BY <1>2 DEF Signals
<1>4. CASE RunEncoder
  <2>1. "encoder" \in runnable /\ Wait("encoder") /\ UNCHANGED cur
    BY <1>4 DEF RunEncoder, EncoderStep, EncoderReset, EncoderAnnounce, EncoderPause, EncoderReceive,
                EncoderEncode, EncodeAndSend, EncoderSend, EncoderEnd, Resumed
  <2>2. nxt'["reset"] = nxt["reset"] /\ nxt'["in"] = nxt["in"]
    BY <1>2, <1>4 DEF Signals, RunEncoder, EncoderStep, EncoderReset, EncoderAnnounce, EncoderPause,
                      EncoderReceive, EncoderEncode, EncodeAndSend, EncoderSend, EncoderEnd
  <2>3. Activation("encoder")
    BY <1>2, <1>3, <2>1, <2>2 DEF Activation, Drives
  <2> QED
    BY <2>3 DEF KernelNext, Process
<1>5. CASE RunTestBench
  <2>1. "testbench" \in runnable /\ UNCHANGED cur /\ (runnable' = runnable \/ Wait("testbench"))
    BY <1>5 DEF RunTestBench, TestBenchStep, TBStart, TBRelease, TBBegin, TBGenerate, TBWaitReady,
                TBSend, TBSent, TBWaitValid, TBRecv, TBInjectAndDecode, TBNextVector,
                TBNextErrorCount, TBStop, At, AwaitReady, AwaitValid, SendChunk, ReceiveChunk,
                kernelVars
  <2>2. /\ nxt'["ready"] = nxt["ready"]
        /\ nxt'["valid"] = nxt["valid"]
        /\ nxt'["out"] = nxt["out"]
    BY <1>2, <1>5 DEF Signals, RunTestBench, TestBenchStep, TBStart, TBRelease, TBBegin, TBGenerate,
                TBWaitReady, TBSend, TBSent, TBWaitValid, TBRecv, TBInjectAndDecode, TBNextVector,
                TBNextErrorCount, TBStop, AwaitReady, AwaitValid, SendChunk, ReceiveChunk,
                kernelVars
  <2>3. Activation("testbench")
    BY <1>2, <1>3, <2>1, <2>2 DEF Activation, Drives
  <2> QED
    BY <2>3 DEF KernelNext, Process
<1>6. CASE ClockEdge
  BY <1>6 DEF ClockEdge, KernelNext
<1>7. CASE Stopped \/ UNCHANGED vars
  BY <1>7 DEF Stopped, vars, kernelVars
<1> QED
  BY <1>4, <1>5, <1>6, <1>7 DEF Next

\* The system uses of the kernel what KernelSpec describes and the kernel's own model
\* implements: a thread that runs writes to its own signals and sees those of the edge.
THEOREM UsesTheKernel == SafetySpec => KernelSpec
<1>1. Init => KernelInit
  BY DEF Init
<1> QED
  BY <1>1, LockStep, KernelStep, PTL DEF SafetySpec, KernelSpec

-----------------------------------------------------------------------------
(* The decoder *)

LEMMA Finite ==
  ASSUME NEW S \in SUBSET (0 .. nn)
  PROVE  IsFiniteSet(S) /\ Cardinality(S) \in Nat
<1>1. IsFiniteSet(0 .. nn)
  BY FS_Interval, Sizes
<1>2. IsFiniteSet(S)
  BY <1>1, FS_Subset
<1> QED
  BY <1>2, FS_CardinalityType

\* The number of places where two words differ is a metric.
LEMMA DistanceType ==
  ASSUME NEW v, NEW w
  PROVE  Distance(v, w) \in Nat
<1>1. {i \in 0 .. nn - 1 : v[i] # w[i]} \in SUBSET (0 .. nn)
  BY Sizes
<1> QED
  BY <1>1, Finite DEF Distance

LEMMA DistanceTriangle ==
  ASSUME NEW u, NEW v, NEW w
  PROVE  Distance(v, w) <= Distance(u, v) + Distance(u, w)
<1> DEFINE A == {i \in 0 .. nn - 1 : u[i] # v[i]}
           B == {i \in 0 .. nn - 1 : u[i] # w[i]}
           C == {i \in 0 .. nn - 1 : v[i] # w[i]}
<1>1. A \in SUBSET (0 .. nn) /\ B \in SUBSET (0 .. nn) /\ A \cup B \in SUBSET (0 .. nn)
  BY Sizes
<1>2. C \in SUBSET (A \cup B)
  OBVIOUS
<1>3. /\ IsFiniteSet(A) /\ Cardinality(A) \in Nat
      /\ IsFiniteSet(B) /\ Cardinality(B) \in Nat
      /\ IsFiniteSet(A \cup B)
  BY <1>1, Finite
<1>4. A \cap B \in SUBSET (0 .. nn) /\ Cardinality(A \cap B) \in Nat
  BY <1>1, Finite
<1>5. Cardinality(A \cup B) = Cardinality(A) + Cardinality(B) - Cardinality(A \cap B)
  BY <1>3, FS_Union
<1>6. C \in SUBSET (0 .. nn) /\ Cardinality(C) \in Nat
  BY <1>1, <1>2, Finite
<1>7. Cardinality(C) <= Cardinality(A \cup B)
  BY <1>2, <1>3, FS_Subset
<1>8. Cardinality(C) <= Cardinality(A) + Cardinality(B)
  BY <1>3, <1>4, <1>5, <1>6, <1>7
<1> QED
  BY <1>8 DEF Distance

LEMMA DistanceSymmetric ==
  ASSUME NEW v, NEW w
  PROVE  Distance(v, w) = Distance(w, v)
<1>1. {i \in 0 .. nn - 1 : v[i] # w[i]} = {i \in 0 .. nn - 1 : w[i] # v[i]}
  OBVIOUS
<1> QED
  BY <1>1 DEF Distance

\* A word within tt symbols of a codeword is decoded to that codeword.
LEMMA DecodeFindsTheCodeword ==
  ASSUME NEW c \in Codewords, NEW r, Distance(r, c) <= tt
  PROVE  Decode(r) = {c}
<1>1. ASSUME NEW d \in Codewords, Distance(r, d) <= tt
      PROVE  d = c
  <2>1. Distance(c, d) <= Distance(r, c) + Distance(r, d)
    BY DistanceTriangle
  <2>2. Distance(c, d) <= 2 * tt
    BY <1>1, <2>1, DistanceType, Sizes
  <2> QED
    BY <2>2, MinimumDistanceAssumption
<1>2. Near(r) = {c}
  BY <1>1 DEF Near
<1>3. CASE r \in Codewords
  <2>1. Distance(r, c) <= 2 * tt
    BY DistanceType, Sizes
  <2>2. r = c
    BY <1>3, <2>1, MinimumDistanceAssumption
  <2> QED
    BY <1>3, <2>2 DEF Decode
<1>4. CASE r \notin Codewords
  BY <1>2, <1>4 DEF Decode
<1> QED
  BY <1>3, <1>4

-----------------------------------------------------------------------------
(* The judgement *)

\* The injection changes as many symbols of the received packet as it hits indices.
LEMMA InjectedDistance ==
  ASSUME nn \notin RandIndex, NEW mem \in Memory, NEW corrupted \in Injected(mem)
  PROVE  Distance(Block(corrupted, Recd(0), nn), Block(mem, Recd(0), nn)) <= errorNumberIT
<1> DEFINE r == Block(corrupted, Recd(0), nn)
           v == Block(mem, Recd(0), nn)
<1>1. PICK indices \in SUBSET RandIndex :
        /\ Cardinality(indices) = errorNumberIT
        /\ \E f \in [indices -> RandByte] : corrupted = Overwrite(mem, Recd(0), f)
  BY DEF Injected
<1>2. PICK f \in [indices -> RandByte] : corrupted = Overwrite(mem, Recd(0), f)
  BY <1>1
<1>3. {i \in 0 .. nn - 1 : r[i] # v[i]} \in SUBSET indices
  <2> SUFFICES ASSUME NEW i \in 0 .. nn - 1, i \notin indices
               PROVE  r[i] = v[i]
    OBVIOUS
  <2>1. i \in Addr /\ Recd(0) + i = i /\ i - Recd(0) = i
    BY Sizes DEF Addr, Recd
  <2>2. corrupted[i] = mem[i]
    BY <1>2, <2>1 DEF Overwrite
  <2> QED
    BY <2>1, <2>2 DEF Block
<1>4. indices \in SUBSET (0 .. nn)
  BY <1>1, TestBenchAssumption
<1>5. IsFiniteSet(indices)
  BY <1>4, Finite
<1>6. Cardinality({i \in 0 .. nn - 1 : r[i] # v[i]}) <= Cardinality(indices)
  BY <1>3, <1>5, FS_Subset
<1> QED
  BY <1>1, <1>6 DEF Distance

\* With at most tt errors the decoded packet is the one that was sent.
LEMMA JudgedAsSent ==
  ASSUME nn \notin RandIndex, IInv, Symbols, TBInjectAndDecode, errorNumberIT <= tt
  PROVE  ~DataLost(tbMem')
<1> DEFINE c == Codeword(MessageIn(tbMem))
<1>1. tbMem \in Memory
  BY DEF IInv, TypeOK, TestBenchTypeOK
<1>2. c \in Codewords
  BY <1>1, MessageInType DEF Codewords
<1>3. Block(tbMem, Recd(0), nn) = c
  <2> SUFFICES ASSUME NEW i \in 0 .. nn - 1
               PROVE  tbMem[Recd(0) + i] = c[i]
    BY DEF Block, Codeword
  <2>1. i < tbCnt /\ i < nn /\ Recd(0) + i = i /\ tbPc = "recv"
    BY Sizes DEF Recd, TBInjectAndDecode, At, IInv, TypeOK, TestBenchTypeOK
  <2> QED
    BY <2>1 DEF IInv, TestBenchReceived, Flow
<1>4. PICK corrupted \in Injected(tbMem) : tbMem' \in Decoded(corrupted)
  BY DEF TBInjectAndDecode
<1>5. Distance(Block(corrupted, Recd(0), nn), c) <= tt
  <2>1. Distance(Block(corrupted, Recd(0), nn), c) <= errorNumberIT
    BY <1>1, <1>3, <1>4, InjectedDistance
  <2>2. errorNumberIT \in Nat
    BY Sizes DEF IInv, TypeOK, TestBenchTypeOK
  <2> QED
    BY <2>1, <2>2, DistanceType, Sizes
<1>6. tbMem' = Overwrite(corrupted, Recd(0), c)
  <2>1. Decode(Block(corrupted, Recd(0), nn)) = {c}
    BY <1>2, <1>5, DecodeFindsTheCodeword
  <2> QED
    BY <1>4, <2>1 DEF Decoded
<1>7. ASSUME NEW k \in 0 .. kk - 1
      PROVE  tbMem'[Data(k)] = tbMem'[Recd(k)]
  <2>1. tbMem'[Data(k)] = tbMem[Data(k)]
    BY <1>1, <1>4, DataOutsideDecoding
  <2>2. /\ Recd(k) \in Addr /\ Recd(k) - Recd(0) = k /\ k \in 0 .. nn - 1 /\ k < kk
    BY Sizes DEF Recd, Addr
  <2>3. tbMem'[Recd(k)] = c[k]
    BY <1>6, <2>2 DEF Overwrite, Codeword
  <2>4. c[k] = ToByte(tbMem[Data(k)])
    BY <2>2 DEF Codeword, MessageIn
  <2>5. tbMem[Data(k)] \in Byte
    BY DEF Symbols
  <2> QED
    BY <2>1, <2>3, <2>4, <2>5, ByteAssumption
<1> QED
  BY <1>7 DEF DataLost

-----------------------------------------------------------------------------
(* The stages *)

\* Where each thread is fixes the stage.
StageOfThreads ==
  /\ tbPc \in {"start", "reset1", "reset2", "generate"} => Stage = "idle"
  /\ tbPc \in {"waitReady", "send", "waitValid"} =>
       Stage = (IF encPc = "send" THEN "coded" ELSE "sent")
  /\ tbPc = "recv" => Stage = (IF tbCnt < nn THEN "coded" ELSE "returned")
  /\ tbPc = "next" => Stage = "judged"
  /\ tbPc = "ended" => Stage = "ended"

LEMMA Stages == IInv => StageOfThreads
<1> SUFFICES ASSUME IInv PROVE StageOfThreads
  OBVIOUS
<1>1. tbCnt \in Nat /\ nn \in Nat
  BY Sizes DEF IInv, TypeOK, TestBenchTypeOK
<1> QED
  BY <1>1 DEF Stage, StageOfThreads

LEMMA StagesAfter == IInv' => StageOfThreads'
BY Stages, PTL

\* A step that changes neither the stage nor the message nor a count is a stutter of
\* the specification, if the codeword under way stays.
LEMMA Stutter ==
  ASSUME Stage' = Stage, MessageIn(tbMem)' = MessageIn(tbMem), UNCHANGED loopVars,
         Stage = "coded" => encMem' = encMem,
         Stage = "returned" => tbMem' = tbMem
  PROVE  UNCHANGED Packets!vars
<1>1. InTransit' = InTransit
  BY DEF InTransit, Block
<1> QED
  BY <1>1 DEF Packets!vars, Packets!counts, loopVars

-----------------------------------------------------------------------------
(* Steps of the encoder *)

LEMMA EncodeCodes ==
  ASSUME IInv, IInv', EncoderEncode, UNCHANGED tbVars
  PROVE  Packets!Code
<1>1. tbPc \in {"send", "waitValid"} /\ encPc = "recv" /\ encPc' = "send"
  BY DEF IInv, EncoderEncode, EncodeAndSend, Resumed, EncoderToRun, Phase, Starting, Resetting,
         Released, Announced, Sending, Encoding, Receiving, Ending, Decoding, Control, Encoder,
         TestBench
<1>2. tbPc' = tbPc /\ tbMem' = tbMem /\ UNCHANGED loopVars
  BY DEF tbVars, loopVars
<1>3. Stage = "sent" /\ Stage' = "coded"
  BY <1>1, <1>2, Stages, StagesAfter DEF StageOfThreads
<1>4. Block(encMem', Recd(0), nn) = Codeword(MessageIn(tbMem))
  <2> SUFFICES ASSUME NEW i \in 0 .. nn - 1
               PROVE  encMem'[Recd(0) + i] = Codeword(MessageIn(tbMem))[i]
    BY DEF Block, Codeword
  <2>1. i \in 0 .. nn + kk - 1 /\ i < nn /\ Recd(0) + i = i
    BY Sizes DEF Recd
  <2>2. encMem'[i] = Flow(MessageIn(tbMem), i)
    BY <1>1, <1>2, <2>1 DEF IInv, EncoderCoded
  <2> QED
    BY <2>1, <2>2 DEF Flow
<1>5. InTransit' = Codeword(MessageIn(tbMem))
  BY <1>3, <1>4 DEF InTransit
<1> QED
  BY <1>2, <1>3, <1>5 DEF Packets!Code, Packets!counts, loopVars, MessageIn

\* The other steps of the encoder do not show: recd[] changes when no codeword is under way.
LEMMA EncoderStutters ==
  ASSUME IInv, IInv', EncoderStep, ~EncoderEncode, UNCHANGED tbVars
  PROVE  UNCHANGED Packets!vars
<1>1. /\ tbPc' = tbPc /\ tbCnt' = tbCnt /\ tbMem' = tbMem /\ UNCHANGED loopVars
      /\ MessageIn(tbMem)' = MessageIn(tbMem)
  BY DEF tbVars, loopVars
<1>2. tbPc \in {"waitReady", "send", "waitValid"} => (encPc' = "send" <=> encPc = "send")
  <2>1. CASE EncoderEnd
    <3>1. PICK c \in 0 .. nn : Ending(c)
      BY <2>1, Sizes
         DEF IInv, EncoderEnd, Resumed, EncoderToRun, Phase, Starting, Resetting, Released,
             Announced, Sending, Encoding, Receiving, Ending, Decoding, Control, Encoder, W
    <3> QED
      BY <3>1 DEF Ending, TestBench
  <2>2. CASE EncoderReset
    BY <2>2 DEF IInv, EncoderReset, EncoderToRun, Phase, Starting, Resetting, Released,
                Announced, Sending, Encoding, Receiving, Ending, Decoding, Control, Encoder,
                TestBench
  <2> QED
    BY <2>1, <2>2 DEF EncoderStep, EncoderAnnounce, EncoderPause, EncoderReceive, EncoderSend,
                      Resumed
<1>3. Stage' = Stage
  BY <1>1, <1>2, Stages, StagesAfter DEF StageOfThreads, IInv, TypeOK, TestBenchTypeOK
<1>4. Stage = "coded" => encMem' = encMem
  <2>1. CASE EncoderReceive
    <3>1. encPc = "recv" /\ ~ (tbPc = "recv" /\ tbCnt < nn)
      BY <2>1, Sizes DEF IInv, TypeOK, TestBenchTypeOK, EncoderReceive, Resumed, EncoderToRun, Phase, Starting, Resetting,
             Released, Announced, Sending, Encoding, Receiving, Ending, Decoding, Control,
             Encoder, TestBench
    <3> QED
      BY <3>1, Stages DEF StageOfThreads, IInv, TypeOK, TestBenchTypeOK
  <2> QED
    BY <2>1 DEF EncoderStep, EncoderReset, EncoderAnnounce, EncoderPause, EncoderSend, EncoderEnd
<1> QED
  BY <1>1, <1>3, <1>4, Stutter

-----------------------------------------------------------------------------
(* Steps of the test bench *)

\* Which symbols the generation chooses is left open.
LEMMA GenerateHandsOver ==
  ASSUME IInv, IInv', TBGenerate, UNCHANGED encVars
  PROVE  Packets!HandOver
<1>1. tbPc = "generate" /\ tbPc' \in {"waitReady", "send"} /\ encPc' = encPc /\ UNCHANGED loopVars
  BY DEF TBGenerate, At, AwaitReady, SendChunk, encVars
<1>2. encPc # "send"
  BY <1>1 DEF IInv, TBGenerate, At, TestBenchToRun, Phase, Starting, Resetting, Released, Announced,
       Sending, Encoding, Receiving, Ending, Decoding, Control, Encoder, TestBench
<1>3. Stage = "idle" /\ Stage' = "sent"
  BY <1>1, <1>2, Stages, StagesAfter DEF StageOfThreads
<1>4. InTransit' = InTransit
  BY <1>3 DEF InTransit
<1>5. MessageIn(tbMem') \in Message
  BY MessageInType DEF IInv, TypeOK, TestBenchTypeOK
<1> QED
  BY <1>1, <1>3, <1>4, <1>5 DEF Packets!HandOver, Packets!counts, loopVars, MessageIn

\* The steps of the handshake do not show.
LEMMA HandshakeStutters ==
  ASSUME IInv, IInv', UNCHANGED encVars,
         TBStart \/ TBRelease \/ TBBegin \/ TBWaitReady \/ TBSend \/ TBSent
  PROVE  UNCHANGED Packets!vars
<1>1. encPc' = encPc /\ encMem' = encMem
  BY DEF encVars
<1>2. CASE TBStart \/ TBRelease \/ TBBegin
  <2>1. Stage = "idle" /\ Stage' = "idle" /\ tbMem' = tbMem /\ UNCHANGED loopVars
    BY <1>2, Stages, StagesAfter DEF StageOfThreads, TBStart, TBRelease, TBBegin, At
  <2> QED
    BY <1>1, <2>1, Stutter DEF MessageIn
<1>3. CASE TBWaitReady \/ TBSend \/ TBSent
  <2>1. /\ tbPc \in {"waitReady", "send", "waitValid"} /\ tbPc' \in {"waitReady", "send", "waitValid"}
        /\ tbMem' = tbMem /\ UNCHANGED loopVars
    <3>1. CASE TBSent
      <4>1. PICK c \in 0 .. nn : tbCnt = c + W /\ (Sending(c) \/ Encoding(c))
        BY <3>1, InSend DEF TBSent
      <4>2. ~cur.valid
        BY <4>1 DEF Sending, Encoding, Control
      <4> QED
        BY <3>1, <4>2 DEF TBSent, At, AwaitValid
    <3> QED
      BY <1>3, <3>1 DEF TBWaitReady, TBSend, At, AwaitReady, SendChunk
  <2>2. Stage' = Stage
    BY <1>1, <2>1, Stages, StagesAfter DEF StageOfThreads
  <2> QED
    BY <1>1, <2>1, <2>2, Stutter DEF MessageIn
<1> QED
  BY <1>2, <1>3

\* The message that the codeword is judged by stays, although the chunks overrun recd[].
LEMMA MessageStays ==
  ASSUME nn \notin RandIndex, IInv, RunTestBench, tbPc # "generate"
  PROVE  MessageIn(tbMem)' = MessageIn(tbMem)
BY DataKeptByStep DEF MessageIn

\* The first chunk does not complete the codeword.
LEMMA FirstChunkStutters ==
  ASSUME nn \notin RandIndex, IInv, IInv', TBWaitValid, UNCHANGED encVars
  PROVE  UNCHANGED Packets!vars
<1>1. MessageIn(tbMem)' = MessageIn(tbMem)
  BY MessageStays DEF TBWaitValid, At, RunTestBench, TestBenchStep
<1>2. Receiving(0)
  BY Sizes DEF IInv, TBWaitValid, At, TestBenchToRun, Phase, Starting, Resetting, Released,
       Announced, Sending, Encoding, Receiving, Ending, Decoding, TestBench
<1>3. /\ encPc = "send" /\ encMem' = encMem /\ tbPc = "waitValid" /\ tbPc' = "recv" /\ tbCnt' = W
      /\ UNCHANGED loopVars
  BY <1>2, Sizes DEF TBWaitValid, At, AwaitValid, ReceiveChunk, Receiving, Control, Encoder, encVars, W
<1>4. Stage = "coded" /\ Stage' = "coded"
  BY <1>3, Sizes, Stages, StagesAfter DEF StageOfThreads
<1> QED
  BY <1>1, <1>3, <1>4, Stutter

\* The last chunk does.
LEMMA ChunkReturns ==
  ASSUME nn \notin RandIndex, IInv, IInv', Coded, TBRecv, UNCHANGED encVars
  PROVE  Packets!Return \/ UNCHANGED Packets!vars
<1>1. MessageIn(tbMem)' = MessageIn(tbMem)
  BY MessageStays DEF TBRecv, At, RunTestBench, TestBenchStep
<1>2. /\ tbPc = "recv" /\ tbPc' = "recv" /\ tbCnt < nn /\ encMem' = encMem
      /\ UNCHANGED loopVars
  BY DEF TBRecv, At, ReceiveChunk, encVars
<1>3. Stage = "coded" /\ Stage' = IF tbCnt' < nn THEN "coded" ELSE "returned"
  BY <1>2, Stages, StagesAfter DEF StageOfThreads
<1>4. CASE tbCnt' < nn
  BY <1>1, <1>2, <1>3, <1>4, Stutter
<1>5. CASE ~(tbCnt' < nn)
  <2>1. InTransit = Codeword(MessageIn(tbMem))
    BY <1>3 DEF Coded
  <2>2. Block(tbMem', Recd(0), nn) = Codeword(MessageIn(tbMem))
    <3> SUFFICES ASSUME NEW i \in 0 .. nn - 1
                 PROVE  tbMem'[Recd(0) + i] = Codeword(MessageIn(tbMem))[i]
      BY DEF Block, Codeword
    <3>1. i < tbCnt' /\ i < nn /\ Recd(0) + i = i
      BY <1>5, Sizes DEF Recd, IInv, TypeOK, TestBenchTypeOK
    <3>2. tbMem'[i] = Flow(MessageIn(tbMem), i)
      BY <1>1, <1>2, <3>1 DEF IInv, TestBenchReceived
    <3> QED
      BY <3>1, <3>2 DEF Flow
  <2>3. InTransit' = InTransit
    BY <1>3, <1>5, <2>1, <2>2 DEF InTransit
  <2> QED
    BY <1>1, <1>2, <1>3, <1>5, <2>3 DEF Packets!Return, Packets!counts, loopVars
<1> QED
  BY <1>4, <1>5

\* The packet is judged by the message that was sent, and lost only with more than tt errors.
LEMMA DecodeJudges ==
  ASSUME nn \notin RandIndex, IInv, IInv', Symbols, TBInjectAndDecode, UNCHANGED encVars
  PROVE  Packets!Judge
<1>1. MessageIn(tbMem)' = MessageIn(tbMem)
  BY MessageStays DEF TBInjectAndDecode, At, RunTestBench, TestBenchStep
<1>2. tbPc = "recv" /\ ~(tbCnt < nn) /\ tbPc' = "next" /\ errorNumberIT' = errorNumberIT /\ j' = j
  BY Sizes DEF TBInjectAndDecode, At, IInv, TypeOK, TestBenchTypeOK
<1>3. Stage = "returned" /\ Stage' = "judged" /\ InTransit' = <<>>
  BY <1>2, Stages, StagesAfter DEF StageOfThreads, InTransit
<1>4. \/ UNCHANGED no_encoder_errors
      \/ errorNumberIT > tt /\ no_encoder_errors' = no_encoder_errors + 1
  <2>1. CASE errorNumberIT <= tt
    BY <2>1, JudgedAsSent, Sizes DEF TBInjectAndDecode, IInv, TypeOK, TestBenchTypeOK
  <2>2. CASE errorNumberIT > tt
    BY <2>2, Sizes DEF TBInjectAndDecode, IInv, TypeOK, TestBenchTypeOK
  <2> QED
    BY <2>1, <2>2, Sizes DEF IInv, TypeOK, TestBenchTypeOK
<1> QED
  BY <1>1, <1>2, <1>3, <1>4 DEF Packets!Judge

LEMMA NextPacketFollows ==
  ASSUME IInv, IInv', TBNextVector \/ TBNextErrorCount \/ TBStop
  PROVE  Packets!NextPacket
<1>1. tbPc = "next" /\ tbMem' = tbMem
  BY DEF TBNextVector, TBNextErrorCount, TBStop, At
<1>2. Stage = "judged" /\ MessageIn(tbMem)' = MessageIn(tbMem)
  BY <1>1, Stages DEF StageOfThreads, MessageIn
<1>3. CASE TBNextVector
  <2>1. Stage' = "idle" /\ InTransit' = InTransit
    BY <1>2, <1>3, StagesAfter DEF TBNextVector, StageOfThreads, InTransit
  <2> QED
    BY <1>2, <1>3, <2>1 DEF TBNextVector, Packets!NextPacket
<1>4. CASE TBNextErrorCount
  <2>1. Stage' = "idle" /\ InTransit' = InTransit
    BY <1>2, <1>4, StagesAfter DEF TBNextErrorCount, StageOfThreads, InTransit
  <2> QED
    BY <1>2, <1>4, <2>1 DEF TBNextErrorCount, Packets!NextPacket
<1>5. CASE TBStop
  <2>1. Stage' = "ended" /\ InTransit' = InTransit
    BY <1>2, <1>5, StagesAfter DEF TBStop, StageOfThreads, InTransit
  <2> QED
    BY <1>2, <1>5, <2>1 DEF TBStop, Packets!NextPacket, Packets!counts, loopVars
<1> QED
  BY <1>3, <1>4, <1>5

-----------------------------------------------------------------------------
(* The specification *)

LEMMA PacketStep ==
  ASSUME nn \notin RandIndex, IInv, IInv', Symbols, Coded, [Next]_vars
  PROVE  [Packets!Next]_(Packets!vars)
<1>1. CASE RunEncoder
  BY <1>1, EncodeCodes, EncoderStutters DEF RunEncoder, Packets!Next
<1>2. CASE RunTestBench
  BY <1>2, GenerateHandsOver, HandshakeStutters, FirstChunkStutters, ChunkReturns, DecodeJudges,
     NextPacketFollows DEF RunTestBench, TestBenchStep, Packets!Next
<1>3. CASE ClockEdge \/ Stopped \/ UNCHANGED vars
  <2>1. /\ UNCHANGED loopVars /\ encMem' = encMem /\ tbMem' = tbMem
        /\ encPc' = encPc /\ tbPc' = tbPc /\ tbCnt' = tbCnt
    BY <1>3 DEF ClockEdge, Stopped, vars, encVars, tbVars, loopVars
  <2>2. Stage' = Stage /\ MessageIn(tbMem)' = MessageIn(tbMem)
    BY <2>1 DEF Stage, MessageIn
  <2> QED
    BY <2>1, <2>2, Stutter
<1> QED
  BY <1>1, <1>2, <1>3 DEF Next

\* data[] keeps symbols: what is generated is one, and nothing else changes it.
LEMMA SymbolsStep ==
  ASSUME nn \notin RandIndex, IInv, Symbols, [Next]_vars
  PROVE  Symbols'
<1>1. CASE TBGenerate
  <2>1. PICK random \in [0 .. kk - 3 -> Byte] : tbMem' = Overwrite(tbMem, Data(0), random)
    BY <1>1 DEF TBGenerate
  <2> SUFFICES ASSUME NEW i \in 0 .. kk - 1 PROVE tbMem'[Data(i)] \in Byte
    BY DEF Symbols
  <2>2. Data(i) \in Addr /\ Data(i) - Data(0) = i
    BY Sizes DEF Addr, Data
  <2> QED
    BY <2>1, <2>2 DEF Overwrite, Symbols
<1>2. CASE RunTestBench /\ ~TBGenerate
  <2>1. tbPc # "generate"
    BY <1>2 DEF RunTestBench, TestBenchStep, TBStart, TBRelease, TBBegin, TBWaitReady, TBSend,
                TBSent, TBWaitValid, TBRecv, TBInjectAndDecode, TBNextVector, TBNextErrorCount,
                TBStop, At
  <2> QED
    BY <1>2, <2>1, DataKeptByStep DEF Symbols
<1>3. CASE RunEncoder \/ ClockEdge \/ Stopped \/ UNCHANGED vars
  BY <1>3 DEF RunEncoder, ClockEdge, Stopped, vars, tbVars, Symbols
<1> QED
  BY <1>1, <1>2, <1>3 DEF Next

\* What the steps of StoreAndForward keep: the codeword under way, and the count.
LEMMA CodedStep ==
  ASSUME Coded, [Packets!Next]_(Packets!vars)
  PROVE  Coded'
<1> SUFFICES ASSUME Stage' = "coded" PROVE InTransit' = Codeword(MessageIn(tbMem'))
  BY DEF Coded, MessageIn
<1>1. CASE Packets!Code
  BY <1>1 DEF Packets!Code, MessageIn
<1>2. CASE UNCHANGED Packets!vars
  BY <1>2 DEF Packets!vars, Coded, MessageIn
<1> QED
  BY <1>1, <1>2 DEF Packets!Next, Packets!HandOver, Packets!Return, Packets!Judge,
                    Packets!NextPacket

LEMMA RecoveredStep ==
  ASSUME TypeOK, Recovered, [Packets!Next]_(Packets!vars)
  PROVE  Recovered'
<1>1. errorNumberIT \in Nat /\ tt \in Nat /\ no_encoder_errors \in Nat
  BY Sizes DEF TypeOK, TestBenchTypeOK
<1> QED
  BY <1>1 DEF Recovered, Packets!Next, Packets!vars, Packets!counts, Packets!HandOver, Packets!Code,
              Packets!Return, Packets!Judge, Packets!NextPacket

LEMMA PacketInit ==
  ASSUME Init
  PROVE  Packets!Init
<1>1. IInv /\ tbPc = "start"
  BY InitStep DEF Init, TestBenchInit
<1>2. Stage = "idle" /\ InTransit = <<>>
  BY <1>1, Stages DEF StageOfThreads, InTransit
<1>3. MessageIn(tbMem) \in Message
  BY <1>1, MessageInType DEF IInv, TypeOK, TestBenchTypeOK
<1> QED
  BY <1>2, <1>3 DEF Init, TestBenchInit, Packets!Init

LEMMA JudgeInit ==
  ASSUME InitialMemory \subseteq [Addr -> Byte], Init
  PROVE  JudgeInv
<1>1. Symbols
  <2> SUFFICES ASSUME NEW i \in 0 .. kk - 1 PROVE tbMem[Data(i)] \in Byte
    BY DEF Symbols
  <2>1. Data(i) \in Addr
    BY Sizes DEF Addr, Data
  <2> QED
    BY <2>1 DEF Init, TestBenchInit
<1>2. Stage = "idle"
  BY PacketInit DEF Packets!Init
<1> QED
  BY <1>1, <1>2, InitStep DEF JudgeInv, Coded, Recovered, Init, TestBenchInit

LEMMA JudgeStep ==
  ASSUME nn \notin RandIndex, JudgeInv, [Next]_vars
  PROVE  JudgeInv'
<1>1. IInv'
  BY InductiveStep DEF JudgeInv
<1>2. [Packets!Next]_(Packets!vars)
  BY <1>1, PacketStep DEF JudgeInv
<1> QED
  BY <1>1, <1>2, SymbolsStep, CodedStep, RecoveredStep DEF JudgeInv, IInv

\* If rand() % 256 is never 255 and data[] is not stale, a packet with at most tt
\* corrupted symbols always comes back as it was sent: the program prints OK.
THEOREM AlwaysRecovered ==
  ASSUME nn \notin RandIndex, InitialMemory \subseteq [Addr -> Byte]
  PROVE  SafetySpec => []Recovered
<1>1. Init => JudgeInv
  BY JudgeInit
<1>2. JudgeInv /\ [Next]_vars => JudgeInv'
  BY JudgeStep
<1>3. JudgeInv => Recovered
  BY DEF JudgeInv
<1> QED
  BY <1>1, <1>2, <1>3, PTL DEF SafetySpec

\* Under the same two conditions the threads implement StoreAndForward: although no
\* chunk is acknowledged, every packet is handed over once, its codeword returns once,
\* and it is judged by its own message before there is another one.
THEOREM Implementation ==
  ASSUME nn \notin RandIndex, InitialMemory \subseteq [Addr -> Byte]
  PROVE  SafetySpec => ImplementsStoreAndForward
<1>1. Init => JudgeInv /\ Packets!Init
  BY JudgeInit, PacketInit
<1>2. JudgeInv /\ [Next]_vars => JudgeInv' /\ [Packets!Next]_(Packets!vars)
  <2> SUFFICES ASSUME JudgeInv, [Next]_vars
               PROVE  JudgeInv' /\ [Packets!Next]_(Packets!vars)
    OBVIOUS
  <2>1. JudgeInv'
    BY JudgeStep
  <2> QED
    BY <2>1, PacketStep DEF JudgeInv
<1> QED
  BY <1>1, <1>2, PTL DEF SafetySpec, ImplementsStoreAndForward, Packets!Spec

-----------------------------------------------------------------------------
(* Every step counts *)

\* A product of natural numbers.
LEMMA NatProduct ==
  ASSUME NEW a \in Nat, NEW b \in Nat
  PROVE  a * b \in Nat
OBVIOUS

\* The turns left are bounded.
LEMMA TurnsType ==
  ASSUME TypeOK
  PROVE  TurnsLeft \in 0 .. 2 * (nn + W) + 9
<1>1. /\ nn \in Nat /\ W \in Nat /\ tbCnt \in 0 .. nn + W
      /\ tbPc \in {"start", "reset1", "reset2", "generate", "waitReady", "send",
                   "waitValid", "recv", "next", "ended"}
  BY Sizes DEF TypeOK, TestBenchTypeOK, W
<1>2. /\ tbPc = "ended" => TurnsLeft = 0
      /\ tbPc = "next" => TurnsLeft = 1
      /\ tbPc = "recv" => TurnsLeft = 2 + (nn + W - tbCnt)
      /\ tbPc = "waitValid" => TurnsLeft = nn + W + 3
      /\ tbPc = "send" => TurnsLeft = nn + W + 4 + (nn + W - tbCnt)
      /\ tbPc = "waitReady" => TurnsLeft = 2 * (nn + W) + 5
      /\ tbPc = "generate" => TurnsLeft = 2 * (nn + W) + 6
      /\ tbPc = "reset2" => TurnsLeft = 2 * (nn + W) + 7
      /\ tbPc = "reset1" => TurnsLeft = 2 * (nn + W) + 8
      /\ tbPc = "start" => TurnsLeft = 2 * (nn + W) + 9
  BY <1>1 DEF TurnsLeft
<1> QED
  BY <1>1, <1>2

\* A turn weighs more than all steps up to the next one.
LEMMA TurnWeighs ==
  ASSUME NEW done \in Nat, NEW t \in Int, NEW u \in Int, NEW r \in 0 .. 3, NEW s \in 0 .. 3,
         u < t \/ (u = t /\ s < r)
  PROVE  4 * (done + u) + s < 4 * (done + t) + r
OBVIOUS

\* What the turns left are made of.
LEMMA LeftType ==
  ASSUME TypeOK
  PROVE  /\ PacketsLeft \in Nat
         /\ TurnsLeft \in 0 .. 2 * (nn + W) + 9
         /\ StepsToTurn \in 0 .. 3
         /\ StepsLeft \in Nat
<1>1. /\ tt + 1 - errorNumberIT \in Nat /\ NUMBER_OF_TEST_VECTOR \in Nat
      /\ NUMBER_OF_TEST_VECTOR - 1 - j \in Nat
  BY Sizes, TestBenchAssumption DEF TypeOK, TestBenchTypeOK
<1>2. (tt + 1 - errorNumberIT) * NUMBER_OF_TEST_VECTOR \in Nat
  BY <1>1
<1>3. PacketsLeft \in Nat
  BY <1>1, <1>2 DEF PacketsLeft
<1>4. TurnsLeft \in 0 .. 2 * (nn + W) + 9
  BY TurnsType
<1>5. StepsToTurn \in 0 .. 3
  BY DEF StepsToTurn
<1>6. 2 * (nn + W) + 6 \in Nat
  BY Sizes
<1>7. PacketsLeft * (2 * (nn + W) + 6) \in Nat
  BY <1>3, <1>6, NatProduct
<1> DEFINE done == PacketsLeft * (2 * (nn + W) + 6)
<1>8. StepsLeft = 4 * (done + TurnsLeft) + StepsToTurn /\ done \in Nat
  BY <1>7 DEF StepsLeft
<1> HIDE DEF done
<1>9. StepsLeft \in Nat
  BY <1>4, <1>5, <1>8, Sizes
<1> QED
  BY <1>3, <1>4, <1>5, <1>9

\* A turn of the test bench that ends in a wait().
LEMMA TurnCounts ==
  ASSUME TypeOK, PacketsLeft' = PacketsLeft, TurnsLeft' \in Nat, TurnsLeft' < TurnsLeft
  PROVE  StepsLeft' < StepsLeft
<1> DEFINE done == PacketsLeft * (2 * (nn + W) + 6)
<1>1. done \in Nat /\ done' = done
  <2>1. PacketsLeft \in Nat /\ 2 * (nn + W) + 6 \in Nat
    BY LeftType, Sizes
  <2> QED
    BY <2>1, NatProduct
<1>2. TurnsLeft \in Int /\ StepsToTurn \in 0 .. 3
  BY LeftType
<1>3. TurnsLeft' \in Int /\ StepsToTurn' \in 0 .. 3
  BY DEF StepsToTurn
<1>4. StepsLeft = 4 * (done + TurnsLeft) + StepsToTurn /\ StepsLeft' = 4 * (done + TurnsLeft') + StepsToTurn'
  BY <1>1 DEF StepsLeft
<1> HIDE DEF done
<1> QED
  BY <1>1, <1>2, <1>3, <1>4, TurnWeighs

\* The encoder runs, or the clock.
LEMMA CycleCounts ==
  ASSUME TypeOK, UNCHANGED tbVars, StepsToTurn' < StepsToTurn
  PROVE  StepsLeft' < StepsLeft
<1> DEFINE done == PacketsLeft * (2 * (nn + W) + 6)
<1>1. PacketsLeft' = PacketsLeft /\ TurnsLeft' = TurnsLeft
  BY DEF tbVars, PacketsLeft, TurnsLeft
<1>2. done \in Nat /\ done' = done
  <2>1. PacketsLeft \in Nat /\ 2 * (nn + W) + 6 \in Nat
    BY LeftType, Sizes
  <2> QED
    BY <2>1, <1>1, NatProduct
<1>3. TurnsLeft \in Int /\ StepsToTurn \in 0 .. 3
  BY LeftType
<1>4. StepsToTurn' \in 0 .. 3
  BY DEF StepsToTurn
<1>5. StepsLeft = 4 * (done + TurnsLeft) + StepsToTurn /\ StepsLeft' = 4 * (done + TurnsLeft) + StepsToTurn'
  BY <1>1, <1>2 DEF StepsLeft
<1> HIDE DEF done
<1> QED
  BY <1>2, <1>3, <1>4, <1>5, TurnWeighs

\* In its places and loops the test bench goes forward only.
LEMMA TurnForward ==
  ASSUME IInv,
         \/ TBStart \/ TBRelease \/ TBBegin \/ TBGenerate \/ TBWaitReady \/ TBSend
         \/ TBSent \/ TBWaitValid \/ TBRecv \/ TBInjectAndDecode \/ TBStop
  PROVE  PacketsLeft' = PacketsLeft /\ TurnsLeft' \in Nat /\ TurnsLeft' < TurnsLeft
<1>0. /\ nn \in Nat /\ kk \in Nat /\ W \in Nat \ {0} /\ tbCnt \in 0 .. nn + W
      /\ kk <= nn /\ W = NB_BYTE_INPUT
  BY Sizes DEF IInv, TypeOK, TestBenchTypeOK, W
<1>1. CASE TBStart \/ TBRelease \/ TBBegin \/ TBStop
  BY <1>0, <1>1 DEF TBStart, TBRelease, TBBegin, TBStop, At, loopVars, PacketsLeft, TurnsLeft
<1>2. CASE TBGenerate
  BY <1>0, <1>2 DEF TBGenerate, AwaitReady, SendChunk, At, loopVars, PacketsLeft, TurnsLeft
<1>3. CASE TBWaitReady
  <2>1. cur.ready
    BY <1>3 DEF IInv, TBWaitReady, At, TestBenchToRun, Phase, Starting, Resetting, Released, Announced,
           Sending, Encoding, Receiving, Ending, Decoding, TestBench, Control
  <2> QED
    BY <1>0, <1>3, <2>1 DEF TBWaitReady, AwaitReady, SendChunk, At, loopVars, PacketsLeft, TurnsLeft
<1>4. CASE TBSend
  <2>1. tbPc = "send" /\ tbPc' = "send" /\ tbCnt < kk /\ tbCnt' = tbCnt + W /\ UNCHANGED loopVars
    BY <1>0, <1>4 DEF TBSend, SendChunk, At
  <2> QED
    BY <1>0, <2>1 DEF loopVars, PacketsLeft, TurnsLeft
<1>5. CASE TBSent
  BY <1>0, <1>5 DEF TBSent, AwaitValid, ReceiveChunk, At, loopVars, PacketsLeft, TurnsLeft
<1>6. CASE TBWaitValid
  <2>1. cur.valid
    BY <1>6 DEF IInv, TBWaitValid, At, TestBenchToRun, Phase, Starting, Resetting, Released, Announced,
           Sending, Encoding, Receiving, Ending, Decoding, TestBench, Control
  <2> QED
    BY <1>0, <1>6, <2>1 DEF TBWaitValid, AwaitValid, ReceiveChunk, At, loopVars, PacketsLeft, TurnsLeft
<1>7. CASE TBRecv
  <2>1. tbPc = "recv" /\ tbPc' = "recv" /\ tbCnt < nn /\ tbCnt' = tbCnt + W /\ UNCHANGED loopVars
    BY <1>0, <1>7 DEF TBRecv, ReceiveChunk, At
  <2> QED
    BY <1>0, <2>1 DEF loopVars, PacketsLeft, TurnsLeft
<1>8. CASE TBInjectAndDecode
  BY <1>0, <1>8 DEF TBInjectAndDecode, At, PacketsLeft, TurnsLeft
<1> QED
  BY <1>1, <1>2, <1>3, <1>4, <1>5, <1>6, <1>7, <1>8

\* The next packet is one less that is left.
LEMMA PacketCounts ==
  ASSUME IInv, IInv', TBNextVector \/ TBNextErrorCount
  PROVE  StepsLeft' < StepsLeft
<1> DEFINE length == 2 * (nn + W) + 6
           done   == PacketsLeft * length
<1>0. nn \in Nat /\ W \in Nat /\ length \in Nat
  BY Sizes
<1>1. PacketsLeft \in Nat /\ StepsToTurn \in 0 .. 3
  BY LeftType DEF IInv
<1>2. PacketsLeft' = PacketsLeft - 1
  <2>1. tt \in Nat /\ NUMBER_OF_TEST_VECTOR \in Nat /\ errorNumberIT \in Nat /\ j \in Nat
    BY Sizes, TestBenchAssumption DEF IInv, TypeOK, TestBenchTypeOK
  <2>2. CASE TBNextVector
    BY <2>1, <2>2 DEF TBNextVector, PacketsLeft
  <2>3. CASE TBNextErrorCount
    <3>1. (tt + 1 - (errorNumberIT + 1)) * NUMBER_OF_TEST_VECTOR =
            (tt + 1 - errorNumberIT) * NUMBER_OF_TEST_VECTOR - NUMBER_OF_TEST_VECTOR
      BY <2>1
    <3>2. errorNumberIT' = errorNumberIT + 1 /\ j' = 0 /\ j + 1 = NUMBER_OF_TEST_VECTOR
      BY <2>3 DEF TBNextErrorCount
    <3> DEFINE a == (tt + 1 - errorNumberIT) * NUMBER_OF_TEST_VECTOR
    <3>3. a \in Int
      BY <2>1
    <3>4. PacketsLeft = a + NUMBER_OF_TEST_VECTOR - 1 - j /\ PacketsLeft' = a - NUMBER_OF_TEST_VECTOR + NUMBER_OF_TEST_VECTOR - 1 - 0
      BY <3>1, <3>2 DEF PacketsLeft
    <3> HIDE DEF a
    <3> QED
      BY <3>2, <3>3, <3>4, <2>1
  <2> QED
    BY <2>2, <2>3
<1>3. done \in Nat /\ done' = done - length
  <2>1. length' = length
    OBVIOUS
  <2> HIDE DEF length
  <2>2. (PacketsLeft - 1) * length = PacketsLeft * length - length
    BY <1>0, <1>1
  <2> QED
    BY <1>0, <1>1, <1>2, <2>1, <2>2
<1>4. TurnsLeft = 1 /\ TurnsLeft' = length
  <2>1. tbPc = "next" /\ tbPc' = "generate"
    BY DEF TBNextVector, TBNextErrorCount, At
  <2> QED
    BY <2>1, <1>0 DEF TurnsLeft
<1>5. StepsToTurn' = StepsToTurn
  BY DEF StepsToTurn, EncoderToRun, TestBenchToRun, TBNextVector, TBNextErrorCount, kernelVars
<1>6. StepsLeft = 4 * (done + TurnsLeft) + StepsToTurn /\ StepsLeft' = 4 * (done' + TurnsLeft') + StepsToTurn'
  BY DEF StepsLeft
<1> HIDE DEF done, length
<1> QED
  BY <1>0, <1>1, <1>3, <1>4, <1>5, <1>6

\* Each step of either side or of the clock.
LEMMA StepCounts ==
  ASSUME IInv, IInv', [Next]_vars
  PROVE  [StepsLeft' < StepsLeft]_vars
<1>2. CASE RunEncoder
  <2>1. UNCHANGED tbVars /\ "encoder" \in runnable /\ runnable' = runnable \ {"encoder"}
    BY <1>2 DEF RunEncoder, EncoderStep, EncoderReset, EncoderAnnounce, EncoderPause, EncoderReceive,
                EncoderEncode, EncodeAndSend, EncoderSend, EncoderEnd, Resumed, Wait
  <2>2. StepsToTurn' < StepsToTurn
    BY <2>1 DEF StepsToTurn, EncoderToRun, TestBenchToRun
  <2> QED
    BY <2>1, <2>2, CycleCounts DEF IInv
<1>3. CASE ClockEdge
  <2>1. UNCHANGED tbVars /\ runnable = {} /\ runnable' = Process
    BY <1>3 DEF ClockEdge, NextEdge
  <2>2. StepsToTurn' < StepsToTurn
    BY <2>1 DEF StepsToTurn, EncoderToRun, TestBenchToRun, Process
  <2> QED
    BY <2>1, <2>2, CycleCounts DEF IInv
<1>4. CASE RunTestBench
  <2>1. CASE TBNextVector \/ TBNextErrorCount
    BY <2>1, PacketCounts
  <2>2. CASE ~(TBNextVector \/ TBNextErrorCount)
    <3>1. PacketsLeft' = PacketsLeft /\ TurnsLeft' \in Nat /\ TurnsLeft' < TurnsLeft
      BY <1>4, <2>2, TurnForward DEF RunTestBench, TestBenchStep
    <3> QED
      BY <3>1, TurnCounts DEF IInv
  <2> QED
    BY <2>1, <2>2
<1>5. CASE Stopped \/ UNCHANGED vars
  BY <1>5 DEF Stopped
<1> QED
  BY <1>2, <1>3, <1>4, <1>5 DEF Next

\* The threads never wait in vain, for any size and number of packets: each step brings the
\* end of the program nearer, so that a run has at most StepsLeft of them.
THEOREM StepsAreCounted == SafetySpec => EveryStepCounts
<1>1. IInv /\ IInv' /\ [Next]_vars => [StepsLeft' < StepsLeft]_vars
  BY StepCounts
<1>2. IInv => StepsLeft \in Nat
  BY LeftType DEF IInv
<1>3. (StepsLeft \in Nat)' /\ [StepsLeft' < StepsLeft]_vars => [StepsLeft' \in Nat /\ StepsLeft' < StepsLeft]_vars
  OBVIOUS
<1> QED
  BY <1>1, <1>2, <1>3, LockStep, PTL DEF SafetySpec, EveryStepCounts
=============================================================================
