---------------------------- MODULE MainTopLevel ----------------------------
(***************************************************************************)
(* sc_main (impl/src/MainTopLevel.cpp): the encoder and the test bench     *)
(* connected by sc_buffer signals and one clock, run until sc_stop().      *)
(***************************************************************************)
EXTENDS RSEncoder, RSEncoderTB

vars == <<cur, nxt, runnable, encPc, encCnt, encMem,
          tbPc, tbCnt, tbMem, errorNumberIT, j, no_encoder_errors>>

Init ==
  /\ KernelInit
  /\ EncoderInit
  /\ TestBenchInit

RunEncoder ==
  /\ ~Running
  /\ EncoderStep
  /\ UNCHANGED tbVars

RunTestBench ==
  /\ TestBenchStep
  /\ UNCHANGED encVars

ClockEdge ==
  /\ tbPc # "ended"
  /\ NextEdge
  /\ UNCHANGED <<encVars, tbVars>>

\* sc_start returns after the delta cycle in which sc_stop was called.
Stopped ==
  /\ tbPc = "ended"
  /\ runnable = {}
  /\ UNCHANGED vars

Next ==
  \/ RunEncoder
  \/ RunTestBench
  \/ ClockEdge
  \/ Stopped

SafetySpec == Init /\ [][Next]_vars

\* The kernel resumes every runnable thread and the clock does not stop by itself.
Spec == SafetySpec /\ WF_vars(Next)

-----------------------------------------------------------------------------
TypeOK == KernelTypeOK /\ EncoderTypeOK /\ TestBenchTypeOK

\* "ready" and "valid" are never high together: the encoder asks for a packet only
\* when it has none to deliver.
MutualExclusion == ~(cur.ready /\ cur.valid)

\* While the encoder sends, recd[] is the codeword of the message the test bench
\* holds in data[]: every chunk was written one cycle before it was read, none was
\* read twice or missed, although neither side acknowledges a chunk.
EncodesTheMessage ==
  encPc = "send" => Block(encMem, Recd(0), nn) = Codeword(MessageIn(tbMem))

\* When the test bench has read a packet, its recd[] is the codeword of its own
\* data[], symbol for symbol, although the last chunk ran over the start of data[].
ReceivesTheCodeword ==
  tbPc = "recv" /\ tbCnt >= nn => Block(tbMem, Recd(0), nn) = Codeword(MessageIn(tbMem))

\* Between two packets the test bench's data[], which the decoded packet is
\* compared with, keeps every value: no store past the end of recd[] changes it.
MessageKept ==
  [][tbPc # "generate" => Block(tbMem, Data(0), kk)' = Block(tbMem, Data(0), kk)]_vars

\* A packet with at most tt corrupted symbols is never counted as badly encoded:
\* the program prints OK for every errorNumberIT up to tt.
Recovered == errorNumberIT <= tt => no_encoder_errors = 0

\* Where the packet is, whichever thread has it.
Stage ==
  CASE tbPc \in {"start", "reset1", "reset2", "generate"} -> "idle"
    [] tbPc = "next" -> "judged"
    [] tbPc = "ended" -> "ended"
    [] tbPc = "recv" /\ tbCnt >= nn -> "returned"
    [] (tbPc = "recv" /\ tbCnt < nn)
         \/ (tbPc \in {"waitReady", "send", "waitValid"} /\ encPc = "send") -> "coded"
    [] OTHER -> "sent"

\* The codeword, where it is between its coding and its judgement.
InTransit ==
  CASE Stage = "coded" -> Block(encMem, Recd(0), nn)
    [] Stage = "returned" -> Block(tbMem, Recd(0), nn)
    [] OTHER -> <<>>

Packets == INSTANCE StoreAndForward WITH
  NoWord <- <<>>,
  stage <- Stage,
  message <- MessageIn(tbMem),
  word <- InTransit

\* Without an acknowledgement, the threads hand every packet over once, return its
\* codeword once, judge it by the message that was sent, and count it only when it has
\* more errors than the code corrects.
ImplementsStoreAndForward == Packets!Spec

\* A packet the test bench starts to send comes back and is decoded.
EveryPacketReturns == tbPc = "send" ~> tbPc = "next"

\* The program ends.
Terminates == <>(tbPc = "ended" /\ runnable = {})
=============================================================================
