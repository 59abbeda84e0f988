----------------------------- MODULE RSEncoderTB -----------------------------
(***************************************************************************)
(* The clocked thread of the test bench (impl/src/RSEncoderTB.cpp).  An    *)
(* activation of the thread is split where it makes random choices, at     *)
(* "generate" and "next": in these two states the thread is still running  *)
(* and the kernel resumes no other.  tbPc is otherwise the wait() the      *)
(* thread is suspended in:                                                 *)
(*    start      not run yet                                               *)
(*    reset1     line 80, reset raised       reset2     line 82, lowered   *)
(*    waitReady  line 128                    send       line 139           *)
(*    waitValid  line 147                    recv       line 161           *)
(*    ended      sc_stop() was called                                      *)
(***************************************************************************)
EXTENDS RSCode, SCKernel

CONSTANTS NUMBER_OF_TEST_VECTOR,   \* packets for each number of errors (100)
          RandIndex,   \* the values of rand() % 256 as an index
          RandByte     \* the values a symbol takes by (recd[] ^ rand()) % 256

ASSUME TestBenchAssumption ==
  /\ NUMBER_OF_TEST_VECTOR \in Nat \ {0}
  /\ RandIndex \subseteq 0 .. nn
  /\ RandByte \subseteq Byte

\* The generator polynomial has 2 * tt consecutive powers of alpha as its roots, so
\* within 2 * tt symbols of a codeword there is no other one.
ASSUME MinimumDistanceAssumption ==
  \A c, d \in Codewords : Distance(c, d) <= 2 * tt => c = d

VARIABLES tbPc,               \* where the thread is
          tbCnt,              \* counterIndex
          tbMem,              \* recd[], data[], bb[]
          errorNumberIT,      \* symbols to corrupt in a packet
          j,                  \* packets done for this number of symbols
          no_encoder_errors   \* packets whose data was not recovered

loopVars == <<errorNumberIT, j, no_encoder_errors>>
tbVars   == <<tbPc, tbCnt, tbMem, errorNumberIT, j, no_encoder_errors>>

TestBenchTypeOK ==
  /\ tbPc \in {"start", "reset1", "reset2", "generate", "waitReady", "send",
               "waitValid", "recv", "next", "ended"}
  /\ tbCnt \in 0 .. nn + NB_BYTE_INPUT
  /\ tbMem \in Memory
  /\ errorNumberIT \in 1 .. tt + 1
  /\ j \in 0 .. NUMBER_OF_TEST_VECTOR - 1
  /\ no_encoder_errors \in 0 .. NUMBER_OF_TEST_VECTOR

TestBenchInit ==
  /\ tbPc = "start"
  /\ tbCnt = 0
  /\ tbMem \in InitialMemory
  /\ errorNumberIT = 1
  /\ j = 0
  /\ no_encoder_errors = 0

Running == tbPc \in {"generate", "next"}

At(pc) ==
  /\ "testbench" \in runnable
  /\ tbPc = pc

-----------------------------------------------------------------------------
TBStart ==
  /\ At("start")
  /\ nxt' = [nxt EXCEPT !.reset = TRUE, !.in = [i \in Lane |-> Zero]]
  /\ tbPc' = "reset1"
  /\ Wait("testbench")
  /\ UNCHANGED <<cur, tbCnt, tbMem, loopVars>>

TBRelease ==
  /\ At("reset1")
  /\ nxt' = [nxt EXCEPT !.reset = FALSE]
  /\ tbPc' = "reset2"
  /\ Wait("testbench")
  /\ UNCHANGED <<cur, tbCnt, tbMem, loopVars>>

\* Both loops are entered; the first packet follows without a wait().
TBBegin ==
  /\ At("reset2")
  /\ tbPc' = "generate"
  /\ UNCHANGED <<kernelVars, tbCnt, tbMem, loopVars>>

\* The send loop from counterIndex = cnt up to its next wait().
SendChunk(mem, cnt) ==
  /\ nxt' = [nxt EXCEPT !.in = Chunk(mem, Data(cnt))]
  /\ tbCnt' = cnt + NB_BYTE_INPUT
  /\ tbPc' = "send"
  /\ Wait("testbench")

\* The wait for "ready" skipped.
MutAwaitReady(mem) == SendChunk(mem, 0)

\* while (!encoderReadyPort.read()) wait(); then the first chunk.
AwaitReady(mem) ==
  IF cur.ready
  THEN SendChunk(mem, 0)
  ELSE /\ tbPc' = "waitReady"
       /\ Wait("testbench")
       /\ UNCHANGED <<nxt, tbCnt>>

\* The last two symbols of data[] are not written.
TBGenerate ==
  /\ At("generate")
  /\ \E random \in [0 .. kk - 3 -> Byte] : tbMem' = Overwrite(tbMem, Data(0), random)
  /\ AwaitReady(tbMem')
  /\ UNCHANGED <<cur, loopVars>>

TBWaitReady ==
  /\ At("waitReady")
  /\ AwaitReady(tbMem)
  /\ UNCHANGED <<cur, tbMem, loopVars>>

TBSend ==
  /\ At("send")
  /\ tbCnt < kk
  /\ SendChunk(tbMem, tbCnt)
  /\ UNCHANGED <<cur, tbMem, loopVars>>

\* Each chunk stored one cell too far.
MutReceiveChunk(cnt) ==
  /\ tbMem' = Overwrite(tbMem, Recd(cnt + 1), cur.out)
  /\ tbCnt' = cnt + NB_BYTE_INPUT
  /\ tbPc' = "recv"
  /\ Wait("testbench")

\* The receive loop from counterIndex = cnt up to its next wait().
ReceiveChunk(cnt) ==
  /\ tbMem' = Overwrite(tbMem, Recd(cnt), cur.out)
  /\ tbCnt' = cnt + NB_BYTE_INPUT
  /\ tbPc' = "recv"
  /\ Wait("testbench")

\* The wait for "valid" skipped.
MutAwaitValid == ReceiveChunk(0) /\ UNCHANGED <<cur, nxt, loopVars>>

\* while (!encoderValidPort.read()) wait(); then the first chunk.
AwaitValid ==
  /\ IF cur.valid
     THEN ReceiveChunk(0)
     ELSE /\ tbPc' = "waitValid"
          /\ Wait("testbench")
          /\ UNCHANGED <<tbCnt, tbMem>>
  /\ UNCHANGED <<cur, nxt, loopVars>>

TBSent ==
  /\ At("send")
  /\ tbCnt >= kk
  /\ AwaitValid

TBWaitValid ==
  /\ At("waitValid")
  /\ AwaitValid

TBRecv ==
  /\ At("recv")
  /\ tbCnt < nn
  /\ ReceiveChunk(tbCnt)
  /\ UNCHANGED <<cur, nxt, loopVars>>

\* The injection loop hits errorNumberIT different indices: it draws again when
\* it meets one it had (error_status[] is its memory of them).
Injected(mem) ==
  LET hits  == { indices \in SUBSET RandIndex : Cardinality(indices) = errorNumberIT }
      noise == UNION { [indices -> RandByte] : indices \in hits }
  IN  { Overwrite(mem, Recd(0), f) : f \in noise }

\* decode_rs: recd[] in, recd[] out, data[] and bb[] not used.
Decoded(mem) == { Overwrite(mem, Recd(0), word) : word \in Decode(Block(mem, Recd(0), nn)) }

\* The comparison of data[] with the decoded recd[].
DataLost(mem) == \E k \in 0 .. kk - 1 : mem[Data(k)] # mem[Recd(k)]

\* Injection, decoding and comparison for a received packet.
TBInjectAndDecode ==
  /\ At("recv")
  /\ tbCnt >= nn
  /\ \E corrupted \in Injected(tbMem) : tbMem' \in Decoded(corrupted)
  /\ no_encoder_errors' = no_encoder_errors + (IF DataLost(tbMem') THEN 1 ELSE 0)
  /\ tbPc' = "next"
  /\ UNCHANGED <<kernelVars, tbCnt, errorNumberIT, j>>

\* The loop variable not advanced.
MutNextVector ==
  /\ At("next")
  /\ j + 1 < NUMBER_OF_TEST_VECTOR
  /\ tbPc' = "generate"
  /\ UNCHANGED <<kernelVars, tbCnt, tbMem, loopVars>>

TBNextVector ==
  /\ At("next")
  /\ j + 1 < NUMBER_OF_TEST_VECTOR
  /\ j' = j + 1
  /\ tbPc' = "generate"
  /\ UNCHANGED <<kernelVars, tbCnt, tbMem, errorNumberIT, no_encoder_errors>>

\* One more round of the outer loop.
MutNextErrorCount ==
  /\ At("next")
  /\ j + 1 = NUMBER_OF_TEST_VECTOR
  /\ errorNumberIT' = errorNumberIT + 1
  /\ j' = 0
  /\ no_encoder_errors' = 0
  /\ tbPc' = "generate"
  /\ UNCHANGED <<kernelVars, tbCnt, tbMem>>

\* The verdict for errorNumberIT is printed and the count starts over.
TBNextErrorCount ==
  /\ At("next")
  /\ j + 1 = NUMBER_OF_TEST_VECTOR
  /\ errorNumberIT <= tt
  /\ errorNumberIT' = errorNumberIT + 1
  /\ j' = 0
  /\ no_encoder_errors' = 0
  /\ tbPc' = "generate"
  /\ UNCHANGED <<kernelVars, tbCnt, tbMem>>

\* sc_stop(): the encoder still runs in this delta cycle if it has not yet.
TBStop ==
  /\ At("next")
  /\ j + 1 = NUMBER_OF_TEST_VECTOR
  /\ errorNumberIT = tt + 1
  /\ tbPc' = "ended"
  /\ Wait("testbench")
  /\ UNCHANGED <<cur, nxt, tbCnt, tbMem, loopVars>>

TestBenchStep ==
  \/ TBStart
  \/ TBRelease
  \/ TBBegin
  \/ TBGenerate
  \/ TBWaitReady
  \/ TBSend
  \/ TBSent
  \/ TBWaitValid
  \/ TBRecv
  \/ TBInjectAndDecode
  \/ TBNextVector
  \/ TBNextErrorCount
  \/ TBStop
=============================================================================
