------------------------------- MODULE Phases -------------------------------
(***************************************************************************)
(* The inductive invariant of MainTopLevel.  The two threads move in lock  *)
(* step: a clock cycle is in one of nine phases, which fixes where each    *)
(* thread is before and after it runs in this cycle and what the signals   *)
(* are.  In a transfer, c is the number of symbols handed over before this *)
(* cycle; the chunk from c on is what the signals carry.                   *)
(***************************************************************************)
EXTENDS MainTopLevel

TestBench(pc, cnt) == tbPc = pc /\ tbCnt = cnt

\* What recd[] and the data[] behind it hold of message m once it is encoded.
Flow(m, x) == IF x < nn THEN Codeword(m)[x] ELSE m[x - nn]

\* The signals s carry the chunk from c on, of the message or of its codeword.
Carries(s, c) == \A i \in Lane : s.in[i] = ToByte(tbMem[Data(c) + i])
Returns(s, c) == \A i \in Lane : s.out[i] = Flow(MessageIn(tbMem), c + i)

Starting ==
  /\ encPc = IF EncoderToRun THEN "start" ELSE "init"
  /\ tbPc  = IF TestBenchToRun THEN "start" ELSE "reset1"
  /\ Control(cur, FALSE, FALSE, FALSE)
  /\ Control(nxt, ~TestBenchToRun, FALSE, FALSE)

Resetting ==
  /\ encPc = "init"
  /\ tbPc  = IF TestBenchToRun THEN "reset1" ELSE "reset2"
  /\ Control(cur, TRUE, FALSE, FALSE)
  /\ Control(nxt, TestBenchToRun, FALSE, FALSE)

Released ==
  /\ encPc = IF EncoderToRun THEN "init" ELSE "ready"
  /\ IF TestBenchToRun THEN tbPc \in {"reset2", "generate"} ELSE tbPc = "waitReady"
  /\ Control(cur, FALSE, FALSE, FALSE)
  /\ Control(nxt, FALSE, ~EncoderToRun, FALSE)

Announced ==
  /\ IF EncoderToRun THEN encPc = "ready" ELSE Encoder("recv", 0)
  /\ IF TestBenchToRun THEN tbPc = "waitReady" ELSE TestBench("send", W)
  /\ Control(cur, FALSE, TRUE, FALSE)
  /\ Control(nxt, FALSE, TRUE, FALSE)
  /\ ~TestBenchToRun => Carries(nxt, 0)

\* A chunk of the message, not the last.
Sending(c) ==
  /\ c + W < kk
  /\ Encoder("recv", IF EncoderToRun THEN c ELSE c + W)
  /\ TestBench("send", IF TestBenchToRun THEN c + W ELSE c + W + W)
  /\ Control(cur, FALSE, TRUE, FALSE)
  /\ Control(nxt, FALSE, TRUE, FALSE)
  /\ Carries(cur, c)
  /\ ~TestBenchToRun => Carries(nxt, c + W)

\* The last chunk of the message.
Encoding(c) ==
  /\ c < kk
  /\ kk <= c + W
  /\ IF EncoderToRun THEN Encoder("recv", c) ELSE Encoder("send", W)
  /\ IF TestBenchToRun THEN TestBench("send", c + W) ELSE tbPc = "waitValid"
  /\ Control(cur, FALSE, TRUE, FALSE)
  /\ Control(nxt, FALSE, EncoderToRun, ~EncoderToRun)
  /\ Carries(cur, c)
  /\ ~EncoderToRun => Returns(nxt, 0)

\* A chunk of the codeword, not the last.
Receiving(c) ==
  /\ c + W < nn
  /\ Encoder("send", IF EncoderToRun THEN c + W ELSE c + W + W)
  /\ IF TestBenchToRun
     THEN IF c = 0 THEN tbPc = "waitValid" ELSE TestBench("recv", c)
     ELSE TestBench("recv", c + W)
  /\ Control(cur, FALSE, FALSE, TRUE)
  /\ Control(nxt, FALSE, FALSE, TRUE)
  /\ Returns(cur, c)
  /\ ~EncoderToRun => Returns(nxt, c + W)

\* The last chunk of the codeword.
Ending(c) ==
  /\ 0 < c
  /\ c < nn
  /\ nn <= c + W
  /\ IF EncoderToRun THEN Encoder("send", c + W) ELSE encPc = "ready"
  /\ TestBench("recv", IF TestBenchToRun THEN c ELSE c + W)
  /\ Control(cur, FALSE, FALSE, TRUE)
  /\ Control(nxt, FALSE, ~EncoderToRun, EncoderToRun)
  /\ Returns(cur, c)

\* The received packet is decoded and the next one follows at once, or the end.
Decoding ==
  /\ IF EncoderToRun THEN encPc = "ready" ELSE Encoder("recv", 0)
  /\ IF TestBenchToRun
     THEN tbPc \in {"next", "generate"} \/ (tbPc = "recv" /\ nn <= tbCnt)
     ELSE tbPc = "ended" \/ TestBench("send", W)
  /\ Control(cur, FALSE, TRUE, FALSE)
  /\ Control(nxt, FALSE, TRUE, FALSE)
  /\ ~TestBenchToRun /\ tbPc = "send" => Carries(nxt, 0)

Phase ==
  \/ Starting
  \/ Resetting
  \/ Released
  \/ Announced
  \/ \E c \in 0 .. nn : Sending(c) \/ Encoding(c) \/ Receiving(c) \/ Ending(c)
  \/ Decoding

-----------------------------------------------------------------------------
\* What each side holds of the packet, wherever the phase.
EncoderStored ==
  encPc = "recv" =>
    \A i \in 0 .. kk - 1 : i < encCnt => encMem[Data(i)] = MessageIn(tbMem)[i]

EncoderCoded ==
  encPc = "send" => \A x \in 0 .. nn + kk - 1 : encMem[x] = Flow(MessageIn(tbMem), x)

TestBenchReceived ==
  tbPc = "recv" => \A x \in 0 .. nn - 1 : x < tbCnt => tbMem[x] = Flow(MessageIn(tbMem), x)

Generated ==
  tbPc \in {"waitReady", "send", "waitValid", "recv"} =>
    \A i \in 0 .. kk - 3 : tbMem[Data(i)] \in Byte

\* No packet is counted twice.
Counted == no_encoder_errors <= j + (IF tbPc \in {"next", "ended"} THEN 1 ELSE 0)

\* The inductive invariant: the phases need the contents of the memories, the types
\* of the memories need the phases (encode_rs reads data[] as symbols).
IInv ==
  /\ TypeOK
  /\ Phase
  /\ EncoderStored
  /\ EncoderCoded
  /\ TestBenchReceived
  /\ Generated
  /\ Counted

-----------------------------------------------------------------------------
\* What the judgement of a packet needs besides.  data[] holds symbols, its two cells
\* that are never generated included:
Symbols == \A i \in 0 .. kk - 1 : tbMem[Data(i)] \in Byte

\* the encoder keeps the codeword until the test bench has all of it:
Coded == Stage = "coded" => InTransit = Codeword(MessageIn(tbMem))

JudgeInv ==
  /\ IInv
  /\ Symbols
  /\ Coded
  /\ Recovered

-----------------------------------------------------------------------------
\* Why the program ends.  The turns of the test bench that are left to it for the packet,
\* one for each chunk and one for each place: in neither of its two waits is it ever twice.
TurnsLeft ==
  LET chunks == nn + W - tbCnt
      loop   == nn + W + 2
  IN  CASE tbPc = "ended"     -> 0
        [] tbPc = "next"      -> 1
        [] tbPc = "recv"      -> 2 + chunks
        [] tbPc = "waitValid" -> loop + 1
        [] tbPc = "send"      -> loop + 2 + chunks
        [] tbPc = "waitReady" -> 2 * loop + 1
        [] tbPc = "generate"  -> 2 * loop + 2
        [] tbPc = "reset2"    -> 2 * loop + 3
        [] tbPc = "reset1"    -> 2 * loop + 4
        [] tbPc = "start"     -> 2 * loop + 5

\* The packets after this one.
PacketsLeft == (tt + 1 - errorNumberIT) * NUMBER_OF_TEST_VECTOR + NUMBER_OF_TEST_VECTOR - 1 - j

\* Between two turns of the test bench the encoder runs twice, with a clock edge between.
StepsToTurn == (IF TestBenchToRun THEN 0 ELSE 2) + (IF EncoderToRun THEN 1 ELSE 0)

StepsLeft == 4 * (PacketsLeft * (2 * (nn + W) + 6) + TurnsLeft) + StepsToTurn

\* No side waits for the other in vain: every step, also one in which a thread only looks at
\* a signal, brings the end of the program nearer.
EveryStepCounts == [][StepsLeft' \in Nat /\ StepsLeft' < StepsLeft]_vars
=============================================================================
