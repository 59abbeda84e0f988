------------------------------ MODULE SVPhases ------------------------------
(***************************************************************************)
(* The inductive invariant of SVTestBench.  The bench is one chunk ahead   *)
(* of the encoder when it sends and level with it when it receives; a      *)
(* clock cycle is in one of seven phases, of which c counts the symbols    *)
(* the bench has moved before it.                                          *)
(***************************************************************************)
EXTENDS SVTestBench

\* Who still has to run in this cycle, or in the next one once this one has settled.
EncoderDue == settled \/ EncoderToRun
BenchDue   == settled \/ TestBenchToRun

Quiet == settled => runnable = {}

Bench(pc, cnt) == svPc = pc /\ svCnt = cnt

\* The signals s carry the chunk of recd[] from c on.
Out(s, c) == s.out = Chunk(encMem, Recd(c))

Resetting ==
  /\ Quiet
  /\ encPc = IF EncoderDue THEN "start" ELSE "init"
  /\ svPc = IF BenchDue THEN "reset" ELSE "release"
  /\ Control(cur, TRUE, FALSE, FALSE)
  /\ Control(nxt, BenchDue, FALSE, FALSE)

Beginning ==
  /\ Quiet
  /\ encPc = IF EncoderDue THEN "init" ELSE "ready"
  /\ svPc = IF BenchDue THEN "release" ELSE "ready"
  /\ Control(cur, FALSE, FALSE, FALSE)
  /\ Control(nxt, FALSE, ~EncoderDue, FALSE)

\* The bench wakes for a new vector in the step in which "ready" rises.
ReadyRises ==
  /\ settled /\ runnable = {"testbench"}
  /\ svPc = "ready"
  /\ encPc = "ready"
  /\ Control(cur, FALSE, TRUE, FALSE)
  /\ Control(nxt, FALSE, TRUE, FALSE)

\* The encoder pauses for one cycle after "ready" and then stores what the bench has
\* put out one cycle before, or in this one.
Sending(c) ==
  /\ Quiet
  /\ W <= c /\ c < kk + W
  /\ IF EncoderDue THEN IF c = W THEN encPc = "ready" ELSE Encoder("recv", c - 2 * W)
                   ELSE Encoder("recv", c - W)
  /\ IF BenchDue THEN Bench("send", c)
                 ELSE IF c < kk THEN Bench("send", c + W) ELSE Bench("valid", c)
  /\ Control(cur, FALSE, TRUE, FALSE)
  /\ Control(nxt, FALSE, TRUE, FALSE)

\* The bench waits already when the encoder takes its last chunk.
Coding(c) ==
  /\ Quiet
  /\ kk <= c /\ c < kk + W
  /\ IF EncoderDue THEN Encoder("recv", c - W) ELSE Encoder("send", W) /\ Out(nxt, 0)
  /\ Bench("valid", c) /\ ~TestBenchToRun
  /\ Control(cur, FALSE, TRUE, FALSE)
  /\ Control(nxt, FALSE, EncoderDue, ~EncoderDue)

ValidRises ==
  /\ settled /\ runnable = {"testbench"}
  /\ svPc = "valid"
  /\ Encoder("send", W)
  /\ Out(cur, 0) /\ Out(nxt, 0)
  /\ Control(cur, FALSE, FALSE, TRUE)
  /\ Control(nxt, FALSE, FALSE, TRUE)

\* The bench reads the chunk before the one the encoder writes in this cycle.
Receiving(c) ==
  /\ Quiet
  /\ W <= c /\ c < nn + W
  /\ IF EncoderDue THEN Encoder("send", c) /\ Out(nxt, c - W)
                   ELSE IF c < nn THEN Encoder("send", c + W) /\ Out(nxt, c) ELSE encPc = "ready"
  /\ IF BenchDue THEN Bench("recv", c)
                 ELSE IF c < nn THEN Bench("recv", c + W) ELSE svPc = "ready"
  /\ Out(cur, c - W)
  /\ Control(cur, FALSE, FALSE, TRUE)
  /\ IF EncoderDue \/ c < nn THEN Control(nxt, FALSE, FALSE, TRUE)
                             ELSE Control(nxt, FALSE, TRUE, FALSE)

\* The initial block is over; the encoder goes on with what is on its ports.
Ended == svPc = "end" /\ ~TestBenchToRun

Phase ==
  \/ Resetting
  \/ Beginning
  \/ ReadyRises
  \/ ValidRises
  \/ \E c \in 0 .. nn + W : Sending(c) \/ Coding(c) \/ Receiving(c)
  \/ Ended

SVInv ==
  /\ TypeOK
  /\ StoredSymbols
  /\ Phase
  /\ ReceivesOneChunkLate
=============================================================================
