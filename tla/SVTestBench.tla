----------------------------- MODULE SVTestBench -----------------------------
(***************************************************************************)
(* The SystemVerilog test bench (SystemVerilog/test_RSEncoder.sv) around   *)
(* the encoder, which run.do compiles as the device under test.            *)
(*                                                                         *)
(* The bench is one process.  It waits for @(posedge clock), when it runs  *)
(* in the same time step as the encoder, before or after it, or for a      *)
(* change of a signal, when it runs as soon as the encoder's writes are    *)
(* visible.  Its blocking assignments to dataOutputPort are seen at once.  *)
(* svPc names the place where it waits:                                    *)
(*    reset, release   lines 67 and 69                                     *)
(*    ready, valid     lines 100 and 113, for a change of the signal       *)
(*    send, recv       lines 108 and 122, svCnt symbols moved              *)
(***************************************************************************)
EXTENDS RSEncoder

CONSTANTS NUMBER_OF_TEST_VECTOR,
          RandomMessages,   \* the vectors {$random(j) % 256} may fill in
          Seeds             \* what $random(j) may leave in j, its seed

ASSUME BenchAssumption ==
  /\ NUMBER_OF_TEST_VECTOR \in Nat \ {0}
  /\ RandomMessages \subseteq Message
  /\ Seeds \subseteq Int

\* A symbol is an index of the package's tables, which hold numbers.
ASSUME SymbolAssumption == Zero = 0 /\ Byte \subseteq 0 .. nn

VARIABLES settled,   \* the writes of this time step are visible
          svPc, svCnt, svData, svRecd,
          errorNumberIT, j

countVars == <<errorNumberIT, j>>
benchVars == <<svPc, svCnt, svData, svRecd, countVars>>
vars == <<cur, nxt, runnable, settled, encVars, benchVars>>

TypeOK ==
  /\ KernelTypeOK
  /\ EncoderTypeOK
  /\ settled \in BOOLEAN
  /\ svPc \in {"reset", "release", "ready", "send", "valid", "recv", "end"}
  /\ svCnt \in 0 .. nn + NB_BYTE_INPUT
  /\ svData \in Message
  /\ svRecd \in [0 .. nn - 1 -> Byte]
  /\ errorNumberIT \in 0 .. tt + 1
  /\ j \in Seeds \cup {0}

\* The initial block has run up to its first wait.
Init ==
  /\ cur = [NoSignal EXCEPT !.reset = TRUE]
  /\ nxt = cur
  /\ runnable = {}
  /\ settled = TRUE
  /\ EncoderInit
  /\ svPc = "reset"
  /\ svCnt = 0
  /\ svData = [i \in 0 .. kk - 1 |-> Zero]
  /\ svRecd = [i \in 0 .. nn - 1 |-> Zero]
  /\ errorNumberIT = 0
  /\ j = 0

-----------------------------------------------------------------------------
\* The bench goes on from the place it waits at.
Woken(pc) ==
  /\ "testbench" \in runnable
  /\ svPc = pc
  /\ Wait("testbench")

Release ==
  /\ Woken("reset")
  /\ nxt' = [nxt EXCEPT !.reset = FALSE]
  /\ svPc' = "release"
  /\ UNCHANGED <<cur, svCnt, svData, svRecd, countVars>>

\* A random vector: {$random(j) % 256} writes to its seed, the loop variable.
Generate ==
  /\ svData' \in RandomMessages
  /\ j' \in Seeds

Begin ==
  /\ Woken("release")
  /\ Generate
  /\ svPc' = "ready"
  /\ UNCHANGED <<cur, nxt, svCnt, svRecd, errorNumberIT>>

\* The chunk from counter a on; what lies behind data[] is unknown.
Put(a) ==
  /\ \E chunk \in [Lane -> Byte] :
       /\ \A i \in Lane : a + i < kk => chunk[i] = svData[a + i]
       /\ cur' = [cur EXCEPT !.in = chunk]
       /\ nxt' = [nxt EXCEPT !.in = chunk]
  /\ svCnt' = a + NB_BYTE_INPUT
  /\ svPc' = "send"
  /\ UNCHANGED <<svData, svRecd, countVars>>

StartSend == Woken("ready") /\ Put(0)
Send == Woken("send") /\ svCnt < kk /\ Put(svCnt)

\* (Definitions named Mut... are the errors in the code that the properties must find.)
\* After the vector the bench waits for "ready" again in place of "valid".
MutSent ==
  /\ Woken("send")
  /\ svCnt >= kk
  /\ svPc' = "ready"
  /\ UNCHANGED <<cur, nxt, svCnt, svData, svRecd, countVars>>

Sent ==
  /\ Woken("send")
  /\ svCnt >= kk
  /\ svPc' = "valid"
  /\ UNCHANGED <<cur, nxt, svCnt, svData, svRecd, countVars>>

\* A write behind recd[] has no effect.
Take(a) ==
  /\ svRecd' = [x \in 0 .. nn - 1 |-> IF x - a \in Lane THEN cur.out[x - a] ELSE svRecd[x]]
  /\ svCnt' = a + NB_BYTE_INPUT
  /\ svPc' = "recv"
  /\ UNCHANGED <<cur, nxt, svData, countVars>>

StartReceive == Woken("valid") /\ Take(0)
Receive == Woken("recv") /\ svCnt < nn /\ Take(svCnt)

-----------------------------------------------------------------------------
\* The tables of the package: generate_gf and generate_poly are never called.
alpha_to == [x \in 0 .. nn |-> 0]
index_of == [x \in 0 .. nn |-> 0]

\* decode of the package: no syndrome is set with these tables, whatever the word, so it
\* is taken for a codeword and each symbol goes through index form and back.
decode(word) ==
  [x \in 0 .. nn - 1 |->
     IF index_of[word[x]] # -1 THEN alpha_to[index_of[word[x]]] ELSE 0]

\* Up to errorNumberIT symbols are changed: error_status[] has room for NB_BYTE_INPUT
\* indices only, any other may be drawn again.
Noisy(word) ==
  { [x \in 0 .. nn - 1 |-> IF x \in DOMAIN e THEN e[x] ELSE word[x]] :
      e \in UNION { [where -> Byte] :
                      where \in { w \in SUBSET (0 .. nn - 1) : Cardinality(w) <= errorNumberIT } } }

\* The next vector or, after the last one, the next number of errors or the end of the
\* task; the number of vectors that came back wrong is only printed.
Compare ==
  /\ Woken("recv")
  /\ svCnt >= nn
  /\ svRecd' \in { decode(word) : word \in Noisy(svRecd) }
  /\ \/ /\ j + 1 < NUMBER_OF_TEST_VECTOR
        /\ Generate
        /\ svPc' = "ready"
        /\ UNCHANGED errorNumberIT
     \/ /\ j + 1 >= NUMBER_OF_TEST_VECTOR
        /\ errorNumberIT <= tt
        /\ Generate
        /\ svPc' = "ready"
        /\ errorNumberIT' = errorNumberIT + 1
     \/ /\ j + 1 >= NUMBER_OF_TEST_VECTOR
        /\ errorNumberIT = tt + 1
        /\ svPc' = "end"
        /\ UNCHANGED <<errorNumberIT, j, svData>>
  /\ UNCHANGED <<cur, nxt, svCnt>>

RunBench ==
  /\ \/ Release
     \/ Begin
     \/ StartSend
     \/ Send
     \/ Sent
     \/ StartReceive
     \/ Receive
     \/ Compare
  /\ UNCHANGED <<settled, encVars>>

RunEncoder ==
  /\ EncoderStep
  /\ UNCHANGED <<settled, benchVars>>

\* Is the bench at @(signal), and does the signal change?
Changes ==
  \/ svPc = "ready" /\ nxt.ready # cur.ready
  \/ svPc = "valid" /\ nxt.valid # cur.valid

\* The writes of the encoder and the non-blocking ones become visible.
Settle ==
  /\ runnable = {}
  /\ ~settled
  /\ settled' = TRUE
  /\ cur' = nxt
  /\ runnable' = IF Changes THEN {"testbench"} ELSE {}
  /\ UNCHANGED <<nxt, encVars, benchVars>>

\* The next rising edge.
Edge ==
  /\ runnable = {}
  /\ settled
  /\ settled' = FALSE
  /\ runnable' = {"encoder"} \cup
       (IF svPc \in {"reset", "release", "send", "recv"} THEN {"testbench"} ELSE {})
  /\ UNCHANGED <<cur, nxt, encVars, benchVars>>

Next ==
  \/ RunBench
  \/ RunEncoder
  \/ Settle
  \/ Edge

Spec == Init /\ [][Next]_vars /\ WF_vars(Next)

-----------------------------------------------------------------------------
\* @(signal) wakes at any change, a fall too.  The bench never starts to wait while the
\* signal is up, so it is the rise that wakes it and it does not take the end of a phase
\* for its beginning.
WakesOnRise ==
  settled =>
    /\ svPc = "ready" => (cur.ready <=> "testbench" \in runnable)
    /\ svPc = "valid" => (cur.valid <=> "testbench" \in runnable)

\* The bench stores a chunk as soon as "valid" rises and again at the next edge, before
\* the encoder has put the second one out: it has every chunk but the first one late.
ReceivesOneChunkLate ==
  svPc = "recv" =>
    \A x \in 0 .. nn - 1 : x < svCnt =>
      svRecd[x] = ToByte(encMem[Recd(IF x < NB_BYTE_INPUT THEN x ELSE x - NB_BYTE_INPUT)])

\* Neither side waits for the other for good: a vector that waits to be sent comes back.
EveryVectorReturns == (svPc = "ready") ~> (svPc = "recv")

\* The message the encoder codes is the vector of the bench.
EncodesTheVector ==
  svPc = "recv" => Block(encMem, Recd(0), kk) = svData
=============================================================================
