------------------------------ MODULE RSEncoder ------------------------------
(***************************************************************************)
(* The clocked thread of the encoder (impl/src/RSEncoder.cpp).  An action  *)
(* is one activation of the thread, from the wait() it was suspended in to *)
(* the next one; encPc names that wait():                                  *)
(*    start   not run yet                                                  *)
(*    init    line 83, after the reset values were written                 *)
(*    ready   line 94, "ready" was raised                                  *)
(*    recv    line 100, encCnt symbols of the message were stored          *)
(*    send    line 143, encCnt symbols of the codeword were written        *)
(***************************************************************************)
EXTENDS RSCode, SCKernel

VARIABLES encPc,    \* the wait() the thread is suspended in
          encCnt,   \* counterIndex
          encMem    \* recd[], data[], bb[]

encVars == <<encPc, encCnt, encMem>>

EncoderTypeOK ==
  /\ encPc \in {"start", "init", "ready", "recv", "send"}
  /\ encCnt \in 0 .. nn + NB_BYTE_INPUT
  /\ encMem \in Memory

Encoder(pc, cnt) == encPc = pc /\ encCnt = cnt

EncoderInit ==
  /\ encPc = "start"
  /\ encCnt = 0
  /\ encMem \in InitialMemory

\* The kernel resumes the thread in the body, not in a restart.
Resumed(pc) ==
  /\ "encoder" \in runnable
  /\ ~cur.reset
  /\ encPc = pc

-----------------------------------------------------------------------------
\* (Definitions named Mut... are the errors in the code that the properties must find.)

\* "valid" not written on reset.
MutReset ==
  /\ "encoder" \in runnable
  /\ encPc = "start" \/ cur.reset
  /\ nxt' = [nxt EXCEPT !.ready = FALSE, !.out = [i \in Lane |-> Zero]]
  /\ encPc' = "init"
  /\ Wait("encoder")
  /\ UNCHANGED <<cur, encCnt, encMem>>

\* First activation, or a restart of the thread because reset was seen high.
EncoderReset ==
  /\ "encoder" \in runnable
  /\ encPc = "start" \/ cur.reset
  /\ nxt' = [nxt EXCEPT !.ready = FALSE, !.valid = FALSE, !.out = [i \in Lane |-> Zero]]
  /\ encPc' = "init"
  /\ Wait("encoder")
  /\ UNCHANGED <<cur, encCnt, encMem>>

\* The wait() after "ready" forgotten.
MutAnnounce ==
  /\ Resumed("init")
  /\ nxt' = [nxt EXCEPT !.ready = TRUE]
  /\ encPc' = "recv"
  /\ encCnt' = 0
  /\ Wait("encoder")
  /\ UNCHANGED <<cur, encMem>>

\* Top of the loop after the initialisation.
EncoderAnnounce ==
  /\ Resumed("init")
  /\ nxt' = [nxt EXCEPT !.ready = TRUE]
  /\ encPc' = "ready"
  /\ Wait("encoder")
  /\ UNCHANGED <<cur, encCnt, encMem>>

\* counterIndex not cleared.
MutPause ==
  /\ Resumed("ready")
  /\ encPc' = "recv"
  /\ Wait("encoder")
  /\ UNCHANGED <<cur, nxt, encCnt, encMem>>

\* The wait() before the first read: the test bench is only now seeing "ready".
EncoderPause ==
  /\ Resumed("ready")
  /\ encPc' = "recv"
  /\ encCnt' = 0
  /\ Wait("encoder")
  /\ UNCHANGED <<cur, nxt, encMem>>

\* A chunk that does not complete the message.
EncoderReceive ==
  /\ Resumed("recv")
  /\ encCnt + NB_BYTE_INPUT < kk
  /\ encMem' = Overwrite(encMem, Data(encCnt), cur.in)
  /\ encCnt' = encCnt + NB_BYTE_INPUT
  /\ Wait("encoder")
  /\ UNCHANGED <<cur, nxt, encPc>>

\* encode_rs leaves the parity in bb[]; two loops then put parity and data in recd[].
Assembled(mem) ==
  LET message == Block(mem, Data(0), kk)
  IN  Overwrite(Overwrite(mem, BB(0), Encode[message]), Recd(0), Codeword(message))

\* The last chunk stored, encoded, and the first chunk of the codeword written beside
\* the control signals, all before the next wait().
EncodeAndSend(control) ==
  /\ Resumed("recv")
  /\ encCnt + NB_BYTE_INPUT >= kk
  /\ \E received \in {Overwrite(encMem, Data(encCnt), cur.in)} : encMem' = Assembled(received)
  /\ nxt' = [control EXCEPT !.out = Chunk(encMem', Recd(0))]
  /\ encPc' = "send"
  /\ encCnt' = NB_BYTE_INPUT
  /\ Wait("encoder")
  /\ UNCHANGED cur

\* "ready" left up; "valid" never raised.
MutReadyKept  == EncodeAndSend([nxt EXCEPT !.valid = TRUE])
MutNeverValid == EncodeAndSend([nxt EXCEPT !.ready = FALSE])

EncoderEncode == EncodeAndSend([nxt EXCEPT !.ready = FALSE, !.valid = TRUE])

\* The send loop without its bound.
MutSendOn ==
  /\ Resumed("send")
  /\ nxt' = [nxt EXCEPT !.out = Chunk(encMem, Recd(encCnt))]
  /\ encCnt' = encCnt + NB_BYTE_INPUT
  /\ Wait("encoder")
  /\ UNCHANGED <<cur, encPc, encMem>>

EncoderSend ==
  /\ Resumed("send")
  /\ encCnt < nn
  /\ nxt' = [nxt EXCEPT !.out = Chunk(encMem, Recd(encCnt))]
  /\ encCnt' = encCnt + NB_BYTE_INPUT
  /\ Wait("encoder")
  /\ UNCHANGED <<cur, encPc, encMem>>

\* "valid" left up.
MutEnd ==
  /\ Resumed("send")
  /\ encCnt >= nn
  /\ nxt' = [nxt EXCEPT !.ready = TRUE]
  /\ encPc' = "ready"
  /\ Wait("encoder")
  /\ UNCHANGED <<cur, encCnt, encMem>>

\* The send loop left one chunk early.
MutEndEarly ==
  /\ Resumed("send")
  /\ encCnt + NB_BYTE_INPUT >= nn
  /\ nxt' = [nxt EXCEPT !.ready = TRUE, !.valid = FALSE]
  /\ encPc' = "ready"
  /\ Wait("encoder")
  /\ UNCHANGED <<cur, encCnt, encMem>>

\* The codeword is out: "valid" down and, the loop starting over, "ready" up.
EncoderEnd ==
  /\ Resumed("send")
  /\ encCnt >= nn
  /\ nxt' = [nxt EXCEPT !.ready = TRUE, !.valid = FALSE]
  /\ encPc' = "ready"
  /\ Wait("encoder")
  /\ UNCHANGED <<cur, encCnt, encMem>>

EncoderStep ==
  \/ EncoderReset
  \/ EncoderAnnounce
  \/ EncoderPause
  \/ EncoderReceive
  \/ EncoderEncode
  \/ EncoderSend
  \/ EncoderEnd

\* What is stored of a message so far are symbols, whatever data[] held before:
\* encode_rs may look them up in its tables.
StoredSymbols ==
  encPc = "recv" => \A i \in 0 .. kk - 1 : i < encCnt => encMem[Data(i)] \in Byte
=============================================================================
