--------------------------- MODULE RSEncoderProofs ---------------------------
(***************************************************************************)
(* Facts about the memory operators of RSBuffers and about the encoder,    *)
(* whoever drives it: the proofs about MainTopLevel, Monitor and           *)
(* SVTestBench all rest on them.                                           *)
(***************************************************************************)
EXTENDS RSEncoder, TLAPS

\* The sizes: a chunk is shorter than a message, and what runs past the end of a
\* codeword is shorter than the generated part of the message.
LEMMA Sizes ==
  /\ nn \in Nat /\ tt \in Nat /\ kk \in Nat /\ W \in Nat
  /\ kk = nn - 2 * tt /\ 0 < tt /\ 2 < kk /\ 0 < W
  /\ W <= 2 * tt + 1 /\ W < kk /\ W < nn /\ kk < nn
BY CodeAssumption, SizeAssumption, OverrunAssumption DEF kk, W

LEMMA BytesAreWords == Byte \subseteq Word
BY DEF Word

-----------------------------------------------------------------------------
(* The operators on memories *)

LEMMA OverwriteType ==
  ASSUME NEW mem \in Memory, NEW a \in Int, NEW f,
         \A i \in DOMAIN f : f[i] \in Word
  PROVE  Overwrite(mem, a, f) \in Memory
BY DEF Overwrite, Memory

\* Storing a chunk replaces just the cells it covers.
LEMMA StoredCell ==
  ASSUME NEW mem, NEW a \in Int, NEW f \in [Lane -> Byte], NEW x \in Addr
  PROVE  Overwrite(mem, a, f)[x] = IF x - a \in Lane THEN f[x - a] ELSE mem[x]
BY DEF Overwrite

LEMMA ChunkType ==
  ASSUME NEW mem \in Memory, NEW a \in Nat, a < nn + kk
  PROVE  Chunk(mem, a) \in [Lane -> Byte]
<1> SUFFICES ASSUME NEW i \in Lane PROVE ToByte(mem[a + i]) \in Byte
  BY DEF Chunk
<1>1. a + i \in Addr
  BY Sizes DEF Addr, Lane, W
<1> QED
  BY <1>1, ByteAssumption DEF Memory

LEMMA CodewordType ==
  ASSUME NEW m \in Message
  PROVE  Codeword(m) \in Vector
<1>1. Encode[m] \in Parity
  BY EncodeAssumption
<1> SUFFICES ASSUME NEW i \in 0 .. nn - 1
             PROVE  (IF i < kk THEN m[i] ELSE Encode[m][i - kk]) \in Byte
  BY DEF Codeword, Vector
<1>2. CASE i < kk
  BY <1>2, Sizes DEF Message
<1>3. CASE ~(i < kk)
  <2>1. i - kk \in 0 .. nn - kk - 1
    BY <1>3, Sizes
  <2> QED
    BY <1>1, <1>3, <2>1 DEF Parity
<1> QED
  BY <1>2, <1>3

LEMMA AssembledType ==
  ASSUME NEW mem \in Memory, Block(mem, Data(0), kk) \in Message
  PROVE  Assembled(mem) \in Memory
<1>1. PICK m \in Message : m = Block(mem, Data(0), kk)
  OBVIOUS
<1>2. Encode[m] \in [0 .. nn - kk - 1 -> Byte] /\ Codeword(m) \in [0 .. nn - 1 -> Byte]
  BY CodewordType, EncodeAssumption DEF Parity, Vector
<1>3. BB(0) \in Int /\ Recd(0) \in Int
  BY Sizes DEF BB, Recd
<1>4. Overwrite(mem, BB(0), Encode[m]) \in Memory
  BY <1>2, <1>3, OverwriteType, BytesAreWords
<1>5. Overwrite(Overwrite(mem, BB(0), Encode[m]), Recd(0), Codeword(m)) \in Memory
  BY <1>2, <1>3, <1>4, OverwriteType, BytesAreWords
<1> QED
  BY <1>1, <1>5 DEF Assembled

-----------------------------------------------------------------------------
(* The encoder *)

\* The last chunk completes a message of symbols.
LEMMA StoredMessage ==
  ASSUME NEW mem \in Memory, NEW c \in Nat, kk <= c + W, NEW f \in [Lane -> Byte],
         \A i \in 0 .. kk - 1 : i < c => mem[Data(i)] \in Byte
  PROVE  Block(Overwrite(mem, Data(c), f), Data(0), kk) \in Message
<1> SUFFICES ASSUME NEW i \in 0 .. kk - 1
             PROVE  Overwrite(mem, Data(c), f)[Data(0) + i] \in Byte
  BY DEF Block, Message
<1>1. Data(0) + i \in Addr /\ Data(0) + i = Data(i) /\ Data(c) \in Int /\ Data(i) - Data(c) = i - c
  BY Sizes DEF Data, Addr
<1>2. Overwrite(mem, Data(c), f)[Data(i)] = IF i - c \in Lane THEN f[i - c] ELSE mem[Data(i)]
  BY <1>1, StoredCell
<1>3. i - c \in Lane \/ i < c
  BY Sizes DEF Lane, W
<1> QED
  BY <1>1, <1>2, <1>3

\* The memory after an activation that stores or encodes.
LEMMA MemoryStep ==
  ASSUME EncoderTypeOK, KernelTypeOK, StoredSymbols, EncoderStep
  PROVE  encMem' \in Memory
<1>1. encMem \in Memory /\ encCnt \in Nat /\ cur.in \in [Lane -> Byte] /\ Data(encCnt) \in Int
  BY Sizes DEF EncoderTypeOK, KernelTypeOK, Signals, Data, W
<1>2. Overwrite(encMem, Data(encCnt), cur.in) \in Memory
  BY <1>1, OverwriteType, BytesAreWords
<1>3. CASE EncoderEncode
  <2>1. encMem' = Assembled(Overwrite(encMem, Data(encCnt), cur.in)) /\ kk <= encCnt + W
    BY <1>1, <1>3, Sizes DEF EncoderEncode, EncodeAndSend, W
  <2>2. \A i \in 0 .. kk - 1 : i < encCnt => encMem[Data(i)] \in Byte
    BY <1>3 DEF EncoderEncode, EncodeAndSend, Resumed, StoredSymbols
  <2> QED
    BY <1>1, <1>2, <2>1, <2>2, StoredMessage, AssembledType
<1>4. CASE EncoderReceive
  BY <1>2, <1>4 DEF EncoderReceive
<1> QED
  BY <1>1, <1>3, <1>4 DEF EncoderStep, EncoderReset, EncoderAnnounce, EncoderPause, EncoderSend,
                          EncoderEnd

\* No activation leaves the types, whoever drives the ports.
LEMMA EncoderTypeStep ==
  ASSUME EncoderTypeOK, KernelTypeOK, StoredSymbols, EncoderStep
  PROVE  EncoderTypeOK' /\ KernelTypeOK'
<1>1. encMem' \in Memory
  BY MemoryStep
<1>2. EncoderTypeOK'
  <2>1. encCnt' \in 0 .. nn + NB_BYTE_INPUT
    BY Sizes DEF EncoderTypeOK, EncoderStep, EncoderReset, EncoderAnnounce, EncoderPause,
                 EncoderReceive, EncoderEncode, EncodeAndSend, EncoderSend, EncoderEnd, W
  <2>2. encPc' \in {"start", "init", "ready", "recv", "send"}
    BY DEF EncoderTypeOK, EncoderStep, EncoderReset, EncoderAnnounce, EncoderPause,
           EncoderReceive, EncoderEncode, EncodeAndSend, EncoderSend, EncoderEnd
  <2> QED
    BY <1>1, <2>1, <2>2 DEF EncoderTypeOK
<1>3. nxt' \in Signals
  <2>1. CASE EncoderEncode
    <3>1. Chunk(encMem', Recd(0)) \in [Lane -> Byte]
      BY <1>1, ChunkType, Sizes DEF Recd
    <3> QED
      BY <2>1, <3>1 DEF EncoderEncode, EncodeAndSend, KernelTypeOK, Signals
  <2>2. CASE EncoderSend
    <3>1. Recd(encCnt) \in Nat /\ Recd(encCnt) < nn + kk
      BY <2>2, Sizes DEF EncoderSend, EncoderTypeOK, Recd
    <3>2. Chunk(encMem, Recd(encCnt)) \in [Lane -> Byte]
      BY <3>1, ChunkType DEF EncoderTypeOK
    <3> QED
      BY <2>2, <3>2 DEF EncoderSend, KernelTypeOK, Signals
  <2>3. CASE EncoderReset
    BY <2>3, ByteAssumption DEF EncoderReset, KernelTypeOK, Signals
  <2> QED
    BY <2>1, <2>2, <2>3 DEF EncoderStep, EncoderAnnounce, EncoderPause, EncoderReceive, EncoderEnd,
                            KernelTypeOK, Signals
<1>4. cur' = cur /\ runnable' \subseteq runnable
  BY DEF EncoderStep, EncoderReset, EncoderAnnounce, EncoderPause, EncoderReceive,
         EncoderEncode, EncodeAndSend, EncoderSend, EncoderEnd, Wait
<1> QED
  BY <1>2, <1>3, <1>4 DEF KernelTypeOK

LEMMA StoredSymbolsStep ==
  ASSUME EncoderTypeOK, KernelTypeOK, StoredSymbols, EncoderStep
  PROVE  StoredSymbols'
<1>1. CASE EncoderReceive
  <2> SUFFICES ASSUME NEW i \in 0 .. kk - 1, i < encCnt'
               PROVE  encMem'[Data(i)] \in Byte
    BY DEF StoredSymbols
  <2>1. /\ encPc = "recv" /\ encCnt' = encCnt + W
        /\ encMem' = Overwrite(encMem, Data(encCnt), cur.in)
    BY <1>1 DEF EncoderReceive, Resumed, W
  <2>2. cur.in \in [Lane -> Byte] /\ encCnt \in Nat
    BY Sizes DEF KernelTypeOK, Signals, EncoderTypeOK, W
  <2>3. Data(i) \in Addr /\ Data(encCnt) \in Int /\ Data(i) - Data(encCnt) = i - encCnt
    BY <2>2, Sizes DEF Addr, Data
  <2>4. encMem'[Data(i)] = IF i - encCnt \in Lane THEN cur.in[i - encCnt] ELSE encMem[Data(i)]
    BY <2>1, <2>2, <2>3, StoredCell
  <2>5. i - encCnt \in Lane \/ i < encCnt
    BY <2>1, <2>2, Sizes DEF Lane, W
  <2> QED
    BY <2>1, <2>2, <2>4, <2>5 DEF StoredSymbols
<1>2. CASE EncoderPause
  BY <1>2 DEF EncoderPause, StoredSymbols
<1> QED
  BY <1>1, <1>2 DEF StoredSymbols, EncoderStep, EncoderReset, EncoderAnnounce, EncoderEncode,
                    EncodeAndSend, EncoderSend, EncoderEnd, Resumed
=============================================================================
