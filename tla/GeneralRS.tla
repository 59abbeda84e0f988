------------------------------ MODULE GeneralRS ------------------------------
(***************************************************************************)
(* The executable specification (spec/src/general_RS.c) as one program:    *)
(* main generates the tables, then for 0, 1, ..., tt errors draws vectors, *)
(* encodes them, injects the errors, decodes and compares.  The calls are  *)
(* RSTables, RSEncode and RSDecode, step by step; a call finds the arrays  *)
(* as the last one left them.  encode_rs and decode_rs read gg[] and the   *)
(* tables, which nothing changes any more, as GG, AlphaTo and IndexOf:     *)
(* TablesOfTheField and GeneratorInIndexForm say that they are these.      *)
(***************************************************************************)
EXTENDS RSTables, RSEncode, RSDecode

CONSTANTS NB_VECTORS,       \* vectors for each number of errors (100)
          RandomData(_),    \* data[] that rand() may fill in for a number of errors
          RandomIndex(_),   \* the indices it may draw then
          RandomByte(_)     \* and what it may add at an index

ASSUME VectorAssumption ==
  /\ NB_VECTORS \in Nat \ {0}
  /\ \A n \in 0 .. tt : RandomData(n) \subseteq [0 .. kk - 1 -> PolyForm] /\ RandomIndex(n) \subseteq 0 .. nn
  /\ \A x \in 0 .. nn : RandomByte(x) \subseteq PolyForm

VARIABLES main,                \* where main is
          errors, vectors,     \* its i and j
          drawn,               \* its k while errors are injected
          error_status,        \* the indices already used
          no_encoder_errors    \* vectors that came back different

mainVars == <<errors, vectors, drawn, error_status, no_encoder_errors>>
vars == <<main, mainVars, tablesVars, encodeVars, decodeVars>>

\* The arrays of each call, while it runs.
TypeOK ==
  /\ main \in {"tables", "vector", "encode", "channel", "decode", "stop"}
  /\ errors \in 0 .. tt
  /\ vectors \in 0 .. NB_VECTORS
  /\ drawn \in 0 .. errors
  /\ error_status \subseteq 0 .. nn
  /\ no_encoder_errors \in 0 .. NB_VECTORS
  /\ main = "tables" => TablesTypeOK
  /\ main = "encode" => EncodeTypeOK
  /\ main = "decode" => DecodeTypeOK

Init ==
  /\ main = "tables"
  /\ errors = 0 /\ vectors = 0 /\ drawn = 0
  /\ error_status = {}
  /\ no_encoder_errors = 0
  /\ TablesInit
  /\ EncodeInit
  /\ DecodeInit

-----------------------------------------------------------------------------
GenerateTables ==
  /\ main = "tables"
  /\ TablesStep
  /\ UNCHANGED <<main, mainVars, encodeVars, decodeVars>>

TablesDone ==
  /\ main = "tables"
  /\ TablesReturned
  /\ main' = "vector"
  /\ UNCHANGED <<mainVars, encodeVars, decodeVars>>

\* A random vector, and the call of encode_rs; bb[] is as the last call left it.
NewVector ==
  /\ main = "vector"
  /\ vectors < NB_VECTORS
  /\ main' = "encode"
  /\ \E v \in RandomData(errors) : EncodeCall(v)
  /\ UNCHANGED <<mainVars, tablesVars, decodeVars>>

EncodeVector ==
  /\ main = "encode"
  /\ EncodeStep
  /\ UNCHANGED <<main, mainVars, tablesVars, decodeVars>>

\* (Definitions named Mut... are the errors in the code that the properties must find.)
\* error_status[] not cleared.
MutTransmit ==
  /\ main = "encode"
  /\ EncodeReturned
  /\ main' = "channel"
  /\ recd' = Arranged(data, bb)
  /\ drawn' = 0
  /\ UNCHANGED <<errors, vectors, no_encoder_errors, error_status, tablesVars,
                 decodePc, decodeRound, received, synd, u, elp, d, l, reg, root, z, result>>

\* Data and parity copied to recd[], and no index used yet.
Transmit ==
  /\ main = "encode"
  /\ EncodeReturned
  /\ main' = "channel"
  /\ recd' = Arranged(data, bb)
  /\ error_status' = {}
  /\ drawn' = 0
  /\ UNCHANGED <<errors, vectors, no_encoder_errors, tablesVars,
                 decodePc, decodeRound, received, synd, u, elp, d, l, reg, root, z, result>>

\* One draw.  recd[nn] is the cell behind the array, data[0] in the order the three
\* arrays are declared in.
Draw ==
  /\ main = "channel"
  /\ drawn < errors
  /\ \E x \in RandomIndex(errors) \ error_status : \E e \in RandomByte(x) :
       /\ recd' = [y \in 0 .. nn - 1 |-> IF y = x THEN recd[x] ^^ e ELSE recd[y]]
       /\ data' = IF x = nn THEN [data EXCEPT ![0] = @ ^^ e] ELSE data
       /\ error_status' = error_status \cup {x}
  /\ drawn' = drawn + 1
  /\ UNCHANGED <<main, errors, vectors, no_encoder_errors, tablesVars,
                 encodePc, encodeRound, cell, feedback, bb,
                 decodePc, decodeRound, received, synd, u, elp, d, l, reg, root, z, result>>

\* A used index: k is taken back.  error_status[nn] is behind that array and may hold
\* anything.
DrawAgain ==
  /\ main = "channel"
  /\ drawn < errors
  /\ RandomIndex(errors) \cap (error_status \cup {nn}) # {}
  /\ UNCHANGED vars

CallDecode ==
  /\ main = "channel"
  /\ drawn = errors
  /\ main' = "decode"
  /\ DecodeCall(recd)
  /\ UNCHANGED <<mainVars, tablesVars, encodeVars>>

DecodeVector ==
  /\ main = "decode"
  /\ DecodeStep
  /\ UNCHANGED <<main, mainVars, tablesVars, encodeVars>>

\* The comparison with the data that was sent.
Compare ==
  /\ main = "decode"
  /\ decodePc = "done"
  /\ main' = "vector"
  /\ vectors' = vectors + 1
  /\ no_encoder_errors' =
       no_encoder_errors + (IF \E x \in 0 .. kk - 1 : data[x] # recd[x] THEN 1 ELSE 0)
  /\ UNCHANGED <<errors, drawn, error_status, tablesVars, encodeVars, decodeVars>>

NextErrorCount ==
  /\ main = "vector"
  /\ vectors = NB_VECTORS
  /\ errors < tt
  /\ errors' = errors + 1
  /\ vectors' = 0
  /\ no_encoder_errors' = 0
  /\ UNCHANGED <<main, drawn, error_status, tablesVars, encodeVars, decodeVars>>

Stop ==
  /\ main = "vector"
  /\ vectors = NB_VECTORS
  /\ errors = tt
  /\ main' = "stop"
  /\ UNCHANGED <<mainVars, tablesVars, encodeVars, decodeVars>>

Next ==
  \/ GenerateTables
  \/ TablesDone
  \/ NewVector
  \/ EncodeVector
  \/ Transmit
  \/ Draw
  \/ DrawAgain
  \/ CallDecode
  \/ DecodeVector
  \/ Compare
  \/ NextErrorCount
  \/ Stop

Spec == Init /\ [][Next]_vars

-----------------------------------------------------------------------------
\* No vector with up to tt errors is counted: what the program prints is OK, tt + 1 times.
AlwaysOK == no_encoder_errors = 0

\* The draws of a vector can end: the used indices are those of this vector, one for each
\* error so far, so that k-- is taken only for an index that was really used and all but
\* a few of the 256 indices are free.
UsedOnce == main = "channel" => Cardinality(error_status) = drawn
=============================================================================
