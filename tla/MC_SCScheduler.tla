--------------------------- MODULE MC_SCScheduler ---------------------------
(***************************************************************************)
(* All five signals, of two values each: the update list has up to six     *)
(* entries with the clock's, in every order, with repeated writes.         *)
(***************************************************************************)
EXTENDS SCScheduler

MCProcesses == Thread \cup Method
MCWritten == Buffer
MCByte == {0, 1}
MCToByte(w) == w
MCMemory == { [x \in 0 .. 9 |-> 0] }
=============================================================================
