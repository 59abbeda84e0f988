--------------------------- MODULE MC_SCDispatch ---------------------------
(***************************************************************************)
(* Four processes: a list with a first, an inner and a last one beside the *)
(* running thread.                                                         *)
(***************************************************************************)
EXTENDS SCDispatch

CONSTANTS p1, p2, p3, p4
MCProcesses == {p1, p2, p3, p4}
=============================================================================
