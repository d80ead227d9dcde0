------------------------------ MODULE MCPspMutex ------------------------------
(***************************************************************************)
(* Instances of PspMutex: the two harts of EH2 and a heap of two blocks.   *)
(***************************************************************************)
EXTENDS PspMutex

MCHarts == {0, 1}
===============================================================================
