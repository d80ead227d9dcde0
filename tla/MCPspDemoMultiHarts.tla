------------------------- MODULE MCPspDemoMultiHarts -------------------------
(***************************************************************************)
(* An instance of PspDemoMultiHarts: three turns of the accumulating loop, *)
(* an array of two cells, and more timer interrupts on hart 1 than on 0.   *)
(***************************************************************************)
EXTENDS PspDemoMultiHarts

MCHarts == {0, 1}
MCTimerInterrupts == [h \in MCHarts |-> h + 2]
===============================================================================
