-------------------------- MODULE MCPspExtInterrupts --------------------------
(***************************************************************************)
(* Instances of PspExtInterrupts: the two harts of EH2 and one or two of   *)
(* the lines 3 and 4 that the board can trigger.                           *)
(***************************************************************************)
EXTENDS PspExtInterrupts

MCHarts == {0, 1}
\* Two lines, one for each hart: 3 held until cleared, 4 pulsed or held low.
TwoLines   == {3, 4}
SplitOwner == [i \in TwoLines |-> IF i = 3 THEN 1 ELSE 0]
OneLine    == {3}
HartOne    == [i \in OneLine |-> 1]
Line4      == {4}
None       == {}

\* The services of each instance, and those that either hart calls.
SetUpServices == {"register", "polarity", "priority", "enable", "disable",
                  "generate"}
EdgeServices  == {"register", "type", "polarity", "order", "enable",
                  "threshold", "nesting", "generate"}
ClearServices == {"register", "type", "priority", "enable", "clear", "delegate",
                  "generate"}
Gateway       == {"type", "polarity"}
Disabling     == {"disable"}
===============================================================================
