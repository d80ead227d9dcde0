----------------------------- MODULE MCRtosalPort -----------------------------
(***************************************************************************)
(* Instances of RtosalPort: three tasks, sections nested twice.            *)
(***************************************************************************)
EXTENDS RtosalPort, TLC

CONSTANTS t1, t2, t3

MCTasks == {t1, t2, t3}
Symmetry == Permutations(MCTasks)
===============================================================================
