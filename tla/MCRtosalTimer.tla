---------------------------- MODULE MCRtosalTimer ----------------------------
(***************************************************************************)
(* A periodic and a one-shot timer on a tick count that wraps after eight  *)
(* ticks.                                                                  *)
(***************************************************************************)
EXTENDS RtosalTimer

CONSTANTS periodic, once

MCTimers   == {periodic, once}
MCReload   == {periodic}
MCPeriod   == [t \in MCTimers |-> IF t = periodic THEN 2 ELSE 1]
MCServices == [t \in MCTimers |-> IF t = periodic THEN {"stop", "changePeriod"} ELSE {"start"}]
===============================================================================
