---------------------------- MODULE MC_Discover -----------------------------
(***************************************************************************)
(* Two nodes of a cluster.  Time passes in steps of one heartbeat interval.*)
(* Where MaxLag = 1 a reply may take as long as that; with MaxLag = 0 the  *)
(* commands between two steps of time interleave, but none takes a step.   *)
(***************************************************************************)
EXTENDS RedisDiscover, TLC

CONSTANTS n1, n2

SameClocks == [n \in Nodes |-> 0]
SkewedClocks == (n1 :> 0) @@ (n2 :> 1)

\* The instances are ones that LagAssumption, the condition of LiveNodesListed,
\* admits.
ASSUME LagHolds == LagAssumption
=============================================================================
