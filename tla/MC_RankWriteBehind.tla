------------------------- MODULE MC_RankWriteBehind -------------------------
(***************************************************************************)
(* Overlapping calls that all fork their MySQL write at their second       *)
(* command, without faults: no minimum score is configured.                *)
(***************************************************************************)
EXTENDS CommonRank

MCCalls ==
         [op: {"update_score"}, player: Players, score: {1, -2}, extra: {None}]
    \cup [op: {"update_score_direct"}, player: Players, score: {2}, extra: Extras]
    \cup [op: {"remove_player"}, player: Players]
    \cup {[op |-> "set_config", config |-> [default_config EXCEPT !.cache_num = 0]]}

\* MaxFaults is 0: of the actions of Next none is a fault.  The run of MC_Rank has
\* every action of Next, one by one; here they are taken together.
MCNext == Next /\ UNCHANGED faults

MCSpec == Init /\ [][MCNext]_vars /\ Fairness

\* The instance is one that WriteBehindAssumption, the condition of
\* WritesReachMysqlInOrder, admits.
ASSUME WriteBehindHolds == WriteBehindAssumption
=============================================================================
