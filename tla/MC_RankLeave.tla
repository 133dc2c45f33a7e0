---------------------------- MODULE MC_RankLeave ----------------------------
(***************************************************************************)
(* One call at a time: scores that are too low once a minimum is in force. *)
(***************************************************************************)
EXTENDS CommonRank

Conf(min) == [default_config EXCEPT !.min_score = min, !.open_min = TRUE]

MCCalls ==
         [op: {"update_score_direct"}, player: Players, score: {2, 4}, extra: {None}]
    \cup [op: {"update_score"}, player: Players, score: {-2}, extra: {"x"}]
    \cup {[op |-> "set_config", config |-> Conf(3)]}

\* An update that answers "score too low" takes a player that was on the board
\* off it ("if it was on the board, it has to be removed", the comment on that
\* branch): it returns after ZSCORE only if the player is not there.
TooLowLeaves ==
    [][waiting # <<>> /\ Current.at = "zscore" /\ waiting' = Tail(waiting)
         => board[Current.player] = None]_vars
=============================================================================
