------------------------- MODULE MC_RankIncrements --------------------------
(***************************************************************************)
(* Overlapping increments of one player, without limits and faults.        *)
(***************************************************************************)
EXTENDS CommonRank

MCCalls == [op: {"update_score"}, player: {1}, score: {1}, extra: {None}]

\* update_score changes the score on the basis of the one the player has
\* (rank.lua, the comment on /rank/update_score): once every call has returned,
\* the score is the number of increments.
IncrementsAddUp == waiting = <<>> => CurrentScore(1) = calls
=============================================================================
