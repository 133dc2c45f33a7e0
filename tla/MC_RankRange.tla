---------------------------- MODULE MC_RankRange ----------------------------
(***************************************************************************)
(* One call at a time: lists of different lengths and one cached list.     *)
(***************************************************************************)
EXTENDS CommonRank

MCCalls ==
         [op: {"update_score"}, player: Players, score: {1}, extra: {None}]
    \cup {[op |-> "get_top_n", n |-> 1, with_extras |-> TRUE],
          [op |-> "get_range", first |-> 1, last |-> 2, with_extras |-> TRUE]}

\* get_range answers from the cached list when "all of the range is in the
\* cached range" (its comment): a list it returns misses no player that is on
\* the board within the range.
RangeComplete ==
    [][reply' # reply /\ reply'.op = "get_range"
         => Cardinality(reply'.list) =
              Cardinality(Slice(Ranking, reply'.first, reply'.last))]_vars
=============================================================================
