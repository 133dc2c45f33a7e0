------------------------------ MODULE MC_Rank ------------------------------
(***************************************************************************)
(* Four ways to use the leaderboard, one of them in each behaviour:        *)
(*   every call, overlapping calls, faults;                                *)
(*   one call at a time, every kind that writes, from before CMD.init has  *)
(*   returned, no faults: what MySQL keeps;                                *)
(*   one call at a time, no score ever falls, no faults: the cached list;  *)
(*   three at a time, get_top_n among them, no faults: the cached list.    *)
(* The count of calls tells them apart: it starts at 0, SerialFrom,        *)
(* RisingFrom and FillFrom, so that each takes its own calls only.         *)
(***************************************************************************)
EXTENDS RankHistory

SerialFrom == 100
RisingFrom == 200
FillFrom == 300
MaxSerial == 4
MaxRising == 5
MaxFill == 4
MaxFillInFlight == 3

Conf(min, max, cache_num, open_min, open_max) ==
    [min_score |-> min, max_score |-> max, cache_num |-> cache_num,
     allow_negative |-> FALSE, open_min |-> open_min, open_max |-> open_max]

AllLoadable == {None, Conf(-1, 4, 2, FALSE, TRUE)}

AllCalls ==
    { [op |-> "update_score_direct", player |-> 1, score |-> 5, extra |-> None],
      [op |-> "update_score_direct", player |-> 2, score |-> -1, extra |-> "x"],
      [op |-> "update_score", player |-> 1, score |-> 2, extra |-> "x"],
      [op |-> "batch_update_score_direct",
       updates |-> <<[player |-> 2, score |-> 4, extra |-> "x"],
                     [player |-> 1, score |-> 0, extra |-> None]>>],
      [op |-> "batch_update_score",
       updates |-> <<[player |-> 2, score |-> 3, extra |-> None],
                     [player |-> 1, score |-> -4, extra |-> "x"]>>],
      [op |-> "remove_player", player |-> 1],
      [op |-> "batch_remove_player", players |-> <<1, 2>>],
      [op |-> "get_player_info", player |-> 1],
      [op |-> "get_top_n", n |-> None, with_extras |-> TRUE],
      [op |-> "get_range", first |-> 1, last |-> 2, with_extras |-> FALSE],
      [op |-> "set_config", config |-> Conf(1, 3, 1, TRUE, TRUE)] }

SerialCalls ==
    { [op |-> "update_score_direct", player |-> 1, score |-> 5, extra |-> None],
      [op |-> "update_score_direct", player |-> 1, score |-> 2, extra |-> "x"],
      [op |-> "update_score", player |-> 1, score |-> -2, extra |-> None],
      [op |-> "batch_update_score_direct",
       updates |-> <<[player |-> 2, score |-> 5, extra |-> "x"],
                     [player |-> 1, score |-> 2, extra |-> "x"]>>],
      [op |-> "batch_update_score",
       updates |-> <<[player |-> 1, score |-> 3, extra |-> "x"],
                     [player |-> 1, score |-> -3, extra |-> "x"]>>],
      [op |-> "remove_player", player |-> 1],
      [op |-> "batch_remove_player", players |-> <<2, 1>>],
      [op |-> "set_config",
       config |-> [default_config EXCEPT !.min_score = 3, !.open_min = TRUE]] }

Serial == INSTANCE CommonRank WITH
    Calls <- SerialCalls, Loadable <- {None}, EarlyCalls <- TRUE,
    MaxCalls <- SerialFrom + MaxSerial, MaxInFlight <- 1

\* The direct scores are above what four calls can reach by increments, and
\* each is set once in effect: setting it again leaves it as it is.
RisingCalls ==
         [op: {"update_score"}, player: Players, score: {1}, extra: {None}]
    \cup [op: {"update_score_direct"}, player: {1}, score: {9}, extra: {None}]
    \cup {[op |-> "remove_player", player |-> 2],
          [op |-> "batch_remove_player", players |-> <<1, 3>>],
          [op |-> "get_top_n", n |-> None, with_extras |-> TRUE],
          [op |-> "get_top_n", n |-> 1, with_extras |-> FALSE],
          [op |-> "get_range", first |-> 2, last |-> 3, with_extras |-> TRUE]}

RisingLoadable == {[default_config EXCEPT !.cache_num = n] : n \in {1, 2}}

Rising == INSTANCE CommonRank WITH
    Calls <- RisingCalls,
    Loadable <- RisingLoadable,
    EarlyCalls <- FALSE, MaxCalls <- RisingFrom + MaxRising, MaxInFlight <- 1

\* The direct score is above what the increments can reach.  None of the calls
\* is batch_remove_player, which clears the list with the command after its ZREM.
FillCalls ==
         [op: {"update_score"}, player: {1, 2}, score: {1}, extra: {None}]
    \cup [op: {"update_score_direct"}, player: {1}, score: {9}, extra: {None}]
    \cup [op: {"remove_player"}, player: {1, 2}]
    \cup [op: {"get_top_n"}, n: {1, 2}, with_extras: {TRUE}]

FillLoadable == {[default_config EXCEPT !.cache_num = 2]}

Fill == INSTANCE CommonRank WITH
    Calls <- FillCalls, Loadable <- FillLoadable, EarlyCalls <- FALSE,
    MaxCalls <- FillFrom + MaxFill, MaxInFlight <- MaxFillInFlight

NoFaults == faults = MaxFaults

SerialInit ==
    /\ FirstStart /\ NoFaults /\ calls = SerialFrom
    /\ stored = None /\ configs = Serial!Unloaded

RisingInit ==
    /\ FirstStart /\ NoFaults /\ calls = RisingFrom
    /\ stored \in RisingLoadable
    /\ configs = Rising!Unloaded

FillInit ==
    /\ FirstStart /\ NoFaults /\ calls = FillFrom
    /\ stored \in FillLoadable
    /\ configs = Fill!Unloaded

MCInit ==
    /\ Init \/ SerialInit \/ RisingInit \/ FillInit
    /\ apart = TRUE /\ rising = TRUE /\ shown = [p \in Players |-> {}]

\* Whether another call may start in one of the three.
SerialStart ==
    /\ waiting = <<>> /\ calls \in SerialFrom..(SerialFrom + MaxSerial - 1)
    /\ Serial!Start
RisingStart ==
    /\ waiting = <<>> /\ calls \in RisingFrom..(RisingFrom + MaxRising - 1)
    /\ Rising!Start
FillStart ==
    /\ calls \in FillFrom..(FillFrom + MaxFill - 1)
    /\ Len(waiting) < MaxFillInFlight
    /\ Fill!Start

\* HistoryNext, with each action in a disjunct of its own, so that TLC counts
\* how often it fires; Start has no call, and no fault happens, in the other three
\* scenarios.
MCNext ==
    \/ ConnectRedis /\ Record
    \/ ConnectMysql /\ Record
    \/ LoadConfig /\ Record
    \/ calls < MaxCalls /\ Start /\ Record
    \/ UpdateDirectZscore /\ Record
    \/ UpdateZscore /\ Record
    \/ UpdateZrem /\ Record
    \/ UpdateZadd /\ Record
    \/ UpdateHset /\ Record
    \/ UpdateZrevrank /\ Record
    \/ DeleteCache /\ Record
    \/ BatchZscore /\ Record
    \/ BatchHset /\ Record
    \/ BatchZrevrank /\ Record
    \/ BatchZrem /\ Record
    \/ BatchZadd /\ Record
    \/ RemoveZrem /\ Record
    \/ RemoveDel /\ Record
    \/ BatchRemoveDel /\ Record
    \/ BatchRemoveZrem /\ Record
    \/ ReadCache /\ Record
    \/ ReadRanking /\ Record
    \/ ReadExtras /\ Record
    \/ StoreCache /\ Record
    \/ InfoStep /\ Record
    \/ CacheExpires /\ Record
    \/ SaveConfig /\ Record
    \/ MysqlExecute /\ Record
    \/ MysqlExecuteFails /\ Record
    \/ SaveConfigFails /\ Record
    \/ LoadConfigFails /\ Record
    \/ LoseConnection /\ Record
    \/ ExecuteUnanswered /\ Record
    \/ AbortCalls /\ Record
    \/ Restart /\ Record
    \/ SerialStart /\ Record
    \/ RisingStart /\ Record
    \/ FillStart /\ Record

MCSpec == MCInit /\ [][MCNext]_historyVars

\* FillCurrent of RankHistory, where the calls are FillCalls.
FilledIsCurrent == calls >= FillFrom => FillCurrent
=============================================================================
