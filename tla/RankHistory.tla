---------------------------- MODULE RankHistory ----------------------------
(***************************************************************************)
(* The leaderboard with history variables, and what it promises under      *)
(* conditions on its history: that no two calls were in progress at a      *)
(* time, that every change was one the cached list is cleared for, that a  *)
(* score was on the board.  They only record what the steps of CommonRank  *)
(* do.                                                                     *)
(***************************************************************************)
EXTENDS CommonRank

VARIABLES
    apart,   \* history: no two calls overlapped and nothing failed
    rising,  \* history: every change of the board was one of Covered
    shown    \* history: the scores each player ever had on the board

historyVars == <<vars, apart, rising, shown>>

HistoryInit == Init /\ apart = TRUE /\ rising = TRUE /\ shown = [p \in Players |-> {}]

StaysApart == Len(waiting') <= 1 /\ faults' = faults

\* The changes that the code means to clear the cached list for: an update
\* that sets a score no lower than it was, or a removal while cache_num is
\* positive; and the configuration changes only while nothing is cached.
Covered ==
    /\ \/ board' = board
       \/ /\ Current.at = "zadd"
          /\ board[Current.player] # None => board[Current.player] <= Current.score
       \/ Current.at \in {"r_zrem", "br_zrem"} /\ config.cache_num > 0
    /\ config' # config => cache = None /\ waiting = <<>>

Record ==
    /\ apart' = (apart /\ StaysApart)
    /\ rising' = (rising /\ Covered)
    /\ shown' = [p \in Players |-> shown[p] \cup ({board'[p]} \ {None})]

HistoryNext == Next /\ Record

HistorySpec == HistoryInit /\ [][HistoryNext]_historyVars

-----------------------------------------------------------------------------
(* Properties *)

Idle == waiting = <<>> /\ mq = <<>>

\* While calls do not overlap and nothing fails, MySQL never holds a score that
\* the board does not have once its queue is drained: a player removed from the
\* board does not survive in rank_data, whatever mix of calls came before and
\* although a task of several statements queues again for each of them.
NoGhostRow ==
    apart /\ Idle => \A p \in Players : rows[p] # None => rows[p].score = board[p]

\* A list that holds entries of the board and leaves out none above them.
IsTop(list) ==
    /\ list \subseteq Ranking
    /\ \A f \in Ranking \ list, e \in list : e.rank < f.rank

\* While calls do not overlap, nothing fails and every change is one that the
\* code means to clear the cached list for, that list is the current top of the
\* board whenever no call is in progress: the rank test that decides on
\* DEL rank_cache, made after the write, misses no change that matters.
CacheCurrent ==
    apart /\ rising /\ waiting = <<>> /\ cache # None => IsTop(cache)

\* The same with calls that overlap and do not fail, among them none of
\* batch_remove_player: a list that get_top_n read before a change and stores
\* after it (two commands later) does not outlive the change, whose DEL comes at
\* least as many commands after it.
FillCurrent ==
    rising /\ waiting = <<>> /\ cache # None => IsTop(cache)

\* MySQL is never ahead of Redis: whatever calls overlap, connections break and
\* processes restart, a score in rank_data is one that the board had for that
\* player, since each call forks its write after the answer to its ZADD only.
RowsWereShown ==
    \A p \in Players : rows[p] # None => rows[p].score \in shown[p]

=============================================================================
