----------------------------- MODULE CommonRank -----------------------------
(***************************************************************************)
(* The leaderboard service server/rank/common_rank.lua, for one rank_type. *)
(*                                                                         *)
(* The service is one Skynet actor.  A call runs in a coroutine of its own *)
(* that yields at each Redis command.  The service has one connection to   *)
(* Redis, which executes commands and returns replies in the order they    *)
(* were sent, so the calls in progress form the sequence "waiting": each   *)
(* waits for the reply of the command named by its field "at".  A step     *)
(* executes the command at the head, resumes that call, runs its code up   *)
(* to its next command (sent behind the others) or to its end.             *)
(*                                                                         *)
(* Writes to MySQL are forked, and run one at a time in the order of the   *)
(* lock queue "mq"; a forked task holds a sequence of statements and takes *)
(* the lock anew, at the back of the queue, for each of them.              *)
(*                                                                         *)
(* Players are numbers so that Redis' order of members with equal scores   *)
(* is defined; scores are integers (the code has doubles).                 *)
(***************************************************************************)
EXTENDS Integers, Sequences, FiniteSets

CONSTANTS
    Players,      \* the player ids that calls name
    Extras,       \* the extra strings that calls carry
    None,         \* nil: no score, no row, no cached list, no argument
    Calls,        \* the calls that other services may send, see CallSpace
    Loadable,     \* what rank_config may hold when the service first starts
    EarlyCalls,   \* whether calls may arrive before CMD.init has returned
    MaxCalls,     \* bound: calls received in one behaviour
    MaxInFlight,  \* bound: calls in progress at a time
    MaxFaults     \* bound: connection losses, failed statements, restarts

\* What tostring/cjson.encode makes of the argument extra_data.
ExtraStr(x) == IF x = None THEN "nil" ELSE x
Texts == Extras \cup {"nil"}

Configs == [min_score: Int, max_score: Int, cache_num: Int,
            allow_negative: BOOLEAN, open_min: BOOLEAN, open_max: BOOLEAN]
default_config ==
    [min_score |-> 0, max_score |-> 999999999, cache_num |-> 100,
     allow_negative |-> TRUE, open_min |-> FALSE, open_max |-> FALSE]

\* new_config[k] = config_table[k] ~= nil and config_table[k] or v: a field
\* that is false takes the default as if it were absent.
Merge(given) ==
    [given EXCEPT
       !.allow_negative = given.allow_negative \/ default_config.allow_negative,
       !.open_min = given.open_min \/ default_config.open_min,
       !.open_max = given.open_max \/ default_config.open_max]

SingleUpdate == {"update_score_direct", "update_score"}
BatchUpdate == {"batch_update_score_direct", "batch_update_score"}
\* "score" is the new score of a direct update, delta_score of the others.
Updates == [player: Players, score: Int, extra: Extras \cup {None}]
\* What the argument checks of the HTTP handlers let through.
UpdateRequests ==
    [op: SingleUpdate, player: Players, score: Int, extra: Extras \cup {None}]
BatchRequests == [op: BatchUpdate, updates: Seq(Updates) \ {<<>>}]
InfoRequests == [op: {"get_player_info"}, player: Players]
ListRequests ==
         [op: {"get_top_n"}, n: (Nat \ {0}) \cup {None}, with_extras: BOOLEAN]
    \cup [op: {"get_range"}, first: Nat \ {0}, last: Nat \ {0}, with_extras: BOOLEAN]
RemoveRequests ==
         [op: {"remove_player"}, player: Players]
    \cup [op: {"batch_remove_player"}, players: Seq(Players) \ {<<>>}]
ConfigRequests == [op: {"set_config"}, config: Configs]
CallSpace == UpdateRequests \cup BatchRequests \cup InfoRequests \cup ListRequests
                 \cup RemoveRequests \cup ConfigRequests

ASSUME RankAssumption ==
    /\ Players \subseteq Nat
    /\ IsFiniteSet(Players)
    /\ None \notin Int /\ None \notin Texts /\ None \notin Configs
    /\ None \notin [score: Int, extra: Texts]
    /\ Calls \subseteq CallSpace
    /\ Loadable \subseteq Configs \cup {None}
    /\ EarlyCalls \in BOOLEAN
    /\ MaxCalls \in Nat /\ MaxInFlight \in Nat /\ MaxFaults \in Nat

VARIABLES
    board,     \* Redis zset rank:<type>, score of each player on it
    data,      \* Redis hashes rank_data:<type>:<player>, field extra
    cache,     \* Redis string rank_cache:<type>, the decoded list
    waiting,   \* calls in progress, in the order of their Redis commands
    phase,     \* where CMD.init is, or ready
    down,      \* the Redis connection broke and its callers do not know yet
    config,    \* rank_config[rank_type], or the default
    stored,    \* MySQL row rank_config of this rank_type
    saves,     \* INSERTs into rank_config on their way to MySQL
    rows,      \* MySQL table rank_data
    mq,        \* tasks of mysql_queue, each the statements it has left
    reply,     \* the last list returned to a reader
    calls,     \* number of calls received
    faults,    \* number of faults so far
    configs    \* history: every configuration that was ever in force

redisVars == <<board, data, cache>>
mysqlVars == <<stored, saves, rows>>
vars == <<board, data, cache, waiting, phase, down, config, stored, saves, rows, mq,
          reply, calls, faults, configs>>

(***************************************************************************)
(* Scores, ranks and limits                                                *)
(***************************************************************************)
\* Mutant of Clip: the maximum is not applied.
Clip_NoMax(cfg, score) == IF ~cfg.allow_negative /\ score < 0 THEN 0 ELSE score

\* The checks an update applies to a score before it looks at the minimum.
Clip(cfg, score) ==
    LET legal == IF ~cfg.allow_negative /\ score < 0 THEN 0 ELSE score
    IN  IF cfg.open_max /\ legal > cfg.max_score THEN cfg.max_score ELSE legal

TooLow(cfg, score) == cfg.open_min /\ score < cfg.min_score

\* tonumber(redis_conn:zscore(key, player_id)) or 0
CurrentScore(p) == IF board[p] = None THEN 0 ELSE board[p]

OnBoard == {p \in Players : board[p] # None}
Above(p) == {q \in OnBoard : board[q] > board[p] \/ (board[q] = board[p] /\ q > p)}
Rank(p) == Cardinality(Above(p))      \* ZREVRANK, 0-based

\* ZREVRANGE key 0 -1 WITHSCORES, as the list of {rank, player_id, score} the
\* service makes of it: an entry of a list is found by its rank.
Entry(p) == [rank |-> Rank(p) + 1, player |-> p, score |-> board[p]]
Ranking == {Entry(p) : p \in OnBoard}

Slice(list, first, last) == {e \in list : first <= e.rank /\ e.rank <= last}

\* n <= cache_num, or every length may be cached
Cacheable(cfg, last) == cfg.cache_num = -1 \/ last <= cfg.cache_num
KeepsCache(cfg) == cfg.cache_num > 0 \/ cfg.cache_num = -1

(***************************************************************************)
(* Redis commands and MySQL statements                                     *)
(***************************************************************************)
NoRows == [p \in Players |-> None]

\* What the Redis command of call c does to the zset, the hashes and the list.
BoardAfter(c) ==
    CASE c.at \in {"zrem", "r_zrem"} -> [board EXCEPT ![c.player] = None]
      [] c.at = "b_zrem" -> [board EXCEPT ![Head(c.updates).player] = None]
      [] c.at = "br_zrem" ->
           [p \in Players |-> IF \E i \in DOMAIN c.players : c.players[i] = p
                              THEN None ELSE board[p]]
      [] c.at = "zadd" -> [board EXCEPT ![c.player] = c.score]
      [] c.at = "b_zadd" ->
           [p \in Players |-> IF c.ins[p] = None THEN board[p] ELSE c.ins[p].score]
      [] OTHER -> board

DataAfter(c) ==
    CASE c.at = "hset" -> [data EXCEPT ![c.player] = ExtraStr(c.extra)]
      [] c.at = "b_hset" -> [data EXCEPT ![Head(c.updates).player] =
                                 ExtraStr(Head(c.updates).extra)]
      [] c.at = "r_del" -> [data EXCEPT ![c.player] = None]
      [] c.at = "br_del" -> [data EXCEPT ![Head(c.left)] = None]
      [] OTHER -> data

CacheAfter(c) ==
    CASE c.at \in {"del", "b_del", "r_delcache"} -> None
      [] c.at = "setex" -> c.list
      [] OTHER -> cache

Execute(c) ==
    /\ board' = BoardAfter(c)
    /\ data' = DataAfter(c)
    /\ cache' = CacheAfter(c)

Insert(p, score, extra) ==
    [op |-> "insert", rows |-> [NoRows EXCEPT ![p] = [score |-> score, extra |-> extra]]]
Update(p, score) == [op |-> "update", player |-> p, score |-> score]
Delete(ps) == [op |-> "delete", players |-> ps]

\* The table after a statement.  INSERT overwrites a row that is there
\* (ON DUPLICATE KEY UPDATE), UPDATE does not create one.
RowsAfter(s) ==
    [p \in Players |->
       CASE s.op = "insert" /\ s.rows[p] # None -> s.rows[p]
         [] s.op = "update" /\ s.player = p /\ rows[p] # None ->
              [rows[p] EXCEPT !.score = s.score]
         [] s.op = "delete" /\ p \in s.players -> None
         [] OTHER -> rows[p]]

(***************************************************************************)
(* Coroutines                                                              *)
(***************************************************************************)
Current == Head(waiting)

\* The reply of a Redis command named in "labels" reaches the call that sent it.
Reply(labels) ==
    /\ waiting # <<>> /\ ~down
    /\ Current.at \in labels
    /\ Execute(Current)

\* The resumed call, now in state c, sends its next command or has returned.
Await(c) == waiting' = Append(Tail(waiting), c)
AwaitAt(label) == Await([Current EXCEPT !.at = label])
Return == waiting' = Tail(waiting)

\* mysql_conn is set
HasMysql == phase \in {"load", "ready"}

\* if mysql_conn then skynet.fork(function() mysql_execute(...) ... end) end
Fork(statements) == mq' = IF HasMysql THEN Append(mq, statements) ELSE mq

\* A call arrives: its coroutine runs up to its first command.
Receive ==
    /\ phase = "ready" \/ EarlyCalls
    /\ calls < MaxCalls
    /\ calls' = calls + 1
\* Without redis_conn it fails there and then, which changes nothing.
Begin(c) ==
    /\ Receive
    /\ phase # "connect_redis"
    /\ Len(waiting) < MaxInFlight
    /\ waiting' = Append(waiting, c)
    /\ UNCHANGED <<redisVars, mysqlVars, mq, phase, down, config, reply, faults, configs>>

\* What a step on behalf of a call in progress leaves alone.
Progress == UNCHANGED <<mysqlVars, phase, down, config, calls, faults, configs>>

(***************************************************************************)
(* update_score_direct and update_score                                    *)
(***************************************************************************)
UpdateState(k, label, score) ==
    [op |-> k.op, at |-> label, cfg |-> config, player |-> k.player,
     score |-> score, extra |-> k.extra]

StartUpdateDirect ==
    \E k \in {k \in Calls : k.op = "update_score_direct"} :
       LET score == Clip(config, k.score)
       IN  Begin(UpdateState(k, IF TooLow(config, score) THEN "zscore" ELSE "zadd",
                                score))

StartUpdate ==
    \E k \in {k \in Calls : k.op = "update_score"} :
       Begin(UpdateState(k, "zscore", k.score))

\* "score too low": the player leaves the board if its score was high enough.
LeaveOrReturn ==
    IF CurrentScore(Current.player) >= Current.cfg.min_score
    THEN AwaitAt("zrem") ELSE Return

UpdateDirectZscore ==
    /\ Reply({"zscore"}) /\ Current.op = "update_score_direct"
    /\ LeaveOrReturn
    /\ UNCHANGED <<mq, reply>> /\ Progress

UpdateZscore ==
    /\ Reply({"zscore"}) /\ Current.op = "update_score"
    /\ LET score == Clip(Current.cfg, CurrentScore(Current.player) + Current.score)
       IN  IF TooLow(Current.cfg, score)
           THEN LeaveOrReturn
           ELSE Await([Current EXCEPT !.at = "zadd", !.score = score])
    /\ UNCHANGED <<mq, reply>> /\ Progress

\* Mutant of UpdateZrem: leaves the row in MySQL.
UpdateZrem_NoDelete ==
    /\ Reply({"zrem"})
    /\ Return
    /\ UNCHANGED <<mq, reply>> /\ Progress

UpdateZrem ==
    /\ Reply({"zrem"})
    /\ Fork(<<Delete({Current.player})>>)
    /\ Return
    /\ UNCHANGED reply /\ Progress

\* Mutant of CheckCache: clears the list at once, without a look at the rank.
CheckCache_Direct == IF KeepsCache(Current.cfg) THEN AwaitAt("del") ELSE Return

\* if config.cache_num > 0 or config.cache_num == -1 then zrevrank ...
CheckCache == IF KeepsCache(Current.cfg) THEN AwaitAt("zrevrank") ELSE Return

\* Mutant of OnlyScore: no extra data leads to UPDATE in update_score as well.
OnlyScore_Both(c) == c.extra = None

\* extra_str of update_score is a string even without extra data, so its
\* branch that only updates the score is never taken.
OnlyScore(c) == c.op = "update_score_direct" /\ c.extra = None

UpdateZadd ==
    /\ Reply({"zadd"})
    /\ IF OnlyScore(Current)
       THEN Fork(<<Update(Current.player, Current.score)>>) /\ CheckCache
       ELSE AwaitAt("hset") /\ UNCHANGED mq
    /\ UNCHANGED reply /\ Progress

UpdateHset ==
    /\ Reply({"hset"})
    /\ Fork(<<Insert(Current.player, Current.score, ExtraStr(Current.extra))>>)
    /\ CheckCache
    /\ UNCHANGED reply /\ Progress

\* Mutant of InCachedPart: takes the rank for a 1-based one.
InCachedPart_OneBased(cfg, p) ==
    board[p] # None /\ (cfg.cache_num = -1 \/ Rank(p) + 1 < cfg.cache_num)

\* rank and (config.cache_num == -1 or rank < config.cache_num)
InCachedPart(cfg, p) ==
    board[p] # None /\ (cfg.cache_num = -1 \/ Rank(p) < cfg.cache_num)

UpdateZrevrank ==
    /\ Reply({"zrevrank"})
    /\ IF InCachedPart(Current.cfg, Current.player) THEN AwaitAt("del") ELSE Return
    /\ UNCHANGED <<mq, reply>> /\ Progress

(***************************************************************************)
(* batch_update_score_direct and batch_update_score.  "updates" are the    *)
(* entries left, "ins" the arguments of the ZADD; "sql" and "dels", what   *)
(* MySQL is to insert and delete, leave out entries handled when there was *)
(* no mysql_conn yet.                                                      *)
(***************************************************************************)
\* The entry at the head gets this score.
Accept(c, score) ==
    LET u == Head(c.updates)
        row == [score |-> score, extra |-> ExtraStr(u.extra)]
    IN  [c EXCEPT !.at = "b_hset", !.ins = [@ EXCEPT ![u.player] = row]]
Expel(c) == [c EXCEPT !.at = "b_zrem"]

\* What MySQL is to do about the entry at the head, noted when the HSET or the
\* ZREM has been answered: whether mysql_conn is set is looked at then.
NoteRow(c) ==
    LET p == Head(c.updates).player
    IN  [c EXCEPT !.sql = IF HasMysql THEN [@ EXCEPT ![p] = c.ins[p]] ELSE @]
NoteRemoval(c) ==
    [c EXCEPT !.dels = IF HasMysql THEN Append(@, Head(c.updates).player) ELSE @]

\* The call when it takes up the next entry, or has handled all of them.
NextEntry(c) ==
    IF c.updates = <<>>
    THEN [c EXCEPT !.at = IF c.ins = NoRows THEN "end" ELSE "b_zadd"]
    ELSE IF c.op = "batch_update_score" THEN [c EXCEPT !.at = "b_zscore"]
    ELSE LET score == Clip(c.cfg, Head(c.updates).score)
         IN  IF TooLow(c.cfg, score) THEN Expel(c) ELSE Accept(c, score)
DropEntry(c) == [c EXCEPT !.updates = Tail(@)]

\* One INSERT for all values, then one DELETE for each player removed.
BatchTask(c) ==
    (IF c.sql = NoRows THEN <<>> ELSE <<[op |-> "insert", rows |-> c.sql]>>)
    \o [i \in DOMAIN c.dels |-> Delete({c.dels[i]})]
\* if mysql_conn and #mysql_updates > 0
ForkBatch(c) == IF BatchTask(c) = <<>> THEN UNCHANGED mq ELSE Fork(BatchTask(c))

\* Mutant of BatchGoOn: forks what MySQL is to do before the ZADD is sent.
BatchGoOn_ForksFirst(c) ==
    LET n == NextEntry(c)
    IN  CASE n.at = "end" -> Return /\ ForkBatch(c)
          [] n.at = "b_zadd" -> Await([n EXCEPT !.sql = NoRows, !.dels = <<>>]) /\ ForkBatch(c)
          [] OTHER -> Await(n) /\ UNCHANGED mq

\* After the loop: the ZADD if it has arguments, else the fork and the end.
\* (need_clear_cache is false when there was nothing to add.)
BatchGoOn(c) ==
    LET n == NextEntry(c)
    IN  IF n.at # "end" THEN Await(n) /\ UNCHANGED mq
        ELSE Return /\ ForkBatch(c)

StartBatch ==
    \E k \in {k \in Calls : k.op \in BatchUpdate} :
       Begin(NextEntry([op |-> k.op, at |-> "start", cfg |-> config,
                           updates |-> k.updates, ins |-> NoRows, sql |-> NoRows,
                           dels |-> <<>>, clear |-> FALSE]))

BatchZscore ==
    /\ Reply({"b_zscore"})
    /\ LET u == Head(Current.updates)
           current == CurrentScore(u.player)
           score == Clip(Current.cfg, current + u.score)
       IN  CASE ~TooLow(Current.cfg, score) ->
                  Await(Accept(Current, score)) /\ UNCHANGED mq
             [] TooLow(Current.cfg, score) /\ current >= Current.cfg.min_score ->
                  Await(Expel(Current)) /\ UNCHANGED mq
             [] OTHER -> BatchGoOn(DropEntry(Current))
    /\ UNCHANGED reply /\ Progress

BatchHset ==
    /\ Reply({"b_hset"})
    /\ IF KeepsCache(Current.cfg)
       THEN Await([NoteRow(Current) EXCEPT !.at = "b_zrevrank"]) /\ UNCHANGED mq
       ELSE BatchGoOn(DropEntry(NoteRow(Current)))
    /\ UNCHANGED reply /\ Progress

\* The rank is looked up before the ZADD: it is the one the player had.
BatchZrevrank ==
    /\ Reply({"b_zrevrank"})
    /\ LET hit == InCachedPart(Current.cfg, Head(Current.updates).player)
       IN  BatchGoOn([DropEntry(Current) EXCEPT !.clear = @ \/ hit])
    /\ UNCHANGED reply /\ Progress

BatchZrem ==
    /\ Reply({"b_zrem"})
    /\ BatchGoOn(DropEntry(NoteRemoval(Current)))
    /\ UNCHANGED reply /\ Progress

BatchZadd ==
    /\ Reply({"b_zadd"})
    /\ ForkBatch(Current)
    /\ IF Current.clear THEN AwaitAt("b_del") ELSE Return
    /\ UNCHANGED reply /\ Progress

(***************************************************************************)
(* remove_player and batch_remove_player.  Both read the configuration     *)
(* only when they come to the cache.                                       *)
(***************************************************************************)
StartRemove ==
    \E k \in {k \in Calls : k.op = "remove_player"} :
       Begin([op |-> k.op, at |-> "r_zrem", player |-> k.player, removed |-> FALSE])

RemoveZrem ==
    /\ Reply({"r_zrem"})
    /\ Await([Current EXCEPT !.at = "r_del", !.removed = board[Current.player] # None])
    /\ UNCHANGED <<mq, reply>> /\ Progress

\* Mutant of RemoveDel: forks its DELETE only when it also clears the cache.
RemoveDel_NoDelete ==
    /\ Reply({"r_del"})
    /\ IF Current.removed /\ config.cache_num > 0
       THEN Fork(<<Delete({Current.player})>>) /\ AwaitAt("r_delcache")
       ELSE UNCHANGED mq /\ Return
    /\ UNCHANGED reply /\ Progress

RemoveDel ==
    /\ Reply({"r_del"})
    /\ IF Current.removed THEN Fork(<<Delete({Current.player})>>) ELSE UNCHANGED mq
    /\ IF config.cache_num > 0 THEN AwaitAt("r_delcache") ELSE Return
    /\ UNCHANGED reply /\ Progress

StartBatchRemove ==
    \E k \in {k \in Calls : k.op = "batch_remove_player"} :
       Begin([op |-> k.op, at |-> "br_del", left |-> k.players, players |-> k.players])

BatchRemoveDel ==
    /\ Reply({"br_del"})
    /\ Await([Current EXCEPT !.left = Tail(@),
                             !.at = IF Len(Current.left) > 1 THEN "br_del" ELSE "br_zrem"])
    /\ UNCHANGED <<mq, reply>> /\ Progress

BatchRemoveZrem ==
    /\ Reply({"br_zrem"})
    /\ LET named == {Current.players[i] : i \in DOMAIN Current.players}
       IN  IF named \cap OnBoard # {} THEN Fork(<<Delete(named)>>) ELSE UNCHANGED mq
    /\ IF config.cache_num > 0 THEN AwaitAt("r_delcache") ELSE Return
    /\ UNCHANGED reply /\ Progress

\* The last command of an update or a removal: DEL of the cached list.
DeleteCache ==
    /\ Reply({"del", "b_del", "r_delcache"})
    /\ Return
    /\ UNCHANGED <<mq, reply>> /\ Progress

(***************************************************************************)
(* get_top_n, get_range and get_player_info                                *)
(***************************************************************************)
ReadState(k, first, last) ==
    [op |-> k.op, at |-> IF Cacheable(config, last) THEN "get" ELSE "zrevrange",
     cfg |-> config, first |-> first, last |-> last,
     with_extras |-> k.with_extras, list |-> {}]

StartTopN ==
    \E k \in {k \in Calls : k.op = "get_top_n"} :
       Begin(ReadState(k, 1,
                IF k.n # None THEN k.n
                ELSE IF config.cache_num > 0 THEN config.cache_num ELSE 100))

StartRange ==
    \E k \in {k \in Calls : k.op = "get_range" /\ k.first <= k.last} :
       Begin(ReadState(k, k.first, k.last))

Answer(list) ==
    reply' = [op |-> Current.op, first |-> Current.first, last |-> Current.last,
              list |-> list]

ReadCache ==
    /\ Reply({"get"})
    /\ IF cache = None
       THEN AwaitAt("zrevrange") /\ UNCHANGED reply
       ELSE Return /\ Answer(Slice(cache, Current.first, Current.last))
    /\ UNCHANGED mq /\ Progress

\* Only get_top_n stores what it read, and only with extra data.
StoreOrAnswer(c) ==
    IF c.op = "get_top_n" /\ c.with_extras /\ Cacheable(c.cfg, c.last)
    THEN Await([c EXCEPT !.at = "setex"]) /\ UNCHANGED reply
    ELSE Return /\ Answer(c.list)

ReadRanking ==
    /\ Reply({"zrevrange"})
    /\ LET c == [Current EXCEPT !.list = Slice(Ranking, Current.first, Current.last)]
       IN  IF c.with_extras /\ c.list # {}
           THEN Await([c EXCEPT !.at = "pipeline"]) /\ UNCHANGED reply
           ELSE StoreOrAnswer(c)
    /\ UNCHANGED mq /\ Progress

ReadExtras ==
    /\ Reply({"pipeline"})
    /\ StoreOrAnswer(Current)
    /\ UNCHANGED mq /\ Progress

StoreCache ==
    /\ Reply({"setex"})
    /\ Return
    /\ Answer(Current.list)
    /\ UNCHANGED mq /\ Progress

StartInfo ==
    \E k \in {k \in Calls : k.op = "get_player_info"} :
       Begin([op |-> k.op, at |-> "i_zscore", player |-> k.player])

InfoStep ==
    /\ Reply({"i_zscore", "i_zrevrank", "i_hget"})
    /\ CASE Current.at = "i_zscore" /\ board[Current.player] # None -> AwaitAt("i_zrevrank")
         [] Current.at = "i_zrevrank" -> AwaitAt("i_hget")
         [] OTHER -> Return
    /\ UNCHANGED <<mq, reply>> /\ Progress

\* SETEX ... 300: the cached list expires.
CacheExpires ==
    /\ cache # None
    /\ cache' = None
    /\ UNCHANGED <<board, data, waiting, phase, down, config, mysqlVars, mq, reply,
                   calls, faults, configs>>

(***************************************************************************)
(* CMD.init, which rank_main.lua sends but does not wait for.  Until the   *)
(* configuration is read, calls are served under the default one.          *)
(***************************************************************************)
Unloaded == IF EarlyCalls THEN {default_config} ELSE {}

Connect(now, next) ==
    /\ phase = now /\ phase' = next
    /\ UNCHANGED <<redisVars, mysqlVars, waiting, down, config, mq, reply, calls,
                   faults, configs>>
ConnectRedis == Connect("connect_redis", "connect_mysql")
ConnectMysql == Connect("connect_mysql", "load")

\* Mutant of Loaded: forgets "or v".
Loaded_NoDefault == stored

\* rank_config[rank_type] after the rows of rank_config were read.
Loaded == IF stored = None THEN config ELSE Merge(stored)

LoadConfig ==
    /\ phase = "load" /\ phase' = "ready"
    /\ config' = Loaded
    /\ configs' = configs \cup {config'}
    /\ UNCHANGED <<redisVars, mysqlVars, waiting, down, mq, reply, calls, faults>>

(***************************************************************************)
(* set_config: in memory at once, then (if mysql_conn) a query that does   *)
(* not wait for the lock of mysql_queue.                                   *)
(***************************************************************************)
\* Mutant of SetConfig: keeps and saves the configuration as it was given.
SetConfig_Unmerged ==
    \E k \in {k \in Calls : k.op = "set_config"} :
       /\ Receive
       /\ k.config.cache_num >= -1
       /\ config' = k.config
       /\ configs' = configs \cup {config'}
       /\ saves' = IF HasMysql THEN Append(saves, config') ELSE saves
       /\ UNCHANGED <<redisVars, waiting, phase, down, stored, rows, mq, reply, faults>>

SetConfig ==
    \E k \in {k \in Calls : k.op = "set_config"} :
       /\ Receive
       /\ k.config.cache_num >= -1
       /\ config' = Merge(k.config)
       /\ configs' = configs \cup {config'}
       /\ saves' = IF HasMysql THEN Append(saves, config') ELSE saves
       /\ UNCHANGED <<redisVars, waiting, phase, down, stored, rows, mq, reply, faults>>

SaveConfig ==
    /\ phase = "ready" /\ saves # <<>>
    /\ stored' = Head(saves)
    /\ saves' = Tail(saves)
    /\ UNCHANGED <<redisVars, waiting, phase, down, config, rows, mq, reply, calls,
                   faults, configs>>

(***************************************************************************)
(* mysql_execute, run by the forked tasks                                  *)
(***************************************************************************)
\* The task at the head has run a statement and releases the lock.
NextTask ==
    mq' = IF Len(Head(mq)) > 1 THEN Append(Tail(mq), Tail(Head(mq))) ELSE Tail(mq)

\* Statements wait on the connection for the SELECT of CMD.init.
MysqlExecute ==
    /\ phase = "ready" /\ mq # <<>>
    /\ rows' = RowsAfter(Head(Head(mq)))
    /\ NextTask
    /\ UNCHANGED <<redisVars, waiting, phase, down, config, stored, saves, reply, calls,
                   faults, configs>>

Fault == faults < MaxFaults /\ faults' = faults + 1

\* pcall swallows a statement that fails.
MysqlExecuteFails ==
    /\ phase = "ready" /\ mq # <<>> /\ Fault
    /\ NextTask
    /\ UNCHANGED <<redisVars, waiting, phase, down, config, stored, saves, rows, reply,
                   calls, configs>>

\* A failed query returns an error that has no rows: the service is ready, with
\* the default configuration.
LoadConfigFails ==
    /\ phase = "load" /\ Fault
    /\ phase' = "ready"
    /\ configs' = configs \cup {config}
    /\ UNCHANGED <<redisVars, mysqlVars, waiting, down, config, mq, reply, calls>>

\* The query of set_config fails: its caller gets an error, memory keeps it.
SaveConfigFails ==
    /\ phase = "ready" /\ saves # <<>> /\ Fault
    /\ saves' = Tail(saves)
    /\ UNCHANGED <<redisVars, waiting, phase, down, config, stored, rows, mq, reply,
                   calls, configs>>

(***************************************************************************)
(* Redis connection loss, service restart                                  *)
(***************************************************************************)
\* Commands sent before the loss may still execute without a reply.
LoseConnection ==
    /\ waiting # <<>> /\ ~down /\ Fault
    /\ down' = TRUE
    /\ UNCHANGED <<redisVars, waiting, phase, config, mysqlVars, mq, reply, calls, configs>>

ExecuteUnanswered ==
    /\ down /\ waiting # <<>>
    /\ Execute(Current)
    /\ Return
    /\ UNCHANGED <<phase, down, config, mysqlVars, mq, reply, calls, faults, configs>>

\* Each call that waits gets an error, which the pcall of the dispatcher
\* returns to its caller; the next command reconnects.
AbortCalls ==
    /\ down
    /\ down' = FALSE /\ waiting' = <<>>
    /\ UNCHANGED <<redisVars, phase, config, mysqlVars, mq, reply, calls, faults, configs>>

\* The process dies and starts again.  Redis and MySQL keep what they have.
Restart ==
    /\ Fault
    /\ waiting' = <<>> /\ mq' = <<>> /\ saves' = <<>> /\ down' = FALSE
    /\ phase' = "connect_redis" /\ config' = default_config
    /\ configs' = configs \cup Unloaded
    /\ UNCHANGED <<redisVars, stored, rows, reply, calls>>
-----------------------------------------------------------------------------
\* What every first start of the service has in common.
FirstStart ==
    /\ board = NoRows /\ data = NoRows /\ cache = None
    /\ waiting = <<>> /\ phase = "connect_redis" /\ down = FALSE
    /\ config = default_config /\ saves = <<>>
    /\ rows = NoRows /\ mq = <<>> /\ reply = None

Init ==
    /\ FirstStart
    /\ stored \in Loadable /\ configs = Unloaded
    /\ calls = 0 /\ faults = 0

Start == StartUpdateDirect \/ StartUpdate \/ StartBatch \/ StartRemove
            \/ StartBatchRemove \/ StartTopN \/ StartRange \/ StartInfo \/ SetConfig

Resume ==
    \/ UpdateDirectZscore \/ UpdateZscore \/ UpdateZrem \/ UpdateZadd \/ UpdateHset
    \/ UpdateZrevrank \/ DeleteCache
    \/ BatchZscore \/ BatchHset \/ BatchZrevrank \/ BatchZrem \/ BatchZadd
    \/ RemoveZrem \/ RemoveDel \/ BatchRemoveDel \/ BatchRemoveZrem
    \/ ReadCache \/ ReadRanking \/ ReadExtras \/ StoreCache \/ InfoStep

Faulty == MysqlExecuteFails \/ SaveConfigFails \/ LoadConfigFails \/ LoseConnection
             \/ ExecuteUnanswered \/ AbortCalls \/ Restart

Initialize == ConnectRedis \/ ConnectMysql \/ LoadConfig

Next == Initialize \/ Start \/ Resume \/ CacheExpires \/ SaveConfig \/ MysqlExecute
           \/ Faulty

Spec == Init /\ [][Next]_vars

\* Redis answers, MySQL executes, the code returns.
Fairness ==
    /\ WF_vars(Resume) /\ WF_vars(AbortCalls)
    /\ WF_vars(MysqlExecute) /\ WF_vars(SaveConfig)
FairSpec == Spec /\ Fairness
-----------------------------------------------------------------------------
(***************************************************************************)
(* Types                                                                   *)
(***************************************************************************)
Scores == Int \cup {None}
Rows == [score: Int, extra: Texts]
Tables == [Players -> Rows \cup {None}]
Lists == SUBSET [rank: Nat, player: Players, score: Int]
Replies == [op: {"get_top_n", "get_range"}, first: Nat, last: Nat, list: Lists]
Statements ==
         [op: {"insert"}, rows: Tables]
    \cup [op: {"update"}, player: Players, score: Int]
    \cup [op: {"delete"}, players: SUBSET Players]

UpdateCalls ==
    [op: SingleUpdate, at: {"zscore", "zrem", "zadd", "hset", "zrevrank", "del"},
     cfg: Configs, player: Players, score: Int, extra: Extras \cup {None}]
\* Within its loop a batch has an entry in hand.
BatchCalls ==
    {c \in [op: BatchUpdate,
            at: {"b_zscore", "b_hset", "b_zrevrank", "b_zrem", "b_zadd", "b_del"},
            cfg: Configs, updates: Seq(Updates), ins: Tables, sql: Tables,
            dels: Seq(Players), clear: BOOLEAN] :
       c.at \notin {"b_zadd", "b_del"} => c.updates # <<>>}
RemoveCalls ==
    [op: {"remove_player"}, at: {"r_zrem", "r_del", "r_delcache"}, player: Players,
     removed: BOOLEAN]
BatchRemoveCalls ==
    {c \in [op: {"batch_remove_player"}, at: {"br_del", "br_zrem", "r_delcache"},
            left: Seq(Players), players: Seq(Players)] :
       c.at = "br_del" => c.left # <<>>}
ReadCalls ==
    [op: {"get_top_n", "get_range"}, at: {"get", "zrevrange", "pipeline", "setex"},
     cfg: Configs, first: Nat, last: Nat, with_extras: BOOLEAN, list: Lists]
InfoCalls ==
    [op: {"get_player_info"}, at: {"i_zscore", "i_zrevrank", "i_hget"}, player: Players]
Coroutines == UpdateCalls \cup BatchCalls \cup RemoveCalls \cup BatchRemoveCalls
                 \cup ReadCalls \cup InfoCalls

\* The type invariant.  Every task of mysql_queue has a statement to run.
TypeOK ==
    /\ board \in [Players -> Scores]
    /\ data \in [Players -> Texts \cup {None}]
    /\ cache \in Lists \cup {None}
    /\ waiting \in Seq(Coroutines)
    /\ phase \in {"connect_redis", "connect_mysql", "load", "ready"}
    /\ down \in BOOLEAN
    /\ config \in Configs
    /\ stored \in Configs \cup {None}
    /\ saves \in Seq(Configs)
    /\ rows \in Tables
    /\ mq \in Seq(Seq(Statements) \ {<<>>})
    /\ reply \in Replies \cup {None}
    /\ calls \in Nat /\ faults \in Nat
    /\ configs \subseteq Configs

(***************************************************************************)
(* Properties                                                              *)
(***************************************************************************)
Within(cfg, score) ==
    /\ cfg.open_min => score >= cfg.min_score
    /\ cfg.open_max => score <= cfg.max_score
    /\ ~cfg.allow_negative => score >= 0 \/ score = cfg.max_score
Allowed(score) == \E cfg \in configs : Within(cfg, score)

\* Every score on the board, in MySQL and in the cached list passed the limits
\* of a configuration that was in force at some time: no interleaving of
\* calls, configuration changes and faults gets a score past the checks of the
\* four update functions, which are made several commands before the write.
LimitsHeld ==
    /\ \A p \in Players : board[p] # None => Allowed(board[p])
    /\ \A p \in Players : rows[p] # None => Allowed(rows[p].score)
    /\ cache # None => \A e \in cache : Allowed(e.score)

\* Without faults, and when no call comes before CMD.init has returned, a
\* restart would not change the configuration in force once the queries of
\* set_config have run: what is merged, kept, saved and merged again on the way
\* back stays the same, and the last of several calls wins in both places.
ConfigKept ==
    ~EarlyCalls /\ faults = 0 /\ phase = "ready" /\ saves = <<>> =>
        config = IF stored = None THEN default_config ELSE Merge(stored)

\* The write-behind of scores: the writes not yet in MySQL, oldest first, are
\* those queued and those of calls between their Redis write and their fork.
PendingOf(s) ==
    CASE s.op = "insert" ->
           LET p == CHOOSE q \in Players : s.rows[q] # None
           IN  [player |-> p, score |-> s.rows[p].score]
      [] s.op = "update" -> [player |-> s.player, score |-> s.score]
      [] s.op = "delete" -> [player |-> CHOOSE q \in s.players : TRUE, score |-> None]
Queued(tasks) == [i \in 1..Len(tasks) |-> PendingOf(Head(tasks[i]))]
\* The write of a call between its Redis command and its fork, if it has one.
Unforked(c) ==
    CASE c.at = "hset" -> <<[player |-> c.player, score |-> c.score]>>
      [] c.at = "r_del" /\ c.removed -> <<[player |-> c.player, score |-> None]>>
      [] OTHER -> <<>>
Forking(queue) ==
    LET writes[i \in 0..Len(queue)] ==
          IF i = 0 THEN <<>> ELSE writes[i - 1] \o Unforked(queue[i])
    IN  writes
Pending == Queued(mq) \o Forking(waiting)[Len(waiting)]
Saved == [p \in Players |-> IF rows[p] = None THEN None ELSE rows[p].score]

WriteBehind == INSTANCE WriteBehind WITH pending <- Pending, saved <- Saved

\* Every call that writes forks its statement at its second command: those are
\* update_score, update_score_direct with extra data and remove_player, when no
\* minimum score is configured, nothing fails and CMD.init has returned.
WriteBehindAssumption ==
    /\ ~EarlyCalls /\ MaxFaults = 0
    /\ \A k \in Calls :
          /\ k.op \notin BatchUpdate \cup {"batch_remove_player"}
          /\ k.op = "update_score_direct" => k.extra # None
          /\ k.op = "set_config" => ~k.config.open_min
    /\ \A c \in Loadable : c # None => ~c.open_min

\* Then MySQL receives the writes of the board in their order, however the
\* calls overlap, so it always ends up with the board's scores.
WritesInOrder == WriteBehind!Spec

\* ... and each write reaches MySQL: board and table agree again and again.
EventuallySaved == \A p \in Players : Saved[p] # board[p] ~> Saved[p] = board[p]
=============================================================================
