-------------------------- MODULE CommonRankProofs --------------------------
(***************************************************************************)
(* Proofs about the leaderboard service, for every set of players, calls   *)
(* and stored configurations and every bound.                              *)
(***************************************************************************)
EXTENDS RankHistory, InductionLemmas, FiniteSetTheorems, SequenceTheorems, TLAPS

(***************************************************************************)
(* Lemmas about the data                                                   *)
(***************************************************************************)
\* A configuration stays one when the defaults are merged into it.
LEMMA MergeType == default_config \in Configs /\ \A c \in Configs : Merge(c) \in Configs
<1>1. default_config \in Configs
  BY DEF default_config, Configs
<1>2. ASSUME NEW c \in Configs PROVE Merge(c) \in Configs
  <2>1. ASSUME NEW a \in BOOLEAN, NEW min \in BOOLEAN, NEW max \in BOOLEAN
        PROVE  [c EXCEPT !.allow_negative = a, !.open_min = min, !.open_max = max]
                 \in Configs
    BY DEF Configs
  <2>2. (c.allow_negative \/ default_config.allow_negative) \in BOOLEAN
    OBVIOUS
  <2>3. (c.open_min \/ default_config.open_min) \in BOOLEAN
    OBVIOUS
  <2>4. (c.open_max \/ default_config.open_max) \in BOOLEAN
    OBVIOUS
  <2> QED BY <2>1, <2>2, <2>3, <2>4, Zenon DEF Merge
<1> QED BY <1>1, <1>2

\* The limits turn integers into integers.
LEMMA ClipType ==
  ASSUME NEW cfg \in Configs, NEW s \in Int
  PROVE  Clip(cfg, s) \in Int
BY DEF Clip, Configs

\* A rank is a natural number: there are finitely many players.
LEMMA RankType == \A p \in Players : Rank(p) \in Nat
<1> TAKE p \in Players
<1>1. Above(p) \subseteq Players
  BY DEF Above, OnBoard
<1>2. IsFiniteSet(Above(p))
  BY <1>1, FS_Subset, RankAssumption
<1> QED BY <1>2, FS_CardinalityType DEF Rank

\* The board as a list, and a part of a list.
LEMMA RankingType ==
  ASSUME board \in [Players -> Scores]
  PROVE  Ranking \in Lists
<1>1. \A p \in OnBoard : Entry(p) \in [rank: Nat, player: Players, score: Int]
  BY RankType DEF OnBoard, Entry, Scores
<1> QED BY <1>1 DEF Ranking, Lists

LEMMA SliceType ==
  ASSUME NEW list \in Lists, NEW first, NEW last
  PROVE  Slice(list, first, last) \in Lists
BY DEF Slice, Lists

\* What each kind of call leaves for its coroutine to work with.
LEMMA CallKinds ==
  ASSUME NEW k \in Calls
  PROVE  /\ k.op \in SingleUpdate =>
              k.player \in Players /\ k.score \in Int /\ k.extra \in Extras \cup {None}
         /\ k.op \in BatchUpdate => k.updates \in Seq(Updates) /\ k.updates # <<>>
         /\ k.op \in {"remove_player", "get_player_info"} => k.player \in Players
         /\ k.op = "batch_remove_player" => k.players \in Seq(Players) /\ k.players # <<>>
         /\ k.op = "get_top_n" =>
              k.n \in (Nat \ {0}) \cup {None} /\ k.with_extras \in BOOLEAN
         /\ k.op = "get_range" =>
              k.first \in Nat /\ k.last \in Nat /\ k.with_extras \in BOOLEAN
         /\ k.op = "set_config" => k.config \in Configs
BY RankAssumption
DEF CallSpace, UpdateRequests, BatchRequests, InfoRequests, ListRequests, RemoveRequests,
    ConfigRequests, SingleUpdate, BatchUpdate

\* The command that a call waits for tells what kind of call it is.
LEMMA Kinds ==
  ASSUME NEW c \in Coroutines
  PROVE  /\ c.at \in {"zscore", "zrem", "zadd", "hset", "zrevrank", "del"}
              => c \in UpdateCalls
         /\ c.at \in {"b_zscore", "b_hset", "b_zrevrank", "b_zrem", "b_zadd", "b_del"}
              => c \in BatchCalls
         /\ c.at \in {"r_zrem", "r_del"} => c \in RemoveCalls
         /\ c.at \in {"br_del", "br_zrem"} => c \in BatchRemoveCalls
         /\ c.at \in {"get", "zrevrange", "pipeline", "setex"} => c \in ReadCalls
         /\ c.at \in {"i_zscore", "i_zrevrank", "i_hget"} => c \in InfoCalls
BY DEF Coroutines, UpdateCalls, BatchCalls, RemoveCalls, BatchRemoveCalls, ReadCalls,
       InfoCalls

\* A table of what is written for no one.
LEMMA NoRowsType == NoRows \in Tables /\ NoRows \in [Players -> Scores]
BY DEF NoRows, Tables, Scores

(***************************************************************************)
(* Redis commands and MySQL statements keep the types of what they change  *)
(***************************************************************************)
LEMMA BoardType ==
  ASSUME board \in [Players -> Scores], NEW c \in Coroutines
  PROVE  BoardAfter(c) \in [Players -> Scores]
<1>1. CASE c.at \in {"zrem", "zadd"}
  <2>1. c.player \in Players /\ c.score \in Int
    BY <1>1, Kinds DEF UpdateCalls
  <2> QED BY <1>1, <2>1 DEF BoardAfter, Scores
<1>2. CASE c.at = "r_zrem"
  BY <1>2 DEF BoardAfter, Scores
<1>3. CASE c.at = "b_zrem"
  BY <1>3 DEF BoardAfter, Scores
<1>4. CASE c.at = "br_zrem"
  BY <1>4 DEF BoardAfter, Scores
<1>5. CASE c.at = "b_zadd"
  <2>1. c.ins \in Tables
    BY <1>5, Kinds DEF BatchCalls
  <2> QED BY <1>5, <2>1 DEF BoardAfter, Scores, Tables, Rows
<1>6. CASE c.at \notin {"zrem", "r_zrem", "b_zrem", "br_zrem", "zadd", "b_zadd"}
  BY <1>6 DEF BoardAfter
<1> QED BY <1>1, <1>2, <1>3, <1>4, <1>5, <1>6

LEMMA DataType ==
  ASSUME data \in [Players -> Texts \cup {None}], NEW c \in Coroutines
  PROVE  DataAfter(c) \in [Players -> Texts \cup {None}]
<1>1. CASE c.at = "hset"
  <2>1. ExtraStr(c.extra) \in Texts
    BY <1>1, Kinds DEF UpdateCalls, ExtraStr, Texts
  <2> QED BY <1>1, <2>1 DEF DataAfter
<1>2. CASE c.at = "b_hset"
  <2>1. c.updates \in Seq(Updates) /\ c.updates # <<>>
    BY <1>2, Kinds DEF BatchCalls
  <2>2. Head(c.updates) \in Updates
    BY <2>1
  <2>3. ExtraStr(Head(c.updates).extra) \in Texts
    BY <2>2 DEF Updates, ExtraStr, Texts
  <2> QED BY <1>2, <2>3 DEF DataAfter
<1>3. CASE c.at \in {"r_del", "br_del"}
  BY <1>3 DEF DataAfter
<1>4. CASE c.at \notin {"hset", "b_hset", "r_del", "br_del"}
  BY <1>4 DEF DataAfter
<1> QED BY <1>1, <1>2, <1>3, <1>4

LEMMA CacheType ==
  ASSUME cache \in Lists \cup {None}, NEW c \in Coroutines
  PROVE  CacheAfter(c) \in Lists \cup {None}
<1>1. c.at = "setex" => c.list \in Lists
  BY Kinds DEF ReadCalls
<1> QED BY <1>1 DEF CacheAfter

\* The three kinds of statement.
LEMMA StatementTypes ==
  /\ \A p \in Players, s \in Int, e \in Texts : Insert(p, s, e) \in Statements
  /\ \A p \in Players, s \in Int : Update(p, s) \in Statements
  /\ \A ps \in SUBSET Players : Delete(ps) \in Statements
<1>1. ASSUME NEW p \in Players, NEW s \in Int, NEW e \in Texts
      PROVE  Insert(p, s, e) \in Statements
  <2>1. [score |-> s, extra |-> e] \in Rows
    BY DEF Rows
  <2>2. [NoRows EXCEPT ![p] = [score |-> s, extra |-> e]] \in Tables
    BY <2>1, NoRowsType DEF Tables
  <2> QED BY <2>2 DEF Insert, Statements
<1> QED BY <1>1 DEF Update, Delete, Statements

LEMMA RowsType ==
  ASSUME rows \in Tables, NEW s \in Statements
  PROVE  RowsAfter(s) \in Tables
<1> SUFFICES ASSUME NEW p \in Players
             PROVE  RowsAfter(s)[p] \in Rows \cup {None}
  BY DEF RowsAfter, Tables
<1>1. rows[p] \in Rows \cup {None}
  BY DEF Tables
<1>2. CASE s.op = "insert"
  BY <1>1, <1>2 DEF RowsAfter, Statements, Tables
<1>3. CASE s.op = "update"
  BY <1>1, <1>3, RankAssumption DEF RowsAfter, Statements, Rows
<1>4. CASE s.op = "delete"
  BY <1>1, <1>4 DEF RowsAfter, Statements
<1> QED BY <1>2, <1>3, <1>4 DEF Statements

(***************************************************************************)
(* Type correctness                                                        *)
(***************************************************************************)
Tasks == Seq(Statements) \ {<<>>}

\* The call whose reply comes next.
LEMMA ReplyType ==
  ASSUME TypeOK, NEW labels, Reply(labels)
  PROVE  /\ waiting # <<>> /\ Current \in Coroutines /\ Current.at \in labels
         /\ Tail(waiting) \in Seq(Coroutines)
         /\ board' \in [Players -> Scores]
         /\ data' \in [Players -> Texts \cup {None}]
         /\ cache' \in Lists \cup {None}
<1>1. waiting # <<>> /\ Current.at \in labels /\ Execute(Current)
  BY DEF Reply
<1>2. Current \in Coroutines /\ Tail(waiting) \in Seq(Coroutines)
  BY <1>1 DEF Current, TypeOK
<1>3. board' \in [Players -> Scores]
  BY <1>1, <1>2, BoardType DEF TypeOK, Execute
<1>4. data' \in [Players -> Texts \cup {None}]
  BY <1>1, <1>2, DataType DEF TypeOK, Execute
<1>5. cache' \in Lists \cup {None}
  BY <1>1, <1>2, CacheType DEF TypeOK, Execute
<1> QED BY <1>1, <1>2, <1>3, <1>4, <1>5

\* The queues of calls and of tasks.
LEMMA QueueTypes ==
  ASSUME TypeOK
  PROVE  /\ waiting # <<>> /\ Return => waiting' \in Seq(Coroutines)
         /\ \A c \in Coroutines :
              waiting # <<>> /\ Await(c) => waiting' \in Seq(Coroutines)
         /\ \A c \in Coroutines : Begin(c) => waiting' \in Seq(Coroutines)
         /\ \A t \in Tasks : Fork(t) => mq' \in Seq(Tasks)
<1>1. waiting # <<>> => Tail(waiting) \in Seq(Coroutines)
  BY DEF TypeOK
<1>2. waiting \in Seq(Coroutines) /\ mq \in Seq(Tasks)
  BY DEF TypeOK, Tasks
<1>3. ASSUME waiting # <<>>, Return PROVE waiting' \in Seq(Coroutines)
  BY <1>1, <1>3 DEF Return
<1>4. ASSUME NEW c \in Coroutines, waiting # <<>>, Await(c)
      PROVE  waiting' \in Seq(Coroutines)
  BY <1>1, <1>4 DEF Await
<1>5. ASSUME NEW c \in Coroutines, Begin(c) PROVE waiting' \in Seq(Coroutines)
  BY <1>2, <1>5 DEF Begin
<1>6. ASSUME NEW t \in Tasks, Fork(t) PROVE mq' \in Seq(Tasks)
  BY <1>2, <1>6 DEF Fork
<1> QED BY <1>3, <1>4, <1>5, <1>6

\* A step of a call in progress, from what it does to its own state.
LEMMA ProgressType ==
  ASSUME TypeOK, NEW labels, Reply(labels), Progress,
         waiting' \in Seq(Coroutines), mq' \in Seq(Tasks),
         reply' \in Replies \cup {None}
  PROVE  TypeOK'
BY ReplyType DEF TypeOK, Progress, mysqlVars, Tasks

\* The arrival of a call.
LEMMA BeginType ==
  ASSUME TypeOK, NEW c \in Coroutines, Begin(c)
  PROVE  TypeOK'
<1>1. waiting' \in Seq(Coroutines)
  BY QueueTypes
<1>2. calls' \in Nat
  BY DEF Begin, Receive, TypeOK
<1> QED BY <1>1, <1>2 DEF TypeOK, Begin, redisVars, mysqlVars

\* update_score_direct and update_score.
LEMMA UpdateStateType ==
  ASSUME TypeOK, NEW k \in Calls, k.op \in SingleUpdate, NEW score \in Int,
         NEW label \in {"zscore", "zadd"}
  PROVE  UpdateState(k, label, score) \in Coroutines
<1>1. k.player \in Players /\ k.extra \in Extras \cup {None}
  BY CallKinds
<1>2. config \in Configs
  BY DEF TypeOK
<1> QED BY <1>1, <1>2 DEF UpdateState, UpdateCalls, Coroutines

LEMMA StartUpdateDirectType == TypeOK /\ StartUpdateDirect => TypeOK'
<1> SUFFICES ASSUME TypeOK, StartUpdateDirect PROVE TypeOK'
  OBVIOUS
<1> PICK k \in {k \in Calls : k.op = "update_score_direct"} :
      Begin(UpdateState(k, IF TooLow(config, Clip(config, k.score)) THEN "zscore"
                           ELSE "zadd", Clip(config, k.score)))
  BY DEF StartUpdateDirect
<1> DEFINE label == IF TooLow(config, Clip(config, k.score)) THEN "zscore" ELSE "zadd"
<1>1. k \in Calls /\ k.op \in SingleUpdate
  BY DEF SingleUpdate
<1>2. Clip(config, k.score) \in Int
  BY <1>1, CallKinds, ClipType DEF TypeOK
<1>3. label \in {"zscore", "zadd"}
  OBVIOUS
<1>4. UpdateState(k, label, Clip(config, k.score)) \in Coroutines
  BY <1>1, <1>2, <1>3, UpdateStateType
<1> QED BY <1>4, BeginType

LEMMA StartUpdateType == TypeOK /\ StartUpdate => TypeOK'
<1> SUFFICES ASSUME TypeOK, StartUpdate PROVE TypeOK'
  OBVIOUS
<1> PICK k \in {k \in Calls : k.op = "update_score"} :
      Begin(UpdateState(k, "zscore", k.score))
  BY DEF StartUpdate
<1>1. k \in Calls /\ k.op \in SingleUpdate
  BY DEF SingleUpdate
<1>2. UpdateState(k, "zscore", k.score) \in Coroutines
  BY <1>1, CallKinds, UpdateStateType
<1> QED BY <1>2, BeginType

\* An update goes on with another command.
LEMMA UpdateAwaitType ==
  ASSUME TypeOK, waiting # <<>>, Current \in UpdateCalls,
         NEW label \in {"zscore", "zrem", "zadd", "hset", "zrevrank", "del"}
  PROVE  AwaitAt(label) => waiting' \in Seq(Coroutines)
<1>1. [Current EXCEPT !.at = label] \in Coroutines
  BY DEF UpdateCalls, Coroutines
<1> QED BY <1>1, QueueTypes DEF AwaitAt

LEMMA UpdateEndType ==
  ASSUME TypeOK, waiting # <<>>, Current \in UpdateCalls
  PROVE  /\ LeaveOrReturn => waiting' \in Seq(Coroutines)
         /\ CheckCache => waiting' \in Seq(Coroutines)
BY UpdateAwaitType, QueueTypes DEF LeaveOrReturn, CheckCache

LEMMA UpdateScoreType ==
  ASSUME TypeOK, waiting # <<>>, Current \in UpdateCalls
  PROVE  Clip(Current.cfg, CurrentScore(Current.player) + Current.score) \in Int
<1>1. Current.cfg \in Configs /\ Current.player \in Players /\ Current.score \in Int
  BY DEF UpdateCalls
<1>2. CurrentScore(Current.player) \in Int
  BY <1>1 DEF CurrentScore, TypeOK, Scores
<1> QED BY <1>1, <1>2, ClipType

LEMMA UpdateDirectZscoreType == TypeOK /\ UpdateDirectZscore => TypeOK'
<1> SUFFICES ASSUME TypeOK, UpdateDirectZscore PROVE TypeOK'
  OBVIOUS
<1> USE DEF UpdateDirectZscore
<1>1. waiting # <<>> /\ Current \in UpdateCalls
  BY ReplyType, Kinds
<1>2. waiting' \in Seq(Coroutines)
  BY <1>1, UpdateEndType
<1>3. mq' \in Seq(Tasks) /\ reply' \in Replies \cup {None}
  BY DEF TypeOK, Tasks
<1> QED BY <1>2, <1>3, ProgressType

LEMMA UpdateZscoreType == TypeOK /\ UpdateZscore => TypeOK'
<1> SUFFICES ASSUME TypeOK, UpdateZscore PROVE TypeOK'
  OBVIOUS
<1> DEFINE score == Clip(Current.cfg, CurrentScore(Current.player) + Current.score)
<1>1. waiting # <<>> /\ Current \in UpdateCalls
  BY ReplyType, Kinds DEF UpdateZscore
<1>2. score \in Int
  BY <1>1, UpdateScoreType
<1>3. [Current EXCEPT !.at = "zadd", !.score = score] \in Coroutines
  <2> HIDE DEF score
  <2> QED BY <1>1, <1>2 DEF UpdateCalls, Coroutines
<1>4. waiting' \in Seq(Coroutines)
  <2>1. LeaveOrReturn \/ Await([Current EXCEPT !.at = "zadd", !.score = score])
    BY DEF UpdateZscore
  <2> QED BY <2>1, <1>1, <1>3, UpdateEndType, QueueTypes
<1>5. mq' \in Seq(Tasks) /\ reply' \in Replies \cup {None}
  BY DEF TypeOK, Tasks, UpdateZscore
<1> QED BY <1>4, <1>5, ProgressType DEF UpdateZscore

LEMMA UpdateZremType == TypeOK /\ UpdateZrem => TypeOK'
<1> SUFFICES ASSUME TypeOK, UpdateZrem PROVE TypeOK'
  OBVIOUS
<1> USE DEF UpdateZrem
<1>1. waiting # <<>> /\ Current \in UpdateCalls
  BY ReplyType, Kinds
<1>2. Current.player \in Players
  BY <1>1 DEF UpdateCalls
<1>3. <<Delete({Current.player})>> \in Tasks
  BY <1>2, StatementTypes DEF Tasks
<1>4. waiting' \in Seq(Coroutines) /\ mq' \in Seq(Tasks)
  BY <1>1, <1>3, QueueTypes
<1>5. reply' \in Replies \cup {None}
  BY DEF TypeOK
<1> QED BY <1>4, <1>5, ProgressType

LEMMA UpdateZaddType == TypeOK /\ UpdateZadd => TypeOK'
<1> SUFFICES ASSUME TypeOK, UpdateZadd PROVE TypeOK'
  OBVIOUS
<1> USE DEF UpdateZadd
<1>1. waiting # <<>> /\ Current \in UpdateCalls
  BY ReplyType, Kinds
<1>2. Current.player \in Players /\ Current.score \in Int
  BY <1>1 DEF UpdateCalls
<1>3. <<Update(Current.player, Current.score)>> \in Tasks
  BY <1>2, StatementTypes DEF Tasks
<1>4. waiting' \in Seq(Coroutines) /\ mq' \in Seq(Tasks)
  BY <1>1, <1>3, QueueTypes, UpdateEndType, UpdateAwaitType DEF TypeOK, Tasks
<1>5. reply' \in Replies \cup {None}
  BY DEF TypeOK
<1> QED BY <1>4, <1>5, ProgressType

LEMMA UpdateHsetType == TypeOK /\ UpdateHset => TypeOK'
<1> SUFFICES ASSUME TypeOK, UpdateHset PROVE TypeOK'
  OBVIOUS
<1> USE DEF UpdateHset
<1>1. waiting # <<>> /\ Current \in UpdateCalls
  BY ReplyType, Kinds
<1>2. /\ Current.player \in Players /\ Current.score \in Int
      /\ ExtraStr(Current.extra) \in Texts
  BY <1>1 DEF UpdateCalls, ExtraStr, Texts
<1>3. <<Insert(Current.player, Current.score, ExtraStr(Current.extra))>> \in Tasks
  BY <1>2, StatementTypes DEF Tasks
<1>4. waiting' \in Seq(Coroutines) /\ mq' \in Seq(Tasks)
  BY <1>1, <1>3, QueueTypes, UpdateEndType
<1>5. reply' \in Replies \cup {None}
  BY DEF TypeOK
<1> QED BY <1>4, <1>5, ProgressType

LEMMA UpdateZrevrankType == TypeOK /\ UpdateZrevrank => TypeOK'
<1> SUFFICES ASSUME TypeOK, UpdateZrevrank PROVE TypeOK'
  OBVIOUS
<1> USE DEF UpdateZrevrank
<1>1. waiting # <<>> /\ Current \in UpdateCalls
  BY ReplyType, Kinds
<1>2. waiting' \in Seq(Coroutines)
  BY <1>1, UpdateAwaitType, QueueTypes
<1>3. mq' \in Seq(Tasks) /\ reply' \in Replies \cup {None}
  BY DEF TypeOK, Tasks
<1> QED BY <1>2, <1>3, ProgressType

LEMMA DeleteCacheType == TypeOK /\ DeleteCache => TypeOK'
<1> SUFFICES ASSUME TypeOK, DeleteCache PROVE TypeOK'
  OBVIOUS
<1> USE DEF DeleteCache
<1>1. waiting' \in Seq(Coroutines)
  BY ReplyType, QueueTypes
<1>2. mq' \in Seq(Tasks) /\ reply' \in Replies \cup {None}
  BY DEF TypeOK, Tasks
<1> QED BY <1>1, <1>2, ProgressType

\* batch_update_score_direct and batch_update_score.  Between two entries the
\* state of a batch need not be that of a call that waits for Redis.
BatchStates ==
    [op: BatchUpdate,
     at: {"start", "end", "b_zscore", "b_hset", "b_zrevrank", "b_zrem", "b_zadd", "b_del"},
     cfg: Configs, updates: Seq(Updates), ins: Tables, sql: Tables, dels: Seq(Players),
     clear: BOOLEAN]

LEMMA BatchCallsAreStates == BatchCalls \subseteq BatchStates
BY DEF BatchCalls, BatchStates

LEMMA HeadType ==
  ASSUME NEW c \in BatchStates, c.updates # <<>>
  PROVE  /\ Head(c.updates).player \in Players /\ Head(c.updates).score \in Int
         /\ ExtraStr(Head(c.updates).extra) \in Texts
<1>1. Head(c.updates) \in Updates
  BY DEF BatchStates
<1> QED BY <1>1 DEF Updates, ExtraStr, Texts

LEMMA AcceptType ==
  ASSUME NEW c \in BatchStates, c.updates # <<>>, NEW score \in Int
  PROVE  Accept(c, score) \in BatchCalls
<1> DEFINE u == Head(c.updates)
           row == [score |-> score, extra |-> ExtraStr(u.extra)]
<1>1. u.player \in Players /\ row \in Rows
  BY HeadType DEF Rows
<1>2. [c.ins EXCEPT ![u.player] = row] \in Tables
  <2> HIDE DEF row, u
  <2>1. c.ins \in Tables
    BY DEF BatchStates
  <2> QED BY <1>1, <2>1 DEF Tables
<1>3. Accept(c, score) =
        [c EXCEPT !.at = "b_hset", !.ins = [c.ins EXCEPT ![u.player] = row]]
  BY DEF Accept, BatchStates
<1> HIDE DEF u, row
<1> QED BY <1>2, <1>3 DEF BatchStates, BatchCalls

LEMMA ExpelType ==
  ASSUME NEW c \in BatchStates, c.updates # <<>>
  PROVE  Expel(c) \in BatchCalls
BY DEF Expel, BatchStates, BatchCalls

\* What is noted for MySQL when the reply has come.
LEMMA NoteRowType ==
  ASSUME NEW c \in BatchStates, c.updates # <<>>, NEW d, d = NoteRow(c)
  PROVE  /\ d \in BatchStates /\ d.op = c.op /\ d.at = c.at /\ d.cfg = c.cfg
         /\ d.updates = c.updates /\ d.ins = c.ins /\ d.dels = c.dels
         /\ \A p \in Players :
              d.sql[p] = IF HasMysql /\ p = Head(c.updates).player THEN c.ins[p] ELSE c.sql[p]
         /\ ~HasMysql => d.sql = c.sql
<1>1. PICK p \in Players : p = Head(c.updates).player
  BY HeadType
<1>2. PICK sql : sql = IF HasMysql THEN [c.sql EXCEPT ![p] = c.ins[p]] ELSE c.sql
  OBVIOUS
<1>3. c.ins \in Tables /\ c.sql \in Tables
  BY DEF BatchStates
<1>4. /\ sql \in Tables /\ (~HasMysql => sql = c.sql)
      /\ \A q \in Players : sql[q] = IF HasMysql /\ q = p THEN c.ins[q] ELSE c.sql[q]
  BY <1>2, <1>3 DEF Tables
<1>5. d = [c EXCEPT !.sql = sql]
  BY <1>1, <1>2 DEF NoteRow, BatchStates
<1>6. /\ d \in BatchStates /\ d.op = c.op /\ d.at = c.at /\ d.cfg = c.cfg
      /\ d.updates = c.updates /\ d.ins = c.ins /\ d.dels = c.dels /\ d.sql = sql
  <2>1. sql \in Tables
    BY <1>4
  <2> QED BY <1>5, <2>1 DEF BatchStates
<1>7. \A q \in Players :
        d.sql[q] = IF HasMysql /\ q = Head(c.updates).player THEN c.ins[q] ELSE c.sql[q]
  BY <1>1, <1>4, <1>6
<1>8. ~HasMysql => d.sql = c.sql
  BY <1>4, <1>6
<1> QED BY <1>6, <1>7, <1>8

LEMMA NoteRemovalType ==
  ASSUME NEW c \in BatchStates, c.updates # <<>>, NEW d, d = NoteRemoval(c)
  PROVE  /\ d \in BatchStates /\ d.op = c.op /\ d.at = c.at /\ d.cfg = c.cfg
         /\ d.updates = c.updates /\ d.ins = c.ins /\ d.sql = c.sql
         /\ d.dels = IF HasMysql THEN Append(c.dels, Head(c.updates).player) ELSE c.dels
<1>1. PICK dels : dels = IF HasMysql THEN Append(c.dels, Head(c.updates).player) ELSE c.dels
  OBVIOUS
<1>2. dels \in Seq(Players)
  BY <1>1, HeadType DEF BatchStates
<1>3. d = [c EXCEPT !.dels = dels]
  BY <1>1 DEF NoteRemoval, BatchStates
<1> QED BY <1>1, <1>2, <1>3 DEF BatchStates

LEMMA DropEntryType ==
  ASSUME NEW c \in BatchStates, c.updates # <<>>
  PROVE  DropEntry(c) \in BatchStates
<1>1. Tail(c.updates) \in Seq(Updates)
  BY DEF BatchStates
<1>2. DropEntry(c) = [c EXCEPT !.updates = Tail(c.updates)]
  BY DEF DropEntry, BatchStates
<1> QED BY <1>1, <1>2 DEF BatchStates

LEMMA NextEntryType ==
  ASSUME NEW c \in BatchStates
  PROVE  NextEntry(c).at # "end" => NextEntry(c) \in BatchCalls
<1>1. CASE c.updates = <<>>
  BY <1>1 DEF NextEntry, BatchStates, BatchCalls
<1>2. CASE c.updates # <<>> /\ c.op = "batch_update_score"
  BY <1>2 DEF NextEntry, BatchStates, BatchCalls
<1>3. CASE c.updates # <<>> /\ c.op # "batch_update_score"
  <2>1. Clip(c.cfg, Head(c.updates).score) \in Int
    BY <1>3, HeadType, ClipType DEF BatchStates
  <2>2. \/ NextEntry(c) = Expel(c)
        \/ NextEntry(c) = Accept(c, Clip(c.cfg, Head(c.updates).score))
    BY <1>3 DEF NextEntry
  <2> QED BY <1>3, <2>1, <2>2, AcceptType, ExpelType
<1> QED BY <1>1, <1>2, <1>3

LEMMA BatchTaskType ==
  ASSUME NEW c \in BatchStates
  PROVE  BatchTask(c) \in Seq(Statements)
<1> DEFINE first == IF c.sql = NoRows THEN <<>> ELSE <<[op |-> "insert", rows |-> c.sql]>>
           rest == [i \in DOMAIN c.dels |-> Delete({c.dels[i]})]
<1>1. first \in Seq(Statements)
  <2>1. [op |-> "insert", rows |-> c.sql] \in Statements
    BY DEF BatchStates, Statements
  <2> QED BY <2>1
<1>2. c.dels \in Seq(Players)
  BY DEF BatchStates
<1>3. rest \in Seq(Statements)
  <2>1. Len(c.dels) \in Nat /\ DOMAIN c.dels = 1..Len(c.dels)
    BY <1>2
  <2>2. \A i \in DOMAIN c.dels : Delete({c.dels[i]}) \in Statements
    BY <1>2, StatementTypes
  <2> QED BY <2>1, <2>2
<1>4. BatchTask(c) = first \o rest
  BY DEF BatchTask
<1> QED BY <1>1, <1>3, <1>4

LEMMA ForkBatchType ==
  ASSUME TypeOK, NEW c \in BatchStates, ForkBatch(c)
  PROVE  mq' \in Seq(Tasks)
<1>1. mq \in Seq(Tasks)
  BY DEF TypeOK, Tasks
<1>2. BatchTask(c) # <<>> => BatchTask(c) \in Tasks
  BY BatchTaskType DEF Tasks
<1> QED BY <1>1, <1>2, QueueTypes DEF ForkBatch

LEMMA BatchGoOnType ==
  ASSUME TypeOK, waiting # <<>>, NEW c \in BatchStates, BatchGoOn(c)
  PROVE  waiting' \in Seq(Coroutines) /\ mq' \in Seq(Tasks)
<1>1. CASE NextEntry(c).at # "end"
  <2>1. NextEntry(c) \in Coroutines
    BY <1>1, NextEntryType DEF Coroutines
  <2> QED BY <1>1, <2>1, QueueTypes DEF BatchGoOn, TypeOK, Tasks
<1>2. CASE NextEntry(c).at = "end"
  BY <1>2, ForkBatchType, QueueTypes DEF BatchGoOn
<1> QED BY <1>1, <1>2

LEMMA BatchAwaitType ==
  ASSUME TypeOK, waiting # <<>>, NEW c \in BatchCalls, Await(c)
  PROVE  waiting' \in Seq(Coroutines)
BY QueueTypes DEF Coroutines

LEMMA StartBatchType == TypeOK /\ StartBatch => TypeOK'
<1> SUFFICES ASSUME TypeOK, StartBatch PROVE TypeOK'
  OBVIOUS
<1> PICK k \in {k \in Calls : k.op \in BatchUpdate} :
      Begin(NextEntry([op |-> k.op, at |-> "start", cfg |-> config,
                       updates |-> k.updates, ins |-> NoRows, sql |-> NoRows,
                       dels |-> <<>>, clear |-> FALSE]))
  BY DEF StartBatch
<1> DEFINE c == [op |-> k.op, at |-> "start", cfg |-> config, updates |-> k.updates,
                 ins |-> NoRows, sql |-> NoRows, dels |-> <<>>, clear |-> FALSE]
<1>1. k.updates \in Seq(Updates) /\ k.updates # <<>>
  BY CallKinds
<1>2. c \in BatchStates
  BY <1>1, NoRowsType DEF BatchStates, TypeOK
<1>3. NextEntry(c).at # "end"
  BY <1>1 DEF NextEntry, Accept, Expel
<1>4. NextEntry(c) \in Coroutines
  BY <1>2, <1>3, NextEntryType DEF Coroutines
<1> QED BY <1>4, BeginType

LEMMA BatchZscoreType == TypeOK /\ BatchZscore => TypeOK'
<1> SUFFICES ASSUME TypeOK, BatchZscore PROVE TypeOK'
  OBVIOUS
<1> DEFINE u == Head(Current.updates)
           score == Clip(Current.cfg, CurrentScore(u.player) + u.score)
<1>1. waiting # <<>> /\ Current \in BatchStates /\ Current.updates # <<>>
  BY ReplyType, Kinds, BatchCallsAreStates DEF BatchZscore, BatchCalls
<1>2. score \in Int
  <2>1. u.player \in Players /\ u.score \in Int
    BY <1>1, HeadType
  <2>2. CurrentScore(u.player) \in Int
    BY <2>1 DEF CurrentScore, TypeOK, Scores
  <2>3. Current.cfg \in Configs /\ CurrentScore(u.player) + u.score \in Int
    BY <1>1, <2>1, <2>2 DEF BatchStates
  <2> QED BY <2>3, ClipType
<1>3. \/ Await(Accept(Current, score)) /\ UNCHANGED mq
      \/ Await(Expel(Current)) /\ UNCHANGED mq
      \/ BatchGoOn(DropEntry(Current))
  BY DEF BatchZscore
<1> HIDE DEF score
<1>4. waiting' \in Seq(Coroutines) /\ mq' \in Seq(Tasks)
  <2>1. CASE Await(Accept(Current, score)) /\ UNCHANGED mq
    BY <1>1, <1>2, <2>1, AcceptType, BatchAwaitType DEF TypeOK, Tasks
  <2>2. CASE Await(Expel(Current)) /\ UNCHANGED mq
    BY <1>1, <2>2, ExpelType, BatchAwaitType DEF TypeOK, Tasks
  <2>3. CASE BatchGoOn(DropEntry(Current))
    BY <1>1, <2>3, DropEntryType, BatchGoOnType
  <2> QED BY <1>3, <2>1, <2>2, <2>3
<1>5. reply' \in Replies \cup {None}
  BY DEF TypeOK, BatchZscore
<1> QED BY <1>4, <1>5, ProgressType DEF BatchZscore

LEMMA BatchHsetType == TypeOK /\ BatchHset => TypeOK'
<1> SUFFICES ASSUME TypeOK, BatchHset PROVE TypeOK'
  OBVIOUS
<1> USE DEF BatchHset
<1>1. /\ waiting # <<>> /\ Current \in BatchCalls /\ Current \in BatchStates
      /\ Current.updates # <<>>
  BY ReplyType, Kinds, BatchCallsAreStates DEF BatchCalls
<1>2. PICK c : c = NoteRow(Current)
  OBVIOUS
<1>5. c \in BatchStates /\ c.updates # <<>>
  BY <1>1, <1>2, NoteRowType
<1>6. [c EXCEPT !.at = "b_zrevrank"] \in BatchCalls
  BY <1>5 DEF BatchStates, BatchCalls
<1>3. waiting' \in Seq(Coroutines) /\ mq' \in Seq(Tasks)
  <2>1. CASE KeepsCache(Current.cfg)
    BY <1>1, <1>2, <1>6, <2>1, BatchAwaitType DEF TypeOK, Tasks
  <2>2. CASE ~KeepsCache(Current.cfg)
    BY <1>1, <1>2, <1>5, <2>2, DropEntryType, BatchGoOnType
  <2> QED BY <2>1, <2>2
<1>4. reply' \in Replies \cup {None}
  BY DEF TypeOK
<1> QED BY <1>3, <1>4, ProgressType

LEMMA BatchZrevrankType == TypeOK /\ BatchZrevrank => TypeOK'
<1> SUFFICES ASSUME TypeOK, BatchZrevrank PROVE TypeOK'
  OBVIOUS
<1> DEFINE hit == InCachedPart(Current.cfg, Head(Current.updates).player)
           c == [DropEntry(Current) EXCEPT !.clear = DropEntry(Current).clear \/ hit]
<1>1. waiting # <<>> /\ Current \in BatchStates /\ Current.updates # <<>>
  BY ReplyType, Kinds, BatchCallsAreStates DEF BatchZrevrank, BatchCalls
<1>2. c \in BatchStates
  <2> DEFINE clear == DropEntry(Current).clear \/ hit
  <2>1. DropEntry(Current) \in BatchStates
    BY <1>1, DropEntryType
  <2>2. clear \in BOOLEAN
    OBVIOUS
  <2> HIDE DEF clear
  <2>3. [DropEntry(Current) EXCEPT !.clear = clear] \in BatchStates
    BY <2>1, <2>2 DEF BatchStates
  <2> QED BY <2>3, Zenon DEF clear
<1>3. waiting' \in Seq(Coroutines) /\ mq' \in Seq(Tasks)
  BY <1>1, <1>2, BatchGoOnType DEF BatchZrevrank
<1>4. reply' \in Replies \cup {None}
  BY DEF TypeOK, BatchZrevrank
<1> QED BY <1>3, <1>4, ProgressType DEF BatchZrevrank

LEMMA BatchZremType == TypeOK /\ BatchZrem => TypeOK'
<1> SUFFICES ASSUME TypeOK, BatchZrem PROVE TypeOK'
  OBVIOUS
<1> USE DEF BatchZrem
<1>1. waiting # <<>> /\ Current \in BatchStates /\ Current.updates # <<>>
  BY ReplyType, Kinds, BatchCallsAreStates DEF BatchCalls
<1>4. PICK c : c = NoteRemoval(Current)
  OBVIOUS
<1>5. c \in BatchStates /\ c.updates # <<>>
  BY <1>1, <1>4, NoteRemovalType
<1>2. waiting' \in Seq(Coroutines) /\ mq' \in Seq(Tasks)
  BY <1>1, <1>4, <1>5, DropEntryType, BatchGoOnType
<1>3. reply' \in Replies \cup {None}
  BY DEF TypeOK
<1> QED BY <1>2, <1>3, ProgressType

LEMMA BatchZaddType == TypeOK /\ BatchZadd => TypeOK'
<1> SUFFICES ASSUME TypeOK, BatchZadd PROVE TypeOK'
  OBVIOUS
<1> USE DEF BatchZadd
<1>1. waiting # <<>> /\ Current \in BatchCalls /\ Current \in BatchStates
  BY ReplyType, Kinds, BatchCallsAreStates
<1>2. [Current EXCEPT !.at = "b_del"] \in BatchCalls
  BY <1>1 DEF BatchCalls
<1>3. waiting' \in Seq(Coroutines)
  BY <1>1, <1>2, BatchAwaitType, QueueTypes DEF AwaitAt
<1>4. mq' \in Seq(Tasks) /\ reply' \in Replies \cup {None}
  BY <1>1, ForkBatchType DEF TypeOK
<1> QED BY <1>3, <1>4, ProgressType

\* remove_player and batch_remove_player.
LEMMA StartRemoveType == TypeOK /\ StartRemove => TypeOK'
<1> SUFFICES ASSUME TypeOK, StartRemove PROVE TypeOK'
  OBVIOUS
<1> PICK k \in {k \in Calls : k.op = "remove_player"} :
      Begin([op |-> k.op, at |-> "r_zrem", player |-> k.player, removed |-> FALSE])
  BY DEF StartRemove
<1>1. [op |-> k.op, at |-> "r_zrem", player |-> k.player, removed |-> FALSE] \in Coroutines
  BY CallKinds DEF RemoveCalls, Coroutines
<1> QED BY <1>1, BeginType

LEMMA RemoveZremType == TypeOK /\ RemoveZrem => TypeOK'
<1> SUFFICES ASSUME TypeOK, RemoveZrem PROVE TypeOK'
  OBVIOUS
<1> DEFINE removed == board[Current.player] # None
<1>1. waiting # <<>> /\ Current \in RemoveCalls
  BY ReplyType, Kinds DEF RemoveZrem
<1>2. waiting' \in Seq(Coroutines)
  <2>1. removed \in BOOLEAN
    OBVIOUS
  <2>2. Await([Current EXCEPT !.at = "r_del", !.removed = removed])
    BY DEF RemoveZrem
  <2> HIDE DEF removed
  <2>3. [Current EXCEPT !.at = "r_del", !.removed = removed] \in Coroutines
    BY <1>1, <2>1 DEF RemoveCalls, Coroutines
  <2> QED BY <1>1, <2>2, <2>3, QueueTypes
<1>3. mq' \in Seq(Tasks) /\ reply' \in Replies \cup {None}
  BY DEF TypeOK, Tasks, RemoveZrem
<1> QED BY <1>2, <1>3, ProgressType DEF RemoveZrem

LEMMA RemoveDelType == TypeOK /\ RemoveDel => TypeOK'
<1> SUFFICES ASSUME TypeOK, RemoveDel PROVE TypeOK'
  OBVIOUS
<1> USE DEF RemoveDel
<1>1. waiting # <<>> /\ Current \in RemoveCalls
  BY ReplyType, Kinds
<1>2. <<Delete({Current.player})>> \in Tasks
  BY <1>1, StatementTypes DEF RemoveCalls, Tasks
<1>3. [Current EXCEPT !.at = "r_delcache"] \in Coroutines
  BY <1>1 DEF RemoveCalls, Coroutines
<1>4. waiting' \in Seq(Coroutines) /\ mq' \in Seq(Tasks)
  BY <1>1, <1>2, <1>3, QueueTypes DEF AwaitAt, TypeOK, Tasks
<1>5. reply' \in Replies \cup {None}
  BY DEF TypeOK
<1> QED BY <1>4, <1>5, ProgressType

LEMMA StartBatchRemoveType == TypeOK /\ StartBatchRemove => TypeOK'
<1> SUFFICES ASSUME TypeOK, StartBatchRemove PROVE TypeOK'
  OBVIOUS
<1> PICK k \in {k \in Calls : k.op = "batch_remove_player"} :
      Begin([op |-> k.op, at |-> "br_del", left |-> k.players, players |-> k.players])
  BY DEF StartBatchRemove
<1>1. [op |-> k.op, at |-> "br_del", left |-> k.players, players |-> k.players]
        \in Coroutines
  BY CallKinds DEF BatchRemoveCalls, Coroutines
<1> QED BY <1>1, BeginType

\* What is left of a sequence of two or more.
LEMMA TailType ==
  ASSUME NEW S, NEW s \in Seq(S), s # <<>>
  PROVE  Tail(s) \in Seq(S) /\ (Len(s) > 1 => Tail(s) # <<>>)
<1>1. Tail(s) \in Seq(S)
  OBVIOUS
<1>2. ASSUME Len(s) > 1 PROVE Len(Tail(s)) > 0
  BY <1>2
<1>3. ASSUME Len(s) > 1, Tail(s) = <<>> PROVE FALSE
  <2>1. Len(<<>>) > 0
    BY <1>2, <1>3
  <2> QED BY <2>1
<1> QED BY <1>1, <1>3

LEMMA BatchRemoveDelType == TypeOK /\ BatchRemoveDel => TypeOK'
<1> SUFFICES ASSUME TypeOK, BatchRemoveDel PROVE TypeOK'
  OBVIOUS
<1> DEFINE label == IF Len(Current.left) > 1 THEN "br_del" ELSE "br_zrem"
           left == Tail(Current.left)
<1>1. waiting # <<>> /\ Current \in BatchRemoveCalls /\ Current.at = "br_del"
  BY ReplyType, Kinds DEF BatchRemoveDel
<1>2. left \in Seq(Players) /\ (label = "br_del" => left # <<>>)
  <2>1. Current.left \in Seq(Players) /\ Current.left # <<>>
    BY <1>1 DEF BatchRemoveCalls
  <2> QED BY <2>1, TailType
<1>3. label \in {"br_del", "br_zrem"}
  OBVIOUS
<1>4. Await([Current EXCEPT !.left = left, !.at = label])
  BY DEF BatchRemoveDel
<1> HIDE DEF label, left
<1>5. [Current EXCEPT !.left = left, !.at = label] \in BatchRemoveCalls
  BY <1>1, <1>2, <1>3 DEF BatchRemoveCalls
<1>6. waiting' \in Seq(Coroutines)
  BY <1>1, <1>4, <1>5, QueueTypes DEF Coroutines
<1>7. mq' \in Seq(Tasks) /\ reply' \in Replies \cup {None}
  BY DEF TypeOK, Tasks, BatchRemoveDel
<1> QED BY <1>6, <1>7, ProgressType DEF BatchRemoveDel

LEMMA BatchRemoveZremType == TypeOK /\ BatchRemoveZrem => TypeOK'
<1> SUFFICES ASSUME TypeOK, BatchRemoveZrem PROVE TypeOK'
  OBVIOUS
<1> DEFINE named == {Current.players[i] : i \in DOMAIN Current.players}
<1>1. waiting # <<>> /\ Current \in BatchRemoveCalls
  BY ReplyType, Kinds DEF BatchRemoveZrem
<1>2. <<Delete(named)>> \in Tasks
  <2>1. named \subseteq Players
    BY <1>1 DEF BatchRemoveCalls
  <2> QED BY <2>1, StatementTypes DEF Tasks
<1>3. [Current EXCEPT !.at = "r_delcache"] \in Coroutines
  BY <1>1 DEF BatchRemoveCalls, Coroutines
<1>4. /\ Fork(<<Delete(named)>>) \/ UNCHANGED mq
      /\ Await([Current EXCEPT !.at = "r_delcache"]) \/ Return
  BY DEF BatchRemoveZrem, AwaitAt
<1>5. waiting' \in Seq(Coroutines) /\ mq' \in Seq(Tasks)
  <2> HIDE DEF named
  <2> QED BY <1>1, <1>2, <1>3, <1>4, QueueTypes DEF TypeOK, Tasks
<1>6. reply' \in Replies \cup {None}
  BY DEF TypeOK, BatchRemoveZrem
<1> QED BY <1>5, <1>6, ProgressType DEF BatchRemoveZrem

\* get_top_n, get_range and get_player_info.
LEMMA ReadStateType ==
  ASSUME TypeOK, NEW k \in Calls, k.op \in {"get_top_n", "get_range"},
         NEW first \in Nat, NEW last \in Nat
  PROVE  ReadState(k, first, last) \in Coroutines
<1>1. k.with_extras \in BOOLEAN
  BY CallKinds
<1>2. config \in Configs /\ {} \in Lists
  BY DEF TypeOK, Lists
<1> QED BY <1>1, <1>2 DEF ReadState, ReadCalls, Coroutines

LEMMA StartTopNType == TypeOK /\ StartTopN => TypeOK'
<1> SUFFICES ASSUME TypeOK, StartTopN PROVE TypeOK'
  OBVIOUS
<1> PICK k \in {k \in Calls : k.op = "get_top_n"} :
      Begin(ReadState(k, 1, IF k.n # None THEN k.n
                            ELSE IF config.cache_num > 0 THEN config.cache_num ELSE 100))
  BY DEF StartTopN
<1> DEFINE n == IF k.n # None THEN k.n
                ELSE IF config.cache_num > 0 THEN config.cache_num ELSE 100
<1>1. n \in Nat
  BY CallKinds DEF TypeOK, Configs
<1> HIDE DEF n
<1>2. ReadState(k, 1, n) \in Coroutines
  BY <1>1, ReadStateType
<1> QED BY <1>2, BeginType DEF n

LEMMA StartRangeType == TypeOK /\ StartRange => TypeOK'
<1> SUFFICES ASSUME TypeOK, StartRange PROVE TypeOK'
  OBVIOUS
<1> PICK k \in {k \in Calls : k.op = "get_range" /\ k.first <= k.last} :
      Begin(ReadState(k, k.first, k.last))
  BY DEF StartRange
<1>1. ReadState(k, k.first, k.last) \in Coroutines
  BY CallKinds, ReadStateType
<1> QED BY <1>1, BeginType

\* A reader gets a list.
LEMMA AnswerType ==
  ASSUME Current \in ReadCalls, NEW list \in Lists, Answer(list)
  PROVE  reply' \in Replies \cup {None}
BY DEF Answer, ReadCalls, Replies

LEMMA ReadCacheType == TypeOK /\ ReadCache => TypeOK'
<1> SUFFICES ASSUME TypeOK, ReadCache PROVE TypeOK'
  OBVIOUS
<1> USE DEF ReadCache
<1>1. waiting # <<>> /\ Current \in ReadCalls
  BY ReplyType, Kinds
<1>2. [Current EXCEPT !.at = "zrevrange"] \in Coroutines
  BY <1>1 DEF ReadCalls, Coroutines
<1>3. cache # None => Slice(cache, Current.first, Current.last) \in Lists
  BY SliceType DEF TypeOK
<1>4. waiting' \in Seq(Coroutines) /\ mq' \in Seq(Tasks)
  BY <1>1, <1>2, QueueTypes DEF AwaitAt, TypeOK, Tasks
<1>5. reply' \in Replies \cup {None}
  BY <1>1, <1>3, AnswerType DEF TypeOK
<1> QED BY <1>4, <1>5, ProgressType

LEMMA StoreOrAnswerType ==
  ASSUME TypeOK, waiting # <<>>, Current \in ReadCalls, NEW list \in Lists,
         StoreOrAnswer([Current EXCEPT !.list = list])
  PROVE  waiting' \in Seq(Coroutines) /\ reply' \in Replies \cup {None}
<1> DEFINE c == [Current EXCEPT !.list = list]
<1>1. c \in ReadCalls /\ c.list = list
  BY DEF ReadCalls
<1>2. [c EXCEPT !.at = "setex"] \in Coroutines
  <2> HIDE DEF c
  <2> QED BY <1>1 DEF ReadCalls, Coroutines
<1>3. \/ Await([c EXCEPT !.at = "setex"]) /\ UNCHANGED reply
      \/ Return /\ Answer(list)
  BY <1>1 DEF StoreOrAnswer
<1> HIDE DEF c
<1>4. CASE Await([c EXCEPT !.at = "setex"]) /\ UNCHANGED reply
  BY <1>2, <1>4, QueueTypes DEF TypeOK
<1>5. CASE Return /\ Answer(list)
  BY <1>5, QueueTypes, AnswerType
<1> QED BY <1>3, <1>4, <1>5

LEMMA ReadRankingType == TypeOK /\ ReadRanking => TypeOK'
<1> SUFFICES ASSUME TypeOK, ReadRanking PROVE TypeOK'
  OBVIOUS
<1> DEFINE list == Slice(Ranking, Current.first, Current.last)
           c == [Current EXCEPT !.list = list]
<1>1. waiting # <<>> /\ Current \in ReadCalls
  BY ReplyType, Kinds DEF ReadRanking
<1>2. list \in Lists
  BY RankingType, SliceType DEF TypeOK
<1>3. \/ Await([c EXCEPT !.at = "pipeline"]) /\ UNCHANGED reply
      \/ StoreOrAnswer(c)
  BY DEF ReadRanking
<1> HIDE DEF list
<1>4. [c EXCEPT !.at = "pipeline"] \in Coroutines
  BY <1>1, <1>2 DEF ReadCalls, Coroutines
<1>5. waiting' \in Seq(Coroutines) /\ reply' \in Replies \cup {None}
  <2>1. CASE Await([c EXCEPT !.at = "pipeline"]) /\ UNCHANGED reply
    BY <1>1, <1>4, <2>1, QueueTypes DEF TypeOK
  <2>2. CASE StoreOrAnswer(c)
    BY <1>1, <1>2, <2>2, StoreOrAnswerType
  <2> QED BY <1>3, <2>1, <2>2
<1>6. mq' \in Seq(Tasks)
  BY DEF TypeOK, Tasks, ReadRanking
<1> QED BY <1>5, <1>6, ProgressType DEF ReadRanking

LEMMA ReadExtrasType == TypeOK /\ ReadExtras => TypeOK'
<1> SUFFICES ASSUME TypeOK, ReadExtras PROVE TypeOK'
  OBVIOUS
<1> USE DEF ReadExtras
<1>1. waiting # <<>> /\ Current \in ReadCalls
  BY ReplyType, Kinds
<1>2. Current.list \in Lists /\ Current = [Current EXCEPT !.list = Current.list]
  BY <1>1 DEF ReadCalls
<1>3. waiting' \in Seq(Coroutines) /\ reply' \in Replies \cup {None}
  BY <1>1, <1>2, StoreOrAnswerType
<1>4. mq' \in Seq(Tasks)
  BY DEF TypeOK, Tasks
<1> QED BY <1>3, <1>4, ProgressType

LEMMA StoreCacheType == TypeOK /\ StoreCache => TypeOK'
<1> SUFFICES ASSUME TypeOK, StoreCache PROVE TypeOK'
  OBVIOUS
<1> USE DEF StoreCache
<1>1. waiting # <<>> /\ Current \in ReadCalls /\ Current.list \in Lists
  BY ReplyType, Kinds DEF ReadCalls
<1>2. waiting' \in Seq(Coroutines) /\ reply' \in Replies \cup {None}
  BY <1>1, QueueTypes, AnswerType
<1>3. mq' \in Seq(Tasks)
  BY DEF TypeOK, Tasks
<1> QED BY <1>2, <1>3, ProgressType

LEMMA StartInfoType == TypeOK /\ StartInfo => TypeOK'
<1> SUFFICES ASSUME TypeOK, StartInfo PROVE TypeOK'
  OBVIOUS
<1> PICK k \in {k \in Calls : k.op = "get_player_info"} :
      Begin([op |-> k.op, at |-> "i_zscore", player |-> k.player])
  BY DEF StartInfo
<1>1. [op |-> k.op, at |-> "i_zscore", player |-> k.player] \in Coroutines
  BY CallKinds DEF InfoCalls, Coroutines
<1> QED BY <1>1, BeginType

LEMMA InfoStepType == TypeOK /\ InfoStep => TypeOK'
<1> SUFFICES ASSUME TypeOK, InfoStep PROVE TypeOK'
  OBVIOUS
<1> USE DEF InfoStep
<1>1. waiting # <<>> /\ Current \in InfoCalls
  BY ReplyType, Kinds
<1>2. \A label \in {"i_zrevrank", "i_hget"} : [Current EXCEPT !.at = label] \in Coroutines
  BY <1>1 DEF InfoCalls, Coroutines
<1>3. waiting' \in Seq(Coroutines)
  BY <1>1, <1>2, QueueTypes DEF AwaitAt
<1>4. mq' \in Seq(Tasks) /\ reply' \in Replies \cup {None}
  BY DEF TypeOK, Tasks
<1> QED BY <1>3, <1>4, ProgressType

\* Configuration, MySQL, start and faults.
LEMMA SetConfigType == TypeOK /\ SetConfig => TypeOK'
<1> SUFFICES ASSUME TypeOK, SetConfig PROVE TypeOK'
  OBVIOUS
<1> PICK k \in {k \in Calls : k.op = "set_config"} :
      /\ Receive /\ config' = Merge(k.config) /\ configs' = configs \cup {config'}
      /\ saves' = IF HasMysql THEN Append(saves, config') ELSE saves
      /\ UNCHANGED <<redisVars, waiting, phase, down, stored, rows, mq, reply, faults>>
  BY DEF SetConfig
<1>1. config' \in Configs
  BY CallKinds, MergeType
<1>2. saves' \in Seq(Configs) /\ configs' \subseteq Configs
  BY <1>1 DEF TypeOK
<1>3. calls' \in Nat
  BY DEF Receive, TypeOK
<1> QED BY <1>1, <1>2, <1>3 DEF TypeOK, redisVars

LEMMA SavesType ==
  ASSUME TypeOK, saves # <<>>
  PROVE  Head(saves) \in Configs /\ Tail(saves) \in Seq(Configs)
BY DEF TypeOK

LEMMA SaveConfigType == TypeOK /\ SaveConfig => TypeOK'
BY SavesType DEF TypeOK, SaveConfig, redisVars

LEMMA NextTaskType ==
  ASSUME TypeOK, mq # <<>>
  PROVE  Head(Head(mq)) \in Statements /\ (NextTask => mq' \in Seq(Tasks))
<1>1. mq \in Seq(Tasks)
  BY DEF TypeOK, Tasks
<1>2. Head(mq) \in Tasks /\ Tail(mq) \in Seq(Tasks)
  BY <1>1
<1>3. Head(Head(mq)) \in Statements
  BY <1>2 DEF Tasks
<1>4. Len(Head(mq)) > 1 => Tail(Head(mq)) \in Tasks
  BY <1>2, TailType DEF Tasks
<1>5. NextTask => mq' \in Seq(Tasks)
  BY <1>2, <1>4 DEF NextTask
<1> QED BY <1>3, <1>5

LEMMA MysqlExecuteType == TypeOK /\ MysqlExecute => TypeOK'
<1> SUFFICES ASSUME TypeOK, MysqlExecute PROVE TypeOK'
  OBVIOUS
<1>1. rows' \in Tables /\ mq' \in Seq(Tasks)
  BY NextTaskType, RowsType DEF MysqlExecute, TypeOK
<1> QED BY <1>1 DEF TypeOK, MysqlExecute, redisVars, Tasks

LEMMA MysqlExecuteFailsType == TypeOK /\ MysqlExecuteFails => TypeOK'
<1> SUFFICES ASSUME TypeOK, MysqlExecuteFails PROVE TypeOK'
  OBVIOUS
<1>1. mq' \in Seq(Tasks) /\ faults' \in Nat
  BY NextTaskType DEF MysqlExecuteFails, Fault, TypeOK
<1> QED BY <1>1 DEF TypeOK, MysqlExecuteFails, redisVars, Tasks

LEMMA SaveConfigFailsType == TypeOK /\ SaveConfigFails => TypeOK'
BY SavesType DEF TypeOK, SaveConfigFails, Fault, redisVars

LEMMA InitializeType == TypeOK /\ Initialize => TypeOK'
<1> SUFFICES ASSUME TypeOK, Initialize PROVE TypeOK'
  OBVIOUS
<1>1. CASE ConnectRedis
  BY <1>1 DEF TypeOK, ConnectRedis, Connect, redisVars, mysqlVars
<1>2. CASE ConnectMysql
  BY <1>2 DEF TypeOK, ConnectMysql, Connect, redisVars, mysqlVars
<1>3. CASE LoadConfig
  <2>1. Loaded \in Configs
    BY MergeType DEF Loaded, TypeOK
  <2> QED BY <1>3, <2>1 DEF TypeOK, LoadConfig, redisVars, mysqlVars
<1> QED BY <1>1, <1>2, <1>3 DEF Initialize

LEMMA ConnectionType ==
  TypeOK /\ (LoadConfigFails \/ LoseConnection \/ AbortCalls \/ CacheExpires) => TypeOK'
<1> SUFFICES ASSUME TypeOK,
                    LoadConfigFails \/ LoseConnection \/ AbortCalls \/ CacheExpires
             PROVE  TypeOK'
  OBVIOUS
<1>1. CASE LoadConfigFails
  BY <1>1 DEF TypeOK, LoadConfigFails, Fault, redisVars, mysqlVars
<1>2. CASE LoseConnection
  BY <1>2 DEF TypeOK, LoseConnection, Fault, redisVars, mysqlVars
<1>3. CASE AbortCalls
  <2>1. waiting' \in Seq(Coroutines)
    BY <1>3 DEF AbortCalls
  <2> QED BY <1>3, <2>1 DEF TypeOK, AbortCalls, redisVars, mysqlVars
<1>4. CASE CacheExpires
  BY <1>4 DEF TypeOK, CacheExpires, mysqlVars
<1> QED BY <1>1, <1>2, <1>3, <1>4

LEMMA ExecuteUnansweredType == TypeOK /\ ExecuteUnanswered => TypeOK'
<1> SUFFICES ASSUME TypeOK, ExecuteUnanswered PROVE TypeOK'
  OBVIOUS
<1>1. waiting # <<>> /\ Execute(Current) /\ Return
  BY DEF ExecuteUnanswered
<1>2. Current \in Coroutines
  BY <1>1 DEF Current, TypeOK
<1>3. /\ board' \in [Players -> Scores]
      /\ data' \in [Players -> Texts \cup {None}]
      /\ cache' \in Lists \cup {None}
  BY <1>1, <1>2, BoardType, DataType, CacheType DEF TypeOK, Execute
<1>4. waiting' \in Seq(Coroutines)
  BY <1>1, QueueTypes
<1> QED BY <1>3, <1>4 DEF TypeOK, ExecuteUnanswered, mysqlVars

LEMMA RestartType == TypeOK /\ Restart => TypeOK'
<1> SUFFICES ASSUME TypeOK, Restart PROVE TypeOK'
  OBVIOUS
<1>1. default_config \in Configs /\ Unloaded \subseteq Configs
  BY MergeType DEF Unloaded
<1>2. waiting' \in Seq(Coroutines)
  BY DEF Restart
<1>3. mq' \in Seq(Seq(Statements) \ {<<>>})
  BY DEF Restart
<1>4. saves' \in Seq(Configs)
  BY DEF Restart
<1>5. configs' \subseteq Configs /\ config' \in Configs
  BY <1>1 DEF TypeOK, Restart
<1>6. faults' \in Nat
  BY DEF TypeOK, Restart, Fault
<1>7. /\ down' \in BOOLEAN
      /\ phase' = "connect_redis"
      /\ UNCHANGED <<board, data, cache, stored, rows, reply, calls>>
  BY DEF Restart, redisVars
<1> QED BY <1>2, <1>3, <1>4, <1>5, <1>6, <1>7 DEF TypeOK

LEMMA InitType == Init => TypeOK
<1> SUFFICES ASSUME Init PROVE TypeOK
  OBVIOUS
<1>1. default_config \in Configs /\ Unloaded \subseteq Configs
  BY MergeType DEF Unloaded
<1>2. stored \in Configs \cup {None}
  BY RankAssumption DEF Init, FirstStart
<1>3. data \in [Players -> Texts \cup {None}]
  BY DEF Init, FirstStart, NoRows
<1>4. waiting \in Seq(Coroutines)
  BY DEF Init, FirstStart
<1>5. mq \in Seq(Seq(Statements) \ {<<>>})
  BY DEF Init, FirstStart
<1>6. saves \in Seq(Configs)
  BY DEF Init, FirstStart
<1>7. board \in [Players -> Scores]
  BY DEF Init, FirstStart, NoRows, Scores
<1>8. calls \in Nat /\ faults \in Nat
  BY DEF Init, FirstStart
<1>9. configs \subseteq Configs /\ config \in Configs
  BY <1>1 DEF Init, FirstStart
<1> QED
  BY <1>2, <1>3, <1>4, <1>5, <1>6, <1>7, <1>8, <1>9, NoRowsType DEF Init, FirstStart, TypeOK

LEMMA NextType == TypeOK /\ [Next]_vars => TypeOK'
<1> SUFFICES ASSUME TypeOK, [Next]_vars PROVE TypeOK'
  OBVIOUS
<1>1. CASE Initialize
  BY <1>1, InitializeType
<1>2. CASE Start
  BY <1>2, StartUpdateDirectType, StartUpdateType, StartBatchType, StartRemoveType,
     StartBatchRemoveType, StartTopNType, StartRangeType, StartInfoType, SetConfigType
     DEF Start
<1>3. CASE Resume
  BY <1>3, UpdateDirectZscoreType, UpdateZscoreType, UpdateZremType, UpdateZaddType,
     UpdateHsetType, UpdateZrevrankType, DeleteCacheType, BatchZscoreType, BatchHsetType,
     BatchZrevrankType, BatchZremType, BatchZaddType, RemoveZremType, RemoveDelType,
     BatchRemoveDelType, BatchRemoveZremType, ReadCacheType, ReadRankingType,
     ReadExtrasType, StoreCacheType, InfoStepType
     DEF Resume
<1>4. CASE CacheExpires \/ SaveConfig \/ MysqlExecute
  BY <1>4, ConnectionType, SaveConfigType, MysqlExecuteType
<1>5. CASE Faulty
  BY <1>5, MysqlExecuteFailsType, SaveConfigFailsType, ConnectionType,
     ExecuteUnansweredType, RestartType
     DEF Faulty
<1>6. CASE UNCHANGED vars
  BY <1>6 DEF TypeOK, vars
<1> QED BY <1>1, <1>2, <1>3, <1>4, <1>5, <1>6 DEF Next

\* Whatever calls, replies and faults do, every variable keeps its type: a call
\* that waits has what its next command needs, and a forked task has a statement
\* to run.
THEOREM TypeCorrect == Spec => []TypeOK
<1>1. Init => TypeOK
  BY InitType
<1>2. TypeOK /\ [Next]_vars => TypeOK'
  BY NextType
<1> QED BY <1>1, <1>2, PTL DEF Spec

(***************************************************************************)
(* What is in memory is what a restart would bring back                    *)
(***************************************************************************)
\* What rank_config will hold when the queries under way have run, read back.
ReadBack ==
    IF saves # <<>> THEN saves[Len(saves)]
    ELSE IF stored = None THEN default_config ELSE Merge(stored)

\* Until a fault, memory is ahead of MySQL by the queries under way only, and
\* they carry configurations that a second merge leaves alone.
ConfigInv ==
    ~EarlyCalls /\ faults = 0 =>
        IF phase = "ready"
        THEN config = ReadBack /\ \A i \in DOMAIN saves : Merge(saves[i]) = saves[i]
        ELSE config = default_config /\ saves = <<>>

\* The defaults are merged in once and for all.
LEMMA MergeTwice == ASSUME NEW c \in Configs PROVE Merge(Merge(c)) = Merge(c)
<1> DEFINE a == c.allow_negative \/ default_config.allow_negative
           min == c.open_min \/ default_config.open_min
           max == c.open_max \/ default_config.open_max
           m == Merge(c)
<1>1. m = [c EXCEPT !.allow_negative = a, !.open_min = min, !.open_max = max]
  BY DEF Merge
<1>2. m.allow_negative = a /\ m.open_min = min /\ m.open_max = max /\ m \in Configs
  BY <1>1, MergeType DEF Configs
<1>3. /\ (m.allow_negative \/ default_config.allow_negative) = a
      /\ (m.open_min \/ default_config.open_min) = min
      /\ (m.open_max \/ default_config.open_max) = max
  <2> HIDE DEF m
  <2> QED BY <1>2, Zenon
<1>4. Merge(m) = [m EXCEPT !.allow_negative = a, !.open_min = min, !.open_max = max]
  <2> HIDE DEF m, a, min, max
  <2> QED BY <1>3 DEF Merge
<1> HIDE DEF a, min, max, m
<1>5. [m EXCEPT !.allow_negative = a, !.open_min = min, !.open_max = max] = m
  BY <1>2 DEF Configs
<1> QED BY <1>4, <1>5 DEF m

LEMMA SetConfigKept == TypeOK /\ ConfigInv /\ SetConfig => ConfigInv'
<1> SUFFICES ASSUME TypeOK, ConfigInv, SetConfig, ~EarlyCalls, faults' = 0 PROVE ConfigInv'
  BY DEF ConfigInv
<1> PICK k \in {k \in Calls : k.op = "set_config"} :
      /\ Receive /\ config' = Merge(k.config)
      /\ saves' = IF HasMysql THEN Append(saves, config') ELSE saves
      /\ UNCHANGED <<phase, stored, faults>>
  BY DEF SetConfig
<1>1. phase = "ready" /\ phase' = "ready" /\ HasMysql
  BY DEF Receive, HasMysql
<1>2. k.config \in Configs
  BY CallKinds
<1>3. config' \in Configs /\ Merge(config') = config'
  BY <1>2, MergeType, MergeTwice
<1>4. saves \in Seq(Configs) /\ saves' = Append(saves, config')
  BY <1>1 DEF TypeOK
<1>5. /\ saves' # <<>> /\ saves'[Len(saves')] = config' /\ DOMAIN saves' = 1..Len(saves) + 1
      /\ \A i \in DOMAIN saves : saves'[i] = saves[i] /\ i \in DOMAIN saves'
  BY <1>3, <1>4
<1>6. \A i \in DOMAIN saves : Merge(saves[i]) = saves[i]
  BY <1>1 DEF ConfigInv
<1>7. ASSUME NEW i \in DOMAIN saves' PROVE Merge(saves'[i]) = saves'[i]
  <2>1. i \in DOMAIN saves \/ i = Len(saves')
    BY <1>3, <1>4
  <2> QED BY <2>1, <1>3, <1>5, <1>6
<1> QED BY <1>1, <1>5, <1>7 DEF ConfigInv, ReadBack

LEMMA SaveConfigKept == TypeOK /\ ConfigInv /\ SaveConfig => ConfigInv'
<1> SUFFICES ASSUME TypeOK, ConfigInv, SaveConfig, ~EarlyCalls, faults' = 0 PROVE ConfigInv'
  BY DEF ConfigInv
<1>1. /\ phase = "ready" /\ saves # <<>> /\ stored' = Head(saves) /\ saves' = Tail(saves)
      /\ UNCHANGED <<phase, config, faults>>
  BY DEF SaveConfig
<1>2. config = saves[Len(saves)] /\ \A i \in DOMAIN saves : Merge(saves[i]) = saves[i]
  BY <1>1 DEF ConfigInv, ReadBack
<1>3. saves \in Seq(Configs)
  BY DEF TypeOK
<1>4. /\ \A i \in DOMAIN saves' : i + 1 \in DOMAIN saves /\ saves'[i] = saves[i + 1]
      /\ Len(saves') = Len(saves) - 1 /\ Len(saves) \in Nat \ {0} /\ 1 \in DOMAIN saves
      /\ saves' = <<>> => Len(saves) = 1
      /\ stored' = saves[1] /\ stored' # None
  <2>1. saves[1] \in Configs /\ Len(saves) \in Nat \ {0} /\ 1 \in DOMAIN saves
    BY <1>1, <1>3
  <2>2. stored' = saves[1] /\ stored' # None
    BY <1>1, <2>1, RankAssumption
  <2>3. /\ \A i \in DOMAIN saves' : i + 1 \in DOMAIN saves /\ saves'[i] = saves[i + 1]
        /\ Len(saves') = Len(saves) - 1
    BY <1>1, <1>3
  <2>4. saves' = <<>> => Len(saves) = 1
    BY <2>1, <2>3
  <2> QED BY <2>1, <2>2, <2>3, <2>4
<1>5. \A i \in DOMAIN saves' : Merge(saves'[i]) = saves'[i]
  BY <1>2, <1>4
<1>6. config = ReadBack'
  <2>1. CASE saves' = <<>>
    BY <2>1, <1>2, <1>4 DEF ReadBack
  <2>2. CASE saves' # <<>>
    <3>1. Len(saves') \in DOMAIN saves'
      BY <2>2, <1>1, <1>3
    <3> QED BY <2>2, <3>1, <1>2, <1>4 DEF ReadBack
  <2> QED BY <2>1, <2>2
<1> QED BY <1>1, <1>5, <1>6 DEF ConfigInv

\* Whatever else happens leaves configuration and queries alone, or is a fault.
LEMMA NextKept == TypeOK /\ ConfigInv /\ [Next]_vars => ConfigInv'
<1> SUFFICES ASSUME TypeOK, ConfigInv, [Next]_vars, ~EarlyCalls, faults' = 0
             PROVE  ConfigInv'
  BY DEF ConfigInv
<1>1. ~Fault
  BY DEF Fault, TypeOK
<1>2. ASSUME UNCHANGED <<config, stored, saves, phase, faults>> PROVE ConfigInv'
  BY <1>2 DEF ConfigInv, ReadBack
<1>3. CASE SetConfig
  BY <1>3, SetConfigKept
<1>4. CASE SaveConfig
  BY <1>4, SaveConfigKept
<1>5. CASE Initialize
  <2>1. CASE ConnectRedis \/ ConnectMysql
    BY <2>1 DEF ConnectRedis, ConnectMysql, Connect, mysqlVars, ConfigInv
  <2>2. CASE LoadConfig
    <3>1. /\ phase = "load" /\ phase' = "ready" /\ UNCHANGED <<saves, stored, faults>>
          /\ config' = IF stored = None THEN config ELSE Merge(stored)
      BY <2>2 DEF LoadConfig, Loaded, mysqlVars
    <3>2. config = default_config /\ saves = <<>>
      BY <3>1 DEF ConfigInv
    <3> QED BY <3>1, <3>2 DEF ConfigInv, ReadBack
  <2> QED BY <1>5, <2>1, <2>2 DEF Initialize
<1>6. CASE Start /\ ~SetConfig
  <2>1. \E c : Begin(c)
    BY <1>6 DEF Start, StartUpdateDirect, StartUpdate, StartBatch, StartRemove,
                StartBatchRemove, StartTopN, StartRange, StartInfo
  <2> QED BY <2>1, <1>2 DEF Begin, mysqlVars
<1>7. CASE Resume
  <2>1. Progress
    BY <1>7 DEF Resume, UpdateDirectZscore, UpdateZscore, UpdateZrem, UpdateZadd,
                UpdateHset, UpdateZrevrank, DeleteCache, BatchZscore, BatchHset,
                BatchZrevrank, BatchZrem, BatchZadd, RemoveZrem, RemoveDel,
                BatchRemoveDel, BatchRemoveZrem, ReadCache, ReadRanking, ReadExtras,
                StoreCache, InfoStep
  <2> QED BY <2>1, <1>2 DEF Progress, mysqlVars
<1>8. CASE CacheExpires \/ MysqlExecute \/ ExecuteUnanswered \/ AbortCalls \/ UNCHANGED vars
  BY <1>8, <1>2 DEF CacheExpires, MysqlExecute, ExecuteUnanswered, AbortCalls, vars,
                    mysqlVars
<1>9. CASE Faulty /\ ~ExecuteUnanswered /\ ~AbortCalls
  BY <1>9, <1>1 DEF Faulty, MysqlExecuteFails, SaveConfigFails, LoadConfigFails,
                    LoseConnection, Restart
<1> QED BY <1>3, <1>4, <1>5, <1>6, <1>7, <1>8, <1>9 DEF Next

\* Until the first fault the configuration in force is the one a restart would
\* read from rank_config, once the queries of set_config have run: merging the
\* defaults, saving, loading and merging again lose no field, and of several
\* set_config the last one wins in memory and in MySQL.
THEOREM ConfigIsKept == Spec => []ConfigKept
<1>1. Init => ConfigInv
  BY DEF Init, FirstStart, ConfigInv
<1>2. TypeOK /\ ConfigInv /\ [Next]_vars => ConfigInv'
  BY NextKept
<1>3. ConfigInv => ConfigKept
  BY DEF ConfigInv, ReadBack, ConfigKept
<1> QED BY <1>1, <1>2, <1>3, TypeCorrect, PTL DEF Spec

(***************************************************************************)
(* The leaderboard service holds its limits: no score gets on the board,   *)
(* into MySQL or into the cached list unless it passed the checks under a  *)
(* configuration that was in force.                                        *)
(***************************************************************************)

(***************************************************************************)
(* The inductive invariant: whatever is under way towards a write, in a    *)
(* call, in a forked task or in a list that was read, has passed the       *)
(* checks as well; and a call works under a configuration that counts.     *)
(***************************************************************************)
Passed == {s \in Int : Allowed(s)}
SoundTables == {t \in Tables : \A p \in Players : t[p] # None => t[p].score \in Passed}
SoundLists == {l \in Lists : \A e \in l : e.score \in Passed}
SoundStatements ==
    {s \in Statements : /\ s.op = "insert" => s.rows \in SoundTables
                        /\ s.op = "update" => s.score \in Passed}

SoundUpdate(c) ==
    c.cfg \in configs /\ (c.at \in {"zadd", "hset"} => c.score \in Passed)
SoundBatch(c) == c.cfg \in configs /\ c.ins \in SoundTables /\ c.sql \in SoundTables
SoundRead(c) == c.list \in SoundLists
Sound ==
    {c \in Coroutines : /\ c \in UpdateCalls => SoundUpdate(c)
                        /\ c \in BatchCalls => SoundBatch(c)
                        /\ c \in ReadCalls => SoundRead(c)}

LimitsInv ==
    /\ \A p \in Players : board[p] # None => board[p] \in Passed
    /\ rows \in SoundTables
    /\ cache \in SoundLists \cup {None}
    /\ waiting \in Seq(Sound)
    /\ mq \in Seq(Seq(SoundStatements))
    /\ phase = "ready" \/ EarlyCalls => config \in configs

(***************************************************************************)
(* What is sound stays so                                                  *)
(***************************************************************************)
\* Nothing depends on anything but the configurations that were in force.
LEMMA SameConfigs ==
  ASSUME configs' = configs
  PROVE  /\ Passed' = Passed /\ SoundTables' = SoundTables /\ SoundLists' = SoundLists
         /\ SoundStatements' = SoundStatements /\ Sound' = Sound
<1>1. Passed' = Passed
  BY DEF Passed, Allowed
<1>2. SoundTables' = SoundTables /\ SoundLists' = SoundLists
  BY <1>1 DEF SoundTables, SoundLists
<1>3. SoundStatements' = SoundStatements
  BY <1>1, <1>2 DEF SoundStatements
<1>4. Sound' = Sound
  BY <1>1, <1>2 DEF Sound, SoundUpdate, SoundBatch, SoundRead
<1> QED BY <1>1, <1>2, <1>3, <1>4

\* ... and no configuration is forgotten.
LEMMA MoreConfigs ==
  ASSUME configs \subseteq configs'
  PROVE  /\ Passed \subseteq Passed' /\ SoundTables \subseteq SoundTables'
         /\ SoundLists \subseteq SoundLists' /\ SoundStatements \subseteq SoundStatements'
         /\ Sound \subseteq Sound'
<1>1. Passed \subseteq Passed'
  BY DEF Passed, Allowed
<1>2. SoundTables \subseteq SoundTables'
  BY <1>1 DEF SoundTables
<1>3. SoundLists \subseteq SoundLists'
  BY <1>1 DEF SoundLists
<1>4. SoundStatements \subseteq SoundStatements'
  BY <1>1, <1>2 DEF SoundStatements
<1>5. ASSUME NEW c \in Sound PROVE c \in Sound'
  <2>1. c \in Coroutines
    BY DEF Sound
  <2>2. /\ c \in UpdateCalls => SoundUpdate(c)
        /\ c \in BatchCalls => SoundBatch(c)
        /\ c \in ReadCalls => SoundRead(c)
    BY DEF Sound
  <2> QED BY <1>1, <1>2, <1>3, <2>1, <2>2 DEF Sound, SoundUpdate, SoundBatch, SoundRead
<1> QED BY <1>1, <1>2, <1>3, <1>4, <1>5

\* The checks of the four update functions: a score that is not too low after
\* they have been applied is within the limits.
LEMMA ChecksPass ==
  ASSUME NEW cfg \in Configs, cfg \in configs, NEW s \in Int, ~TooLow(cfg, Clip(cfg, s))
  PROVE  Clip(cfg, s) \in Passed
<1>1. Within(cfg, Clip(cfg, s))
  BY DEF Within, TooLow, Clip, Configs
<1> QED BY <1>1, ClipType DEF Passed, Allowed

LEMMA NoRowsSound == NoRows \in SoundTables /\ {} \in SoundLists
BY NoRowsType DEF SoundTables, SoundLists, NoRows, Lists

\* A table with another sound row.
LEMMA RowSound ==
  ASSUME NEW t \in SoundTables, NEW p \in Players, NEW row \in Rows, row.score \in Passed
  PROVE  [t EXCEPT ![p] = row] \in SoundTables
BY DEF SoundTables, Tables

LEMMA StatementsSound ==
  ASSUME NEW p \in Players, NEW s \in Passed
  PROVE  /\ \A extra \in Texts : Insert(p, s, extra) \in SoundStatements
         /\ Update(p, s) \in SoundStatements
<1>1. s \in Int
  BY DEF Passed
<1>2. ASSUME NEW extra \in Texts PROVE Insert(p, s, extra) \in SoundStatements
  <2> DEFINE row == [score |-> s, extra |-> extra]
             table == [NoRows EXCEPT ![p] = row]
  <2>1. row \in Rows /\ row.score = s
    BY <1>1 DEF Rows
  <2> HIDE DEF row
  <2>2. table \in SoundTables
    BY <2>1, NoRowsSound, RowSound
  <2>3. Insert(p, s, extra) \in Statements
    BY <1>1, StatementTypes
  <2>4. Insert(p, s, extra) = [op |-> "insert", rows |-> table]
    BY DEF Insert, row
  <2> HIDE DEF table
  <2> QED BY <2>2, <2>3, <2>4 DEF SoundStatements
<1>3. Update(p, s) \in SoundStatements
  BY <1>1, StatementTypes DEF SoundStatements, Update
<1> QED BY <1>2, <1>3

LEMMA DeleteSound == \A ps \in SUBSET Players : Delete(ps) \in SoundStatements
BY StatementTypes DEF SoundStatements, Delete

(***************************************************************************)
(* Writes to Redis and MySQL                                               *)
(***************************************************************************)
\* The command of a sound call keeps board and cached list sound.
LEMMA ExecuteSound ==
  ASSUME TypeOK, LimitsInv, NEW c \in Sound, Execute(c)
  PROVE  /\ \A p \in Players : board'[p] # None => board'[p] \in Passed
         /\ cache' \in SoundLists \cup {None}
<1>1. c \in Coroutines
  BY DEF Sound
<1>2. board \in [Players -> Scores] /\ board' = BoardAfter(c) /\ cache' = CacheAfter(c)
  BY DEF TypeOK, Execute
<1>3. ASSUME NEW p \in Players, board'[p] # None PROVE board'[p] \in Passed
  <2>1. board[p] # None => board[p] \in Passed
    BY DEF LimitsInv
  <2>2. CASE c.at \in {"zrem", "r_zrem", "b_zrem", "br_zrem"}
    BY <1>2, <1>3, <2>1, <2>2 DEF BoardAfter
  <2>3. CASE c.at = "zadd"
    <3>1. c.score \in Passed
      BY <1>1, <2>3, Kinds DEF Sound, SoundUpdate
    <3> QED BY <1>2, <1>3, <2>1, <2>3, <3>1 DEF BoardAfter
  <2>4. CASE c.at = "b_zadd"
    <3>1. c.ins[p] # None => c.ins[p].score \in Passed
      BY <1>1, <2>4, Kinds DEF Sound, SoundBatch, SoundTables
    <3> QED BY <1>2, <1>3, <2>1, <2>4, <3>1 DEF BoardAfter
  <2>5. CASE c.at \notin {"zrem", "r_zrem", "b_zrem", "br_zrem", "zadd", "b_zadd"}
    BY <1>2, <1>3, <2>1, <2>5 DEF BoardAfter
  <2> QED BY <2>2, <2>3, <2>4, <2>5
<1>4. cache' \in SoundLists \cup {None}
  <2>1. CASE c.at = "setex"
    <3>1. c.list \in SoundLists
      BY <1>1, <2>1, Kinds DEF Sound, SoundRead
    <3> QED BY <1>2, <2>1, <3>1 DEF CacheAfter
  <2>2. CASE c.at # "setex"
    BY <1>2, <2>2 DEF CacheAfter, LimitsInv
  <2> QED BY <2>1, <2>2
<1> QED BY <1>3, <1>4

LEMMA RowsSound ==
  ASSUME TypeOK, LimitsInv, NEW s \in SoundStatements
  PROVE  RowsAfter(s) \in SoundTables
<1>1. s \in Statements /\ rows \in SoundTables /\ rows \in Tables
  BY DEF SoundStatements, LimitsInv, TypeOK
<1>2. RowsAfter(s) \in Tables
  BY <1>1, RowsType
<1> SUFFICES ASSUME NEW p \in Players, RowsAfter(s)[p] # None
             PROVE  RowsAfter(s)[p].score \in Passed
  BY <1>2 DEF SoundTables
<1>3. rows[p] # None => rows[p].score \in Passed /\ rows[p] \in Rows
  BY <1>1 DEF SoundTables, Tables
<1>4. CASE s.op = "insert"
  <2>1. s.rows[p] # None => s.rows[p].score \in Passed
    BY <1>4 DEF SoundStatements, SoundTables
  <2> QED BY <1>3, <1>4, <2>1 DEF RowsAfter
<1>5. CASE s.op = "update"
  <2>1. s.score \in Passed
    BY <1>5 DEF SoundStatements
  <2> QED BY <1>3, <1>5, <2>1 DEF RowsAfter, Rows
<1>6. CASE s.op = "delete"
  BY <1>3, <1>6 DEF RowsAfter
<1> QED BY <1>1, <1>4, <1>5, <1>6 DEF Statements

(***************************************************************************)
(* Steps of calls                                                          *)
(***************************************************************************)
\* The call whose reply comes next is sound.
LEMMA CurrentSound ==
  ASSUME LimitsInv, waiting # <<>>
  PROVE  Current \in Sound /\ Tail(waiting) \in Seq(Sound)
BY DEF LimitsInv, Current

LEMMA QueuesSound ==
  ASSUME LimitsInv
  PROVE  /\ waiting # <<>> /\ Return => waiting' \in Seq(Sound)
         /\ \A c \in Sound : waiting # <<>> /\ Await(c) => waiting' \in Seq(Sound)
         /\ \A c \in Sound : Begin(c) => waiting' \in Seq(Sound)
         /\ \A t \in Seq(SoundStatements) : Fork(t) => mq' \in Seq(Seq(SoundStatements))
<1>1. waiting \in Seq(Sound) /\ mq \in Seq(Seq(SoundStatements))
  BY DEF LimitsInv
<1>2. waiting # <<>> => Tail(waiting) \in Seq(Sound)
  BY <1>1
<1>3. ASSUME waiting # <<>>, Return PROVE waiting' \in Seq(Sound)
  BY <1>2, <1>3 DEF Return
<1>4. ASSUME NEW c \in Sound, waiting # <<>>, Await(c) PROVE waiting' \in Seq(Sound)
  BY <1>2, <1>4 DEF Await
<1>5. ASSUME NEW c \in Sound, Begin(c) PROVE waiting' \in Seq(Sound)
  BY <1>1, <1>5 DEF Begin
<1>6. ASSUME NEW t \in Seq(SoundStatements), Fork(t)
      PROVE  mq' \in Seq(Seq(SoundStatements))
  BY <1>1, <1>6 DEF Fork
<1> QED BY <1>3, <1>4, <1>5, <1>6

\* A step of a call in progress, from what it does to its own state.
LEMMA ProgressSound ==
  ASSUME TypeOK, LimitsInv, NEW labels, Reply(labels), Progress,
         waiting' \in Seq(Sound), mq' \in Seq(Seq(SoundStatements))
  PROVE  LimitsInv'
<1>1. /\ configs' = configs /\ config' = config /\ phase' = phase /\ rows' = rows
  BY DEF Progress, mysqlVars
<1>2. Current \in Sound /\ Execute(Current)
  BY CurrentSound DEF Reply
<1>3. /\ \A p \in Players : board'[p] # None => board'[p] \in Passed
      /\ cache' \in SoundLists \cup {None}
  BY <1>2, ExecuteSound
<1> QED BY <1>1, <1>3, SameConfigs DEF LimitsInv

\* The arrival of a call.
LEMMA BeginSound ==
  ASSUME LimitsInv, NEW c \in Sound, Begin(c)
  PROVE  LimitsInv'
<1>1. waiting' \in Seq(Sound)
  BY QueuesSound
<1>2. UNCHANGED <<board, cache, rows, mq, phase, config, configs>>
  BY DEF Begin, redisVars, mysqlVars
<1> QED BY <1>1, <1>2, SameConfigs DEF LimitsInv

\* ... under a configuration that counts.
LEMMA ReceiveConfig ==
  ASSUME TypeOK, LimitsInv, Receive
  PROVE  config \in configs /\ config \in Configs
BY DEF Receive, LimitsInv, TypeOK

(***************************************************************************)
(* update_score_direct and update_score                                    *)
(***************************************************************************)
\* An update goes on with another command; before ZADD its score has passed.
LEMMA UpdateAwaitSound ==
  ASSUME LimitsInv, waiting # <<>>, Current \in UpdateCalls,
         NEW label \in {"zscore", "zrem", "zadd", "hset", "zrevrank", "del"},
         label \in {"zadd", "hset"} => Current.score \in Passed,
         AwaitAt(label)
  PROVE  waiting' \in Seq(Sound)
<1> DEFINE c == [Current EXCEPT !.at = label]
<1>1. c \in UpdateCalls /\ c.at = label /\ c.cfg = Current.cfg /\ c.score = Current.score
  BY DEF UpdateCalls
<1>2. c \notin BatchCalls /\ c \notin ReadCalls
  BY <1>1 DEF UpdateCalls, BatchCalls, ReadCalls, SingleUpdate, BatchUpdate
<1>3. Current.cfg \in configs
  BY CurrentSound DEF Sound, SoundUpdate
<1>4. c \in Sound
  <2> HIDE DEF c
  <2> QED BY <1>1, <1>2, <1>3 DEF Sound, SoundUpdate, Coroutines
<1> QED BY <1>4, QueuesSound DEF AwaitAt

LEMMA UpdateEndSound ==
  ASSUME LimitsInv, waiting # <<>>, Current \in UpdateCalls, LeaveOrReturn \/ CheckCache
  PROVE  waiting' \in Seq(Sound)
BY UpdateAwaitSound, QueuesSound DEF LeaveOrReturn, CheckCache

LEMMA UpdateStateSound ==
  ASSUME TypeOK, LimitsInv, config \in configs, NEW k \in Calls, k.op \in SingleUpdate,
         NEW score \in Int, NEW label \in {"zscore", "zadd"},
         label = "zadd" => score \in Passed
  PROVE  UpdateState(k, label, score) \in Sound
<1> DEFINE c == UpdateState(k, label, score)
<1>1. c \in Coroutines
  BY UpdateStateType
<1>2. c.op = k.op /\ c.at = label /\ c.cfg = config /\ c.score = score
  BY DEF UpdateState
<1> HIDE DEF c
<1>3. c \notin BatchCalls /\ c \notin ReadCalls
  BY <1>2 DEF BatchCalls, ReadCalls, SingleUpdate, BatchUpdate
<1> QED BY <1>1, <1>2, <1>3 DEF Sound, SoundUpdate, c

LEMMA StartUpdateDirectSound == TypeOK /\ LimitsInv /\ StartUpdateDirect => LimitsInv'
<1> SUFFICES ASSUME TypeOK, LimitsInv, StartUpdateDirect PROVE LimitsInv'
  OBVIOUS
<1> PICK k \in {k \in Calls : k.op = "update_score_direct"} :
      Begin(UpdateState(k, IF TooLow(config, Clip(config, k.score)) THEN "zscore"
                           ELSE "zadd", Clip(config, k.score)))
  BY DEF StartUpdateDirect
<1> DEFINE label == IF TooLow(config, Clip(config, k.score)) THEN "zscore" ELSE "zadd"
           score == Clip(config, k.score)
<1>1. k \in Calls /\ k.op \in SingleUpdate /\ k.score \in Int
  BY CallKinds DEF SingleUpdate
<1>2. config \in configs /\ config \in Configs
  BY ReceiveConfig DEF Begin
<1>3. score \in Int
  BY <1>1, <1>2, ClipType
<1>4. label \in {"zscore", "zadd"} /\ (label = "zadd" => score \in Passed)
  BY <1>1, <1>2, ChecksPass
<1>5. UpdateState(k, label, score) \in Sound
  <2> HIDE DEF label, score
  <2> QED BY <1>1, <1>2, <1>3, <1>4, UpdateStateSound
<1> QED BY <1>5, BeginSound

LEMMA StartUpdateSound == TypeOK /\ LimitsInv /\ StartUpdate => LimitsInv'
<1> SUFFICES ASSUME TypeOK, LimitsInv, StartUpdate PROVE LimitsInv'
  OBVIOUS
<1> PICK k \in {k \in Calls : k.op = "update_score"} :
      Begin(UpdateState(k, "zscore", k.score))
  BY DEF StartUpdate
<1>1. k \in Calls /\ k.op \in SingleUpdate /\ k.score \in Int
  BY CallKinds DEF SingleUpdate
<1>2. config \in configs
  BY ReceiveConfig DEF Begin
<1>3. UpdateState(k, "zscore", k.score) \in Sound
  BY <1>1, <1>2, UpdateStateSound
<1> QED BY <1>3, BeginSound

LEMMA UpdateZscoreSound == TypeOK /\ LimitsInv /\ UpdateZscore => LimitsInv'
<1> SUFFICES ASSUME TypeOK, LimitsInv, UpdateZscore PROVE LimitsInv'
  OBVIOUS
<1> DEFINE sum == CurrentScore(Current.player) + Current.score
           score == Clip(Current.cfg, sum)
           c == [Current EXCEPT !.at = "zadd", !.score = score]
<1>1. waiting # <<>> /\ Current \in UpdateCalls
  BY ReplyType, Kinds DEF UpdateZscore
<1>2. Current.cfg \in Configs /\ Current.cfg \in configs
  BY <1>1, CurrentSound DEF UpdateCalls, Sound, SoundUpdate
<1>3. sum \in Int
  <2>1. Current.player \in Players /\ Current.score \in Int
    BY <1>1 DEF UpdateCalls
  <2> QED BY <2>1 DEF CurrentScore, TypeOK, Scores
<1>4. \/ LeaveOrReturn
      \/ ~TooLow(Current.cfg, score) /\ Await(c)
  BY DEF UpdateZscore
<1>5. waiting' \in Seq(Sound)
  <2>1. CASE LeaveOrReturn
    BY <1>1, <2>1, UpdateEndSound
  <2>2. CASE ~TooLow(Current.cfg, score) /\ Await(c)
    <3> HIDE DEF sum
    <3>1. score \in Passed /\ score \in Int
      BY <1>2, <1>3, <2>2, ChecksPass, ClipType
    <3> HIDE DEF score
    <3>2. c \in UpdateCalls /\ c.cfg = Current.cfg /\ c.score = score
      BY <1>1, <3>1 DEF UpdateCalls
    <3> HIDE DEF c
    <3>3. c \notin BatchCalls /\ c \notin ReadCalls
      BY <3>2 DEF UpdateCalls, BatchCalls, ReadCalls, SingleUpdate, BatchUpdate
    <3>4. c \in Sound
      BY <1>2, <3>1, <3>2, <3>3 DEF Sound, SoundUpdate, Coroutines
    <3> QED BY <1>1, <2>2, <3>4, QueuesSound
  <2> QED BY <1>4, <2>1, <2>2
<1>6. mq' \in Seq(Seq(SoundStatements))
  BY DEF UpdateZscore, LimitsInv
<1> QED BY <1>5, <1>6, ProgressSound DEF UpdateZscore

\* The steps of an update that write nothing more to Redis.
LEMMA UpdateRestSound ==
  TypeOK /\ LimitsInv /\ (UpdateDirectZscore \/ UpdateZrem \/ UpdateZrevrank \/ DeleteCache)
    => LimitsInv'
<1> SUFFICES ASSUME TypeOK, LimitsInv,
                    UpdateDirectZscore \/ UpdateZrem \/ UpdateZrevrank \/ DeleteCache
             PROVE  LimitsInv'
  OBVIOUS
<1>1. mq \in Seq(Seq(SoundStatements))
  BY DEF LimitsInv
<1>2. CASE UpdateDirectZscore
  <2>1. waiting # <<>> /\ Current \in UpdateCalls
    BY <1>2, ReplyType, Kinds DEF UpdateDirectZscore
  <2> QED BY <1>1, <1>2, <2>1, UpdateEndSound, ProgressSound DEF UpdateDirectZscore
<1>3. CASE UpdateZrem
  <2>1. waiting # <<>> /\ Current \in UpdateCalls
    BY <1>3, ReplyType, Kinds DEF UpdateZrem
  <2>2. <<Delete({Current.player})>> \in Seq(SoundStatements)
    BY <2>1, DeleteSound DEF UpdateCalls
  <2> QED BY <1>3, <2>1, <2>2, QueuesSound, ProgressSound DEF UpdateZrem
<1>4. CASE UpdateZrevrank
  <2>1. waiting # <<>> /\ Current \in UpdateCalls
    BY <1>4, ReplyType, Kinds DEF UpdateZrevrank
  <2>2. AwaitAt("del") \/ Return
    BY <1>4 DEF UpdateZrevrank
  <2>3. waiting' \in Seq(Sound)
    BY <2>1, <2>2, UpdateAwaitSound, QueuesSound
  <2> QED BY <1>1, <1>4, <2>3, ProgressSound DEF UpdateZrevrank
<1>5. CASE DeleteCache
  BY <1>1, <1>5, ReplyType, QueuesSound, ProgressSound DEF DeleteCache
<1> QED BY <1>2, <1>3, <1>4, <1>5

\* ZADD and HSET fork the write of a score that has passed.
LEMMA UpdateWriteSound ==
  TypeOK /\ LimitsInv /\ (UpdateZadd \/ UpdateHset) => LimitsInv'
<1> SUFFICES ASSUME TypeOK, LimitsInv, UpdateZadd \/ UpdateHset PROVE LimitsInv'
  OBVIOUS
<1>1. /\ waiting # <<>> /\ Current \in UpdateCalls /\ Current.at \in {"zadd", "hset"}
  BY ReplyType, Kinds DEF UpdateZadd, UpdateHset
<1>2. Current.score \in Passed
  BY <1>1, CurrentSound DEF Sound, SoundUpdate
<1>3. Current.player \in Players /\ ExtraStr(Current.extra) \in Texts
  BY <1>1 DEF UpdateCalls, ExtraStr, Texts
<1>4. /\ <<Update(Current.player, Current.score)>> \in Seq(SoundStatements)
      /\ <<Insert(Current.player, Current.score, ExtraStr(Current.extra))>>
           \in Seq(SoundStatements)
  BY <1>2, <1>3, StatementsSound
<1>5. waiting' \in Seq(Sound)
  <2>1. CheckCache \/ AwaitAt("hset")
    BY DEF UpdateZadd, UpdateHset
  <2> QED BY <1>1, <1>2, <2>1, UpdateEndSound, UpdateAwaitSound
<1>6. mq' \in Seq(Seq(SoundStatements))
  BY <1>4, QueuesSound DEF UpdateZadd, UpdateHset, LimitsInv
<1> QED BY <1>5, <1>6, ProgressSound DEF UpdateZadd, UpdateHset

(***************************************************************************)
(* batch_update_score_direct and batch_update_score                        *)
(***************************************************************************)
LEMMA BatchSound ==
  ASSUME NEW c \in BatchCalls, SoundBatch(c)
  PROVE  c \in Sound
<1>1. c \notin UpdateCalls /\ c \notin ReadCalls /\ c \in Coroutines
  BY DEF UpdateCalls, BatchCalls, ReadCalls, SingleUpdate, BatchUpdate, Coroutines
<1> QED BY <1>1 DEF Sound

LEMMA CurrentBatch ==
  ASSUME LimitsInv, waiting # <<>>, Current \in BatchCalls
  PROVE  /\ Current \in BatchStates /\ SoundBatch(Current)
         /\ Current.cfg \in Configs /\ Current.cfg \in configs
BY CurrentSound, BatchCallsAreStates DEF Sound, SoundBatch, BatchCalls

LEMMA AcceptSound ==
  ASSUME NEW c \in BatchStates, SoundBatch(c), c.updates # <<>>, NEW score \in Passed
  PROVE  Accept(c, score) \in Sound
<1> DEFINE u == Head(c.updates)
           row == [score |-> score, extra |-> ExtraStr(u.extra)]
           ins == [c.ins EXCEPT ![u.player] = row]
<1>1. score \in Int
  BY DEF Passed
<1>2. u.player \in Players /\ row \in Rows /\ row.score = score
  BY <1>1, HeadType DEF Rows
<1>3. c.ins \in SoundTables /\ c.sql \in SoundTables /\ c.cfg \in configs
  BY DEF SoundBatch
<1>4. ins \in SoundTables
  <2> HIDE DEF u, row
  <2> QED BY <1>2, <1>3, RowSound
<1>5. Accept(c, score) = [c EXCEPT !.at = "b_hset", !.ins = ins]
  BY DEF Accept, BatchStates
<1>6. Accept(c, score) \in BatchCalls
  BY <1>1, AcceptType
<1> HIDE DEF u, row, ins
<1>7. /\ Accept(c, score).ins = ins /\ Accept(c, score).sql = c.sql
      /\ Accept(c, score).cfg = c.cfg
  BY <1>5 DEF BatchStates
<1> QED BY <1>3, <1>4, <1>6, <1>7, BatchSound DEF SoundBatch

LEMMA ExpelSound ==
  ASSUME NEW c \in BatchStates, SoundBatch(c), c.updates # <<>>
  PROVE  Expel(c) \in Sound
<1>1. Expel(c) = [c EXCEPT !.at = "b_zrem"] /\ Expel(c) \in BatchCalls
  BY ExpelType DEF Expel
<1>2. Expel(c).ins = c.ins /\ Expel(c).sql = c.sql /\ Expel(c).cfg = c.cfg
  BY <1>1 DEF BatchStates
<1> QED BY <1>1, <1>2, BatchSound DEF SoundBatch

LEMMA NoteSound ==
  ASSUME NEW c \in BatchStates, SoundBatch(c), c.updates # <<>>,
         NEW d, d = NoteRow(c) \/ d = NoteRemoval(c)
  PROVE  d \in BatchStates /\ SoundBatch(d) /\ d.updates # <<>>
<1>1. c.ins \in SoundTables /\ c.sql \in SoundTables /\ c.cfg \in configs
  BY DEF SoundBatch
<1>2. CASE d = NoteRow(c)
  <2>1. /\ d \in BatchStates /\ d.updates # <<>> /\ d.ins = c.ins /\ d.cfg = c.cfg
        /\ \A p \in Players : d.sql[p] = c.ins[p] \/ d.sql[p] = c.sql[p]
    BY <1>2, NoteRowType
  <2>2. d.sql \in SoundTables
    BY <1>1, <2>1 DEF SoundTables, BatchStates
  <2> QED BY <1>1, <2>1, <2>2 DEF SoundBatch
<1>3. CASE d = NoteRemoval(c)
  BY <1>1, <1>3, NoteRemovalType DEF SoundBatch
<1> QED BY <1>2, <1>3

LEMMA DropEntrySound ==
  ASSUME NEW c \in BatchStates, SoundBatch(c), c.updates # <<>>
  PROVE  DropEntry(c) \in BatchStates /\ SoundBatch(DropEntry(c))
<1>1. DropEntry(c) = [c EXCEPT !.updates = Tail(c.updates)] /\ DropEntry(c) \in BatchStates
  BY DropEntryType DEF DropEntry, BatchStates
<1>2. /\ DropEntry(c).ins = c.ins /\ DropEntry(c).sql = c.sql
      /\ DropEntry(c).cfg = c.cfg
  BY <1>1 DEF BatchStates
<1> QED BY <1>1, <1>2 DEF SoundBatch

LEMMA NextEntrySound ==
  ASSUME NEW c \in BatchStates, SoundBatch(c), NextEntry(c).at # "end"
  PROVE  NextEntry(c) \in Sound
<1>1. CASE c.updates = <<>> \/ c.op = "batch_update_score"
  <2>1. PICK label \in {"end", "b_zadd", "b_zscore"} :
          NextEntry(c) = [c EXCEPT !.at = label]
    BY <1>1 DEF NextEntry
  <2>2. /\ NextEntry(c).ins = c.ins /\ NextEntry(c).sql = c.sql
        /\ NextEntry(c).cfg = c.cfg
    BY <2>1 DEF BatchStates
  <2> QED BY <2>2, NextEntryType, BatchSound DEF SoundBatch
<1>2. CASE c.updates # <<>> /\ c.op # "batch_update_score"
  <2> DEFINE s == Head(c.updates).score
  <2>1. \/ NextEntry(c) = Expel(c)
        \/ ~TooLow(c.cfg, Clip(c.cfg, s)) /\ NextEntry(c) = Accept(c, Clip(c.cfg, s))
    BY <1>2 DEF NextEntry
  <2>2. s \in Int /\ c.cfg \in Configs /\ c.cfg \in configs
    BY <1>2, HeadType DEF BatchStates, SoundBatch
  <2>3. ~TooLow(c.cfg, Clip(c.cfg, s)) => Clip(c.cfg, s) \in Passed
    <3> HIDE DEF s
    <3> QED BY <2>2, ChecksPass
  <2> QED BY <1>2, <2>1, <2>3, AcceptSound, ExpelSound
<1> QED BY <1>1, <1>2

LEMMA BatchTaskSound ==
  ASSUME NEW c \in BatchStates, SoundBatch(c)
  PROVE  BatchTask(c) \in Seq(SoundStatements)
<1> DEFINE first == IF c.sql = NoRows THEN <<>> ELSE <<[op |-> "insert", rows |-> c.sql]>>
           rest == [i \in DOMAIN c.dels |-> Delete({c.dels[i]})]
<1>1. first \in Seq(SoundStatements)
  <2>1. [op |-> "insert", rows |-> c.sql] \in SoundStatements
    BY DEF SoundBatch, BatchStates, Statements, SoundStatements
  <2> QED BY <2>1
<1>2. rest \in Seq(SoundStatements)
  <2>1. c.dels \in Seq(Players)
    BY DEF BatchStates
  <2>2. Len(c.dels) \in Nat /\ DOMAIN c.dels = 1..Len(c.dels)
    BY <2>1
  <2>3. \A i \in DOMAIN c.dels : Delete({c.dels[i]}) \in SoundStatements
    BY <2>1, DeleteSound
  <2> QED BY <2>2, <2>3
<1>3. BatchTask(c) = first \o rest
  BY DEF BatchTask
<1> QED BY <1>1, <1>2, <1>3

LEMMA ForkBatchSound ==
  ASSUME LimitsInv, NEW c \in BatchStates, SoundBatch(c), ForkBatch(c)
  PROVE  mq' \in Seq(Seq(SoundStatements))
BY BatchTaskSound, QueuesSound DEF ForkBatch, LimitsInv

LEMMA BatchGoOnSound ==
  ASSUME LimitsInv, waiting # <<>>, NEW c \in BatchStates, SoundBatch(c), BatchGoOn(c)
  PROVE  waiting' \in Seq(Sound) /\ mq' \in Seq(Seq(SoundStatements))
<1>1. CASE NextEntry(c).at # "end"
  BY <1>1, NextEntrySound, QueuesSound DEF BatchGoOn, LimitsInv
<1>2. CASE NextEntry(c).at = "end"
  BY <1>2, ForkBatchSound, QueuesSound DEF BatchGoOn
<1> QED BY <1>1, <1>2

LEMMA StartBatchSound == TypeOK /\ LimitsInv /\ StartBatch => LimitsInv'
<1> SUFFICES ASSUME TypeOK, LimitsInv, StartBatch PROVE LimitsInv'
  OBVIOUS
<1> PICK k \in {k \in Calls : k.op \in BatchUpdate} :
      Begin(NextEntry([op |-> k.op, at |-> "start", cfg |-> config,
                       updates |-> k.updates, ins |-> NoRows, sql |-> NoRows,
                       dels |-> <<>>, clear |-> FALSE]))
  BY DEF StartBatch
<1> DEFINE c == [op |-> k.op, at |-> "start", cfg |-> config, updates |-> k.updates,
                 ins |-> NoRows, sql |-> NoRows, dels |-> <<>>, clear |-> FALSE]
<1>1. k.updates \in Seq(Updates) /\ k.updates # <<>>
  BY CallKinds
<1>2. config \in configs /\ config \in Configs
  BY ReceiveConfig DEF Begin
<1>3. c \in BatchStates /\ SoundBatch(c)
  BY <1>1, <1>2, NoRowsType, NoRowsSound DEF BatchStates, SoundBatch
<1>4. NextEntry(c).at # "end"
  BY <1>1 DEF NextEntry, Accept, Expel
<1>5. NextEntry(c) \in Sound
  BY <1>3, <1>4, NextEntrySound
<1> QED BY <1>5, BeginSound

LEMMA BatchZscoreSound == TypeOK /\ LimitsInv /\ BatchZscore => LimitsInv'
<1> SUFFICES ASSUME TypeOK, LimitsInv, BatchZscore PROVE LimitsInv'
  OBVIOUS
<1> DEFINE u == Head(Current.updates)
           sum == CurrentScore(u.player) + u.score
           score == Clip(Current.cfg, sum)
<1>1. /\ waiting # <<>> /\ Current \in BatchCalls /\ Current.updates # <<>>
      /\ Current \in BatchStates /\ SoundBatch(Current)
      /\ Current.cfg \in Configs /\ Current.cfg \in configs
  <2>1. waiting # <<>> /\ Current \in BatchCalls /\ Current.updates # <<>>
    BY ReplyType, Kinds DEF BatchZscore, BatchCalls
  <2> QED BY <2>1, CurrentBatch
<1>2. sum \in Int
  <2>1. u.player \in Players /\ u.score \in Int
    BY <1>1, HeadType
  <2> QED BY <2>1 DEF CurrentScore, TypeOK, Scores
<1>3. \/ ~TooLow(Current.cfg, score) /\ Await(Accept(Current, score)) /\ UNCHANGED mq
      \/ Await(Expel(Current)) /\ UNCHANGED mq
      \/ BatchGoOn(DropEntry(Current))
  BY DEF BatchZscore
<1> HIDE DEF sum
<1>4. waiting' \in Seq(Sound) /\ mq' \in Seq(Seq(SoundStatements))
  <2>1. CASE ~TooLow(Current.cfg, score) /\ Await(Accept(Current, score)) /\ UNCHANGED mq
    <3>1. score \in Passed
      BY <1>1, <1>2, <2>1, ChecksPass
    <3> HIDE DEF score
    <3>2. Accept(Current, score) \in Sound
      BY <1>1, <3>1, AcceptSound
    <3> QED BY <1>1, <2>1, <3>2, QueuesSound DEF LimitsInv
  <2>2. CASE Await(Expel(Current)) /\ UNCHANGED mq
    BY <1>1, <2>2, ExpelSound, QueuesSound DEF LimitsInv
  <2>3. CASE BatchGoOn(DropEntry(Current))
    BY <1>1, <2>3, DropEntrySound, BatchGoOnSound
  <2> QED BY <1>3, <2>1, <2>2, <2>3
<1> QED BY <1>4, ProgressSound DEF BatchZscore

LEMMA BatchHsetSound == TypeOK /\ LimitsInv /\ BatchHset => LimitsInv'
<1> SUFFICES ASSUME TypeOK, LimitsInv, BatchHset PROVE LimitsInv'
  OBVIOUS
<1>1. /\ waiting # <<>> /\ Current \in BatchCalls /\ Current.updates # <<>>
      /\ Current \in BatchStates /\ SoundBatch(Current)
  <2>1. waiting # <<>> /\ Current \in BatchCalls /\ Current.updates # <<>>
    BY ReplyType, Kinds DEF BatchHset, BatchCalls
  <2> QED BY <2>1, CurrentBatch
<1>2. waiting' \in Seq(Sound) /\ mq' \in Seq(Seq(SoundStatements))
  <2>0. PICK d : d = NoteRow(Current)
    OBVIOUS
  <2>3. d \in BatchStates /\ SoundBatch(d) /\ d.updates # <<>>
    BY <1>1, <2>0, NoteSound
  <2>1. CASE Await([d EXCEPT !.at = "b_zrevrank"]) /\ UNCHANGED mq
    <3> DEFINE c == [d EXCEPT !.at = "b_zrevrank"]
    <3>1. c \in BatchCalls
      BY <2>3 DEF BatchStates, BatchCalls
    <3>2. c.ins = d.ins /\ c.sql = d.sql /\ c.cfg = d.cfg
      BY <2>3 DEF BatchStates
    <3> HIDE DEF c
    <3>3. c \in Sound
      BY <2>3, <3>1, <3>2, BatchSound DEF SoundBatch
    <3> QED BY <1>1, <2>1, <3>3, QueuesSound DEF LimitsInv, c
  <2>2. CASE BatchGoOn(DropEntry(d))
    BY <1>1, <2>2, <2>3, DropEntrySound, BatchGoOnSound
  <2> QED BY <2>0, <2>1, <2>2 DEF BatchHset
<1> QED BY <1>2, ProgressSound DEF BatchHset

LEMMA BatchZrevrankSound == TypeOK /\ LimitsInv /\ BatchZrevrank => LimitsInv'
<1> SUFFICES ASSUME TypeOK, LimitsInv, BatchZrevrank PROVE LimitsInv'
  OBVIOUS
<1> DEFINE hit == InCachedPart(Current.cfg, Head(Current.updates).player)
           clear == DropEntry(Current).clear \/ hit
           c == [DropEntry(Current) EXCEPT !.clear = clear]
<1>1. waiting # <<>> /\ DropEntry(Current) \in BatchStates /\ SoundBatch(DropEntry(Current))
  <2>1. waiting # <<>> /\ Current \in BatchCalls /\ Current.updates # <<>>
    BY ReplyType, Kinds DEF BatchZrevrank, BatchCalls
  <2> QED BY <2>1, CurrentBatch, DropEntrySound
<1>2. clear \in BOOLEAN
  OBVIOUS
<1>3. BatchGoOn(c)
  BY DEF BatchZrevrank
<1> HIDE DEF clear
<1>4. /\ c \in BatchStates /\ c.ins = DropEntry(Current).ins
      /\ c.sql = DropEntry(Current).sql /\ c.cfg = DropEntry(Current).cfg
  BY <1>1, <1>2 DEF BatchStates
<1> HIDE DEF c
<1>5. waiting' \in Seq(Sound) /\ mq' \in Seq(Seq(SoundStatements))
  BY <1>1, <1>3, <1>4, BatchGoOnSound DEF SoundBatch
<1> QED BY <1>5, ProgressSound DEF BatchZrevrank

LEMMA BatchZremSound == TypeOK /\ LimitsInv /\ BatchZrem => LimitsInv'
<1> SUFFICES ASSUME TypeOK, LimitsInv, BatchZrem PROVE LimitsInv'
  OBVIOUS
<1>0. PICK d : d = NoteRemoval(Current)
  OBVIOUS
<1>1. waiting # <<>> /\ DropEntry(d) \in BatchStates /\ SoundBatch(DropEntry(d))
  <2>1. waiting # <<>> /\ Current \in BatchCalls /\ Current.updates # <<>>
    BY ReplyType, Kinds DEF BatchZrem, BatchCalls
  <2> QED BY <1>0, <2>1, CurrentBatch, NoteSound, DropEntrySound
<1>2. waiting' \in Seq(Sound) /\ mq' \in Seq(Seq(SoundStatements))
  BY <1>0, <1>1, BatchGoOnSound DEF BatchZrem
<1> QED BY <1>2, ProgressSound DEF BatchZrem

LEMMA BatchZaddSound == TypeOK /\ LimitsInv /\ BatchZadd => LimitsInv'
<1> SUFFICES ASSUME TypeOK, LimitsInv, BatchZadd PROVE LimitsInv'
  OBVIOUS
<1> DEFINE c == [Current EXCEPT !.at = "b_del"]
<1>1. /\ waiting # <<>> /\ Current \in BatchCalls
      /\ Current \in BatchStates /\ SoundBatch(Current)
  BY ReplyType, Kinds, CurrentBatch DEF BatchZadd
<1>2. c \in Sound
  <2>1. c \in BatchCalls
    BY <1>1 DEF BatchCalls
  <2>2. c.ins = Current.ins /\ c.sql = Current.sql /\ c.cfg = Current.cfg
    BY <1>1 DEF BatchStates
  <2> HIDE DEF c
  <2> QED BY <1>1, <2>1, <2>2, BatchSound DEF SoundBatch
<1>3. waiting' \in Seq(Sound)
  BY <1>1, <1>2, QueuesSound DEF BatchZadd, AwaitAt
<1>4. mq' \in Seq(Seq(SoundStatements))
  BY <1>1, ForkBatchSound DEF BatchZadd
<1> QED BY <1>3, <1>4, ProgressSound DEF BatchZadd

(***************************************************************************)
(* remove_player, batch_remove_player and get_player_info: no scores       *)
(***************************************************************************)
LEMMA ScorelessSound == RemoveCalls \cup BatchRemoveCalls \cup InfoCalls \subseteq Sound
<1> SUFFICES ASSUME NEW c \in RemoveCalls \cup BatchRemoveCalls \cup InfoCalls
             PROVE  c \in Sound
  OBVIOUS
<1>1. c \in Coroutines /\ c \notin UpdateCalls /\ c \notin BatchCalls /\ c \notin ReadCalls
  BY DEF Coroutines, UpdateCalls, BatchCalls, ReadCalls, RemoveCalls, BatchRemoveCalls,
         InfoCalls, SingleUpdate, BatchUpdate
<1> QED BY <1>1 DEF Sound

LEMMA StartScorelessSound ==
  TypeOK /\ LimitsInv /\ (StartRemove \/ StartBatchRemove \/ StartInfo) => LimitsInv'
<1> SUFFICES ASSUME TypeOK, LimitsInv, StartRemove \/ StartBatchRemove \/ StartInfo
             PROVE  LimitsInv'
  OBVIOUS
<1>1. CASE StartRemove
  <2> PICK k \in {k \in Calls : k.op = "remove_player"} :
        Begin([op |-> k.op, at |-> "r_zrem", player |-> k.player, removed |-> FALSE])
    BY <1>1 DEF StartRemove
  <2>1. [op |-> k.op, at |-> "r_zrem", player |-> k.player, removed |-> FALSE]
          \in RemoveCalls
    BY CallKinds DEF RemoveCalls
  <2> QED BY <2>1, ScorelessSound, BeginSound
<1>2. CASE StartBatchRemove
  <2> PICK k \in {k \in Calls : k.op = "batch_remove_player"} :
        Begin([op |-> k.op, at |-> "br_del", left |-> k.players, players |-> k.players])
    BY <1>2 DEF StartBatchRemove
  <2>1. [op |-> k.op, at |-> "br_del", left |-> k.players, players |-> k.players]
          \in BatchRemoveCalls
    BY CallKinds DEF BatchRemoveCalls
  <2> QED BY <2>1, ScorelessSound, BeginSound
<1>3. CASE StartInfo
  <2> PICK k \in {k \in Calls : k.op = "get_player_info"} :
        Begin([op |-> k.op, at |-> "i_zscore", player |-> k.player])
    BY <1>3 DEF StartInfo
  <2>1. [op |-> k.op, at |-> "i_zscore", player |-> k.player] \in InfoCalls
    BY CallKinds DEF InfoCalls
  <2> QED BY <2>1, ScorelessSound, BeginSound
<1> QED BY <1>1, <1>2, <1>3

LEMMA RemoveZremSound == TypeOK /\ LimitsInv /\ RemoveZrem => LimitsInv'
<1> SUFFICES ASSUME TypeOK, LimitsInv, RemoveZrem PROVE LimitsInv'
  OBVIOUS
<1> DEFINE removed == board[Current.player] # None
           c == [Current EXCEPT !.at = "r_del", !.removed = removed]
<1>1. waiting # <<>> /\ Current \in RemoveCalls
  BY ReplyType, Kinds DEF RemoveZrem
<1>2. removed \in BOOLEAN
  OBVIOUS
<1>3. Await(c)
  BY DEF RemoveZrem
<1> HIDE DEF removed
<1>4. c \in Sound
  <2>1. c \in RemoveCalls
    BY <1>1, <1>2 DEF RemoveCalls
  <2> QED BY <2>1, ScorelessSound
<1> HIDE DEF c
<1>5. waiting' \in Seq(Sound)
  BY <1>1, <1>3, <1>4, QueuesSound
<1>6. mq' \in Seq(Seq(SoundStatements))
  BY DEF RemoveZrem, LimitsInv
<1> QED BY <1>5, <1>6, ProgressSound DEF RemoveZrem

LEMMA RemoveDelSound == TypeOK /\ LimitsInv /\ RemoveDel => LimitsInv'
<1> SUFFICES ASSUME TypeOK, LimitsInv, RemoveDel PROVE LimitsInv'
  OBVIOUS
<1>1. waiting # <<>> /\ Current \in RemoveCalls
  BY ReplyType, Kinds DEF RemoveDel
<1>2. <<Delete({Current.player})>> \in Seq(SoundStatements)
  BY <1>1, DeleteSound DEF RemoveCalls
<1>3. [Current EXCEPT !.at = "r_delcache"] \in Sound
  <2>1. [Current EXCEPT !.at = "r_delcache"] \in RemoveCalls
    BY <1>1 DEF RemoveCalls
  <2> QED BY <2>1, ScorelessSound
<1>4. waiting' \in Seq(Sound)
  BY <1>1, <1>3, QueuesSound DEF RemoveDel, AwaitAt
<1>5. mq' \in Seq(Seq(SoundStatements))
  BY <1>2, QueuesSound DEF RemoveDel, LimitsInv
<1> QED BY <1>4, <1>5, ProgressSound DEF RemoveDel

LEMMA BatchRemoveDelSound == TypeOK /\ LimitsInv /\ BatchRemoveDel => LimitsInv'
<1> SUFFICES ASSUME TypeOK, LimitsInv, BatchRemoveDel PROVE LimitsInv'
  OBVIOUS
<1> DEFINE label == IF Len(Current.left) > 1 THEN "br_del" ELSE "br_zrem"
           left == Tail(Current.left)
           c == [Current EXCEPT !.left = left, !.at = label]
<1>1. waiting # <<>> /\ Current \in BatchRemoveCalls /\ Current.at = "br_del"
  BY ReplyType, Kinds DEF BatchRemoveDel
<1>2. left \in Seq(Players) /\ (label = "br_del" => left # <<>>)
  <2>1. Current.left \in Seq(Players) /\ Current.left # <<>>
    BY <1>1 DEF BatchRemoveCalls
  <2> QED BY <2>1, TailType
<1>3. label \in {"br_del", "br_zrem"}
  OBVIOUS
<1>4. Await(c)
  BY DEF BatchRemoveDel
<1> HIDE DEF label, left
<1>5. c \in BatchRemoveCalls
  BY <1>1, <1>2, <1>3 DEF BatchRemoveCalls
<1> HIDE DEF c
<1>6. waiting' \in Seq(Sound)
  BY <1>1, <1>4, <1>5, ScorelessSound, QueuesSound
<1>7. mq' \in Seq(Seq(SoundStatements))
  BY DEF BatchRemoveDel, LimitsInv
<1> QED BY <1>6, <1>7, ProgressSound DEF BatchRemoveDel

LEMMA BatchRemoveZremSound == TypeOK /\ LimitsInv /\ BatchRemoveZrem => LimitsInv'
<1> SUFFICES ASSUME TypeOK, LimitsInv, BatchRemoveZrem PROVE LimitsInv'
  OBVIOUS
<1> DEFINE named == {Current.players[i] : i \in DOMAIN Current.players}
           c == [Current EXCEPT !.at = "r_delcache"]
<1>1. waiting # <<>> /\ Current \in BatchRemoveCalls
  BY ReplyType, Kinds DEF BatchRemoveZrem
<1>2. <<Delete(named)>> \in Seq(SoundStatements)
  <2>1. named \subseteq Players
    BY <1>1 DEF BatchRemoveCalls
  <2> HIDE DEF named
  <2> QED BY <2>1, DeleteSound
<1>3. c \in Sound
  <2>1. c \in BatchRemoveCalls
    BY <1>1 DEF BatchRemoveCalls
  <2> QED BY <2>1, ScorelessSound
<1>4. (Fork(<<Delete(named)>>) \/ UNCHANGED mq) /\ (Await(c) \/ Return)
  BY DEF BatchRemoveZrem, AwaitAt
<1> HIDE DEF named, c
<1>5. waiting' \in Seq(Sound)
  BY <1>1, <1>3, <1>4, QueuesSound
<1>6. mq' \in Seq(Seq(SoundStatements))
  BY <1>2, <1>4, QueuesSound DEF LimitsInv
<1> QED BY <1>5, <1>6, ProgressSound DEF BatchRemoveZrem

LEMMA InfoStepSound == TypeOK /\ LimitsInv /\ InfoStep => LimitsInv'
<1> SUFFICES ASSUME TypeOK, LimitsInv, InfoStep PROVE LimitsInv'
  OBVIOUS
<1>1. waiting # <<>> /\ Current \in InfoCalls
  BY ReplyType, Kinds DEF InfoStep
<1>2. \A label \in {"i_zrevrank", "i_hget"} : [Current EXCEPT !.at = label] \in InfoCalls
  BY <1>1 DEF InfoCalls
<1>3. waiting' \in Seq(Sound)
  BY <1>1, <1>2, ScorelessSound, QueuesSound DEF InfoStep, AwaitAt
<1>4. mq' \in Seq(Seq(SoundStatements))
  BY DEF InfoStep, LimitsInv
<1> QED BY <1>3, <1>4, ProgressSound DEF InfoStep

(***************************************************************************)
(* get_top_n and get_range: a list read from the board is sound            *)
(***************************************************************************)
LEMMA ReadSound ==
  ASSUME NEW c \in ReadCalls, c.list \in SoundLists
  PROVE  c \in Sound
<1>1. c \notin UpdateCalls /\ c \notin BatchCalls /\ c \in Coroutines
  BY DEF UpdateCalls, BatchCalls, ReadCalls, SingleUpdate, BatchUpdate, Coroutines
<1> QED BY <1>1 DEF Sound, SoundRead

LEMMA SlicesSound ==
  ASSUME TypeOK, LimitsInv, NEW first, NEW last
  PROVE  Slice(Ranking, first, last) \in SoundLists
<1>1. Slice(Ranking, first, last) \in Lists
  BY RankingType, SliceType DEF TypeOK
<1>2. \A e \in Ranking : e.score \in Passed
  BY DEF Ranking, Entry, OnBoard, LimitsInv
<1> QED BY <1>1, <1>2 DEF Slice, SoundLists

LEMMA ReadStateSound ==
  ASSUME TypeOK, NEW k \in Calls, k.op \in {"get_top_n", "get_range"},
         NEW first \in Nat, NEW last \in Nat
  PROVE  ReadState(k, first, last) \in Sound
<1> DEFINE c == ReadState(k, first, last)
<1>1. c \in Coroutines
  BY ReadStateType
<1>2. c.at \in {"get", "zrevrange"} /\ c.list = {}
  BY DEF ReadState
<1> HIDE DEF c
<1> QED BY <1>1, <1>2, Kinds, NoRowsSound, ReadSound DEF c

LEMMA StartReadSound == TypeOK /\ LimitsInv /\ (StartTopN \/ StartRange) => LimitsInv'
<1> SUFFICES ASSUME TypeOK, LimitsInv, StartTopN \/ StartRange PROVE LimitsInv'
  OBVIOUS
<1>1. CASE StartTopN
  <2> PICK k \in {k \in Calls : k.op = "get_top_n"} :
        Begin(ReadState(k, 1, IF k.n # None THEN k.n
                              ELSE IF config.cache_num > 0 THEN config.cache_num ELSE 100))
    BY <1>1 DEF StartTopN
  <2> DEFINE n == IF k.n # None THEN k.n
                  ELSE IF config.cache_num > 0 THEN config.cache_num ELSE 100
  <2>1. n \in Nat
    BY CallKinds DEF TypeOK, Configs
  <2> HIDE DEF n
  <2>2. ReadState(k, 1, n) \in Sound
    BY <2>1, ReadStateSound
  <2> QED BY <2>2, BeginSound DEF n
<1>2. CASE StartRange
  <2> PICK k \in {k \in Calls : k.op = "get_range" /\ k.first <= k.last} :
        Begin(ReadState(k, k.first, k.last))
    BY <1>2 DEF StartRange
  <2>1. ReadState(k, k.first, k.last) \in Sound
    BY CallKinds, ReadStateSound
  <2> QED BY <2>1, BeginSound
<1> QED BY <1>1, <1>2

\* A reader that has a sound list stores it or is answered.
LEMMA StoreOrAnswerSound ==
  ASSUME LimitsInv, waiting # <<>>, NEW c \in ReadCalls, c.list \in SoundLists,
         StoreOrAnswer(c)
  PROVE  waiting' \in Seq(Sound)
<1> DEFINE d == [c EXCEPT !.at = "setex"]
<1>1. d \in ReadCalls /\ d.list = c.list
  BY DEF ReadCalls
<1>2. Await(d) \/ Return
  BY DEF StoreOrAnswer
<1> HIDE DEF d
<1> QED BY <1>1, <1>2, ReadSound, QueuesSound

LEMMA CurrentRead ==
  ASSUME LimitsInv, waiting # <<>>, Current \in ReadCalls
  PROVE  Current.list \in SoundLists
BY CurrentSound DEF Sound, SoundRead

LEMMA ReadCacheSound == TypeOK /\ LimitsInv /\ ReadCache => LimitsInv'
<1> SUFFICES ASSUME TypeOK, LimitsInv, ReadCache PROVE LimitsInv'
  OBVIOUS
<1> DEFINE c == [Current EXCEPT !.at = "zrevrange"]
<1>1. waiting # <<>> /\ Current \in ReadCalls
  BY ReplyType, Kinds DEF ReadCache
<1>2. c \in ReadCalls /\ c.list = Current.list
  BY <1>1 DEF ReadCalls
<1>3. Await(c) \/ Return
  BY DEF ReadCache, AwaitAt
<1> HIDE DEF c
<1>4. waiting' \in Seq(Sound)
  BY <1>1, <1>2, <1>3, CurrentRead, ReadSound, QueuesSound
<1>5. mq' \in Seq(Seq(SoundStatements))
  BY DEF ReadCache, LimitsInv
<1> QED BY <1>4, <1>5, ProgressSound DEF ReadCache

LEMMA ReadRankingSound == TypeOK /\ LimitsInv /\ ReadRanking => LimitsInv'
<1> SUFFICES ASSUME TypeOK, LimitsInv, ReadRanking PROVE LimitsInv'
  OBVIOUS
<1> DEFINE list == Slice(Ranking, Current.first, Current.last)
           c == [Current EXCEPT !.list = list]
           d == [c EXCEPT !.at = "pipeline"]
<1>1. waiting # <<>> /\ Current \in ReadCalls
  BY ReplyType, Kinds DEF ReadRanking
<1>2. list \in SoundLists /\ list \in Lists
  BY SlicesSound DEF SoundLists
<1>3. Await(d) \/ StoreOrAnswer(c)
  BY DEF ReadRanking
<1> HIDE DEF list
<1>4. c \in ReadCalls /\ c.list = list
  BY <1>1, <1>2 DEF ReadCalls
<1> HIDE DEF c
<1>5. d \in ReadCalls /\ d.list = list
  BY <1>4 DEF ReadCalls
<1> HIDE DEF d
<1>6. waiting' \in Seq(Sound)
  BY <1>1, <1>2, <1>3, <1>4, <1>5, ReadSound, QueuesSound, StoreOrAnswerSound
<1>7. mq' \in Seq(Seq(SoundStatements))
  BY DEF ReadRanking, LimitsInv
<1> QED BY <1>6, <1>7, ProgressSound DEF ReadRanking

LEMMA ReadEndSound == TypeOK /\ LimitsInv /\ (ReadExtras \/ StoreCache) => LimitsInv'
<1> SUFFICES ASSUME TypeOK, LimitsInv, ReadExtras \/ StoreCache PROVE LimitsInv'
  OBVIOUS
<1>1. waiting # <<>> /\ Current \in ReadCalls
  BY ReplyType, Kinds DEF ReadExtras, StoreCache
<1>2. waiting' \in Seq(Sound)
  BY <1>1, CurrentRead, StoreOrAnswerSound, QueuesSound DEF ReadExtras, StoreCache
<1>3. mq' \in Seq(Seq(SoundStatements))
  BY DEF ReadExtras, StoreCache, LimitsInv
<1> QED BY <1>2, <1>3, ProgressSound DEF ReadExtras, StoreCache

(***************************************************************************)
(* Configuration, MySQL, start and faults                                  *)
(***************************************************************************)
\* What is kept while configurations are added.
LEMMA KeptSound ==
  ASSUME LimitsInv, configs \subseteq configs', UNCHANGED <<board, rows, cache>>
  PROVE  /\ \A p \in Players : board'[p] # None => board'[p] \in Passed'
         /\ rows' \in SoundTables'
         /\ cache' \in SoundLists' \cup {None}
         /\ waiting \in Seq(Sound') /\ mq \in Seq(Seq(SoundStatements'))
<1>1. /\ Passed \subseteq Passed' /\ SoundTables \subseteq SoundTables'
      /\ SoundLists \subseteq SoundLists' /\ SoundStatements \subseteq SoundStatements'
      /\ Sound \subseteq Sound'
  BY MoreConfigs
<1>2. waiting \in Seq(Sound')
  BY <1>1 DEF LimitsInv
<1>3. Seq(SoundStatements) \subseteq Seq(SoundStatements')
  BY <1>1
<1>4. mq \in Seq(Seq(SoundStatements'))
  BY <1>3 DEF LimitsInv
<1> QED BY <1>1, <1>2, <1>4 DEF LimitsInv

LEMMA ConfigSound ==
  TypeOK /\ LimitsInv /\ (SetConfig \/ LoadConfig \/ LoadConfigFails) => LimitsInv'
<1> SUFFICES ASSUME TypeOK, LimitsInv, SetConfig \/ LoadConfig \/ LoadConfigFails
             PROVE  LimitsInv'
  OBVIOUS
<1>1. /\ configs' = configs \cup {config'}
      /\ UNCHANGED <<board, rows, cache, waiting, mq>>
  BY DEF SetConfig, LoadConfig, LoadConfigFails, redisVars, mysqlVars
<1>2. configs \subseteq configs' /\ config' \in configs'
  BY <1>1
<1> QED BY <1>1, <1>2, KeptSound DEF LimitsInv

\* A restart forgets the calls and the tasks.
LEMMA RestartSound == TypeOK /\ LimitsInv /\ Restart => LimitsInv'
<1> SUFFICES ASSUME TypeOK, LimitsInv, Restart PROVE LimitsInv'
  OBVIOUS
<1>1. /\ configs' = configs \cup Unloaded /\ UNCHANGED <<board, rows, cache>>
      /\ waiting' = <<>> /\ mq' = <<>>
      /\ phase' = "connect_redis" /\ config' = default_config
  BY DEF Restart, redisVars
<1>2. waiting' \in Seq(Sound') /\ mq' \in Seq(Seq(SoundStatements'))
  BY <1>1
<1>3. EarlyCalls => config' \in configs'
  BY <1>1 DEF Unloaded
<1> QED BY <1>1, <1>2, <1>3, KeptSound DEF LimitsInv

LEMMA QuietSound ==
  TypeOK /\ LimitsInv
    /\ (ConnectRedis \/ ConnectMysql \/ CacheExpires \/ SaveConfig \/ SaveConfigFails
          \/ LoseConnection \/ AbortCalls)
    => LimitsInv'
<1> SUFFICES ASSUME TypeOK, LimitsInv,
                    ConnectRedis \/ ConnectMysql \/ CacheExpires \/ SaveConfig
                      \/ SaveConfigFails \/ LoseConnection \/ AbortCalls
             PROVE  LimitsInv'
  OBVIOUS
<1>1. /\ UNCHANGED <<board, rows, mq, config, configs>>
      /\ cache' = cache \/ cache' = None
      /\ waiting' = waiting \/ waiting' = <<>>
      /\ phase' = "ready" => phase = "ready"
  BY DEF ConnectRedis, ConnectMysql, Connect, CacheExpires, SaveConfig, SaveConfigFails,
         LoseConnection, AbortCalls, redisVars, mysqlVars
<1>2. <<>> \in Seq(Sound) /\ waiting \in Seq(Sound)
  BY DEF LimitsInv
<1>3. waiting' \in Seq(Sound)
  BY <1>1, <1>2
<1> QED BY <1>1, <1>3, SameConfigs DEF LimitsInv

LEMMA ExecuteUnansweredSound == TypeOK /\ LimitsInv /\ ExecuteUnanswered => LimitsInv'
<1> SUFFICES ASSUME TypeOK, LimitsInv, ExecuteUnanswered PROVE LimitsInv'
  OBVIOUS
<1>1. /\ waiting # <<>> /\ Execute(Current) /\ Return
      /\ UNCHANGED <<rows, mq, phase, config, configs>>
  BY DEF ExecuteUnanswered, mysqlVars
<1>2. Current \in Sound /\ waiting' \in Seq(Sound)
  BY <1>1, CurrentSound, QueuesSound
<1>3. /\ \A p \in Players : board'[p] # None => board'[p] \in Passed
      /\ cache' \in SoundLists \cup {None}
  BY <1>1, <1>2, ExecuteSound
<1> QED BY <1>1, <1>2, <1>3, SameConfigs DEF LimitsInv

\* A statement of a task is executed or fails.
LEMMA StatementSound ==
  TypeOK /\ LimitsInv /\ (MysqlExecute \/ MysqlExecuteFails) => LimitsInv'
<1> SUFFICES ASSUME TypeOK, LimitsInv, MysqlExecute \/ MysqlExecuteFails PROVE LimitsInv'
  OBVIOUS
<1>1. /\ mq # <<>> /\ NextTask
      /\ rows' = rows \/ rows' = RowsAfter(Head(Head(mq)))
      /\ UNCHANGED <<board, cache, waiting, phase, config, configs>>
  BY DEF MysqlExecute, MysqlExecuteFails, redisVars
<1>2. mq \in Seq(Seq(SoundStatements)) /\ mq \in Seq(Seq(Statements) \ {<<>>})
  BY DEF LimitsInv, TypeOK
<1>3. Head(mq) \in Seq(SoundStatements) /\ Tail(mq) \in Seq(Seq(SoundStatements))
  BY <1>1, <1>2
<1>4. Head(mq) # <<>>
  BY <1>1, <1>2
<1>5. Head(Head(mq)) \in SoundStatements /\ Tail(Head(mq)) \in Seq(SoundStatements)
  BY <1>3, <1>4
<1>6. mq' \in Seq(Seq(SoundStatements))
  BY <1>1, <1>3, <1>5 DEF NextTask
<1>7. rows' \in SoundTables
  BY <1>1, <1>5, RowsSound DEF LimitsInv
<1> QED BY <1>1, <1>6, <1>7, SameConfigs DEF LimitsInv

(***************************************************************************)
(* The theorem                                                             *)
(***************************************************************************)
LEMMA InitSound == Init => LimitsInv
<1> SUFFICES ASSUME Init PROVE LimitsInv
  OBVIOUS
<1>1. waiting \in Seq(Sound) /\ mq \in Seq(Seq(SoundStatements))
  BY DEF Init, FirstStart
<1>2. \A p \in Players : board[p] = None
  BY DEF Init, FirstStart, NoRows
<1>3. rows \in SoundTables /\ cache = None
  BY NoRowsSound DEF Init, FirstStart
<1>4. phase = "ready" \/ EarlyCalls => config \in configs
  BY DEF Init, FirstStart, Unloaded
<1> QED BY <1>1, <1>2, <1>3, <1>4 DEF LimitsInv

LEMMA NextSound == TypeOK /\ LimitsInv /\ [Next]_vars => LimitsInv'
<1> SUFFICES ASSUME TypeOK, LimitsInv, [Next]_vars PROVE LimitsInv'
  OBVIOUS
<1>1. CASE Initialize
  BY <1>1, QuietSound, ConfigSound DEF Initialize
<1>2. CASE Start
  BY <1>2, StartUpdateDirectSound, StartUpdateSound, StartBatchSound, StartScorelessSound,
     StartReadSound, ConfigSound
     DEF Start
<1>3. CASE Resume
  BY <1>3, UpdateRestSound, UpdateZscoreSound, UpdateWriteSound, BatchZscoreSound,
     BatchHsetSound, BatchZrevrankSound, BatchZremSound, BatchZaddSound, RemoveZremSound,
     RemoveDelSound, BatchRemoveDelSound, BatchRemoveZremSound, ReadCacheSound,
     ReadRankingSound, ReadEndSound, InfoStepSound
     DEF Resume
<1>4. CASE CacheExpires \/ SaveConfig \/ MysqlExecute
  BY <1>4, QuietSound, StatementSound
<1>5. CASE Faulty
  BY <1>5, StatementSound, QuietSound, ConfigSound, ExecuteUnansweredSound, RestartSound
     DEF Faulty
<1>6. CASE UNCHANGED vars
  BY <1>6, SameConfigs DEF LimitsInv, vars
<1> QED BY <1>1, <1>2, <1>3, <1>4, <1>5, <1>6 DEF Next

\* LimitsHeld for every set of players, calls and stored configurations: the
\* score a call checked under the configuration it read at its start is the
\* score it writes, however many commands, faults and changes of the
\* configuration lie between, and the list a reader caches is one of the board.
THEOREM LimitsHold == Spec => []LimitsHeld
<1>1. Init => LimitsInv
  BY InitSound
<1>2. TypeOK /\ LimitsInv /\ [Next]_vars => LimitsInv'
  BY NextSound
<1>3. LimitsInv => LimitsHeld
  <2> SUFFICES ASSUME LimitsInv PROVE LimitsHeld
    OBVIOUS
  <2>1. \A p \in Players : board[p] # None => Allowed(board[p])
    BY DEF LimitsInv, Passed
  <2>2. \A p \in Players : rows[p] # None => Allowed(rows[p].score)
    BY DEF LimitsInv, SoundTables, Passed
  <2>3. cache # None => \A e \in cache : Allowed(e.score)
    BY DEF LimitsInv, SoundLists, Passed
  <2> QED BY <2>1, <2>2, <2>3 DEF LimitsHeld
<1> QED BY <1>1, <1>2, <1>3, TypeCorrect, PTL DEF Spec

-----------------------------------------------------------------------------
(***************************************************************************)
(* Writes reach MySQL in the order of the board                            *)
(***************************************************************************)
Writes == [player: Players, score: Scores]

Forks(queue) == Forking(queue)[Len(queue)]

\* A call has one write to fork, or none.
LEMMA UnforkedType ==
  ASSUME NEW c \in Coroutines
  PROVE  /\ Unforked(c) \in Seq(Writes)
         /\ c.at \notin {"hset", "r_del"} => Unforked(c) = <<>>
         /\ c.at = "hset" => Unforked(c) = <<[player |-> c.player, score |-> c.score]>>
         /\ c.at = "r_del" =>
              Unforked(c) = IF c.removed THEN <<[player |-> c.player, score |-> None]>>
                            ELSE <<>>
<1>1. c.at = "hset" => c.player \in Players /\ c.score \in Int
  BY Kinds DEF UpdateCalls
<1>2. c.at = "r_del" => c.player \in Players
  BY Kinds DEF RemoveCalls
<1>3. /\ c.at \notin {"hset", "r_del"} => Unforked(c) = <<>>
      /\ c.at = "hset" => Unforked(c) = <<[player |-> c.player, score |-> c.score]>>
      /\ c.at = "r_del" =>
           Unforked(c) = IF c.removed THEN <<[player |-> c.player, score |-> None]>>
                         ELSE <<>>
  BY DEF Unforked
<1>4. ASSUME NEW w \in Writes PROVE <<w>> \in Seq(Writes)
  OBVIOUS
<1>5. <<>> \in Seq(Writes)
  OBVIOUS
<1>6. c.at = "hset" => [player |-> c.player, score |-> c.score] \in Writes
  BY <1>1 DEF Writes, Scores
<1>7. c.at = "r_del" => [player |-> c.player, score |-> None] \in Writes
  BY <1>2 DEF Writes, Scores
<1>8. Unforked(c) \in Seq(Writes)
  BY <1>3, <1>4, <1>5, <1>6, <1>7
<1> QED BY <1>3, <1>8

\* Forking collects the writes of the calls one by one.
LEMMA ForkingSteps ==
  ASSUME NEW queue \in Seq(Coroutines)
  PROVE  /\ Forking(queue)[0] = <<>>
         /\ \A i \in 1 .. Len(queue) :
              Forking(queue)[i] = Forking(queue)[i - 1] \o Unforked(queue[i])
         /\ \A i \in 0 .. Len(queue) : Forking(queue)[i] \in Seq(Writes)
<1> DEFINE X == Seq(Writes)
           n == Len(queue)
           Longer(y, i) == y \o Unforked(queue[i])
           Step == [z \in X \X (1 .. n) |-> Longer(z[1], z[2])]
           out == Forking(queue)
<1>1. n \in Nat /\ <<>> \in X
  OBVIOUS
<1>2. ASSUME NEW y \in X, NEW i \in 1 .. n PROVE Longer(y, i) \in X
  <2>1. queue[i] \in Coroutines
    OBVIOUS
  <2>2. Unforked(queue[i]) \in X
    BY <2>1, UnforkedType DEF X
  <2> HIDE DEF X
  <2>3. y \o Unforked(queue[i]) \in X
    <3> DEFINE w == Unforked(queue[i])
    <3>1. w \in Seq(Writes) /\ y \in Seq(Writes)
      BY <2>2 DEF X
    <3> HIDE DEF w
    <3>2. y \o w \in Seq(Writes)
      BY <3>1
    <3> QED BY <3>2 DEF X, w
  <2> QED BY <2>3
<1>3. out = CHOOSE f : f = [i \in 0 .. n |-> IF i = 0 THEN <<>> ELSE Longer(f[i - 1], i)]
  BY DEF Forking
<1> HIDE DEF X, Longer
<1>4. Step \in [X \X (1 .. n) -> X]
  BY <1>2
<1>5. \A y \in X, i \in 1 .. n : Step[<<y, i>>] = Longer(y, i)
  OBVIOUS
<1> HIDE DEF Step
<1>6. \E f \in [0 .. n -> X] :
         f = [i \in 0 .. n |-> IF i = 0 THEN <<>> ELSE Longer(f[i - 1], i)]
  <2>1. PICK f \in [0 .. n -> X] : IsRun(f, n, <<>>, Step)
    BY <1>1, <1>4, LoopExists
  <2>2. ASSUME NEW i \in 0 .. n
        PROVE  f[i] = IF i = 0 THEN <<>> ELSE Longer(f[i - 1], i)
    <3>1. f[i] = IF i = 0 THEN <<>> ELSE Step[<<f[i - 1], i>>]
      BY <2>1 DEF IsRun
    <3>2. i # 0 => i - 1 \in 0 .. n /\ i \in 1 .. n
      BY <1>1
    <3> QED BY <1>5, <3>1, <3>2
  <2> QED BY <2>2
<1> HIDE DEF out
<1>7. out = [i \in 0 .. n |-> IF i = 0 THEN <<>> ELSE Longer(out[i - 1], i)]
  BY <1>3, <1>6
<1>8. out[0] = <<>>
  BY <1>1, <1>7
<1>9. ASSUME NEW i \in 1 .. n PROVE out[i] = Longer(out[i - 1], i)
  <2>1. i \in 0 .. n /\ i # 0
    BY <1>1
  <2> QED BY <1>7, <2>1
<1>10. ASSUME NEW i \in 1 .. n, out[i - 1] \in X PROVE out[i] \in X
  BY <1>2, <1>9, <1>10
<1>11. \A i \in 0 .. n : out[i] \in X
  BY <1>1, <1>8, <1>10, Loop
<1> QED BY <1>8, <1>9, <1>11 DEF out, X, Longer

LEMMA ForksType ==
  ASSUME NEW queue \in Seq(Coroutines)
  PROVE  Forks(queue) \in Seq(Writes)
<1> DEFINE n == Len(queue)
<1>1. n \in 0 .. n
  OBVIOUS
<1> HIDE DEF n
<1> QED BY <1>1, ForkingSteps DEF Forks, n

\* A call that joins the queue adds its write at the end.
LEMMA ForksAppend ==
  ASSUME NEW queue \in Seq(Coroutines), NEW c \in Coroutines
  PROVE  Forks(Append(queue, c)) = Forks(queue) \o Unforked(c)
<1> DEFINE n == Len(queue)
           longer == Append(queue, c)
           before == Forking(queue)
           after == Forking(longer)
           same == [i \in 0 .. n |-> after[i] = before[i]]
<1>1. /\ n \in Nat /\ longer \in Seq(Coroutines) /\ Len(longer) = n + 1
      /\ longer[n + 1] = c /\ \A i \in 1 .. n : longer[i] = queue[i]
  OBVIOUS
<1> HIDE DEF longer
<1>2. /\ before[0] = <<>>
      /\ \A i \in 1 .. n : before[i] = before[i - 1] \o Unforked(queue[i])
  BY ForkingSteps
<1>3. /\ after[0] = <<>>
      /\ \A i \in 1 .. n + 1 : after[i] = after[i - 1] \o Unforked(longer[i])
  BY <1>1, ForkingSteps
<1> HIDE DEF before, after
<1>4. \A i \in 0 .. n : same[i] \in {TRUE}
  <2>1. same[0] \in {TRUE}
    <3>1. 0 \in 0 .. n
      BY <1>1
    <3> HIDE DEF n
    <3> QED BY <3>1, <1>2, <1>3
  <2>2. ASSUME NEW i \in 1 .. n, same[i - 1] \in {TRUE} PROVE same[i] \in {TRUE}
    <3>1. i - 1 \in 0 .. n /\ i \in 0 .. n /\ i \in 1 .. n + 1
      BY <1>1
    <3>2. after[i - 1] = before[i - 1]
      BY <2>2, <3>1
    <3>3. after[i] = before[i]
      BY <1>1, <1>2, <1>3, <3>1, <3>2
    <3> QED BY <3>1, <3>3
  <2> HIDE DEF same
  <2> QED BY <1>1, <2>1, <2>2, Loop
<1>5. after[n] = before[n]
  <2>1. n \in 0 .. n
    BY <1>1
  <2>2. same[n] \in {TRUE}
    BY <1>4, <2>1
  <2> HIDE DEF n
  <2> QED BY <2>1, <2>2
<1>6. after[n + 1] = after[n] \o Unforked(c)
  <2>1. PICK j \in 1 .. n + 1 : j = n + 1 /\ j - 1 = n
    BY <1>1
  <2>2. after[j] = after[j - 1] \o Unforked(longer[j])
    BY <1>3
  <2>3. longer[j] = c
    BY <1>1, <2>1
  <2> HIDE DEF n
  <2> QED BY <2>1, <2>2, <2>3
<1> QED BY <1>1, <1>5, <1>6 DEF Forks, before, after, longer

\* The call at the head of the queue has the oldest write.
LEMMA ForksHead ==
  ASSUME NEW queue \in Seq(Coroutines), queue # <<>>
  PROVE  Forks(queue) = Unforked(Head(queue)) \o Forks(Tail(queue))
<1> DEFINE rest == Tail(queue)
           n == Len(rest)
           first == Unforked(Head(queue))
           whole == Forking(queue)
           part == Forking(rest)
           same == [i \in 0 .. n |-> whole[i + 1] = first \o part[i]]
<1>1. /\ n \in Nat /\ rest \in Seq(Coroutines) /\ Len(queue) = n + 1
      /\ Head(queue) = queue[1] /\ Head(queue) \in Coroutines
      /\ \A i \in 1 .. n : rest[i] = queue[i + 1] /\ rest[i] \in Coroutines
  OBVIOUS
<1> HIDE DEF rest
<1>2. first \in Seq(Writes) /\ \A i \in 1 .. n : Unforked(rest[i]) \in Seq(Writes)
  BY <1>1, UnforkedType
<1>3. /\ whole[0] = <<>>
      /\ \A i \in 1 .. n + 1 : whole[i] = whole[i - 1] \o Unforked(queue[i])
  BY <1>1, ForkingSteps
<1>4. /\ part[0] = <<>>
      /\ \A i \in 1 .. n : part[i] = part[i - 1] \o Unforked(rest[i])
      /\ \A i \in 0 .. n : part[i] \in Seq(Writes)
  BY <1>1, ForkingSteps
<1> HIDE DEF whole, part
<1>5. whole[1] = first
  <2>1. whole[1] = <<>> \o Unforked(queue[1])
    <3>1. 1 \in 1 .. n + 1 /\ 1 - 1 = 0
      BY <1>1
    <3> QED BY <1>3, <3>1
  <2>2. Unforked(queue[1]) = first
    BY <1>1
  <2> HIDE DEF first
  <2> QED BY <1>2, <2>1, <2>2
<1> HIDE DEF first
<1>6. \A i \in 0 .. n : same[i] \in {TRUE}
  <2>1. same[0] \in {TRUE}
    <3>1. first \o <<>> = first
      BY <1>2
    <3>2. 0 \in 0 .. n /\ whole[0 + 1] = first \o part[0]
      BY <1>1, <1>4, <1>5, <3>1
    <3> HIDE DEF n
    <3> QED BY <3>2
  <2>2. ASSUME NEW i \in 1 .. n, same[i - 1] \in {TRUE} PROVE same[i] \in {TRUE}
    <3>1. i - 1 \in 0 .. n /\ i \in 0 .. n /\ i + 1 \in 1 .. n + 1 /\ i - 1 + 1 = i
      BY <1>1
    <3>2. whole[i] = first \o part[i - 1]
      BY <2>2, <3>1
    <3> DEFINE p == part[i - 1]
               u == Unforked(rest[i])
    <3>3. whole[i + 1] = whole[i] \o u
      <4>1. PICK j \in 1 .. n + 1 : j = i + 1 /\ j - 1 = i
        BY <3>1
      <4>2. whole[j] = whole[j - 1] \o Unforked(queue[j])
        BY <1>3
      <4>3. Unforked(queue[j]) = u
        BY <1>1, <4>1
      <4> HIDE DEF u, n
      <4> QED BY <4>1, <4>2, <4>3
    <3>4. part[i] = p \o u
      BY <1>4
    <3>5. p \in Seq(Writes) /\ u \in Seq(Writes)
      BY <1>2, <1>4, <3>1
    <3> HIDE DEF p, u
    <3>6. (first \o p) \o u = first \o (p \o u)
      <4>1. first \in Seq(Writes)
        BY <1>2
      <4> HIDE DEF n
      <4> QED BY <3>5, <4>1, ConcatAssociative, SMTT(20)
    <3>7. whole[i + 1] = first \o part[i]
      BY <3>2, <3>3, <3>4, <3>6 DEF p
    <3> QED BY <3>1, <3>7
  <2> HIDE DEF same
  <2> QED BY <1>1, <2>1, <2>2, Loop
<1>7. whole[n + 1] = first \o part[n]
  <2>1. n \in 0 .. n
    BY <1>1
  <2>2. same[n] \in {TRUE}
    BY <1>6, <2>1
  <2> HIDE DEF n
  <2> QED BY <2>1, <2>2
<1> QED BY <1>1, <1>7 DEF Forks, whole, part, first, rest

\* What the proofs need of two sequences, of which a write leaves the second
\* for the first or is added to the second.
LEMMA Regrouped ==
  ASSUME NEW X, NEW q \in Seq(X), NEW f \in Seq(X), NEW w \in X
  PROVE  /\ <<>> \o f = f /\ f \o <<>> = f
         /\ q \o (f \o <<w>>) = Append(q \o f, w)
         /\ Append(q, w) \o f = q \o (<<w>> \o f)
         /\ q # <<>> => /\ Head(q \o f) = Head(q) /\ Tail(q \o f) = Tail(q) \o f
                        /\ q \o f # <<>>
<1>1. <<>> \o f = f /\ f \o <<>> = f
  OBVIOUS
<1>2. q \o (f \o <<w>>) = Append(q \o f, w)
  OBVIOUS
<1>3. Append(q, w) \o f = q \o (<<w>> \o f)
  OBVIOUS
<1>4. q # <<>> => Head(q \o f) = Head(q) /\ q \o f # <<>>
  OBVIOUS
<1>5. q # <<>> => Tail(q \o f) = Tail(q) \o f
  OBVIOUS
<1> QED BY <1>1, <1>2, <1>3, <1>4, <1>5

-----------------------------------------------------------------------------
\* A call that forks its write, if any, at its second command.
Prompt(c) ==
    /\ c.op \notin BatchUpdate \cup {"batch_remove_player"}
    /\ c.op \in SingleUpdate =>
          /\ c.at # "zrem" /\ ~c.cfg.open_min /\ ~OnlyScore(c)
          /\ c.at = "zscore" => c.op = "update_score"
PromptCalls == {c \in Coroutines : Prompt(c)}
PromptTasks ==
    {<<Insert(p, score, extra)>> : p \in Players, score \in Int, extra \in Texts}
        \cup {<<Delete({p})>> : p \in Players}

\* The inductive invariant: all calls and tasks are of these kinds, and there
\* are none before the service is ready.
PromptInv ==
    /\ faults = 0 /\ ~down /\ ~config.open_min
    /\ phase # "ready" => waiting = <<>> /\ mq = <<>> /\ stored \in Loadable
    /\ waiting \in Seq(PromptCalls)
    /\ mq \in Seq(PromptTasks)

\* The write of a statement.
LEMMA PendingOfInsert ==
  ASSUME NEW p \in Players, NEW score \in Int, NEW extra \in Texts
  PROVE  PendingOf(Insert(p, score, extra)) = [player |-> p, score |-> score]
<1> DEFINE s == Insert(p, score, extra)
<1>1. /\ s.op = "insert" /\ s.rows[p] = [score |-> score, extra |-> extra]
      /\ \A q \in Players : q # p => s.rows[q] = None
  BY DEF Insert, NoRows
<1>2. s.rows[p] # None
  BY <1>1, RankAssumption
<1> HIDE DEF s
<1>3. (CHOOSE q \in Players : s.rows[q] # None) = p
  BY <1>1, <1>2
<1>4. s.rows[p].score = score
  BY <1>1
<1> QED BY <1>1, <1>3, <1>4 DEF PendingOf, s

LEMMA PendingOfDelete ==
  ASSUME NEW p \in Players
  PROVE  PendingOf(Delete({p})) = [player |-> p, score |-> None]
<1>1. (CHOOSE q \in {p} : TRUE) = p
  OBVIOUS
<1> QED BY <1>1 DEF PendingOf, Delete

LEMMA TaskKinds ==
  ASSUME NEW t \in PromptTasks
  PROVE  \/ \E p \in Players : t = <<Delete({p})>>
         \/ \E p \in Players, score \in Int, extra \in Texts :
               t = <<Insert(p, score, extra)>>
BY DEF PromptTasks

LEMMA PendingOfTask ==
  ASSUME NEW t \in PromptTasks
  PROVE  PendingOf(Head(t)) \in Writes /\ Len(t) = 1
<1>1. CASE \E p \in Players : t = <<Delete({p})>>
  <2> PICK p \in Players : t = <<Delete({p})>>
    BY <1>1
  <2> DEFINE s == Delete({p})
  <2>1. Head(<<s>>) = s /\ Len(<<s>>) = 1
    OBVIOUS
  <2>2. PendingOf(s) \in Writes
    <3>1. PendingOf(s) = [player |-> p, score |-> None]
      BY PendingOfDelete
    <3>2. [player |-> p, score |-> None] \in Writes
      BY DEF Writes, Scores
    <3> HIDE DEF s
    <3> QED BY <3>1, <3>2
  <2> QED BY <2>1, <2>2
<1>2. CASE \E p \in Players, score \in Int, extra \in Texts :
             t = <<Insert(p, score, extra)>>
  <2> PICK p \in Players, score \in Int, extra \in Texts :
        t = <<Insert(p, score, extra)>>
    BY <1>2
  <2> DEFINE s == Insert(p, score, extra)
  <2>1. Head(<<s>>) = s /\ Len(<<s>>) = 1
    OBVIOUS
  <2>2. PendingOf(s) \in Writes
    <3>1. PendingOf(s) = [player |-> p, score |-> score]
      BY PendingOfInsert
    <3>2. [player |-> p, score |-> score] \in Writes
      BY DEF Writes, Scores
    <3> HIDE DEF s
    <3> QED BY <3>1, <3>2
  <2> QED BY <2>1, <2>2
<1> QED BY <1>1, <1>2, TaskKinds

\* The queue of tasks as a queue of writes.
LEMMA QueuedType ==
  ASSUME NEW tasks \in Seq(PromptTasks)
  PROVE  /\ Queued(tasks) \in Seq(Writes)
         /\ Len(Queued(tasks)) = Len(tasks)
         /\ \A i \in 1 .. Len(tasks) : Queued(tasks)[i] = PendingOf(Head(tasks[i]))
<1>1. Len(tasks) \in Nat /\ \A i \in 1 .. Len(tasks) : tasks[i] \in PromptTasks
  OBVIOUS
<1>2. \A i \in 1 .. Len(tasks) : PendingOf(Head(tasks[i])) \in Writes
  BY <1>1, PendingOfTask
<1> QED BY <1>1, <1>2 DEF Queued

LEMMA QueuedAppend ==
  ASSUME NEW tasks \in Seq(PromptTasks), NEW t \in PromptTasks
  PROVE  Queued(Append(tasks, t)) = Append(Queued(tasks), PendingOf(Head(t)))
<1> DEFINE longer == Append(tasks, t)
           n == Len(tasks)
<1>1. /\ longer \in Seq(PromptTasks) /\ Len(longer) = n + 1 /\ n \in Nat
      /\ longer[n + 1] = t /\ \A i \in 1 .. n : longer[i] = tasks[i]
  OBVIOUS
<1> HIDE DEF longer
<1> DEFINE was == Queued(tasks)
           is == Queued(longer)
           w == PendingOf(Head(t))
<1>2. /\ was \in Seq(Writes) /\ Len(was) = n
      /\ \A i \in 1 .. n : was[i] = PendingOf(Head(tasks[i]))
  BY QueuedType
<1>3. /\ is \in Seq(Writes) /\ Len(is) = n + 1
      /\ \A i \in 1 .. n + 1 : is[i] = PendingOf(Head(longer[i]))
  BY <1>1, QueuedType
<1>4. w \in Writes
  BY PendingOfTask
<1> HIDE DEF was, is
<1>5. \A i \in 1 .. n : is[i] = was[i]
  BY <1>1, <1>2, <1>3
<1>6. is[n + 1] = w
  BY <1>1, <1>3
<1> HIDE DEF w, n
<1>7. is = Append(was, w)
  BY <1>1, <1>2, <1>3, <1>4, <1>5, <1>6
<1> QED BY <1>7 DEF is, was, w, longer

LEMMA QueuedTail ==
  ASSUME NEW tasks \in Seq(PromptTasks), tasks # <<>>
  PROVE  /\ Queued(tasks) # <<>> /\ Head(Queued(tasks)) = PendingOf(Head(Head(tasks)))
         /\ Queued(Tail(tasks)) = Tail(Queued(tasks))
<1> DEFINE rest == Tail(tasks)
           n == Len(rest)
<1>1. /\ rest \in Seq(PromptTasks) /\ Len(tasks) = n + 1 /\ n \in Nat
      /\ Head(tasks) = tasks[1] /\ \A i \in 1 .. n : rest[i] = tasks[i + 1]
  OBVIOUS
<1> HIDE DEF rest
<1> DEFINE was == Queued(tasks)
           is == Queued(rest)
<1>2. /\ was \in Seq(Writes) /\ Len(was) = n + 1
      /\ \A i \in 1 .. n + 1 : was[i] = PendingOf(Head(tasks[i]))
  BY <1>1, QueuedType
<1>3. /\ is \in Seq(Writes) /\ Len(is) = n
      /\ \A i \in 1 .. n : is[i] = PendingOf(Head(rest[i]))
  BY <1>1, QueuedType
<1> HIDE DEF was, is
<1>4. was[1] = PendingOf(Head(tasks[1]))
  BY <1>1, <1>2
<1>5. \A i \in 1 .. n : is[i] = was[i + 1]
  <2> TAKE i \in 1 .. n
  <2>1. i + 1 \in 1 .. n + 1
    BY <1>1
  <2> QED BY <1>1, <1>2, <1>3, <2>1
<1> HIDE DEF n
<1>6. was # <<>> /\ Head(was) = was[1]
  BY <1>1, <1>2
<1>7. is = Tail(was)
  BY <1>1, <1>2, <1>3, <1>5
<1> QED BY <1>1, <1>4, <1>6, <1>7 DEF is, was, rest

-----------------------------------------------------------------------------
\* The writes to come while a call is in progress.
LEMMA PromptCurrent ==
  ASSUME PromptInv, waiting # <<>>
  PROVE  /\ phase = "ready" /\ Current \in PromptCalls
         /\ Tail(waiting) \in Seq(PromptCalls) /\ Tail(waiting) \in Seq(Coroutines)
         /\ Queued(mq) \in Seq(Writes) /\ Forks(Tail(waiting)) \in Seq(Writes)
         /\ Pending = Queued(mq) \o (Unforked(Current) \o Forks(Tail(waiting)))
<1>1. phase = "ready" /\ Current \in PromptCalls /\ Tail(waiting) \in Seq(PromptCalls)
  BY DEF PromptInv, Current
<1>2. Tail(waiting) \in Seq(Coroutines) /\ waiting \in Seq(Coroutines)
  <2>1. PromptCalls \subseteq Coroutines
    BY DEF PromptCalls
  <2>2. \A s \in Seq(PromptCalls) : s \in Seq(Coroutines)
    BY <2>1
  <2> QED BY <1>1, <2>2 DEF PromptInv
<1>3. Forks(waiting) = Unforked(Current) \o Forks(Tail(waiting))
  BY <1>2, ForksHead DEF Current
<1>4. Pending = Queued(mq) \o Forks(waiting)
  BY DEF Pending, Forks
<1>5. Queued(mq) \in Seq(Writes)
  BY QueuedType DEF PromptInv
<1> QED BY <1>1, <1>2, <1>3, <1>4, <1>5, ForksType

\* The queue of calls after a step of the one at its head.
LEMMA PromptAwait ==
  ASSUME TypeOK', PromptInv, waiting # <<>>, NEW d, Await(d), Prompt(d)
  PROVE  /\ d \in Coroutines /\ waiting' \in Seq(PromptCalls)
         /\ Forks(waiting') = Forks(Tail(waiting)) \o Unforked(d)
<1> DEFINE rest == Tail(waiting)
<1>1. rest \in Seq(PromptCalls) /\ rest \in Seq(Coroutines)
  BY PromptCurrent
<1>2. waiting' = Append(rest, d) /\ waiting' \in Seq(Coroutines)
  BY DEF Await, TypeOK
<1> HIDE DEF rest
<1>3. d \in Coroutines
  <2>1. Len(waiting') = Len(rest) + 1 /\ waiting'[Len(rest) + 1] = d /\ Len(rest) \in Nat
    BY <1>1, <1>2
  <2> QED BY <1>2, <2>1
<1>4. d \in PromptCalls
  BY <1>3 DEF PromptCalls
<1>5. Forks(waiting') = Forks(rest) \o Unforked(d)
  BY <1>1, <1>2, <1>3, ForksAppend
<1> QED BY <1>1, <1>2, <1>3, <1>4, <1>5 DEF rest

\* The call at the head has returned or goes on with no write to fork.
GoesOn(d) == Return \/ (Await(d) /\ Prompt(d) /\ Unforked(d) = <<>>)

LEMMA PromptGoesOn ==
  ASSUME TypeOK', PromptInv, waiting # <<>>, NEW d, GoesOn(d)
  PROVE  waiting' \in Seq(PromptCalls) /\ Forks(waiting') = Forks(Tail(waiting))
<1>1. CASE Return
  BY <1>1, PromptCurrent DEF Return
<1>2. CASE Await(d) /\ Prompt(d) /\ Unforked(d) = <<>>
  <2>1. /\ d \in Coroutines /\ waiting' \in Seq(PromptCalls)
        /\ Forks(waiting') = Forks(Tail(waiting)) \o Unforked(d)
    BY <1>2, PromptAwait
  <2> DEFINE f == Forks(Tail(waiting))
  <2>3. f \in Seq(Writes)
    BY PromptCurrent
  <2> HIDE DEF f
  <2>4. f \o <<>> = f
    BY <2>3
  <2> QED BY <1>2, <2>1, <2>4 DEF f
<1> QED BY <1>1, <1>2 DEF GoesOn

\* What is the same for all steps of a call in progress.
LEMMA PromptProgress ==
  ASSUME PromptInv, Progress, waiting # <<>>,
         waiting' \in Seq(PromptCalls), mq' \in Seq(PromptTasks)
  PROVE  PromptInv' /\ Saved' = Saved
<1>1. phase = "ready"
  BY PromptCurrent
<1> QED BY <1>1 DEF PromptInv, Progress, mysqlVars, Saved

Unwritten == UNCHANGED <<board, Pending, Saved>>

\* A call takes a step that neither writes nor forks.
LEMMA SilentStep ==
  ASSUME TypeOK', PromptInv, Progress, waiting # <<>>, Unforked(Current) = <<>>,
         NEW d, GoesOn(d), mq' = mq, board' = board
  PROVE  PromptInv' /\ Unwritten
<1>1. waiting' \in Seq(PromptCalls) /\ Forks(waiting') = Forks(Tail(waiting))
  BY PromptGoesOn
<1>2. PromptInv' /\ Saved' = Saved
  BY <1>1, PromptProgress DEF PromptInv
<1> DEFINE q == Queued(mq)
           f == Forks(Tail(waiting))
<1>3. /\ q \in Seq(Writes) /\ f \in Seq(Writes)
      /\ Pending = q \o (Unforked(Current) \o f) /\ Current \in Coroutines
  BY PromptCurrent DEF PromptCalls
<1>5. Pending' = q \o f
  BY <1>1 DEF Pending, Forks
<1> HIDE DEF q, f
<1>6. <<>> \o f = f
  BY <1>3
<1> QED BY <1>2, <1>3, <1>5, <1>6 DEF Unwritten

\* A call forks its write: the write takes the place at the end of the queue
\* of tasks, before those of the calls that are still to fork.
LEMMA ForkStep ==
  ASSUME TypeOK', PromptInv, Progress, waiting # <<>>, board' = board,
         NEW s, <<s>> \in PromptTasks, Unforked(Current) = <<PendingOf(s)>>, Fork(<<s>>),
         NEW d, GoesOn(d)
  PROVE  PromptInv' /\ Unwritten
<1> DEFINE t == <<s>>
           w == PendingOf(s)
           q == Queued(mq)
           f == Forks(Tail(waiting))
<1>1. waiting' \in Seq(PromptCalls) /\ Forks(waiting') = f
  BY PromptGoesOn
<1>2. /\ phase = "ready" /\ q \in Seq(Writes) /\ f \in Seq(Writes)
      /\ Pending = q \o (<<w>> \o f)
  BY PromptCurrent
<1>3. mq' = Append(mq, t)
  BY <1>2 DEF Fork, HasMysql
<1>4. Head(t) = s /\ t \in PromptTasks
  OBVIOUS
<1>5. w \in Writes
  BY <1>4, PendingOfTask
<1> HIDE DEF t
<1>6. mq' \in Seq(PromptTasks) /\ Queued(mq') = Append(q, w)
  BY <1>3, <1>4, QueuedAppend DEF PromptInv
<1>7. PromptInv' /\ Saved' = Saved
  BY <1>1, <1>6, PromptProgress
<1>8. Pending' = Append(q, w) \o f
  BY <1>1, <1>6 DEF Pending, Forks
<1> HIDE DEF q, f, w
<1>9. Append(q, w) \o f = q \o (<<w>> \o f)
  BY <1>2, <1>5, Regrouped
<1> QED BY <1>2, <1>7, <1>8, <1>9 DEF Unwritten

\* A call has changed the board: its write is the last of those to come.
LEMMA WriteStep ==
  ASSUME TypeOK', PromptInv, Progress, waiting # <<>>, Unforked(Current) = <<>>, mq' = mq,
         NEW p \in Players, NEW score \in Scores, board' = [board EXCEPT ![p] = score],
         board \in [Players -> Scores],
         NEW d, Await(d), Prompt(d), Unforked(d) = <<[player |-> p, score |-> score]>>
  PROVE  PromptInv' /\ WriteBehind!Write
<1> DEFINE w == [player |-> p, score |-> score]
           q == Queued(mq)
           f == Forks(Tail(waiting))
<1>1. waiting' \in Seq(PromptCalls) /\ Forks(waiting') = f \o <<w>>
  BY PromptAwait
<1>2. PromptInv' /\ Saved' = Saved
  BY <1>1, PromptProgress DEF PromptInv
<1>3. q \in Seq(Writes) /\ f \in Seq(Writes) /\ Pending = q \o (<<>> \o f)
  BY PromptCurrent
<1>4. Pending' = q \o (f \o <<w>>)
  BY <1>1 DEF Pending, Forks
<1>5. w \in Writes
  BY DEF Writes
<1> HIDE DEF q, f, w
<1>6. <<>> \o f = f /\ q \o (f \o <<w>>) = Append(q \o f, w)
  BY <1>3, <1>5, Regrouped
<1>7. Pending' = Append(Pending, w)
  BY <1>3, <1>4, <1>6
<1>8. board'[p] = score
  OBVIOUS
<1>9. score \in WriteBehind!Scores
  BY DEF Scores, WriteBehind!Scores
<1> QED BY <1>2, <1>7, <1>8, <1>9 DEF WriteBehind!Write, w

-----------------------------------------------------------------------------
PromptStep == PromptInv' /\ [WriteBehind!Next]_<<board, Pending, Saved>>

\* A call that only goes on to its next command.
LEMMA RelabelPrompt ==
  ASSUME NEW c \in PromptCalls, NEW label, label \notin {"zscore", "zrem"},
         NEW d, d = [c EXCEPT !.at = label]
  PROVE  Prompt(d) /\ d.at = label
<1>1. c \in Coroutines /\ Prompt(c)
  BY DEF PromptCalls
<1>2. d.op = c.op /\ d.at = label
  BY <1>1 DEF Coroutines, UpdateCalls, BatchCalls, RemoveCalls, BatchRemoveCalls,
              ReadCalls, InfoCalls
<1>3. c.op \in SingleUpdate => c \in UpdateCalls
  BY <1>1 DEF Coroutines, UpdateCalls, BatchCalls, RemoveCalls, BatchRemoveCalls,
              ReadCalls, InfoCalls, SingleUpdate, BatchUpdate
<1>4. c \in UpdateCalls => d.cfg = c.cfg /\ d.extra = c.extra
  BY DEF UpdateCalls
<1> QED BY <1>1, <1>2, <1>3, <1>4 DEF Prompt, OnlyScore

LEMMA AwaitAtPrompt ==
  ASSUME PromptInv, waiting # <<>>, NEW label, label \notin {"zscore", "zrem"},
         AwaitAt(label)
  PROVE  \E d : Await(d) /\ Prompt(d) /\ d.at = label
<1> DEFINE d == [Current EXCEPT !.at = label]
<1>1. Await(d) /\ Current \in PromptCalls
  BY PromptCurrent DEF AwaitAt
<1>2. Prompt(d) /\ d.at = label
  BY <1>1, RelabelPrompt
<1> HIDE DEF d
<1> QED BY <1>1, <1>2

LEMMA AwaitAtGoesOn ==
  ASSUME PromptInv, waiting # <<>>,
         \/ Return
         \/ \E label : AwaitAt(label) /\ label \notin {"zscore", "zrem", "hset", "r_del"}
  PROVE  \E d : GoesOn(d)
BY AwaitAtPrompt DEF GoesOn, Unforked

LEMMA BoardKept ==
  ASSUME Execute(Current),
         Current.at \notin {"zrem", "r_zrem", "b_zrem", "br_zrem", "zadd", "b_zadd"}
  PROVE  board' = board
BY DEF Execute, BoardAfter

\* The commands of the calls that the condition excludes have not been sent.
LEMMA PromptCommands ==
  ASSUME NEW c \in PromptCalls
  PROVE  /\ c.at \notin {"zrem", "b_zscore", "b_hset", "b_zrevrank", "b_zrem", "b_zadd",
                         "b_del", "br_del", "br_zrem"}
         /\ c.at = "zscore" => c.op = "update_score"
         /\ c.at \in {"zscore", "zadd", "hset", "zrevrank", "del"} =>
              c \in UpdateCalls /\ ~c.cfg.open_min /\ ~OnlyScore(c)
         /\ c.at \in {"r_zrem", "r_del"} => c \in RemoveCalls
<1>1. c \in Coroutines /\ Prompt(c)
  BY DEF PromptCalls
<1>2. c \notin BatchCalls /\ c \notin BatchRemoveCalls
  BY <1>1 DEF Prompt, BatchCalls, BatchRemoveCalls
<1>3. c \in UpdateCalls => c.op \in SingleUpdate
  BY DEF UpdateCalls
<1> QED BY <1>1, <1>2, <1>3, Kinds DEF Prompt

\* Commands that neither write a score nor precede a fork.
LEMMA QuietPrompt ==
  ASSUME TypeOK, TypeOK', PromptInv, Progress, mq' = mq, NEW labels, Reply(labels),
         Current.at \notin {"r_zrem", "zadd", "hset", "r_del"},
         NEW d, GoesOn(d)
  PROVE  PromptStep
<1>1. waiting # <<>> /\ Execute(Current) /\ Current.at \in labels
  BY DEF Reply
<1>2. board' = board
  BY <1>1, BoardKept, PromptCurrent, PromptCommands
<1>3. Unforked(Current) = <<>>
  BY DEF Unforked
<1> QED BY <1>1, <1>2, <1>3, SilentStep DEF PromptStep, Unwritten

LEMMA UpdatePrompt ==
  ASSUME TypeOK, TypeOK', PromptInv,
         \/ UpdateDirectZscore \/ UpdateZscore \/ UpdateZrem
         \/ UpdateZrevrank \/ DeleteCache \/ InfoStep
  PROVE  PromptStep
<1>1. PICK labels :
        /\ Reply(labels)
        /\ labels \subseteq {"zscore", "zrem", "zrevrank", "del", "b_del", "r_delcache",
                             "i_zscore", "i_zrevrank", "i_hget"}
  BY DEF UpdateDirectZscore, UpdateZscore, UpdateZrem, UpdateZrevrank, DeleteCache, InfoStep
<1>2. waiting # <<>> /\ Current \in PromptCalls /\ Current.at \in labels
  BY <1>1, PromptCurrent DEF Reply
<1>3. ~UpdateDirectZscore /\ ~UpdateZrem
  <2>1. Current.at # "zrem" /\ (Current.at = "zscore" => Current.op = "update_score")
    BY <1>2, PromptCommands
  <2>2. UpdateDirectZscore => Current.op = "update_score_direct" /\ Current.at = "zscore"
    BY DEF UpdateDirectZscore, Reply
  <2>3. UpdateZrem => Current.at = "zrem"
    BY DEF UpdateZrem, Reply
  <2> QED BY <2>1, <2>2, <2>3
<1>4. mq' = mq /\ Progress
  BY <1>3 DEF UpdateZscore, UpdateZrevrank, DeleteCache, InfoStep
<1>5. \E d : GoesOn(d)
  <2>1. CASE UpdateZscore
    <3> DEFINE s == Clip(Current.cfg, CurrentScore(Current.player) + Current.score)
               d == [Current EXCEPT !.at = "zadd", !.score = s]
    <3>1. Current.at = "zscore"
      BY <2>1 DEF UpdateZscore, Reply
    <3>2. Current \in UpdateCalls /\ ~Current.cfg.open_min /\ ~OnlyScore(Current)
      BY <1>2, <3>1, PromptCommands
    <3>3. Await(d)
      BY <2>1, <3>2 DEF UpdateZscore, TooLow
    <3> HIDE DEF s
    <3>4. /\ d.op = Current.op /\ d.cfg = Current.cfg /\ d.extra = Current.extra
          /\ d.at = "zadd" /\ d.op \in SingleUpdate
      BY <3>2 DEF UpdateCalls
    <3> HIDE DEF d
    <3>5. Prompt(d)
      BY <3>2, <3>4 DEF Prompt, OnlyScore, SingleUpdate, BatchUpdate
    <3> QED BY <3>3, <3>4, <3>5 DEF GoesOn, Unforked
  <2>2. CASE ~UpdateZscore
    <3>1. Return \/ (\E label \in {"del", "i_zrevrank", "i_hget"} : AwaitAt(label))
      BY <1>3, <2>2 DEF UpdateZrevrank, DeleteCache, InfoStep
    <3> QED BY <1>2, <3>1, AwaitAtGoesOn
  <2> QED BY <2>1, <2>2
<1>6. PICK d : GoesOn(d)
  BY <1>5
<1>7. Current.at \notin {"r_zrem", "zadd", "hset", "r_del"}
  BY <1>1, <1>2
<1> QED BY <1>1, <1>4, <1>6, <1>7, QuietPrompt

LEMMA ZaddPrompt ==
  ASSUME TypeOK, TypeOK', PromptInv, UpdateZadd
  PROVE  PromptStep
<1> DEFINE d == [Current EXCEPT !.at = "hset"]
           p == Current.player
           score == Current.score
<1>1. Reply({"zadd"}) /\ Progress /\ waiting # <<>> /\ Current.at = "zadd"
  BY DEF UpdateZadd, Reply
<1>2. Current \in PromptCalls /\ Current \in UpdateCalls /\ ~OnlyScore(Current)
  BY <1>1, PromptCurrent, PromptCommands
<1>3. Await(d) /\ mq' = mq
  BY <1>2 DEF UpdateZadd, AwaitAt
<1>4. Prompt(d) /\ d.at = "hset"
  BY <1>2, RelabelPrompt
<1>5. d.player = p /\ d.score = score /\ p \in Players /\ score \in Scores
  BY <1>2 DEF UpdateCalls, Scores
<1> HIDE DEF d
<1>6. d \in Coroutines
  BY <1>1, <1>3, <1>4, PromptAwait
<1>7. Unforked(d) = <<[player |-> p, score |-> score]>>
  BY <1>4, <1>5, <1>6, UnforkedType
<1>8. Unforked(Current) = <<>>
  BY <1>1, <1>2, UnforkedType DEF PromptCalls
<1>9. board' = [board EXCEPT ![p] = score] /\ board \in [Players -> Scores]
  BY <1>1 DEF Reply, Execute, BoardAfter, TypeOK
<1> HIDE DEF p, score
<1> QED BY <1>1, <1>3, <1>4, <1>5, <1>7, <1>8, <1>9, WriteStep
        DEF PromptStep, WriteBehind!Next

LEMMA HsetPrompt ==
  ASSUME TypeOK, TypeOK', PromptInv, UpdateHset
  PROVE  PromptStep
<1> DEFINE p == Current.player
           score == Current.score
           extra == ExtraStr(Current.extra)
           s == Insert(p, score, extra)
<1>1. /\ Reply({"hset"}) /\ Progress /\ waiting # <<>> /\ Current.at = "hset"
      /\ Fork(<<s>>) /\ CheckCache
  BY DEF UpdateHset, Reply
<1>2. Current \in PromptCalls /\ Current \in UpdateCalls
  BY <1>1, PromptCurrent, PromptCommands
<1>3. p \in Players /\ score \in Int /\ extra \in Texts
  BY <1>2 DEF UpdateCalls, ExtraStr, Texts
<1>4. <<s>> \in PromptTasks
  BY <1>3 DEF PromptTasks
<1>5. Unforked(Current) = <<[player |-> p, score |-> score]>>
  BY <1>1, <1>2, UnforkedType DEF PromptCalls
<1>6. PendingOf(s) = [player |-> p, score |-> score]
  BY <1>3, PendingOfInsert
<1>7. board' = board
  BY <1>1, BoardKept DEF Reply
<1>8. PICK d : GoesOn(d)
  <2>1. Return \/ AwaitAt("zrevrank")
    BY <1>1 DEF CheckCache
  <2> QED BY <1>1, <2>1, AwaitAtGoesOn
<1> HIDE DEF s
<1> QED BY <1>1, <1>4, <1>5, <1>6, <1>7, <1>8, ForkStep DEF PromptStep, Unwritten

LEMMA RemoveZremPrompt ==
  ASSUME TypeOK, TypeOK', PromptInv, RemoveZrem
  PROVE  PromptStep
<1> DEFINE p == Current.player
           gone == board[p] # None
           d == [Current EXCEPT !.at = "r_del", !.removed = gone]
<1>1. /\ Reply({"r_zrem"}) /\ Progress /\ waiting # <<>> /\ Current.at = "r_zrem"
      /\ mq' = mq /\ Await(d)
  BY DEF RemoveZrem, Reply
<1>2. Current \in PromptCalls /\ Current \in RemoveCalls
  BY <1>1, PromptCurrent, PromptCommands
<1>3. board' = [board EXCEPT ![p] = None] /\ board \in [Players -> Scores]
  BY <1>1 DEF Reply, Execute, BoardAfter, TypeOK
<1>4. gone \in BOOLEAN
  OBVIOUS
<1>5. p \in Players /\ None \in Scores
  BY <1>2 DEF RemoveCalls, Scores
<1>6. /\ d.op = "remove_player" /\ d.at = "r_del" /\ d.player = p /\ d.removed = gone
  <2> HIDE DEF gone
  <2> QED BY <1>2, <1>4 DEF RemoveCalls
<1> HIDE DEF d
<1>7. Prompt(d)
  BY <1>6 DEF Prompt, SingleUpdate, BatchUpdate
<1>8. d \in Coroutines
  BY <1>1, <1>7, PromptAwait
<1>9. Unforked(Current) = <<>>
  BY <1>1, <1>2, UnforkedType DEF PromptCalls
<1>10. CASE gone
  <2>1. Unforked(d) = <<[player |-> p, score |-> None]>>
    BY <1>6, <1>8, <1>10, UnforkedType
  <2> HIDE DEF p
  <2> QED BY <1>1, <1>3, <1>5, <1>7, <1>9, <2>1, WriteStep DEF PromptStep, WriteBehind!Next
<1>11. CASE ~gone
  <2>1. Unforked(d) = <<>>
    BY <1>6, <1>8, <1>11, UnforkedType
  <2>2. board' = board
    BY <1>3, <1>11
  <2>3. GoesOn(d)
    BY <1>1, <1>7, <2>1 DEF GoesOn
  <2> QED BY <1>1, <1>9, <2>2, <2>3, SilentStep DEF PromptStep, Unwritten
<1> QED BY <1>10, <1>11

LEMMA RemoveDelPrompt ==
  ASSUME TypeOK, TypeOK', PromptInv, RemoveDel
  PROVE  PromptStep
<1> DEFINE p == Current.player
           s == Delete({p})
<1>1. /\ Reply({"r_del"}) /\ Progress /\ waiting # <<>> /\ Current.at = "r_del"
      /\ IF Current.removed THEN Fork(<<s>>) ELSE mq' = mq
      /\ AwaitAt("r_delcache") \/ Return
  BY DEF RemoveDel, Reply
<1>2. Current \in PromptCalls /\ Current \in RemoveCalls
  BY <1>1, PromptCurrent, PromptCommands
<1>3. p \in Players
  BY <1>2 DEF RemoveCalls
<1>4. <<s>> \in PromptTasks
  <2> HIDE DEF p, s
  <2>1. s \in {Delete({x}) : x \in Players}
    BY <1>3 DEF s
  <2>2. PICK x \in Players : s = Delete({x})
    BY <2>1
  <2> QED BY <2>2 DEF PromptTasks
<1>5. Unforked(Current) = IF Current.removed THEN <<[player |-> p, score |-> None]>>
                          ELSE <<>>
  BY <1>1, <1>2, UnforkedType DEF PromptCalls
<1>6. PendingOf(s) = [player |-> p, score |-> None]
  BY <1>3, PendingOfDelete
<1>7. board' = board
  BY <1>1, BoardKept DEF Reply
<1>8. PICK d : GoesOn(d)
  BY <1>1, AwaitAtGoesOn
<1> HIDE DEF s
<1>9. CASE Current.removed
  BY <1>1, <1>4, <1>5, <1>6, <1>7, <1>8, <1>9, ForkStep DEF PromptStep, Unwritten
<1>10. CASE ~Current.removed
  BY <1>1, <1>5, <1>7, <1>8, <1>10, SilentStep DEF PromptStep, Unwritten
<1> QED BY <1>9, <1>10

LEMMA ReadPrompt ==
  ASSUME TypeOK, TypeOK', PromptInv, ReadCache \/ ReadRanking \/ ReadExtras \/ StoreCache
  PROVE  PromptStep
<1>1. PICK labels :
        Reply(labels) /\ labels \subseteq {"get", "zrevrange", "pipeline", "setex"}
  BY DEF ReadCache, ReadRanking, ReadExtras, StoreCache
<1>2. /\ waiting # <<>> /\ Current \in ReadCalls
      /\ Current.at \in {"get", "zrevrange", "pipeline", "setex"}
  BY <1>1, ReplyType, Kinds
<1>3. mq' = mq /\ Progress
  BY DEF ReadCache, ReadRanking, ReadExtras, StoreCache
<1>4. ASSUME NEW d \in ReadCalls, Await(d) PROVE GoesOn(d)
  <2>1. d.op \in {"get_top_n", "get_range"} /\ d.at \notin {"hset", "r_del"}
    BY DEF ReadCalls
  <2> QED BY <1>4, <2>1 DEF GoesOn, Prompt, Unforked, SingleUpdate, BatchUpdate
<1>5. Return \/ \E d \in ReadCalls : Await(d)
  <2>1. ASSUME NEW c \in ReadCalls, StoreOrAnswer(c)
        PROVE  Return \/ \E d \in ReadCalls : Await(d)
    <3> DEFINE d == [c EXCEPT !.at = "setex"]
    <3>1. d \in ReadCalls
      BY DEF ReadCalls
    <3>2. Await(d) \/ Return
      BY <2>1 DEF StoreOrAnswer
    <3> HIDE DEF d
    <3> QED BY <3>1, <3>2
  <2>2. CASE ReadCache
    <3> DEFINE d == [Current EXCEPT !.at = "zrevrange"]
    <3>1. d \in ReadCalls
      BY <1>2 DEF ReadCalls
    <3>2. Await(d) \/ Return
      BY <2>2 DEF ReadCache, AwaitAt
    <3> HIDE DEF d
    <3> QED BY <3>1, <3>2
  <2>3. CASE ReadRanking
    <3> DEFINE list == Slice(Ranking, Current.first, Current.last)
               c == [Current EXCEPT !.list = list]
               d == [c EXCEPT !.at = "pipeline"]
    <3>1. Await(d) \/ StoreOrAnswer(c)
      BY <2>3 DEF ReadRanking
    <3>2. list \in Lists
      BY RankingType, SliceType DEF TypeOK
    <3> HIDE DEF list
    <3>3. c \in ReadCalls
      BY <1>2, <3>2 DEF ReadCalls
    <3> HIDE DEF c
    <3>4. d \in ReadCalls
      BY <3>3 DEF ReadCalls
    <3> HIDE DEF d
    <3> QED BY <2>1, <3>1, <3>3, <3>4
  <2>4. CASE ReadExtras
    BY <1>2, <2>1, <2>4 DEF ReadExtras
  <2>5. CASE StoreCache
    BY <2>5 DEF StoreCache
  <2> QED BY <2>2, <2>3, <2>4, <2>5
<1>6. PICK d : GoesOn(d)
  BY <1>4, <1>5 DEF GoesOn
<1> QED BY <1>1, <1>2, <1>3, <1>6, QuietPrompt

\* No batch is in progress.
LEMMA NoBatch ==
  ASSUME PromptInv
  PROVE  /\ ~BatchZscore /\ ~BatchHset /\ ~BatchZrevrank /\ ~BatchZrem /\ ~BatchZadd
         /\ ~BatchRemoveDel /\ ~BatchRemoveZrem
<1>1. ASSUME NEW labels, Reply(labels)
      PROVE  Current.at \in labels /\ Current \in PromptCalls
  BY <1>1, PromptCurrent DEF Reply
<1> QED BY <1>1, PromptCommands
        DEF BatchZscore, BatchHset, BatchZrevrank, BatchZrem, BatchZadd,
            BatchRemoveDel, BatchRemoveZrem

LEMMA ResumePrompt ==
  ASSUME TypeOK, TypeOK', PromptInv, Resume
  PROVE  PromptStep
BY UpdatePrompt, ZaddPrompt, HsetPrompt, RemoveZremPrompt, RemoveDelPrompt, ReadPrompt,
   NoBatch DEF Resume

\* A call arrives.
LEMMA BeginPrompt ==
  ASSUME TypeOK', PromptInv, WriteBehindAssumption, NEW c, Begin(c), Prompt(c),
         c.at \notin {"hset", "r_del"}
  PROVE  PromptStep
<1>1. /\ waiting' = Append(waiting, c) /\ mq' = mq /\ board' = board /\ rows' = rows
      /\ faults' = faults /\ down' = down /\ config' = config /\ phase' = phase
      /\ phase = "ready"
  BY DEF Begin, Receive, redisVars, mysqlVars, WriteBehindAssumption
<1>2. waiting \in Seq(PromptCalls) /\ waiting \in Seq(Coroutines)
  <2>1. PromptCalls \subseteq Coroutines
    BY DEF PromptCalls
  <2>2. \A s \in Seq(PromptCalls) : s \in Seq(Coroutines)
    BY <2>1
  <2> QED BY <2>2 DEF PromptInv
<1>3. c \in Coroutines
  <2>1. waiting' \in Seq(Coroutines)
    BY DEF TypeOK
  <2>2. Len(waiting') = Len(waiting) + 1 /\ waiting'[Len(waiting) + 1] = c
        /\ Len(waiting) \in Nat
    BY <1>1, <1>2
  <2> QED BY <2>1, <2>2
<1>4. waiting' \in Seq(PromptCalls)
  BY <1>1, <1>2, <1>3 DEF PromptCalls
<1>5. Forks(waiting') = Forks(waiting)
  <2>1. Forks(waiting') = Forks(waiting) \o Unforked(c)
    BY <1>1, <1>2, <1>3, ForksAppend
  <2>2. Unforked(c) = <<>>
    BY DEF Unforked
  <2> DEFINE f == Forks(waiting)
  <2>3. f \in Seq(Writes)
    BY <1>2, ForksType
  <2> HIDE DEF f
  <2>4. f \o <<>> = f
    BY <2>3
  <2> QED BY <2>1, <2>2, <2>4 DEF f
<1>6. PromptInv'
  BY <1>1, <1>4 DEF PromptInv
<1>7. UNCHANGED <<board, Pending, Saved>>
  BY <1>1, <1>5 DEF Pending, Forks, Saved
<1> QED BY <1>6, <1>7 DEF PromptStep

LEMMA StartPrompt ==
  ASSUME TypeOK', PromptInv, WriteBehindAssumption, Start
  PROVE  PromptStep
<1>1. CASE SetConfig
  <2>1. PICK k \in Calls : k.op = "set_config" /\ config' = Merge(k.config)
    BY <1>1 DEF SetConfig
  <2>2. ~k.config.open_min /\ k.config \in Configs
    BY <2>1, CallKinds DEF WriteBehindAssumption
  <2>3. ~config'.open_min
    BY <2>1, <2>2 DEF Merge, default_config, Configs
  <2>4. /\ phase = "ready" /\ phase' = phase
        /\ UNCHANGED <<board, waiting, mq, rows, faults, down>>
    BY <1>1 DEF SetConfig, Receive, redisVars, WriteBehindAssumption
  <2>5. PromptInv'
    BY <2>3, <2>4 DEF PromptInv
  <2>6. UNCHANGED <<board, Pending, Saved>>
    BY <2>4 DEF Pending, Saved
  <2> QED BY <2>5, <2>6 DEF PromptStep
<1>2. CASE StartUpdateDirect
  <2>1. PICK k \in Calls :
          /\ k.op = "update_score_direct"
          /\ Begin(UpdateState(k, "zadd", Clip(config, k.score)))
    BY <1>2 DEF StartUpdateDirect, TooLow, PromptInv
  <2> DEFINE score == Clip(config, k.score)
             c == UpdateState(k, "zadd", score)
  <2> HIDE DEF score
  <2>2. /\ c.op = "update_score_direct" /\ c.at = "zadd" /\ c.cfg = config
        /\ c.extra = k.extra
    BY <2>1 DEF UpdateState
  <2>3. k.extra # None /\ ~config.open_min
    BY <2>1 DEF WriteBehindAssumption, PromptInv
  <2>4. Begin(c)
    BY <2>1 DEF score
  <2> HIDE DEF c
  <2>5. Prompt(c)
    BY <2>2, <2>3 DEF Prompt, OnlyScore, SingleUpdate, BatchUpdate
  <2> QED BY <2>2, <2>4, <2>5, BeginPrompt
<1>3. CASE StartUpdate
  <2>1. PICK k \in Calls :
          k.op = "update_score" /\ Begin(UpdateState(k, "zscore", k.score))
    BY <1>3 DEF StartUpdate
  <2> DEFINE c == UpdateState(k, "zscore", k.score)
  <2>2. c.op = "update_score" /\ c.at = "zscore" /\ c.cfg = config
    BY <2>1 DEF UpdateState
  <2>3. ~config.open_min
    BY DEF PromptInv
  <2> HIDE DEF c
  <2>4. Prompt(c)
    BY <2>2, <2>3 DEF Prompt, OnlyScore, SingleUpdate, BatchUpdate
  <2> QED BY <2>1, <2>2, <2>4, BeginPrompt DEF c
<1>4. CASE StartRemove \/ StartInfo
  <2>1. PICK c : /\ Begin(c) /\ c.op \in {"remove_player", "get_player_info"}
                 /\ c.at \in {"r_zrem", "i_zscore"}
    <3>1. CASE StartRemove
      <4> PICK k \in {k \in Calls : k.op = "remove_player"} :
            Begin([op |-> k.op, at |-> "r_zrem", player |-> k.player, removed |-> FALSE])
        BY <3>1 DEF StartRemove
      <4> QED OBVIOUS
    <3>2. CASE StartInfo
      <4> PICK k \in {k \in Calls : k.op = "get_player_info"} :
            Begin([op |-> k.op, at |-> "i_zscore", player |-> k.player])
        BY <3>2 DEF StartInfo
      <4> QED OBVIOUS
    <3> QED BY <1>4, <3>1, <3>2
  <2>2. Prompt(c)
    BY <2>1 DEF Prompt, SingleUpdate, BatchUpdate
  <2> QED BY <2>1, <2>2, BeginPrompt
<1>5. CASE StartTopN \/ StartRange
  <2>1. PICK k, first, last :
          Begin(ReadState(k, first, last)) /\ k.op \in {"get_top_n", "get_range"}
    BY <1>5 DEF StartTopN, StartRange
  <2> DEFINE c == ReadState(k, first, last)
  <2>2. c.op = k.op /\ c.at \in {"get", "zrevrange"}
    BY DEF ReadState
  <2> HIDE DEF c
  <2>3. Prompt(c)
    BY <2>1, <2>2 DEF Prompt, SingleUpdate, BatchUpdate
  <2> QED BY <2>1, <2>2, <2>3, BeginPrompt DEF c
<1>6. ~StartBatch /\ ~StartBatchRemove
  BY DEF StartBatch, StartBatchRemove, WriteBehindAssumption
<1> QED BY <1>1, <1>2, <1>3, <1>4, <1>5, <1>6 DEF Start

\* MySQL runs the statement of the oldest task.
LEMMA SavePrompt ==
  ASSUME TypeOK, PromptInv, MysqlExecute
  PROVE  PromptStep
<1> DEFINE t == Head(mq)
           s == Head(t)
           w == PendingOf(s)
           q == Queued(mq)
           f == Forks(waiting)
<1>1. /\ mq # <<>> /\ phase = "ready" /\ rows' = RowsAfter(s) /\ NextTask
      /\ UNCHANGED <<board, waiting, phase, down, config, stored, faults>>
  BY DEF MysqlExecute, redisVars
<1>2. t \in PromptTasks /\ Tail(mq) \in Seq(PromptTasks) /\ Len(t) = 1
  <2>1. t \in PromptTasks /\ Tail(mq) \in Seq(PromptTasks)
    BY <1>1 DEF PromptInv
  <2> HIDE DEF t
  <2> QED BY <2>1, PendingOfTask
<1>3. mq' = Tail(mq)
  BY <1>1, <1>2 DEF NextTask
<1>4. PromptInv'
  BY <1>1, <1>2, <1>3 DEF PromptInv
<1>5. /\ q \in Seq(Writes) /\ q # <<>> /\ Head(q) = w /\ Queued(mq') = Tail(q)
      /\ w \in Writes
  <2>1. mq \in Seq(PromptTasks)
    BY DEF PromptInv
  <2>2. q \in Seq(Writes)
    BY <2>1, QueuedType
  <2>3. q # <<>> /\ Head(q) = w /\ Queued(Tail(mq)) = Tail(q)
    BY <1>1, <2>1, QueuedTail
  <2>4. w \in Writes
    BY <1>2, PendingOfTask
  <2> QED BY <1>3, <2>2, <2>3, <2>4
<1>6. f \in Seq(Writes)
  <2>1. PromptCalls \subseteq Coroutines
    BY DEF PromptCalls
  <2>2. \A c \in Seq(PromptCalls) : c \in Seq(Coroutines)
    BY <2>1
  <2> QED BY <2>2, ForksType DEF PromptInv
<1>7. Pending = q \o f /\ Pending' = Tail(q) \o f
  BY <1>1, <1>5 DEF Pending, Forks
<1>8. Saved' = [Saved EXCEPT ![w.player] = w.score]
  <2>1. rows \in Tables
    BY DEF TypeOK
  <2>2. CASE \E p \in Players : t = <<Delete({p})>>
    <3>1. PICK p \in Players : t = <<Delete({p})>>
      BY <2>2
    <3>2. s = Delete({p})
      BY <3>1
    <3>3. w.player = p /\ w.score = None
      <4>1. w = [player |-> p, score |-> None]
        BY <3>2, PendingOfDelete
      <4> HIDE DEF w
      <4> QED BY <4>1
    <3>4. s.op = "delete" /\ s.players = {p}
      BY <3>2 DEF Delete
    <3> HIDE DEF s, w
    <3>5. rows' = [x \in Players |-> IF x = p THEN None ELSE rows[x]]
      BY <1>1, <3>4 DEF RowsAfter
    <3> QED BY <3>3, <3>5 DEF Saved
  <2>3. CASE \E p \in Players, score \in Int, extra \in Texts :
               t = <<Insert(p, score, extra)>>
    <3>1. PICK p \in Players, score \in Int, extra \in Texts :
            t = <<Insert(p, score, extra)>>
      BY <2>3
    <3> DEFINE row == [score |-> score, extra |-> extra]
    <3>2. s = Insert(p, score, extra)
      BY <3>1
    <3>3. w.player = p /\ w.score = score
      <4>1. w = [player |-> p, score |-> score]
        BY <3>2, PendingOfInsert
      <4> HIDE DEF w
      <4> QED BY <4>1
    <3>4. s.op = "insert" /\ s.rows = [NoRows EXCEPT ![p] = row]
      BY <3>2 DEF Insert
    <3>5. row # None /\ row.score = score
      BY RankAssumption
    <3> HIDE DEF s, w, row
    <3>6. s.rows[p] = row /\ \A x \in Players : x # p => s.rows[x] = None
      BY <3>4 DEF NoRows
    <3>7. rows' = [x \in Players |-> IF x = p THEN row ELSE rows[x]]
      BY <1>1, <3>4, <3>5, <3>6 DEF RowsAfter
    <3> QED BY <3>3, <3>5, <3>7 DEF Saved
  <2> HIDE DEF t, s, w
  <2>4. \/ \E p \in Players : t = <<Delete({p})>>
        \/ \E p \in Players, score \in Int, extra \in Texts :
              t = <<Insert(p, score, extra)>>
    BY <1>2, TaskKinds
  <2> QED BY <2>2, <2>3, <2>4
<1> HIDE DEF q, f, w
<1>9. /\ Head(q \o f) = Head(q) /\ Tail(q \o f) = Tail(q) \o f
      /\ q \o f # <<>>
  BY <1>5, <1>6, Regrouped
<1>10. WriteBehind!Save
  <2>1. Head(Pending) = w /\ Tail(Pending) = Pending' /\ Pending # <<>>
    BY <1>5, <1>7, <1>9
  <2> QED BY <1>1, <1>8, <2>1 DEF WriteBehind!Save
<1> QED BY <1>4, <1>10 DEF PromptStep, WriteBehind!Next

LEMMA InitPrompt == WriteBehindAssumption /\ Init => PromptInv /\ WriteBehind!Init
<1> SUFFICES ASSUME WriteBehindAssumption, Init PROVE PromptInv /\ WriteBehind!Init
  OBVIOUS
<1> USE DEF Init, FirstStart
<1>1. PromptInv
  <2>1. waiting \in Seq(PromptCalls) /\ mq \in Seq(PromptTasks)
    OBVIOUS
  <2> QED BY <2>1 DEF PromptInv, default_config
<1>2. Pending = <<>>
  <2>1. Queued(<<>>) = <<>>
    BY DEF Queued
  <2>2. <<>> \in Seq(Coroutines) /\ Len(<<>>) = 0
    OBVIOUS
  <2>3. Forking(<<>>)[0] = <<>>
    BY <2>2, ForkingSteps
  <2> QED BY <2>1, <2>2, <2>3 DEF Pending
<1>3. Saved = [p \in Players |-> None] /\ board = [p \in Players |-> None]
  BY DEF Saved, NoRows
<1> QED BY <1>1, <1>2, <1>3 DEF WriteBehind!Init

LEMMA NextPrompt ==
  ASSUME WriteBehindAssumption, TypeOK, PromptInv, [Next]_vars
  PROVE  PromptStep
<1>1. TypeOK'
  BY NextType
<1>2. CASE Start
  BY <1>1, <1>2, StartPrompt
<1>3. CASE Resume
  BY <1>1, <1>3, ResumePrompt
<1>4. CASE MysqlExecute
  BY <1>4, SavePrompt
<1>5. ASSUME PromptInv', UNCHANGED <<board, waiting, mq, rows>> PROVE PromptStep
  <2>1. UNCHANGED <<board, Pending, Saved>>
    BY <1>5 DEF Pending, Saved
  <2> QED BY <1>5, <2>1 DEF PromptStep
<1>6. CASE LoadConfig
  <2>1. /\ phase = "load" /\ config' = Loaded /\ phase' = "ready"
        /\ UNCHANGED <<board, waiting, mq, rows, faults, down, stored>>
    BY <1>6 DEF LoadConfig, redisVars, mysqlVars
  <2>2. stored # None => ~stored.open_min /\ stored \in Configs
    BY <2>1 DEF PromptInv, WriteBehindAssumption, TypeOK
  <2>3. ~config'.open_min
    BY <2>1, <2>2 DEF Loaded, Merge, default_config, Configs, PromptInv
  <2>4. PromptInv'
    BY <2>1, <2>3 DEF PromptInv
  <2> QED BY <1>5, <2>1, <2>4
<1>7. CASE ConnectRedis \/ ConnectMysql
  <2>1. /\ phase # "ready"
        /\ UNCHANGED <<board, waiting, mq, rows, faults, down, stored, config>>
    BY <1>7 DEF ConnectRedis, ConnectMysql, Connect, redisVars, mysqlVars
  <2>2. PromptInv'
    BY <2>1 DEF PromptInv
  <2> QED BY <1>5, <2>1, <2>2
<1>8. CASE CacheExpires \/ SaveConfig \/ UNCHANGED vars
  <2>1. /\ UNCHANGED <<board, waiting, mq, rows, faults, down, config, phase>>
        /\ phase # "ready" => stored' = stored
    BY <1>8 DEF CacheExpires, SaveConfig, vars, redisVars, mysqlVars
  <2>2. PromptInv'
    BY <2>1 DEF PromptInv
  <2> QED BY <1>5, <2>1, <2>2
<1>9. ~Faulty
  BY DEF Faulty, MysqlExecuteFails, SaveConfigFails, LoadConfigFails, LoseConnection,
         ExecuteUnanswered, AbortCalls, Restart, Fault, PromptInv, WriteBehindAssumption
<1> QED BY <1>2, <1>3, <1>4, <1>6, <1>7, <1>8, <1>9 DEF Next, Initialize

\* Calls that fork their MySQL write at their second command implement the
\* write-behind queue, however many overlap: the coroutines of update_score,
\* update_score_direct and remove_player resume in the order in which Redis
\* executed their commands, so the tasks enter mysql_queue in the order of the
\* changes of the board, and the table follows the board write by write.
THEOREM WritesReachMysqlInOrder ==
  ASSUME WriteBehindAssumption
  PROVE  Spec => WritesInOrder
<1>1. Init => TypeOK /\ PromptInv /\ WriteBehind!Init
  BY InitType, InitPrompt
<1>2. TypeOK /\ PromptInv /\ [Next]_vars =>
        TypeOK' /\ PromptInv' /\ [WriteBehind!Next]_<<board, Pending, Saved>>
  BY NextType, NextPrompt DEF PromptStep
<1> QED BY <1>1, <1>2, PTL DEF Spec, WritesInOrder, WriteBehind!Spec

(***************************************************************************)
(* No row of MySQL is left behind while calls do not overlap               *)
(***************************************************************************)
\* A statement writes or deletes the row of a player ...
Concerns(s, p) ==
    \/ s.op = "insert" /\ s.rows[p] # None
    \/ s.op = "update" /\ s.player = p
    \/ s.op = "delete" /\ p \in s.players

\* ... and leaves no other score than this one in it.
Fits(s, p, score) ==
    \/ s.op = "insert" /\ s.rows[p].score = score
    \/ s.op = "update" /\ s.score = score
    \/ s.op = "delete"

RowFits(row, score) == row = None \/ row.score = score

\* Only deletions come after the first statement of a task, so only they are
\* put off behind tasks forked later.
LaterDeletes(queue) ==
    \A i \in 1 .. Len(queue) : \A j \in 2 .. Len(queue[i]) : queue[i][j].op = "delete"

\* What the queue will leave of the row of a player, if anything, is the score
\* on the board: it is deleted late, or the last statement at the head of a task
\* that concerns it fits, or nothing concerns it and it fits as it is.
WillDelete(queue, p) ==
    \E i \in 1 .. Len(queue) : \E j \in 2 .. Len(queue[i]) : Concerns(queue[i][j], p)
LastFits(queue, p, score) ==
    \E i \in 1 .. Len(queue) :
        /\ Concerns(Head(queue[i]), p) /\ Fits(Head(queue[i]), p, score)
        /\ \A k \in i + 1 .. Len(queue) : ~Concerns(Head(queue[k]), p)
Untouched(queue, p) == \A i \in 1 .. Len(queue) : ~Concerns(Head(queue[i]), p)

Settles(queue, row, p, score) ==
    \/ WillDelete(queue, p)
    \/ LastFits(queue, p, score)
    \/ Untouched(queue, p) /\ RowFits(row, score)

Settled(p) == Settles(mq, rows[p], p, board[p])

Blank == mq = <<>> /\ rows = NoRows
InLoop(c) == c.op \in BatchUpdate /\ c.at # "b_del"

\* The batch will fork the deletion of the row of a player.
Drops(c, p) == \E i \in DOMAIN c.dels : c.dels[i] = p

\* A call that will fork a statement for the row of a player.
Owes(c, p) ==
    \/ c.at = "hset" /\ c.player = p
    \/ c.at = "r_del" /\ c.removed /\ c.player = p
    \/ InLoop(c) /\ Drops(c, p)

\* What a call will fork is what it did to the board.  The arguments of its
\* ZADD that a batch does not insert were accepted without a mysql_conn.
MatchesFor(c, ps) ==
    /\ ~HasMysql => c.sql = NoRows
    /\ \A p \in ps : c.sql[p] # None => c.sql[p] = c.ins[p]
    /\ \A p \in ps : c.ins[p] # None => c.sql[p] = c.ins[p] \/ Blank
Matches(c) == MatchesFor(c, Players)

\* The player whose row is noted for MySQL once the HSET is answered.
AtHand(c) == IF c.at = "b_hset" THEN {Head(c.updates).player} ELSE {}

Coherent(c) ==
    /\ c.at = "hset" => board[c.player] = c.score
    /\ InLoop(c) => MatchesFor(c, Players \ AtHand(c))

\* The inductive invariant: every row is settled, or the one call in progress
\* will fork what settles it.
Tidy ==
    /\ ~down
    /\ Len(waiting) <= 1
    /\ ~HasMysql => Blank
    /\ LaterDeletes(mq)
    /\ \A p \in Players : Settled(p) \/ (waiting # <<>> /\ Owes(Current, p))
    /\ waiting # <<>> => Coherent(Current)

\* A task behind the others.
LEMMA SettlesForked ==
  ASSUME NEW queue \in Seq(Tasks), NEW t \in Tasks, NEW row, NEW p, NEW score,
         \/ Concerns(Head(t), p) /\ Fits(Head(t), p, score)
         \/ \E j \in 2 .. Len(t) : Concerns(t[j], p)
         \/ /\ \A j \in 1 .. Len(t) : ~Concerns(t[j], p)
            /\ Settles(queue, row, p, score)
  PROVE  Settles(Append(queue, t), row, p, score)
<1> DEFINE all == Append(queue, t)
           n == Len(queue)
<1>1. /\ n \in Nat /\ Len(all) = n + 1 /\ all[n + 1] = t
      /\ \A i \in 1 .. n : all[i] = queue[i]
  OBVIOUS
<1>2. Head(t) = t[1] /\ 1 \in 1 .. Len(t)
  BY DEF Tasks
<1> HIDE DEF all, n
<1>3. CASE Concerns(Head(t), p) /\ Fits(Head(t), p, score)
  <2>1. LastFits(all, p, score)
    BY <1>1, <1>3 DEF LastFits
  <2> QED BY <2>1 DEF Settles, all
<1>4. CASE \E j \in 2 .. Len(t) : Concerns(t[j], p)
  <2>1. WillDelete(all, p)
    <3>1. n + 1 \in 1 .. Len(all)
      BY <1>1
    <3> QED BY <1>1, <1>4, <3>1 DEF WillDelete
  <2> QED BY <2>1 DEF Settles, all
<1>5. CASE /\ \A j \in 1 .. Len(t) : ~Concerns(t[j], p)
           /\ Settles(queue, row, p, score)
  <2>1. ~Concerns(Head(t), p)
    BY <1>2, <1>5
  <2>2. ASSUME WillDelete(queue, p) PROVE WillDelete(all, p)
    <3>1. PICK i \in 1 .. Len(queue) : \E j \in 2 .. Len(queue[i]) : Concerns(queue[i][j], p)
      BY <2>2 DEF WillDelete
    <3>2. i \in 1 .. Len(all) /\ all[i] = queue[i]
      BY <1>1 DEF n
    <3> QED BY <3>1, <3>2 DEF WillDelete
  <2>3. ASSUME LastFits(queue, p, score) PROVE LastFits(all, p, score)
    <3>1. PICK i \in 1 .. n :
             /\ Concerns(Head(queue[i]), p) /\ Fits(Head(queue[i]), p, score)
             /\ \A k \in i + 1 .. n : ~Concerns(Head(queue[k]), p)
      BY <2>3 DEF LastFits, n
    <3>2. \A k \in i + 1 .. n + 1 : ~Concerns(Head(all[k]), p)
      BY <1>1, <2>1, <3>1
    <3>3. i \in 1 .. Len(all) /\ all[i] = queue[i]
      BY <1>1
    <3> QED BY <1>1, <3>1, <3>2, <3>3 DEF LastFits
  <2>4. ASSUME Untouched(queue, p) PROVE Untouched(all, p)
    BY <1>1, <2>1, <2>4 DEF Untouched, n
  <2> QED BY <1>5, <2>2, <2>3, <2>4 DEF Settles, all
<1> QED BY <1>3, <1>4, <1>5

\* The row of a player after a statement.
LEMMA RowExecuted ==
  ASSUME rows \in Tables, NEW s \in Statements, NEW p \in Players, NEW score
  PROVE  /\ ~Concerns(s, p) => RowsAfter(s)[p] = rows[p]
         /\ Concerns(s, p) /\ Fits(s, p, score) => RowFits(RowsAfter(s)[p], score)
<1>1. /\ s.op \in {"insert", "update", "delete"}
      /\ rows[p] \in Rows \cup {None}
  BY DEF Statements, Tables
<1>2. CASE s.op = "insert"
  BY <1>1, <1>2 DEF RowsAfter, Concerns, Fits, RowFits
<1>3. CASE s.op = "update"
  BY <1>1, <1>3 DEF RowsAfter, Concerns, Fits, RowFits, Rows
<1>4. CASE s.op = "delete"
  BY <1>1, <1>4 DEF RowsAfter, Concerns, Fits, RowFits
<1> QED BY <1>1, <1>2, <1>3, <1>4

\* The queue of tasks after the first has run a statement.
Rotated(queue) ==
    IF Len(Head(queue)) > 1 THEN Append(Tail(queue), Tail(Head(queue))) ELSE Tail(queue)

LEMMA RotatedQueue ==
  ASSUME NEW queue \in Seq(Tasks), queue # <<>>
  PROVE  /\ Len(queue) \in Nat \ {0} /\ queue[1] = Head(queue)
         /\ Len(queue) - 1 <= Len(Rotated(queue))
         /\ \A i \in 1 .. Len(queue) - 1 : Rotated(queue)[i] = queue[i + 1]
         /\ Len(queue[1]) > 1 =>
              /\ Len(Rotated(queue)) = Len(queue)
              /\ Len(Rotated(queue)[Len(queue)]) = Len(queue[1]) - 1
              /\ Head(Rotated(queue)[Len(queue)]) = queue[1][2]
              /\ \A j \in 1 .. Len(queue[1]) - 1 :
                    Rotated(queue)[Len(queue)][j] = queue[1][j + 1]
         /\ ~(Len(queue[1]) > 1) => Len(Rotated(queue)) = Len(queue) - 1
<1> DEFINE n == Len(queue)
           rest == Tail(queue)
           t == queue[1]
<1>1. /\ n \in Nat \ {0} /\ queue[1] = Head(queue) /\ t \in Seq(Statements)
      /\ rest \in Seq(Tasks) /\ Len(rest) = n - 1
      /\ \A i \in 1 .. n - 1 : rest[i] = queue[i + 1]
  BY DEF Tasks
<1>2. Rotated(queue) = IF Len(t) > 1 THEN Append(rest, Tail(t)) ELSE rest
  BY <1>1 DEF Rotated
<1> HIDE DEF n, rest, t
<1>3. CASE Len(t) > 1
  <2> DEFINE u == Tail(t)
  <2>1. /\ Len(u) = Len(t) - 1 /\ Head(u) = t[2]
        /\ \A j \in 1 .. Len(t) - 1 : u[j] = t[j + 1]
    BY <1>1, <1>3
  <2> HIDE DEF u
  <2>2. /\ Len(Append(rest, u)) = n /\ Append(rest, u)[n] = u
        /\ \A i \in 1 .. n - 1 : Append(rest, u)[i] = rest[i]
    BY <1>1
  <2> QED BY <1>1, <1>2, <1>3, <2>1, <2>2 DEF u, n, t
<1>4. CASE ~(Len(t) > 1)
  BY <1>1, <1>2, <1>4 DEF n, t
<1> QED BY <1>3, <1>4

LEMMA LaterDeletesForked ==
  ASSUME NEW queue \in Seq(Tasks), LaterDeletes(queue), NEW t \in Tasks,
         \A j \in 2 .. Len(t) : t[j].op = "delete"
  PROVE  LaterDeletes(Append(queue, t))
<1> DEFINE all == Append(queue, t)
           n == Len(queue)
<1>1. /\ n \in Nat /\ Len(all) = n + 1 /\ all[n + 1] = t
      /\ \A i \in 1 .. n : all[i] = queue[i]
  OBVIOUS
<1>2. \A i \in 1 .. n : \A j \in 2 .. Len(queue[i]) : queue[i][j].op = "delete"
  BY DEF LaterDeletes
<1> HIDE DEF all, n
<1>3. ASSUME NEW i \in 1 .. n + 1, NEW j \in 2 .. Len(all[i])
      PROVE  all[i][j].op = "delete"
  <2>1. CASE i = n + 1
    BY <1>1, <1>3, <2>1
  <2>2. CASE i # n + 1
    <3>1. i \in 1 .. n
      BY <1>1, <2>2
    <3> QED BY <1>1, <1>2, <1>3, <3>1
  <2> QED BY <2>1, <2>2
<1> QED BY <1>1, <1>3 DEF LaterDeletes, all

LEMMA LaterDeletesExecuted ==
  ASSUME NEW queue \in Seq(Tasks), queue # <<>>, LaterDeletes(queue)
  PROVE  LaterDeletes(Rotated(queue))
<1> DEFINE n == Len(queue)
           next == Rotated(queue)
<1>1. /\ n \in Nat \ {0}
      /\ \A i \in 1 .. n - 1 : next[i] = queue[i + 1]
      /\ Len(queue[1]) > 1 =>
           /\ Len(next) = n /\ Len(next[n]) = Len(queue[1]) - 1
           /\ \A j \in 1 .. Len(queue[1]) - 1 : next[n][j] = queue[1][j + 1]
      /\ ~(Len(queue[1]) > 1) => Len(next) = n - 1
  BY RotatedQueue
<1>2. \A i \in 1 .. n : \A j \in 2 .. Len(queue[i]) : queue[i][j].op = "delete"
  BY DEF LaterDeletes
<1>3. Len(queue[1]) \in Nat
  BY <1>1 DEF Tasks
<1> HIDE DEF n, next
<1>4. ASSUME NEW i \in 1 .. Len(next), NEW j \in 2 .. Len(next[i])
      PROVE  next[i][j].op = "delete"
  <2>1. CASE i \in 1 .. n - 1
    <3>1. PICK k \in 1 .. n : k = i + 1 /\ next[i] = queue[k]
      BY <1>1, <2>1
    <3> QED BY <1>2, <3>1, <1>4
  <2>2. CASE i \notin 1 .. n - 1
    <3>1. Len(queue[1]) > 1 /\ i = n
      BY <1>1, <1>3, <2>2
    <3>2. j \in 1 .. Len(queue[1]) - 1
      BY <1>1, <1>3, <1>4, <3>1
    <3>3. PICK k \in 2 .. Len(queue[1]) : k = j + 1 /\ next[n][j] = queue[1][k]
      BY <1>1, <1>3, <3>1, <3>2
    <3>4. 1 \in 1 .. n
      BY <1>1
    <3> QED BY <1>2, <3>1, <3>3, <3>4
  <2> QED BY <2>1, <2>2
<1> QED BY <1>4 DEF LaterDeletes, next

\* A statement is executed: what the queue will leave stays the same.
LEMMA SettlesExecuted ==
  ASSUME NEW queue \in Seq(Tasks), queue # <<>>, LaterDeletes(queue),
         NEW row, NEW next, NEW p, NEW score,
         ~Concerns(Head(Head(queue)), p) => next = row,
         Concerns(Head(Head(queue)), p) /\ Fits(Head(Head(queue)), p, score)
            => RowFits(next, score),
         Settles(queue, row, p, score)
  PROVE  Settles(Rotated(queue), next, p, score)
<1> DEFINE n == Len(queue)
           q == Rotated(queue)
           t == queue[1]
<1>1. /\ n \in Nat \ {0} /\ t = Head(queue)
      /\ n - 1 <= Len(q)
      /\ \A i \in 1 .. n - 1 : q[i] = queue[i + 1]
      /\ Len(t) > 1 =>
           /\ Len(q) = n /\ Len(q[n]) = Len(t) - 1 /\ Head(q[n]) = t[2]
           /\ \A j \in 1 .. Len(t) - 1 : q[n][j] = t[j + 1]
      /\ ~(Len(t) > 1) => Len(q) = n - 1
  BY RotatedQueue
<1>2. Len(t) \in Nat \ {0} /\ Head(t) = t[1] /\ Head(Head(queue)) = t[1]
  <2>1. t \in Seq(Statements) /\ t # <<>>
    BY <1>1 DEF Tasks
  <2> QED BY <1>1, <2>1
<1>3. ASSUME Len(t) > 1
      PROVE  /\ Head(q[n]) = t[2] /\ t[2].op = "delete" /\ n \in 1 .. Len(q)
  <2>1. t[2].op = "delete"
    BY <1>1, <1>2, <1>3 DEF LaterDeletes
  <2> QED BY <1>1, <1>2, <1>3, <2>1
<1> HIDE DEF n, q, t
\* When the task that goes to the back concerns the player, it is deleted.
<1>4. ASSUME Len(t) > 1, Concerns(t[2], p) PROVE LastFits(q, p, score)
  <2>1. Fits(t[2], p, score)
    BY <1>3, <1>4 DEF Fits
  <2>2. n + 1 .. Len(q) = {}
    BY <1>1, <1>4
  <2> QED BY <1>3, <1>4, <2>1, <2>2 DEF LastFits
<1>5. ASSUME ~(Len(t) > 1 /\ Concerns(t[2], p)), NEW i \in 1 .. n,
             \A k \in i + 1 .. n : ~Concerns(Head(queue[k]), p)
      PROVE  \A k \in i .. Len(q) : ~Concerns(Head(q[k]), p)
  <2> SUFFICES ASSUME NEW k \in i .. Len(q) PROVE ~Concerns(Head(q[k]), p)
    OBVIOUS
  <2>1. CASE k \in 1 .. n - 1
    <3>1. k + 1 \in i + 1 .. n /\ q[k] = queue[k + 1]
      BY <1>1, <2>1
    <3> QED BY <1>5, <3>1
  <2>2. CASE k \notin 1 .. n - 1
    <3>1. Len(t) > 1 /\ k = n
      BY <1>1, <2>2
    <3> QED BY <1>3, <1>5, <3>1
  <2> QED BY <2>1, <2>2
<1>6. CASE WillDelete(queue, p)
  <2>0. PICK i \in 1 .. n : \E j \in 2 .. Len(queue[i]) : Concerns(queue[i][j], p)
    BY <1>6 DEF WillDelete, n
  <2>1. PICK j \in 2 .. Len(queue[i]) : Concerns(queue[i][j], p)
    BY <2>0
  <2>2. CASE i = 1 /\ j = 2
    BY <1>2, <1>4, <2>1, <2>2 DEF Settles, t, q
  <2>3. CASE i = 1 /\ j # 2
    <3>1. PICK k \in 2 .. Len(t) - 1 : k = j - 1 /\ k + 1 = j
      BY <1>2, <2>1, <2>3 DEF t
    <3>2. k \in 2 .. Len(q[n]) /\ q[n][k] = queue[1][j]
      BY <1>1, <1>2, <3>1 DEF t
    <3>3. n \in 1 .. Len(q)
      BY <1>1, <1>2, <1>3, <3>1
    <3>4. WillDelete(q, p)
      BY <2>1, <2>3, <3>2, <3>3 DEF WillDelete
    <3> QED BY <3>4 DEF Settles, q
  <2>4. CASE i # 1
    <3>1. PICK k \in 1 .. n - 1 : k = i - 1 /\ k + 1 = i
      BY <1>1, <2>1, <2>4
    <3>2. q[k] = queue[i] /\ k \in 1 .. Len(q)
      BY <1>1, <3>1
    <3>3. WillDelete(q, p)
      BY <2>1, <3>2 DEF WillDelete
    <3> QED BY <3>3 DEF Settles, q
  <2> QED BY <2>2, <2>3, <2>4
<1>7. CASE LastFits(queue, p, score) /\ ~(Len(t) > 1 /\ Concerns(t[2], p))
  <2>1. PICK i \in 1 .. n :
           /\ Concerns(Head(queue[i]), p) /\ Fits(Head(queue[i]), p, score)
           /\ \A k \in i + 1 .. n : ~Concerns(Head(queue[k]), p)
    BY <1>7 DEF LastFits, n
  <2>2. \A k \in i .. Len(q) : ~Concerns(Head(q[k]), p)
    BY <1>5, <1>7, <2>1
  <2>3. CASE i = 1
    <3>1. Untouched(q, p)
      BY <2>2, <2>3 DEF Untouched
    <3>2. RowFits(next, score)
      BY <1>1, <2>1, <2>3 DEF t
    <3> QED BY <3>1, <3>2 DEF Settles, q
  <2>4. CASE i # 1
    <3>1. PICK k \in 1 .. n - 1 : k = i - 1 /\ k + 1 = i
      BY <1>1, <2>1, <2>4
    <3>2. q[k] = queue[i] /\ k \in 1 .. Len(q) /\ k + 1 = i
      BY <1>1, <3>1
    <3>3. LastFits(q, p, score)
      BY <2>1, <2>2, <3>2 DEF LastFits
    <3> QED BY <3>3 DEF Settles, q
  <2> QED BY <2>3, <2>4
<1>8. CASE Untouched(queue, p) /\ RowFits(row, score) /\ ~(Len(t) > 1 /\ Concerns(t[2], p))
  <2>1. \A k \in 1 .. n : ~Concerns(Head(queue[k]), p)
    BY <1>8 DEF Untouched, n
  <2>2. 1 \in 1 .. n /\ \A k \in 1 + 1 .. n : ~Concerns(Head(queue[k]), p)
    BY <1>1, <2>1
  <2>3. Untouched(q, p)
    BY <1>5, <1>8, <2>2 DEF Untouched
  <2>4. next = row
    BY <1>1, <1>2, <2>1, <2>2 DEF t
  <2> QED BY <1>8, <2>3, <2>4 DEF Settles, q
<1> QED BY <1>4, <1>6, <1>7, <1>8 DEF Settles, q

\* Before there is a mysql_conn nothing is queued and no row is there.
LEMMA BlankSettles ==
  ASSUME Blank, NEW p \in Players, NEW score
  PROVE  Settles(mq, rows[p], p, score)
BY DEF Blank, Settles, Untouched, RowFits, NoRows

\* The row of a player when a call forks a task.
LEMMA SettledForked ==
  ASSUME TypeOK, Tidy, NEW t \in Tasks, Fork(t), rows' = rows, NEW p \in Players,
         \/ Concerns(Head(t), p) /\ Fits(Head(t), p, board'[p])
         \/ \E j \in 2 .. Len(t) : Concerns(t[j], p)
         \/ /\ \A j \in 1 .. Len(t) : ~Concerns(t[j], p)
            /\ Settles(mq, rows[p], p, board'[p])
  PROVE  Settled(p)'
<1>1. CASE HasMysql
  <2>1. mq \in Seq(Tasks) /\ mq' = Append(mq, t)
    BY <1>1 DEF TypeOK, Tasks, Fork
  <2>2. Settles(Append(mq, t), rows[p], p, board'[p])
    BY <2>1, SettlesForked
  <2> QED BY <2>1, <2>2 DEF Settled
<1>2. CASE ~HasMysql
  <2>1. Blank /\ mq' = mq
    BY <1>2 DEF Tidy, Fork
  <2>2. Settles(mq, rows[p], p, board'[p])
    BY <2>1, BlankSettles
  <2> QED BY <2>1, <2>2 DEF Settled
<1> QED BY <1>1, <1>2

LEMMA QueueForked ==
  ASSUME TypeOK, Tidy, NEW t \in Tasks, Fork(t),
         \A j \in 2 .. Len(t) : t[j].op = "delete"
  PROVE  LaterDeletes(mq') /\ (~HasMysql => mq' = mq)
<1>1. CASE HasMysql
  <2>1. mq \in Seq(Tasks) /\ mq' = Append(mq, t)
    BY <1>1 DEF TypeOK, Tasks, Fork
  <2> QED BY <1>1, <2>1, LaterDeletesForked DEF Tidy
<1>2. CASE ~HasMysql
  BY <1>2 DEF Fork, Tidy
<1> QED BY <1>1, <1>2

\* A task of one statement.
LEMMA OneForked ==
  ASSUME TypeOK, Tidy, NEW s \in Statements, Fork(<<s>>), rows' = rows
  PROVE  /\ LaterDeletes(mq') /\ (~HasMysql => mq' = mq)
         /\ \A p \in Players :
              \/ Concerns(s, p) /\ Fits(s, p, board'[p])
              \/ ~Concerns(s, p) /\ Settles(mq, rows[p], p, board'[p])
              => Settled(p)'
<1> DEFINE t == <<s>>
<1>1. t \in Tasks /\ Head(t) = s /\ t[1] = s /\ 2 .. Len(t) = {} /\ 1 .. Len(t) = {1}
  BY DEF Tasks
<1>2. Fork(t)
  OBVIOUS
<1> HIDE DEF t
<1>3. LaterDeletes(mq') /\ (~HasMysql => mq' = mq)
  BY <1>1, <1>2, QueueForked
<1>4. ASSUME NEW p \in Players,
             \/ Concerns(s, p) /\ Fits(s, p, board'[p])
             \/ ~Concerns(s, p) /\ Settles(mq, rows[p], p, board'[p])
      PROVE  Settled(p)'
  BY <1>1, <1>2, <1>4, SettledForked
<1> QED BY <1>3, <1>4

-----------------------------------------------------------------------------
\* The one call in progress, and the queue of calls after its step.
LEMMA TidyCurrent ==
  ASSUME TypeOK, Tidy, waiting # <<>>
  PROVE  /\ Current \in Coroutines /\ Coherent(Current)
         /\ Tail(waiting) = <<>>
         /\ Return => waiting' = <<>>
         /\ \A d : Await(d) => waiting' # <<>> /\ Len(waiting') = 1 /\ Current' = d
<1>1. /\ waiting \in Seq(Coroutines) /\ Len(waiting) = 1
      /\ Coherent(Current)
  <2>1. waiting \in Seq(Coroutines) /\ Coherent(Current)
    BY DEF TypeOK, Tidy
  <2>2. Len(waiting) <= 1
    BY DEF Tidy
  <2>3. Len(waiting) \in Nat \ {0}
    BY <2>1, EmptySeq, Zenon
  <2> QED BY <2>1, <2>2, <2>3
<1>2. Tail(waiting) \in Seq(Coroutines) /\ Len(Tail(waiting)) = 0
  BY <1>1
<1>3. Tail(waiting) = <<>>
  <2>1. \A s \in Seq(Coroutines) : s # <<>> => Len(s) \in Nat \ {0}
    BY EmptySeq, Zenon
  <2> QED BY <1>2, <2>1
<1>4. Current \in Coroutines
  BY <1>1 DEF Current
<1>5. Return => waiting' = <<>>
  BY <1>3 DEF Return
<1>6. ASSUME NEW d, Await(d) PROVE waiting' # <<>> /\ Len(waiting') = 1 /\ Current' = d
  <2>1. waiting' = Append(<<>>, d)
    BY <1>3, <1>6 DEF Await
  <2>2. Append(<<>>, d) = <<d>> /\ <<d>> # <<>> /\ Len(<<d>>) = 1 /\ Head(<<d>>) = d
    OBVIOUS
  <2>3. waiting' # <<>> /\ Len(waiting') = 1
    BY <2>1, <2>2
  <2>4. Head(waiting') = d
    BY <2>1, <2>2
  <2> QED BY <2>3, <2>4 DEF Current
<1> QED BY <1>1, <1>3, <1>4, <1>5, <1>6

LEMMA TidyStep ==
  ASSUME TypeOK, Tidy, waiting # <<>>, Progress, NEW d, Return \/ Await(d),
         LaterDeletes(mq'), ~HasMysql => mq' = mq,
         \A p \in Players : Settled(p)' \/ (Await(d) /\ Owes(d, p)),
         Await(d) => Coherent(d)'
  PROVE  Tidy'
<1>1. rows' = rows /\ phase' = phase /\ down' = down
  BY DEF Progress, mysqlVars
<1>2. Return => waiting' = <<>>
  BY TidyCurrent
<1>3. Await(d) => waiting' # <<>> /\ Len(waiting') = 1 /\ Current' = d
  BY TidyCurrent
<1>7. Len(waiting') <= 1
  <2>1. Len(<<>>) = 0
    OBVIOUS
  <2> QED BY <1>2, <1>3, <2>1
<1>4. ~down' /\ (~HasMysql' => Blank')
  BY <1>1 DEF Tidy, HasMysql, Blank
<1>5. \A p \in Players : Settled(p)' \/ (waiting' # <<>> /\ Owes(Current', p))
  BY <1>3
<1>6. waiting' # <<>> => Coherent(Current)'
  BY <1>2, <1>3
<1> QED BY <1>4, <1>5, <1>6, <1>7 DEF Tidy

\* A call that neither has nor leaves anything to fork.
Plain(c) == c.at \notin {"hset", "r_del"} /\ ~InLoop(c)

LEMMA PlainCalls ==
  ASSUME NEW c, Plain(c)
  PROVE  Coherent(c) /\ \A p : ~Owes(c, p)
BY DEF Plain, Coherent, Owes

LEMMA TidyPlain ==
  ASSUME TypeOK, Tidy, waiting # <<>>, Progress, board' = board, mq' = mq,
         \A p \in Players : ~Owes(Current, p),
         NEW d, Return \/ (Await(d) /\ Plain(d))
  PROVE  Tidy'
<1>1. rows' = rows
  BY DEF Progress, mysqlVars
<1>2. \A p \in Players : Settled(p)'
  BY <1>1 DEF Tidy, Settled
<1>3. Await(d) => Coherent(d)'
  <2>1. ASSUME Await(d) PROVE Plain(d)
    <3>1. CASE Return
      <4>1. waiting' = <<>> /\ waiting' # <<>>
        BY <2>1, <3>1, TidyCurrent
      <4> QED BY <4>1
    <3> QED BY <3>1
  <2> QED BY <2>1 DEF Plain, Coherent
<1>4. LaterDeletes(mq')
  BY DEF Tidy
<1> QED BY <1>2, <1>3, <1>4, TidyStep

LEMMA TidyReply ==
  ASSUME TypeOK, Tidy, NEW labels, Reply(labels)
  PROVE  /\ waiting # <<>> /\ Execute(Current) /\ Current \in Coroutines
         /\ Coherent(Current) /\ Current.at \in labels
BY TidyCurrent DEF Reply

LEMMA InLoopBatch ==
  ASSUME NEW c \in Coroutines
  PROVE  c.op \in BatchUpdate => c \in BatchCalls
BY DEF Coroutines, UpdateCalls, BatchCalls, RemoveCalls, BatchRemoveCalls, ReadCalls,
       InfoCalls, SingleUpdate, BatchUpdate

LEMMA NotBatch ==
  ASSUME NEW c \in Coroutines,
         c.at \notin {"b_zscore", "b_hset", "b_zrevrank", "b_zrem", "b_zadd", "b_del"}
  PROVE  c.op \notin BatchUpdate
<1>1. c \notin BatchCalls
  BY DEF BatchCalls
<1> QED BY <1>1, InLoopBatch

LEMMA PlainRelabel ==
  ASSUME NEW c \in Coroutines, c.op \notin BatchUpdate,
         NEW label, label \notin {"hset", "r_del"},
         NEW d, d = [c EXCEPT !.at = label]
  PROVE  Plain(d)
<1>1. d.op = c.op /\ d.at = label
  BY DEF Coroutines, UpdateCalls, BatchCalls, RemoveCalls, BatchRemoveCalls,
         ReadCalls, InfoCalls
<1> QED BY <1>1 DEF Plain, InLoop

LEMMA QuietTidy ==
  ASSUME TypeOK, Tidy, Progress, mq' = mq, NEW labels, Reply(labels),
         Current.at \notin {"zrem", "r_zrem", "b_zrem", "br_zrem", "zadd", "b_zadd",
                            "hset", "r_del"},
         ~InLoop(Current), NEW d, Return \/ (Await(d) /\ Plain(d))
  PROVE  Tidy'
<1>1. waiting # <<>> /\ board' = board
  BY TidyReply, BoardKept
<1>2. \A p \in Players : ~Owes(Current, p)
  BY DEF Owes
<1> QED BY <1>1, <1>2, TidyPlain

LEMMA ReadTidy ==
  ASSUME TypeOK, Tidy, ReadCache \/ ReadRanking \/ ReadExtras \/ StoreCache
  PROVE  Tidy'
<1>1. PICK labels :
        Reply(labels) /\ labels \subseteq {"get", "zrevrange", "pipeline", "setex"}
  BY DEF ReadCache, ReadRanking, ReadExtras, StoreCache
<1>2. /\ waiting # <<>> /\ Current \in ReadCalls
      /\ Current.at \in {"get", "zrevrange", "pipeline", "setex"}
  BY <1>1, ReplyType, Kinds
<1>3. mq' = mq /\ Progress
  BY DEF ReadCache, ReadRanking, ReadExtras, StoreCache
<1>4. ASSUME NEW d \in ReadCalls PROVE Plain(d) /\ ~InLoop(d)
  BY DEF ReadCalls, Plain, InLoop, BatchUpdate
<1>5. Return \/ \E d \in ReadCalls : Await(d)
  <2>1. ASSUME NEW c \in ReadCalls, StoreOrAnswer(c)
        PROVE  Return \/ \E d \in ReadCalls : Await(d)
    <3> DEFINE d == [c EXCEPT !.at = "setex"]
    <3>1. d \in ReadCalls
      BY DEF ReadCalls
    <3>2. Await(d) \/ Return
      BY <2>1 DEF StoreOrAnswer
    <3> HIDE DEF d
    <3> QED BY <3>1, <3>2
  <2>2. CASE ReadCache
    <3> DEFINE d == [Current EXCEPT !.at = "zrevrange"]
    <3>1. d \in ReadCalls
      BY <1>2 DEF ReadCalls
    <3>2. Await(d) \/ Return
      BY <2>2 DEF ReadCache, AwaitAt
    <3> HIDE DEF d
    <3> QED BY <3>1, <3>2
  <2>3. CASE ReadRanking
    <3> DEFINE list == Slice(Ranking, Current.first, Current.last)
               c == [Current EXCEPT !.list = list]
               d == [c EXCEPT !.at = "pipeline"]
    <3>1. Await(d) \/ StoreOrAnswer(c)
      BY <2>3 DEF ReadRanking
    <3>2. list \in Lists
      BY RankingType, SliceType DEF TypeOK
    <3> HIDE DEF list
    <3>3. c \in ReadCalls
      BY <1>2, <3>2 DEF ReadCalls
    <3> HIDE DEF c
    <3>4. d \in ReadCalls
      BY <3>3 DEF ReadCalls
    <3> HIDE DEF d
    <3> QED BY <2>1, <3>1, <3>3, <3>4
  <2>4. CASE ReadExtras
    BY <1>2, <2>1, <2>4 DEF ReadExtras
  <2>5. CASE StoreCache
    BY <2>5 DEF StoreCache
  <2> QED BY <2>2, <2>3, <2>4, <2>5
<1>6. ~InLoop(Current)
  BY <1>2, <1>4
<1>7. CASE Return
  BY <1>1, <1>2, <1>3, <1>6, <1>7, QuietTidy
<1>8. CASE \E d \in ReadCalls : Await(d)
  <2>1. PICK d \in ReadCalls : Await(d)
    BY <1>8
  <2> QED BY <1>1, <1>2, <1>3, <1>4, <1>6, <2>1, QuietTidy
<1> QED BY <1>5, <1>7, <1>8

LEMMA QuietStepsTidy ==
  ASSUME TypeOK, Tidy,
         \/ UpdateDirectZscore \/ UpdateZscore \/ UpdateZrevrank \/ DeleteCache
         \/ InfoStep \/ BatchRemoveDel
  PROVE  Tidy'
<1>1. PICK labels :
        /\ Reply(labels)
        /\ labels \subseteq {"zscore", "zrevrank", "del", "b_del", "r_delcache", "br_del",
                             "i_zscore", "i_zrevrank", "i_hget"}
  BY DEF UpdateDirectZscore, UpdateZscore, UpdateZrevrank, DeleteCache, InfoStep,
         BatchRemoveDel
<1>2. waiting # <<>> /\ Current \in Coroutines /\ Current.at \in labels
  BY <1>1, TidyReply
<1>3. mq' = mq /\ Progress
  BY DEF UpdateDirectZscore, UpdateZscore, UpdateZrevrank, DeleteCache, InfoStep,
         BatchRemoveDel
<1>4. Current.op \notin BatchUpdate \/ Current.at = "b_del"
  BY <1>1, <1>2, NotBatch
<1>5. ~InLoop(Current)
  BY <1>4 DEF InLoop
<1>6. \E d : Return \/ (Await(d) /\ Plain(d))
  <2>1. ASSUME NEW label \in {"zrem", "del", "i_zrevrank", "i_hget", "zadd"},
               Current.op \notin BatchUpdate, AwaitAt(label)
        PROVE  \E d : Await(d) /\ Plain(d)
    <3>1. PICK d : d = [Current EXCEPT !.at = label]
      OBVIOUS
    <3>2. Plain(d)
      BY <1>2, <2>1, <3>1, PlainRelabel
    <3> QED BY <2>1, <3>1, <3>2 DEF AwaitAt
  <2>2. CASE UpdateZscore
    <3>1. Current.at = "zscore" /\ Current.op \notin BatchUpdate
      BY <1>2, <1>4, <2>2 DEF UpdateZscore, Reply
    <3>2. PICK s : s = Clip(Current.cfg, CurrentScore(Current.player) + Current.score)
      OBVIOUS
    <3>3. PICK d : d = [Current EXCEPT !.at = "zadd", !.score = s]
      OBVIOUS
    <3>4. Return \/ AwaitAt("zrem") \/ Await(d)
      BY <2>2, <3>2, <3>3 DEF UpdateZscore, LeaveOrReturn
    <3>5. Current \in UpdateCalls
      BY <1>2, <3>1, Kinds
    <3>6. Plain(d)
      BY <3>1, <3>3, <3>5 DEF UpdateCalls, Plain, InLoop
    <3> QED BY <2>1, <3>1, <3>4, <3>6
  <2>3. CASE BatchRemoveDel
    <3>1. Current.at = "br_del" /\ Current.op \notin BatchUpdate
      BY <1>2, <1>4, <2>3 DEF BatchRemoveDel, Reply
    <3>2. PICK label \in {"br_del", "br_zrem"} :
             label = IF Len(Current.left) > 1 THEN "br_del" ELSE "br_zrem"
      OBVIOUS
    <3>3. PICK d : d = [Current EXCEPT !.left = Tail(@), !.at = label]
      OBVIOUS
    <3>4. Await(d)
      BY <2>3, <3>2, <3>3 DEF BatchRemoveDel
    <3>5. Current \in BatchRemoveCalls
      BY <1>2, <3>1, Kinds
    <3>6. Plain(d)
      BY <3>1, <3>3, <3>5 DEF BatchRemoveCalls, Plain, InLoop
    <3> QED BY <3>4, <3>6
  <2>4. CASE DeleteCache
    BY <2>4 DEF DeleteCache
  <2>5. CASE UpdateDirectZscore \/ UpdateZrevrank \/ InfoStep
    <3>1. Current.at # "b_del"
      BY <2>5 DEF UpdateDirectZscore, UpdateZrevrank, InfoStep, Reply
    <3>2. Return \/ \E label \in {"zrem", "del", "i_zrevrank", "i_hget"} : AwaitAt(label)
      BY <2>5 DEF UpdateDirectZscore, UpdateZrevrank, InfoStep, LeaveOrReturn
    <3> QED BY <1>4, <2>1, <3>1, <3>2
  <2> QED BY <2>2, <2>3, <2>4, <2>5
<1>7. PICK d : Return \/ (Await(d) /\ Plain(d))
  BY <1>6
<1>8. Current.at \notin {"zrem", "r_zrem", "b_zrem", "br_zrem", "zadd", "b_zadd",
                         "hset", "r_del"}
  BY <1>1, <1>2
<1> QED BY <1>1, <1>3, <1>5, <1>7, <1>8, QuietTidy

\* A call forks the one statement of what it did to the board.
LEMMA ForkTidy ==
  ASSUME TypeOK, Tidy, waiting # <<>>, Progress, NEW s \in Statements, Fork(<<s>>),
         \A p \in Players : Concerns(s, p) => Fits(s, p, board'[p]),
         \A p \in Players : ~Concerns(s, p) => board'[p] = board[p] /\ ~Owes(Current, p),
         NEW d, Return \/ (Await(d) /\ Plain(d))
  PROVE  Tidy'
<1>1. rows' = rows
  BY DEF Progress, mysqlVars
<1>2. \A p \in Players : Settled(p)'
  <2> SUFFICES ASSUME NEW p \in Players PROVE Settled(p)'
    OBVIOUS
  <2>1. CASE Concerns(s, p)
    BY <1>1, <2>1, OneForked
  <2>2. CASE ~Concerns(s, p)
    <3>1. Settles(mq, rows[p], p, board'[p])
      BY <2>2 DEF Tidy, Settled
    <3> QED BY <1>1, <2>2, <3>1, OneForked
  <2> QED BY <2>1, <2>2
<1>3. LaterDeletes(mq') /\ (~HasMysql => mq' = mq)
  BY <1>1, OneForked
<1>4. Await(d) => Coherent(d)'
  <2>1. ASSUME Await(d) PROVE Plain(d)
    <3>1. CASE Return
      <4>1. waiting' = <<>> /\ waiting' # <<>>
        BY <2>1, <3>1, TidyCurrent
      <4> QED BY <4>1
    <3> QED BY <3>1
  <2> QED BY <2>1 DEF Plain, Coherent
<1>5. (Return \/ Await(d))
  OBVIOUS
<1> QED BY <1>2, <1>3, <1>4, <1>5, TidyStep

LEMMA DeleteConcerns ==
  ASSUME NEW ps \in SUBSET Players
  PROVE  /\ Delete(ps) \in Statements
         /\ \A p \in Players : Concerns(Delete(ps), p) <=> p \in ps
         /\ \A p, score : Fits(Delete(ps), p, score)
<1>1. Delete(ps) \in Statements
  BY DEF Delete, Statements
<1>2. Delete(ps).op = "delete" /\ Delete(ps).players = ps
  BY DEF Delete
<1> QED BY <1>1, <1>2 DEF Concerns, Fits

LEMMA InsertConcerns ==
  ASSUME NEW p \in Players, NEW score \in Int, NEW extra \in Texts
  PROVE  /\ Insert(p, score, extra) \in Statements
         /\ \A q \in Players : Concerns(Insert(p, score, extra), q) <=> q = p
         /\ Fits(Insert(p, score, extra), p, score)
<1> DEFINE s == Insert(p, score, extra)
           row == [score |-> score, extra |-> extra]
<1>1. s.op = "insert" /\ s.rows = [NoRows EXCEPT ![p] = row]
  BY DEF Insert
<1>2. row \in Rows /\ row # None /\ row.score = score
  BY RankAssumption DEF Rows
<1>3. s \in Statements
  BY StatementTypes
<1> HIDE DEF row, s
<1>4. s.rows[p] = row /\ \A q \in Players : q # p => s.rows[q] = None
  BY <1>1 DEF NoRows
<1>5. \A q \in Players : Concerns(s, q) <=> q = p
  BY <1>1, <1>2, <1>4 DEF Concerns
<1>6. Fits(s, p, score)
  BY <1>1, <1>2, <1>4 DEF Fits
<1> QED BY <1>3, <1>5, <1>6 DEF s

LEMMA UpdateConcerns ==
  ASSUME NEW p \in Players, NEW score \in Int
  PROVE  /\ Update(p, score) \in Statements
         /\ \A q \in Players : Concerns(Update(p, score), q) <=> q = p
         /\ Fits(Update(p, score), p, score)
<1>1. Update(p, score) \in Statements
  BY StatementTypes
<1>2. /\ Update(p, score).op = "update" /\ Update(p, score).player = p
      /\ Update(p, score).score = score
  BY DEF Update
<1> QED BY <1>1, <1>2 DEF Concerns, Fits

LEMMA UpdateZremTidy == TypeOK /\ Tidy /\ UpdateZrem => Tidy'
<1> SUFFICES ASSUME TypeOK, Tidy, UpdateZrem PROVE Tidy'
  OBVIOUS
<1>1. Reply({"zrem"}) /\ Fork(<<Delete({Current.player})>>) /\ Return /\ Progress
  BY DEF UpdateZrem
<1>2. /\ waiting # <<>> /\ Current.at = "zrem" /\ Execute(Current)
      /\ Current.op \notin BatchUpdate
  BY <1>1, TidyReply, NotBatch
<1>3. PICK p \in Players : p = Current.player
  BY <1>1, TidyReply, Kinds DEF UpdateCalls
<1>4. PICK s \in Statements :
        /\ Fork(<<s>>)
        /\ \A q \in Players : Concerns(s, q) <=> q = p
        /\ \A q, score : Fits(s, q, score)
  BY <1>1, <1>3, DeleteConcerns
<1>5. \A q \in Players : q # p => board'[q] = board[q]
  BY <1>2, <1>3 DEF Execute, BoardAfter, TypeOK
<1>6. \A q \in Players : ~Owes(Current, q)
  BY <1>2 DEF Owes, InLoop
<1> QED BY <1>1, <1>2, <1>4, <1>5, <1>6, ForkTidy

LEMMA CheckCacheTidy ==
  ASSUME NEW c \in Coroutines, c = Current, c.op \notin BatchUpdate, CheckCache
  PROVE  \E d : Return \/ (Await(d) /\ Plain(d))
<1>1. PICK d : d = [Current EXCEPT !.at = "zrevrank"]
  OBVIOUS
<1>2. Plain(d)
  BY <1>1, PlainRelabel
<1> QED BY <1>1, <1>2 DEF CheckCache, AwaitAt

LEMMA UpdateZaddTidy == TypeOK /\ Tidy /\ UpdateZadd => Tidy'
<1> SUFFICES ASSUME TypeOK, Tidy, UpdateZadd PROVE Tidy'
  OBVIOUS
<1>1. Reply({"zadd"}) /\ Progress
  BY DEF UpdateZadd
<1>2. /\ waiting # <<>> /\ Current.at = "zadd" /\ Execute(Current)
      /\ Current.op \notin BatchUpdate /\ Current \in UpdateCalls /\ Current \in Coroutines
  BY <1>1, TidyReply, NotBatch, Kinds
<1>3. PICK p \in Players, score \in Int : p = Current.player /\ score = Current.score
  BY <1>2 DEF UpdateCalls
<1>4. board'[p] = score /\ \A q \in Players : q # p => board'[q] = board[q]
  BY <1>2, <1>3 DEF Execute, BoardAfter, TypeOK
<1>5. \A q \in Players : ~Owes(Current, q)
  BY <1>2 DEF Owes, InLoop
<1>6. CASE OnlyScore(Current)
  <2>1. Fork(<<Update(p, score)>>) /\ CheckCache
    BY <1>3, <1>6 DEF UpdateZadd
  <2>2. PICK s \in Statements :
        /\ Fork(<<s>>)
        /\ \A q \in Players : Concerns(s, q) <=> q = p
        /\ Fits(s, p, score)
    BY <2>1, UpdateConcerns
  <2>3. PICK d : Return \/ (Await(d) /\ Plain(d))
    BY <1>2, <2>1, CheckCacheTidy
  <2>4. \A q \in Players : Concerns(s, q) => Fits(s, q, board'[q])
    BY <1>4, <2>2
  <2>5. \A q \in Players : ~Concerns(s, q) => board'[q] = board[q] /\ ~Owes(Current, q)
    BY <1>4, <1>5, <2>2
  <2> QED BY <1>1, <1>2, <2>2, <2>3, <2>4, <2>5, ForkTidy
<1>7. CASE ~OnlyScore(Current)
  <2>1. PICK d : d = [Current EXCEPT !.at = "hset"]
    OBVIOUS
  <2>2. Await(d) /\ mq' = mq
    BY <1>7, <2>1 DEF UpdateZadd, AwaitAt
  <2>3. d.at = "hset" /\ d.player = p /\ d.score = score /\ d.op \notin BatchUpdate
    BY <1>2, <1>3, <2>1 DEF UpdateCalls
  <2>4. Coherent(d)'
    BY <1>4, <2>3 DEF Coherent, InLoop
  <2>5. rows' = rows
    BY <1>1 DEF Progress, mysqlVars
  <2>6. ASSUME NEW q \in Players PROVE Settled(q)' \/ (Await(d) /\ Owes(d, q))
    <3>1. CASE q = p
      BY <2>2, <2>3, <3>1 DEF Owes
    <3>2. CASE q # p
      <4>1. Settled(q) /\ board'[q] = board[q]
        BY <1>4, <1>5, <3>2 DEF Tidy
      <4> QED BY <2>2, <2>5, <4>1 DEF Settled
    <3> QED BY <3>1, <3>2
  <2>7. LaterDeletes(mq')
    BY <2>2 DEF Tidy
  <2> QED BY <1>1, <1>2, <2>2, <2>4, <2>6, <2>7, TidyStep
<1> QED BY <1>6, <1>7

LEMMA UpdateHsetTidy == TypeOK /\ Tidy /\ UpdateHset => Tidy'
<1> SUFFICES ASSUME TypeOK, Tidy, UpdateHset PROVE Tidy'
  OBVIOUS
<1>1. Reply({"hset"}) /\ Progress /\ CheckCache
  BY DEF UpdateHset
<1>2. /\ waiting # <<>> /\ Current.at = "hset" /\ Execute(Current) /\ Coherent(Current)
      /\ Current.op \notin BatchUpdate /\ Current \in UpdateCalls /\ Current \in Coroutines
  BY <1>1, TidyReply, NotBatch, Kinds
<1>3. PICK p \in Players, score \in Int : p = Current.player /\ score = Current.score
  BY <1>2 DEF UpdateCalls
<1>4. PICK extra \in Texts : extra = ExtraStr(Current.extra)
  BY <1>2 DEF UpdateCalls, ExtraStr, Texts
<1>5. board' = board /\ board[p] = score
  BY <1>2, <1>3, BoardKept DEF Coherent
<1>6. \A q \in Players : q # p => ~Owes(Current, q)
  BY <1>2, <1>3 DEF Owes, InLoop
<1>7. PICK s \in Statements :
        /\ Fork(<<s>>)
        /\ \A q \in Players : Concerns(s, q) <=> q = p
        /\ Fits(s, p, score)
  <2>1. Fork(<<Insert(p, score, extra)>>)
    BY <1>3, <1>4 DEF UpdateHset
  <2> QED BY <2>1, InsertConcerns
<1>8. PICK d : Return \/ (Await(d) /\ Plain(d))
  BY <1>1, <1>2, CheckCacheTidy
<1>9. \A q \in Players : Concerns(s, q) => Fits(s, q, board'[q])
  BY <1>5, <1>7
<1>10. \A q \in Players : ~Concerns(s, q) => board'[q] = board[q] /\ ~Owes(Current, q)
  BY <1>5, <1>6, <1>7
<1> QED BY <1>1, <1>2, <1>7, <1>8, <1>9, <1>10, ForkTidy

LEMMA RemoveZremTidy == TypeOK /\ Tidy /\ RemoveZrem => Tidy'
<1> SUFFICES ASSUME TypeOK, Tidy, RemoveZrem PROVE Tidy'
  OBVIOUS
<1>1. Reply({"r_zrem"}) /\ Progress /\ mq' = mq
  BY DEF RemoveZrem
<1>2. /\ waiting # <<>> /\ Current.at = "r_zrem" /\ Execute(Current)
      /\ Current.op \notin BatchUpdate /\ Current \in RemoveCalls
  BY <1>1, TidyReply, NotBatch, Kinds
<1>3. PICK p \in Players : p = Current.player
  BY <1>2 DEF RemoveCalls
<1>4. board'[p] = None /\ \A q \in Players : q # p => board'[q] = board[q]
  BY <1>2, <1>3 DEF Execute, BoardAfter, TypeOK
<1>5. \A q \in Players : ~Owes(Current, q)
  BY <1>2 DEF Owes, InLoop
<1>6. PICK removed \in BOOLEAN : removed = (board[p] # None)
  OBVIOUS
<1>7. PICK d : d = [Current EXCEPT !.at = "r_del", !.removed = removed]
  OBVIOUS
<1>8. Await(d)
  BY <1>3, <1>6, <1>7 DEF RemoveZrem
<1>9. d.at = "r_del" /\ d.player = p /\ d.removed = removed /\ d.op \notin BatchUpdate
  BY <1>2, <1>3, <1>7 DEF RemoveCalls
<1>10. Coherent(d)'
  BY <1>9 DEF Coherent, InLoop
<1>11. rows' = rows
  BY <1>1 DEF Progress, mysqlVars
<1>12. ASSUME NEW q \in Players PROVE Settled(q)' \/ (Await(d) /\ Owes(d, q))
  <2>1. CASE q = p /\ removed
    BY <1>8, <1>9, <2>1 DEF Owes
  <2>2. CASE ~(q = p /\ removed)
    <3>1. Settled(q) /\ board'[q] = board[q]
      BY <1>4, <1>5, <1>6, <2>2 DEF Tidy
    <3> QED BY <1>1, <1>11, <3>1 DEF Settled
  <2> QED BY <2>1, <2>2
<1>13. LaterDeletes(mq')
  BY <1>1 DEF Tidy
<1> QED BY <1>1, <1>2, <1>8, <1>10, <1>12, <1>13, TidyStep

LEMMA DelCacheTidy ==
  ASSUME NEW c \in Coroutines, c = Current, c.op \notin BatchUpdate,
         IF config.cache_num > 0 THEN AwaitAt("r_delcache") ELSE Return
  PROVE  \E d : Return \/ (Await(d) /\ Plain(d))
<1>1. PICK d : d = [Current EXCEPT !.at = "r_delcache"]
  OBVIOUS
<1>2. Plain(d)
  BY <1>1, PlainRelabel
<1> QED BY <1>1, <1>2 DEF AwaitAt

LEMMA RemoveDelTidy == TypeOK /\ Tidy /\ RemoveDel => Tidy'
<1> SUFFICES ASSUME TypeOK, Tidy, RemoveDel PROVE Tidy'
  OBVIOUS
<1>1. /\ Reply({"r_del"}) /\ Progress
      /\ IF config.cache_num > 0 THEN AwaitAt("r_delcache") ELSE Return
  BY DEF RemoveDel
<1>2. /\ waiting # <<>> /\ Current.at = "r_del" /\ Execute(Current)
      /\ Current.op \notin BatchUpdate /\ Current \in RemoveCalls /\ Current \in Coroutines
  BY <1>1, TidyReply, NotBatch, Kinds
<1>3. PICK p \in Players : p = Current.player
  BY <1>2 DEF RemoveCalls
<1>4. board' = board
  BY <1>2, BoardKept
<1>5. PICK d : Return \/ (Await(d) /\ Plain(d))
  BY <1>1, <1>2, DelCacheTidy
<1>6. CASE Current.removed
  <2>1. PICK s \in Statements :
        /\ Fork(<<s>>)
        /\ \A q \in Players : Concerns(s, q) <=> q = p
        /\ \A q, score : Fits(s, q, score)
    <3>1. Fork(<<Delete({p})>>)
      BY <1>3, <1>6 DEF RemoveDel
    <3> QED BY <3>1, DeleteConcerns
  <2>2. \A q \in Players : q # p => ~Owes(Current, q)
    BY <1>2, <1>3 DEF Owes, InLoop
  <2> QED BY <1>1, <1>2, <1>4, <1>5, <2>1, <2>2, ForkTidy
<1>7. CASE ~Current.removed
  <2>1. mq' = mq
    BY <1>7 DEF RemoveDel
  <2>2. \A q \in Players : ~Owes(Current, q)
    BY <1>2, <1>7 DEF Owes, InLoop
  <2> QED BY <1>1, <1>2, <1>4, <1>5, <2>1, <2>2, TidyPlain
<1> QED BY <1>6, <1>7

LEMMA BatchRemoveZremTidy == TypeOK /\ Tidy /\ BatchRemoveZrem => Tidy'
<1> SUFFICES ASSUME TypeOK, Tidy, BatchRemoveZrem PROVE Tidy'
  OBVIOUS
<1> DEFINE ps == {Current.players[i] : i \in DOMAIN Current.players}
<1>1. /\ Reply({"br_zrem"}) /\ Progress
      /\ IF config.cache_num > 0 THEN AwaitAt("r_delcache") ELSE Return
  BY DEF BatchRemoveZrem
<1>2. /\ waiting # <<>> /\ Current.at = "br_zrem" /\ Execute(Current)
      /\ Current.op \notin BatchUpdate /\ Current \in BatchRemoveCalls
      /\ Current \in Coroutines
  BY <1>1, TidyReply, NotBatch, Kinds
<1>3. PICK named \in SUBSET Players : named = ps
  <2>1. Current.players \in Seq(Players)
    BY <1>2 DEF BatchRemoveCalls
  <2>2. \A i \in DOMAIN Current.players : Current.players[i] \in Players
    BY <2>1
  <2> QED BY <2>2
<1>4. \A q \in Players : board'[q] = IF q \in named THEN None ELSE board[q]
  BY <1>2, <1>3 DEF Execute, BoardAfter
<1>5. PICK d : Return \/ (Await(d) /\ Plain(d))
  BY <1>1, <1>2, DelCacheTidy
<1>6. \A q \in Players : ~Owes(Current, q)
  BY <1>2 DEF Owes, InLoop
<1>7. IF named \cap OnBoard # {} THEN Fork(<<Delete(named)>>) ELSE mq' = mq
  BY <1>3 DEF BatchRemoveZrem
<1> HIDE DEF ps
<1>8. CASE named \cap OnBoard # {}
  <2>1. PICK s \in Statements :
        /\ Fork(<<s>>)
        /\ \A q \in Players : Concerns(s, q) <=> q \in named
        /\ \A q, score : Fits(s, q, score)
    BY <1>7, <1>8, DeleteConcerns
  <2> QED BY <1>1, <1>2, <1>4, <1>5, <1>6, <2>1, ForkTidy
<1>9. CASE named \cap OnBoard = {}
  <2>1. \A q \in Players : board'[q] = board[q]
    BY <1>4, <1>9 DEF OnBoard
  <2>2. board' = board
    <3>1. board \in [Players -> Scores] /\ board' \in [Players -> Scores]
      BY <1>2, BoardType, TidyReply DEF TypeOK, Execute
    <3> QED BY <2>1, <3>1
  <2> QED BY <1>1, <1>2, <1>5, <1>6, <1>7, <1>9, <2>2, TidyPlain
<1> QED BY <1>8, <1>9

\* The task of a batch: perhaps an insert, then the deletions.
LEMMA BatchTaskShape ==
  ASSUME NEW c \in BatchStates
  PROVE  \E k \in {0, 1} :
           /\ k = 1 <=> c.sql # NoRows
           /\ Len(BatchTask(c)) = k + Len(c.dels)
           /\ k = 1 => BatchTask(c)[1] = [op |-> "insert", rows |-> c.sql]
           /\ \A i \in 1 .. Len(c.dels) : BatchTask(c)[k + i] = Delete({c.dels[i]})
<1> DEFINE first == IF c.sql = NoRows THEN <<>> ELSE <<[op |-> "insert", rows |-> c.sql]>>
           rest == [i \in DOMAIN c.dels |-> Delete({c.dels[i]})]
<1>1. PICK k \in {0, 1} : k = 1 <=> c.sql # NoRows
  <2>1. CASE c.sql = NoRows
    <3>1. 0 \in {0, 1} /\ (0 = 1 <=> c.sql # NoRows)
      BY <2>1
    <3> QED BY <3>1
  <2>2. CASE c.sql # NoRows
    <3>1. 1 \in {0, 1} /\ (1 = 1 <=> c.sql # NoRows)
      BY <2>2
    <3> QED BY <3>1
  <2> QED BY <2>1, <2>2
<1>2. /\ first \in Seq(Statements) /\ Len(first) = k
      /\ k = 1 => first[1] = [op |-> "insert", rows |-> c.sql]
  <2>1. [op |-> "insert", rows |-> c.sql] \in Statements
    BY DEF BatchStates, Statements
  <2>2. <<>> \in Seq(Statements) /\ Len(<<>>) = 0
    OBVIOUS
  <2> QED BY <1>1, <2>1, <2>2
<1>3. c.dels \in Seq(Players)
  BY DEF BatchStates
<1>4. /\ rest \in Seq(Statements) /\ Len(rest) = Len(c.dels)
      /\ \A i \in 1 .. Len(c.dels) : rest[i] = Delete({c.dels[i]})
  <2>1. Len(c.dels) \in Nat /\ DOMAIN c.dels = 1..Len(c.dels)
    BY <1>3
  <2>2. \A i \in DOMAIN c.dels : Delete({c.dels[i]}) \in Statements
    BY <1>3, StatementTypes
  <2> QED BY <2>1, <2>2
<1>5. BatchTask(c) = first \o rest
  BY DEF BatchTask
<1> HIDE DEF first, rest
<1>6. /\ Len(first \o rest) = Len(first) + Len(rest)
      /\ \A i \in 1 .. Len(first) : (first \o rest)[i] = first[i]
      /\ \A i \in 1 .. Len(rest) : (first \o rest)[Len(first) + i] = rest[i]
  BY <1>2, <1>4, Concat, ConcatAt
<1>7. Len(BatchTask(c)) = k + Len(c.dels)
  BY <1>2, <1>4, <1>5, <1>6
<1>8. k = 1 => BatchTask(c)[1] = [op |-> "insert", rows |-> c.sql]
  <2>1. k = 1 => 1 \in 1 .. Len(first)
    BY <1>2
  <2> QED BY <1>2, <1>5, <1>6, <2>1
<1>9. \A i \in 1 .. Len(c.dels) : BatchTask(c)[k + i] = Delete({c.dels[i]})
  BY <1>2, <1>4, <1>5, <1>6
<1> QED BY <1>1, <1>7, <1>8, <1>9

\* Its statements leave what the batch did to the board.
LEMMA BatchTaskConcerns ==
  ASSUME NEW c \in BatchStates, BatchTask(c) # <<>>, NEW t, t = BatchTask(c)
  PROVE  /\ t \in Tasks
         /\ \A j \in 2 .. Len(t) : t[j].op = "delete"
         /\ \A p \in Players : Drops(c, p) =>
              \/ Concerns(Head(t), p) /\ (\A score : Fits(Head(t), p, score))
              \/ \E j \in 2 .. Len(t) : Concerns(t[j], p)
         /\ \A p \in Players : c.sql[p] # None =>
              /\ Concerns(Head(t), p) /\ Fits(Head(t), p, c.sql[p].score)
         /\ \A p \in Players : c.sql[p] = None /\ ~Drops(c, p) =>
              \A j \in 1 .. Len(t) : ~Concerns(t[j], p)
<1>1. t \in Tasks
  BY BatchTaskType DEF Tasks
<1>2. PICK k \in {0, 1} :
           /\ k = 1 <=> c.sql # NoRows
           /\ Len(t) = k + Len(c.dels)
           /\ k = 1 => t[1] = [op |-> "insert", rows |-> c.sql]
           /\ \A i \in 1 .. Len(c.dels) : t[k + i] = Delete({c.dels[i]})
  BY BatchTaskShape
<1>3. c.dels \in Seq(Players)
  BY DEF BatchStates
<1>4. /\ Len(c.dels) \in Nat /\ DOMAIN c.dels = 1 .. Len(c.dels)
      /\ \A i \in 1 .. Len(c.dels) : c.dels[i] \in Players
  BY <1>3
<1>5. Head(t) = t[1] /\ Len(t) \in Nat \ {0}
  BY <1>1, EmptySeq DEF Tasks
<1> DEFINE n == Len(c.dels)
<1>6. /\ Len(t) = k + n /\ n \in Nat
      /\ \A i \in 1 .. n : t[k + i] = Delete({c.dels[i]})
  BY <1>2, <1>4
<1> HIDE DEF n
<1>7. ASSUME NEW j \in 1 .. Len(t), ~(k = 1 /\ j = 1)
      PROVE  \E i \in 1 .. n : j = k + i /\ t[j] = Delete({c.dels[i]})
  <2>1. PICK i \in 1 .. n : i = j - k /\ j = k + i
    BY <1>6, <1>7
  <2> QED BY <1>6, <2>1
<1>8. \A i \in 1 .. n : /\ Delete({c.dels[i]}).op = "delete"
                        /\ \A p \in Players : Concerns(Delete({c.dels[i]}), p) <=> p = c.dels[i]
                        /\ \A p, score : Fits(Delete({c.dels[i]}), p, score)
  <2> SUFFICES ASSUME NEW i \in 1 .. n
               PROVE  /\ Delete({c.dels[i]}).op = "delete"
                      /\ \A p \in Players : Concerns(Delete({c.dels[i]}), p) <=> p = c.dels[i]
                      /\ \A p, score : Fits(Delete({c.dels[i]}), p, score)
    OBVIOUS
  <2>1. {c.dels[i]} \in SUBSET Players
    BY <1>4 DEF n
  <2>2. Delete({c.dels[i]}).op = "delete"
    BY DEF Delete
  <2> QED BY <2>1, <2>2, DeleteConcerns
<1>9. \A j \in 2 .. Len(t) : t[j].op = "delete"
  <2> SUFFICES ASSUME NEW j \in 2 .. Len(t) PROVE t[j].op = "delete"
    OBVIOUS
  <2>1. j \in 1 .. Len(t) /\ j # 1
    BY <1>5
  <2>2. PICK i \in 1 .. n : t[j] = Delete({c.dels[i]})
    BY <1>7, <2>1
  <2> QED BY <1>8, <2>2
<1>10. ASSUME NEW p \in Players, Drops(c, p)
       PROVE  \/ Concerns(Head(t), p) /\ (\A score : Fits(Head(t), p, score))
              \/ \E j \in 2 .. Len(t) : Concerns(t[j], p)
  <2>1. PICK i \in 1 .. n : c.dels[i] = p
    BY <1>4, <1>10 DEF Drops, n
  <2>2. PICK j \in 1 .. Len(t) : j = k + i /\ t[j] = Delete({c.dels[i]})
    <3>1. k + i \in 1 .. Len(t)
      BY <1>6
    <3> QED BY <1>6, <3>1
  <2>3. Concerns(t[j], p) /\ \A score : Fits(t[j], p, score)
    BY <1>8, <2>1, <2>2
  <2>4. CASE j = 1
    BY <1>5, <2>3, <2>4
  <2>5. CASE j # 1
    <3>1. j \in 2 .. Len(t)
      BY <2>5, <1>5
    <3> QED BY <2>3, <3>1
  <2> QED BY <2>4, <2>5
<1>11. ASSUME NEW p \in Players, c.sql[p] # None
       PROVE  Concerns(Head(t), p) /\ Fits(Head(t), p, c.sql[p].score)
  <2>1. c.sql # NoRows
    BY <1>11 DEF NoRows
  <2>2. Head(t) = [op |-> "insert", rows |-> c.sql]
    BY <1>2, <1>5, <2>1
  <2> QED BY <1>11, <2>2 DEF Concerns, Fits
<1>12. ASSUME NEW p \in Players, c.sql[p] = None, ~Drops(c, p), NEW j \in 1 .. Len(t)
       PROVE  ~Concerns(t[j], p)
  <2>1. CASE k = 1 /\ j = 1
    <3>1. t[j] = [op |-> "insert", rows |-> c.sql]
      BY <1>2, <2>1
    <3> QED BY <1>12, <3>1 DEF Concerns
  <2>2. CASE ~(k = 1 /\ j = 1)
    <3>1. PICK i \in 1 .. n : t[j] = Delete({c.dels[i]})
      BY <1>7, <2>2
    <3>2. c.dels[i] # p
      BY <1>4, <1>12 DEF Drops, n
    <3> QED BY <1>8, <3>1, <3>2
  <2> QED BY <2>1, <2>2
<1> QED BY <1>1, <1>9, <1>10, <1>11, <1>12

\* A batch forks its task.
LEMMA BatchForked ==
  ASSUME TypeOK, Tidy, rows' = rows, NEW c \in BatchStates, ForkBatch(c),
         \A p \in Players :
            \/ Drops(c, p)
            \/ c.sql[p] # None /\ c.sql[p].score = board'[p]
            \/ c.sql[p] = None /\ Settles(mq, rows[p], p, board'[p])
  PROVE  /\ LaterDeletes(mq') /\ (~HasMysql => mq' = mq)
         /\ \A p \in Players : Settled(p)'
<1>1. CASE BatchTask(c) = <<>>
  <2>1. mq' = mq
    BY <1>1 DEF ForkBatch
  <2>2. c.dels = <<>> /\ c.sql = NoRows
    <3>1. PICK k \in {0, 1} :
           /\ k = 1 <=> c.sql # NoRows
           /\ Len(BatchTask(c)) = k + Len(c.dels)
      BY BatchTaskShape
    <3>2. c.dels \in Seq(Players) /\ Len(BatchTask(c)) = 0
      BY <1>1 DEF BatchStates
    <3>5. Len(c.dels) \in Nat /\ 0 = k + Len(c.dels)
      <4>1. 0 = k + Len(c.dels)
        BY <3>1, <3>2
      <4> QED BY <3>2, <4>1
    <3>3. Len(c.dels) = 0 /\ k = 0
      BY <3>5
    <3>4. c.dels # <<>> => Len(c.dels) \in Nat \ {0}
      BY <3>2, EmptySeq, Zenon
    <3> QED BY <3>1, <3>3, <3>4
  <2>3. \A p \in Players : ~Drops(c, p) /\ c.sql[p] = None
    BY <2>2 DEF Drops, NoRows
  <2>4. \A p \in Players : Settles(mq, rows[p], p, board'[p])
    BY <2>3
  <2> QED BY <2>1, <2>4 DEF Tidy, Settled
<1>2. CASE BatchTask(c) # <<>>
  <2>1. PICK t : t = BatchTask(c)
    OBVIOUS
  <2>2. t \in Tasks /\ \A j \in 2 .. Len(t) : t[j].op = "delete"
    BY <1>2, <2>1, BatchTaskConcerns
  <2>3. Fork(t)
    BY <1>2, <2>1 DEF ForkBatch
  <2>4. \A p \in Players : Drops(c, p) =>
              \/ Concerns(Head(t), p) /\ (\A score : Fits(Head(t), p, score))
              \/ \E j \in 2 .. Len(t) : Concerns(t[j], p)
    BY <1>2, <2>1, BatchTaskConcerns
  <2>5. \A p \in Players : c.sql[p] # None =>
              /\ Concerns(Head(t), p) /\ Fits(Head(t), p, c.sql[p].score)
    BY <1>2, <2>1, BatchTaskConcerns
  <2>6. \A p \in Players : c.sql[p] = None /\ ~Drops(c, p) =>
              \A j \in 1 .. Len(t) : ~Concerns(t[j], p)
    BY <1>2, <2>1, BatchTaskConcerns
  <2>7. ASSUME NEW p \in Players PROVE Settled(p)'
    <3>1. \/ Concerns(Head(t), p) /\ Fits(Head(t), p, board'[p])
          \/ \E j \in 2 .. Len(t) : Concerns(t[j], p)
          \/ /\ \A j \in 1 .. Len(t) : ~Concerns(t[j], p)
             /\ Settles(mq, rows[p], p, board'[p])
      <4>1. CASE Drops(c, p)
        BY <2>4, <4>1, Zenon
      <4>2. CASE c.sql[p] # None /\ c.sql[p].score = board'[p]
        <5>1. Concerns(Head(t), p) /\ Fits(Head(t), p, c.sql[p].score)
          BY <2>5, <4>2, Zenon
        <5> QED BY <4>2, <5>1
      <4>3. CASE ~Drops(c, p) /\ c.sql[p] = None /\ Settles(mq, rows[p], p, board'[p])
        BY <2>6, <4>3, Zenon
      <4> QED BY <4>1, <4>2, <4>3
    <3> QED BY <2>2, <2>3, <3>1, SettledForked
  <2> QED BY <2>2, <2>3, <2>7, QueueForked
<1> QED BY <1>1, <1>2

-----------------------------------------------------------------------------
\* The entries of a batch.
LEMMA AcceptMatches ==
  ASSUME NEW c \in BatchStates, c.updates # <<>>, NEW score \in Int,
         Matches(c), NEW d, d = Accept(c, score)
  PROVE  /\ d \in BatchCalls /\ d.op = c.op /\ d.at = "b_hset"
         /\ MatchesFor(d, Players \ AtHand(d)) /\ \A p \in Players : Drops(c, p) => Drops(d, p)
<1>1. PICK p \in Players : p = Head(c.updates).player
  BY HeadType
<1>2. PICK row : row = [score |-> score, extra |-> ExtraStr(Head(c.updates).extra)]
  OBVIOUS
<1>3. d \in BatchCalls
  BY AcceptType
<1>4. /\ d.op = c.op /\ d.at = "b_hset" /\ d.dels = c.dels /\ d.updates = c.updates
      /\ d.ins = [c.ins EXCEPT ![p] = row] /\ d.sql = c.sql
  BY <1>1, <1>2 DEF Accept, BatchStates
<1>5. c.ins \in Tables
  BY DEF BatchStates
<1>6. \A q \in Players : q # p => d.ins[q] = c.ins[q]
  BY <1>4, <1>5 DEF Tables
<1>7. AtHand(d) = {p}
  BY <1>1, <1>4 DEF AtHand
<1>8. MatchesFor(d, Players \ AtHand(d))
  BY <1>4, <1>6, <1>7 DEF Matches, MatchesFor
<1> QED BY <1>3, <1>4, <1>8 DEF Drops

LEMMA ExpelMatches ==
  ASSUME NEW c \in BatchStates, c.updates # <<>>, Matches(c), NEW d, d = Expel(c)
  PROVE  /\ d \in BatchCalls /\ d.op = c.op /\ d.at = "b_zrem"
         /\ MatchesFor(d, Players \ AtHand(d)) /\ \A p \in Players : Drops(c, p) => Drops(d, p)
<1>1. /\ d.op = c.op /\ d.at = "b_zrem" /\ d.ins = c.ins /\ d.sql = c.sql
      /\ d.dels = c.dels
  BY DEF Expel, BatchStates
<1>2. d \in BatchCalls
  BY ExpelType
<1>3. MatchesFor(d, Players \ AtHand(d))
  BY <1>1 DEF Matches, MatchesFor
<1> QED BY <1>1, <1>2, <1>3 DEF Drops

\* What is noted is what was done.
LEMMA NoteRowMatches ==
  ASSUME NEW c \in BatchStates, c.updates # <<>>, c.at = "b_hset",
         MatchesFor(c, Players \ AtHand(c)), ~HasMysql => Blank, NEW d, d = NoteRow(c)
  PROVE  /\ d \in BatchStates /\ d.updates # <<>> /\ Matches(d)
         /\ \A p \in Players : Drops(c, p) => Drops(d, p)
<1>1. /\ d \in BatchStates /\ d.updates # <<>> /\ d.ins = c.ins /\ d.dels = c.dels
      /\ \A p \in Players :
           d.sql[p] = IF HasMysql /\ p = Head(c.updates).player THEN c.ins[p] ELSE c.sql[p]
      /\ ~HasMysql => d.sql = c.sql
  BY NoteRowType
<1>2. AtHand(c) = {Head(c.updates).player}
  BY DEF AtHand
<1>3. CASE HasMysql
  BY <1>1, <1>2, <1>3 DEF Matches, MatchesFor, Drops
<1>4. CASE ~HasMysql
  <2>1. d.sql = NoRows /\ Blank
    BY <1>1, <1>4 DEF MatchesFor
  <2>2. \A q \in Players : d.sql[q] = None
    BY <2>1 DEF NoRows
  <2> QED BY <1>1, <2>1, <2>2 DEF Matches, MatchesFor, Drops
<1> QED BY <1>3, <1>4

LEMMA NoteRemovalMatches ==
  ASSUME NEW c \in BatchStates, c.updates # <<>>, Matches(c), ~HasMysql => Blank,
         NEW d, d = NoteRemoval(c)
  PROVE  /\ d \in BatchStates /\ d.updates # <<>> /\ Matches(d)
         /\ \A p \in Players : Drops(c, p) => Drops(d, p)
         /\ Blank \/ Drops(d, Head(c.updates).player)
<1>1. PICK p \in Players : p = Head(c.updates).player
  BY HeadType
<1>2. /\ d \in BatchStates /\ d.updates # <<>> /\ d.ins = c.ins /\ d.sql = c.sql
      /\ d.dels = IF HasMysql THEN Append(c.dels, p) ELSE c.dels
  BY <1>1, NoteRemovalType
<1>3. Matches(d)
  BY <1>2 DEF Matches, MatchesFor
<1>4. CASE ~HasMysql
  BY <1>2, <1>3, <1>4 DEF Drops
<1>5. CASE HasMysql
  <2>1. c.dels \in Seq(Players)
    BY DEF BatchStates
  <2>2. PICK n \in Nat : n = Len(c.dels)
    BY <2>1
  <2>3. /\ DOMAIN c.dels = 1 .. n /\ DOMAIN d.dels = 1 .. n + 1 /\ d.dels[n + 1] = p
        /\ \A i \in 1 .. n : d.dels[i] = c.dels[i]
    BY <1>2, <1>5, <2>1, <2>2
  <2>4. Drops(d, p)
    BY <2>3 DEF Drops
  <2>5. \A q \in Players : Drops(c, q) => Drops(d, q)
    BY <2>3 DEF Drops
  <2> QED BY <1>1, <1>2, <1>3, <2>4, <2>5
<1> QED BY <1>4, <1>5

LEMMA NextMatches ==
  ASSUME NEW c \in BatchStates, Matches(c), NEW d, d = NextEntry(c)
  PROVE  /\ d.op = c.op /\ d.at \in {"b_zscore", "b_hset", "b_zrem", "b_zadd", "end"}
         /\ d.at # "end" => d \in BatchCalls
         /\ d.at = "end" => d \in BatchStates /\ d.sql = NoRows
         /\ MatchesFor(d, Players \ AtHand(d)) /\ \A p \in Players : Drops(c, p) => Drops(d, p)
<1>0. d.at # "end" => d \in BatchCalls
  BY NextEntryType
<1>1. CASE c.updates = <<>>
  <2>1. /\ d.op = c.op /\ d.at = (IF c.ins = NoRows THEN "end" ELSE "b_zadd")
        /\ d.ins = c.ins /\ d.sql = c.sql /\ d.dels = c.dels
        /\ d \in BatchStates
    BY <1>1 DEF NextEntry, BatchStates
  <2>2. MatchesFor(d, Players \ AtHand(d))
    BY <2>1 DEF Matches, MatchesFor
  <2>3. ASSUME d.at = "end" PROVE d.sql = NoRows
    <3>1. c.ins = NoRows
      BY <2>1, <2>3
    <3>2. \A p \in Players : c.sql[p] = None
      BY <3>1 DEF Matches, MatchesFor, NoRows
    <3>3. c.sql \in Tables
      BY DEF BatchStates
    <3> QED BY <2>1, <3>2, <3>3 DEF Tables, NoRows
  <2> QED BY <1>0, <2>1, <2>2, <2>3 DEF Drops
<1>2. CASE c.updates # <<>> /\ c.op = "batch_update_score"
  <2>1. /\ d.op = c.op /\ d.at = "b_zscore"
        /\ d.ins = c.ins /\ d.sql = c.sql /\ d.dels = c.dels
    BY <1>2 DEF NextEntry, BatchStates
  <2>2. MatchesFor(d, Players \ AtHand(d))
    BY <2>1 DEF Matches, MatchesFor
  <2> QED BY <1>0, <2>1, <2>2 DEF Drops
<1>3. CASE c.updates # <<>> /\ c.op # "batch_update_score"
  <2>1. PICK score \in Int : score = Clip(c.cfg, Head(c.updates).score)
    BY <1>3, HeadType, ClipType DEF BatchStates
  <2>2. d = Expel(c) \/ d = Accept(c, score)
    BY <1>3, <2>1 DEF NextEntry
  <2>3. CASE d = Expel(c)
    BY <1>3, <2>3, ExpelMatches
  <2>4. CASE d = Accept(c, score)
    BY <1>3, <2>4, AcceptMatches
  <2> QED BY <2>2, <2>3, <2>4
<1> QED BY <1>1, <1>2, <1>3

\* A batch goes on to its next command.
LEMMA BatchAwaitTidy ==
  ASSUME TypeOK, Tidy, waiting # <<>>, Progress, mq' = mq,
         NEW d \in BatchCalls, d.at \in {"b_zscore", "b_hset", "b_zrevrank", "b_zrem", "b_zadd"},
         Await(d), MatchesFor(d, Players \ AtHand(d)),
         \A p \in Players : Drops(d, p) \/ Settles(mq, rows[p], p, board'[p])
  PROVE  Tidy'
<1>1. rows' = rows /\ phase' = phase
  BY DEF Progress, mysqlVars
<1>2. InLoop(d)
  BY DEF InLoop, BatchCalls
<1>3. \A p \in Players : Settled(p)' \/ (Await(d) /\ Owes(d, p))
  BY <1>1, <1>2 DEF Settled, Owes
<1>4. (Blank <=> Blank') /\ (HasMysql <=> HasMysql')
  BY <1>1 DEF Blank, HasMysql
<1>5. Coherent(d)'
  BY <1>2, <1>4 DEF Coherent, MatchesFor, AtHand
<1>6. LaterDeletes(mq')
  BY DEF Tidy
<1> QED BY <1>3, <1>5, <1>6, TidyStep

LEMMA NothingMoreTidy ==
  ASSUME TypeOK, Tidy, waiting # <<>>, Progress,
         LaterDeletes(mq'), ~HasMysql => mq' = mq,
         \A p \in Players : Settled(p)', NEW d, Return \/ (Await(d) /\ Plain(d))
  PROVE  Tidy'
<1>1. Await(d) => Coherent(d)'
  <2>1. ASSUME Await(d) PROVE Plain(d)
    <3>1. CASE Return
      <4>1. waiting' = <<>> /\ waiting' # <<>>
        BY <2>1, <3>1, TidyCurrent
      <4> QED BY <4>1
    <3> QED BY <3>1
  <2> QED BY <2>1 DEF Plain, Coherent
<1>2. Return \/ Await(d)
  OBVIOUS
<1> QED BY <1>1, <1>2, TidyStep

LEMMA BatchGoOnTidy ==
  ASSUME TypeOK, Tidy, waiting # <<>>, Progress, NEW c \in BatchStates, BatchGoOn(c),
         Matches(c), \A p \in Players : Drops(c, p) \/ Settles(mq, rows[p], p, board'[p])
  PROVE  Tidy'
<1>2. PICK d : d = NextEntry(c)
  OBVIOUS
<1>3. /\ d.at \in {"b_zscore", "b_hset", "b_zrem", "b_zadd", "end"}
      /\ d.at # "end" => d \in BatchCalls
      /\ d.at = "end" => d \in BatchStates /\ d.sql = NoRows
      /\ MatchesFor(d, Players \ AtHand(d))
  BY <1>2, NextMatches
<1>4. \A p \in Players : Drops(d, p) \/ Settles(mq, rows[p], p, board'[p])
  <2>1. \A p \in Players : Drops(c, p) => Drops(d, p)
    BY <1>2, NextMatches
  <2> QED BY <2>1
<1>5. CASE d.at # "end"
  <2>1. Await(d) /\ mq' = mq
    BY <1>2, <1>5 DEF BatchGoOn
  <2> QED BY <1>3, <1>4, <1>5, <2>1, BatchAwaitTidy
<1>6. CASE d.at = "end"
  <2>1. Return /\ ForkBatch(c)
    BY <1>2, <1>6 DEF BatchGoOn
  <2>2. /\ c.sql = NoRows
        /\ \A p \in Players : Drops(c, p) \/ Settles(mq, rows[p], p, board'[p])
    <3>1. c.updates = <<>> /\ c.ins = NoRows
      BY <1>2, <1>6 DEF NextEntry, Accept, Expel, BatchStates
    <3>2. d.sql = c.sql
      BY <1>2, <3>1 DEF NextEntry, BatchStates
    <3> QED BY <1>3, <1>6, <3>2
  <2>3. \A p \in Players : c.sql[p] = None
    BY <2>2 DEF NoRows
  <2>4. rows' = rows
    BY DEF Progress, mysqlVars
  <2>5. /\ LaterDeletes(mq') /\ (~HasMysql => mq' = mq)
        /\ \A p \in Players : Settled(p)'
    BY <2>1, <2>2, <2>3, <2>4, BatchForked
  <2> QED BY <2>1, <2>5, NothingMoreTidy
<1> QED BY <1>5, <1>6

\* The batch in progress.
LEMMA BatchReply ==
  ASSUME TypeOK, Tidy, NEW labels, Reply(labels),
         labels \subseteq {"b_zscore", "b_hset", "b_zrevrank", "b_zrem", "b_zadd"}
  PROVE  /\ waiting # <<>> /\ Execute(Current) /\ Current.at \in labels
         /\ Current \in BatchCalls /\ Current \in BatchStates /\ InLoop(Current)
         /\ MatchesFor(Current, Players \ AtHand(Current)) /\ (~HasMysql => Blank)
         /\ Current.at # "b_hset" => Matches(Current)
         /\ Current.at # "b_zadd" => Current.updates # <<>>
         /\ \A p \in Players : Drops(Current, p) \/ Settles(mq, rows[p], p, board[p])
<1>1. /\ waiting # <<>> /\ Execute(Current) /\ Current.at \in labels
      /\ Current \in Coroutines /\ Coherent(Current)
  BY TidyReply
<1>2. Current \in BatchCalls /\ Current \in BatchStates
  BY <1>1, Kinds, BatchCallsAreStates
<1>3. InLoop(Current)
  BY <1>1, <1>2 DEF InLoop, BatchCalls
<1>4. \A p \in Players : Drops(Current, p) \/ Settles(mq, rows[p], p, board[p])
  BY <1>1 DEF Tidy, Settled, Owes
<1>5. Current.at # "b_zadd" => Current.updates # <<>>
  BY <1>1, <1>2 DEF BatchCalls
<1>6. MatchesFor(Current, Players \ AtHand(Current)) /\ (~HasMysql => Blank)
  BY <1>1, <1>3 DEF Coherent, Tidy
<1>7. Current.at # "b_hset" => Matches(Current)
  <2>1. Current.at # "b_hset" => Players \ AtHand(Current) = Players
    BY DEF AtHand
  <2> QED BY <1>6, <2>1 DEF Matches
<1> QED BY <1>1, <1>2, <1>3, <1>4, <1>5, <1>6, <1>7

LEMMA DropMatches ==
  ASSUME NEW c \in BatchStates, c.updates # <<>>, Matches(c), NEW d, d = DropEntry(c)
  PROVE  /\ d \in BatchStates /\ Matches(d)
         /\ \A p \in Players : Drops(c, p) => Drops(d, p)
<1>1. d.ins = c.ins /\ d.sql = c.sql /\ d.dels = c.dels
  BY DEF DropEntry, BatchStates
<1> QED BY <1>1, DropEntryType DEF Matches, MatchesFor, Drops

LEMMA BatchZscoreTidy == TypeOK /\ Tidy /\ BatchZscore => Tidy'
<1> SUFFICES ASSUME TypeOK, Tidy, BatchZscore PROVE Tidy'
  OBVIOUS
<1>1. Reply({"b_zscore"}) /\ Progress
  BY DEF BatchZscore
<1>2. /\ waiting # <<>> /\ Execute(Current) /\ Current.at = "b_zscore"
      /\ Current \in BatchStates /\ Matches(Current) /\ (~HasMysql => Blank)
      /\ Current.updates # <<>>
  BY <1>1, BatchReply
<1>3. board' = board
  BY <1>2, BoardKept
<1>4. \A p \in Players : Drops(Current, p) \/ Settles(mq, rows[p], p, board'[p])
  BY <1>1, <1>3, BatchReply
<1> DEFINE u == Head(Current.updates)
           current == CurrentScore(u.player)
<1>5. PICK score \in Int : score = Clip(Current.cfg, current + u.score)
  <2>1. u.player \in Players /\ u.score \in Int
    BY <1>2, HeadType
  <2>2. CurrentScore(u.player) \in Int
    BY <2>1 DEF CurrentScore, TypeOK, Scores
  <2>3. current + u.score \in Int /\ Current.cfg \in Configs
    BY <1>2, <2>1, <2>2 DEF BatchStates
  <2> QED BY <2>3, ClipType
<1>6. \/ Await(Accept(Current, score)) /\ mq' = mq
      \/ Await(Expel(Current)) /\ mq' = mq
      \/ BatchGoOn(DropEntry(Current))
  BY <1>5 DEF BatchZscore
<1> HIDE DEF current, u
<1>7. CASE Await(Accept(Current, score)) /\ mq' = mq
  <2>1. PICK d : d = Accept(Current, score)
    OBVIOUS
  <2>2. /\ d \in BatchCalls /\ d.at = "b_hset" /\ MatchesFor(d, Players \ AtHand(d))
        /\ \A p \in Players : Drops(Current, p) => Drops(d, p)
    BY <1>2, <2>1, AcceptMatches
  <2>3. \A p \in Players : Drops(d, p) \/ Settles(mq, rows[p], p, board'[p])
    BY <1>4, <2>2
  <2> QED BY <1>1, <1>2, <1>7, <2>1, <2>2, <2>3, BatchAwaitTidy
<1>8. CASE Await(Expel(Current)) /\ mq' = mq
  <2>1. PICK d : d = Expel(Current)
    OBVIOUS
  <2>2. /\ d \in BatchCalls /\ d.at = "b_zrem" /\ MatchesFor(d, Players \ AtHand(d))
        /\ \A p \in Players : Drops(Current, p) => Drops(d, p)
    BY <1>2, <2>1, ExpelMatches
  <2>3. \A p \in Players : Drops(d, p) \/ Settles(mq, rows[p], p, board'[p])
    BY <1>4, <2>2
  <2> QED BY <1>1, <1>2, <1>8, <2>1, <2>2, <2>3, BatchAwaitTidy
<1>9. CASE BatchGoOn(DropEntry(Current))
  <2>1. PICK d : d = DropEntry(Current)
    OBVIOUS
  <2>2. /\ d \in BatchStates /\ Matches(d)
        /\ \A p \in Players : Drops(Current, p) => Drops(d, p)
    BY <1>2, <2>1, DropMatches
  <2>3. \A p \in Players : Drops(d, p) \/ Settles(mq, rows[p], p, board'[p])
    BY <1>4, <2>2
  <2> QED BY <1>1, <1>2, <1>9, <2>1, <2>2, <2>3, BatchGoOnTidy
<1> QED BY <1>6, <1>7, <1>8, <1>9

LEMMA BatchHsetTidy == TypeOK /\ Tidy /\ BatchHset => Tidy'
<1> SUFFICES ASSUME TypeOK, Tidy, BatchHset PROVE Tidy'
  OBVIOUS
<1>1. Reply({"b_hset"}) /\ Progress
  BY DEF BatchHset
<1>2. /\ waiting # <<>> /\ Execute(Current) /\ Current.at = "b_hset"
      /\ Current \in BatchStates /\ Current.updates # <<>>
      /\ MatchesFor(Current, Players \ AtHand(Current)) /\ (~HasMysql => Blank)
  <2>1. PICK labels : labels = {"b_hset"}
    OBVIOUS
  <2>2. Reply(labels) /\ labels \subseteq {"b_zscore", "b_hset", "b_zrevrank", "b_zrem", "b_zadd"}
    BY <1>1, <2>1
  <2>3. /\ waiting # <<>> /\ Execute(Current) /\ Current.at \in labels
        /\ Current \in BatchStates
        /\ MatchesFor(Current, Players \ AtHand(Current)) /\ (~HasMysql => Blank)
        /\ Current.at # "b_zadd" => Current.updates # <<>>
    BY <2>2, BatchReply
  <2> QED BY <2>1, <2>3
<1>3. board' = board
  BY <1>2, BoardKept
<1>4. PICK c : c = NoteRow(Current)
  OBVIOUS
<1>5. /\ c \in BatchStates /\ c.updates # <<>> /\ Matches(c)
      /\ \A p \in Players : Drops(Current, p) => Drops(c, p)
  BY <1>2, <1>4, NoteRowMatches
<1>6. \A p \in Players : Drops(c, p) \/ Settles(mq, rows[p], p, board'[p])
  BY <1>1, <1>3, <1>5, BatchReply
<1>7. \/ Await([c EXCEPT !.at = "b_zrevrank"]) /\ mq' = mq
      \/ BatchGoOn(DropEntry(c))
  BY <1>4 DEF BatchHset
<1>8. CASE Await([c EXCEPT !.at = "b_zrevrank"]) /\ mq' = mq
  <2>1. PICK d : d = [c EXCEPT !.at = "b_zrevrank"]
    OBVIOUS
  <2>2. /\ d \in BatchCalls /\ d.at = "b_zrevrank" /\ d.dels = c.dels
        /\ d.ins = c.ins /\ d.sql = c.sql
    BY <1>5, <2>1 DEF BatchStates, BatchCalls
  <2>3. MatchesFor(d, Players \ AtHand(d))
    BY <1>5, <2>2 DEF Matches, MatchesFor
  <2>4. \A p \in Players : Drops(d, p) \/ Settles(mq, rows[p], p, board'[p])
    BY <1>6, <2>2 DEF Drops
  <2> QED BY <1>1, <1>2, <1>8, <2>1, <2>2, <2>3, <2>4, BatchAwaitTidy
<1>9. CASE BatchGoOn(DropEntry(c))
  <2>1. PICK d : d = DropEntry(c)
    OBVIOUS
  <2>2. /\ d \in BatchStates /\ Matches(d)
        /\ \A p \in Players : Drops(c, p) => Drops(d, p)
    BY <1>5, <2>1, DropMatches
  <2>3. \A p \in Players : Drops(d, p) \/ Settles(mq, rows[p], p, board'[p])
    BY <1>6, <2>2
  <2> QED BY <1>1, <1>2, <1>9, <2>1, <2>2, <2>3, BatchGoOnTidy
<1> QED BY <1>7, <1>8, <1>9

LEMMA BatchZrevrankTidy == TypeOK /\ Tidy /\ BatchZrevrank => Tidy'
<1> SUFFICES ASSUME TypeOK, Tidy, BatchZrevrank PROVE Tidy'
  OBVIOUS
<1>1. Reply({"b_zrevrank"}) /\ Progress
  BY DEF BatchZrevrank
<1>2. /\ waiting # <<>> /\ Execute(Current) /\ Current.at = "b_zrevrank"
      /\ Current \in BatchStates /\ Matches(Current) /\ Current.updates # <<>>
  BY <1>1, BatchReply
<1>3. board' = board
  BY <1>2, BoardKept
<1>4. \A p \in Players : Drops(Current, p) \/ Settles(mq, rows[p], p, board'[p])
  BY <1>1, <1>3, BatchReply
<1>5. PICK hit \in BOOLEAN : BatchGoOn([DropEntry(Current) EXCEPT !.clear = @ \/ hit])
  <2>1. InCachedPart(Current.cfg, Head(Current.updates).player) \in BOOLEAN
    BY DEF InCachedPart
  <2> QED BY <2>1 DEF BatchZrevrank
<1>6. PICK e : e = DropEntry(Current)
  OBVIOUS
<1>7. /\ e \in BatchStates /\ Matches(e)
      /\ \A p \in Players : Drops(Current, p) => Drops(e, p)
  BY <1>2, <1>6, DropMatches
<1>8. PICK d : d = [e EXCEPT !.clear = @ \/ hit]
  OBVIOUS
<1>9. d \in BatchStates /\ d.dels = e.dels /\ d.ins = e.ins /\ d.sql = e.sql
  BY <1>7, <1>8 DEF BatchStates
<1>10. Matches(d)
  BY <1>7, <1>9 DEF Matches, MatchesFor
<1>11. \A p \in Players : Drops(d, p) \/ Settles(mq, rows[p], p, board'[p])
  BY <1>4, <1>7, <1>9 DEF Drops
<1>12. BatchGoOn(d)
  BY <1>5, <1>6, <1>8
<1> QED BY <1>1, <1>2, <1>9, <1>10, <1>11, <1>12, BatchGoOnTidy

LEMMA BatchZremTidy == TypeOK /\ Tidy /\ BatchZrem => Tidy'
<1> SUFFICES ASSUME TypeOK, Tidy, BatchZrem PROVE Tidy'
  OBVIOUS
<1>1. Reply({"b_zrem"}) /\ Progress
  BY DEF BatchZrem
<1>2. /\ waiting # <<>> /\ Execute(Current) /\ Current.at = "b_zrem"
      /\ Current \in BatchStates /\ Matches(Current) /\ Current.updates # <<>>
      /\ (~HasMysql => Blank)
      /\ \A p \in Players : Drops(Current, p) \/ Settles(mq, rows[p], p, board[p])
  BY <1>1, BatchReply
<1>3. PICK p \in Players : p = Head(Current.updates).player
  BY <1>2, HeadType
<1>4. \A q \in Players : q # p => board'[q] = board[q]
  BY <1>2, <1>3 DEF Execute, BoardAfter, TypeOK
<1>5. PICK c : c = NoteRemoval(Current)
  OBVIOUS
<1>6. /\ c \in BatchStates /\ c.updates # <<>> /\ Matches(c)
      /\ \A q \in Players : Drops(Current, q) => Drops(c, q)
      /\ Blank \/ Drops(c, p)
  BY <1>2, <1>3, <1>5, NoteRemovalMatches
<1>7. ASSUME NEW q \in Players
      PROVE  Drops(c, q) \/ Settles(mq, rows[q], q, board'[q])
  <2>1. CASE q # p
    BY <1>2, <1>4, <1>6, <2>1
  <2>2. CASE q = p
    BY <1>6, <2>2, BlankSettles
  <2> QED BY <2>1, <2>2
<1>8. PICK d : d = DropEntry(c)
  OBVIOUS
<1>9. /\ d \in BatchStates /\ Matches(d)
      /\ \A q \in Players : Drops(c, q) => Drops(d, q)
  BY <1>6, <1>8, DropMatches
<1>10. \A q \in Players : Drops(d, q) \/ Settles(mq, rows[q], q, board'[q])
  BY <1>7, <1>9
<1>11. BatchGoOn(d)
  BY <1>5, <1>8 DEF BatchZrem
<1> QED BY <1>1, <1>2, <1>9, <1>10, <1>11, BatchGoOnTidy

LEMMA BatchZaddTidy == TypeOK /\ Tidy /\ BatchZadd => Tidy'
<1> SUFFICES ASSUME TypeOK, Tidy, BatchZadd PROVE Tidy'
  OBVIOUS
<1>1. Reply({"b_zadd"}) /\ Progress /\ ForkBatch(Current)
  BY DEF BatchZadd
<1>2. /\ waiting # <<>> /\ Execute(Current) /\ Current.at = "b_zadd"
      /\ Current \in BatchStates /\ Matches(Current)
      /\ \A p \in Players : Drops(Current, p) \/ Settles(mq, rows[p], p, board[p])
  BY <1>1, BatchReply
<1>3. \A p \in Players : board'[p] = IF Current.ins[p] = None THEN board[p]
                                     ELSE Current.ins[p].score
  BY <1>2 DEF Execute, BoardAfter
<1>4. ASSUME NEW p \in Players
      PROVE  \/ Drops(Current, p)
             \/ Current.sql[p] # None /\ Current.sql[p].score = board'[p]
             \/ Current.sql[p] = None /\ Settles(mq, rows[p], p, board'[p])
  <2>1. CASE Current.sql[p] # None
    <3>1. Current.sql[p] = Current.ins[p]
      BY <1>2, <2>1 DEF Matches, MatchesFor
    <3> QED BY <1>3, <2>1, <3>1
  <2>2. CASE Current.sql[p] = None /\ Current.ins[p] # None
    <3>1. Blank
      BY <1>2, <2>2 DEF Matches, MatchesFor
    <3> QED BY <2>2, <3>1, BlankSettles
  <2>3. CASE Current.sql[p] = None /\ Current.ins[p] = None
    <3>1. board'[p] = board[p]
      BY <1>3, <2>3
    <3> QED BY <1>2, <2>3, <3>1
  <2> QED BY <2>1, <2>2, <2>3
<1>5. rows' = rows
  BY <1>1 DEF Progress, mysqlVars
<1>6. /\ LaterDeletes(mq') /\ (~HasMysql => mq' = mq)
      /\ \A p \in Players : Settled(p)'
  BY <1>1, <1>2, <1>4, <1>5, BatchForked
<1>7. PICK d : d = [Current EXCEPT !.at = "b_del"]
  OBVIOUS
<1>8. Return \/ (Await(d) /\ Plain(d))
  <2>1. Await(d) \/ Return
    BY <1>7 DEF BatchZadd, AwaitAt
  <2>2. d.at = "b_del"
    BY <1>2, <1>7 DEF BatchStates
  <2> QED BY <2>1, <2>2 DEF Plain, InLoop
<1> QED BY <1>1, <1>2, <1>6, <1>8, NothingMoreTidy

\* Nothing that Tidy is about changes, but that mysql_conn may be set.
LEMMA StillTidy ==
  ASSUME Tidy, UNCHANGED <<board, rows, mq, waiting, down>>, HasMysql => HasMysql'
  PROVE  Tidy'
<1>1. (Blank <=> Blank') /\ Current' = Current
  BY DEF Blank, Current
<1>2. ASSUME waiting # <<>> PROVE Coherent(Current)'
  <2>1. Coherent(Current)
    BY <1>2 DEF Tidy
  <2> QED BY <1>1, <2>1 DEF Coherent, MatchesFor, AtHand
<1>3. \A p \in Players : Settled(p)' \/ (waiting' # <<>> /\ Owes(Current, p)')
  <2> SUFFICES ASSUME NEW p \in Players
               PROVE  Settled(p)' \/ (waiting' # <<>> /\ Owes(Current, p)')
    OBVIOUS
  <2>1. Settled(p) \/ (waiting # <<>> /\ Owes(Current, p))
    BY DEF Tidy
  <2>2. Settled(p) => Settled(p)'
    BY DEF Settled
  <2>3. Owes(Current, p) => Owes(Current, p)'
    BY <1>1 DEF Owes, InLoop, Drops
  <2> QED BY <2>1, <2>2, <2>3
<1>4. waiting' # <<>> => Coherent(Current)'
  BY <1>2
<1>5. ~down' /\ Len(waiting') <= 1 /\ LaterDeletes(mq)'
  BY DEF Tidy, LaterDeletes
<1>6. ~HasMysql' => Blank'
  BY <1>1 DEF Tidy
<1> QED BY <1>3, <1>4, <1>5, <1>6 DEF Tidy

LEMMA OtherTidy ==
  ASSUME TypeOK, Tidy,
         Initialize \/ SetConfig \/ SaveConfig \/ CacheExpires \/ UNCHANGED vars
  PROVE  Tidy'
<1>1. UNCHANGED <<board, rows, mq, waiting, down>>
  BY DEF Initialize, ConnectRedis, ConnectMysql, Connect, LoadConfig, SetConfig,
         SaveConfig, CacheExpires, vars, redisVars, mysqlVars
<1>2. HasMysql => HasMysql'
  BY DEF Initialize, ConnectRedis, ConnectMysql, Connect, LoadConfig, SetConfig,
         SaveConfig, CacheExpires, vars, HasMysql
<1> QED BY <1>1, <1>2, StillTidy

LEMMA MysqlExecuteTidy == TypeOK /\ Tidy /\ MysqlExecute => Tidy'
<1> SUFFICES ASSUME TypeOK, Tidy, MysqlExecute PROVE Tidy'
  OBVIOUS
<1>1. /\ mq # <<>> /\ mq \in Seq(Tasks) /\ LaterDeletes(mq)
      /\ rows' = RowsAfter(Head(Head(mq))) /\ mq' = Rotated(mq)
      /\ UNCHANGED <<board, waiting, phase, down>>
  BY DEF MysqlExecute, NextTask, Rotated, TypeOK, Tasks, Tidy, redisVars
<1>2. HasMysql /\ HasMysql' /\ ~Blank
  BY <1>1 DEF MysqlExecute, HasMysql, Blank
<1>3. PICK s \in Statements : s = Head(Head(mq))
  <2>1. Head(mq) \in Tasks
    BY <1>1
  <2>2. Head(Head(mq)) \in Statements
    BY <2>1 DEF Tasks
  <2> QED BY <2>2
<1>4. ASSUME NEW p \in Players, Settled(p) PROVE Settled(p)'
  <2>1. rows'[p] = RowsAfter(s)[p] /\ rows \in Tables
    BY <1>1, <1>3 DEF TypeOK
  <2>2. ~Concerns(s, p) => rows'[p] = rows[p]
    BY <2>1, RowExecuted
  <2>3. Concerns(s, p) /\ Fits(s, p, board[p]) => RowFits(rows'[p], board[p])
    BY <2>1, RowExecuted
  <2>4. PICK next : next = rows'[p]
    OBVIOUS
  <2>5. Settles(Rotated(mq), next, p, board[p])
    BY <1>1, <1>3, <1>4, <2>2, <2>3, <2>4, SettlesExecuted DEF Settled
  <2> QED BY <1>1, <2>4, <2>5 DEF Settled
<1>5. LaterDeletes(mq')
  BY <1>1, LaterDeletesExecuted
<1>6. Current' = Current
  BY <1>1 DEF Current
<1>7. \A p \in Players : Settled(p)' \/ (waiting' # <<>> /\ Owes(Current', p))
  BY <1>1, <1>4, <1>6 DEF Tidy
<1>8. ASSUME waiting # <<>> PROVE Coherent(Current)'
  <2>1. Coherent(Current)
    BY <1>8 DEF Tidy
  <2> QED BY <1>1, <1>2, <1>6, <2>1 DEF Coherent, MatchesFor, AtHand
<1>9. ~down' /\ Len(waiting') <= 1
  BY <1>1 DEF Tidy
<1> QED BY <1>1, <1>2, <1>5, <1>7, <1>8, <1>9 DEF Tidy

-----------------------------------------------------------------------------
\* A call arrives, when no other is in progress.
LEMMA BeginTidy ==
  ASSUME TypeOK, Tidy, NEW d, Begin(d), Len(waiting') <= 1, Coherent(d)
  PROVE  Tidy'
<1>1. /\ waiting' = Append(waiting, d)
      /\ UNCHANGED <<board, rows, mq, phase, down>>
  BY DEF Begin, redisVars, mysqlVars
<1>2. waiting = <<>>
  <2>1. waiting \in Seq(Coroutines)
    BY DEF TypeOK
  <2>2. Len(waiting') = Len(waiting) + 1 /\ Len(waiting) \in Nat
    BY <1>1, <2>1
  <2>3. waiting # <<>> => Len(waiting) \in Nat \ {0}
    BY <2>1, EmptySeq, Zenon
  <2> QED BY <2>2, <2>3
<1>3. waiting' # <<>> /\ Current' = d
  <2>1. Append(<<>>, d) = <<d>> /\ <<d>> # <<>> /\ Head(<<d>>) = d
    OBVIOUS
  <2>2. Head(waiting') = d /\ waiting' # <<>>
    BY <1>1, <1>2, <2>1
  <2> QED BY <2>2 DEF Current
<1>4. \A p \in Players : Settled(p)'
  BY <1>1, <1>2 DEF Tidy, Settled
<1>5. (Blank <=> Blank') /\ (HasMysql <=> HasMysql')
  BY <1>1 DEF Blank, HasMysql
<1>6. Coherent(d)'
  BY <1>1, <1>5 DEF Coherent, MatchesFor, AtHand
<1>7. ~down' /\ LaterDeletes(mq)' /\ (~HasMysql' => Blank')
  BY <1>1, <1>5 DEF Tidy, LaterDeletes
<1> QED BY <1>3, <1>4, <1>6, <1>7 DEF Tidy

LEMMA StartBatchTidy == TypeOK /\ Tidy /\ StartBatch /\ Len(waiting') <= 1 => Tidy'
<1> SUFFICES ASSUME TypeOK, Tidy, StartBatch, Len(waiting') <= 1 PROVE Tidy'
  OBVIOUS
<1> PICK k \in {k \in Calls : k.op \in BatchUpdate} :
      Begin(NextEntry([op |-> k.op, at |-> "start", cfg |-> config,
                       updates |-> k.updates, ins |-> NoRows, sql |-> NoRows,
                       dels |-> <<>>, clear |-> FALSE]))
  BY DEF StartBatch
<1>1. PICK c : c = [op |-> k.op, at |-> "start", cfg |-> config, updates |-> k.updates,
                 ins |-> NoRows, sql |-> NoRows, dels |-> <<>>, clear |-> FALSE]
  OBVIOUS
<1>2. k.updates \in Seq(Updates) /\ k.updates # <<>>
  BY CallKinds
<1>3. c \in BatchStates
  BY <1>1, <1>2, NoRowsType DEF BatchStates, TypeOK
<1>4. Matches(c)
  BY <1>1 DEF Matches, MatchesFor, NoRows
<1>5. PICK d : d = NextEntry(c)
  OBVIOUS
<1>6. Begin(d)
  BY <1>1, <1>5
<1>7. /\ d.at \in {"b_zscore", "b_hset", "b_zrem", "b_zadd", "end"}
      /\ MatchesFor(d, Players \ AtHand(d))
  BY <1>3, <1>4, <1>5, NextMatches
<1>8. Coherent(d)
  BY <1>7 DEF Coherent
<1> QED BY <1>6, <1>8, BeginTidy

LEMMA StartTidy == TypeOK /\ Tidy /\ Start /\ Len(waiting') <= 1 => Tidy'
<1> SUFFICES ASSUME TypeOK, Tidy, Start, Len(waiting') <= 1 PROVE Tidy'
  OBVIOUS
<1>1. CASE StartUpdateDirect \/ StartUpdate \/ StartRemove \/ StartBatchRemove
              \/ StartTopN \/ StartRange \/ StartInfo
  <2>1. PICK d : Begin(d) /\ Plain(d)
    <3>1. CASE StartUpdateDirect \/ StartUpdate
      <4>0. PICK k \in Calls, label \in {"zscore", "zadd"} :
              \E s : k.op \in SingleUpdate /\ Begin(UpdateState(k, label, s))
        BY <3>1 DEF StartUpdateDirect, StartUpdate, SingleUpdate
      <4>1. PICK s : k.op \in SingleUpdate /\ Begin(UpdateState(k, label, s))
        BY <4>0
      <4>2. Plain(UpdateState(k, label, s))
        BY <4>1 DEF UpdateState, Plain, InLoop, SingleUpdate, BatchUpdate
      <4> QED BY <4>1, <4>2
    <3>2. CASE StartRemove
      <4>1. PICK k \in {k \in Calls : k.op = "remove_player"} :
              Begin([op |-> k.op, at |-> "r_zrem", player |-> k.player, removed |-> FALSE])
        BY <3>2 DEF StartRemove
      <4>2. PICK d : d = [op |-> k.op, at |-> "r_zrem", player |-> k.player,
                          removed |-> FALSE]
        OBVIOUS
      <4>3. Plain(d)
        BY <4>2 DEF Plain, InLoop, BatchUpdate
      <4> QED BY <4>1, <4>2, <4>3
    <3>3. CASE StartBatchRemove
      <4>1. PICK k \in {k \in Calls : k.op = "batch_remove_player"} :
              Begin([op |-> k.op, at |-> "br_del", left |-> k.players,
                     players |-> k.players])
        BY <3>3 DEF StartBatchRemove
      <4>2. PICK d : d = [op |-> k.op, at |-> "br_del", left |-> k.players,
                          players |-> k.players]
        OBVIOUS
      <4>3. Plain(d)
        BY <4>2 DEF Plain, InLoop, BatchUpdate
      <4> QED BY <4>1, <4>2, <4>3
    <3>4. CASE StartTopN \/ StartRange
      <4>0. PICK k \in Calls : \E first, last :
              k.op \in {"get_top_n", "get_range"} /\ Begin(ReadState(k, first, last))
        BY <3>4 DEF StartTopN, StartRange
      <4>1. PICK first, last :
              k.op \in {"get_top_n", "get_range"} /\ Begin(ReadState(k, first, last))
        BY <4>0
      <4>2. Plain(ReadState(k, first, last))
        BY <4>1 DEF ReadState, Plain, InLoop, BatchUpdate
      <4> QED BY <4>1, <4>2
    <3>5. CASE StartInfo
      <4>1. PICK k \in {k \in Calls : k.op = "get_player_info"} :
              Begin([op |-> k.op, at |-> "i_zscore", player |-> k.player])
        BY <3>5 DEF StartInfo
      <4>2. PICK d : d = [op |-> k.op, at |-> "i_zscore", player |-> k.player]
        OBVIOUS
      <4>3. Plain(d)
        BY <4>2 DEF Plain, InLoop, BatchUpdate
      <4> QED BY <4>1, <4>2, <4>3
    <3> QED BY <1>1, <3>1, <3>2, <3>3, <3>4, <3>5
  <2>2. Coherent(d)
    BY <2>1, PlainCalls
  <2> QED BY <2>1, <2>2, BeginTidy
<1>2. CASE StartBatch
  BY <1>2, StartBatchTidy
<1>3. CASE SetConfig
  BY <1>3, OtherTidy
<1> QED BY <1>1, <1>2, <1>3 DEF Start

LEMMA ResumeTidy == TypeOK /\ Tidy /\ Resume => Tidy'
BY QuietStepsTidy, ReadTidy, UpdateZremTidy, UpdateZaddTidy, UpdateHsetTidy,
   RemoveZremTidy, RemoveDelTidy, BatchRemoveZremTidy, BatchZscoreTidy, BatchHsetTidy,
   BatchZrevrankTidy, BatchZremTidy, BatchZaddTidy
   DEF Resume

\* A fault is counted, and a lost connection was one.
LEMMA NotFaulty ==
  ASSUME TypeOK, ~down, faults' = faults
  PROVE  ~Faulty
BY DEF TypeOK, Faulty, Fault, MysqlExecuteFails, SaveConfigFails, LoadConfigFails,
       LoseConnection, ExecuteUnanswered, AbortCalls, Restart

-----------------------------------------------------------------------------
TidyInv == apart => Tidy

LEMMA InitTidy == Init => Tidy
<1> SUFFICES ASSUME Init PROVE Tidy
  OBVIOUS
<1>1. /\ waiting = <<>> /\ mq = <<>> /\ rows = NoRows /\ ~down
  BY DEF Init, FirstStart
<1>2. Blank /\ Len(waiting) = 0
  BY <1>1 DEF Blank
<1>3. LaterDeletes(mq)
  BY <1>1 DEF LaterDeletes
<1>4. \A p \in Players : Settled(p)
  BY <1>2, BlankSettles DEF Settled
<1> QED BY <1>1, <1>2, <1>3, <1>4 DEF Tidy

LEMMA NextTidy == TypeOK /\ TidyInv /\ [HistoryNext]_historyVars => TidyInv'
<1> SUFFICES ASSUME TypeOK, TidyInv, [HistoryNext]_historyVars, apart' PROVE Tidy'
  BY DEF TidyInv
<1>1. CASE UNCHANGED historyVars
  BY <1>1, OtherTidy DEF historyVars, TidyInv
<1>2. CASE HistoryNext
  <2>1. apart /\ Len(waiting') <= 1 /\ faults' = faults /\ Next
    BY <1>2 DEF HistoryNext, Record, StaysApart
  <2>2. Tidy
    BY <2>1 DEF TidyInv
  <2>3. ~Faulty
    BY <2>1, <2>2, NotFaulty DEF Tidy
  <2> QED BY <2>1, <2>2, <2>3, StartTidy, ResumeTidy, MysqlExecuteTidy, OtherTidy DEF Next
<1> QED BY <1>1, <1>2

\* The type invariant, with the history.
LEMMA HistoryType == HistorySpec => []TypeOK
<1>1. HistoryInit => TypeOK
  BY InitType DEF HistoryInit
<1>2. TypeOK /\ [HistoryNext]_historyVars => TypeOK'
  BY NextType DEF HistoryNext, historyVars, vars
<1> QED BY <1>1, <1>2, PTL DEF HistorySpec

LEMMA TidyNoGhostRow == TidyInv => NoGhostRow
<1> SUFFICES ASSUME Tidy, Idle, NEW p \in Players, rows[p] # None
             PROVE  rows[p].score = board[p]
  BY DEF TidyInv, NoGhostRow
<1>1. Settled(p) /\ mq = <<>>
  BY DEF Tidy, Idle
<1>2. Len(mq) = 0
  BY <1>1
<1>3. RowFits(rows[p], board[p])
  BY <1>1, <1>2 DEF Settled, Settles, WillDelete, LastFits
<1> QED BY <1>3 DEF RowFits

\* While calls do not overlap and nothing fails, MySQL never holds a score that
\* the board does not have once the queue of writes is drained.
THEOREM NoGhostRows == HistorySpec => []NoGhostRow
<1>1. HistoryInit => TidyInv
  BY InitTidy DEF HistoryInit, TidyInv
<1>2. TypeOK /\ TidyInv /\ [HistoryNext]_historyVars => TidyInv'
  BY NextTidy
<1>3. TidyInv => NoGhostRow
  BY TidyNoGhostRow
<1> QED BY <1>1, <1>2, <1>3, HistoryType, PTL DEF HistorySpec

(***************************************************************************)
(* The cached list while every change is one it is cleared for             *)
(***************************************************************************)
\* The top of the board, no longer than the part that is cached.
NearTop(list, cfg) ==
    IsTop(list) /\ \A e \in list : cfg.cache_num = -1 \/ e.rank <= cfg.cache_num

CacheGood == cache = None \/ NearTop(cache, config)

\* A call that is on its way to DEL rank_cache.
Clears(c) ==
    \/ /\ c.op \in SingleUpdate /\ c.at \in {"hset", "zrevrank"}
       /\ c.cfg = config /\ KeepsCache(config) /\ InCachedPart(config, c.player)
    \/ /\ c.at \in {"del", "r_del", "r_delcache"}
       /\ c.at = "r_del" => config.cache_num > 0

\* A call holds the configuration in force, and what get_top_n has read is the
\* top of the board and, when it is about to be cached, short enough for that.
Holders == SingleUpdate \cup {"get_top_n", "get_range"}
Aligned(c) ==
    /\ c.op \in Holders => c.cfg = config
    /\ c.op = "get_range" => c.at # "setex"
    /\ c.op = "get_top_n" =>
         /\ c.first = 1 /\ c.last # 0
         /\ \A e \in c.list : e.rank <= c.last
         /\ c.at \in {"pipeline", "setex"} => IsTop(c.list)
         /\ c.at = "setex" => Cacheable(c.cfg, c.last)

\* The inductive invariant, together with Tidy.
Upright ==
    /\ CacheGood \/ (waiting # <<>> /\ Clears(Current))
    /\ ~KeepsCache(config) => cache = None
    /\ waiting # <<>> => Aligned(Current)

\* The ranks when the score of one player rises.
LEMMA AboveRises ==
  ASSUME board \in [Players -> Scores], board' \in [Players -> Scores],
         NEW p \in Players, board'[p] \in Int, board[p] # None => board[p] <= board'[p],
         \A q \in Players : q # p => board'[q] = board[q]
  PROVE  /\ OnBoard' = OnBoard \cup {p}
         /\ p \in OnBoard => Above(p)' \subseteq Above(p)
         /\ \A q \in OnBoard : q # p =>
              /\ Above(q) \subseteq Above(q)'
              /\ p \in Above(q)' => Above(p)' \subseteq Above(q)
              /\ p \notin Above(q)' => Above(q)' = Above(q)
<1>1. None \notin Int
  BY RankAssumption
<1>2. OnBoard' = OnBoard \cup {p} /\ p \in OnBoard'
  BY <1>1 DEF OnBoard
<1>3. /\ \A q \in OnBoard : q \in Nat /\ q \in Players /\ board[q] \in Int
      /\ \A q \in OnBoard' : q \in Nat /\ q \in Players /\ board'[q] \in Int
      /\ \A q \in OnBoard : q # p => board'[q] = board[q]
      /\ \A q \in OnBoard' : q # p => q \in OnBoard
  BY <1>1, RankAssumption DEF OnBoard, Scores
<1>4. ASSUME NEW q, NEW r
      PROVE  /\ r \in Above(q) <=>
                  /\ r \in OnBoard
                  /\ board[r] > board[q] \/ (board[r] = board[q] /\ r > q)
             /\ r \in Above(q)' <=>
                  /\ r \in OnBoard'
                  /\ board'[r] > board'[q] \/ (board'[r] = board'[q] /\ r > q)
  BY DEF Above
<1>5. ASSUME p \in OnBoard, NEW r \in Above(p)' PROVE r \in Above(p)
  <2>1. /\ r \in OnBoard' /\ r \in Nat /\ p \in Nat
        /\ board'[r] > board'[p] \/ (board'[r] = board'[p] /\ r > p)
    BY <1>2, <1>3, <1>4, <1>5
  <2>2. r # p
    BY <1>2, <1>3, <2>1
  <2>3. r \in OnBoard /\ board'[r] = board[r] /\ board[p] <= board'[p]
    BY <1>3, <1>5, <2>1, <2>2 DEF OnBoard
  <2>4. board[r] \in Int /\ board[p] \in Int /\ board'[p] \in Int
    BY <1>3, <1>5, <2>3
  <2>5. board[r] > board[p] \/ (board[r] = board[p] /\ r > p)
    BY <2>1, <2>3, <2>4
  <2> QED BY <1>4, <2>3, <2>5
<1>6. ASSUME NEW q \in OnBoard, q # p, NEW r \in Above(q) PROVE r \in Above(q)'
  <2>1. /\ r \in OnBoard /\ r \in OnBoard'
        /\ board[r] > board[q] \/ (board[r] = board[q] /\ r > q)
    BY <1>2, <1>4, <1>6
  <2>2. /\ board'[q] = board[q] /\ board[r] <= board'[r]
        /\ board[r] \in Int /\ board'[r] \in Int /\ board[q] \in Int
    BY <1>3, <1>6, <2>1 DEF OnBoard
  <2>3. board'[r] > board'[q] \/ (board'[r] = board'[q] /\ r > q)
    BY <2>1, <2>2
  <2> QED BY <1>4, <2>1, <2>3
<1>7. ASSUME NEW q \in OnBoard, q # p, p \in Above(q)', NEW r \in Above(p)'
      PROVE  r \in Above(q)
  <2>1. /\ r \in OnBoard' /\ r \in Nat /\ p \in Nat /\ q \in Nat
        /\ board'[r] > board'[p] \/ (board'[r] = board'[p] /\ r > p)
        /\ board'[p] > board'[q] \/ (board'[p] = board'[q] /\ p > q)
    BY <1>2, <1>3, <1>4, <1>7
  <2>2. r # p
    BY <1>2, <1>3, <2>1
  <2>3. r \in OnBoard /\ board'[r] = board[r] /\ board'[q] = board[q]
    BY <1>3, <1>7, <2>1, <2>2
  <2>4. board[r] \in Int /\ board[q] \in Int /\ board'[p] \in Int
    BY <1>3, <1>7, <2>3
  <2>5. board[r] > board[q] \/ (board[r] = board[q] /\ r > q)
    BY <2>1, <2>3, <2>4
  <2> QED BY <1>4, <2>3, <2>5
<1>8. ASSUME NEW q \in OnBoard, q # p, p \notin Above(q)', NEW r \in Above(q)'
      PROVE  r \in Above(q)
  <2>1. /\ r \in OnBoard' /\ r # p
        /\ board'[r] > board'[q] \/ (board'[r] = board'[q] /\ r > q)
    BY <1>4, <1>8
  <2>2. r \in OnBoard /\ board'[r] = board[r] /\ board'[q] = board[q]
    BY <1>3, <1>8, <2>1
  <2> QED BY <1>4, <2>1, <2>2
<1> QED BY <1>2, <1>5, <1>6, <1>7, <1>8

LEMMA RanksRise ==
  ASSUME board \in [Players -> Scores], board' \in [Players -> Scores],
         NEW p \in Players, board'[p] \in Int, board[p] # None => board[p] <= board'[p],
         \A q \in Players : q # p => board'[q] = board[q]
  PROVE  /\ OnBoard' = OnBoard \cup {p} /\ Rank(p)' \in Nat
         /\ p \in OnBoard => Rank(p)' <= Rank(p)
         /\ \A q \in OnBoard : q # p =>
              /\ Rank(q) \in Nat /\ Rank(q)' \in Nat /\ Rank(q) <= Rank(q)'
              /\ Rank(p)' > Rank(q) => Rank(q)' = Rank(q)
<1>1. /\ OnBoard' = OnBoard \cup {p}
      /\ p \in OnBoard => Above(p)' \subseteq Above(p)
      /\ \A q \in OnBoard : q # p =>
           /\ Above(q) \subseteq Above(q)'
           /\ p \in Above(q)' => Above(p)' \subseteq Above(q)
           /\ p \notin Above(q)' => Above(q)' = Above(q)
  BY AboveRises
<1>2. \A q : Above(q) \subseteq Players /\ Above(q)' \subseteq Players
  BY DEF Above, OnBoard
<1>3. \A q : IsFiniteSet(Above(q)) /\ IsFiniteSet(Above(q)')
  BY <1>2, FS_Subset, RankAssumption
<1>4. ASSUME NEW S, NEW T, IsFiniteSet(T), S \subseteq T
      PROVE  Cardinality(S) \in Nat /\ Cardinality(T) \in Nat
             /\ Cardinality(S) <= Cardinality(T)
  BY <1>4, FS_Subset, FS_CardinalityType
<1>5. Rank(p)' \in Nat
  BY <1>3, FS_CardinalityType DEF Rank
<1>6. p \in OnBoard => Rank(p)' <= Rank(p)
  BY <1>1, <1>3, <1>4 DEF Rank
<1>7. ASSUME NEW q \in OnBoard, q # p
      PROVE  /\ Rank(q) \in Nat /\ Rank(q)' \in Nat /\ Rank(q) <= Rank(q)'
             /\ Rank(p)' > Rank(q) => Rank(q)' = Rank(q)
  <2>1. Rank(q) \in Nat /\ Rank(q)' \in Nat /\ Rank(q) <= Rank(q)'
    <3>1. Above(q) \subseteq Above(q)'
      BY <1>1, <1>7
    <3> QED BY <1>3, <1>4, <3>1 DEF Rank
  <2>2. p \in Above(q)' => Rank(p)' <= Rank(q)
    <3>1. p \in Above(q)' => Above(p)' \subseteq Above(q)
      BY <1>1, <1>7
    <3> QED BY <1>3, <1>4, <3>1 DEF Rank
  <2>3. p \notin Above(q)' => Rank(q)' = Rank(q)
    BY <1>1, <1>7 DEF Rank
  <2> QED BY <1>5, <2>1, <2>2, <2>3
<1> QED BY <1>1, <1>5, <1>6, <1>7

\* A player whose rank stays outside the cached part does not change it.
LEMMA RiseKeepsTop ==
  ASSUME board \in [Players -> Scores], board' \in [Players -> Scores],
         NEW p \in Players, board'[p] \in Int, board[p] # None => board[p] <= board'[p],
         \A q \in Players : q # p => board'[q] = board[q],
         NEW cfg \in Configs, ~InCachedPart(cfg, p)', NEW list, NearTop(list, cfg)
  PROVE  NearTop(list, cfg)'
<1> DEFINE n == cfg.cache_num
<1>1. n \in Int /\ n # -1 /\ Rank(p)' >= n /\ Rank(p)' \in Nat
  <2>1. board'[p] # None /\ n \in Int
    BY RankAssumption DEF Configs
  <2>2. n # -1 /\ ~(Rank(p)' < n)
    BY <2>1 DEF InCachedPart
  <2>3. Rank(p)' \in Nat
    BY RanksRise
  <2> QED BY <2>1, <2>2, <2>3
<1>2. /\ OnBoard' = OnBoard \cup {p}
      /\ p \in OnBoard => Rank(p)' <= Rank(p)
      /\ \A q \in OnBoard : q # p =>
           /\ Rank(q) \in Nat /\ Rank(q)' \in Nat /\ Rank(q) <= Rank(q)'
           /\ Rank(p)' > Rank(q) => Rank(q)' = Rank(q)
  BY RanksRise
<1>3. /\ list \subseteq Ranking
      /\ \A f \in Ranking \ list, e \in list : e.rank < f.rank
      /\ \A e \in list : e.rank <= n
  BY <1>1 DEF NearTop, IsTop
<1> HIDE DEF n
<1>4. \A q : Entry(q).rank = Rank(q) + 1 /\ Entry(q)'.rank = Rank(q)' + 1
  BY DEF Entry
<1>5. ASSUME NEW e \in list
      PROVE  \E q \in OnBoard : q # p /\ e = Entry(q) /\ Entry(q)' = Entry(q)
  <2>1. PICK q \in OnBoard : e = Entry(q)
    BY <1>3, <1>5 DEF Ranking
  <2>2. Rank(q) \in Nat /\ Rank(q) + 1 <= n
    <3>1. e.rank = Rank(q) + 1 /\ e.rank <= n
      BY <1>3, <1>4, <1>5, <2>1
    <3> QED BY <3>1, <2>1, RankType DEF OnBoard
  <2>3. q # p
    BY <1>1, <1>2, <2>1, <2>2
  <2>4. Rank(q)' = Rank(q)
    BY <1>1, <1>2, <2>1, <2>2, <2>3
  <2>5. board'[q] = board[q]
    BY <2>1, <2>3 DEF OnBoard
  <2>6. Entry(q)' = Entry(q)
    BY <2>4, <2>5 DEF Entry
  <2> QED BY <2>1, <2>3, <2>6
<1>6. list \subseteq Ranking'
  <2> SUFFICES ASSUME NEW e \in list PROVE e \in Ranking'
    OBVIOUS
  <2>1. PICK q \in OnBoard : e = Entry(q)'
    BY <1>5
  <2>2. q \in OnBoard'
    BY <1>2, <2>1
  <2> QED BY <2>1, <2>2 DEF Ranking
<1>7. ASSUME NEW f \in Ranking' \ list, NEW e \in list PROVE e.rank < f.rank
  <2>1. PICK r \in OnBoard' : f = Entry(r)'
    BY <1>7 DEF Ranking
  <2>2. f.rank = Rank(r)' + 1
    BY <1>4, <2>1
  <2>3. PICK q \in OnBoard : q # p /\ e = Entry(q)
    BY <1>5, <1>7
  <2>4. e.rank = Rank(q) + 1 /\ Rank(q) \in Nat /\ e.rank <= n
    BY <1>2, <1>3, <1>4, <1>7, <2>3
  <2>5. CASE r = p
    BY <1>1, <2>2, <2>4, <2>5
  <2>6. CASE r # p
    <3>1. r \in OnBoard /\ Rank(r) \in Nat /\ Rank(r)' \in Nat /\ Rank(r) <= Rank(r)'
      BY <1>2, <2>1, <2>6
    <3>2. Entry(r) \notin list
      <4>1. ASSUME Entry(r) \in list PROVE FALSE
        <5>1. PICK s \in OnBoard : s # p /\ Entry(r) = Entry(s) /\ Entry(s)' = Entry(s)
          BY <1>5, <4>1
        <5>2. s = r
          BY <5>1 DEF Entry
        <5>3. f \in list
          BY <2>1, <4>1, <5>1, <5>2
        <5> QED BY <1>7, <5>3
      <4> QED BY <4>1
    <3>3. Entry(r) \in Ranking
      BY <3>1 DEF Ranking
    <3>4. e.rank < Entry(r).rank
      BY <1>3, <1>7, <3>2, <3>3
    <3>5. e.rank < Rank(r) + 1
      BY <1>4, <3>4
    <3> QED BY <2>2, <2>4, <3>1, <3>5
  <2> QED BY <2>5, <2>6
<1>8. IsTop(list)'
  BY <1>6, <1>7 DEF IsTop
<1>9. \A e \in list : e.rank <= n
  BY <1>3
<1> QED BY <1>8, <1>9 DEF NearTop, n

\* The list that ZREVRANGE returns from the top.
LEMMA SliceIsTop ==
  ASSUME TypeOK, NEW last \in Nat
  PROVE  /\ IsTop(Slice(Ranking, 1, last))
         /\ \A e \in Slice(Ranking, 1, last) : e.rank <= last
<1>1. Ranking \in Lists
  BY RankingType DEF TypeOK
<1>2. \A e \in Ranking : e.rank \in Nat /\ 1 <= e.rank
  <2> SUFFICES ASSUME NEW e \in Ranking PROVE e.rank \in Nat /\ 1 <= e.rank
    OBVIOUS
  <2>1. PICK p \in OnBoard : e = Entry(p)
    BY DEF Ranking
  <2>2. Rank(p) \in Nat
    BY RankType, <2>1 DEF OnBoard
  <2> QED BY <2>1, <2>2 DEF Entry
<1> QED BY <1>2 DEF IsTop, Slice

-----------------------------------------------------------------------------
\* What depends on the board and the configuration alone.
LEMMA SameBoard ==
  ASSUME board' = board, config' = config
  PROVE  /\ Ranking' = Ranking
         /\ \A list : IsTop(list) => IsTop(list)'
         /\ \A list : NearTop(list, config) => NearTop(list, config)'
         /\ \A c : Clears(c) => Clears(c)'
         /\ \A c : Aligned(c) => Aligned(c)'
<1>1. OnBoard' = OnBoard
  BY DEF OnBoard
<1>2. \A p : Above(p)' = Above(p)
  BY <1>1 DEF Above
<1>3. \A p : Rank(p)' = Rank(p)
  BY <1>2 DEF Rank
<1>4. \A p : Entry(p)' = Entry(p)
  BY <1>3 DEF Entry
<1>5. Ranking' = Ranking
  BY <1>1, <1>4 DEF Ranking
<1>6. \A list : IsTop(list) => IsTop(list)'
  BY <1>5 DEF IsTop
<1>7. \A list : NearTop(list, config) => NearTop(list, config)'
  BY <1>6 DEF NearTop
<1>8. ASSUME NEW c, Clears(c) PROVE Clears(c)'
  <2>1. \A p : InCachedPart(config, p) => InCachedPart(config, p)'
    BY <1>3 DEF InCachedPart
  <2> QED BY <1>8, <2>1 DEF Clears
<1>9. ASSUME NEW c, Aligned(c) PROVE Aligned(c)'
  BY <1>6, <1>9 DEF Aligned
<1> QED BY <1>5, <1>6, <1>7, <1>8, <1>9

LEMMA UprightStep ==
  ASSUME TypeOK, Tidy, Upright, waiting # <<>>, Progress, NEW d, Return \/ Await(d),
         CacheGood' \/ (Await(d) /\ Clears(d)'),
         ~KeepsCache(config) => cache' = None,
         Await(d) => Aligned(d)'
  PROVE  Upright'
<1>1. config' = config
  BY DEF Progress
<1>2. Return => waiting' = <<>>
  BY TidyCurrent
<1>3. Await(d) => waiting' # <<>> /\ Current' = d
  BY TidyCurrent
<1>4. CacheGood' \/ (waiting' # <<>> /\ Clears(Current)')
  BY <1>3
<1>5. waiting' # <<>> => Aligned(Current)'
  BY <1>2, <1>3
<1>6. ~KeepsCache(config)' => cache' = None
  BY <1>1 DEF KeepsCache
<1> QED BY <1>4, <1>5, <1>6 DEF Upright

LEMMA UprightReply ==
  ASSUME TypeOK, Tidy, Upright, NEW labels, Reply(labels)
  PROVE  /\ waiting # <<>> /\ Execute(Current) /\ Current \in Coroutines
         /\ Current.at \in labels /\ Aligned(Current)
         /\ CacheGood \/ Clears(Current)
         /\ Current.at # "setex" => cache' = cache \/ cache' = None
<1>1. /\ waiting # <<>> /\ Execute(Current) /\ Current \in Coroutines
      /\ Current.at \in labels
  BY TidyReply
<1>2. Current.at # "setex" => cache' = cache \/ cache' = None
  BY <1>1 DEF Execute, CacheAfter
<1> QED BY <1>1, <1>2 DEF Upright

\* The board changes only where the cached list is cleared for it.
LEMMA CoveredBoard ==
  ASSUME Covered, Current.at \notin {"zadd", "r_zrem", "br_zrem"}
  PROVE  board' = board
BY DEF Covered

LEMMA QuietUpright ==
  ASSUME TypeOK, Tidy, Upright, Progress, board' = board, NEW labels, Reply(labels),
         Current.at # "setex", NEW d, Return \/ (Await(d) /\ Aligned(d)),
         CacheGood \/ (Await(d) /\ Clears(d))
  PROVE  Upright'
<1>1. waiting # <<>> /\ (cache' = cache \/ cache' = None)
  BY UprightReply
<1>2. config' = config
  BY DEF Progress
<1>3. CacheGood => CacheGood'
  BY <1>1, <1>2, SameBoard DEF CacheGood
<1>4. Clears(d) => Clears(d)'
  BY <1>2, SameBoard
<1>5. Await(d) => Aligned(d)'
  <2>1. ASSUME Await(d) PROVE Aligned(d)
    <3>1. CASE Return
      <4>1. waiting' = <<>> /\ waiting' # <<>>
        BY <1>1, <2>1, <3>1, TidyCurrent
      <4> QED BY <4>1
    <3> QED BY <3>1
  <2> QED BY <1>2, <2>1, SameBoard
<1>6. ~KeepsCache(config) => cache' = None
  BY <1>1 DEF Upright
<1>7. Return \/ Await(d)
  OBVIOUS
<1>8. CacheGood' \/ (Await(d) /\ Clears(d)')
  BY <1>3, <1>4
<1> QED BY <1>1, <1>5, <1>6, <1>7, <1>8, UprightStep

LEMMA NotClearing ==
  ASSUME NEW c, c.at \notin {"hset", "zrevrank", "del", "r_del", "r_delcache"}
  PROVE  ~Clears(c)
BY DEF Clears

LEMMA OtherAligned ==
  ASSUME NEW c, c.op \notin Holders
  PROVE  Aligned(c)
BY DEF Aligned, Holders

LEMMA UpdateAligned ==
  ASSUME NEW c \in UpdateCalls, Aligned(c), NEW label, NEW d, d = [c EXCEPT !.at = label]
  PROVE  /\ d.op = c.op /\ d.at = label /\ d.player = c.player /\ d.score = c.score
         /\ c.op \in SingleUpdate /\ c.cfg = config /\ d.cfg = config /\ Aligned(d)
<1>1. /\ d.op = c.op /\ d.at = label /\ d.player = c.player /\ d.score = c.score
      /\ d.cfg = c.cfg /\ c.op \in SingleUpdate
  BY DEF UpdateCalls
<1> QED BY <1>1 DEF Aligned, Holders, SingleUpdate

LEMMA UpdateQuietUpright ==
  ASSUME TypeOK, Tidy, Upright, Covered,
         UpdateDirectZscore \/ UpdateZscore \/ UpdateZrem
  PROVE  Upright'
<1>1. PICK labels : Reply(labels) /\ labels \subseteq {"zscore", "zrem"}
  BY DEF UpdateDirectZscore, UpdateZscore, UpdateZrem
<1>2. /\ Current \in UpdateCalls /\ Aligned(Current) /\ Current.at \in labels
      /\ CacheGood \/ Clears(Current)
  BY <1>1, UprightReply, Kinds
<1>3. board' = board /\ CacheGood /\ Current.at # "setex"
  BY <1>1, <1>2, CoveredBoard, NotClearing
<1>4. Progress
  BY DEF UpdateDirectZscore, UpdateZscore, UpdateZrem
<1>5. \E d : Return \/ (Await(d) /\ Aligned(d))
  <2>1. CASE AwaitAt("zrem")
    <3>1. PICK d : d = [Current EXCEPT !.at = "zrem"]
      OBVIOUS
    <3>2. Aligned(d)
      BY <1>2, <3>1, UpdateAligned
    <3> QED BY <2>1, <3>1, <3>2 DEF AwaitAt
  <2>2. CASE UpdateZscore
    <3>1. PICK s : s = Clip(Current.cfg, CurrentScore(Current.player) + Current.score)
      OBVIOUS
    <3>2. PICK d : d = [Current EXCEPT !.at = "zadd", !.score = s]
      OBVIOUS
    <3>3. Return \/ AwaitAt("zrem") \/ Await(d)
      BY <2>2, <3>1, <3>2 DEF UpdateZscore, LeaveOrReturn
    <3>4. d.op = Current.op /\ d.cfg = Current.cfg /\ Current.op \in SingleUpdate
      BY <1>2, <3>2 DEF UpdateCalls
    <3>5. Aligned(d)
      BY <1>2, <3>4 DEF Aligned, Holders, SingleUpdate
    <3> QED BY <2>1, <3>3, <3>5
  <2>3. Return \/ AwaitAt("zrem") \/ UpdateZscore
    BY DEF UpdateDirectZscore, UpdateZrem, LeaveOrReturn
  <2> QED BY <2>1, <2>2, <2>3
<1>6. PICK d : Return \/ (Await(d) /\ Aligned(d))
  BY <1>5
<1> QED BY <1>1, <1>3, <1>4, <1>6, QuietUpright

\* The score is written: either the player is in the cached part, which the
\* call will find out, or that part has not changed.
LEMMA UpdateZaddUpright ==
  ASSUME TypeOK, Tidy, Upright, Covered, UpdateZadd
  PROVE  Upright'
<1>1. Reply({"zadd"}) /\ Progress
  BY DEF UpdateZadd
<1>2. /\ Current \in UpdateCalls /\ Aligned(Current) /\ Current.at = "zadd"
      /\ CacheGood \/ Clears(Current)
      /\ waiting # <<>> /\ Execute(Current)
  BY <1>1, UprightReply, Kinds
<1>3. CacheGood /\ cache' = cache /\ config' = config
  BY <1>1, <1>2, NotClearing DEF Execute, CacheAfter, Progress
<1>4. PICK p \in Players, score \in Int : p = Current.player /\ score = Current.score
  BY <1>2 DEF UpdateCalls
<1>5. board'[p] = score /\ \A q \in Players : q # p => board'[q] = board[q]
  BY <1>2, <1>4 DEF Execute, BoardAfter, TypeOK
<1>6. board[p] # None => board[p] <= board'[p]
  <2>1. CASE board' = board
    <3>1. board[p] = score
      BY <1>5, <2>1
    <3> QED BY <1>5, <3>1
  <2>2. CASE board' # board
    BY <1>2, <1>4, <1>5, <2>2 DEF Covered
  <2> QED BY <2>1, <2>2
<1>7. board \in [Players -> Scores] /\ board' \in [Players -> Scores] /\ config \in Configs
  BY <1>1, ReplyType DEF TypeOK
<1>8. ASSUME CacheGood, ~InCachedPart(config, p)' PROVE CacheGood'
  <2>1. ASSUME NearTop(cache, config) PROVE NearTop(cache, config)'
    <3>1. PICK list : list = cache
      OBVIOUS
    <3>2. PICK cfg \in Configs : cfg = config
      BY <1>7
    <3>3. NearTop(list, cfg) /\ ~InCachedPart(cfg, p)'
      BY <1>3, <1>8, <2>1, <3>1, <3>2
    <3>4. NearTop(list, cfg)'
      BY <1>5, <1>6, <1>7, <3>3, RiseKeepsTop
    <3> QED BY <1>3, <3>1, <3>2, <3>4
  <2> QED BY <1>3, <1>8, <2>1 DEF CacheGood
<1>9. PICK label \in {"hset", "zrevrank"} : \E d :
        /\ d = [Current EXCEPT !.at = label]
        /\ Return \/ Await(d)
        /\ KeepsCache(config) => Await(d)
  <2>1. Current.cfg = config
    BY <1>2, UpdateAligned
  <2>2. CASE OnlyScore(Current)
    <3>1. PICK d : d = [Current EXCEPT !.at = "zrevrank"]
      OBVIOUS
    <3>2. IF KeepsCache(config) THEN Await(d) ELSE Return
      BY <2>1, <2>2, <3>1 DEF UpdateZadd, CheckCache, AwaitAt
    <3> QED BY <3>1, <3>2
  <2>3. CASE ~OnlyScore(Current)
    <3>1. PICK d : d = [Current EXCEPT !.at = "hset"]
      OBVIOUS
    <3>2. Await(d)
      BY <2>3, <3>1 DEF UpdateZadd, AwaitAt
    <3> QED BY <3>1, <3>2
  <2> QED BY <2>2, <2>3
<1>14. PICK d :
        /\ d = [Current EXCEPT !.at = label]
        /\ Return \/ Await(d)
        /\ KeepsCache(config) => Await(d)
  BY <1>9
<1>10. /\ d.op \in SingleUpdate /\ d.at = label /\ d.player = p /\ d.cfg = config
       /\ Aligned(d)
  BY <1>2, <1>4, <1>14, UpdateAligned
<1>11. Aligned(d)'
  BY <1>3, <1>10 DEF Aligned, Holders, SingleUpdate
<1>12. CacheGood' \/ (Await(d) /\ Clears(d)')
  <2>1. CASE ~KeepsCache(config)
    <3>1. cache' = None
      BY <1>3, <2>1 DEF Upright
    <3> QED BY <3>1 DEF CacheGood
  <2>2. CASE KeepsCache(config) /\ InCachedPart(config, p)'
    <3>1. KeepsCache(config)'
      BY <1>3, <2>2 DEF KeepsCache
    <3>2. Clears(d)'
      BY <1>3, <1>10, <2>2, <3>1 DEF Clears
    <3> QED BY <1>14, <2>2, <3>2
  <2>3. CASE ~InCachedPart(config, p)'
    BY <1>3, <1>8, <2>3
  <2> QED BY <2>1, <2>2, <2>3
<1>13. ~KeepsCache(config) => cache' = None
  BY <1>3 DEF Upright
<1> QED BY <1>1, <1>2, <1>11, <1>12, <1>13, <1>14, UprightStep

\* The rank is looked up where the code means to.
LEMMA UpdateHsetUpright ==
  ASSUME TypeOK, Tidy, Upright, Covered, UpdateHset \/ UpdateZrevrank
  PROVE  Upright'
<1>1. PICK labels : Reply(labels) /\ labels \subseteq {"hset", "zrevrank"}
  BY DEF UpdateHset, UpdateZrevrank
<1>2. /\ Current \in UpdateCalls /\ Aligned(Current) /\ Current.at \in labels
      /\ CacheGood \/ Clears(Current)
  BY <1>1, UprightReply, Kinds
<1>3. board' = board /\ Current.at # "setex" /\ Progress
  BY <1>1, <1>2, CoveredBoard DEF UpdateHset, UpdateZrevrank
<1>4. CASE UpdateHset
  <2>1. PICK d : d = [Current EXCEPT !.at = "zrevrank"]
    OBVIOUS
  <2>2. /\ d.op = Current.op /\ d.at = "zrevrank" /\ d.player = Current.player
        /\ Current.op \in SingleUpdate /\ Current.cfg = config /\ d.cfg = config
        /\ Aligned(d)
    BY <1>2, <2>1, UpdateAligned
  <2>3. IF KeepsCache(config) THEN Await(d) ELSE Return
    BY <1>4, <2>1, <2>2 DEF UpdateHset, CheckCache, AwaitAt
  <2>4. Current.at = "hset"
    BY <1>4 DEF UpdateHset, Reply
  <2>5. Clears(Current) => KeepsCache(config) /\ Clears(d)
    BY <2>2, <2>4 DEF Clears
  <2>6. CacheGood \/ (Await(d) /\ Clears(d))
    BY <1>2, <2>3, <2>5
  <2> QED BY <1>1, <1>3, <2>2, <2>3, <2>6, QuietUpright
<1>5. CASE UpdateZrevrank
  <2>1. PICK d : d = [Current EXCEPT !.at = "del"]
    OBVIOUS
  <2>2. /\ d.at = "del" /\ Current.op \in SingleUpdate /\ Current.cfg = config
        /\ Aligned(d)
    BY <1>2, <2>1, UpdateAligned
  <2>3. IF InCachedPart(config, Current.player) THEN Await(d) ELSE Return
    BY <1>5, <2>1, <2>2 DEF UpdateZrevrank, AwaitAt
  <2>4. Current.at = "zrevrank"
    BY <1>5 DEF UpdateZrevrank, Reply
  <2>5. Clears(Current) => InCachedPart(config, Current.player)
    BY <2>4 DEF Clears
  <2>6. CacheGood \/ (Await(d) /\ Clears(d))
    BY <1>2, <2>2, <2>3, <2>5 DEF Clears
  <2> QED BY <1>1, <1>3, <2>2, <2>3, <2>6, QuietUpright
<1> QED BY <1>4, <1>5

LEMMA DeleteCacheUpright ==
  ASSUME TypeOK, Tidy, Upright, Covered, DeleteCache
  PROVE  Upright'
<1>1. Reply({"del", "b_del", "r_delcache"}) /\ Return /\ Progress
  BY DEF DeleteCache
<1>2. waiting # <<>> /\ cache' = None
  BY <1>1, UprightReply DEF Execute, CacheAfter
<1>3. CacheGood'
  BY <1>2 DEF CacheGood
<1>4. PICK d : d = Current
  OBVIOUS
<1>5. ASSUME Await(d) PROVE FALSE
  <2>1. waiting' = <<>> /\ waiting' # <<>>
    BY <1>1, <1>2, <1>5, TidyCurrent
  <2> QED BY <2>1
<1> QED BY <1>1, <1>2, <1>3, <1>5, UprightStep

\* A call that does not hold the configuration.
LEMMA PassingUpright ==
  ASSUME TypeOK, Tidy, Upright, Covered, Progress, NEW labels, Reply(labels),
         Current.at \notin {"zadd", "r_zrem", "br_zrem", "setex", "hset", "zrevrank",
                            "del", "r_del", "r_delcache"},
         NEW d, Return \/ (Await(d) /\ d.op \notin Holders)
  PROVE  Upright'
<1>1. board' = board
  BY CoveredBoard
<1>2. CacheGood
  BY UprightReply, NotClearing
<1>3. Return \/ (Await(d) /\ Aligned(d))
  BY OtherAligned
<1> QED BY <1>1, <1>2, <1>3, QuietUpright

LEMMA InfoStepUpright ==
  ASSUME TypeOK, Tidy, Upright, Covered, InfoStep
  PROVE  Upright'
<1>1. Reply({"i_zscore", "i_zrevrank", "i_hget"}) /\ Progress
  BY DEF InfoStep
<1>2. /\ Current \in InfoCalls
      /\ Current.at \in {"i_zscore", "i_zrevrank", "i_hget"}
  BY <1>1, UprightReply, Kinds
<1>3. PICK label, d : d = [Current EXCEPT !.at = label] /\ (Return \/ Await(d))
  BY DEF InfoStep, AwaitAt
<1>4. d.op = "get_player_info"
  BY <1>2, <1>3 DEF InfoCalls
<1>5. d.op \notin Holders
  BY <1>4 DEF Holders, SingleUpdate
<1> QED BY <1>1, <1>2, <1>3, <1>5, PassingUpright

LEMMA BatchUpright ==
  ASSUME TypeOK, Tidy, Upright, Covered,
         BatchZscore \/ BatchHset \/ BatchZrevrank \/ BatchZrem \/ BatchZadd
  PROVE  Upright'
<1>1. PICK labels :
        /\ Reply(labels)
        /\ labels \subseteq {"b_zscore", "b_hset", "b_zrevrank", "b_zrem", "b_zadd"}
  BY DEF BatchZscore, BatchHset, BatchZrevrank, BatchZrem, BatchZadd
<1>2. /\ Current.at \in {"b_zscore", "b_hset", "b_zrevrank", "b_zrem", "b_zadd"}
      /\ Current \in BatchStates /\ Current.op \in BatchUpdate
      /\ Current.at # "b_zadd" => Current.updates # <<>>
  BY <1>1, BatchReply DEF BatchStates
<1>3. Progress
  BY DEF BatchZscore, BatchHset, BatchZrevrank, BatchZrem, BatchZadd
<1>4. ASSUME NEW c \in BatchStates, BatchGoOn(c)
      PROVE  \E d : Return \/ (Await(d) /\ d.op \in BatchUpdate)
  <2>1. PICK d : d = NextEntry(c)
    OBVIOUS
  <2>2. d.at # "end" => d \in BatchCalls
    BY <2>1, NextEntryType
  <2>3. d \in BatchCalls => d.op \in BatchUpdate
    BY DEF BatchCalls
  <2> QED BY <1>4, <2>1, <2>2, <2>3 DEF BatchGoOn
<1>5. ASSUME NEW label, AwaitAt(label)
      PROVE  \E d : Return \/ (Await(d) /\ d.op \in BatchUpdate)
  <2>1. PICK d : d = [Current EXCEPT !.at = label]
    OBVIOUS
  <2>2. d.op \in BatchUpdate
    BY <1>2, <2>1 DEF BatchStates
  <2> QED BY <1>5, <2>1, <2>2 DEF AwaitAt
<1>6. \E d : Return \/ (Await(d) /\ d.op \in BatchUpdate)
  <2>1. CASE BatchZscore
    <3> DEFINE u == Head(Current.updates)
               current == CurrentScore(u.player)
    <3>0. Current.updates # <<>>
      BY <1>2, <2>1 DEF BatchZscore, Reply
    <3>1. PICK score \in Int : score = Clip(Current.cfg, current + u.score)
      <4>1. u.player \in Players /\ u.score \in Int
        BY <1>2, <3>0, HeadType
      <4>2. CurrentScore(u.player) \in Int
        BY <4>1 DEF CurrentScore, TypeOK, Scores
      <4>3. current + u.score \in Int /\ Current.cfg \in Configs
        BY <1>2, <4>1, <4>2 DEF BatchStates
      <4> QED BY <4>3, ClipType
    <3>2. \/ Await(Accept(Current, score))
          \/ Await(Expel(Current))
          \/ BatchGoOn(DropEntry(Current))
      BY <2>1, <3>1 DEF BatchZscore
    <3> HIDE DEF current, u
    <3>3. CASE Await(Accept(Current, score))
      <4>1. PICK d : d = Accept(Current, score)
        OBVIOUS
      <4>2. d.op \in BatchUpdate
        BY <1>2, <3>0, <4>1, AcceptType DEF BatchCalls
      <4> QED BY <3>3, <4>1, <4>2
    <3>4. CASE Await(Expel(Current))
      <4>1. PICK d : d = Expel(Current)
        OBVIOUS
      <4>2. d.op \in BatchUpdate
        BY <1>2, <3>0, <4>1, ExpelType DEF BatchCalls
      <4> QED BY <3>4, <4>1, <4>2
    <3>5. CASE BatchGoOn(DropEntry(Current))
      BY <1>2, <1>4, <3>0, <3>5, DropEntryType
    <3> QED BY <3>2, <3>3, <3>4, <3>5
  <2>2. CASE BatchHset \/ BatchZrem
    <3>1. Current.updates # <<>>
      BY <1>2, <2>2 DEF BatchHset, BatchZrem, Reply
    <3>2. PICK c : /\ c = NoteRow(Current) \/ c = NoteRemoval(Current)
                   /\ Await([c EXCEPT !.at = "b_zrevrank"]) \/ BatchGoOn(DropEntry(c))
      BY <2>2 DEF BatchHset, BatchZrem
    <3>3. c \in BatchStates /\ c.updates # <<>>
      BY <1>2, <3>1, <3>2, NoteRowType, NoteRemovalType
    <3>4. [c EXCEPT !.at = "b_zrevrank"].op \in BatchUpdate
      BY <3>3 DEF BatchStates
    <3> QED BY <1>4, <3>2, <3>3, <3>4, DropEntryType
  <2>3. CASE BatchZrevrank
    <3>1. Current.updates # <<>>
      BY <1>2, <2>3 DEF BatchZrevrank, Reply
    <3>2. PICK hit \in BOOLEAN : BatchGoOn([DropEntry(Current) EXCEPT !.clear = @ \/ hit])
      <4>1. InCachedPart(Current.cfg, Head(Current.updates).player) \in BOOLEAN
        BY DEF InCachedPart
      <4> QED BY <2>3, <4>1 DEF BatchZrevrank
    <3>3. PICK e : e = DropEntry(Current)
      OBVIOUS
    <3>4. e \in BatchStates
      BY <1>2, <3>1, <3>3, DropEntryType
    <3>5. [e EXCEPT !.clear = @ \/ hit] \in BatchStates
      BY <3>4 DEF BatchStates
    <3> QED BY <1>4, <3>2, <3>3, <3>5
  <2>4. CASE BatchZadd
    BY <1>5, <2>4 DEF BatchZadd
  <2> QED BY <2>1, <2>2, <2>3, <2>4
<1>7. PICK d : Return \/ (Await(d) /\ d.op \in BatchUpdate)
  BY <1>6
<1>8. d.op \in BatchUpdate => d.op \notin Holders
  BY DEF BatchUpdate, Holders, SingleUpdate
<1> QED BY <1>1, <1>2, <1>3, <1>7, <1>8, PassingUpright

\* A removal is on its way to DEL rank_cache when it may have changed the board.
LEMMA RemovalUpright ==
  ASSUME TypeOK, Tidy, Upright, Progress, waiting # <<>>,
         cache' = cache, NEW d, Return \/ Await(d),
         d.op \notin Holders,
         \/ board' = board /\ CacheGood
         \/ Await(d) /\ d.at \in {"r_del", "r_delcache"} /\ config.cache_num > 0
  PROVE  Upright'
<1>1. config' = config
  BY DEF Progress
<1>2. Aligned(d)'
  BY DEF Aligned, Holders
<1>3. board' = board /\ CacheGood => CacheGood'
  BY <1>1, SameBoard DEF CacheGood
<1>4. d.at \in {"r_del", "r_delcache"} /\ config.cache_num > 0 => Clears(d)'
  BY <1>1 DEF Clears
<1>5. CacheGood' \/ (Await(d) /\ Clears(d)')
  BY <1>3, <1>4
<1>6. ~KeepsCache(config) => cache' = None
  BY DEF Upright
<1> QED BY <1>2, <1>5, <1>6, UprightStep

LEMMA RemoveUpright ==
  ASSUME TypeOK, Tidy, Upright, Covered, RemoveZrem \/ RemoveDel
  PROVE  Upright'
<1>1. PICK labels : Reply(labels) /\ labels \subseteq {"r_zrem", "r_del"}
  BY DEF RemoveZrem, RemoveDel
<1>2. /\ waiting # <<>> /\ Current \in RemoveCalls /\ Current.at \in {"r_zrem", "r_del"}
      /\ Execute(Current) /\ (CacheGood \/ Clears(Current))
  BY <1>1, UprightReply, Kinds
<1>3. Progress /\ cache' = cache
  BY <1>2 DEF RemoveZrem, RemoveDel, Execute, CacheAfter
<1>4. CASE RemoveZrem
  <2>1. Current.at = "r_zrem" /\ CacheGood
    BY <1>4, <1>2, NotClearing DEF RemoveZrem, Reply
  <2>2. PICK removed : removed = (board[Current.player] # None)
    OBVIOUS
  <2>3. PICK d : d = [Current EXCEPT !.at = "r_del", !.removed = removed]
    OBVIOUS
  <2>4. Await(d)
    BY <1>4, <2>2, <2>3 DEF RemoveZrem
  <2>5. d.op = "remove_player" /\ d.at = "r_del"
    BY <1>2, <2>3 DEF RemoveCalls
  <2>6. d.op \notin Holders
    BY <2>5 DEF Holders, SingleUpdate
  <2>7. board' = board \/ config.cache_num > 0
    BY <2>1 DEF Covered
  <2> QED BY <1>2, <1>3, <2>1, <2>4, <2>5, <2>6, <2>7, RemovalUpright
<1>5. CASE RemoveDel
  <2>1. Current.at = "r_del"
    BY <1>5 DEF RemoveDel, Reply
  <2>2. board' = board
    BY <2>1, CoveredBoard
  <2>3. CacheGood \/ config.cache_num > 0
    BY <1>2, <2>1 DEF Clears
  <2>4. PICK d : d = [Current EXCEPT !.at = "r_delcache"]
    OBVIOUS
  <2>5. IF config.cache_num > 0 THEN Await(d) ELSE Return
    BY <1>5, <2>4 DEF RemoveDel, AwaitAt
  <2>6. d.op = "remove_player" /\ d.at = "r_delcache"
    BY <1>2, <2>4 DEF RemoveCalls
  <2>7. d.op \notin Holders
    BY <2>6 DEF Holders, SingleUpdate
  <2> QED BY <1>2, <1>3, <2>2, <2>3, <2>5, <2>6, <2>7, RemovalUpright
<1> QED BY <1>4, <1>5

LEMMA BatchRemoveUpright ==
  ASSUME TypeOK, Tidy, Upright, Covered, BatchRemoveDel \/ BatchRemoveZrem
  PROVE  Upright'
<1>1. PICK labels : Reply(labels) /\ labels \subseteq {"br_del", "br_zrem"}
  BY DEF BatchRemoveDel, BatchRemoveZrem
<1>2. /\ waiting # <<>> /\ Current \in BatchRemoveCalls
      /\ Current.at \in {"br_del", "br_zrem"}
      /\ Execute(Current) /\ CacheGood
  BY <1>1, UprightReply, Kinds, NotClearing
<1>3. Progress /\ cache' = cache
  BY <1>2 DEF BatchRemoveDel, BatchRemoveZrem, Execute, CacheAfter
<1>4. CASE BatchRemoveDel
  <2>1. Current.at = "br_del"
    BY <1>4 DEF BatchRemoveDel, Reply
  <2>2. PICK left, label, d : d = [Current EXCEPT !.left = left, !.at = label] /\ Await(d)
    BY <1>4 DEF BatchRemoveDel
  <2>3. d.op = "batch_remove_player"
    BY <1>2, <2>2 DEF BatchRemoveCalls
  <2>4. d.op \notin Holders
    BY <2>3 DEF Holders, SingleUpdate
  <2> QED BY <1>1, <1>2, <1>3, <2>1, <2>2, <2>4, PassingUpright
<1>5. CASE BatchRemoveZrem
  <2>1. Current.at = "br_zrem"
    BY <1>5 DEF BatchRemoveZrem, Reply
  <2>2. board' = board \/ config.cache_num > 0
    BY <2>1 DEF Covered
  <2>3. PICK d : d = [Current EXCEPT !.at = "r_delcache"]
    OBVIOUS
  <2>4. IF config.cache_num > 0 THEN Await(d) ELSE Return
    BY <1>5, <2>3 DEF BatchRemoveZrem, AwaitAt
  <2>5. d.op = "batch_remove_player" /\ d.at = "r_delcache"
    BY <1>2, <2>3 DEF BatchRemoveCalls
  <2>6. d.op \notin Holders
    BY <2>5 DEF Holders, SingleUpdate
  <2> QED BY <1>2, <1>3, <2>2, <2>4, <2>5, <2>6, RemovalUpright
<1> QED BY <1>4, <1>5

-----------------------------------------------------------------------------
\* get_top_n and get_range.
LEMMA StoreOrAnswerUpright ==
  ASSUME TypeOK, Tidy, Upright, Covered, Progress, NEW labels, Reply(labels),
         labels \subseteq {"zrevrange", "pipeline"},
         NEW c \in ReadCalls, StoreOrAnswer(c), Aligned(c),
         c.op = "get_top_n" => IsTop(c.list)
  PROVE  Upright'
<1>1. board' = board /\ CacheGood
  BY UprightReply, CoveredBoard, NotClearing
<1>2. Current.at # "setex"
  BY UprightReply
<1>3. PICK d : d = [c EXCEPT !.at = "setex"]
  OBVIOUS
<1>4. /\ d.op = c.op /\ d.at = "setex" /\ d.cfg = c.cfg /\ d.first = c.first
      /\ d.last = c.last /\ d.list = c.list /\ d.with_extras = c.with_extras
  BY <1>3 DEF ReadCalls
<1>5. ASSUME Await(d), c.op = "get_top_n", Cacheable(c.cfg, c.last) PROVE Aligned(d)
  BY <1>4, <1>5 DEF Aligned
<1>6. Return \/ (Await(d) /\ Aligned(d))
  BY <1>3, <1>5 DEF StoreOrAnswer
<1> QED BY <1>1, <1>2, <1>6, QuietUpright

LEMMA ReadUpright ==
  ASSUME TypeOK, Tidy, Upright, Covered, ReadCache \/ ReadRanking \/ ReadExtras
  PROVE  Upright'
<1>1. PICK labels : Reply(labels) /\ labels \subseteq {"get", "zrevrange", "pipeline"}
  BY DEF ReadCache, ReadRanking, ReadExtras
<1>2. /\ Current \in ReadCalls /\ Current.at \in {"get", "zrevrange", "pipeline"}
      /\ Current.at \in labels /\ Aligned(Current) /\ CacheGood
  BY <1>1, UprightReply, Kinds, NotClearing
<1>3. board' = board
  BY <1>2, CoveredBoard
<1>4. Progress
  BY DEF ReadCache, ReadRanking, ReadExtras
<1>5. CASE ReadCache
  <2>1. PICK d : d = [Current EXCEPT !.at = "zrevrange"]
    OBVIOUS
  <2>2. /\ d.op = Current.op /\ d.at = "zrevrange" /\ d.cfg = Current.cfg
        /\ d.first = Current.first /\ d.last = Current.last /\ d.list = Current.list
    BY <1>2, <2>1 DEF ReadCalls
  <2>3. Aligned(d)
    BY <1>2, <2>2 DEF Aligned
  <2>4. Return \/ Await(d)
    BY <1>5, <2>1 DEF ReadCache, AwaitAt
  <2> QED BY <1>1, <1>2, <1>3, <1>4, <2>3, <2>4, QuietUpright
<1>6. CASE ReadRanking
  <2>1. Current.at = "zrevrange" /\ Reply({"zrevrange"})
    BY <1>6 DEF ReadRanking, Reply
  <2>2. PICK list \in Lists : list = Slice(Ranking, Current.first, Current.last)
    BY RankingType, SliceType DEF TypeOK
  <2>3. PICK c : c = [Current EXCEPT !.list = list]
    OBVIOUS
  <2>4. /\ c \in ReadCalls /\ c.op = Current.op /\ c.at = "zrevrange" /\ c.cfg = Current.cfg
        /\ c.first = Current.first /\ c.last = Current.last /\ c.list = list
        /\ c.with_extras = Current.with_extras
    BY <1>2, <2>1, <2>3 DEF ReadCalls
  <2>5. /\ Current.op = "get_top_n" => Current.first = 1 /\ Current.last # 0
        /\ Current.cfg = config
    BY <1>2 DEF Aligned, Holders, ReadCalls
  <2>6. Current.op = "get_top_n" => IsTop(list) /\ \A e \in list : e.rank <= Current.last
    <3>1. Current.last \in Nat
      BY <1>2 DEF ReadCalls
    <3> QED BY <2>2, <2>5, <3>1, SliceIsTop
  <2>8. Aligned(c)
    BY <2>4, <2>5, <2>6 DEF Aligned
  <2>9. PICK d : d = [c EXCEPT !.at = "pipeline"]
    OBVIOUS
  <2>10. Await(d) \/ StoreOrAnswer(c)
    BY <1>6, <2>2, <2>3, <2>9 DEF ReadRanking
  <2>11. CASE StoreOrAnswer(c)
    BY <1>4, <2>1, <2>4, <2>6, <2>8, <2>11, StoreOrAnswerUpright
  <2>12. CASE Await(d)
    <3>1. /\ d.op = c.op /\ d.at = "pipeline" /\ d.cfg = c.cfg /\ d.first = c.first
          /\ d.last = c.last /\ d.list = c.list
      BY <2>4, <2>9 DEF ReadCalls
    <3>2. Aligned(d)
      BY <2>4, <2>6, <2>8, <3>1 DEF Aligned
    <3> QED BY <1>1, <1>2, <1>3, <1>4, <2>12, <3>2, QuietUpright
  <2> QED BY <2>10, <2>11, <2>12
<1>7. CASE ReadExtras
  <2>1. Current.at = "pipeline" /\ Reply({"pipeline"}) /\ StoreOrAnswer(Current)
    BY <1>7 DEF ReadExtras, Reply
  <2>2. Current.op = "get_top_n" => IsTop(Current.list)
    BY <1>2, <2>1 DEF Aligned
  <2> QED BY <1>2, <1>4, <2>1, <2>2, StoreOrAnswerUpright
<1> QED BY <1>5, <1>6, <1>7

\* Only get_top_n with extra data stores a list.
LEMMA StoreCacheUpright ==
  ASSUME TypeOK, Tidy, Upright, Covered, StoreCache
  PROVE  Upright'
<1>1. Reply({"setex"}) /\ Return /\ Progress
  BY DEF StoreCache
<1>2. /\ waiting # <<>> /\ Current \in ReadCalls /\ Current.at = "setex"
      /\ Aligned(Current) /\ Execute(Current)
  BY <1>1, UprightReply, Kinds
<1>3. board' = board /\ cache' = Current.list /\ config' = config
  BY <1>1, <1>2, CoveredBoard DEF Execute, CacheAfter, Progress
<1>4. Current.op = "get_top_n" /\ Current.cfg = config /\ Current.last \in Nat
  BY <1>2 DEF Aligned, Holders, ReadCalls
<1>5. PICK list \in Lists, last \in Nat : list = Current.list /\ last = Current.last
  BY <1>2, <1>4 DEF ReadCalls
<1>6. /\ IsTop(list) /\ last # 0 /\ Cacheable(config, last)
      /\ \A e \in list : e.rank <= last
  BY <1>2, <1>4, <1>5 DEF Aligned
<1>7. list \in Lists /\ config.cache_num \in Int
  BY <1>2, <1>5 DEF ReadCalls, TypeOK, Configs
<1>8. NearTop(list, config)
  <2>1. ASSUME config.cache_num # -1, NEW e \in list PROVE e.rank <= config.cache_num
    <3>1. last <= config.cache_num /\ e.rank <= last /\ e.rank \in Nat
      BY <1>6, <1>7, <2>1 DEF Cacheable, Lists
    <3> QED BY <1>7, <3>1
  <2> QED BY <1>6, <2>1 DEF NearTop
<1>9. NearTop(list, config)'
  BY <1>3, <1>8, SameBoard
<1>10. CacheGood'
  BY <1>3, <1>5, <1>9 DEF CacheGood
<1>11. KeepsCache(config)
  BY <1>6, <1>7 DEF Cacheable, KeepsCache
<1>12. PICK d : d = Current
  OBVIOUS
<1>13. ASSUME Await(d) PROVE FALSE
  <2>1. waiting' = <<>> /\ waiting' # <<>>
    BY <1>1, <1>2, <1>13, TidyCurrent
  <2> QED BY <2>1
<1> QED BY <1>1, <1>2, <1>10, <1>11, <1>13, UprightStep

\* No call makes a step.
LEMMA StillUpright ==
  ASSUME Upright, UNCHANGED <<board, waiting>>, cache' = cache \/ cache' = None,
         config' = config \/ (cache = None /\ waiting = <<>>)
  PROVE  Upright'
<1>1. CASE config' = config
  <2>1. CacheGood => CacheGood'
    BY <1>1, SameBoard DEF CacheGood
  <2>2. Current' = Current
    BY DEF Current
  <2>3. /\ Clears(Current) => Clears(Current)'
        /\ Aligned(Current) => Aligned(Current)'
    <3>1. PICK c : c = Current
      OBVIOUS
    <3>2. /\ Clears(c) => Clears(c)'
          /\ Aligned(c) => Aligned(c)'
      BY <1>1, SameBoard
    <3>3. Current' = c
      BY <2>2, <3>1
    <3> QED BY <3>1, <3>2, <3>3
  <2>4. ~KeepsCache(config)' => cache' = None
    BY <1>1 DEF Upright, KeepsCache
  <2> QED BY <2>1, <2>3, <2>4 DEF Upright
<1>2. CASE cache = None /\ waiting = <<>>
  BY <1>2 DEF Upright, CacheGood
<1> QED BY <1>1, <1>2

LEMMA OtherUpright ==
  ASSUME Upright, Covered,
         \/ Initialize \/ SetConfig \/ SaveConfig \/ CacheExpires \/ MysqlExecute
         \/ UNCHANGED vars
  PROVE  Upright'
<1>1. UNCHANGED <<board, waiting>> /\ (cache' = cache \/ cache' = None)
  BY DEF Initialize, ConnectRedis, ConnectMysql, Connect, LoadConfig, SetConfig,
         SaveConfig, CacheExpires, MysqlExecute, vars, redisVars, mysqlVars
<1>2. config' = config \/ (cache = None /\ waiting = <<>>)
  BY DEF Covered
<1> QED BY <1>1, <1>2, StillUpright

LEMMA BeginUpright ==
  ASSUME TypeOK, Upright, NEW d, Begin(d), Len(waiting') <= 1, Aligned(d)
  PROVE  Upright'
<1>1. /\ waiting' = Append(waiting, d)
      /\ UNCHANGED <<board, cache, config>>
  BY DEF Begin, redisVars, mysqlVars
<1>2. waiting = <<>>
  <2>1. waiting \in Seq(Coroutines)
    BY DEF TypeOK
  <2>2. Len(waiting') = Len(waiting) + 1 /\ Len(waiting) \in Nat
    BY <1>1, <2>1
  <2>3. waiting # <<>> => Len(waiting) \in Nat \ {0}
    BY <2>1, EmptySeq, Zenon
  <2> QED BY <2>2, <2>3
<1>3. waiting' # <<>> /\ Current' = d
  <2>1. Append(<<>>, d) = <<d>> /\ <<d>> # <<>> /\ Head(<<d>>) = d
    OBVIOUS
  <2>2. Head(waiting') = d /\ waiting' # <<>>
    BY <1>1, <1>2, <2>1
  <2> QED BY <2>2 DEF Current
<1>4. CacheGood'
  BY <1>1, <1>2, SameBoard DEF CacheGood, Upright
<1>5. Aligned(d)'
  BY <1>1, SameBoard
<1>6. ~KeepsCache(config)' => cache' = None
  BY <1>1 DEF Upright, KeepsCache
<1> QED BY <1>3, <1>4, <1>5, <1>6 DEF Upright

LEMMA StartUpright == TypeOK /\ Upright /\ Covered /\ Start /\ Len(waiting') <= 1 => Upright'
<1> SUFFICES ASSUME TypeOK, Upright, Covered, Start, Len(waiting') <= 1 PROVE Upright'
  OBVIOUS
<1>1. CASE SetConfig
  BY <1>1, OtherUpright
<1>2. CASE StartUpdateDirect \/ StartUpdate
  <2>0. PICK k \in Calls, label \in {"zscore", "zadd"} :
          \E s : k.op \in SingleUpdate /\ Begin(UpdateState(k, label, s))
    BY <1>2 DEF StartUpdateDirect, StartUpdate, SingleUpdate
  <2>1. PICK s : k.op \in SingleUpdate /\ Begin(UpdateState(k, label, s))
    BY <2>0
  <2>2. Aligned(UpdateState(k, label, s))
    BY <2>1 DEF UpdateState, Aligned, Holders, SingleUpdate
  <2> QED BY <2>1, <2>2, BeginUpright
<1>3. CASE StartBatch
  <2>1. PICK k \in {k \in Calls : k.op \in BatchUpdate} :
      Begin(NextEntry([op |-> k.op, at |-> "start", cfg |-> config,
                       updates |-> k.updates, ins |-> NoRows, sql |-> NoRows,
                       dels |-> <<>>, clear |-> FALSE]))
    BY <1>3 DEF StartBatch
  <2>2. PICK c : c = [op |-> k.op, at |-> "start", cfg |-> config, updates |-> k.updates,
                 ins |-> NoRows, sql |-> NoRows, dels |-> <<>>, clear |-> FALSE]
    OBVIOUS
  <2>3. k.updates \in Seq(Updates) /\ k.updates # <<>>
    BY CallKinds
  <2>4. c \in BatchStates
    BY <2>2, <2>3, NoRowsType DEF BatchStates, TypeOK
  <2>5. PICK d : d = NextEntry(c)
    OBVIOUS
  <2>6. d.at # "end"
    BY <2>2, <2>3, <2>5 DEF NextEntry, Accept, Expel
  <2>7. d.op \in BatchUpdate
    BY <2>4, <2>5, <2>6, NextEntryType DEF BatchCalls
  <2>8. Aligned(d)
    BY <2>7, OtherAligned DEF BatchUpdate, Holders, SingleUpdate
  <2> QED BY <2>1, <2>2, <2>5, <2>8, BeginUpright
<1>4. CASE StartRemove
  <2>1. PICK k \in {k \in Calls : k.op = "remove_player"} :
          Begin([op |-> k.op, at |-> "r_zrem", player |-> k.player, removed |-> FALSE])
    BY <1>4 DEF StartRemove
  <2>2. PICK d : d = [op |-> k.op, at |-> "r_zrem", player |-> k.player,
                      removed |-> FALSE]
    OBVIOUS
  <2>3. Aligned(d)
    BY <2>2, OtherAligned DEF Holders, SingleUpdate
  <2> QED BY <2>1, <2>2, <2>3, BeginUpright
<1>5. CASE StartBatchRemove
  <2>1. PICK k \in {k \in Calls : k.op = "batch_remove_player"} :
          Begin([op |-> k.op, at |-> "br_del", left |-> k.players,
                 players |-> k.players])
    BY <1>5 DEF StartBatchRemove
  <2>2. PICK d : d = [op |-> k.op, at |-> "br_del", left |-> k.players,
                      players |-> k.players]
    OBVIOUS
  <2>3. Aligned(d)
    BY <2>2, OtherAligned DEF Holders, SingleUpdate
  <2> QED BY <2>1, <2>2, <2>3, BeginUpright
<1>6. CASE StartInfo
  <2>1. PICK k \in {k \in Calls : k.op = "get_player_info"} :
          Begin([op |-> k.op, at |-> "i_zscore", player |-> k.player])
    BY <1>6 DEF StartInfo
  <2>2. PICK d : d = [op |-> k.op, at |-> "i_zscore", player |-> k.player]
    OBVIOUS
  <2>3. Aligned(d)
    BY <2>2, OtherAligned DEF Holders, SingleUpdate
  <2> QED BY <2>1, <2>2, <2>3, BeginUpright
<1>7. CASE StartTopN
  <2>1. PICK k \in {k \in Calls : k.op = "get_top_n"} :
          Begin(ReadState(k, 1,
                IF k.n # None THEN k.n
                ELSE IF config.cache_num > 0 THEN config.cache_num ELSE 100))
    BY <1>7 DEF StartTopN
  <2>2. PICK last : last = IF k.n # None THEN k.n
                           ELSE IF config.cache_num > 0 THEN config.cache_num ELSE 100
    OBVIOUS
  <2>3. last # 0
    <3>1. k.n \in (Nat \ {0}) \cup {None}
      BY CallKinds
    <3>2. config.cache_num \in Int
      BY DEF TypeOK, Configs
    <3> QED BY <2>2, <3>1, <3>2
  <2>4. PICK d : d = ReadState(k, 1, last)
    OBVIOUS
  <2>5. Aligned(d)
    BY <2>3, <2>4 DEF ReadState, Aligned, Holders
  <2> QED BY <2>1, <2>2, <2>4, <2>5, BeginUpright
<1>8. CASE StartRange
  <2>1. PICK k \in {k \in Calls : k.op = "get_range"} : Begin(ReadState(k, k.first, k.last))
    BY <1>8 DEF StartRange
  <2>2. PICK d : d = ReadState(k, k.first, k.last)
    OBVIOUS
  <2>3. Aligned(d)
    BY <2>2 DEF ReadState, Aligned, Holders
  <2> QED BY <2>1, <2>2, <2>3, BeginUpright
<1> QED BY <1>1, <1>2, <1>3, <1>4, <1>5, <1>6, <1>7, <1>8 DEF Start

LEMMA ResumeUpright == TypeOK /\ Tidy /\ Upright /\ Covered /\ Resume => Upright'
BY UpdateQuietUpright, UpdateZaddUpright, UpdateHsetUpright, DeleteCacheUpright,
   InfoStepUpright, BatchUpright, RemoveUpright, BatchRemoveUpright, ReadUpright,
   StoreCacheUpright
   DEF Resume

-----------------------------------------------------------------------------
UprightInv == apart /\ rising => Upright

LEMMA NextUpright ==
  TypeOK /\ TidyInv /\ UprightInv /\ [HistoryNext]_historyVars => UprightInv'
<1> SUFFICES ASSUME TypeOK, TidyInv, UprightInv, [HistoryNext]_historyVars,
                    apart', rising'
             PROVE  Upright'
  BY DEF UprightInv
<1>1. CASE UNCHANGED historyVars
  <2>1. Upright
    BY <1>1 DEF UprightInv, historyVars
  <2> QED BY <1>1, <2>1, StillUpright DEF historyVars, vars
<1>2. CASE HistoryNext
  <2>1. /\ apart /\ Len(waiting') <= 1 /\ faults' = faults /\ Next
        /\ rising /\ Covered
    BY <1>2 DEF HistoryNext, Record, StaysApart
  <2>2. Tidy /\ Upright
    BY <2>1 DEF TidyInv, UprightInv
  <2>3. ~Faulty
    BY <2>1, <2>2, NotFaulty DEF Tidy
  <2> QED BY <2>1, <2>2, <2>3, StartUpright, ResumeUpright, OtherUpright DEF Next
<1> QED BY <1>1, <1>2

\* While calls do not overlap, nothing fails and every change is one that the
\* code means to clear the cached list for, that list is the current top of the
\* board whenever no call is in progress.
THEOREM CacheIsCurrent == HistorySpec => []CacheCurrent
<1>1. HistoryInit => TidyInv /\ UprightInv
  <2>1. Init => Upright
    BY DEF Init, FirstStart, Upright, CacheGood
  <2> QED BY <2>1, InitTidy DEF HistoryInit, TidyInv, UprightInv
<1>2. TypeOK /\ TidyInv /\ UprightInv /\ [HistoryNext]_historyVars
        => TidyInv' /\ UprightInv'
  BY NextTidy, NextUpright
<1>3. UprightInv => CacheCurrent
  BY DEF UprightInv, Upright, CacheGood, NearTop, CacheCurrent
<1> QED BY <1>1, <1>2, <1>3, HistoryType, PTL DEF HistorySpec

=============================================================================
