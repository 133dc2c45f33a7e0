# A verification project for skynet_cluster

The repository is a cluster of Lua services on the Skynet actor framework: node
discovery (over Redis or etcd), a leaderboard service with Redis, MySQL and an HTTP
interface, monitor and chat servers, an entity layer, and the C libraries they are
built with: a reliable transport over UDP, a Lua with a code cache and encrypted
scripts, a skip list, an area of interest, a word filter, TLS, an HTTP client, a
client socket and a logger. This directory holds TLA+ modules translated from its
source, TLC configurations that check them on small instances, and proofs for every
instance, checked by TLAPS.

Run in this directory:

    tlc -workers 2 -config MC_Rank.cfg MC_Rank.tla    # one run, see the table
    tlapm CommonRankProofs.tla                        # the proofs of a module

## 1 The system

A Skynet service is an actor: one Lua state, one message at a time. But a handler runs
in a coroutine, and each call of another service, a socket or `skynet.sleep` suspends
it; other handlers of the same service then run. **Every Redis or MySQL command is a
point where others get in between**, and none of the state a handler read before it is
protected. That, and what happens when a connection, a notification or a process is
lost, is what is hard about the Lua code and hardly reached by a test; the repository
has no tests. The C libraries are single-threaded, but for the code cache and the word
filter, which all threads of the process share; what is hard about them is what the
network, a caller or a failing allocation does between two calls, and data structures
whose bookkeeping is spread over many branches.

| component | source | state | operations | hard about it |
|---|---|---|---|---|
| leaderboard service | `server/rank/common_rank.lua` | Redis: zset of scores, a hash per player, a cached list; MySQL: `rank_data`, `rank_config`; in memory: `rank_config`, the lock `mysql_queue` | 4 updates, 2 removals, 3 readers, `set_config`, `init` | overlapping calls, write-behind to MySQL, cached list, configuration read before and used after a suspension, failed statements, restarts |
| its HTTP interface | `server/rank/lualib/rank.lua` | none | argument checks, forwarding | what reaches the service |
| discovery over Redis | `service/redis_discover.lua` | Redis: descriptions, heartbeats, a channel; per node: `cluster_nodes`, a connection, a subscription | start, heartbeat, search, notification, exit | three coroutines on one connection, clocks, purges by others, lost notifications and connections, crashes, restarts |
| discovery over etcd | `service/etcd_discover.lua`, `lualib/etcd_util.lua` | etcd: a key per node, attached to a lease; per node: `cluster_config`, a watch | start, register, keep alive, read, watch | a lease that expires, changes between read and watch, errors that end a coroutine |
| KCP transport | `3rd/src-c/kcp/ikcp.c`, `lkcp.c` | four queues of segments, windows, timers, measured round trips | send, recv, input, update, flush, check | loss, repetition and reordering of datagrams, closed windows, clocks that wrap or jump |
| callback references | `3rd/src-c/lkcp.c`, `src_encrypt/lauxlib.c` | slots of the Lua registry with a free list in them | create, collect, call back | slots that are reused |
| code cache | `src_encrypt/lauxlib.c` | functions by file name, shared by threads | load, clear, change of mode | the lock is not held from miss to entry |
| loading of scripts | `src_encrypt/lauxlib.c`, `lbaselib.c` | the Lua stack, the cache, the file | `loadfile`, `dofile`, `load`, encrypt, decrypt | what is left on the stack, paddings |
| skip list ranking | `lualib/zrank.lua`, `3rd/src-c/skiplist.c` | a table and a skip list | add, remove, limit, ranks, ranges | spans and pointers at every level |
| area of interest | `3rd/src-c/aoi.c`, `lua-aoi.c` | objects with reference counts, a hash map, hot pairs | update, drop, message | freeing in a walk, pairs nobody looks at again |
| word filter | `3rd/src-c/lua-crab.c` | a tree of hash tables | open, filter | words that are parts of words, a new dictionary in mid-text |
| TLS | `3rd/src-c/ltls.c` | two memory BIOs | handshake, read, write, close | what stays in a BIO |
| web client | `3rd/src-c/webclient.c` | requests and the buffer of a body | create, request, query, respond, remove | failing `realloc`, order of removal |
| client socket | `3rd/src-c/lua-clientsocket.c` | a descriptor | connect, send, recv, close | partial sends, EAGAIN |
| my log | `3rd/src-c/service_mylog.c` | the open file and its hour | init, line, release | the change of files |
| connection pools | `service/mysqlpool.lua`, `service/redispool.lua` | connections, an index | open, execute | connections that failed to open |
| entity layer | `lualib/entity/*.lua` | rows cached in Lua, Redis, MySQL | load, get, set | three copies of a row |
| work queue, timers, coroutine pool | `lualib/queuework.lua`, `lualib/utils/timer.lua`, `lualib/ext/copool.lua` | queues by key, timers by id | run in order, cancel | errors while others wait |
| Lark and monitor servers | `server/lark`, `server/monitor` | an access token, sessions | refresh, log in | overlapping refreshes |
| the rest | HTTP front end, user log, `base.lua`, utilities, build scripts | | | I/O, formatting, third-party code |

Discovery feeds `skynet.cluster` on every node with names and addresses; services of
one node (for example the HTTP server) call the leaderboard of another through it. The
servers of the repository start `redis_discover`; `etcd_discover` answers the same calls and
may be started in its place. The C libraries are called from Lua and share no state
with each other, with one exception: a KCP object keeps its callback in the registry
that the loader's `lauxlib.c` manages.

What makes each component correct: **leaderboard**: no score gets past the configured
limits, the table follows the board and never gets ahead of it, the cached list is
dropped when it is outdated, memory and the stored configuration agree; **discovery**: no live node is purged or loses its key, whoever is
listed can be looked up, all nodes come to know the same cluster; **KCP**: messages come
out whole, in order and once, and they do come out; **references, cache, area of
interest**: nothing points to what was freed or reused; **skip list, word filter,
paddings**: they compute what a plain definition says; **TLS, web client, socket, log**:
no byte is lost, repeated or put in the wrong place. The lines at which each of these
can go wrong are the `hazards` of `PROJECT.json`.

## 2 The modules

| module | models | role |
|---|---|---|
| `CommonRank` | the leaderboard service, for one `rank_type` | actions, types, properties |
| `WriteBehind` | what a board with a write-behind table promises | abstract specification |
| `RankHistory` | the leaderboard with three history variables | properties that hold under conditions on the history |
| `CommonRankProofs` | | `TypeCorrect`, `LimitsHold`, `ConfigIsKept`, `WritesReachMysqlInOrder`, `NoGhostRows`, `CacheIsCurrent` |
| `RedisDiscover` | discovery over Redis on every node of a cluster | actions, types, properties |
| `RedisDiscoverProofs` | | `TypeCorrect`, `ListedNodesDescribed`, `LiveNodesListed` |
| `EtcdDiscover` | discovery over etcd on every node | actions, properties |
| `EtcdDiscoverProofs` | | `LeasesKept`, `ViewsFollow` |
| `Kcp` | two KCP control blocks, a network, two users | actions, properties |
| `KcpChannel` | what a session promises its users | abstract specification |
| `KcpProofs` | | `IsChannel`, `NothingLost`, `WindowsRespected`, `TypeCorrect`, `DeliveredInOrder` |
| `KcpClock` | the times of one control block | actions, properties |
| `KcpClockProofs` | | `RtoBounded`, `SilenceBounded`, `ChecksInTime` |
| `LuaRefs` | callbacks in the registry | actions, types, properties |
| `CodeCache` | threads that load files | actions, types, properties |
| `LoadFile`, `DesText` | loading of scripts, encryption of texts | actions, properties |
| `MyLog` | the log service | actions, properties |
| `LibraryProofs` | | of these five: `OwnCallbacks`, `CacheTypeCorrect`, `FunctionsStayAlive`, `LeakBounded`, `FilesLoad`, `TextsComeBack`, `LinesFindTheirFile` |
| `Tls`, `WebClient`, `ClientSocket` | a connection, requests, a socket | actions, properties |
| `TransportProofs` | | of these three: `TlsKeepsOrder`, `BodiesAreWhole`, `StreamsStayWhole` |
| `InductionLemmas` | | lemmas on numbers, loops and sequences for the proofs |
| `SkipList` | zrank and its skip list | algorithms and their reference definitions |
| `Aoi`, `WordFilter` | area of interest, word filter | actions, properties |
| `MC_Rank*`, `MC_Discover`, `MC_Kcp` | | instances for TLC |
| `MC_Parts` | | the parts that share no state, one per behaviour |

### CommonRank

One action per stretch of a handler between two suspensions. A call in progress is a
record: `at` names the Redis command whose reply it waits for, the other fields are its
local variables that matter later (`cfg` is the configuration it read when it started).
The service has **one** connection to Redis, on which commands are executed and
answered in the order they were sent, so the calls in progress form a queue, `waiting`.
An action executes the command at its head, resumes that call and runs its code up to
the next command, which goes to the end of the queue, or to its end. Any number of
calls may be in the queue, so every interleaving of commands that the service can
produce is there. Redis executes a command when it answers it; executing it a little
earlier would only delay the reply.

| state | code |
|---|---|
| `board`, `data`, `cache` | zset `rank:<type>`, hashes `rank_data:<type>:<player>`, string `rank_cache:<type>` |
| `rows`, `stored` | MySQL tables `rank_data` and `rank_config` |
| `config` | `rank_config[rank_type]`, or the default while there is none |
| `mq` | `mysql_queue`: tasks forked by calls. A task holds a list of statements and takes the lock anew, behind the others, for each of them |
| `saves` | the query of `set_config`, which does not take the lock |
| `phase` | how far `CMD.init` is; `rank_main.lua` does not wait for it |
| `down` | the connection broke and its callers have not been told |
| `configs` | history only: the configurations that were ever in force |

The actions are named after the call and the reply it resumes at: `StartUpdateDirect`,
`UpdateDirectZscore`, `UpdateZrem`, `UpdateZadd`, `UpdateHset`, `UpdateZrevrank`,
`DeleteCache` are `update_score_direct`; the batches are `StartBatch`, `Batch*`, the
removals `StartRemove`, `Remove*`, `StartBatchRemove`, `BatchRemove*`, the readers
`StartTopN`, `StartRange`, `Read*`, `StoreCache`, `StartInfo`, `InfoStep`. Faults:
a statement fails (`MysqlExecuteFails`, `SaveConfigFails`, `LoadConfigFails`), the
connection breaks with some commands executed and none answered (`LoseConnection`,
`ExecuteUnanswered`, `AbortCalls`), the process restarts (`Restart`).

Abstractions. Scores are integers, the code has doubles. Player ids are numbers, so
that the order of members with equal scores is defined as Redis defines it. A list is
the set of its entries, each with its rank. Extra data is an opaque text; `tostring(nil)`
is the text `"nil"`, as in the code. One `rank_type`: types share only the two queues.
The extra data fetched by the readers are left out of the lists.

### RankHistory

Some of the promises are about the history, or hold only under conditions on it, so
`RankHistory` records it: `apart` is true as long as no two calls were in progress at a time and nothing
failed, `rising` as long as every step that changed the board was an update to a score
no lower than before, or a removal while `cache_num` is positive, and the configuration
changed only while nothing was cached; `shown` has the scores that each player ever had on
the board. The three only follow the steps of `CommonRank`; none restricts them.

### WriteBehind

A write changes the board and is appended to the writes the table has yet to receive;
these are saved one at a time, oldest first. `CommonRank` implements it (with
`pending` <- the statements in `mq` followed by those of the calls that have written to
Redis and not yet forked, `saved` <- the scores of `rows`) **as long as every call that
writes forks its statement at its second command**: `update_score`,
`update_score_direct` with extra data, `remove_player`, no minimum, no faults. Then
forks happen in the order of the Redis writes. A call that forks at its first command
(`update_score_direct` without extra data, a player that leaves because its score is
too low) or a batch can overtake one that does not, so `WriteBehindAssumption` leaves them
out. The writes of the calls are collected by a recursive function, `Forking`, so that the
refinement can be proved.

### RedisDiscover

Three coroutines per node, `main` (`CMD.start`, `CMD.exit`), `beat` (`heartbeat_loop`)
and `note` (the handler of notifications), share one connection; `queue[n]` holds the
coroutines that wait for it. All three run `update_cluster_nodes`: purge heartbeats
older than `NODE_TIMEOUT`, list the names that remain, fetch the description of each,
replace `cluster_nodes` if the names differ (or always, when a notification asked for
it).

| state | code |
|---|---|
| `info`, `hb` | hash `nodes:info`, zset `nodes:heartbeat` |
| `view[n]` | `cluster_nodes` of node n |
| `phase`, `addr`, `co`, `queue` | the service on node n and its coroutines |
| `lost`, `closed` | its connection broke, or was closed by `CMD.exit` |
| `sub`, `inbox` | its subscription and the notifications not yet handled |
| `missed` | history only: the node's last heartbeat write failed |

Times are **ages**: how long ago a clock was read. `Tick` lets all ages grow by one, but
not past the moment a timer is due or a reply is `MaxLag` old, so timers fire on time
and replies take at most `MaxLag`. Clocks differ by constants (`Skew`); a score written
by a clock that is ahead is younger by as much. The state space is finite because an
age stops growing where every score is stale for everyone.

Abstractions. A description is its address. Notifications carry no content that the
handler uses: both kinds force a search. `cluster.reload` and `cluster.open` belong to
Skynet. A lost connection fails every coroutine that waits on it together. The subscription loop
connects again (lines 157 and 183 do what the TODO at line 20 misses) until an error outside
its `pcall` ends it: `redis.watch` or `subscribe` raise one when the connection cannot be
made, or breaks at once (`SubscribeFails`). Of
`skynet.db.redis`, `skynet.db.mysql` and the servers only what the code relies on is
modelled, marked external in `PROJECT.json`.

### EtcdDiscover

Each process registers (`Start`, `Grant`, `Set`: a lease of `TTL`, then the key attached to
it), reads all keys (`Read`) and opens a watch (`OpenWatch`) that yields the events from
there on; `register_node` forks the loop that renews the lease (`Keepalive`). A message of
the watch holds one or more events, of which the last for each name counts (`Applied`);
the callback changes `cluster_config` and ends in `reload_cluster`, whose error on a missing
own name ends the coroutine that watches (phase `deaf`). etcd is external: `Expire` drops a
key whose lease has run out, `Tell` sends an event to every open watch.

| state | code |
|---|---|
| `key`, `left` | in etcd: the address under a name, and what is left of its lease |
| `proc[n].phase` | the request that `CMD.start` waits for, or what became of the watch |
| `proc[n].lease`, `beat` | what is left of the process's own lease, the time since its renewal |
| `config[n]`, `inbox[n]` | `cluster_config`, the events not yet handled |
| `prompt`, `missed` | history only: no keepalive was lost; a change passed unseen |

Time is counted down (leases) and up (`beat`) by `Tick`, which does not pass the moment at
which a reply is `MaxLag` late. Faults: a request fails, etcd refuses a grant (the answer has no lease, so the key is set
without one, never renewed and never expires: `GrantRefused`, `NoLease`), a stream ends, a
process crashes (its key lives on until the lease has expired, and a restart takes it over).

### Kcp, KcpChannel, KcpClock

A control block is a record with the names of `struct IKCPCB`; `Send`, `Recv`, `IkcpInput`,
`Update` are whole calls, with the flush inside `Update`. The network is a sequence of
datagrams to each end from which any one may be delivered, repeated or lost. Times are
left to `KcpClock`: in `Kcp` any segment in flight, and the window probe, may or may not be
due at a flush, which covers every clock. The loops of `ikcp_input` and `ikcp_flush` are
recursive functions of the number of segments done (`InputLoop`, `Packed`, `Pushes`), so that
they can be proved about. A fragment is named by its message and its
place in it, so that `KcpChannel` (whole messages, in order, once) can be stated, and is
implemented with `sent` and `received` as they are. `KcpClock` has one control block and one
segment: `ts_flush` and the slap, `ikcp_check`, the resend times, the round-trip estimate,
with counters that wrap. `kcp->state` is written and never read; `dead_link` with it.

### LuaRefs, CodeCache

`LuaRefs` holds the registry from its first free slot on; a free slot holds the number of
the next, as in `lauxlib.c`. An object is created (a reference is taken before the
arguments are checked, so a failing create leaks one slot: it is modelled), used and
collected; the coroutine that created it (`c->L`) is taken to outlive it, since `lkcp.c` does
not anchor it. In `CodeCache` a load is cut where the lock is released: look up, compile in a
state of its own, save (the first one wins, the other closes its state), clone. `Clear`
empties the cache without closing a state that may be in use.

### LoadFile, DesText

`LoadFile` has the Lua stack as a sequence, since what the loaders leave on it and which
index they use matters; a file is source, a compiled chunk, something else, or the
encryption of one of these, perhaps over the 256 bytes that fit the C stack, damaged, or
with a size for which `malloc` fails; `loadfile` without a name is left out. `DesText`
has the two paddings and the splitting into blocks byte by byte; DES itself is a bijection
of blocks.

### SkipList, Aoi, WordFilter

Data structures, modelled node by node. The random level of a skip list node is any
level. Positions in `Aoi` are points of a line: the code only compares distances with the
radius. The map's chained slots and its rehashing are modelled, with 2 as the smallest
size. `WordFilter` has the hash tables as functions of characters, and a `filter` that began
with one dictionary while `open` replaces it.

### Tls, WebClient, ClientSocket, MyLog

OpenSSL, libcurl and the kernel are external: OpenSSL answers flight by flight, libcurl
delivers a body in pieces and ends a transfer with a result, the kernel takes a part of
what is sent. The code around them is modelled call by call: what it leaves in a BIO or a
buffer, what it allocates, which descriptor or file is open. What OpenSSL keeps of a
sequence (`Only`) and the length of a body (`LengthOf`) are recursive functions, so that they
can be proved about.

## 3 What is checked

| run | instance | shows |
|---|---|---|
| `rank_all` | four scenarios, one per behaviour: every kind of call (3 calls, 2 at a time, 1 fault, a minimum, a maximum, `set_config`); 4 calls of every kind that writes, one at a time, also before `init` has returned; 5 serial calls with 3 players and scores that do not fall; 4 calls, 3 at a time, `get_top_n` among them, rising scores and removals of two players | `TypeOK`, `LimitsHeld`; `RowsWereShown`: a score in `rank_data` was on the board; `ConfigKept`; `NoGhostRow`: a drained queue leaves no row the board does not have; `CacheCurrent`: the cached list is the current top; `FilledIsCurrent` (`FillCurrent` in the fourth scenario): nor does a cached list outlive a change that overlaps the call that stores it |
| `rank_write_behind` | 3 overlapping calls that fork at their second command | `WritesInOrder` (refinement of `WriteBehind`), `EventuallySaved` |
| `discover_safe` | 2 nodes, clocks one interval apart, 3 starts, 1 crash, exit, lost connection or subscription | `TypeOK`, `ListedHasInfo`, `LiveNodeListed` |
| `discover_lag` | 2 nodes, replies that take up to an interval, the smallest admissible timeout, 1 lost connection | `LiveNodeListed` |
| `discover_converge` | as `discover_safe`, without exit, with fairness | `NamesConverge` |
| `kcp` | messages of one and two fragments, windows of 2, 1 datagram lost or repeated, any order | `TypeOK`, `NothingForgotten`, `WithinWindows`, `ChannelSpec` (refinement of `KcpChannel`) |
| `parts` | sixteen instances, one per behaviour, below | 22 properties, below |
| `rank_increments`, `rank_range`, `rank_leave`, `discover_address`, `kcp_stuck` | | one finding each, section 5 |

With two workers `discover_lag` (2,800,000 states) takes three to four minutes, `rank_all`
(1,800,000), `kcp` (460,000), `discover_safe` (1,260,000) and `parts` (172,000) one to
three, the other runs with liveness properties and `discover_address` one and
a half; the rest take seconds. The
proofs take about twelve minutes for `CommonRankProofs`, five for `KcpProofs`, and two or less for each
other module.

`MC_Parts` extends the modules of which something is proved (`EtcdDiscover`, `LuaRefs`,
`CodeCache`, `KcpClock`, `LoadFile`, `DesText`, `MyLog`, `Tls`, `WebClient`, `ClientSocket`), so that the run
checks the definitions the proofs are about, and has instances of the others (`SkipList`,
`Aoi`, `WordFilter`, and `Kcp`, which `MC_Kcp` extends) over common variables. A part that does not run
rests. By the value of `kind`:

| kind | instance | properties |
|---|---|---|
| `etcd` | 2 nodes, 2 addresses, a lease of 4, keepalives every 1 to 2, 3 starts, 1 fault | `LeaseKept`, `ViewFollows` |
| `refs` | 2 KCP objects, 3 slots | `CallbackIsOwn` |
| `cache` | 2 threads, 1 file, 3 states, 1 clear | `SharedAlive`, `LeakIsBounded` |
| `clock` | a counter of 9 values, intervals 1 and 3, clocks that advance by 1, jump by 4 and step back by 2 | `CheckIsNotLate`, `SilenceIsBounded` |
| `kcp` | 2 messages, a window of 1, 1 fault, fairness | `AllArrives` |
| `skiplist` | 3 members, 2 scores, 2 levels: every order of operations | `ListMatchesTable`, `QueriesExact`, `LimitKeepsTheRest` |
| `moving` | 2 objects whose slots collide, places 0, 3, 6, 12 and 15, radius 7 | `ObjectsSound`, `ToldOnce`, `InRangeIsTold` |
| `changing` | the same at 0, 3 and 12, watchers and markers or markers only | the same |
| `many` | 4 objects in a map that starts with 2 slots | `ObjectsSound` |
| `words` | 4 words that are parts of each other, in every order, 4 texts | `FilterExact` |
| `load` | 1 file with every kind of content, 2 programs | `GoodFilesLoad` |
| `des` | blocks of 3, texts of up to 4 bytes, among them every byte of a padding | `RoundTrip` |
| `tls` | handshakes of 3 and 4 flights, 2 data each way | `BytesInOrder`, `BothFinish` |
| `web` | 1 request, up to 3 pieces of 1 or 3 bytes, any allocation fails | `BodyIsWhole` |
| `socket` | messages of 1 and 2 bytes, any partial send or receive | `StreamsAreWhole` |
| `log` | days of 3 hours, 7 hours, a file that cannot be opened | `LinesInTheirFile` |

**Bounds.** `MaxCalls`, `MaxInFlight`, `MaxFaults`, `MaxStarts`, `MaxClears`, `MaxXmit`, `MaxBytes`,
`MaxPieces`, `MaxData`, `MaxTime`, `MaxText`, `NetCap`, `AckCap` cap counters and queues;
everything else is finite by itself. A lost update, an overtaken fork or a list read
around a write needs two overlapping calls, a `set_config` between check and write a
third; `rank_all` has those, with one fault at any point between their commands. A ghost
row or an outdated cached list needs a history: a write, a reader that caches, a change of
configuration, a second write, a removal; hence four and five serial calls. A list that is
stored after the change that should have cleared it needs a reader between two commands of a
writer, and a call before it that put the player on the board. The places of `moving` are such
that, in moves of less than half the radius that do not count, a hot pair comes into range
(3 and 12, then 6 and 12) and a pair that was judged too far (0 and 15, last counted at 3 and
12) drifts back to 6 and 12. The scores are placed on
both sides of each limit, and equal scores occur. Two nodes are enough for one to purge the
other, miss its notification or restart under its eyes; three starts let one of them come
back, also while the lease of its earlier process is about to expire. Two messages of which
the second has two fragments let a fragment overtake, fill and close a window of two,
repeat after its message was read, and be acknowledged out of order. Three members and two
levels let a node be first, last, between, tied and at a level the list does not yet have;
three objects of the registry's slots let the free list have a second link. The widths of
counters, blocks, buffers and days are scaled down with the constants that depend on them,
in the relations the code has. What small instances cannot show is left to the proofs.

**Fairness.** `CommonRank`: weak fairness of replies, of the abort of calls on a broken
connection and of the two MySQL queues: Redis and MySQL answer, and a Skynet
coroutine that can run does. Calls, faults and restarts owe nothing. `RedisDiscover`:
weak fairness of time, and for each node of replies, timers, the subscription loop (it
reconnects for ever), the handler and the noticing of a lost connection. Starts, exits
and faults owe nothing. `Kcp`: the user keeps reading (weak), keeps calling `ikcp_update`, at
which every segment in flight is due again and again, and the network delivers what it
does not lose (strong: both are disabled now and then by `NetCap` and `AckCap`, which the
code does not have). Loss is bounded by `MaxFaults`, which is how "not for ever" is said here.
`Tls`: the caller's loop hands what arrived to the handshake, and writes once it is over
(weak); this loop is the caller's (external), the code in `ltls.c` only answers.

**What each property is about.** `LimitsHeld`: a score is checked when a call starts and
written several suspensions later, while the configuration changes. `RowsWereShown`: whatever
overlaps, breaks and restarts, MySQL is told of a score only after Redis has answered the
ZADD; `FillCurrent`: `get_top_n` stores a list two commands after it has read it. `ConfigKept`: merge, save, load and merge again.
`CacheCurrent`: the rank test that decides on dropping the list. `NoGhostRow`: six
paths lead off the board and each has to delete the row. `LiveNodeListed`: nodes purge
each other by their own clocks. `ListedHasInfo`: two keys, written by two commands.
`NamesConverge`: lost notifications and three overlapping searches. `LeaseKept`: a lease, a key
that an earlier process left behind, and an error that ends the watch. `ViewFollows`: what was
read and what the watch tells make up what etcd has. `NothingForgotten`: the sender gives up
exactly what the receiver has. `CheckIsNotLate`: whoever sleeps as long as `ikcp_check` says
misses no resend. `SilenceIsBounded`: whatever the clock does, the next flush is at most
`SlapLimit` (10 seconds) off, and at most an interval when the clock has not stepped back
since the last. `LeakIsBounded`: at most one state per race or clear is left open.
`InRangeIsTold`: a watcher knows every marker in its radius, but for pairs that were judged too
far since either last moved by half the radius; `ToldOnce`: and is told once. `GoodFilesLoad`:
source, and what was packed whole from source or a compiled chunk, gives a program that the
file holds now or held since the cache was cleared; a compiled chunk on disk, garbage and
damaged files give none, unless the cache has one. Each has a mutant
in `PROJECT.json`: a plausible mistake in the code that the run then finds.

**Where the limits of the properties lie**, found while modelling:

- With calls before `CMD.init` has returned, a `set_config` in that window is undone in
  memory by the row that `init` loads, while the row itself is not overwritten (there is
  no `mysql_conn` yet): hence the hypothesis `~EarlyCalls` of `ConfigKept`, and `faults = 0`: a
  query that failed is not repeated. For
  the same reason `LimitsHeld` is run with a stored configuration that has limits and no
  early calls: with them the default, which has no limits, counts as in force.
- `cond and value or default` (`common_rank.lua:69`, and `rank.lua:280`) never lets false
  override a default: `allow_negative = false` becomes true. `Merge` does what the code does.
- `CacheCurrent` needs serial calls and scores that do not fall. A player that falls out
  of the cached ranks does not clear the list (the rank is looked up after the write);
  `remove_player` keeps the list when `cache_num` is -1 (line 778); the batches look the rank
  up before their ZADD. In these cases the list is outdated for up to the 300 seconds of
  its expiry, which is all the code says about it.
- `FillCurrent` holds for calls that overlap as long as every writer's DEL comes at least as
  many commands after its write as the SETEX of `get_top_n` after its ZREVRANGE. That of
  `batch_remove_player` does not: it is the command right after its ZREM (lines 796 and 815),
  so it may be executed before the SETEX (line 673) of a `get_top_n` that read the removed
  players (line 635), which then stay in the cached list for up to 300 seconds. With this call
  among `FillCalls` TLC finds that behaviour.
- The bound of `LagAssumption` (`Interval + 3 * MaxLag + Skew < Timeout`) is tight: at one
  unit less TLC finds a live node purged. The code's values, 5 and 10 seconds, leave
  room for replies that take a second and a half where the clocks agree, or for clocks
  that differ by less than 5 seconds where replies are immediate.
- The bound of `EtcdAssumption` (`Interval + 2 * MaxLag < TTL`) is tight, too: with a lease of 3
  instead of 4 TLC finds the key of a live node gone. The code's values, 5 and 10 seconds,
  leave two and a half for each reply, and no room for a keepalive that is lost: the loop
  sleeps before it tries again, and by then the lease has expired; nothing registers anew.
- `ViewFollows` excludes what was missed. A node that registers between another's read and the
  opening of its watch (`etcd_util.lua:70-75`), or between two watches, stays unknown to it
  until its key changes again: TLC shows it at once without `missed`.
- In `update_score` and the batches `extra_str` is never nil, so an update without extra
  data overwrites the stored extra data with the text `"nil"`, and the branch that only
  updates the score is never taken.
- `slFirstInRange` may answer a node past the end of a range in which there is none; its
  callers test the end themselves. `QueriesExact` states what the callers return.

## 4 What is proved

For **every** set of players, calls, stored configurations, nodes, addresses and clocks,
and every bound. The assumptions of the first modules are `RankAssumption` and `DiscoverAssumption`
(types of the constants, finitely many players and nodes), which TLC evaluates
in every run.

- `CommonRankProofs!TypeCorrect`: `Spec => []TypeOK`. `TypeOK` is inductive: it says what
  each call carries for its next command (a batch within its loop has an entry in hand,
  a task has a statement to run), which is what makes each step defined.
- `CommonRankProofs!LimitsHold`: `Spec => []LimitsHeld`. The property is not inductive: a
  score on its way to the board is not on it yet. `LimitsInv` follows scores wherever
  they are: an update that waits for ZADD or HSET carries a score that passed, a batch
  carries tables of such scores, a forked statement writes only such scores, a list that
  was read holds only such scores, and the configuration a call captured was in force.
  Its parts are sets of *sound* calls, statements, tables and lists; each only grows when
  a configuration is added (`MoreConfigs`), and each action takes sound ones to sound ones.
- `RedisDiscoverProofs!TypeCorrect`: `Spec => []TypeOK`; a node that registers has an address.
- `RedisDiscoverProofs!ListedNodesDescribed`: `Spec => []ListedHasInfo`. `InfoInv` adds that
  whoever is about to write a heartbeat has stored the description (each coroutine has
  at most one command in flight, so a connection lost between the two leaves at most a
  description without a heartbeat), and that nothing deletes a description.
- `RedisDiscoverProofs!LiveNodesListed`: under `LagAssumption`, `Spec => []LiveNodeListed`.
  `LiveInv` bounds the age of a live node's heartbeat at each point of its loop (at most
  `2 * MaxLag` when it goes to sleep, `Interval + 2 * MaxLag` when it wakes, one lag more
  when its write arrives), with the roles of the coroutines and the bounds that timers
  and `MaxLag` impose; a purge by any node with any skew then leaves it alone.
  `MC_Discover` has TLC confirm that its instances satisfy `LagAssumption`.

- `EtcdDiscoverProofs!LeasesKept`, `ViewsFollow`: under `EtcdAssumption`, `EtcdSpec => []LeaseKept` and
  `EtcdSpec => []ViewFollows`. `LeaseInv` bounds from below the lease plus the time since its
  renewal, and `StartInv` the same on the way from the grant to the key; so a key that expires
  (`ExpireStep`) is nobody's who renews in time, `SelfInv` can say that no such node has an
  event of its own name on its way, and the error that ends a watch is not raised.
  `ViewInv` says of every watch that missed nothing: the events on their way, applied to
  what it believes, give etcd's keys. Its lemmas are about the last event of a name, which
  exists by the well-foundedness of the naturals: one event more changes its name only
  (`AppliedAppend`), and some events now and the rest later come to the same (`AppliedSplit`).
- `LibraryProofs!OwnCallbacks`: `RefsSpec => []CallbackIsOwn`. The invariant follows the free list
  through the slots: no two free slots lead to the same next one, none leads to the first,
  and no live object holds a free slot, nor two objects one.
- `LibraryProofs!FunctionsStayAlive` (and `CacheTypeCorrect`): `CacheSpec => []SharedAlive`. What was
  entered is never closed; a state that a thread may close it alone has, and it was never
  entered.
  `LeakBounded`: `CacheSpec => []LeakIsBounded`. Every open state was entered or is in the hands of
  the thread that made it (`OwnedInv`); a file was entered at most once for each clear, and
  once more while the cache has it (`CountInv`).
- `LibraryProofs!FilesLoad`: `LoadSpec => []GoodFilesLoad`. `LoadInv` says that the cache holds only
  programs the file has stood for since it was cleared, and that what a file holds now is one
  of these. Files that stand for no program (a compiled chunk on disk, which mode "t" refuses,
  garbage, damaged files) are shown not to load. The rest is the code of the loaders: a lemma for each of `lua_load`,
  `luaL_loadfilex`, `luaL_loadfilexx` and `load_aux` says what lies on top of the stack it
  leaves, whatever lay there before, with the userdata of a large file below its text.
- `LibraryProofs!TextsComeBack`: `DesSpec => []RoundTrip`. `TextReturns` is the fact about the
  algorithm: byte k of what is decrypted is byte k of the text, through the division into
  blocks (`DivMod`, `DivLess`, `DivUnique`); the last block ends in a padding
  (`AddPadding`), and of a text that ends in a padding of p bytes exactly p are taken away
  (`RemovePadding`): the marker cannot be a 0 and the last byte is the length. `DesInv` adds that
  a cipher that nobody has decrypted yet is that of the text. `DesAssumption` has blocks of 2
  to 127 bytes, so that the length of a padding is a byte.
- `LibraryProofs!LinesFindTheirFile`: `LogSpec => []LinesInTheirFile`. `LogInv` says that while files
  change, the open file is of an hour that has come, `time` is its hour of the day, and every
  line since it was opened came at that hour of a day (`Since`).
- `TransportProofs!StreamsStayWhole`: `SocketSpec => []StreamsAreWhole`. `SocketInv`: what was asked for is what
  has arrived and what `block_send` still holds, unless it failed and what has arrived is a
  beginning of it; what was served is what was taken and what is still coming.
- `TransportProofs!TlsKeepsOrder`: `TlsSpec => []BytesInOrder`. With the types, the property is
  inductive. Each operation moves records from one of the places between two callers to
  another (`Kept`, `KeptQuiet`); that `Only` picks the data of a concatenation from each part
  (`OnlyConcat`), that nothing is left of flights (`OnlyNone`), and that picking twice is
  picking once (`OnlyTwice`) are its lemmas, by way of the loop that computes it.
- `TransportProofs!BodiesAreWhole`: `WebSpec => []BodyIsWhole`. `WebInv`: until a realloc fails, the
  buffer is as long as `content_maxlength` says and holds all pieces (`BufferIsTrue`); from
  then on neither changes, whatever `content_maxlength` says, and the answer is an error;
  nothing is delivered after an answer was given (`GivenIsOver`). `LengthAppend` and `GrownHolds`
  show that what is doubled is enough.
- `KcpClockProofs!RtoBounded`, `SilenceBounded`, `ChecksInTime`: `ClockSpec => []RtoIsBounded`
  (of which no run makes a property of its own), `ClockSpec => []SilenceIsBounded`, `ClockSpec => []CheckIsNotLate`. All three rest on facts about
  counters modulo `Wrap`: `Itimediff` is the signed distance, adding to both clocks keeps it,
  and a distance within half the range adds up exactly. `ClockAssumption` gives that range
  (`2 * SlapLimit + 1 < Wrap`: 10 seconds of 2^32 milliseconds in the code). `ChecksInTime` then is a
  statement about every future reading of the clock before the time `ikcp_check` names.
- `KcpProofs!IsChannel`: `Spec => ChannelSpec`, the refinement of `KcpChannel`, with
  `NothingLost` (`[]NothingForgotten`), `WindowsRespected` (`[]WithinWindows`), `TypeCorrect`
  (`[]TypeOK`) and the users' view `DeliveredInOrder`, for all scripts, windows, sizes of
  datagrams, modes of congestion control and numbers of faults; the argument is below.
- `CommonRankProofs!ConfigIsKept`: `Spec => []ConfigKept`. `ConfigInv` adds what is in force while
  queries are on their way: the last of `saves`, or else the stored row, gives the
  configuration, and merging a merged configuration once more changes nothing.
- `CommonRankProofs!NoGhostRows`: `HistorySpec => []NoGhostRow`. A row may be wrong while
  statements for it are queued, and a task of several statements (a batch that both
  accepts and removes players) takes its turn anew for each of them. `Tidy` says, for each
  player, that the queue **settles** the row (a later statement of a task deletes it, or the
  last first statement of a task that concerns it leaves the score of the board, or none
  concerns it and the row fits as it is), or that the one call in progress **owes** the
  statement. Only deletions come second in a task (`LaterDeletes`), and whatever is deleted
  late by a task was taken off the board by its call. The lemmas say what a fork
  (`SettlesForked`), a statement (`SettlesExecuted`) and a reply that forks nothing
  (`QuietTidy`) do to this; `AcceptMatches`, `ExpelMatches` and `DropMatches` follow the
  tables of a batch in which a player may occur several times.
- `CommonRankProofs!CacheIsCurrent`: `HistorySpec => []CacheCurrent`. `Upright` says that the
  cached list is as near the top of the board as the call in progress leaves it: it is
  the current top, or that call is on its way to the test that drops it. The code tests the
  rank **after** the write; `RanksRise` and `RiseKeepsTop` show that this suffices where scores
  rise: if the player ends up below the cached ranks, it was below them before, and nobody
  above it has moved. `SliceIsTop` says the same of a list just read.
- `CommonRankProofs!WritesReachMysqlInOrder`: under `WriteBehindAssumption`,
  `Spec => WritesInOrder`, the refinement of `WriteBehind`, for any number of overlapping calls.
  `PromptInv` says that all calls in progress and all tasks are of the kinds the assumption
  leaves, and that there are none before the service is ready. ZADD and ZREM then are
  `Write`: the call goes to the end of `waiting` with its write (`WriteStep`). The next command
  of that call is `hset` or `r_del`; when it is answered, all calls that wrote earlier have
  forked, so the write moves from the head of those of the calls to the end of those of
  the tasks and the sequence stays the same (`ForkStep`). A statement is `Save`; all else
  stutters. The lemmas `ForksAppend` and `ForksHead` say what the ends of `waiting` contribute
  to the writes collected from it.

**The argument for KCP.** `WithinWindows` and `NothingForgotten` speak of one end at a time, but
neither is inductive: what an end may forget depends on acknowledgements on their way,
what those say depends on what the other end had when it sent them, and that a resent,
overtaken or repeated segment does no harm depends on its carrying what was sent under
its number the first time. The invariant `SessionInv` therefore says that there are, for each
direction, a **stream** `F` of fragments and the places `cut` at which its messages end, such
that

- at the sender (`SendOK`) what is in flight carries the fragments of `F` at its numbers, in
  order and within the window, what is no longer in flight has been received, and what is
  queued is the rest of `F`;
- at the receiver (`RecvOK`) what is buffered carries the fragments of `F` at its numbers, in
  order, within the window and from what was sent, and what waits for the user follows
  what the user has taken;
- on the way (`Genuine`) a data segment carries the fragment of its number, and `una` and the
  number of an acknowledgement name only what has been received; likewise in `acklist`;
- the stream is the accepted messages one after the other, cut where they end
  (`StreamOK`), and the user has taken it up to such a place.

Both parts of the third item stay true as both ends move on, since streams and what was
received only grow (`SendGrows`, `RecvGrows`, `GenuineGrows`), so that loss, repetition and
reordering are all the same to the invariant (`NetShrinks`). Each function of `ikcp.c` has a lemma
that says what it preserves (`UnaGood`, `AckGood`, `InsertGood`, `ReadyGood`, `DataGood`, `GrowGood`,
`MoveToBufGood`, `FlushGood`, `PackGood`); the loops over segments rest on one lemma about
recursive functions (`LoopExists`). `WholeMessage` then shows that what `ikcp_recv` returns is
exactly the next message: its first fragment counts those to come, and the first `frg` of
0 in the queue is at its end. `FragmentsOf` and `sent` give the refinement its mapping.

The assumptions of these modules are evaluated by TLC in the runs that extend them:
`EtcdAssumption`, `RefsAssumption`, `CacheAssumption`, `ClockAssumption`, `LoadAssumption`,
`DesAssumption`, `LogAssumption`, `TlsAssumption`, `WebAssumption` and `SocketAssumption` in `MC_Parts`,
`KcpAssumption` in `MC_Kcp`, `RankAssumption` (which says that a configuration or a row is not
the mark for none) in `MC_Rank`, and `WriteBehindAssumption` in `MC_RankWriteBehind`. The invariants of all proofs were model-checked on the
instances of the runs before or while they were proved, `SessionInv` with the
concatenation of `sent` for `F`.

Only model-checked: the liveness properties (`EventuallySaved`, `NamesConverge`, `AllArrives`,
`BothFinish`), whose fairness is out of this prover's reach; `RowsWereShown` and `FillCurrent`; and what `SkipList`, `Aoi` and
`WordFilter` promise: their algorithms are recursive operators and folds over data that grows
(the levels of a list, chains of a hash table, references among objects), which needs the
induction over data that the installed provers do not have.

## 5 Findings

Each is a run that TLC ends with a counterexample, against the sentence of the
repository that `PROJECT.json` quotes.

- `rank_increments`: two overlapping `update_score` calls for one player lose an increment:
  ZSCORE and ZADD are two commands.
- `rank_range`: `get_range` is served from a cached list that `get_top_n` stored for a
  smaller n, and returns fewer players than there are.
- `rank_leave`: a player whose score is below a minimum that was raised later stays on the
  board when its next score is too low.
- `discover_address`: a node that restarts at another address before it timed out stays known
  by the old one where its notification was missed, since only names are compared.
- `kcp_stuck`: `ikcp_send` accepts a message of up to 255 fragments (`ikcp.c:468`) although the
  peer's receive queue may hold fewer; such a message never arrives and blocks the session.

Observations that no sentence of the repository contradicts are listed under "Where the
limits of the properties lie"; others are

- an encrypted file gets no environment: `luaL_loadfilexx` empties the stack before it
  decrypts, so the index that `load_aux` uses (`lbaselib.c:326`) names something else
  (modelled in `LoadFile`);
- the log compares only the hour of the day (`service_mylog.c:43`): after a day without a line
  in between, a line goes to the file of the day before (`LinesInTheirFile` says so);
- the second of two overlapping refreshes of the Lark token wins, each fetches one.

## 6 Not modelled

`PROJECT.json` lists every component with its status. Left out, and why:

- **Parts nobody uses**: the entity layer (nothing loads it), `mysqlpool.lua` (nothing starts
  it), `queuework.lua` (its objects have no methods: the metatable lacks `__index`), `timer.lua`
  and `copool.lua`. How they are called, and in which order, would be made up.
- **I/O and wording**: the HTTP front end, the user log, the monitor pages, the chat robot,
  `base.lua`, formatting, build scripts; `redispool.lua` only forwards. `get_config` and the
  queries of discovery change nothing.
- **Third-party and library code**: Lua's own part of `lauxlib.c` and `lbaselib.c`, OpenSSL,
  libcurl, the rounds of DES, routing and path-finding libraries, `lutil.c`, `lua-utf8.c`,
  `lua-time.c` (small functions without state).
- **Parts of modelled components**: `ikcp_setmtu`, the logs of KCP and the wrapping of its
  sequence numbers; `aoi_release`; memory of skip list nodes; certificates and errors of
  OpenSSL; forms, headers and info of the web client (a failing `http_post` request leaks its
  form); `read_n` of the client socket, which reads every part to the start of its buffer
  (`lua-clientsocket.c:155`).

What would come next: an abstract membership that both discoveries implement; KCP with
sequence numbers that wrap; and the skip list with its recursion written as functions, so that
spans and ranks can be proved about.
