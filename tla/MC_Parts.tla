------------------------------ MODULE MC_Parts ------------------------------
(***************************************************************************)
(* The parts of the C code, and the discovery over etcd, which share no    *)
(* state with each other: a behaviour is one of one part, named by kind.   *)
(* The modules with proofs, whose constants the configuration gives, are   *)
(* extended and rest in an initial state when another part runs; the       *)
(* others are instances over v1, ..., v6.                                  *)
(***************************************************************************)
EXTENDS EtcdDiscover, LuaRefs, CodeCache, KcpClock, LoadFile, DesText, Tls,
        WebClient, ClientSocket, MyLog, SequencesExt

VARIABLES kind, v1, v2, v3, v4, v5, v6

instanceVars == <<v1, v2, v3, v4, v5, v6>>
nativeVars == <<kind, etcdVars, refsVars, cacheVars, clockVars, loadVars, desVars,
                tlsVars, webVars, socketVars, logVars, instanceVars>>

MCTicks == {1, 4, -2}

MCPackets == {<<1>>, <<1, 2>>}

-----------------------------------------------------------------------------
(* The instances *)

SL == INSTANCE SkipList WITH
    Members <- {1, 2, 3}, Scores <- {1, 2}, MaxLevel <- 2, sl <- v1, tbl <- v2

Words == {<<1>>, <<1, 3>>, <<3, 5>>, <<5, 1, 3>>}

\* All orders of all words but the first or the third, with one that shares
\* nothing; and a list that is refused.
WordLists ==
    {Append(l, <<7>>) : l \in {l \in [1 .. 3 -> Words] :
        Range(l) \in {Words \ {<<1>>}, Words \ {<<3, 5>>}}}}
    \union {<< <<1>>, <<3, -1>> >>}

W == INSTANCE WordFilter WITH
    WordLists <- WordLists,
    Texts <- {<<1, 3, 5>>, <<5, 1, 3, 1>>, <<3, 3, 5, 7>>, <<5, 1, 7>>},
    Star <- 0, g_dict <- v1, reading <- v2, output <- v3

Ends == {"a", "b"}

\* Two messages of one fragment through a window of one.
K == INSTANCE Kcp WITH
    Peer <- Ends, Script <- [p \in Ends |-> IF p = "a" THEN <<1, 1>> ELSE <<>>],
    MaxFragments <- 255, SndWnd <- 2, RcvWnd <- 1, WndRcv <- 2, Mtu <- 3,
    PushSize <- 2, FastResend <- 1, NoCwnd <- FALSE, NetCap <- 1, AckCap <- 1,
    MaxFaults <- 1,
    kcp <- v1, net <- v2, offered <- v3, sent <- v4, received <- v5, faults <- v6

\* Two objects whose positions in the map collide.  Without a move that counts
\* each may go by 3: a hot pair comes into range (3 and 12, then 6 and 12) and a
\* pair that was judged too far (0 and 15, last counted at 3 and 12) comes back
\* to 6 and 12.
Moving == INSTANCE Aoi WITH
    Ids <- {1, 3}, Places <- {0, 3, 6, 12, 15}, Modes <- {{"w", "m"}},
    Radius <- 7, PreAlloc <- 2,
    map <- v1, object <- v2, hot <- v3, told <- v4, seen <- v5, far <- v6

\* Two objects that watch or do not, in range, hot or in between.
Changing == INSTANCE Aoi WITH
    Ids <- {1, 3}, Places <- {0, 3, 12}, Modes <- {{"w", "m"}, {"m"}},
    Radius <- 7, PreAlloc <- 2,
    map <- v1, object <- v2, hot <- v3, told <- v4, seen <- v5, far <- v6

\* Four objects in one place, and a map of two slots that grows.
Many == INSTANCE Aoi WITH
    Ids <- {1, 2, 3, 5}, Places <- {0}, Modes <- {{"m"}}, Radius <- 7, PreAlloc <- 2,
    map <- v1, object <- v2, hot <- v3, told <- v4, seen <- v5, far <- v6

ASSUME InstanceAssumptions ==
    /\ SL!SkipListAssumption
    /\ W!WordFilterAssumption
    /\ K!KcpAssumption
    /\ Moving!AoiAssumption
    /\ Changing!AoiAssumption
    /\ Many!AoiAssumption

-----------------------------------------------------------------------------
(* One part runs *)

No5 == v5 = 0 /\ v6 = 0
No4 == v4 = 0 /\ No5
No3 == v3 = 0 /\ No4
No1 == v1 = 0 /\ v2 = 0 /\ No3

Extended == {"etcd", "refs", "cache", "clock", "load", "des", "tls", "web", "socket", "log"}

InstanceInit ==
    \/ kind = "skiplist" /\ SL!Init /\ No3
    \/ kind = "words" /\ W!Init /\ No4
    \/ kind = "kcp" /\ K!Init
    \/ kind = "moving" /\ Moving!Init
    \/ kind = "changing" /\ Changing!Init
    \/ kind = "many" /\ Many!Init
    \/ kind \in Extended /\ No1

\* Where a part has several initial states, it rests in one of them.
MCInit ==
    /\ InstanceInit
    /\ EtcdInit /\ RefsInit /\ CacheInit /\ ClockInit /\ LoadInit
    /\ DesInit /\ TlsInit /\ WebInit /\ SocketInit /\ LogInit
    /\ kind # "clock" => timing.interval = Min(Intervals) /\ ~timing.nodelay
    /\ kind # "des" => text = <<>>
    /\ kind # "tls" => flights = Min(Flights)
    /\ kind # "log" => now = 0

Keep4 == UNCHANGED <<v4, v5, v6>>
Keep3 == UNCHANGED v3 /\ Keep4

OneRuns ==
    \/ kind = "etcd" /\ EtcdNext
    \/ kind = "refs" /\ RefsNext
    \/ kind = "cache" /\ CacheNext
    \/ kind = "clock" /\ ClockNext
    \/ kind = "load" /\ LoadNext
    \/ kind = "des" /\ DesNext
    \/ kind = "tls" /\ TlsNext
    \/ kind = "web" /\ WebNext
    \/ kind = "socket" /\ SocketNext
    \/ kind = "log" /\ LogNext
    \/ kind = "skiplist" /\ SL!Next /\ Keep3
    \/ kind = "words" /\ W!Next /\ Keep4
    \/ kind = "kcp" /\ K!Next
    \/ kind = "moving" /\ Moving!Next
    \/ kind = "changing" /\ Changing!Next
    \/ kind = "many" /\ Many!Next

Rests(part, vars) == kind # part => UNCHANGED vars

MCNext ==
    /\ UNCHANGED kind
    /\ OneRuns
    /\ Rests("etcd", etcdVars) /\ Rests("refs", refsVars)
    /\ Rests("cache", cacheVars) /\ Rests("clock", clockVars)
    /\ Rests("load", loadVars) /\ Rests("des", desVars)
    /\ Rests("tls", tlsVars) /\ Rests("web", webVars)
    /\ Rests("socket", socketVars) /\ Rests("log", logVars)
    /\ kind \in Extended => UNCHANGED instanceVars

\* The fairness of Kcp and Tls, where they run.
MCFairness ==
    /\ \A p \in Ends :
          /\ WF_instanceVars(kind = "kcp" /\ K!Recv(p))
          /\ SF_instanceVars(kind = "kcp" /\ K!Update(p, K!InFlight(p), TRUE))
          /\ SF_instanceVars(kind = "kcp" /\ K!Deliver(p, 1))
    /\ \A e \in Endpoint : WF_tlsVars(kind = "tls" /\ Exchange(e))

MCSpec == MCInit /\ [][MCNext]_nativeVars /\ MCFairness

-----------------------------------------------------------------------------
(* The properties of the instances, see the modules they come from *)

\* skiplist.c and the table of zrank agree.
ListMatchesTable == kind = "skiplist" => SL!ListMatchesTable

\* Ranks, nodes by rank and ranges of scores of skiplist.c are right.
QueriesExact == kind = "skiplist" => SL!QueriesExact

\* limit and rev_limit of zrank keep one end of the ranking.
LimitKeepsTheRest == [][kind = "skiplist" => SL!LimitKeeps]_nativeVars

\* aoi.c counts references right and nothing in it points to freed memory.
ObjectsSound ==
    /\ kind \in {"moving", "changing"} => Moving!RefsExact /\ Moving!NothingDangles
    /\ kind = "many" => Many!RefsExact /\ Many!NothingDangles

\* aoi.c tells a watcher of a marker once.
ToldOnce == [][(kind \in {"moving", "changing"}) => Moving!TellsOnce]_nativeVars

\* aoi_message tells of all markers in range but those judged too far.
InRangeIsTold ==
    [][/\ kind = "moving" => Moving!MessageTells
       /\ kind = "changing" => Changing!MessageTells]_nativeVars

\* lua-crab.c masks the longest words of one dictionary.
FilterExact == kind = "words" => W!FilterExact

\* Both ends of a handshake through ltls.c finish.
BothFinish == <>(kind = "tls" => Over)

\* Every message that ikcp_send accepted arrives, see AllArrives of Kcp.
AllArrives ==
    \A n \in 1 .. 2 : (kind = "kcp" /\ Len(v4["a"]) >= n)
                        ~> (kind = "kcp" /\ Len(v5["a"]) >= n)

=============================================================================
