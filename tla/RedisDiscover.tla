--------------------------- MODULE RedisDiscover ---------------------------
(***************************************************************************)
(* Service discovery over Redis, service/redis_discover.lua, as run by     *)
(* every node of the cluster.                                              *)
(*                                                                         *)
(* Redis holds a hash of node descriptions, a sorted set with the time of  *)
(* each node's last heartbeat, and a channel for notifications.  On a node *)
(* three coroutines use one connection: "main" (CMD.start, CMD.exit),      *)
(* "beat" (heartbeat_loop) and "note" (the handler of notifications).      *)
(* Each waits for at most one command; queue[n] has them in the order of   *)
(* their commands, which is the order in which Redis serves them.          *)
(*                                                                         *)
(* Times are ages: how long ago the clock was read that gave a score or    *)
(* the min_score of a search.  One unit of time is whatever the constants  *)
(* Interval and Timeout are given in.                                      *)
(***************************************************************************)
EXTENDS Integers, Sequences, FiniteSets

CONSTANTS
    Nodes,       \* names of the nodes
    Addrs,       \* addresses a node may be started with
    None,        \* nil
    Interval,    \* HEARTBEAT_INTERVAL
    Timeout,     \* NODE_TIMEOUT
    Skew,        \* how far each node's clock is ahead of the slowest one
    MaxLag,      \* bound: time from reading the clock to the last reply of the
                 \* commands that use what was read
    MaxStarts,   \* bound: process starts in one behaviour
    MaxFaults,   \* bound: faults in one behaviour
    FaultKinds   \* the faults that happen, see Kinds

Who == {"main", "beat", "note"}
Kinds == {"crash", "drop", "drop_sub", "deaf", "exit"}

ASSUME DiscoverAssumption ==
    /\ None \notin Int /\ None \notin Addrs
    /\ IsFiniteSet(Nodes)
    /\ Interval \in Nat \ {0} /\ Timeout \in Nat \ {0} /\ MaxLag \in Nat
    /\ Skew \in [Nodes -> Nat]
    /\ MaxStarts \in Nat /\ MaxFaults \in Nat
    /\ FaultKinds \subseteq Kinds

\* A heartbeat that is kept while replies take MaxLag: the age of a score can
\* reach a period plus the lag of the write before it, of the search in between
\* and of its own write.
LagAssumption ==
    \A m \in Nodes : Interval + 3 * MaxLag + Skew[m] < Timeout

VARIABLES
    info,     \* Redis hash nodes:info: the address each node registered
    hb,       \* Redis zset nodes:heartbeat: age of each score
    phase,    \* of each node's service: off, starting, up, exited
    addr,     \* cfg_cluster_addr of each running node
    view,     \* cluster_nodes of each node: address of each node it knows
    co,       \* the three coroutines of each node
    queue,    \* coroutines that wait for Redis, in the order of their commands
    lost,     \* redis_conn broke and its coroutines do not know yet
    closed,   \* CMD.exit disconnected redis_conn
    sub,      \* subscription: none, broken, on
    inbox,    \* notifications received and not yet handled
    missed,   \* history: the connection failed under the node's last heartbeat
              \* write, or under a CMD.exit, and no write succeeded since
    starts, faults

redisVars == <<info, hb>>
nodeVars == <<phase, addr, view, co, queue, lost, closed, sub, inbox, missed>>
vars == <<redisVars, nodeVars, starts, faults>>

(***************************************************************************)
(* Coroutines                                                              *)
(***************************************************************************)
NoNodes == [m \in Nodes |-> None]
Idle == [at |-> "idle", age |-> 0, force |-> FALSE, left |-> {}, got |-> NoNodes]
Asleep == [Idle EXCEPT !.at = "sleep"]
\* Sends a command, with the clock read now.
Send(label) == [Idle EXCEPT !.at = label]
\* update_cluster_nodes(force) up to its first command.
Search(force) == [Send("clean") EXCEPT !.force = force]

\* What each coroutine does after its last command.
Done(w) == IF w = "beat" THEN Asleep ELSE Idle

Commands == {"hset", "zadd", "publish", "offline", "zrem", "clean", "range", "hget"}

\* A score of node n that was computed age units ago.
Score(n, age) == age - Skew[n]
\* Mutant of Stale: measures with the heartbeat interval.
Stale_Interval(n, c, score) == score >= Interval + c.age - Skew[n]
\* Mutant of Stale: one unit of time too early.
Stale_Early(n, c, score) == score >= Timeout - 1 + c.age - Skew[n]
\* Older than min_score, which n computed when c was sent to search.
Stale(n, c, score) == score >= Timeout + c.age - Skew[n]
InRange(n, c, score) == score <= Timeout + c.age - Skew[n]

\* What Redis does for the command that coroutine w of n waits for.
Execute(n, w) ==
    /\ info' = IF co[n][w].at = "hset" THEN [info EXCEPT ![n] = addr[n]] ELSE info
    /\ hb' = CASE co[n][w].at = "zadd" -> [hb EXCEPT ![n] = Score(n, co[n][w].age)]
               [] co[n][w].at = "zrem" -> [hb EXCEPT ![n] = None]
               [] co[n][w].at = "clean" ->
                    [m \in Nodes |-> IF hb[m] # None /\ Stale(n, co[n][w], hb[m])
                                     THEN None ELSE hb[m]]
               [] OTHER -> hb
    /\ inbox' = IF co[n][w].at \in {"publish", "offline"}
                THEN [m \in Nodes |-> IF sub[m] = "on" THEN inbox[m] + 1 ELSE inbox[m]]
                ELSE inbox

\* Redis answers the first waiting command of n, sent by w at this label.
Answer(n, w, label) ==
    /\ ~lost[n]
    /\ queue[n] # <<>> /\ Head(queue[n]) = w
    /\ co[n][w].at = label
    /\ Execute(n, w)

\* w goes on as c: it sends another command, or waits for Redis no more.
GoOn(n, w, c) ==
    /\ co' = [co EXCEPT ![n][w] = c]
    /\ queue' = [queue EXCEPT ![n] =
                   IF c.at \in Commands THEN Append(Tail(@), w) ELSE Tail(@)]
Wake(n, w, c) ==
    /\ co' = [co EXCEPT ![n][w] = c]
    /\ queue' = [queue EXCEPT ![n] = Append(@, w)]

Known(nodes) == {m \in Nodes : nodes[m] # None}

(***************************************************************************)
(* CMD.start: register_node, then the other two coroutines                 *)
(***************************************************************************)
\* Mutant of Start: the description lacks the address.
Start_NoAddr(n, a) ==
    /\ phase[n] = "off" /\ starts < MaxStarts
    /\ starts' = starts + 1
    /\ phase' = [phase EXCEPT ![n] = "starting"]
    /\ closed' = [closed EXCEPT ![n] = FALSE]
    /\ Wake(n, "main", Send("hset"))
    /\ UNCHANGED <<redisVars, addr, view, lost, sub, inbox, missed, faults>>

\* Mutant of Start: the heartbeat is written before the description.
Start_HeartbeatFirst(n, a) ==
    /\ phase[n] = "off" /\ starts < MaxStarts
    /\ starts' = starts + 1
    /\ phase' = [phase EXCEPT ![n] = "starting"]
    /\ addr' = [addr EXCEPT ![n] = a]
    /\ closed' = [closed EXCEPT ![n] = FALSE]
    /\ Wake(n, "main", Send("zadd"))
    /\ UNCHANGED <<redisVars, view, lost, sub, inbox, missed, faults>>

Start(n, a) ==
    /\ phase[n] = "off" /\ starts < MaxStarts
    /\ starts' = starts + 1
    /\ phase' = [phase EXCEPT ![n] = "starting"]
    /\ addr' = [addr EXCEPT ![n] = a]
    /\ closed' = [closed EXCEPT ![n] = FALSE]
    /\ Wake(n, "main", Send("hset"))
    /\ UNCHANGED <<redisVars, view, lost, sub, inbox, missed, faults>>

RegisterInfo(n) ==
    /\ Answer(n, "main", "hset")
    /\ GoOn(n, "main", Send("zadd"))
    /\ UNCHANGED <<phase, addr, view, lost, closed, sub, missed, starts, faults>>

RegisterHeartbeat(n) ==
    /\ Answer(n, "main", "zadd")
    /\ GoOn(n, "main", [co[n]["main"] EXCEPT !.at = "publish"])
    /\ UNCHANGED <<phase, addr, view, lost, closed, sub, missed, starts, faults>>

\* The forks run when main has sent the first command of its own search.
RegisterNotify(n) ==
    /\ Answer(n, "main", "publish")
    /\ co' = [co EXCEPT ![n] = [@ EXCEPT !["main"] = Search(FALSE),
                                        !["beat"] = Send("zadd")]]
    /\ queue' = [queue EXCEPT ![n] = Tail(@) \o <<"main", "beat">>]
    /\ phase' = [phase EXCEPT ![n] = "up"]
    /\ sub' = [sub EXCEPT ![n] = "broken"]
    /\ missed' = [missed EXCEPT ![n] = FALSE]
    /\ UNCHANGED <<addr, view, lost, closed, starts, faults>>

(***************************************************************************)
(* update_cluster_nodes, in any of the three coroutines                    *)
(***************************************************************************)
UpdateClean(n, w) ==
    /\ Answer(n, w, "clean")
    /\ GoOn(n, w, [co[n][w] EXCEPT !.at = "range"])
    /\ UNCHANGED <<phase, addr, view, lost, closed, sub, missed, starts, faults>>

\* Mutant of Refresh: looks for new names only.
Refresh_NewOnly(n, c) ==
    view' = IF c.force \/ Known(c.got) \ Known(view[n]) # {}
            THEN [view EXCEPT ![n] = c.got] ELSE view

\* cluster_nodes is replaced when the names differ, or when forced.
Refresh(n, c) ==
    view' = IF c.force \/ Known(c.got) # Known(view[n])
            THEN [view EXCEPT ![n] = c.got] ELSE view

UpdateRange(n, w) ==
    /\ Answer(n, w, "range")
    /\ LET alive == {m \in Nodes : hb[m] # None /\ InRange(n, co[n][w], hb[m])}
       IN  IF alive # {}
           THEN /\ GoOn(n, w, [co[n][w] EXCEPT !.at = "hget", !.left = alive])
                /\ UNCHANGED view
           ELSE /\ GoOn(n, w, Done(w))
                /\ Refresh(n, co[n][w])
    /\ UNCHANGED <<phase, addr, lost, closed, sub, missed, starts, faults>>

\* One HGET for each name found (their order is by score, left open here).
UpdateHget(n, w) ==
    /\ Answer(n, w, "hget")
    /\ \E m \in co[n][w].left :
          LET c == [co[n][w] EXCEPT !.got = [@ EXCEPT ![m] = info[m]],
                                    !.left = @ \ {m}]
          IN  IF c.left # {}
              THEN GoOn(n, w, c) /\ UNCHANGED view
              ELSE GoOn(n, w, Done(w)) /\ Refresh(n, c)
    /\ UNCHANGED <<phase, addr, lost, closed, sub, missed, starts, faults>>

(***************************************************************************)
(* heartbeat_loop                                                          *)
(***************************************************************************)
BeatWake(n) ==
    /\ co[n]["beat"].at = "sleep" /\ co[n]["beat"].age >= Interval
    /\ ~closed[n]
    /\ Wake(n, "beat", Send("zadd"))
    /\ UNCHANGED <<redisVars, phase, addr, view, lost, closed, sub, inbox, missed, starts,
                   faults>>

\* After CMD.exit the write fails at once, and the loop connects again.
BeatReconnect(n) ==
    /\ co[n]["beat"].at = "sleep" /\ co[n]["beat"].age >= Interval
    /\ closed[n] /\ ~lost[n]
    /\ closed' = [closed EXCEPT ![n] = FALSE]
    /\ missed' = [missed EXCEPT ![n] = TRUE]
    /\ Wake(n, "beat", Search(FALSE))
    /\ UNCHANGED <<redisVars, phase, addr, view, lost, sub, inbox, starts, faults>>

BeatZadd(n) ==
    /\ Answer(n, "beat", "zadd")
    /\ missed' = [missed EXCEPT ![n] = FALSE]
    /\ GoOn(n, "beat", Search(FALSE))
    /\ UNCHANGED <<phase, addr, view, lost, closed, sub, starts, faults>>

(***************************************************************************)
(* subscribe_notifications                                                 *)
(***************************************************************************)
Subscribe(n) ==
    /\ sub[n] = "broken"
    /\ sub' = [sub EXCEPT ![n] = "on"]
    /\ UNCHANGED <<redisVars, phase, addr, view, co, queue, lost, closed, inbox, missed,
                   starts, faults>>

\* "online" and "offline" both force a refresh; the pcall of the loop drops
\* the message when the connection is closed.
HandleNotify(n) ==
    /\ inbox[n] > 0 /\ co[n]["note"].at = "idle"
    /\ inbox' = [inbox EXCEPT ![n] = @ - 1]
    /\ IF closed[n] THEN UNCHANGED <<co, queue>> ELSE Wake(n, "note", Search(TRUE))
    /\ UNCHANGED <<redisVars, phase, addr, view, lost, closed, sub, missed, starts, faults>>

(***************************************************************************)
(* CMD.exit, and faults                                                    *)
(***************************************************************************)
Fault(kind) ==
    /\ kind \in FaultKinds /\ faults < MaxFaults
    /\ faults' = faults + 1

Exit(n) ==
    /\ Fault("exit")
    /\ phase[n] = "up" /\ co[n]["main"].at = "idle"
    /\ Wake(n, "main", Send("offline"))
    /\ UNCHANGED <<redisVars, phase, addr, view, lost, closed, sub, inbox, missed, starts>>

ExitPublish(n) ==
    /\ Answer(n, "main", "offline")
    /\ GoOn(n, "main", Send("zrem"))
    /\ UNCHANGED <<phase, addr, view, lost, closed, sub, missed, starts, faults>>

\* redis_conn:disconnect(): whatever the other two wait for will fail.
ExitZrem(n) ==
    /\ Answer(n, "main", "zrem")
    /\ GoOn(n, "main", Idle)
    /\ phase' = [phase EXCEPT ![n] = "exited"]
    /\ lost' = [lost EXCEPT ![n] = TRUE] /\ closed' = [closed EXCEPT ![n] = TRUE]
    /\ UNCHANGED <<addr, view, sub, missed, starts, faults>>

DropConnection(n) ==
    /\ Fault("drop") /\ queue[n] # <<>> /\ ~lost[n]
    /\ lost' = [lost EXCEPT ![n] = TRUE]
    /\ UNCHANGED <<redisVars, phase, addr, view, co, queue, closed, sub, inbox, missed,
                   starts>>

\* A command that was sent still executes, its reply does not arrive.
ExecuteUnanswered(n) ==
    /\ lost[n] /\ queue[n] # <<>>
    /\ Execute(n, Head(queue[n]))
    /\ queue' = [queue EXCEPT ![n] = Tail(@)]
    /\ UNCHANGED <<phase, addr, view, co, lost, closed, sub, missed, starts, faults>>

\* All that waited for redis_conn fail.  A heartbeat write tries init_redis and
\* goes on to the search; a search is given up.  A CMD.start that has not forked
\* the other two fails for good.
FailAll(n) ==
    /\ lost[n] /\ lost' = [lost EXCEPT ![n] = FALSE]
    /\ \E connected \in BOOLEAN :
          LET beat == IF co[n]["beat"].at \notin Commands THEN co[n]["beat"]
                      ELSE IF co[n]["beat"].at = "zadd" /\ connected THEN Search(FALSE)
                      ELSE Asleep
          IN  /\ co' = [co EXCEPT ![n] =
                          [w \in Who |-> IF w = "beat" THEN beat ELSE Idle]]
              /\ queue' = [queue EXCEPT ![n] =
                             IF beat.at \in Commands THEN <<"beat">> ELSE <<>>]
              /\ closed' = [closed EXCEPT ![n] = @ /\ beat.at \notin Commands]
    /\ phase' = [phase EXCEPT ![n] = IF @ = "starting" THEN "off" ELSE @]
    /\ missed' = [missed EXCEPT ![n] =
                   @ \/ co[n]["beat"].at = "zadd" \/ co[n]["main"].at = "zrem"]
    /\ UNCHANGED <<redisVars, addr, view, sub, inbox, starts, faults>>

\* The subscription is lost, with the notifications on their way.
DropSubscription(n) ==
    /\ Fault("drop_sub") /\ sub[n] = "on"
    /\ sub' = [sub EXCEPT ![n] = "broken"]
    /\ inbox' = [inbox EXCEPT ![n] = 0]
    /\ UNCHANGED <<redisVars, phase, addr, view, co, queue, lost, closed, missed, starts>>

\* redis.watch or subscribe raises, outside the pcall of the loop: the coroutine
\* ends, and this process is notified of nothing any more.
SubscribeFails(n) ==
    /\ Fault("deaf") /\ sub[n] = "broken"
    /\ sub' = [sub EXCEPT ![n] = "none"]
    /\ UNCHANGED <<redisVars, phase, addr, view, co, queue, lost, closed, inbox, missed,
                   starts>>

Crash(n) ==
    /\ Fault("crash") /\ phase[n] # "off"
    /\ phase' = [phase EXCEPT ![n] = "off"]
    /\ view' = [view EXCEPT ![n] = NoNodes]
    /\ co' = [co EXCEPT ![n] = [w \in Who |-> Idle]]
    /\ queue' = [queue EXCEPT ![n] = <<>>]
    /\ sub' = [sub EXCEPT ![n] = "none"]
    /\ inbox' = [inbox EXCEPT ![n] = 0]
    /\ missed' = [missed EXCEPT ![n] = FALSE]
    /\ lost' = [lost EXCEPT ![n] = FALSE]
    /\ UNCHANGED <<redisVars, addr, closed, starts>>

(***************************************************************************)
(* Time                                                                    *)
(***************************************************************************)
\* Timers fire on time; a reply that used the clock comes within MaxLag.
\* Beyond MaxAge every score is stale for everyone.
MaxAge == Timeout + MaxLag + 1
Older(age) == IF age < MaxAge THEN age + 1 ELSE age
MayWait(c) == /\ c.at \in Commands => c.age < MaxLag
              /\ c.at = "sleep" => c.age < Interval

Tick ==
    /\ \A n \in Nodes, w \in Who : MayWait(co[n][w])
    /\ hb' = [m \in Nodes |-> IF hb[m] = None THEN None ELSE Older(hb[m])]
    /\ co' = [n \in Nodes |-> [w \in Who |->
                IF co[n][w].at = "idle" THEN co[n][w]
                ELSE [co[n][w] EXCEPT !.age = @ + 1]]]
    /\ UNCHANGED <<info, phase, addr, view, queue, lost, closed, sub, inbox, missed, starts,
                   faults>>
-----------------------------------------------------------------------------
Init ==
    /\ info = NoNodes /\ hb = NoNodes
    /\ phase = [n \in Nodes |-> "off"] /\ addr = NoNodes
    /\ view = [n \in Nodes |-> NoNodes]
    /\ co = [n \in Nodes |-> [w \in Who |-> Idle]]
    /\ queue = [n \in Nodes |-> <<>>]
    /\ lost = [n \in Nodes |-> FALSE] /\ closed = [n \in Nodes |-> FALSE]
    /\ sub = [n \in Nodes |-> "none"] /\ inbox = [n \in Nodes |-> 0]
    /\ missed = [n \in Nodes |-> FALSE]
    /\ starts = 0 /\ faults = 0

\* The reply to the command at the head of the queue of n.
Answered(n) ==
    \/ RegisterInfo(n) \/ RegisterHeartbeat(n) \/ RegisterNotify(n) \/ BeatZadd(n)
    \/ \E w \in Who : UpdateClean(n, w) \/ UpdateRange(n, w) \/ UpdateHget(n, w)
    \/ ExitPublish(n) \/ ExitZrem(n)

Timer(n) == BeatWake(n) \/ BeatReconnect(n)

Environment(n) ==
    \/ \E a \in Addrs : Start(n, a)
    \/ Exit(n) \/ DropConnection(n) \/ ExecuteUnanswered(n)
    \/ DropSubscription(n) \/ SubscribeFails(n) \/ Crash(n)

Next ==
    \/ Tick
    \/ \E n \in Nodes : Answered(n) \/ Timer(n) \/ Subscribe(n) \/ HandleNotify(n)
                           \/ FailAll(n) \/ Environment(n)

Spec == Init /\ [][Next]_vars

\* Redis answers, timers fire, the subscription comes back or fails for good, its
\* messages are handled, a lost connection is noticed.  The environment owes nothing.
Fairness ==
    /\ WF_vars(Tick)
    /\ \A n \in Nodes :
          /\ WF_vars(Answered(n)) /\ WF_vars(Timer(n)) /\ WF_vars(FailAll(n))
          /\ WF_vars(Subscribe(n)) /\ WF_vars(HandleNotify(n))
FairSpec == Spec /\ Fairness
-----------------------------------------------------------------------------
(***************************************************************************)
(* Properties                                                              *)
(***************************************************************************)
Labels == Commands \cup {"idle", "sleep"}
Books == [Nodes -> Addrs \cup {None}]
Coroutines == [at: Labels, age: Nat, force: BOOLEAN, left: SUBSET Nodes, got: Books]

\* The type invariant; a node that starts or runs has an address.
TypeOK ==
    /\ info \in Books
    /\ hb \in [Nodes -> Int \cup {None}]
    /\ phase \in [Nodes -> {"off", "starting", "up", "exited"}]
    /\ addr \in Books
    /\ \A n \in Nodes : phase[n] # "off" \/ co[n]["main"].at # "idle" => addr[n] # None
    /\ view \in [Nodes -> Books]
    /\ co \in [Nodes -> [Who -> Coroutines]]
    /\ queue \in [Nodes -> Seq(Who)]
    /\ lost \in [Nodes -> BOOLEAN] /\ closed \in [Nodes -> BOOLEAN]
    /\ sub \in [Nodes -> {"none", "broken", "on"}]
    /\ inbox \in [Nodes -> Nat]
    /\ missed \in [Nodes -> BOOLEAN]
    /\ starts \in Nat /\ faults \in Nat

\* A node that searches finds an address for every name in the heartbeat set:
\* register_node stores the description before the heartbeat, and no crash or
\* lost connection between the two shows a name without it.
ListedHasInfo == \A n \in Nodes : hb[n] # None => info[n] # None

\* No node purges a live one: while its heartbeat writes succeed, a node that
\* has registered stays in the heartbeat set, whatever the other nodes' clocks
\* and the order in which writes and purges reach Redis.
LiveNodeListed ==
    \A n \in Nodes :
       phase[n] = "up" /\ ~missed[n] /\ co[n]["main"].at # "zrem" => hb[n] # None

\* Once starts and faults are over, every node knows the names of exactly the
\* nodes whose heartbeat loop runs: it repairs what lost notifications, lost
\* connections and overlapping searches did to cluster_nodes.
Beating(n) == phase[n] \in {"up", "exited"}
NamesConverge ==
    <>[](\A n, m \in Nodes : Beating(n) => (view[n][m] # None <=> Beating(m)))

\* ... and the address under which each of them registered last.
AddressesConverge ==
    <>[](\A n, m \in Nodes :
           phase[n] = "up" /\ phase[m] = "up" => view[n][m] = addr[m])

=============================================================================
