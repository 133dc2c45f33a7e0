--------------------------- MODULE EtcdDiscover ----------------------------
(***************************************************************************)
(* Service discovery over etcd, service/etcd_discover.lua on top of        *)
(* lualib/etcd_util.lua, as run by every node of the cluster.              *)
(*                                                                         *)
(* etcd holds one key for each node, attached to a lease that the node's   *)
(* process was granted and keeps alive.  A process registers, reads all    *)
(* keys, and then opens a watch that tells it of every change from there   *)
(* on.  etcd is external: a lease, a key, an event for each change.        *)
(***************************************************************************)
EXTENDS Integers, Sequences

CONSTANTS
    Nodes,       \* names of the nodes
    Addrs,       \* addresses a node may be started with
    NoAddr,      \* nil
    TTL,         \* of a lease: grant(10)
    Interval,    \* between two keepalives: sleep(500)
    MaxLag,      \* bound: what requests and replies add to that
    MaxStarts,   \* bound: process starts in one behaviour
    MaxFaults    \* bound: crashes, failed requests and streams that end

\* A lease outlives the way from its grant to the first keepalive.
ASSUME EtcdAssumption ==
    /\ NoAddr \notin Addrs
    /\ TTL \in Nat /\ Interval \in Nat \ {0} /\ MaxLag \in Nat
    /\ MaxStarts \in Nat /\ MaxFaults \in Nat
    /\ Interval + 2 * MaxLag < TTL

VARIABLES
    key,         \* in etcd: the address under each name
    left,        \* time left to the lease of this key, or NoLease
    proc,        \* the process of each node
    config,      \* cluster_config of each node
    inbox,       \* events on their way through each node's watch
    starts, faults

etcdVars == <<key, left, proc, config, inbox, starts, faults>>

NoOne == [m \in Nodes |-> NoAddr]

\* A key that is attached to no lease stays until somebody deletes it.
NoLease == -1

\* phase: the request that CMD.start waits for, or what became of the watch;
\* lease: time left to the lease of this process, 0 if it has none; own: its key
\* is attached to it; beat: time since its last renewal or its grant; prompt: no keepalive was
\* lost; missed: a change came between what it read and its watch.
Off == [phase |-> "off", addr |-> NoAddr, lease |-> 0, own |-> FALSE, beat |-> 0,
        prompt |-> TRUE, missed |-> FALSE]

EtcdInit ==
    /\ key = NoOne
    /\ left = [n \in Nodes |-> 0]
    /\ proc = [n \in Nodes |-> Off]
    /\ config = [n \in Nodes |-> NoOne]
    /\ inbox = [n \in Nodes |-> <<>>]
    /\ starts = 0 /\ faults = 0

Fault == faults < MaxFaults /\ faults' = faults + 1

\* Whether p has read the keys and has no open watch.
Blind(p) == p.phase = "open"

\* Name n changes to address a: whoever watches is told, whoever has read and
\* does not watch yet is not.
Tell(n, a) ==
    inbox' = [m \in Nodes |-> IF proc[m].phase = "watching"
                              THEN Append(inbox[m], [name |-> n, addr |-> a])
                              ELSE inbox[m]]

\* The processes p after a change that those who are blind miss.
Missing(p) == [m \in Nodes |-> [p[m] EXCEPT !.missed = @ \/ Blind(p[m])]]

\* CMD.start: the own address is in cluster_config before anything else.
Start(n, a) ==
    /\ proc[n].phase = "off" /\ starts < MaxStarts
    /\ starts' = starts + 1
    /\ proc' = [proc EXCEPT ![n] = [Off EXCEPT !.phase = "grant", !.addr = a]]
    /\ config' = [config EXCEPT ![n] = [NoOne EXCEPT ![n] = a]]
    /\ UNCHANGED <<key, left, inbox, faults>>

Grant(n) ==
    /\ proc[n].phase = "grant"
    /\ proc' = [proc EXCEPT ![n] = [@ EXCEPT !.phase = "set", !.lease = TTL]]
    /\ UNCHANGED <<key, left, config, inbox, starts, faults>>

\* No answer: res is nil, and res.body an error that ends CMD.start.
GrantFails(n) ==
    /\ proc[n].phase = "grant" /\ Fault
    /\ proc' = [proc EXCEPT ![n].phase = "failed"]
    /\ UNCHANGED <<key, left, config, inbox, starts>>

\* An answer that refuses the lease (4xx): res.body has no ID, lease_id is nil
\* and register_node goes on without a lease, the renewals to no effect.
GrantRefused(n) ==
    /\ proc[n].phase = "grant" /\ Fault
    /\ proc' = [proc EXCEPT ![n].phase = "set"]
    /\ UNCHANGED <<key, left, config, inbox, starts>>

\* The key moves to the new lease: when the one of an earlier process expires
\* it stays.
Set(n) ==
    LET leased == proc[n].lease > 0
    IN /\ proc[n].phase = "set"
       /\ key' = [key EXCEPT ![n] = proc[n].addr]
       /\ left' = [left EXCEPT ![n] = IF leased THEN proc[n].lease ELSE NoLease]
       /\ proc' = Missing([proc EXCEPT ![n] =
                              [@ EXCEPT !.phase = "read", !.own = leased, !.beat = 0]])
       /\ Tell(n, proc[n].addr)
       /\ UNCHANGED <<config, starts, faults>>

\* register_node gives the lease back and nobody looks at what it returns.  An
\* answer that refuses the key (4xx) is taken for success: the loop then renews
\* a lease that no key is attached to.
SetFails(n) ==
    /\ proc[n].phase = "set" /\ Fault
    /\ proc' = [proc EXCEPT ![n] = [@ EXCEPT !.phase = "read", !.lease = 0, !.beat = 0]]
    /\ UNCHANGED <<key, left, config, inbox, starts>>

\* node_join for every name of k.
Joined(c, k) == [m \in Nodes |-> IF k[m] # NoAddr THEN k[m] ELSE c[m]]

\* get_nodes and the first callback.
Read(n) ==
    /\ proc[n].phase = "read"
    /\ config' = [config EXCEPT ![n] = Joined(@, key)]
    /\ proc' = [proc EXCEPT ![n].phase = "open"]
    /\ UNCHANGED <<key, left, inbox, starts, faults>>

\* get_nodes takes no answer for no nodes.
ReadFails(n) ==
    /\ proc[n].phase = "read" /\ Fault
    /\ proc' = [proc EXCEPT ![n] = [@ EXCEPT !.phase = "open", !.missed = TRUE]]
    /\ UNCHANGED <<key, left, config, inbox, starts>>

\* watchdir without a revision: events from now on.
OpenWatch(n) ==
    /\ proc[n].phase = "open"
    /\ proc' = [proc EXCEPT ![n].phase = "watching"]
    /\ UNCHANGED <<key, left, config, inbox, starts, faults>>

\* watch_nodes returns from its coroutine and never watches again.
OpenFails(n) ==
    /\ proc[n].phase = "open" /\ Fault
    /\ proc' = [proc EXCEPT ![n].phase = "deaf"]
    /\ UNCHANGED <<key, left, config, inbox, starts>>

\* The stream ends with what was in it; the loop opens a new one.
StreamEnds(n) ==
    /\ proc[n].phase = "watching" /\ Fault
    /\ proc' = [proc EXCEPT ![n] =
                  [@ EXCEPT !.phase = "open",
                            !.missed = proc[n].missed \/ inbox[n] # <<>>]]
    /\ inbox' = [inbox EXCEPT ![n] = <<>>]
    /\ UNCHANGED <<key, left, config, starts>>

\* changes: the last event of each name counts.
IsLast(events, m, i) ==
    /\ i \in DOMAIN events /\ events[i].name = m
    /\ \A j \in DOMAIN events : events[j].name = m => j <= i

\* Mutant of Applied: a name that left stays.
Applied_KeepLeft(c, events) ==
    [m \in Nodes |-> IF \E i \in DOMAIN events :
                           IsLast(events, m, i) /\ events[i].addr # NoAddr
                     THEN events[CHOOSE i \in DOMAIN events : IsLast(events, m, i)].addr
                     ELSE c[m]]

Applied(c, events) ==
    [m \in Nodes |-> IF \E i \in DOMAIN events : IsLast(events, m, i)
                     THEN events[CHOOSE i \in DOMAIN events : IsLast(events, m, i)].addr
                     ELSE c[m]]

\* One message of the watch with the first k events.  reload_cluster raises an
\* error where the own name has left, which ends the coroutine that watches.
Notified(n, k) ==
    LET c == Applied(config[n], SubSeq(inbox[n], 1, k))
    IN /\ proc[n].phase = "watching" /\ k \in 1 .. Len(inbox[n])
       /\ config' = [config EXCEPT ![n] = c]
       /\ proc' = [proc EXCEPT ![n].phase = IF c[n] = NoAddr THEN "deaf" ELSE @]
       /\ inbox' = [inbox EXCEPT ![n] = IF c[n] = NoAddr THEN <<>>
                                        ELSE SubSeq(@, k + 1, Len(@))]
       /\ UNCHANGED <<key, left, starts, faults>>

\* Mutant of Keeps: the keepalive ends with the watch.
Keeps_Watching(p) == p.own /\ p.phase = "watching"

\* The loop that register_node forks runs whatever becomes of the watch.
Keeps(p) == p.own /\ p.phase # "off"

\* etcd renews a lease that has not run out, and answers in any case.
Keepalive(n) ==
    /\ Keeps(proc[n]) /\ proc[n].beat >= Interval
    /\ LET renewed == IF proc[n].lease > 0 THEN TTL ELSE 0
       IN /\ proc' = [proc EXCEPT ![n] = [@ EXCEPT !.beat = 0, !.lease = renewed]]
          /\ left' = [left EXCEPT ![n] = renewed]
    /\ UNCHANGED <<key, config, inbox, starts, faults>>

\* The loop does not look at the answer: it sleeps before it tries again.
KeepaliveFails(n) ==
    /\ Keeps(proc[n]) /\ proc[n].beat >= Interval /\ Fault
    /\ proc' = [proc EXCEPT ![n] = [@ EXCEPT !.beat = 0, !.prompt = FALSE]]
    /\ UNCHANGED <<key, left, config, inbox, starts>>

\* etcd drops a lease that has run out, with its key.
Expire(n) ==
    /\ key[n] # NoAddr /\ left[n] = 0
    /\ key' = [key EXCEPT ![n] = NoAddr]
    /\ proc' = Missing(proc)
    /\ Tell(n, NoAddr)
    /\ UNCHANGED <<left, config, starts, faults>>

Crash(n) ==
    /\ proc[n].phase # "off" /\ Fault
    /\ proc' = [proc EXCEPT ![n] = Off]
    /\ config' = [config EXCEPT ![n] = NoOne]
    /\ inbox' = [inbox EXCEPT ![n] = <<>>]
    /\ UNCHANGED <<key, left, starts>>

\* The longest a process may be from its grant to Set, or from one renewal to
\* the next keepalive.
Due(p) == IF p.phase = "set" THEN MaxLag ELSE Interval + MaxLag

\* Time passes: not past the moment a request is answered.
Tick ==
    /\ \E n \in Nodes : proc[n].lease > 0 \/ left[n] > 0
    /\ \A n \in Nodes : proc[n].phase = "set" \/ Keeps(proc[n])
                            => proc[n].beat < Due(proc[n])
    /\ left' = [n \in Nodes |-> IF left[n] > 0 THEN left[n] - 1 ELSE left[n]]
    /\ proc' = [n \in Nodes |->
                   IF proc[n].phase = "set" \/ Keeps(proc[n])
                   THEN [proc[n] EXCEPT !.beat = @ + 1,
                                        !.lease = IF @ > 0 THEN @ - 1 ELSE 0]
                   ELSE proc[n]]
    /\ UNCHANGED <<key, config, inbox, starts, faults>>

EtcdNext ==
    \/ Tick
    \/ \E n \in Nodes :
          \/ \E a \in Addrs : Start(n, a)
          \/ Grant(n) \/ GrantFails(n) \/ GrantRefused(n) \/ Set(n) \/ SetFails(n)
          \/ Read(n) \/ ReadFails(n) \/ OpenWatch(n) \/ OpenFails(n)
          \/ StreamEnds(n) \/ \E k \in DOMAIN inbox[n] : Notified(n, k)
          \/ Keepalive(n) \/ KeepaliveFails(n) \/ Expire(n) \/ Crash(n)

EtcdSpec == EtcdInit /\ [][EtcdNext]_etcdVars

-----------------------------------------------------------------------------

\* Who keeps its lease alive in time is in etcd under its present address, even
\* after a crash whose key was about to expire, and never told that it left:
\* the error that this raises in reload_cluster would end its watch.
LeaseKept ==
    \A n \in Nodes : proc[n].own /\ proc[n].prompt =>
        /\ key[n] = proc[n].addr
        /\ config[n][n] = proc[n].addr

\* Who watches and has missed nothing knows, once it has handled what is on its
\* way, exactly what etcd has of the others, at their present addresses.
ViewFollows ==
    \A n \in Nodes : \A m \in Nodes \ {n} :
        proc[n].phase = "watching" /\ ~proc[n].missed
            => Applied(config[n], inbox[n])[m] = key[m]

=============================================================================
