------------------------ MODULE RedisDiscoverProofs ------------------------
(***************************************************************************)
(* Proofs about RedisDiscover, for any cluster, any clocks and any bounds: *)
(* its types, that no listed node lacks a description, and, if replies are *)
(* not too slow, that no node purges a live one.                           *)
(***************************************************************************)
EXTENDS RedisDiscover, TLAPS

Main(n) == co[n]["main"]
Beat(n) == co[n]["beat"]

(***************************************************************************)
(* The inductive invariants                                                *)
(***************************************************************************)
\* A node writes its description before anything that follows it, and nothing
\* deletes a description.
Described(n) ==
    /\ \A w \in Who : co[n][w].at = "hset" => addr[n] # None
    /\ \A w \in Who : co[n][w].at \in {"zadd", "publish"} => info[n] # None
    /\ Beat(n).at # "idle" => info[n] # None
    /\ hb[n] # None => info[n] # None
InfoInv == \A n \in Nodes : Described(n)

\* Which coroutine sends which of the commands that write the heartbeat set,
\* and when.
Roles(n) ==
    /\ \A w \in Who : co[n][w].at \in {"hset", "publish", "zrem"} => w = "main"
    /\ co[n]["note"].at # "zadd"
    /\ Main(n).at \in {"hset", "zadd", "publish"} => phase[n] = "starting"
    /\ phase[n] \in {"off", "starting"} => Beat(n).at = "idle"

\* What the timers and MaxLag bound.
InTime(n) ==
    /\ \A w \in Who : co[n][w].at \in Commands => co[n][w].age <= MaxLag
    /\ Beat(n).at = "sleep" => Beat(n).age <= Interval

\* How old the heartbeat of a live node can be, at each point of its loop.
Fresh(n) ==
    /\ Main(n).at = "publish" => hb[n] # None /\ hb[n] <= Main(n).age
    /\ phase[n] = "up" /\ ~missed[n] /\ Main(n).at # "zrem" =>
          /\ hb[n] # None
          /\ Beat(n).at = "zadd" => hb[n] <= Interval + 2 * MaxLag + Beat(n).age
          /\ Beat(n).at \in {"clean", "range", "hget"} => hb[n] <= MaxLag + Beat(n).age
          /\ Beat(n).at = "sleep" => hb[n] <= 2 * MaxLag + Beat(n).age
          /\ Beat(n).at \in {"zadd", "clean", "range", "hget", "sleep"}

Live(n) == Roles(n) /\ InTime(n) /\ Fresh(n)
LiveInv == \A n \in Nodes : Live(n)

\* The nodes whose heartbeat must not be purged.
Listed(n) ==
    \/ Main(n).at = "publish"
    \/ phase[n] = "up" /\ ~missed[n] /\ Main(n).at # "zrem"

(***************************************************************************)
(* Types                                                                   *)
(***************************************************************************)
\* The states that a coroutine is set to.
LEMMA CoroutineTypes ==
    /\ Idle \in Coroutines /\ Asleep \in Coroutines
    /\ \A label \in Labels : Send(label) \in Coroutines
    /\ \A force \in BOOLEAN : Search(force) \in Coroutines
    /\ \A w \in Who : Done(w) \in Coroutines
<1>1. NoNodes \in Books
  BY DEF NoNodes, Books
<1>2. \A label \in Labels : Send(label) \in Coroutines
  BY <1>1 DEF Send, Idle, Coroutines
<1>3. \A force \in BOOLEAN : Search(force) \in Coroutines
  BY <1>1 DEF Search, Send, Idle, Coroutines, Labels, Commands
<1>4. Idle \in Coroutines /\ Asleep \in Coroutines
  BY <1>1 DEF Asleep, Idle, Coroutines, Labels
<1> QED BY <1>2, <1>3, <1>4 DEF Done

\* A coroutine that goes on with other values in some of its fields.
LEMMA ChangeType ==
  ASSUME NEW c \in Coroutines
  PROVE  /\ \A label \in Labels : [c EXCEPT !.at = label] \in Coroutines
         /\ \A left \in SUBSET Nodes :
               [c EXCEPT !.at = "hget", !.left = left] \in Coroutines
         /\ \A got \in Books, left \in SUBSET Nodes :
               [c EXCEPT !.got = got, !.left = left] \in Coroutines
         /\ \A age \in Nat : [c EXCEPT !.age = age] \in Coroutines
<1> DEFINE Flags == BOOLEAN
<1>1. Coroutines = [at: Labels, age: Nat, force: Flags, left: SUBSET Nodes, got: Books]
  BY DEF Coroutines
<1>2. "hget" \in Labels
  BY DEF Labels, Commands
<1> HIDE DEF Flags
<1> QED BY <1>1, <1>2

\* A command leaves the description, the heartbeats and the inboxes typed.
LEMMA ExecuteType ==
  ASSUME TypeOK, NEW n \in Nodes, NEW w \in Who, Execute(n, w)
  PROVE  /\ info' \in Books
         /\ hb' \in [Nodes -> Int \cup {None}]
         /\ inbox' \in [Nodes -> Nat]
<1>1. co[n][w] \in Coroutines /\ co[n][w].age \in Nat
  BY DEF TypeOK, Coroutines
<1>2. info' \in Books
  BY DEF Execute, TypeOK, Books
<1>3. \A a \in Nat : Score(n, a) \in Int
  BY DiscoverAssumption DEF Score
<1>4. hb' \in [Nodes -> Int \cup {None}]
  <2>1. CASE co[n][w].at = "zadd"
    BY <1>1, <1>3, <2>1 DEF Execute, TypeOK
  <2>2. CASE co[n][w].at = "zrem"
    BY <2>2 DEF Execute, TypeOK
  <2>3. CASE co[n][w].at = "clean"
    BY <2>3 DEF Execute, TypeOK
  <2>4. CASE co[n][w].at \notin {"zadd", "zrem", "clean"}
    BY <2>4 DEF Execute, TypeOK
  <2> QED BY <2>1, <2>2, <2>3, <2>4
<1>5. inbox' \in [Nodes -> Nat]
  BY DEF Execute, TypeOK
<1> QED BY <1>2, <1>4, <1>5

\* Setting one coroutine.
LEMMA SetType ==
  ASSUME TypeOK, NEW n \in Nodes, NEW w \in Who, NEW c \in Coroutines
  PROVE  [co EXCEPT ![n][w] = c] \in [Nodes -> [Who -> Coroutines]]
BY DEF TypeOK

LEMMA GoOnType ==
  ASSUME TypeOK, NEW n \in Nodes, NEW w \in Who, NEW c \in Coroutines,
         queue[n] # <<>>, GoOn(n, w, c)
  PROVE  co' \in [Nodes -> [Who -> Coroutines]] /\ queue' \in [Nodes -> Seq(Who)]
<1>1. Tail(queue[n]) \in Seq(Who) /\ Append(Tail(queue[n]), w) \in Seq(Who)
  BY DEF TypeOK
<1> QED BY <1>1, SetType DEF GoOn, TypeOK

LEMMA WakeType ==
  ASSUME TypeOK, NEW n \in Nodes, NEW w \in Who, NEW c \in Coroutines, Wake(n, w, c)
  PROVE  co' \in [Nodes -> [Who -> Coroutines]] /\ queue' \in [Nodes -> Seq(Who)]
<1>1. Append(queue[n], w) \in Seq(Who)
  BY DEF TypeOK
<1> QED BY <1>1, SetType DEF Wake, TypeOK

\* A node that starts or runs has an address.
Addressed == \A n \in Nodes : phase[n] # "off" \/ Main(n).at # "idle" => addr[n] # None

LEMMA StaysAddressed ==
  ASSUME TypeOK, NEW n \in Nodes, NEW w \in Who, NEW c,
         phase[n] # "off" \/ co[n][w].at # "idle" \/ w # "main",
         co' = [co EXCEPT ![n][w] = c], UNCHANGED <<phase, addr>>
  PROVE  Addressed'
<1> SUFFICES ASSUME NEW m \in Nodes, (phase[m] # "off" \/ Main(m).at # "idle")'
             PROVE  addr[m] # None
  BY DEF Addressed
<1>1. CASE m = n /\ w = "main"
  BY <1>1 DEF TypeOK
<1>2. CASE m # n \/ w # "main"
  <2>1. co'[m]["main"] = co[m]["main"]
    BY <1>2 DEF TypeOK, Who
  <2> QED BY <2>1 DEF TypeOK, Main
<1> QED BY <1>1, <1>2

\* A reply after which its coroutine goes on as c.
LEMMA AnsweredType ==
  ASSUME TypeOK, NEW n \in Nodes, NEW w \in Who, NEW c \in Coroutines,
         NEW label \in Commands, Answer(n, w, label), GoOn(n, w, c),
         UNCHANGED <<phase, addr, lost, closed, sub, starts, faults>>,
         view' \in [Nodes -> Books], missed' \in [Nodes -> BOOLEAN]
  PROVE  TypeOK'
<1>1. co' \in [Nodes -> [Who -> Coroutines]] /\ queue' \in [Nodes -> Seq(Who)]
  BY GoOnType DEF Answer
<1>2. Addressed'
  BY StaysAddressed DEF Answer, GoOn, Commands
<1> QED BY <1>1, <1>2, ExecuteType DEF Answer, TypeOK, Addressed, Main

\* A coroutine that sends a command, nothing else.
LEMMA WokenType ==
  ASSUME TypeOK, NEW n \in Nodes, NEW w \in Who, NEW c \in Coroutines, Wake(n, w, c),
         phase[n] # "off" \/ w # "main",
         UNCHANGED <<redisVars, phase, addr, view, lost, sub, starts>>,
         inbox' \in [Nodes -> Nat], faults' \in Nat,
         missed' \in [Nodes -> BOOLEAN], closed' \in [Nodes -> BOOLEAN]
  PROVE  TypeOK'
<1>1. co' \in [Nodes -> [Who -> Coroutines]] /\ queue' \in [Nodes -> Seq(Who)]
  BY WakeType
<1>2. Addressed'
  BY StaysAddressed DEF Wake
<1> QED BY <1>1, <1>2 DEF TypeOK, redisVars, Addressed, Main

LEMMA StartType ==
  ASSUME TypeOK, NEW n \in Nodes, NEW a \in Addrs, Start(n, a)
  PROVE  TypeOK'
<1>1. Send("hset") \in Coroutines /\ "main" \in Who
  BY CoroutineTypes DEF Labels, Commands, Who
<1>2. co' \in [Nodes -> [Who -> Coroutines]] /\ queue' \in [Nodes -> Seq(Who)]
  BY <1>1, WakeType DEF Start
<1>3. phase' \in [Nodes -> {"off", "starting", "up", "exited"}] /\ addr' \in Books
  BY DEF TypeOK, Start, Books
<1>4. Addressed'
  <2> SUFFICES ASSUME NEW m \in Nodes, (phase[m] # "off" \/ Main(m).at # "idle")'
               PROVE  addr'[m] # None
    BY DEF Addressed
  <2>1. CASE m = n
    BY <2>1, DiscoverAssumption DEF TypeOK, Start, Books
  <2>2. CASE m # n
    <3>1. co'[m] = co[m] /\ phase'[m] = phase[m] /\ addr'[m] = addr[m]
      BY <2>2 DEF TypeOK, Start, Wake, Books
    <3> QED BY <3>1 DEF TypeOK, Main
  <2> QED BY <2>1, <2>2
<1>5. closed' \in [Nodes -> BOOLEAN]
  BY DEF TypeOK, Start
<1> QED BY <1>2, <1>3, <1>4, <1>5 DEF TypeOK, Start, redisVars, Addressed, Main

LEMMA RegisterType ==
  ASSUME TypeOK, NEW n \in Nodes, RegisterInfo(n) \/ RegisterHeartbeat(n)
  PROVE  TypeOK'
<1>1. "main" \in Who /\ {"hset", "zadd", "publish"} \subseteq Commands
  BY DEF Who, Commands
<1>2. view \in [Nodes -> Books] /\ missed \in [Nodes -> BOOLEAN]
  BY DEF TypeOK
<1>3. CASE RegisterInfo(n)
  <2>1. Send("zadd") \in Coroutines
    BY CoroutineTypes DEF Labels, Commands
  <2> QED BY <1>1, <1>2, <1>3, <2>1, AnsweredType DEF RegisterInfo
<1>4. CASE RegisterHeartbeat(n)
  <2>1. [co[n]["main"] EXCEPT !.at = "publish"] \in Coroutines
    <3>1. co[n]["main"] \in Coroutines /\ "publish" \in Labels
      BY <1>1 DEF TypeOK, Labels
    <3> QED BY <3>1, ChangeType
  <2> QED BY <1>1, <1>2, <1>4, <2>1, AnsweredType DEF RegisterHeartbeat
<1> QED BY <1>3, <1>4

LEMMA RegisterNotifyType ==
  ASSUME TypeOK, NEW n \in Nodes, RegisterNotify(n)
  PROVE  TypeOK'
<1>1. "main" \in Who /\ "beat" \in Who
  BY DEF Who
<1>2. Search(FALSE) \in Coroutines /\ Send("zadd") \in Coroutines
  BY CoroutineTypes DEF Labels, Commands
<1>3. co' \in [Nodes -> [Who -> Coroutines]]
  BY <1>1, <1>2 DEF RegisterNotify, TypeOK
<1>4. Tail(queue[n]) \o <<"main", "beat">> \in Seq(Who)
  <2>1. Tail(queue[n]) \in Seq(Who)
    BY DEF RegisterNotify, Answer, TypeOK
  <2>2. <<"main", "beat">> \in Seq(Who)
    BY <1>1
  <2> QED BY <2>1, <2>2
<1>5. queue' \in [Nodes -> Seq(Who)]
  BY <1>4 DEF RegisterNotify, TypeOK
<1>6. /\ info' \in Books
      /\ hb' \in [Nodes -> Int \cup {None}]
      /\ inbox' \in [Nodes -> Nat]
  BY <1>1, ExecuteType DEF RegisterNotify, Answer
<1>7. addr[n] # None
  BY DEF RegisterNotify, Answer, TypeOK
<1>8. /\ phase' \in [Nodes -> {"off", "starting", "up", "exited"}]
      /\ sub' \in [Nodes -> {"none", "broken", "on"}]
      /\ missed' \in [Nodes -> BOOLEAN]
  BY DEF RegisterNotify, TypeOK
<1>9. Addressed'
  <2> SUFFICES ASSUME NEW m \in Nodes, (phase[m] # "off" \/ Main(m).at # "idle")'
               PROVE  addr[m] # None
    BY DEF Addressed, RegisterNotify
  <2> QED BY <1>7 DEF RegisterNotify, TypeOK, Main
<1> QED BY <1>3, <1>5, <1>6, <1>8, <1>9 DEF RegisterNotify, TypeOK, Addressed, Main

LEMMA RefreshType ==
  ASSUME TypeOK, NEW n \in Nodes, NEW c \in Coroutines, Refresh(n, c)
  PROVE  view' \in [Nodes -> Books]
BY DEF TypeOK, Refresh, Coroutines

LEMMA UpdateCleanType ==
  ASSUME TypeOK, NEW n \in Nodes, NEW w \in Who, UpdateClean(n, w)
  PROVE  TypeOK'
<1>1. co[n][w] \in Coroutines /\ "range" \in Labels /\ "clean" \in Commands
  BY DEF TypeOK, Labels, Commands
<1>2. [co[n][w] EXCEPT !.at = "range"] \in Coroutines
  BY <1>1, ChangeType
<1>3. view \in [Nodes -> Books] /\ missed \in [Nodes -> BOOLEAN]
  BY DEF TypeOK
<1> QED BY <1>1, <1>2, <1>3, AnsweredType DEF UpdateClean

LEMMA UpdateRangeType ==
  ASSUME TypeOK, NEW n \in Nodes, NEW w \in Who, UpdateRange(n, w)
  PROVE  TypeOK'
<1> DEFINE alive == {m \in Nodes : hb[m] # None /\ InRange(n, co[n][w], hb[m])}
           c == [co[n][w] EXCEPT !.at = "hget", !.left = alive]
<1>1. co[n][w] \in Coroutines /\ "range" \in Commands /\ alive \in SUBSET Nodes
  BY DEF TypeOK, Commands
<1>2. c \in Coroutines
  BY <1>1, ChangeType
<1>3. missed \in [Nodes -> BOOLEAN] /\ view \in [Nodes -> Books]
  BY DEF TypeOK
<1>4. CASE alive # {}
  <2>1. GoOn(n, w, c) /\ UNCHANGED view
    BY <1>4 DEF UpdateRange
  <2> HIDE DEF c, alive
  <2> QED BY <1>1, <1>2, <1>3, <2>1, AnsweredType DEF UpdateRange
<1>5. CASE alive = {}
  <2>1. GoOn(n, w, Done(w)) /\ Refresh(n, co[n][w])
    BY <1>5 DEF UpdateRange
  <2>2. view' \in [Nodes -> Books]
    BY <1>1, <2>1, RefreshType
  <2>3. Done(w) \in Coroutines
    BY CoroutineTypes
  <2> HIDE DEF c, alive
  <2> QED BY <1>1, <1>3, <2>1, <2>2, <2>3, AnsweredType DEF UpdateRange
<1> QED BY <1>4, <1>5

LEMMA UpdateHgetType ==
  ASSUME TypeOK, NEW n \in Nodes, NEW w \in Who, UpdateHget(n, w)
  PROVE  TypeOK'
<1>1. co[n][w] \in Coroutines /\ "hget" \in Commands
  BY DEF TypeOK, Commands
<1>2. missed \in [Nodes -> BOOLEAN] /\ view \in [Nodes -> Books]
  BY DEF TypeOK
<1>3. PICK m \in co[n][w].left :
         LET c == [co[n][w] EXCEPT !.got = [@ EXCEPT ![m] = info[m]],
                                   !.left = @ \ {m}]
         IN  IF c.left # {}
             THEN GoOn(n, w, c) /\ UNCHANGED view
             ELSE GoOn(n, w, Done(w)) /\ Refresh(n, c)
  BY DEF UpdateHget
<1> DEFINE got == [co[n][w].got EXCEPT ![m] = info[m]]
           left == co[n][w].left \ {m}
           c == [co[n][w] EXCEPT !.got = got, !.left = left]
<1>4. got \in Books /\ left \in SUBSET Nodes
  BY <1>1 DEF Coroutines, Books, TypeOK
<1>5. c \in Coroutines
  BY <1>1, <1>4, ChangeType
<1>6. \/ GoOn(n, w, c) /\ UNCHANGED view
      \/ GoOn(n, w, Done(w)) /\ Refresh(n, c)
  BY <1>3
<1>7. Done(w) \in Coroutines
  BY CoroutineTypes
<1> HIDE DEF c
<1>8. view' \in [Nodes -> Books]
  BY <1>2, <1>5, <1>6, RefreshType
<1> QED BY <1>1, <1>2, <1>5, <1>6, <1>7, <1>8, AnsweredType DEF UpdateHget

LEMMA TimerType ==
  ASSUME TypeOK, NEW n \in Nodes, Timer(n)
  PROVE  TypeOK'
<1>1. /\ "beat" \in Who
      /\ Send("zadd") \in Coroutines /\ Search(FALSE) \in Coroutines
  BY CoroutineTypes DEF Who, Labels, Commands
<1>2. CASE BeatWake(n)
  BY <1>1, <1>2, WokenType DEF BeatWake, TypeOK
<1>3. CASE BeatReconnect(n)
  BY <1>1, <1>3, WokenType DEF BeatReconnect, TypeOK
<1> QED BY <1>2, <1>3 DEF Timer

LEMMA BeatZaddType ==
  ASSUME TypeOK, NEW n \in Nodes, BeatZadd(n)
  PROVE  TypeOK'
<1>1. "beat" \in Who /\ "zadd" \in Commands /\ Search(FALSE) \in Coroutines
  BY CoroutineTypes DEF Who, Commands
<1>2. view' \in [Nodes -> Books] /\ missed' \in [Nodes -> BOOLEAN]
  BY DEF BeatZadd, TypeOK
<1> QED BY <1>1, <1>2, AnsweredType DEF BeatZadd

LEMMA NotificationType ==
  ASSUME TypeOK, NEW n \in Nodes,
         Subscribe(n) \/ HandleNotify(n) \/ DropSubscription(n) \/ SubscribeFails(n)
  PROVE  TypeOK'
<1>1. CASE Subscribe(n)
  BY <1>1 DEF Subscribe, TypeOK, redisVars
<1>2. CASE HandleNotify(n)
  <2>1. "note" \in Who /\ "note" # "main" /\ Search(TRUE) \in Coroutines
    BY CoroutineTypes DEF Who
  <2>2. inbox' \in [Nodes -> Nat]
    BY <1>2 DEF HandleNotify, TypeOK
  <2>3. CASE closed[n]
    BY <1>2, <2>2, <2>3 DEF HandleNotify, TypeOK, redisVars
  <2>4. CASE ~closed[n]
    BY <1>2, <2>1, <2>2, <2>4, WokenType DEF HandleNotify, TypeOK
  <2> QED BY <2>3, <2>4
<1>3. CASE DropSubscription(n)
  BY <1>3 DEF DropSubscription, Fault, TypeOK, redisVars
<1>4. CASE SubscribeFails(n)
  BY <1>4 DEF SubscribeFails, Fault, TypeOK, redisVars
<1> QED BY <1>1, <1>2, <1>3, <1>4

LEMMA ExitType ==
  ASSUME TypeOK, NEW n \in Nodes, Exit(n) \/ ExitPublish(n) \/ ExitZrem(n)
  PROVE  TypeOK'
<1>1. /\ "main" \in Who /\ {"offline", "zrem"} \subseteq Commands
      /\ Send("offline") \in Coroutines /\ Send("zrem") \in Coroutines
      /\ Idle \in Coroutines
  BY CoroutineTypes DEF Who, Labels, Commands
<1>2. view \in [Nodes -> Books] /\ missed \in [Nodes -> BOOLEAN]
  BY DEF TypeOK
<1>3. CASE Exit(n)
  <2>1. Wake(n, "main", Send("offline")) /\ phase[n] # "off"
    BY <1>3 DEF Exit
  <2>2. /\ UNCHANGED <<redisVars, phase, addr, view, lost, sub, starts>>
        /\ inbox' \in [Nodes -> Nat] /\ faults' \in Nat
        /\ missed' \in [Nodes -> BOOLEAN] /\ closed' \in [Nodes -> BOOLEAN]
    BY <1>3 DEF Exit, Fault, TypeOK, redisVars
  <2> QED BY <1>1, <2>1, <2>2, WokenType
<1>4. CASE ExitPublish(n)
  BY <1>1, <1>2, <1>4, AnsweredType DEF ExitPublish
<1>5. CASE ExitZrem(n)
  <2>1. co' \in [Nodes -> [Who -> Coroutines]] /\ queue' \in [Nodes -> Seq(Who)]
    BY <1>1, <1>5, GoOnType DEF ExitZrem, Answer
  <2>2. /\ phase' \in [Nodes -> {"off", "starting", "up", "exited"}]
        /\ lost' \in [Nodes -> BOOLEAN] /\ closed' \in [Nodes -> BOOLEAN]
    BY <1>5 DEF ExitZrem, TypeOK
  <2>3. addr[n] # None
    BY <1>5 DEF ExitZrem, Answer, TypeOK
  <2>4. \A m \in Nodes \ {n} : co'[m] = co[m] /\ phase'[m] = phase[m]
    BY <1>5 DEF ExitZrem, GoOn, TypeOK
  <2>5. Addressed'
    BY <1>5, <2>3, <2>4 DEF ExitZrem, TypeOK, Addressed, Main
  <2>6. /\ info' \in Books
        /\ hb' \in [Nodes -> Int \cup {None}]
        /\ inbox' \in [Nodes -> Nat]
    BY <1>1, <1>5, ExecuteType DEF ExitZrem, Answer
  <2> QED BY <1>5, <2>1, <2>2, <2>5, <2>6 DEF ExitZrem, TypeOK, Addressed, Main
<1> QED BY <1>3, <1>4, <1>5

LEMMA DropConnectionType ==
  ASSUME TypeOK, NEW n \in Nodes, DropConnection(n)
  PROVE  TypeOK'
BY DEF DropConnection, Fault, TypeOK, redisVars

LEMMA ExecuteUnansweredType ==
  ASSUME TypeOK, NEW n \in Nodes, ExecuteUnanswered(n)
  PROVE  TypeOK'
<1>1. Head(queue[n]) \in Who /\ Tail(queue[n]) \in Seq(Who)
  BY DEF ExecuteUnanswered, TypeOK
<1>2. queue' \in [Nodes -> Seq(Who)]
  BY <1>1 DEF ExecuteUnanswered, TypeOK
<1> QED BY <1>1, <1>2, ExecuteType DEF ExecuteUnanswered, TypeOK

LEMMA FailAllType ==
  ASSUME TypeOK, NEW n \in Nodes, FailAll(n)
  PROVE  TypeOK'
<1>1. PICK connected \in BOOLEAN :
         LET beat == IF co[n]["beat"].at \notin Commands THEN co[n]["beat"]
                     ELSE IF co[n]["beat"].at = "zadd" /\ connected THEN Search(FALSE)
                     ELSE Asleep
         IN  /\ co' = [co EXCEPT ![n] =
                         [w \in Who |-> IF w = "beat" THEN beat ELSE Idle]]
             /\ queue' = [queue EXCEPT ![n] =
                            IF beat.at \in Commands THEN <<"beat">> ELSE <<>>]
             /\ closed' = [closed EXCEPT ![n] = @ /\ beat.at \notin Commands]
  BY DEF FailAll
<1> DEFINE beat == IF co[n]["beat"].at \notin Commands THEN co[n]["beat"]
                   ELSE IF co[n]["beat"].at = "zadd" /\ connected THEN Search(FALSE)
                   ELSE Asleep
           states == [w \in Who |-> IF w = "beat" THEN beat ELSE Idle]
           waiting == IF beat.at \in Commands THEN <<"beat">> ELSE <<>>
<1>2. "beat" \in Who /\ beat \in Coroutines /\ Idle \in Coroutines
  BY CoroutineTypes DEF TypeOK, Who
<1>3. /\ co' = [co EXCEPT ![n] = states]
      /\ queue' = [queue EXCEPT ![n] = waiting]
      /\ closed' = [closed EXCEPT ![n] = @ /\ beat.at \notin Commands]
  BY <1>1
<1> HIDE DEF beat
<1>4. states \in [Who -> Coroutines] /\ states["main"] = Idle
  BY <1>2 DEF Who
<1>5. waiting \in Seq(Who)
  BY <1>2
<1> HIDE DEF states, waiting
<1>6. /\ co' \in [Nodes -> [Who -> Coroutines]]
      /\ queue' \in [Nodes -> Seq(Who)]
  BY <1>3, <1>4, <1>5 DEF TypeOK
<1>7. closed' \in [Nodes -> BOOLEAN]
  BY <1>3 DEF TypeOK
<1>8. /\ phase' \in [Nodes -> {"off", "starting", "up", "exited"}]
      /\ lost' \in [Nodes -> BOOLEAN] /\ missed' \in [Nodes -> BOOLEAN]
  BY DEF FailAll, TypeOK
<1>9. Addressed'
  <2> SUFFICES ASSUME NEW m \in Nodes, (phase[m] # "off" \/ Main(m).at # "idle")'
               PROVE  addr[m] # None
    BY DEF Addressed, FailAll
  <2>1. CASE m = n
    <3>1. co'[n]["main"].at = "idle"
      BY <1>3, <1>4 DEF TypeOK, Idle
    <3> QED BY <2>1, <3>1 DEF FailAll, TypeOK, Main
  <2>2. CASE m # n
    BY <1>3, <2>2 DEF FailAll, TypeOK, Main
  <2> QED BY <2>1, <2>2
<1> QED BY <1>6, <1>7, <1>8, <1>9 DEF FailAll, TypeOK, redisVars, Addressed, Main

LEMMA CrashType ==
  ASSUME TypeOK, NEW n \in Nodes, Crash(n)
  PROVE  TypeOK'
<1> DEFINE states == [w \in Who |-> Idle]
<1>1. states \in [Who -> Coroutines] /\ states["main"].at = "idle"
  BY CoroutineTypes DEF Who, Idle
<1>2. NoNodes \in Books
  BY DEF NoNodes, Books
<1>3. co' = [co EXCEPT ![n] = states]
  BY DEF Crash
<1> HIDE DEF states
<1>4. co' \in [Nodes -> [Who -> Coroutines]]
  BY <1>1, <1>3 DEF TypeOK
<1>5. queue' \in [Nodes -> Seq(Who)]
  BY DEF Crash, TypeOK
<1>6. Addressed'
  BY <1>1, <1>3 DEF Crash, TypeOK, Addressed, Main
<1>7. /\ phase' \in [Nodes -> {"off", "starting", "up", "exited"}]
      /\ view' \in [Nodes -> Books]
      /\ sub' \in [Nodes -> {"none", "broken", "on"}]
      /\ inbox' \in [Nodes -> Nat]
      /\ missed' \in [Nodes -> BOOLEAN] /\ lost' \in [Nodes -> BOOLEAN]
  BY <1>2 DEF Crash, TypeOK
<1> QED BY <1>4, <1>5, <1>6, <1>7 DEF Crash, Fault, TypeOK, redisVars, Addressed, Main

LEMMA TickType == ASSUME TypeOK, Tick PROVE TypeOK'
<1>1. hb' \in [Nodes -> Int \cup {None}]
  BY DiscoverAssumption DEF Tick, TypeOK, Older
<1>2. \A n \in Nodes, w \in Who :
         /\ co'[n][w] \in Coroutines
         /\ co'[n][w].at = co[n][w].at
  <2> SUFFICES ASSUME NEW n \in Nodes, NEW w \in Who
               PROVE  co'[n][w] \in Coroutines /\ co'[n][w].at = co[n][w].at
    OBVIOUS
  <2>1. co[n][w] \in Coroutines /\ co[n][w].age + 1 \in Nat
    BY DEF TypeOK, Coroutines
  <2>2. co'[n][w] = IF co[n][w].at = "idle" THEN co[n][w]
                    ELSE [co[n][w] EXCEPT !.age = co[n][w].age + 1]
    BY DEF Tick
  <2>3. [co[n][w] EXCEPT !.age = co[n][w].age + 1] \in Coroutines
    BY <2>1, ChangeType
  <2>4. [co[n][w] EXCEPT !.age = co[n][w].age + 1].at = co[n][w].at
    BY <2>1 DEF Coroutines
  <2> QED BY <2>1, <2>2, <2>3, <2>4
<1>3. co' \in [Nodes -> [Who -> Coroutines]]
  BY <1>2 DEF Tick
<1>4. Addressed'
  BY <1>2 DEF Tick, TypeOK, Addressed, Main, Who
<1> QED BY <1>1, <1>3, <1>4 DEF Tick, TypeOK, Addressed, Main

LEMMA InitType == Init => TypeOK
<1> SUFFICES ASSUME Init PROVE TypeOK
  OBVIOUS
<1>1. NoNodes \in Books /\ Idle \in Coroutines /\ "main" \in Who
  BY CoroutineTypes DEF NoNodes, Books, Who
<1>2. queue \in [Nodes -> Seq(Who)]
  BY DEF Init
<1>3. co \in [Nodes -> [Who -> Coroutines]] /\ \A n \in Nodes : co[n]["main"] = Idle
  BY <1>1 DEF Init
<1>4. hb \in [Nodes -> Int \cup {None}] /\ view \in [Nodes -> Books]
  BY <1>1 DEF Init, NoNodes
<1> QED BY <1>1, <1>2, <1>3, <1>4 DEF Init, TypeOK, Idle

LEMMA NextType == TypeOK /\ [Next]_vars => TypeOK'
<1> SUFFICES ASSUME TypeOK, [Next]_vars PROVE TypeOK'
  OBVIOUS
<1>1. CASE Tick
  BY <1>1, TickType
<1>2. ASSUME NEW n \in Nodes, Answered(n) PROVE TypeOK'
  BY <1>2, RegisterType, RegisterNotifyType, BeatZaddType, UpdateCleanType,
     UpdateRangeType, UpdateHgetType, ExitType DEF Answered
<1>3. ASSUME NEW n \in Nodes,
             Timer(n) \/ Subscribe(n) \/ HandleNotify(n) \/ FailAll(n)
      PROVE  TypeOK'
  BY <1>3, TimerType, NotificationType, FailAllType
<1>4. ASSUME NEW n \in Nodes, Environment(n) PROVE TypeOK'
  BY <1>4, StartType, ExitType, DropConnectionType, ExecuteUnansweredType,
     NotificationType, CrashType DEF Environment
<1>5. CASE UNCHANGED vars
  BY <1>5 DEF TypeOK, vars, redisVars, nodeVars
<1> QED BY <1>1, <1>2, <1>3, <1>4, <1>5 DEF Next

\* Every reachable state is typed.
THEOREM TypeCorrect == Spec => []TypeOK
BY InitType, NextType, PTL DEF Spec

(***************************************************************************)
(* No listed node lacks a description                                      *)
(***************************************************************************)
\* No command deletes a description, and a heartbeat is only written by a node
\* that has one.
LEMMA ExecuteInfo ==
  ASSUME TypeOK, InfoInv, NEW n \in Nodes, NEW w \in Who, Execute(n, w)
  PROVE  /\ \A m \in Nodes : info[m] # None => info'[m] # None
         /\ \A m \in Nodes : hb'[m] # None => info'[m] # None
         /\ co[n][w].at = "hset" => info'[n] # None
<1>1. \A m \in Nodes : info[m] # None => info'[m] # None
  BY DEF Execute, TypeOK, InfoInv, Described, Books
<1>2. co[n][w].at = "hset" => info'[n] # None
  BY DEF Execute, TypeOK, InfoInv, Described, Books
<1>3. \A m \in Nodes : hb'[m] # None => hb[m] # None \/ (m = n /\ co[n][w].at = "zadd")
  BY DEF Execute, TypeOK
<1> QED BY <1>1, <1>2, <1>3 DEF InfoInv, Described

\* One coroutine goes on as c.
LEMMA InfoStep ==
  ASSUME TypeOK, InfoInv, NEW n \in Nodes, NEW w \in Who, NEW c,
         \A m \in Nodes : info[m] # None => info'[m] # None,
         \A m \in Nodes : hb'[m] # None => info'[m] # None,
         co' = [co EXCEPT ![n][w] = c],
         UNCHANGED addr,
         c.at # "hset",
         c.at \in {"zadd", "publish"} => info'[n] # None,
         w = "beat" => co[n][w].at # "idle"
  PROVE  InfoInv'
<1> SUFFICES ASSUME NEW m \in Nodes PROVE Described(m)'
  BY DEF InfoInv
<1>1. \A v \in Who : co'[m][v] = IF m = n /\ v = w THEN c ELSE co[m][v]
  BY DEF TypeOK
<1>2. /\ "main" \in Who /\ "beat" \in Who
      /\ Described(m) /\ Described(n)
  BY DEF Who, InfoInv
<1>3. \A v \in Who : co'[m][v].at = "hset" => addr'[m] # None
  BY <1>1, <1>2 DEF Described
<1>4. \A v \in Who : co'[m][v].at \in {"zadd", "publish"} => info'[m] # None
  BY <1>1, <1>2 DEF Described
<1>5. Beat(m)'.at # "idle" => info'[m] # None
  BY <1>1, <1>2 DEF Described, Beat
<1> QED BY <1>3, <1>4, <1>5 DEF Described

\* A reply.
LEMMA InfoAnswered ==
  ASSUME TypeOK, InfoInv, NEW n \in Nodes, NEW w \in Who, NEW c, NEW label \in Commands,
         Answer(n, w, label), GoOn(n, w, c), UNCHANGED addr, c.at # "hset",
         c.at \in {"zadd", "publish"} => label \in {"hset", "zadd"}
  PROVE  InfoInv'
<1>1. /\ \A m \in Nodes : info[m] # None => info'[m] # None
      /\ \A m \in Nodes : hb'[m] # None => info'[m] # None
      /\ label = "hset" => info'[n] # None
  BY ExecuteInfo DEF Answer
<1>2. label = "zadd" => info[n] # None
  BY DEF Answer, InfoInv, Described
<1>3. w = "beat" => co[n][w].at # "idle"
  BY DEF Answer, Commands
<1> QED BY <1>1, <1>2, <1>3, InfoStep DEF GoOn

\* A coroutine that sends a command of its own accord.
LEMMA InfoWoken ==
  ASSUME TypeOK, InfoInv, NEW n \in Nodes, NEW w \in Who, NEW c, Wake(n, w, c),
         UNCHANGED <<redisVars, addr>>, c.at # "hset",
         c.at \in {"zadd", "publish"} => w = "beat",
         w = "beat" => co[n][w].at # "idle"
  PROVE  InfoInv'
<1>1. \A m \in Nodes : hb'[m] # None => info'[m] # None
  BY DEF redisVars, InfoInv, Described
<1>2. w = "beat" => info[n] # None
  BY DEF InfoInv, Described, Beat
<1> QED BY <1>1, <1>2, InfoStep DEF Wake, redisVars

LEMMA InfoAnsweredStep ==
  ASSUME TypeOK, InfoInv, NEW n \in Nodes, Answered(n)
  PROVE  InfoInv'
<1>1. Who = {"main", "beat", "note"} /\ Commands \subseteq Labels
  BY DEF Who, Labels
<1>2. CASE RegisterInfo(n)
  BY <1>1, <1>2, InfoAnswered DEF RegisterInfo, Send, Commands, Idle
<1>3. CASE RegisterHeartbeat(n)
  <2>1. [co[n]["main"] EXCEPT !.at = "publish"].at = "publish"
    BY <1>1 DEF TypeOK, Coroutines
  <2> QED BY <1>1, <1>3, <2>1, InfoAnswered DEF RegisterHeartbeat, Commands
<1>4. CASE RegisterNotify(n)
  <2>1. /\ \A m \in Nodes : info[m] # None => info'[m] # None
        /\ \A m \in Nodes : hb'[m] # None => info'[m] # None
    BY <1>1, <1>4, ExecuteInfo DEF RegisterNotify, Answer
  <2>2. info[n] # None /\ addr' = addr
    BY <1>1, <1>4 DEF RegisterNotify, Answer, InfoInv, Described
  <2>3. /\ co'[n]["main"].at = "clean" /\ co'[n]["beat"].at = "zadd"
        /\ co'[n]["note"] = co[n]["note"]
        /\ \A m \in Nodes \ {n} : co'[m] = co[m]
    BY <1>1, <1>4, ZenonT(30) DEF RegisterNotify, TypeOK, Search, Send, Idle
  <2> QED BY <1>1, <2>1, <2>2, <2>3 DEF InfoInv, Described, Beat
<1>5. CASE BeatZadd(n)
  BY <1>1, <1>5, InfoAnswered, ZenonT(30) DEF BeatZadd, Search, Send, Idle, Commands
<1>6. ASSUME NEW w \in Who, UpdateClean(n, w) PROVE InfoInv'
  <2>1. [co[n][w] EXCEPT !.at = "range"].at = "range"
    BY <1>6 DEF TypeOK, Coroutines
  <2> QED BY <1>6, <2>1, InfoAnswered DEF UpdateClean, Commands
<1>7. Done("main").at = "idle" /\ Done("note").at = "idle" /\ Done("beat").at = "sleep"
  BY DEF Done, Asleep, Idle
<1>8. ASSUME NEW w \in Who, UpdateRange(n, w) PROVE InfoInv'
  <2> DEFINE alive == {m \in Nodes : hb[m] # None /\ InRange(n, co[n][w], hb[m])}
             c == [co[n][w] EXCEPT !.at = "hget", !.left = alive]
  <2>1. GoOn(n, w, c) \/ GoOn(n, w, Done(w))
    BY <1>8 DEF UpdateRange
  <2>2. c.at = "hget"
    BY DEF TypeOK, Coroutines
  <2> HIDE DEF c
  <2> QED BY <1>1, <1>7, <1>8, <2>1, <2>2, InfoAnswered DEF UpdateRange, Commands
<1>9. ASSUME NEW w \in Who, UpdateHget(n, w) PROVE InfoInv'
  <2>1. PICK m \in co[n][w].left :
           LET c == [co[n][w] EXCEPT !.got = [@ EXCEPT ![m] = info[m]],
                                     !.left = @ \ {m}]
           IN  GoOn(n, w, c) \/ GoOn(n, w, Done(w))
    BY <1>9 DEF UpdateHget
  <2> DEFINE c == [co[n][w] EXCEPT !.got = [@ EXCEPT ![m] = info[m]],
                                   !.left = @ \ {m}]
  <2>2. c.at = "hget"
    BY <1>9 DEF TypeOK, Coroutines, UpdateHget, Answer
  <2> HIDE DEF c
  <2> QED BY <1>1, <1>7, <1>9, <2>1, <2>2, InfoAnswered DEF UpdateHget, Commands, c
<1>10. CASE ExitPublish(n)
  BY <1>1, <1>10, InfoAnswered DEF ExitPublish, Send, Idle, Commands
<1>11. CASE ExitZrem(n)
  BY <1>1, <1>11, InfoAnswered DEF ExitZrem, Idle, Commands
<1> QED BY <1>2, <1>3, <1>4, <1>5, <1>6, <1>8, <1>9, <1>10, <1>11 DEF Answered

\* What FailAll does to the coroutines.
LEMMA FailAllStates ==
  ASSUME TypeOK, NEW n \in Nodes, FailAll(n)
  PROVE  /\ \A m \in Nodes \ {n} : co'[m] = co[m]
         /\ \A w \in Who \ {"beat"} : co'[n][w] = Idle
         /\ \/ Beat(n)' = Beat(n) /\ Beat(n).at \notin Commands
            \/ Beat(n)' = Asleep /\ Beat(n).at \in Commands
            \/ Beat(n)' = Search(FALSE) /\ Beat(n).at = "zadd"
<1>1. PICK beat :
         /\ \/ beat = Beat(n) /\ Beat(n).at \notin Commands
            \/ beat = Asleep /\ Beat(n).at \in Commands
            \/ beat = Search(FALSE) /\ Beat(n).at = "zadd"
         /\ co' = [co EXCEPT ![n] = [w \in Who |-> IF w = "beat" THEN beat ELSE Idle]]
  <2>1. PICK connected \in BOOLEAN :
           co' = [co EXCEPT ![n] =
                    [w \in Who |->
                       IF w = "beat"
                       THEN IF Beat(n).at \notin Commands THEN Beat(n)
                            ELSE IF Beat(n).at = "zadd" /\ connected THEN Search(FALSE)
                            ELSE Asleep
                       ELSE Idle]]
    BY DEF FailAll, Beat
  <2> DEFINE beat == IF Beat(n).at \notin Commands THEN Beat(n)
                     ELSE IF Beat(n).at = "zadd" /\ connected THEN Search(FALSE)
                     ELSE Asleep
  <2> WITNESS beat
  <2> QED BY <2>1
<1>2. "beat" \in Who
  BY DEF Who
<1>3. \A w \in Who : co'[n][w] = IF w = "beat" THEN beat ELSE Idle
  BY <1>1 DEF TypeOK
<1>4. \A m \in Nodes \ {n} : co'[m] = co[m]
  BY <1>1 DEF TypeOK
<1> QED BY <1>1, <1>2, <1>3, <1>4 DEF Beat

LEMMA InfoFailAll ==
  ASSUME TypeOK, InfoInv, NEW n \in Nodes, FailAll(n)
  PROVE  InfoInv'
<1>1. UNCHANGED <<info, hb, addr>>
  BY DEF FailAll, redisVars
<1>2. /\ Idle.at = "idle" /\ Asleep.at = "sleep" /\ Search(FALSE).at = "clean"
      /\ "idle" \notin Commands
  BY DEF Search, Send, Asleep, Idle, Commands
<1>3. \A w \in Who : co'[n][w].at \notin {"hset", "zadd", "publish"}
  BY <1>2, FailAllStates DEF Commands, Beat
<1>4. Beat(n)'.at # "idle" => info'[n] # None
  BY <1>1, <1>2, FailAllStates DEF InfoInv, Described
<1> QED BY <1>1, <1>3, <1>4, FailAllStates, ZenonT(30) DEF InfoInv, Described, Beat

LEMMA InfoTick == ASSUME TypeOK, InfoInv, Tick PROVE InfoInv'
<1>1. \A n \in Nodes, w \in Who : co'[n][w].at = co[n][w].at
  <2> SUFFICES ASSUME NEW n \in Nodes, NEW w \in Who
               PROVE  co'[n][w].at = co[n][w].at
    OBVIOUS
  <2>1. co'[n][w] = IF co[n][w].at = "idle" THEN co[n][w]
                    ELSE [co[n][w] EXCEPT !.age = co[n][w].age + 1]
    BY DEF Tick
  <2> QED BY <2>1 DEF TypeOK, Coroutines
<1>2. \A n \in Nodes : hb'[n] # None => hb[n] # None
  BY DEF Tick
<1> QED BY <1>1, <1>2 DEF Tick, InfoInv, Described, Beat, Who

LEMMA InfoStart ==
  ASSUME TypeOK, InfoInv, NEW n \in Nodes, NEW a \in Addrs, Start(n, a)
  PROVE  InfoInv'
<1>1. /\ \A m \in Nodes, w \in Who :
            co'[m][w] = IF m = n /\ w = "main" THEN Send("hset") ELSE co[m][w]
      /\ Send("hset").at = "hset"
  BY DEF Start, Wake, TypeOK, Send, Idle, Who
<1>2. addr'[n] # None /\ \A m \in Nodes \ {n} : addr'[m] = addr[m]
  BY DiscoverAssumption DEF Start, TypeOK, Books
<1> QED BY <1>1, <1>2 DEF Start, redisVars, InfoInv, Described, Beat, Who

LEMMA InfoEnvironment ==
  ASSUME TypeOK, InfoInv, NEW n \in Nodes, Environment(n)
  PROVE  InfoInv'
<1>1. ASSUME NEW a \in Addrs, Start(n, a) PROVE InfoInv'
  BY <1>1, InfoStart
<1>2. CASE Exit(n)
  BY <1>2, InfoWoken DEF Exit, Send, Idle, Who
<1>3. CASE DropConnection(n) \/ DropSubscription(n) \/ SubscribeFails(n)
  BY <1>3 DEF DropConnection, DropSubscription, SubscribeFails, redisVars, InfoInv, Described, Beat
<1>4. CASE ExecuteUnanswered(n)
  <2>1. Head(queue[n]) \in Who /\ Execute(n, Head(queue[n]))
    BY <1>4 DEF ExecuteUnanswered, TypeOK
  <2>2. /\ \A m \in Nodes : info[m] # None => info'[m] # None
        /\ \A m \in Nodes : hb'[m] # None => info'[m] # None
    BY <2>1, ExecuteInfo
  <2> QED BY <1>4, <2>2 DEF ExecuteUnanswered, InfoInv, Described, Beat
<1>5. CASE Crash(n)
  BY <1>5 DEF Crash, redisVars, TypeOK, InfoInv, Described, Beat, Idle, Who
<1> QED BY <1>1, <1>2, <1>3, <1>4, <1>5 DEF Environment

LEMMA InfoNext == TypeOK /\ InfoInv /\ [Next]_vars => InfoInv'
<1> SUFFICES ASSUME TypeOK, InfoInv, [Next]_vars PROVE InfoInv'
  OBVIOUS
<1>1. CASE Tick
  BY <1>1, InfoTick
<1>2. ASSUME NEW n \in Nodes, Answered(n) \/ FailAll(n) \/ Environment(n) PROVE InfoInv'
  BY <1>2, InfoAnsweredStep, InfoFailAll, InfoEnvironment
<1>3. ASSUME NEW n \in Nodes, Timer(n) PROVE InfoInv'
  BY <1>3, InfoWoken
     DEF Timer, BeatWake, BeatReconnect, Search, Send, Idle, Who, redisVars
<1>4. ASSUME NEW n \in Nodes, Subscribe(n) PROVE InfoInv'
  BY <1>4 DEF Subscribe, redisVars, InfoInv, Described, Beat
<1>5. ASSUME NEW n \in Nodes, HandleNotify(n) PROVE InfoInv'
  <2>1. CASE closed[n]
    BY <1>5, <2>1 DEF HandleNotify, redisVars, InfoInv, Described, Beat
  <2>2. CASE ~closed[n]
    BY <1>5, <2>2, InfoWoken DEF HandleNotify, Search, Send, Idle, Who
  <2> QED BY <2>1, <2>2
<1>6. CASE UNCHANGED vars
  BY <1>6 DEF vars, redisVars, nodeVars, InfoInv, Described, Beat
<1> QED BY <1>1, <1>2, <1>3, <1>4, <1>5, <1>6 DEF Next

LEMMA InfoInit == Init => InfoInv
BY DEF Init, InfoInv, Described, Beat, NoNodes, Idle, Who

\* A node that searches finds an address for every name it read from the
\* heartbeat set (register_node, whatever crashes or connections lost between
\* its commands).
THEOREM ListedNodesDescribed == Spec => []ListedHasInfo
<1>1. InfoInv => ListedHasInfo
  BY DEF InfoInv, Described, ListedHasInfo
<1> QED BY <1>1, TypeCorrect, InfoInit, InfoNext, PTL DEF Spec

(***************************************************************************)
(* No node purges a live one                                               *)
(***************************************************************************)
\* The heartbeat of a live node is not old ...
LEMMA NotOld ==
  ASSUME TypeOK, LiveInv, NEW m \in Nodes, Listed(m)
  PROVE  hb[m] \in Int /\ hb[m] <= Interval + 3 * MaxLag
<1>1. /\ Main(m).age \in Nat /\ Beat(m).age \in Nat
      /\ hb[m] \in Int \cup {None}
      /\ Interval \in Nat /\ MaxLag \in Nat
  BY DiscoverAssumption DEF TypeOK, Main, Beat, Coroutines, Who
<1>2. Live(m) /\ {"publish", "zadd", "clean", "range", "hget"} \subseteq Commands
  BY DEF LiveInv, Commands
<1>3. CASE Main(m).at = "publish"
  <2>1. Main(m).age <= MaxLag
    BY <1>2, <1>3 DEF Live, InTime, Main, Who
  <2> QED BY <1>1, <1>2, <1>3, <2>1 DEF Live, Fresh
<1>4. CASE Main(m).at # "publish"
  <2>1. Beat(m).at \in Commands => Beat(m).age <= MaxLag
    BY <1>2 DEF Live, InTime, Beat, Who
  <2>2. Beat(m).at = "sleep" => Beat(m).age <= Interval
    BY <1>2 DEF Live, InTime
  <2> QED BY <1>1, <1>2, <1>4, <2>1, <2>2 DEF Live, Fresh, Listed
<1> QED BY <1>3, <1>4

\* ... so no command but its own replaces or removes it.
LEMMA NotPurged ==
  ASSUME LagAssumption, TypeOK, LiveInv, NEW n \in Nodes, NEW w \in Who, Execute(n, w),
         NEW m \in Nodes, Listed(m),
         m = n => co[n][w].at \notin {"zadd", "zrem"}
  PROVE  hb'[m] = hb[m]
<1>1. hb[m] \in Int /\ hb[m] <= Interval + 3 * MaxLag
  BY NotOld
<1>2. ~Stale(n, co[n][w], hb[m])
  <2>1. co[n][w].age \in Nat
    BY DEF TypeOK, Coroutines
  <2>2. Interval + 3 * MaxLag + Skew[n] < Timeout
    BY DEF LagAssumption
  <2> QED BY <1>1, <2>1, <2>2, DiscoverAssumption DEF Stale
<1> QED BY <1>2 DEF Execute, TypeOK

\* What a step of node n leaves as it is for another node.
LEMMA OthersLive ==
  ASSUME LagAssumption, TypeOK, LiveInv, NEW n \in Nodes, NEW m \in Nodes \ {n},
         hb' = hb \/ \E w \in Who : Execute(n, w),
         co'[m] = co[m], phase'[m] = phase[m], missed'[m] = missed[m]
  PROVE  Live(m)'
<1>1. Live(m)
  BY DEF LiveInv
<1>2. Listed(m) => hb'[m] = hb[m]
  BY NotPurged
<1>3. Roles(m)' /\ InTime(m)'
  BY <1>1 DEF Live, Roles, InTime, Main, Beat, Who
<1>4. Fresh(m)'
  BY <1>1, <1>2 DEF Live, Fresh, Listed, Main, Beat
<1> QED BY <1>3, <1>4 DEF Live

LEMMA OneSet ==
  ASSUME TypeOK, NEW n \in Nodes, NEW w \in Who, NEW c, co' = [co EXCEPT ![n][w] = c]
  PROVE  /\ \A m \in Nodes \ {n} : co'[m] = co[m]
         /\ \A v \in Who : co'[n][v] = IF v = w THEN c ELSE co[n][v]
BY DEF TypeOK

\* It is enough to look at the node that takes the step.
LEMMA ActorOnly ==
  ASSUME LagAssumption, TypeOK, LiveInv, NEW n \in Nodes, NEW w \in Who, NEW c,
         hb' = hb \/ Execute(n, w), co' = [co EXCEPT ![n][w] = c],
         \A m \in Nodes \ {n} : phase'[m] = phase[m] /\ missed'[m] = missed[m],
         Live(n)'
  PROVE  LiveInv'
BY OneSet, OthersLive DEF LiveInv

Searching == {"clean", "range", "hget"}

\* A step of update_cluster_nodes: the search goes on, or ends.
LEMMA LiveSearch ==
  ASSUME LagAssumption, TypeOK, LiveInv, NEW n \in Nodes, NEW w \in Who, NEW c,
         co[n][w].at \in Searching, Execute(n, w), co' = [co EXCEPT ![n][w] = c],
         UNCHANGED <<phase, missed>>,
         \/ c.at \in Searching /\ c.age = co[n][w].age
         \/ c = Done(w)
  PROVE  LiveInv'
<1>1. \A v \in Who : co'[n][v] = IF v = w THEN c ELSE co[n][v]
  BY DEF TypeOK
<1>2. /\ Who = {"main", "beat", "note"}
      /\ Searching \subseteq Commands
      /\ Done("beat").at = "sleep" /\ Done("beat").age = 0
      /\ Done("main").at = "idle" /\ Done("note").at = "idle"
      /\ "idle" \notin Commands /\ "sleep" \notin Commands
  BY DEF Who, Searching, Commands, Done, Asleep, Idle
<1>3. /\ Live(n) /\ Interval \in Nat /\ MaxLag \in Nat
      /\ co[n][w].age \in Nat /\ hb[n] \in Int \cup {None}
      /\ Beat(n).age \in Nat
  BY <1>2, DiscoverAssumption DEF LiveInv, TypeOK, Coroutines, Beat
<1>4. Roles(n)'
  BY <1>1, <1>2, <1>3 DEF Live, Roles, Main, Beat, Searching
<1>5. InTime(n)'
  BY <1>1, <1>2, <1>3 DEF Live, InTime, Beat
<1>6. Fresh(n)'
  <2>1. Listed(n) => hb'[n] = hb[n]
    BY NotPurged DEF Searching
  <2>2. Listed(n)' => Listed(n)
    BY <1>1, <1>2 DEF Listed, Main, Searching
  <2>3. Main(n)'.at = "publish" => Main(n)' = Main(n)
    BY <1>1, <1>2 DEF Main, Searching
  <2>4. Main(n).at = "zrem" => Main(n)' = Main(n)
    BY <1>1, <1>2 DEF Main, Searching
  <2>5. CASE w = "beat"
    <3>1. Beat(n).age <= MaxLag /\ Beat(n).at \in Searching
      BY <1>2, <1>3, <2>5 DEF Live, InTime, Beat
    <3>2. \/ Beat(n)'.at \in Searching /\ Beat(n)'.age = Beat(n).age
          \/ Beat(n)'.at = "sleep" /\ Beat(n)'.age = 0
      BY <1>1, <1>2, <2>5 DEF Beat
    <3> QED
      BY <1>3, <2>1, <2>2, <2>3, <2>4, <3>1, <3>2 DEF Live, Fresh, Listed, Searching
  <2>6. CASE w # "beat"
    <3>1. Beat(n)' = Beat(n)
      BY <1>1, <1>2, <2>6 DEF Beat
    <3> QED BY <1>3, <2>1, <2>2, <2>3, <2>4, <3>1 DEF Live, Fresh, Listed
  <2> QED BY <2>5, <2>6
<1> QED BY <1>4, <1>5, <1>6, ActorOnly DEF Live

LEMMA LiveUpdate ==
  ASSUME LagAssumption, TypeOK, LiveInv, NEW n \in Nodes, NEW w \in Who,
         UpdateClean(n, w) \/ UpdateRange(n, w) \/ UpdateHget(n, w)
  PROVE  LiveInv'
<1>1. co[n][w] \in Coroutines
  BY DEF TypeOK
<1>2. CASE UpdateClean(n, w)
  <2> DEFINE c == [co[n][w] EXCEPT !.at = "range"]
  <2>1. c.at \in Searching /\ c.age = co[n][w].age
    BY <1>1 DEF Coroutines, Searching
  <2>2. /\ co[n][w].at \in Searching /\ Execute(n, w) /\ UNCHANGED <<phase, missed>>
        /\ co' = [co EXCEPT ![n][w] = c]
    BY <1>2 DEF UpdateClean, Answer, GoOn, Searching
  <2> HIDE DEF c
  <2> QED BY <2>1, <2>2, LiveSearch
<1>3. CASE UpdateRange(n, w)
  <2> DEFINE alive == {m \in Nodes : hb[m] # None /\ InRange(n, co[n][w], hb[m])}
             c == [co[n][w] EXCEPT !.at = "hget", !.left = alive]
  <2>1. c.at \in Searching /\ c.age = co[n][w].age
    BY <1>1 DEF Coroutines, Searching
  <2>2. co' = [co EXCEPT ![n][w] = c] \/ co' = [co EXCEPT ![n][w] = Done(w)]
    BY <1>3 DEF UpdateRange, GoOn
  <2>3. co[n][w].at \in Searching /\ Execute(n, w) /\ UNCHANGED <<phase, missed>>
    BY <1>3 DEF UpdateRange, Answer, Searching
  <2> HIDE DEF c
  <2> QED BY <2>1, <2>2, <2>3, LiveSearch
<1>4. CASE UpdateHget(n, w)
  <2>1. PICK m \in co[n][w].left :
           LET c == [co[n][w] EXCEPT !.got = [@ EXCEPT ![m] = info[m]],
                                     !.left = @ \ {m}]
           IN  GoOn(n, w, c) \/ GoOn(n, w, Done(w))
    BY <1>4 DEF UpdateHget
  <2> DEFINE c == [co[n][w] EXCEPT !.got = [@ EXCEPT ![m] = info[m]],
                                   !.left = @ \ {m}]
  <2>2. co[n][w].at \in Searching /\ Execute(n, w) /\ UNCHANGED <<phase, missed>>
    BY <1>4 DEF UpdateHget, Answer, Searching
  <2>3. c.at \in Searching /\ c.age = co[n][w].age
    BY <1>1, <2>2 DEF Coroutines, Searching
  <2>4. co' = [co EXCEPT ![n][w] = c] \/ co' = [co EXCEPT ![n][w] = Done(w)]
    BY <2>1 DEF GoOn
  <2> HIDE DEF c
  <2> QED BY <2>2, <2>3, <2>4, LiveSearch
<1> QED BY <1>2, <1>3, <1>4

LEMMA LiveRegister ==
  ASSUME LagAssumption, TypeOK, LiveInv, NEW n \in Nodes,
         RegisterInfo(n) \/ RegisterHeartbeat(n) \/ RegisterNotify(n)
  PROVE  LiveInv'
<1>1. /\ Who = {"main", "beat", "note"}
      /\ "publish" \in Commands /\ "zadd" \in Commands /\ "clean" \in Commands
      /\ Send("zadd").at = "zadd" /\ Send("zadd").age = 0
  BY DEF Who, Commands, Send, Idle
<1> DEFINE search == Search(FALSE)
<1>8. search.at = "clean" /\ search.age = 0
  BY DEF Search, Send, Idle
<1>2. /\ Live(n) /\ Interval \in Nat /\ MaxLag \in Nat /\ Skew[n] \in Nat
      /\ Main(n) \in Coroutines /\ Main(n).age \in Nat
  BY <1>1, DiscoverAssumption DEF LiveInv, TypeOK, Coroutines, Main
<1>3. Main(n).at \in {"hset", "zadd", "publish"} /\ Execute(n, "main")
  BY DEF RegisterInfo, RegisterHeartbeat, RegisterNotify, Answer, Main
<1>4. /\ phase[n] = "starting" /\ Beat(n).at = "idle" /\ Main(n).age <= MaxLag
  BY <1>1, <1>2, <1>3 DEF Live, Roles, InTime, Main, Commands
<1>5. CASE RegisterInfo(n)
  <2>1. co' = [co EXCEPT ![n]["main"] = Send("zadd")] /\ UNCHANGED <<phase, missed>>
    BY <1>5 DEF RegisterInfo, GoOn
  <2>2. Main(n)' = Send("zadd") /\ Beat(n)' = Beat(n) /\ co'[n]["note"] = co[n]["note"]
    BY <1>1, <2>1 DEF TypeOK, Main, Beat
  <2>3. Live(n)'
    BY <1>1, <1>2, <1>4, <2>1, <2>2 DEF Live, Roles, InTime, Fresh, Main, Beat
  <2> QED BY <1>1, <1>3, <2>1, <2>3, ActorOnly
<1>6. CASE RegisterHeartbeat(n)
  <2> DEFINE c == [co[n]["main"] EXCEPT !.at = "publish"]
  <2>1. co' = [co EXCEPT ![n]["main"] = c] /\ UNCHANGED <<phase, missed>>
    BY <1>6 DEF RegisterHeartbeat, GoOn
  <2>2. c.at = "publish" /\ c.age = Main(n).age
    BY <1>2 DEF Coroutines, Main
  <2> HIDE DEF c
  <2>3. Main(n)' = c /\ Beat(n)' = Beat(n) /\ co'[n]["note"] = co[n]["note"]
    BY <1>1, <2>1 DEF TypeOK, Main, Beat
  <2>4. hb'[n] = Main(n).age - Skew[n]
    BY <1>6 DEF RegisterHeartbeat, Answer, Execute, TypeOK, Score, Main
  <2>5. hb'[n] # None /\ hb'[n] <= Main(n).age
    BY <1>2, <2>4, DiscoverAssumption
  <2>6. Live(n)'
    BY <1>1, <1>2, <1>4, <2>1, <2>2, <2>3, <2>5 DEF Live, Roles, InTime, Fresh, Main, Beat
  <2> QED BY <1>1, <1>3, <2>1, <2>6, ActorOnly
<1>7. CASE RegisterNotify(n)
  <2>1. /\ Main(n)' = search /\ Beat(n)' = Send("zadd")
        /\ co'[n]["note"] = co[n]["note"]
        /\ phase'[n] = "up"
        /\ \A m \in Nodes \ {n} :
              co'[m] = co[m] /\ phase'[m] = phase[m] /\ missed'[m] = missed[m]
    <3>1. /\ co' = [co EXCEPT ![n] = [@ EXCEPT !["main"] = Search(FALSE),
                                             !["beat"] = Send("zadd")]]
          /\ phase' = [phase EXCEPT ![n] = "up"]
          /\ missed' = [missed EXCEPT ![n] = FALSE]
      BY <1>7 DEF RegisterNotify
    <3>2. \A m \in Nodes \ {n} : missed'[m] = missed[m]
      BY <3>1 DEF TypeOK
    <3>3. phase'[n] = "up" /\ \A m \in Nodes \ {n} : phase'[m] = phase[m]
      BY <3>1 DEF TypeOK
    <3>4. \A m \in Nodes \ {n} : co'[m] = co[m]
      BY <3>1 DEF TypeOK
    <3>5. /\ co'[n]["main"] = Search(FALSE) /\ co'[n]["beat"] = Send("zadd")
          /\ co'[n]["note"] = co[n]["note"]
      BY <1>1, <3>1, ZenonT(30) DEF TypeOK
    <3> QED BY <3>2, <3>3, <3>4, <3>5 DEF Main, Beat
  <2> HIDE DEF search
  <2>2. /\ hb'[n] # None /\ hb'[n] <= MaxLag /\ hb'[n] \in Int
    <3>1. Listed(n) /\ co[n]["main"].at = "publish"
      BY <1>7 DEF RegisterNotify, Answer, Listed, Main
    <3>2. hb'[n] = hb[n] /\ hb[n] \in Int
      BY <1>1, <1>3, <3>1, NotPurged, NotOld
    <3>3. hb[n] # None /\ hb[n] <= Main(n).age
      BY <1>2, <3>1 DEF Live, Fresh, Main
    <3> QED BY <1>2, <1>4, <3>2, <3>3
  <2>3. Live(n)'
    <3>1. Roles(n)'
      BY <1>1, <1>2, <1>8, <2>1 DEF Live, Roles, Main, Beat
    <3>2. InTime(n)'
      BY <1>1, <1>2, <1>8, <2>1 DEF Live, InTime, Main, Beat
    <3>3. Fresh(n)'
      BY <1>1, <1>2, <1>8, <2>1, <2>2 DEF Fresh
    <3> QED BY <3>1, <3>2, <3>3 DEF Live
  <2> QED BY <1>1, <1>3, <2>1, <2>3, OthersLive DEF LiveInv
<1> QED BY <1>5, <1>6, <1>7

\* Steps of a node that leave the heartbeat set and the connection's history.
LEMMA LiveWake ==
  ASSUME LagAssumption, TypeOK, LiveInv, NEW n \in Nodes,
         BeatWake(n) \/ BeatReconnect(n) \/ HandleNotify(n) \/ Exit(n)
  PROVE  LiveInv'
<1> DEFINE found == Search(TRUE)
           again == Search(FALSE)
<1>1. /\ Who = {"main", "beat", "note"}
      /\ found.at = "clean" /\ found.age = 0 /\ again.at = "clean" /\ again.age = 0
      /\ Send("zadd").at = "zadd" /\ Send("zadd").age = 0
      /\ Send("offline").at = "offline" /\ Send("offline").age = 0
  BY DEF Who, Search, Send, Idle
<1>2. /\ Live(n) /\ Interval \in Nat /\ MaxLag \in Nat
      /\ Beat(n).age \in Nat /\ hb[n] \in Int \cup {None}
  BY <1>1, DiscoverAssumption DEF LiveInv, TypeOK, Coroutines, Beat
<1>3. CASE BeatWake(n)
  <2>1. /\ co' = [co EXCEPT ![n]["beat"] = Send("zadd")]
        /\ UNCHANGED <<hb, phase, missed>>
        /\ Beat(n).at = "sleep"
    BY <1>3 DEF BeatWake, Wake, redisVars, Beat
  <2>2. /\ Beat(n)' = Send("zadd") /\ Main(n)' = Main(n)
        /\ co'[n]["note"] = co[n]["note"]
    BY <1>1, <2>1 DEF TypeOK, Main, Beat
  <2>3. Roles(n)'
    BY <1>1, <1>2, <2>1, <2>2 DEF Live, Roles, Main, Beat
  <2>4. InTime(n)'
    BY <1>1, <1>2, <2>1, <2>2 DEF Live, InTime, Main, Beat
  <2>5. Fresh(n)'
    <3>1. Beat(n).age <= Interval
      BY <1>2, <2>1 DEF Live, InTime
    <3> QED BY <1>1, <1>2, <2>1, <2>2, <3>1 DEF Live, Fresh
  <2> QED BY <1>1, <2>1, <2>3, <2>4, <2>5, ActorOnly DEF Live
<1>4. CASE BeatReconnect(n)
  <2>1. /\ co' = [co EXCEPT ![n]["beat"] = again]
        /\ UNCHANGED <<hb, phase>> /\ missed' = [missed EXCEPT ![n] = TRUE]
        /\ Beat(n).at = "sleep"
    BY <1>4 DEF BeatReconnect, Wake, redisVars, Beat
  <2> HIDE DEF again
  <2>2. /\ Beat(n)' = again /\ Main(n)' = Main(n)
        /\ co'[n]["note"] = co[n]["note"]
    BY <1>1, <2>1 DEF TypeOK, Main, Beat
  <2>3. missed'[n] /\ \A m \in Nodes \ {n} : missed'[m] = missed[m]
    BY <2>1 DEF TypeOK
  <2>4. Roles(n)'
    BY <1>1, <1>2, <2>1, <2>2 DEF Live, Roles, Main, Beat
  <2>5. InTime(n)'
    BY <1>1, <1>2, <2>1, <2>2 DEF Live, InTime, Main, Beat
  <2>6. Fresh(n)'
    BY <1>2, <2>1, <2>2, <2>3 DEF Live, Fresh
  <2> QED BY <1>1, <2>1, <2>3, <2>4, <2>5, <2>6, ActorOnly DEF Live
<1>5. CASE HandleNotify(n)
  <2>1. UNCHANGED <<hb, phase, missed>>
    BY <1>5 DEF HandleNotify, redisVars
  <2>2. CASE UNCHANGED co
    BY <2>1, <2>2 DEF LiveInv, Live, Roles, InTime, Fresh, Main, Beat
  <2>3. CASE co' = [co EXCEPT ![n]["note"] = found]
    <3> HIDE DEF found
    <3>1. Beat(n)' = Beat(n) /\ Main(n)' = Main(n) /\ co'[n]["note"] = found
      BY <1>1, <2>3 DEF TypeOK, Main, Beat
    <3>2. Roles(n)'
      BY <1>1, <1>2, <2>1, <3>1 DEF Live, Roles, Main, Beat
    <3>3. InTime(n)'
      BY <1>1, <1>2, <2>1, <3>1 DEF Live, InTime, Main, Beat
    <3>4. Fresh(n)'
      BY <1>2, <2>1, <3>1 DEF Live, Fresh
    <3> QED BY <1>1, <2>1, <2>3, <3>2, <3>3, <3>4, ActorOnly DEF Live
  <2> QED BY <1>5, <2>2, <2>3 DEF HandleNotify, Wake
<1>6. CASE Exit(n)
  <2>1. /\ co' = [co EXCEPT ![n]["main"] = Send("offline")]
        /\ UNCHANGED <<hb, phase, missed>>
        /\ Main(n).at = "idle"
    BY <1>6 DEF Exit, Wake, redisVars, Main
  <2>2. /\ Main(n)' = Send("offline") /\ Beat(n)' = Beat(n)
        /\ co'[n]["note"] = co[n]["note"]
    BY <1>1, <2>1 DEF TypeOK, Main, Beat
  <2>3. Roles(n)'
    BY <1>1, <1>2, <2>1, <2>2 DEF Live, Roles, Main, Beat
  <2>4. InTime(n)'
    BY <1>1, <1>2, <2>1, <2>2 DEF Live, InTime, Main, Beat
  <2>5. Fresh(n)'
    BY <1>1, <1>2, <2>1, <2>2 DEF Live, Fresh
  <2> QED BY <1>1, <2>1, <2>3, <2>4, <2>5, ActorOnly DEF Live
<1> QED BY <1>3, <1>4, <1>5, <1>6

LEMMA LiveBeatZadd ==
  ASSUME LagAssumption, TypeOK, LiveInv, NEW n \in Nodes, BeatZadd(n)
  PROVE  LiveInv'
<1> DEFINE again == Search(FALSE)
<1>1. /\ Who = {"main", "beat", "note"} /\ "zadd" \in Commands
      /\ again.at = "clean" /\ again.age = 0
  BY DEF Who, Commands, Search, Send, Idle
<1>2. /\ co' = [co EXCEPT ![n]["beat"] = again]
      /\ missed' = [missed EXCEPT ![n] = FALSE]
      /\ phase' = phase /\ Beat(n).at = "zadd" /\ Execute(n, "beat")
  BY DEF BeatZadd, Answer, GoOn, Beat
<1> HIDE DEF again
<1>3. /\ Live(n) /\ Interval \in Nat /\ MaxLag \in Nat /\ Skew[n] \in Nat
      /\ Beat(n).age \in Nat
  BY <1>1, DiscoverAssumption DEF LiveInv, TypeOK, Coroutines, Beat
<1>4. /\ Beat(n)' = again /\ Main(n)' = Main(n) /\ co'[n]["note"] = co[n]["note"]
  BY <1>1, <1>2 DEF TypeOK, Main, Beat
<1>5. \A m \in Nodes \ {n} : missed'[m] = missed[m]
  BY <1>2 DEF TypeOK
<1>6. Roles(n)'
  BY <1>1, <1>2, <1>3, <1>4 DEF Live, Roles, Main, Beat
<1>7. InTime(n)'
  BY <1>1, <1>2, <1>3, <1>4 DEF Live, InTime, Main, Beat
<1>8. Fresh(n)'
  <2>1. hb'[n] = Beat(n).age - Skew[n] /\ Beat(n).age <= MaxLag
    BY <1>1, <1>2, <1>3 DEF Execute, TypeOK, Score, Live, InTime, Beat
  <2>2. hb'[n] # None /\ hb'[n] <= MaxLag /\ hb'[n] \in Int
    BY <1>3, <2>1, DiscoverAssumption
  <2>3. Main(n).at # "publish"
    BY <1>2, <1>3 DEF Live, Roles
  <2> QED BY <1>1, <1>3, <1>4, <2>2, <2>3 DEF Fresh
<1> QED BY <1>1, <1>2, <1>5, <1>6, <1>7, <1>8, ActorOnly DEF Live

LEMMA LiveExit ==
  ASSUME LagAssumption, TypeOK, LiveInv, NEW n \in Nodes, ExitPublish(n) \/ ExitZrem(n)
  PROVE  LiveInv'
<1>1. /\ Who = {"main", "beat", "note"} /\ "idle" \notin Commands
      /\ Send("zrem").at = "zrem" /\ Send("zrem").age = 0 /\ Idle.at = "idle"
  BY DEF Who, Commands, Send, Idle
<1>2. Live(n) /\ MaxLag \in Nat
  BY DiscoverAssumption DEF LiveInv
<1>3. CASE ExitPublish(n)
  <2>1. /\ co' = [co EXCEPT ![n]["main"] = Send("zrem")]
        /\ UNCHANGED <<phase, missed>> /\ Execute(n, "main")
    BY <1>3 DEF ExitPublish, Answer, GoOn
  <2>2. /\ Main(n)' = Send("zrem") /\ Beat(n)' = Beat(n)
        /\ co'[n]["note"] = co[n]["note"]
    BY <1>1, <2>1 DEF TypeOK, Main, Beat
  <2>3. Roles(n)'
    BY <1>1, <1>2, <2>1, <2>2 DEF Live, Roles, Main, Beat
  <2>4. InTime(n)'
    BY <1>1, <1>2, <2>1, <2>2 DEF Live, InTime, Main, Beat
  <2>5. Fresh(n)'
    BY <1>1, <1>2, <2>1, <2>2 DEF Live, Fresh
  <2> QED BY <1>1, <2>1, <2>3, <2>4, <2>5, ActorOnly DEF Live
<1>4. CASE ExitZrem(n)
  <2>1. /\ co' = [co EXCEPT ![n]["main"] = Idle]
        /\ phase' = [phase EXCEPT ![n] = "exited"] /\ missed' = missed
        /\ Execute(n, "main")
    BY <1>4 DEF ExitZrem, Answer, GoOn
  <2>2. /\ Main(n)' = Idle /\ Beat(n)' = Beat(n) /\ co'[n]["note"] = co[n]["note"]
    BY <1>1, <2>1 DEF TypeOK, Main, Beat
  <2>3. phase'[n] = "exited" /\ \A m \in Nodes \ {n} : phase'[m] = phase[m]
    BY <2>1 DEF TypeOK
  <2>4. Roles(n)'
    BY <1>1, <1>2, <2>1, <2>2, <2>3 DEF Live, Roles, Main, Beat
  <2>5. InTime(n)'
    BY <1>1, <1>2, <2>1, <2>2 DEF Live, InTime, Main, Beat
  <2>6. Fresh(n)'
    BY <1>1, <2>2, <2>3 DEF Fresh
  <2> QED BY <1>1, <2>1, <2>3, <2>4, <2>5, <2>6, ActorOnly DEF Live
<1> QED BY <1>3, <1>4

\* A command that is executed without a reply: its coroutine still waits.
LEMMA LiveExecuteUnanswered ==
  ASSUME LagAssumption, TypeOK, LiveInv, NEW n \in Nodes, ExecuteUnanswered(n)
  PROVE  LiveInv'
<1>1. PICK w \in Who : Execute(n, w)
  BY DEF ExecuteUnanswered, TypeOK
<1>2. UNCHANGED <<co, phase, missed>> /\ Who = {"main", "beat", "note"}
  BY DEF ExecuteUnanswered, Who
<1>3. /\ Live(n) /\ Interval \in Nat /\ MaxLag \in Nat /\ Skew[n] \in Nat
      /\ Beat(n).age \in Nat
  BY <1>2, DiscoverAssumption DEF LiveInv, TypeOK, Coroutines, Beat
<1>4. Roles(n)' /\ InTime(n)'
  BY <1>2, <1>3 DEF Live, Roles, InTime, Main, Beat
<1>5. Fresh(n)'
  <2> SUFFICES ASSUME Listed(n) PROVE Fresh(n)'
    BY <1>2 DEF Fresh, Listed, Main
  <2>1. CASE co[n][w].at \notin {"zadd", "zrem"}
    <3>1. hb'[n] = hb[n]
      BY <1>1, <2>1, NotPurged
    <3> QED BY <1>2, <1>3, <3>1 DEF Live, Fresh, Main, Beat
  <2>2. CASE co[n][w].at = "zrem"
    BY <1>3, <2>2 DEF Live, Roles, Listed, Main
  <2>3. CASE co[n][w].at = "zadd"
    <3>1. w = "beat" /\ Main(n).at # "publish"
      BY <1>2, <1>3, <2>3 DEF Live, Roles, Listed, Main, Beat
    <3>2. hb'[n] = Beat(n).age - Skew[n] /\ Beat(n).at = "zadd"
      BY <1>1, <2>3, <3>1 DEF Execute, TypeOK, Score, Beat
    <3>3. hb'[n] # None /\ hb'[n] \in Int /\ hb'[n] <= Beat(n).age
      BY <1>3, <3>2, DiscoverAssumption
    <3> QED BY <1>2, <1>3, <3>1, <3>2, <3>3 DEF Fresh, Main, Beat
  <2> QED BY <2>1, <2>2, <2>3
<1> QED BY <1>1, <1>2, <1>4, <1>5, OthersLive DEF LiveInv, Live

LEMMA LiveFailAll ==
  ASSUME LagAssumption, TypeOK, LiveInv, NEW n \in Nodes, FailAll(n)
  PROVE  LiveInv'
<1> DEFINE again == Search(FALSE)
<1>1. /\ Who = {"main", "beat", "note"}
      /\ Commands = {"hset", "zadd", "publish", "offline", "zrem", "clean", "range", "hget"}
      /\ again.at = "clean" /\ again.age = 0
      /\ Idle.at = "idle" /\ Asleep.at = "sleep" /\ Asleep.age = 0
  BY DEF Who, Commands, Search, Send, Asleep, Idle
<1>2. /\ Live(n) /\ Interval \in Nat /\ MaxLag \in Nat
      /\ Beat(n).age \in Nat /\ hb[n] \in Int \cup {None}
  BY <1>1, DiscoverAssumption DEF LiveInv, TypeOK, Coroutines, Beat
<1>3. /\ \A m \in Nodes \ {n} : co'[m] = co[m]
      /\ Main(n)' = Idle /\ co'[n]["note"] = Idle
      /\ \/ Beat(n)' = Beat(n) /\ Beat(n).at \notin Commands
         \/ Beat(n)' = Asleep /\ Beat(n).at \in Commands
         \/ Beat(n)' = again /\ Beat(n).at = "zadd"
  BY <1>1, FailAllStates DEF Main
<1> HIDE DEF again
<1>4. /\ hb' = hb
      /\ phase' = [phase EXCEPT ![n] = IF @ = "starting" THEN "off" ELSE @]
      /\ missed' = [missed EXCEPT ![n] = @ \/ Beat(n).at = "zadd" \/ Main(n).at = "zrem"]
  BY DEF FailAll, redisVars, Main, Beat
<1>5. /\ phase'[n] = IF phase[n] = "starting" THEN "off" ELSE phase[n]
      /\ \A m \in Nodes \ {n} : phase'[m] = phase[m]
  BY <1>4 DEF TypeOK
<1>6. missed'[n] <=> missed[n] \/ Beat(n).at = "zadd" \/ Main(n).at = "zrem"
  BY <1>4, Zenon DEF TypeOK
<1>7. \A m \in Nodes \ {n} : missed'[m] = missed[m]
  BY <1>4 DEF TypeOK
<1>8. Roles(n)'
  BY <1>1, <1>2, <1>3, <1>5 DEF Live, Roles, Main, Beat
<1>9. InTime(n)'
  BY <1>1, <1>2, <1>3 DEF Live, InTime, Main, Beat
<1>10. Fresh(n)'
  <2> SUFFICES ASSUME phase'[n] = "up", ~missed'[n]
               PROVE  /\ hb[n] # None
                      /\ Beat(n)'.at = "sleep" /\ hb[n] <= 2 * MaxLag + Beat(n)'.age
    BY <1>1, <1>3, <1>4 DEF Fresh
  <2>1. phase[n] = "up" /\ ~missed[n] /\ Main(n).at # "zrem" /\ Beat(n).at # "zadd"
    BY <1>5, <1>6
  <2>2. Beat(n).at \in Commands => Beat(n).age <= MaxLag
    BY <1>1, <1>2 DEF Live, InTime, Beat
  <2>3. hb[n] # None
    BY <1>2, <2>1 DEF Live, Fresh
  <2>4. CASE Beat(n).at \notin Commands
    BY <1>1, <1>2, <1>3, <2>1, <2>4 DEF Live, Fresh
  <2>5. CASE Beat(n).at \in Commands
    BY <1>1, <1>2, <1>3, <2>1, <2>2, <2>5 DEF Live, Fresh
  <2> QED BY <2>3, <2>4, <2>5
<1> QED BY <1>3, <1>4, <1>5, <1>7, <1>8, <1>9, <1>10, OthersLive DEF LiveInv, Live

LEMMA LiveCrash ==
  ASSUME LagAssumption, TypeOK, LiveInv, NEW n \in Nodes, Crash(n)
  PROVE  LiveInv'
<1>1. /\ \A w \in Who : co'[n][w] = Idle
      /\ \A m \in Nodes \ {n} : co'[m] = co[m]
      /\ hb' = hb /\ Who = {"main", "beat", "note"}
      /\ Idle.at = "idle" /\ "idle" \notin Commands
  BY DEF Crash, TypeOK, redisVars, Idle, Who, Commands
<1>2. phase'[n] = "off" /\ \A m \in Nodes \ {n} : phase'[m] = phase[m]
  BY DEF Crash, TypeOK
<1>3. \A m \in Nodes \ {n} : missed'[m] = missed[m]
  BY DEF Crash, TypeOK
<1>4. Live(n)'
  BY <1>1, <1>2 DEF Live, Roles, InTime, Fresh, Main, Beat
<1> QED BY <1>1, <1>2, <1>3, <1>4, OthersLive DEF LiveInv

LEMMA LiveStart ==
  ASSUME LagAssumption, TypeOK, LiveInv, NEW n \in Nodes, NEW a \in Addrs, Start(n, a)
  PROVE  LiveInv'
<1>1. /\ Send("hset").at = "hset" /\ Send("hset").age = 0
      /\ Who = {"main", "beat", "note"} /\ MaxLag \in Nat
  BY DiscoverAssumption DEF Send, Idle, Who
<1>2. /\ co' = [co EXCEPT ![n]["main"] = Send("hset")]
      /\ phase' = [phase EXCEPT ![n] = "starting"]
      /\ UNCHANGED <<hb, missed>> /\ phase[n] = "off"
  BY DEF Start, Wake, redisVars
<1>3. phase'[n] = "starting" /\ \A m \in Nodes \ {n} : phase'[m] = phase[m]
  BY <1>2 DEF TypeOK
<1>4. Main(n)' = Send("hset") /\ Beat(n)' = Beat(n) /\ co'[n]["note"] = co[n]["note"]
  BY <1>1, <1>2 DEF TypeOK, Main, Beat
<1>5. Live(n)
  BY DEF LiveInv
<1>6. Roles(n)'
  BY <1>1, <1>2, <1>3, <1>4, <1>5 DEF Live, Roles, Main, Beat
<1>7. InTime(n)'
  BY <1>1, <1>4, <1>5 DEF Live, InTime, Main, Beat
<1>8. Fresh(n)'
  BY <1>1, <1>3, <1>4 DEF Fresh
<1> QED BY <1>1, <1>2, <1>3, <1>6, <1>7, <1>8, ActorOnly DEF Live

LEMMA LiveTick == ASSUME TypeOK, LiveInv, Tick PROVE LiveInv'
<1> SUFFICES ASSUME NEW n \in Nodes PROVE Live(n)'
  BY DEF LiveInv
<1>1. /\ Who = {"main", "beat", "note"} /\ "sleep" \notin Commands
      /\ "idle" \notin Commands /\ Searching \subseteq Commands
      /\ {"publish", "zadd"} \subseteq Commands
  BY DEF Who, Commands, Searching
<1>2. \A w \in Who :
         /\ co'[n][w].at = co[n][w].at
         /\ co'[n][w].age = IF co[n][w].at = "idle" THEN co[n][w].age
                            ELSE co[n][w].age + 1
         /\ co[n][w].age \in Nat
  <2> SUFFICES ASSUME NEW w \in Who
               PROVE  /\ co'[n][w].at = co[n][w].at
                      /\ co'[n][w].age = IF co[n][w].at = "idle" THEN co[n][w].age
                                         ELSE co[n][w].age + 1
                      /\ co[n][w].age \in Nat
    OBVIOUS
  <2>1. co'[n][w] = IF co[n][w].at = "idle" THEN co[n][w]
                    ELSE [co[n][w] EXCEPT !.age = co[n][w].age + 1]
    BY DEF Tick
  <2>2. co[n][w] \in Coroutines
    BY DEF TypeOK
  <2> QED BY <2>1, <2>2 DEF Coroutines
<1>3. /\ hb[n] = None => hb'[n] = None
      /\ hb[n] # None => hb'[n] \in Int /\ hb'[n] <= hb[n] + 1 /\ hb[n] \in Int
  BY DiscoverAssumption DEF Tick, TypeOK, Older
<1>4. /\ Live(n) /\ Interval \in Nat /\ MaxLag \in Nat
      /\ UNCHANGED <<phase, missed>> /\ None \notin Int
  BY DiscoverAssumption DEF LiveInv, Tick
<1>5. Roles(n)'
  BY <1>1, <1>2, <1>4 DEF Live, Roles, Main, Beat
<1>6. InTime(n)'
  <2>1. \A w \in Who : co[n][w].at \in Commands => co[n][w].age < MaxLag
    BY DEF Tick, MayWait
  <2>2. co[n]["beat"].at = "sleep" => co[n]["beat"].age < Interval
    BY <1>1 DEF Tick, MayWait
  <2> QED BY <1>1, <1>2, <1>4, <2>1, <2>2 DEF InTime, Beat
<1>7. Fresh(n)'
  <2>1. Main(n).at = "publish" => hb'[n] # None /\ hb'[n] <= Main(n)'.age
    BY <1>1, <1>2, <1>3, <1>4 DEF Live, Fresh, Main
  <2>2. ASSUME phase[n] = "up", ~missed[n], Main(n).at # "zrem"
        PROVE  /\ hb'[n] # None
               /\ Beat(n).at = "zadd" => hb'[n] <= Interval + 2 * MaxLag + Beat(n)'.age
               /\ Beat(n).at \in Searching => hb'[n] <= MaxLag + Beat(n)'.age
               /\ Beat(n).at = "sleep" => hb'[n] <= 2 * MaxLag + Beat(n)'.age
    BY <1>1, <1>2, <1>3, <1>4, <2>2 DEF Live, Fresh, Beat, Searching
  <2> QED BY <1>1, <1>2, <1>4, <2>1, <2>2 DEF Live, Fresh, Main, Beat, Searching
<1> QED BY <1>5, <1>6, <1>7 DEF Live

LEMMA LiveNext == LagAssumption /\ TypeOK /\ LiveInv /\ [Next]_vars => LiveInv'
<1> SUFFICES ASSUME LagAssumption, TypeOK, LiveInv, [Next]_vars PROVE LiveInv'
  OBVIOUS
<1>1. CASE Tick
  BY <1>1, LiveTick
<1>2. ASSUME NEW n \in Nodes, Answered(n) PROVE LiveInv'
  BY <1>2, LiveUpdate, LiveRegister, LiveBeatZadd, LiveExit DEF Answered
<1>3. ASSUME NEW n \in Nodes, Timer(n) \/ HandleNotify(n) PROVE LiveInv'
  BY <1>3, LiveWake DEF Timer
<1>4. ASSUME NEW n \in Nodes,
             Subscribe(n) \/ DropConnection(n) \/ DropSubscription(n)
             \/ SubscribeFails(n) \/ UNCHANGED vars
      PROVE  LiveInv'
  BY <1>4 DEF Subscribe, DropConnection, DropSubscription, SubscribeFails, vars, redisVars, nodeVars,
              LiveInv, Live, Roles, InTime, Fresh, Main, Beat
<1>5. ASSUME NEW n \in Nodes, Environment(n) \/ FailAll(n) PROVE LiveInv'
  BY <1>4, <1>5, LiveStart, LiveWake, LiveExecuteUnanswered, LiveCrash, LiveFailAll
     DEF Environment
<1>6. CASE UNCHANGED vars
  BY <1>6 DEF vars, redisVars, nodeVars, LiveInv, Live, Roles, InTime, Fresh, Main, Beat
<1> QED BY <1>1, <1>2, <1>3, <1>4, <1>5, <1>6 DEF Next

LEMMA LiveInit == Init => LiveInv
BY DEF Init, LiveInv, Live, Roles, InTime, Fresh, Main, Beat, Idle, Who, Commands

\* If a reply that uses the clock takes at most MaxLag, and a heartbeat period,
\* three such replies and any other clock's advance fit within NODE_TIMEOUT, no
\* search of any node purges a node whose heartbeat writes succeed.
THEOREM LiveNodesListed == ASSUME LagAssumption PROVE Spec => []LiveNodeListed
<1>1. LiveInv => LiveNodeListed
  BY DEF LiveInv, Live, Fresh, LiveNodeListed, Main
<1>2. TypeOK /\ LiveInv /\ [Next]_vars => LiveInv'
  BY LiveNext
<1> QED BY <1>1, <1>2, TypeCorrect, LiveInit, PTL DEF Spec
=============================================================================
