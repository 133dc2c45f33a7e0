------------------------ MODULE EtcdDiscoverProofs -------------------------
(***************************************************************************)
(* Discovery over etcd: who renews its lease in time stays known, and a    *)
(* watch that missed nothing yields what etcd has, for any nodes,          *)
(* addresses and times.                                                    *)
(***************************************************************************)
EXTENDS EtcdDiscover, InductionLemmas, TLAPS

Addr == Addrs \union {NoAddr}
Event == [name : Nodes, addr : Addr]
Phase == {"off", "grant", "failed", "set", "read", "open", "watching", "deaf"}
Process == [phase : Phase, addr : Addr, lease : Nat, own : BOOLEAN, beat : Nat,
            prompt : BOOLEAN, missed : BOOLEAN]

TypeOK ==
    /\ key \in [Nodes -> Addr]
    /\ left \in [Nodes -> Nat \union {NoLease}]
    /\ proc \in [Nodes -> Process]
    /\ config \in [Nodes -> [Nodes -> Addr]]
    /\ inbox \in [Nodes -> Seq(Event)]
    /\ starts \in Nat /\ faults \in Nat

\* A node whose key is attached to its lease, which it renewed in time.
Kept(n) == proc[n].own /\ proc[n].prompt

\* What is on its way comes through an open watch.
WatchInv == \A n \in Nodes : proc[n].phase # "watching" => inbox[n] = <<>>

\* The stages of CMD.start.
StartInv ==
    \A n \in Nodes :
        /\ proc[n].phase \notin {"off"} => proc[n].addr \in Addrs
        /\ proc[n].phase \in {"off", "grant", "failed", "set"} => ~proc[n].own
        /\ proc[n].phase = "grant" => proc[n].beat = 0 /\ proc[n].lease = 0
        /\ proc[n].phase = "set" =>
              /\ proc[n].beat <= MaxLag
              /\ proc[n].lease = 0 \/ proc[n].lease + proc[n].beat = TTL

\* The lease that a renewal or the way to it leaves.
LeaseInv ==
    \A n \in Nodes : Kept(n) =>
        /\ key[n] = proc[n].addr
        /\ left[n] = proc[n].lease
        /\ proc[n].beat <= Interval + MaxLag
        /\ proc[n].lease + proc[n].beat + MaxLag >= TTL

\* The own name stays in cluster_config: nothing tells a kept node otherwise.
SelfInv ==
    \A n \in Nodes :
        /\ proc[n].phase \in {"grant", "set"} \/ Kept(n)
              => config[n][n] = proc[n].addr
        /\ Kept(n) => \A i \in DOMAIN inbox[n] : inbox[n][i].name # n

\* The others: unknown until the keys are read, and what they were read to be
\* while no change was missed.
ViewInv ==
    \A n \in Nodes : \A m \in Nodes \ {n} :
        /\ proc[n].phase \in {"off", "grant", "set", "read"} => config[n][m] = NoAddr
        /\ proc[n].phase \in {"open", "watching"} /\ ~proc[n].missed
              => Applied(config[n], inbox[n])[m] = key[m]

Inv == TypeOK /\ WatchInv /\ StartInv /\ LeaseInv /\ SelfInv /\ ViewInv

-----------------------------------------------------------------------------
(* Events *)

\* A name that occurs has a last event.
LEMMA LastExists ==
    ASSUME NEW s \in Seq(Event), NEW m, NEW i \in DOMAIN s, s[i].name = m
    PROVE  \E j \in DOMAIN s : IsLast(s, m, j)
<1> DEFINE S == {d \in Nat : \E j \in DOMAIN s : s[j].name = m /\ d = Len(s) - j}
<1>1. DOMAIN s = 1 .. Len(s) /\ Len(s) \in Nat
  OBVIOUS
<1>2. Len(s) - i \in S
  BY <1>1
<1>3. PICK d \in S : \A y \in S : d <= y
  BY <1>2, LeastNumber
<1>4. PICK j \in DOMAIN s : s[j].name = m /\ d = Len(s) - j
  BY <1>3
<1>5. ASSUME NEW k \in DOMAIN s, s[k].name = m PROVE k <= j
  <2>1. Len(s) - k \in S
    BY <1>1, <1>5
  <2> QED
    BY <2>1, <1>1, <1>3, <1>4
<1> QED
  BY <1>4, <1>5 DEF IsLast

LEMMA AppliedLast ==
    ASSUME NEW c, NEW s \in Seq(Event), NEW m \in Nodes, NEW i, IsLast(s, m, i)
    PROVE  Applied(c, s)[m] = s[i].addr
<1>1. i \in DOMAIN s /\ DOMAIN s \subseteq Int
  BY DEF IsLast
<1>2. ASSUME NEW j \in DOMAIN s, IsLast(s, m, j) PROVE j = i
  BY <1>1, <1>2 DEF IsLast
<1>3. (CHOOSE j \in DOMAIN s : IsLast(s, m, j)) = i
  BY <1>1, <1>2
<1> QED
  BY <1>1, <1>3 DEF Applied

LEMMA AppliedNone ==
    ASSUME NEW c, NEW s, NEW m \in Nodes, \A i \in DOMAIN s : s[i].name # m
    PROVE  Applied(c, s)[m] = c[m]
BY DEF Applied, IsLast

LEMMA AppliedType ==
    ASSUME NEW c \in [Nodes -> Addr], NEW s \in Seq(Event)
    PROVE  Applied(c, s) \in [Nodes -> Addr]
<1>1. ASSUME NEW m \in Nodes PROVE Applied(c, s)[m] \in Addr
  <2>1. CASE \E i \in DOMAIN s : s[i].name = m
    <3>1. PICK i \in DOMAIN s : IsLast(s, m, i)
      BY <2>1, LastExists
    <3>2. Applied(c, s)[m] = s[i].addr
      BY <3>1, AppliedLast
    <3>3. s[i] \in Event
      OBVIOUS
    <3> QED
      BY <3>2, <3>3 DEF Event
  <2>2. CASE ~\E i \in DOMAIN s : s[i].name = m
    BY <2>2, AppliedNone
  <2> QED
    BY <2>1, <2>2
<1> QED
  BY <1>1 DEF Applied

\* One more event changes its name only.
LEMMA AppliedAppend ==
    ASSUME NEW c, NEW s \in Seq(Event), NEW e \in Event, NEW m \in Nodes
    PROVE  Applied(c, Append(s, e))[m] =
               IF e.name = m THEN e.addr ELSE Applied(c, s)[m]
<1> DEFINE t == Append(s, e)
<1>1. /\ t \in Seq(Event) /\ Len(t) = Len(s) + 1 /\ t[Len(t)] = e
      /\ DOMAIN s = 1 .. Len(s) /\ DOMAIN t = 1 .. Len(t) /\ Len(s) \in Nat
      /\ \A i \in DOMAIN s : t[i] = s[i]
  OBVIOUS
<1> HIDE DEF t
<1>2. CASE e.name = m
  <2>1. IsLast(t, m, Len(t))
    BY <1>1, <1>2 DEF IsLast
  <2>2. Applied(c, t)[m] = t[Len(t)].addr
    BY <2>1, <1>1, AppliedLast
  <2> QED
    BY <2>2, <1>1, <1>2 DEF t
<1>3. CASE e.name # m /\ \E i \in DOMAIN s : s[i].name = m
  <2>1. PICK i \in DOMAIN s : IsLast(s, m, i)
    BY <1>3, LastExists
  <2>2. IsLast(t, m, i)
    BY <2>1, <1>1, <1>3 DEF IsLast
  <2>3. Applied(c, t)[m] = t[i].addr /\ Applied(c, s)[m] = s[i].addr
    BY <2>1, <2>2, <1>1, AppliedLast
  <2> QED
    BY <2>1, <2>3, <1>1, <1>3 DEF t
<1>4. CASE e.name # m /\ ~\E i \in DOMAIN s : s[i].name = m
  <2>1. \A i \in DOMAIN t : t[i].name # m
    BY <1>1, <1>4
  <2>2. Applied(c, t)[m] = c[m] /\ Applied(c, s)[m] = c[m]
    BY <2>1, <1>4, AppliedNone
  <2> QED
    BY <2>2, <1>4 DEF t
<1> QED
  BY <1>2, <1>3, <1>4

\* The events after the first k, and those up to k.
LEMMA Later ==
    ASSUME NEW s \in Seq(Event), NEW k \in 1 .. Len(s)
    PROVE  /\ SubSeq(s, k + 1, Len(s)) \in Seq(Event)
           /\ DOMAIN SubSeq(s, k + 1, Len(s)) = 1 .. (Len(s) - k)
           /\ \A i \in DOMAIN SubSeq(s, k + 1, Len(s)) :
                 SubSeq(s, k + 1, Len(s))[i] = s[i + k] /\ i + k \in DOMAIN s
           /\ SubSeq(s, 1, k) \in Seq(Event) /\ DOMAIN SubSeq(s, 1, k) = 1 .. k
           /\ \A i \in 1 .. k : SubSeq(s, 1, k)[i] = s[i] /\ i \in DOMAIN s
<1> DEFINE b == SubSeq(s, k + 1, Len(s))
<1>1. Len(s) \in Nat /\ k \in Nat /\ 1 <= k /\ k <= Len(s) /\ DOMAIN s = 1 .. Len(s)
  OBVIOUS
<1>2. b \in Seq(Event) /\ DOMAIN b = 1 .. (Len(s) - k)
  BY <1>1
<1>3. \A i \in 1 .. (Len(s) - k) : b[i] = s[i + k] /\ i + k \in DOMAIN s
  BY <1>1
<1>4. SubSeq(s, 1, k) \in Seq(Event) /\ DOMAIN SubSeq(s, 1, k) = 1 .. k
  BY <1>1
<1>5. \A i \in 1 .. k : SubSeq(s, 1, k)[i] = s[i] /\ i \in DOMAIN s
  BY <1>1
<1> HIDE DEF b
<1>6. \A i \in DOMAIN b : b[i] = s[i + k] /\ i + k \in DOMAIN s
  BY <1>2, <1>3
<1> QED
  BY <1>2, <1>4, <1>5, <1>6 DEF b

\* Some events now and the rest later come to the same as all at once.
LEMMA AppliedSplit ==
    ASSUME NEW c, NEW s \in Seq(Event), NEW k \in 1 .. Len(s), NEW m \in Nodes
    PROVE  Applied(Applied(c, SubSeq(s, 1, k)), SubSeq(s, k + 1, Len(s)))[m] =
               Applied(c, s)[m]
<1> DEFINE a == SubSeq(s, 1, k)
           b == SubSeq(s, k + 1, Len(s))
<1>1. /\ a \in Seq(Event) /\ DOMAIN a = 1 .. k
      /\ b \in Seq(Event) /\ DOMAIN b = 1 .. (Len(s) - k)
      /\ \A i \in DOMAIN a : a[i] = s[i]
      /\ \A i \in DOMAIN b : b[i] = s[i + k]
      /\ DOMAIN s = 1 .. Len(s) /\ Len(s) \in Nat /\ k \in Nat
  BY Later
<1> HIDE DEF a, b
<1>b. \A i \in DOMAIN b : b[i] = s[i + k]
  BY <1>1
<1>2. CASE \E i \in DOMAIN b : b[i].name = m
  <2>1. PICK i \in DOMAIN b : IsLast(b, m, i)
    BY <1>1, <1>2, LastExists
  <2>2. ASSUME NEW j \in DOMAIN s, s[j].name = m PROVE j <= i + k
    <3>1. CASE j <= k
      BY <3>1, <2>1, <1>1
    <3>2. CASE j > k
      <4> DEFINE q == j - k
      <4>2. q \in DOMAIN b /\ q + k = j
        BY <3>2, <1>1
      <4> HIDE DEF q
      <4>3. b[q] = s[j]
        BY ONLY <4>2, <1>b
      <4> QED
        BY <4>2, <4>3, <2>1, <2>2, <1>1 DEF IsLast
    <3> QED
      BY <3>1, <3>2, <1>1
  <2>3. IsLast(s, m, i + k)
    BY <2>1, <2>2, <1>1 DEF IsLast
  <2>4. Applied(c, s)[m] = s[i + k].addr
    BY <2>3, AppliedLast
  <2>5. Applied(Applied(c, a), b)[m] = b[i].addr
    BY <2>1, <1>1, AppliedLast
  <2> QED
    BY <2>4, <2>5, <2>1, <1>1 DEF a, b
<1>3. CASE ~\E i \in DOMAIN b : b[i].name = m
  <2>1. Applied(Applied(c, a), b)[m] = Applied(c, a)[m]
    BY <1>3, AppliedNone
  <2>2. ASSUME NEW j \in DOMAIN s, s[j].name = m PROVE j \in DOMAIN a
    <3>1. CASE j > k
      <4> DEFINE q == j - k
      <4>2. q \in DOMAIN b /\ q + k = j
        BY <3>1, <1>1
      <4> HIDE DEF q
      <4>3. b[q] = s[j]
        BY ONLY <4>2, <1>b
      <4> QED
        BY <4>2, <4>3, <2>2, <1>3
    <3> QED
      BY <3>1, <1>1
  <2>3. CASE \E j \in DOMAIN a : a[j].name = m
    <3>1. PICK j \in DOMAIN a : IsLast(a, m, j)
      BY <2>3, <1>1, LastExists
    <3>2. IsLast(s, m, j)
      BY <3>1, <2>2, <1>1 DEF IsLast
    <3>3. Applied(c, s)[m] = s[j].addr
      BY <3>2, AppliedLast
    <3>4. Applied(c, a)[m] = a[j].addr
      BY <3>1, <1>1, AppliedLast
    <3>5. a[j] = s[j]
      BY <1>1
    <3> QED
      BY <3>3, <3>4, <3>5, <2>1 DEF a, b
  <2>4. CASE ~\E j \in DOMAIN a : a[j].name = m
    <3>1. \A j \in DOMAIN s : s[j].name # m
      BY <2>2, <2>4, <1>1
    <3>2. Applied(c, s)[m] = c[m] /\ Applied(c, a)[m] = c[m]
      BY <3>1, <2>4, AppliedNone
    <3> QED
      BY <3>2, <2>1 DEF a, b
  <2> QED
    BY <2>3, <2>4
<1> QED
  BY <1>2, <1>3

-----------------------------------------------------------------------------
(* The invariant *)

LEMMA InitInv == EtcdInit => Inv
<1> SUFFICES ASSUME EtcdInit PROVE Inv
  OBVIOUS
<1>1. TypeOK
  BY EtcdAssumption DEF EtcdInit, TypeOK, NoOne, Off, Addr, Process, Phase
<1>2. WatchInv /\ StartInv /\ LeaseInv /\ SelfInv
  BY DEF EtcdInit, WatchInv, StartInv, LeaseInv, SelfInv, Kept, Off
<1>3. ASSUME NEW n \in Nodes, NEW m \in Nodes
      PROVE  config[n][m] = NoAddr /\ proc[n].phase = "off"
  BY DEF EtcdInit, NoOne, Off
<1>4. ViewInv
  BY <1>3, Zenon DEF ViewInv
<1> QED
  BY <1>1, <1>2, <1>4 DEF Inv

LEMMA GrantStep ==
    ASSUME Inv, NEW n \in Nodes, Grant(n)
    PROVE  Inv'
<1> DEFINE p == [proc[n] EXCEPT !.phase = "set", !.lease = TTL]
<1>1. proc[n] \in Process /\ proc \in [Nodes -> Process]
  BY DEF Inv, TypeOK
<1>2. /\ proc[n].phase = "grant"
      /\ p.phase = "set" /\ p.lease = TTL
      /\ p.addr = proc[n].addr /\ p.own = proc[n].own
      /\ p.beat = proc[n].beat /\ p.prompt = proc[n].prompt
      /\ p.missed = proc[n].missed
  BY <1>1 DEF Grant, Process
<1>3. p \in Process
  BY <1>1, EtcdAssumption DEF Process, Phase
<1>4. /\ proc' = [proc EXCEPT ![n] = p]
      /\ UNCHANGED <<key, left, config, inbox, starts>>
      /\ faults' \in Nat
  BY <1>1 DEF Grant, Inv, TypeOK
<1> HIDE DEF p
<1>5. proc'[n] = p /\ \A x \in Nodes \ {n} : proc'[x] = proc[x]
  BY <1>1, <1>4
<1>6. TypeOK'
  BY <1>1, <1>3, <1>4 DEF Inv, TypeOK
<1>7. WatchInv'
  BY <1>1, <1>2, <1>4, <1>5 DEF Inv, WatchInv
<1>8. StartInv'
  BY <1>1, <1>2, <1>4, <1>5, EtcdAssumption DEF Inv, StartInv
<1>9. LeaseInv'
  BY <1>1, <1>2, <1>4, <1>5 DEF Inv, LeaseInv, Kept, StartInv
<1>10. SelfInv'
  BY <1>1, <1>2, <1>4, <1>5 DEF Inv, SelfInv, Kept, StartInv
<1>11. ViewInv'
  BY <1>1, <1>2, <1>4, <1>5 DEF Inv, ViewInv, StartInv
<1> QED
  BY <1>6, <1>7, <1>8, <1>9, <1>10, <1>11 DEF Inv

LEMMA GrantFailsStep ==
    ASSUME Inv, NEW n \in Nodes, GrantFails(n)
    PROVE  Inv'
<1> DEFINE p == [proc[n] EXCEPT !.phase = "failed"]
<1>1. proc[n] \in Process /\ proc \in [Nodes -> Process]
  BY DEF Inv, TypeOK
<1>2. /\ proc[n].phase = "grant"
      /\ p.phase = "failed"
      /\ p.addr = proc[n].addr /\ p.lease = proc[n].lease
      /\ p.own = proc[n].own /\ p.beat = proc[n].beat
      /\ p.prompt = proc[n].prompt /\ p.missed = proc[n].missed
  BY <1>1 DEF GrantFails, Fault, Process
<1>3. p \in Process
  BY <1>1 DEF Process, Phase
<1>4. /\ proc' = [proc EXCEPT ![n] = p]
      /\ UNCHANGED <<key, left, config, inbox, starts>>
      /\ faults' \in Nat
  BY <1>1 DEF GrantFails, Fault, Inv, TypeOK
<1> HIDE DEF p
<1>5. proc'[n] = p /\ \A x \in Nodes \ {n} : proc'[x] = proc[x]
  BY <1>1, <1>4
<1>6. TypeOK'
  BY <1>1, <1>3, <1>4 DEF Inv, TypeOK
<1>7. WatchInv'
  BY <1>1, <1>2, <1>4, <1>5 DEF Inv, WatchInv
<1>8. StartInv'
  BY <1>1, <1>2, <1>4, <1>5 DEF Inv, StartInv
<1>9. LeaseInv'
  BY <1>1, <1>2, <1>4, <1>5 DEF Inv, LeaseInv, Kept, StartInv
<1>10. SelfInv'
  BY <1>1, <1>2, <1>4, <1>5 DEF Inv, SelfInv, Kept, StartInv
<1>11. ViewInv'
  BY <1>1, <1>2, <1>4, <1>5 DEF Inv, ViewInv, StartInv
<1> QED
  BY <1>6, <1>7, <1>8, <1>9, <1>10, <1>11 DEF Inv

LEMMA GrantRefusedStep ==
    ASSUME Inv, NEW n \in Nodes, GrantRefused(n)
    PROVE  Inv'
<1> DEFINE p == [proc[n] EXCEPT !.phase = "set"]
<1>1. proc[n] \in Process /\ proc \in [Nodes -> Process]
  BY DEF Inv, TypeOK
<1>2. /\ proc[n].phase = "grant"
      /\ p.phase = "set"
      /\ p.addr = proc[n].addr /\ p.lease = proc[n].lease
      /\ p.own = proc[n].own /\ p.beat = proc[n].beat
      /\ p.prompt = proc[n].prompt /\ p.missed = proc[n].missed
  BY <1>1 DEF GrantRefused, Fault, Process
<1>3. p \in Process
  BY <1>1 DEF Process, Phase
<1>4. /\ proc' = [proc EXCEPT ![n] = p]
      /\ UNCHANGED <<key, left, config, inbox, starts>>
      /\ faults' \in Nat
  BY <1>1 DEF GrantRefused, Fault, Inv, TypeOK
<1> HIDE DEF p
<1>5. proc'[n] = p /\ \A x \in Nodes \ {n} : proc'[x] = proc[x]
  BY <1>1, <1>4
<1>6. TypeOK'
  BY <1>1, <1>3, <1>4 DEF Inv, TypeOK
<1>7. WatchInv'
  BY <1>1, <1>2, <1>4, <1>5 DEF Inv, WatchInv
<1>8. StartInv'
  BY <1>1, <1>2, <1>4, <1>5, EtcdAssumption DEF Inv, StartInv
<1>9. LeaseInv'
  BY <1>1, <1>2, <1>4, <1>5 DEF Inv, LeaseInv, Kept, StartInv
<1>10. SelfInv'
  BY <1>1, <1>2, <1>4, <1>5 DEF Inv, SelfInv, Kept, StartInv
<1>11. ViewInv'
  BY <1>1, <1>2, <1>4, <1>5 DEF Inv, ViewInv, StartInv
<1> QED
  BY <1>6, <1>7, <1>8, <1>9, <1>10, <1>11 DEF Inv

LEMMA SetFailsStep ==
    ASSUME Inv, NEW n \in Nodes, SetFails(n)
    PROVE  Inv'
<1> DEFINE p == [proc[n] EXCEPT !.phase = "read", !.lease = 0, !.beat = 0]
<1>1. proc[n] \in Process /\ proc \in [Nodes -> Process]
  BY DEF Inv, TypeOK
<1>2. /\ proc[n].phase = "set"
      /\ p.phase = "read" /\ p.lease = 0 /\ p.beat = 0
      /\ p.addr = proc[n].addr /\ p.own = proc[n].own
      /\ p.prompt = proc[n].prompt /\ p.missed = proc[n].missed
  BY <1>1 DEF SetFails, Fault, Process
<1>3. p \in Process
  BY <1>1 DEF Process, Phase
<1>4. /\ proc' = [proc EXCEPT ![n] = p]
      /\ UNCHANGED <<key, left, config, inbox, starts>>
      /\ faults' \in Nat
  BY <1>1 DEF SetFails, Fault, Inv, TypeOK
<1> HIDE DEF p
<1>5. proc'[n] = p /\ \A x \in Nodes \ {n} : proc'[x] = proc[x]
  BY <1>1, <1>4
<1>6. TypeOK'
  BY <1>1, <1>3, <1>4 DEF Inv, TypeOK
<1>7. WatchInv'
  BY <1>1, <1>2, <1>4, <1>5 DEF Inv, WatchInv
<1>8. StartInv'
  BY <1>1, <1>2, <1>4, <1>5 DEF Inv, StartInv
<1>9. LeaseInv'
  BY <1>1, <1>2, <1>4, <1>5 DEF Inv, LeaseInv, Kept, StartInv
<1>10. SelfInv'
  BY <1>1, <1>2, <1>4, <1>5 DEF Inv, SelfInv, Kept, StartInv
<1>11. ViewInv'
  BY <1>1, <1>2, <1>4, <1>5 DEF Inv, ViewInv, StartInv
<1> QED
  BY <1>6, <1>7, <1>8, <1>9, <1>10, <1>11 DEF Inv

LEMMA ReadFailsStep ==
    ASSUME Inv, NEW n \in Nodes, ReadFails(n)
    PROVE  Inv'
<1> DEFINE p == [proc[n] EXCEPT !.phase = "open", !.missed = TRUE]
<1>1. proc[n] \in Process /\ proc \in [Nodes -> Process]
  BY DEF Inv, TypeOK
<1>2. /\ proc[n].phase = "read"
      /\ p.phase = "open" /\ p.missed = TRUE
      /\ p.addr = proc[n].addr /\ p.lease = proc[n].lease
      /\ p.own = proc[n].own /\ p.beat = proc[n].beat
      /\ p.prompt = proc[n].prompt
  BY <1>1 DEF ReadFails, Fault, Process
<1>3. p \in Process
  BY <1>1 DEF Process, Phase
<1>4. /\ proc' = [proc EXCEPT ![n] = p]
      /\ UNCHANGED <<key, left, config, inbox, starts>>
      /\ faults' \in Nat
  BY <1>1 DEF ReadFails, Fault, Inv, TypeOK
<1> HIDE DEF p
<1>5. proc'[n] = p /\ \A x \in Nodes \ {n} : proc'[x] = proc[x]
  BY <1>1, <1>4
<1>6. TypeOK'
  BY <1>1, <1>3, <1>4 DEF Inv, TypeOK
<1>7. WatchInv'
  BY <1>1, <1>2, <1>4, <1>5 DEF Inv, WatchInv
<1>8. StartInv'
  BY <1>1, <1>2, <1>4, <1>5 DEF Inv, StartInv
<1>9. LeaseInv'
  BY <1>1, <1>2, <1>4, <1>5 DEF Inv, LeaseInv, Kept, StartInv
<1>10. SelfInv'
  BY <1>1, <1>2, <1>4, <1>5 DEF Inv, SelfInv, Kept, StartInv
<1>11. ViewInv'
  BY <1>1, <1>2, <1>4, <1>5 DEF Inv, ViewInv, StartInv
<1> QED
  BY <1>6, <1>7, <1>8, <1>9, <1>10, <1>11 DEF Inv

LEMMA OpenWatchStep ==
    ASSUME Inv, NEW n \in Nodes, OpenWatch(n)
    PROVE  Inv'
<1> DEFINE p == [proc[n] EXCEPT !.phase = "watching"]
<1>1. proc[n] \in Process /\ proc \in [Nodes -> Process]
  BY DEF Inv, TypeOK
<1>2. /\ proc[n].phase = "open"
      /\ p.phase = "watching"
      /\ p.addr = proc[n].addr /\ p.lease = proc[n].lease
      /\ p.own = proc[n].own /\ p.beat = proc[n].beat
      /\ p.prompt = proc[n].prompt /\ p.missed = proc[n].missed
  BY <1>1 DEF OpenWatch, Process
<1>3. p \in Process
  BY <1>1 DEF Process, Phase
<1>4. /\ proc' = [proc EXCEPT ![n] = p]
      /\ UNCHANGED <<key, left, config, inbox, starts>>
      /\ faults' \in Nat
  BY <1>1 DEF OpenWatch, Inv, TypeOK
<1> HIDE DEF p
<1>5. proc'[n] = p /\ \A x \in Nodes \ {n} : proc'[x] = proc[x]
  BY <1>1, <1>4
<1>6. TypeOK'
  BY <1>1, <1>3, <1>4 DEF Inv, TypeOK
<1>7. WatchInv'
  BY <1>1, <1>2, <1>4, <1>5 DEF Inv, WatchInv
<1>8. StartInv'
  BY <1>1, <1>2, <1>4, <1>5 DEF Inv, StartInv
<1>9. LeaseInv'
  BY <1>1, <1>2, <1>4, <1>5 DEF Inv, LeaseInv, Kept, StartInv
<1>10. SelfInv'
  BY <1>1, <1>2, <1>4, <1>5 DEF Inv, SelfInv, Kept, StartInv
<1>11. ViewInv'
  BY <1>1, <1>2, <1>4, <1>5 DEF Inv, ViewInv, StartInv
<1> QED
  BY <1>6, <1>7, <1>8, <1>9, <1>10, <1>11 DEF Inv

LEMMA OpenFailsStep ==
    ASSUME Inv, NEW n \in Nodes, OpenFails(n)
    PROVE  Inv'
<1> DEFINE p == [proc[n] EXCEPT !.phase = "deaf"]
<1>1. proc[n] \in Process /\ proc \in [Nodes -> Process]
  BY DEF Inv, TypeOK
<1>2. /\ proc[n].phase = "open"
      /\ p.phase = "deaf"
      /\ p.addr = proc[n].addr /\ p.lease = proc[n].lease
      /\ p.own = proc[n].own /\ p.beat = proc[n].beat
      /\ p.prompt = proc[n].prompt /\ p.missed = proc[n].missed
  BY <1>1 DEF OpenFails, Fault, Process
<1>3. p \in Process
  BY <1>1 DEF Process, Phase
<1>4. /\ proc' = [proc EXCEPT ![n] = p]
      /\ UNCHANGED <<key, left, config, inbox, starts>>
      /\ faults' \in Nat
  BY <1>1 DEF OpenFails, Fault, Inv, TypeOK
<1> HIDE DEF p
<1>5. proc'[n] = p /\ \A x \in Nodes \ {n} : proc'[x] = proc[x]
  BY <1>1, <1>4
<1>6. TypeOK'
  BY <1>1, <1>3, <1>4 DEF Inv, TypeOK
<1>7. WatchInv'
  BY <1>1, <1>2, <1>4, <1>5 DEF Inv, WatchInv
<1>8. StartInv'
  BY <1>1, <1>2, <1>4, <1>5 DEF Inv, StartInv
<1>9. LeaseInv'
  BY <1>1, <1>2, <1>4, <1>5 DEF Inv, LeaseInv, Kept, StartInv
<1>10. SelfInv'
  BY <1>1, <1>2, <1>4, <1>5 DEF Inv, SelfInv, Kept, StartInv
<1>11. ViewInv'
  BY <1>1, <1>2, <1>4, <1>5 DEF Inv, ViewInv, StartInv
<1> QED
  BY <1>6, <1>7, <1>8, <1>9, <1>10, <1>11 DEF Inv

LEMMA KeepaliveFailsStep ==
    ASSUME Inv, NEW n \in Nodes, KeepaliveFails(n)
    PROVE  Inv'
<1> DEFINE p == [proc[n] EXCEPT !.beat = 0, !.prompt = FALSE]
<1>1. proc[n] \in Process /\ proc \in [Nodes -> Process]
  BY DEF Inv, TypeOK
<1>2. /\ Keeps(proc[n])
      /\ p.beat = 0 /\ p.prompt = FALSE
      /\ p.phase = proc[n].phase /\ p.addr = proc[n].addr
      /\ p.lease = proc[n].lease /\ p.own = proc[n].own
      /\ p.missed = proc[n].missed
  BY <1>1 DEF KeepaliveFails, Fault, Process
<1>3. p \in Process
  BY <1>1 DEF Process, Phase
<1>4. /\ proc' = [proc EXCEPT ![n] = p]
      /\ UNCHANGED <<key, left, config, inbox, starts>>
      /\ faults' \in Nat
  BY <1>1 DEF KeepaliveFails, Fault, Inv, TypeOK
<1> HIDE DEF p
<1>5. proc'[n] = p /\ \A x \in Nodes \ {n} : proc'[x] = proc[x]
  BY <1>1, <1>4
<1>6. TypeOK'
  BY <1>1, <1>3, <1>4 DEF Inv, TypeOK
<1>7. WatchInv'
  BY <1>1, <1>2, <1>4, <1>5 DEF Inv, WatchInv, Keeps
<1>8. StartInv'
  BY <1>1, <1>2, <1>4, <1>5 DEF Inv, StartInv, Keeps
<1>9. LeaseInv'
  BY <1>1, <1>2, <1>4, <1>5 DEF Inv, LeaseInv, Kept, StartInv, Keeps
<1>10. SelfInv'
  BY <1>1, <1>2, <1>4, <1>5 DEF Inv, SelfInv, Kept, StartInv, Keeps
<1>11. ViewInv'
  BY <1>1, <1>2, <1>4, <1>5 DEF Inv, ViewInv, StartInv, Keeps
<1> QED
  BY <1>6, <1>7, <1>8, <1>9, <1>10, <1>11 DEF Inv

LEMMA StartStep ==
    ASSUME Inv, NEW n \in Nodes, NEW a \in Addrs, Start(n, a)
    PROVE  Inv'
<1> DEFINE p == [Off EXCEPT !.phase = "grant", !.addr = a]
<1>1. proc[n] \in Process /\ proc \in [Nodes -> Process]
  BY DEF Inv, TypeOK
<1>2. /\ proc[n].phase = "off"
      /\ p.phase = "grant" /\ p.addr = a /\ ~p.own
      /\ p.beat = 0 /\ p.lease = 0
  BY <1>1 DEF Start, Off, Process
<1>3. p \in Process
  BY <1>1 DEF Process, Phase, Addr, Off
<1>4. /\ proc' = [proc EXCEPT ![n] = p]
      /\ config' = [config EXCEPT ![n] = [NoOne EXCEPT ![n] = a]]
      /\ UNCHANGED <<key, left, inbox, faults>>
      /\ starts' \in Nat
  BY <1>1 DEF Start, Off, Inv, TypeOK
<1> HIDE DEF p
<1>5. proc'[n] = p /\ \A x \in Nodes \ {n} : proc'[x] = proc[x]
  BY <1>1, <1>4
<1>6. TypeOK'
  BY <1>1, <1>3, <1>4 DEF Inv, TypeOK, NoOne, Addr
<1>7. WatchInv'
  BY <1>1, <1>2, <1>4, <1>5 DEF Inv, WatchInv
<1>8. StartInv'
  BY <1>1, <1>2, <1>4, <1>5 DEF Inv, StartInv
<1>9. LeaseInv'
  BY <1>1, <1>2, <1>4, <1>5 DEF Inv, LeaseInv, Kept
<1> DEFINE c == [NoOne EXCEPT ![n] = a]
<1>a. /\ c[n] = a /\ \A x \in Nodes \ {n} : c[x] = NoAddr
      /\ config'[n] = c /\ \A x \in Nodes \ {n} : config'[x] = config[x]
  BY <1>4 DEF NoOne, Inv, TypeOK
<1> HIDE DEF c
<1>10. SelfInv'
  BY <1>1, <1>2, <1>4, <1>5, <1>a, ZenonT(30) DEF Inv, SelfInv, Kept
<1>11. ViewInv'
  <2> SUFFICES ASSUME NEW x \in Nodes, NEW m \in Nodes \ {x}
               PROVE  /\ proc'[x].phase \in {"off", "grant", "set", "read"}
                            => config'[x][m] = NoAddr
                      /\ proc'[x].phase \in {"open", "watching"} /\ ~proc'[x].missed
                            => Applied(config'[x], inbox'[x])[m] = key'[m]
    BY DEF ViewInv
  <2>1. CASE x = n
    BY <2>1, <1>2, <1>4, <1>5, <1>a
  <2>2. CASE x # n
    BY <2>2, <1>4, <1>5, <1>a DEF Inv, ViewInv
  <2> QED
    BY <2>1, <2>2
<1> QED
  BY <1>6, <1>7, <1>8, <1>9, <1>10, <1>11 DEF Inv

LEMMA CrashStep ==
    ASSUME Inv, NEW n \in Nodes, Crash(n)
    PROVE  Inv'
<1> DEFINE p == Off
<1>1. proc[n] \in Process /\ proc \in [Nodes -> Process]
  BY DEF Inv, TypeOK
<1>2. /\ p.phase = "off" /\ ~p.own
  BY <1>1 DEF Crash, Off, Fault, Process
<1>3. p \in Process
  BY <1>1 DEF Process, Phase, Addr, Off
<1>4. /\ proc' = [proc EXCEPT ![n] = p]
      /\ config' = [config EXCEPT ![n] = NoOne]
      /\ inbox' = [inbox EXCEPT ![n] = <<>>]
      /\ UNCHANGED <<key, left, starts>>
      /\ faults' \in Nat
  BY <1>1 DEF Crash, Off, Fault, Inv, TypeOK
<1> HIDE DEF p
<1>5. proc'[n] = p /\ \A x \in Nodes \ {n} : proc'[x] = proc[x]
  BY <1>1, <1>4
<1>6. TypeOK'
  BY <1>1, <1>3, <1>4 DEF Inv, TypeOK, NoOne, Addr
<1>a. /\ config'[n] = NoOne /\ \A x \in Nodes \ {n} : config'[x] = config[x]
      /\ inbox'[n] = <<>> /\ \A x \in Nodes \ {n} : inbox'[x] = inbox[x]
      /\ \A x \in Nodes : NoOne[x] = NoAddr
  BY <1>4 DEF NoOne, Inv, TypeOK
<1>7. WatchInv'
  BY <1>1, <1>2, <1>5, <1>a DEF Inv, WatchInv
<1>8. StartInv'
  BY <1>1, <1>2, <1>4, <1>5 DEF Inv, StartInv
<1>9. LeaseInv'
  BY <1>1, <1>2, <1>4, <1>5 DEF Inv, LeaseInv, Kept
<1>10. SelfInv'
  BY <1>1, <1>2, <1>4, <1>5, <1>a DEF Inv, SelfInv, Kept
<1>11. ViewInv'
  BY <1>1, <1>2, <1>4, <1>5, <1>a DEF Inv, ViewInv
<1> QED
  BY <1>6, <1>7, <1>8, <1>9, <1>10, <1>11 DEF Inv

LEMMA ReadStep ==
    ASSUME Inv, NEW n \in Nodes, Read(n)
    PROVE  Inv'
<1> DEFINE p == [proc[n] EXCEPT !.phase = "open"]
<1>1. proc[n] \in Process /\ proc \in [Nodes -> Process]
  BY DEF Inv, TypeOK
<1>2. /\ proc[n].phase = "read" /\ p.phase = "open"
      /\ p.addr = proc[n].addr /\ p.lease = proc[n].lease
      /\ p.own = proc[n].own /\ p.beat = proc[n].beat
      /\ p.prompt = proc[n].prompt /\ p.missed = proc[n].missed
  BY <1>1 DEF Read, Process
<1>3. p \in Process
  BY <1>1 DEF Process, Phase, Addr
<1>4. /\ proc' = [proc EXCEPT ![n] = p]
      /\ config' = [config EXCEPT ![n] = Joined(config[n], key)]
      /\ UNCHANGED <<key, left, inbox, starts, faults>>
  BY <1>1 DEF Read, Inv, TypeOK
<1> HIDE DEF p
<1>5. proc'[n] = p /\ \A x \in Nodes \ {n} : proc'[x] = proc[x]
  BY <1>1, <1>4
<1> DEFINE c == Joined(config[n], key)
<1>a. /\ c \in [Nodes -> Addr]
      /\ \A x \in Nodes : c[x] = IF key[x] # NoAddr THEN key[x] ELSE config[n][x]
      /\ config'[n] = c /\ \A x \in Nodes \ {n} : config'[x] = config[x]
  BY <1>4 DEF Joined, Inv, TypeOK
<1> HIDE DEF c
<1>6. TypeOK'
  BY <1>1, <1>3, <1>4, <1>a DEF Inv, TypeOK, c
<1>7. WatchInv'
  BY <1>1, <1>2, <1>4, <1>5 DEF Inv, WatchInv
<1>8. StartInv'
  BY <1>1, <1>2, <1>4, <1>5 DEF Inv, StartInv
<1>9. LeaseInv'
  BY <1>1, <1>2, <1>4, <1>5 DEF Inv, LeaseInv, Kept
<1>10. SelfInv'
  <2>1. Kept(n) => c[n] = proc[n].addr
    BY <1>a DEF Inv, SelfInv, LeaseInv
  <2> QED
    BY <2>1, <1>2, <1>4, <1>5, <1>a DEF Inv, SelfInv, Kept
<1>11. ViewInv'
  <2> SUFFICES ASSUME NEW x \in Nodes, NEW m \in Nodes \ {x}
               PROVE  /\ proc'[x].phase \in {"off", "grant", "set", "read"}
                            => config'[x][m] = NoAddr
                      /\ proc'[x].phase \in {"open", "watching"} /\ ~proc'[x].missed
                            => Applied(config'[x], inbox'[x])[m] = key'[m]
    BY DEF ViewInv
  <2>1. CASE x = n
    <3>1. inbox[n] = <<>> /\ config[n][m] = NoAddr
      BY <1>2, <2>1 DEF Inv, WatchInv, ViewInv
    <3>2. Applied(c, <<>>)[m] = c[m]
      BY AppliedNone
    <3> QED
      BY <2>1, <3>1, <3>2, <1>2, <1>4, <1>5, <1>a
  <2>2. CASE x # n
    BY <2>2, <1>4, <1>5, <1>a DEF Inv, ViewInv
  <2> QED
    BY <2>1, <2>2
<1> QED
  BY <1>6, <1>7, <1>8, <1>9, <1>10, <1>11 DEF Inv

LEMMA StreamEndsStep ==
    ASSUME Inv, NEW n \in Nodes, StreamEnds(n)
    PROVE  Inv'
<1> DEFINE p == [proc[n] EXCEPT !.phase = "open",
                               !.missed = proc[n].missed \/ inbox[n] # <<>>]
<1>1. proc[n] \in Process /\ proc \in [Nodes -> Process]
  BY DEF Inv, TypeOK
<1>2. /\ proc[n].phase = "watching" /\ p.phase = "open"
      /\ p.addr = proc[n].addr /\ p.lease = proc[n].lease
      /\ p.own = proc[n].own /\ p.beat = proc[n].beat
      /\ p.prompt = proc[n].prompt
      /\ ~p.missed => ~proc[n].missed /\ inbox[n] = <<>>
  BY <1>1 DEF StreamEnds, Fault, Process
<1>3. p \in Process
  BY <1>1 DEF Process, Phase, Addr
<1>4. /\ proc' = [proc EXCEPT ![n] = p]
      /\ inbox' = [inbox EXCEPT ![n] = <<>>]
      /\ UNCHANGED <<key, left, config, starts>>
      /\ faults' \in Nat
  BY <1>1 DEF StreamEnds, Fault, Inv, TypeOK
<1> HIDE DEF p
<1>5. proc'[n] = p /\ \A x \in Nodes \ {n} : proc'[x] = proc[x]
  BY <1>1, <1>4
<1>a. inbox'[n] = <<>> /\ \A x \in Nodes \ {n} : inbox'[x] = inbox[x]
  BY <1>4 DEF Inv, TypeOK
<1>6. TypeOK'
  BY <1>1, <1>3, <1>4 DEF Inv, TypeOK
<1>7. WatchInv'
  BY <1>1, <1>2, <1>5, <1>a DEF Inv, WatchInv
<1>8. StartInv'
  BY <1>1, <1>2, <1>4, <1>5 DEF Inv, StartInv
<1>9. LeaseInv'
  BY <1>1, <1>2, <1>4, <1>5 DEF Inv, LeaseInv, Kept
<1>10. SelfInv'
  BY <1>1, <1>2, <1>4, <1>5, <1>a DEF Inv, SelfInv, LeaseInv, Kept
<1>11. ViewInv'
  BY <1>1, <1>2, <1>4, <1>5, <1>a DEF Inv, ViewInv
<1> QED
  BY <1>6, <1>7, <1>8, <1>9, <1>10, <1>11 DEF Inv

LEMMA KeepaliveStep ==
    ASSUME Inv, NEW n \in Nodes, Keepalive(n)
    PROVE  Inv'
<1> DEFINE renewed == IF proc[n].lease > 0 THEN TTL ELSE 0
           p == [proc[n] EXCEPT !.beat = 0, !.lease = renewed]
<1>0. renewed \in Nat
  BY EtcdAssumption
<1>1. proc[n] \in Process /\ proc \in [Nodes -> Process]
  BY DEF Inv, TypeOK
<1>2. /\ proc[n].own /\ proc[n].phase # "off"
      /\ p.phase = proc[n].phase /\ p.addr = proc[n].addr
      /\ p.own = proc[n].own /\ p.prompt = proc[n].prompt
      /\ p.beat = 0 /\ p.lease = renewed /\ p.missed = proc[n].missed
  BY <1>1 DEF Keepalive, Keeps, renewed, Process
<1>3. p \in Process
  BY <1>0, <1>1 DEF Process, Phase, Addr
<1>4. /\ proc' = [proc EXCEPT ![n] = p]
      /\ left' = [left EXCEPT ![n] = renewed]
      /\ UNCHANGED <<key, config, inbox, starts, faults>>
  BY <1>1 DEF Keepalive, Keeps, renewed, Inv, TypeOK
<1> HIDE DEF p
<1>5. proc'[n] = p /\ \A x \in Nodes \ {n} : proc'[x] = proc[x]
  BY <1>1, <1>4
<1>a. left'[n] = renewed /\ \A x \in Nodes \ {n} : left'[x] = left[x]
  BY <1>4 DEF Inv, TypeOK
<1>6. TypeOK'
  BY <1>0, <1>1, <1>3, <1>4 DEF Inv, TypeOK
<1>7. WatchInv'
  BY <1>1, <1>2, <1>4, <1>5 DEF Inv, WatchInv
<1>8. StartInv'
  BY <1>1, <1>2, <1>4, <1>5 DEF Inv, StartInv
<1>9. LeaseInv'
  <2>1. Kept(n) => renewed = TTL
    BY <1>0, <1>1, EtcdAssumption DEF Inv, LeaseInv, Kept, renewed, Process
  <2>2. /\ TTL \in Nat /\ MaxLag \in Nat /\ Interval \in Nat
        /\ 0 <= Interval + MaxLag /\ TTL + 0 + MaxLag >= TTL
    BY EtcdAssumption
  <2> QED
    BY <2>1, <2>2, <1>2, <1>4, <1>5, <1>a DEF Inv, LeaseInv, Kept
<1>10. SelfInv'
  BY <1>1, <1>2, <1>4, <1>5 DEF Inv, SelfInv, StartInv, Kept
<1>11. ViewInv'
  BY <1>1, <1>2, <1>4, <1>5 DEF Inv, ViewInv, StartInv
<1> QED
  BY <1>6, <1>7, <1>8, <1>9, <1>10, <1>11 DEF Inv

\* What Tell does to the watches.
LEMMA Told ==
    ASSUME TypeOK, WatchInv, NEW n \in Nodes, NEW a \in Addr, Tell(n, a)
    PROVE  /\ inbox' \in [Nodes -> Seq(Event)]
           /\ \A x \in Nodes : proc[x].phase # "watching" => inbox'[x] = <<>>
           /\ \A x \in Nodes, m \in Nodes : proc[x].phase = "watching" =>
                 Applied(config[x], inbox'[x])[m] =
                     IF m = n THEN a ELSE Applied(config[x], inbox[x])[m]
           /\ \A x \in Nodes :
                 /\ \A i \in DOMAIN inbox[x] : inbox[x][i].name # x
                 /\ x = n => proc[x].phase # "watching"
                 => \A i \in DOMAIN inbox'[x] : inbox'[x][i].name # x
<1> DEFINE e == [name |-> n, addr |-> a]
<1>1. e \in Event /\ e.name = n /\ e.addr = a
  BY DEF Event
<1>2. ASSUME NEW x \in Nodes
      PROVE  /\ proc[x].phase = "watching" => inbox'[x] = Append(inbox[x], e)
             /\ proc[x].phase # "watching" => inbox'[x] = <<>>
             /\ inbox[x] \in Seq(Event)
  BY DEF Tell, WatchInv, TypeOK
<1> HIDE DEF e
<1>3. inbox' \in [Nodes -> Seq(Event)]
  <2>1. ASSUME NEW x \in Nodes PROVE inbox'[x] \in Seq(Event)
    <3>1. CASE proc[x].phase = "watching"
      <4>1. Append(inbox[x], e) \in Seq(Event)
        BY <1>1, <1>2
      <4> QED
        BY <3>1, <4>1, <1>2
    <3>2. CASE proc[x].phase # "watching"
      <4>1. <<>> \in Seq(Event)
        OBVIOUS
      <4> QED
        BY <3>2, <4>1, <1>2
    <3> QED
      BY <3>1, <3>2
  <2> QED
    BY <2>1 DEF Tell
<1>4. ASSUME NEW x \in Nodes, NEW m \in Nodes, proc[x].phase = "watching"
      PROVE  Applied(config[x], inbox'[x])[m] =
                 IF m = n THEN a ELSE Applied(config[x], inbox[x])[m]
  <2>1. inbox'[x] = Append(inbox[x], e) /\ inbox[x] \in Seq(Event)
    BY <1>2, <1>4
  <2> DEFINE c == config[x]
             s == inbox[x]
  <2>a. s \in Seq(Event) /\ e \in Event
    BY <2>1, <1>1
  <2> HIDE DEF c, s
  <2>2. Applied(c, Append(s, e))[m] = IF e.name = m THEN e.addr ELSE Applied(c, s)[m]
    BY <2>a, AppliedAppend, ZenonT(40)
  <2> USE DEF c, s
  <2> QED
    BY <2>1, <2>2, <1>1
<1>5. ASSUME NEW x \in Nodes, \A i \in DOMAIN inbox[x] : inbox[x][i].name # x,
             x = n => proc[x].phase # "watching", NEW i \in DOMAIN inbox'[x]
      PROVE  inbox'[x][i].name # x
  <2>1. CASE proc[x].phase = "watching"
    <3>1. inbox'[x] = Append(inbox[x], e) /\ inbox[x] \in Seq(Event) /\ x # n
      BY <2>1, <1>2, <1>5
    <3>2. CASE i = Len(inbox[x]) + 1
      BY <3>1, <3>2, <1>1
    <3>3. CASE i # Len(inbox[x]) + 1
      <4>1. i \in DOMAIN inbox[x] /\ inbox'[x][i] = inbox[x][i]
        BY <3>1, <3>3, <1>1, <1>5
      <4> QED
        BY <4>1, <1>5
    <3> QED
      BY <3>2, <3>3
  <2>2. CASE proc[x].phase # "watching"
    <3>1. inbox'[x] = <<>>
      BY <2>2, <1>2
    <3> QED
      BY <3>1, <1>5
  <2> QED
    BY <2>1, <2>2
<1> QED
  BY <1>2, <1>3, <1>4, <1>5, Zenon

\* What Missing does to the processes.
LEMMA MissingKeeps ==
    ASSUME NEW p \in [Nodes -> Process]
    PROVE  /\ Missing(p) \in [Nodes -> Process]
           /\ \A x \in Nodes :
                 /\ Missing(p)[x].phase = p[x].phase
                 /\ Missing(p)[x].addr = p[x].addr
                 /\ Missing(p)[x].lease = p[x].lease
                 /\ Missing(p)[x].own = p[x].own
                 /\ Missing(p)[x].beat = p[x].beat
                 /\ Missing(p)[x].prompt = p[x].prompt
                 /\ ~Missing(p)[x].missed => ~p[x].missed /\ p[x].phase # "open"
<1>1. ASSUME NEW x \in Nodes
      PROVE  /\ Missing(p)[x] \in Process
             /\ Missing(p)[x].phase = p[x].phase
             /\ Missing(p)[x].addr = p[x].addr
             /\ Missing(p)[x].lease = p[x].lease
             /\ Missing(p)[x].own = p[x].own
             /\ Missing(p)[x].beat = p[x].beat
             /\ Missing(p)[x].prompt = p[x].prompt
             /\ ~Missing(p)[x].missed => ~p[x].missed /\ p[x].phase # "open"
  <2>1. p[x] \in Process
    OBVIOUS
  <2> QED
    BY <2>1 DEF Missing, Blind, Process
<1> QED
  BY <1>1 DEF Missing

LEMMA SetStep ==
    ASSUME Inv, NEW n \in Nodes, Set(n)
    PROVE  Inv'
<1> DEFINE leased == proc[n].lease > 0
           lasts == IF leased THEN proc[n].lease ELSE NoLease
           p == [proc[n] EXCEPT !.phase = "read", !.own = leased, !.beat = 0]
           q == [proc EXCEPT ![n] = p]
           a == proc[n].addr
<1>1. proc[n] \in Process /\ proc \in [Nodes -> Process]
  BY DEF Inv, TypeOK
<1>2. /\ proc[n].phase = "set"
      /\ p.phase = "read" /\ p.own = leased /\ p.beat = 0
      /\ p.addr = a /\ p.lease = proc[n].lease
      /\ p.prompt = proc[n].prompt
  BY <1>1 DEF Set, Process
<1>b. lasts \in Nat \union {NoLease} /\ leased \in BOOLEAN
  BY <1>1 DEF Process
<1> HIDE DEF leased
<1>3. p \in Process
  BY <1>1, <1>b DEF Process, Phase
<1>4. /\ proc' = Missing(q)
      /\ key' = [key EXCEPT ![n] = a]
      /\ left' = [left EXCEPT ![n] = lasts]
      /\ Tell(n, a)
      /\ UNCHANGED <<config, starts, faults>>
  BY DEF Set, leased
<1>5. a \in Addrs /\ a \in Addr
  BY <1>2 DEF Inv, StartInv, Addr
<1> HIDE DEF p
<1>6. q \in [Nodes -> Process] /\ q[n] = p /\ \A x \in Nodes \ {n} : q[x] = proc[x]
  BY <1>1, <1>3
<1>a. leased => lasts = proc[n].lease /\ proc[n].lease # 0
  BY <1>1 DEF Process, leased
<1> HIDE DEF q, a, lasts
<1>7. /\ proc' \in [Nodes -> Process]
      /\ \A x \in Nodes :
            /\ proc'[x].phase = q[x].phase
            /\ proc'[x].addr = q[x].addr
            /\ proc'[x].lease = q[x].lease
            /\ proc'[x].own = q[x].own
            /\ proc'[x].beat = q[x].beat
            /\ proc'[x].prompt = q[x].prompt
            /\ ~proc'[x].missed => ~q[x].missed /\ q[x].phase # "open"
  BY <1>4, <1>6, MissingKeeps
<1>8. /\ inbox' \in [Nodes -> Seq(Event)]
      /\ \A x \in Nodes : proc[x].phase # "watching" => inbox'[x] = <<>>
      /\ \A x \in Nodes, m \in Nodes : proc[x].phase = "watching" =>
            Applied(config[x], inbox'[x])[m] =
                IF m = n THEN a ELSE Applied(config[x], inbox[x])[m]
      /\ \A x \in Nodes :
            /\ \A i \in DOMAIN inbox[x] : inbox[x][i].name # x
            /\ x = n => proc[x].phase # "watching"
            => \A i \in DOMAIN inbox'[x] : inbox'[x][i].name # x
  BY <1>4, <1>5, Told DEF Inv
<1>9. /\ key'[n] = a /\ \A x \in Nodes \ {n} : key'[x] = key[x]
      /\ left'[n] = lasts /\ \A x \in Nodes \ {n} : left'[x] = left[x]
  BY <1>4 DEF Inv, TypeOK
<1>10. TypeOK'
  BY <1>1, <1>b, <1>4, <1>5, <1>7, <1>8 DEF Inv, TypeOK, Process
<1>11. WatchInv'
  <2> SUFFICES ASSUME NEW x \in Nodes, proc'[x].phase # "watching"
               PROVE  inbox'[x] = <<>>
    BY DEF WatchInv
  <2>1. CASE x = n
    BY <2>1, <1>2, <1>8
  <2>2. CASE x # n
    <3>1. proc[x].phase # "watching"
      BY <2>2, <1>6, <1>7
    <3> QED
      BY <3>1, <1>8
  <2> QED
    BY <2>1, <2>2
<1>12. StartInv'
  BY <1>2, <1>5, <1>6, <1>7 DEF Inv, StartInv
<1>13. LeaseInv'
  <2>1. /\ TTL \in Nat /\ MaxLag \in Nat /\ Interval \in Nat
        /\ 0 <= Interval + MaxLag
    BY EtcdAssumption
  <2>2. p.own => /\ p.lease \in Nat /\ p.lease + 0 + MaxLag >= TTL
                 /\ p.lease = lasts
    BY <2>1, <1>1, <1>2, <1>a DEF Inv, StartInv, Process
  <2> QED
    BY <2>1, <2>2, <1>2, <1>6, <1>7, <1>9 DEF Inv, LeaseInv, Kept
<1>14. SelfInv'
  <2>1. inbox'[n] = <<>>
    BY <1>2, <1>8
  <2>2. config'[n][n] = a
    BY <1>2, <1>4 DEF Inv, SelfInv, a
  <2>3. ASSUME NEW x \in Nodes, x # n
        PROVE  /\ proc'[x].phase \in {"grant", "set"} \/ Kept(x)'
                     => config'[x][x] = proc'[x].addr
               /\ Kept(x)' => \A i \in DOMAIN inbox'[x] : inbox'[x][i].name # x
    <3>1. /\ proc'[x].phase = proc[x].phase /\ proc'[x].addr = proc[x].addr
          /\ Kept(x)' <=> Kept(x)
      BY <2>3, <1>6, <1>7 DEF Kept
    <3>2. config'[x][x] = config[x][x]
      BY <1>4
    <3> QED
      BY <2>3, <3>1, <3>2, <1>8 DEF Inv, SelfInv
  <2> QED
    BY <2>1, <2>2, <2>3, <1>2, <1>6, <1>7 DEF SelfInv
<1>15. ViewInv'
  <2> SUFFICES ASSUME NEW x \in Nodes, NEW m \in Nodes \ {x}
               PROVE  /\ proc'[x].phase \in {"off", "grant", "set", "read"}
                            => config'[x][m] = NoAddr
                      /\ proc'[x].phase \in {"open", "watching"} /\ ~proc'[x].missed
                            => Applied(config'[x], inbox'[x])[m] = key'[m]
    BY DEF ViewInv
  <2>1. CASE x = n
    BY <2>1, <1>2, <1>4, <1>6, <1>7 DEF Inv, ViewInv
  <2>2. CASE x # n
    <3>1. /\ proc'[x].phase = proc[x].phase /\ config'[x] = config[x]
          /\ ~proc'[x].missed => ~proc[x].missed /\ proc[x].phase # "open"
          /\ key'[m] = IF m = n THEN a ELSE key[m]
      BY <2>2, <1>4, <1>6, <1>7, <1>9
    <3>2. proc[x].phase = "watching" =>
              Applied(config[x], inbox'[x])[m] =
                  IF m = n THEN a ELSE Applied(config[x], inbox[x])[m]
      BY <1>8
    <3> QED
      BY <3>1, <3>2 DEF Inv, ViewInv
  <2> QED
    BY <2>1, <2>2
<1> QED
  BY <1>10, <1>11, <1>12, <1>13, <1>14, <1>15 DEF Inv

LEMMA ExpireStep ==
    ASSUME Inv, NEW n \in Nodes, Expire(n)
    PROVE  Inv'
<1>1. proc \in [Nodes -> Process]
  BY DEF Inv, TypeOK
<1>2. /\ key[n] # NoAddr /\ left[n] = 0
      /\ proc' = Missing(proc)
      /\ key' = [key EXCEPT ![n] = NoAddr]
      /\ Tell(n, NoAddr)
      /\ UNCHANGED <<left, config, starts, faults>>
  BY DEF Expire
<1>3. NoAddr \in Addr
  BY DEF Addr
<1>4. ~Kept(n)
  <2> SUFFICES ASSUME Kept(n) PROVE FALSE
    OBVIOUS
  <2>1. proc[n].lease = 0 /\ proc[n].beat \in Nat /\ proc[n].beat <= Interval + MaxLag
        /\ 0 + proc[n].beat + MaxLag >= TTL
    BY <1>1, <1>2 DEF Inv, LeaseInv, Process
  <2> QED
    BY <2>1, EtcdAssumption
<1>5. /\ proc' \in [Nodes -> Process]
      /\ \A x \in Nodes :
            /\ proc'[x].phase = proc[x].phase
            /\ proc'[x].addr = proc[x].addr
            /\ proc'[x].lease = proc[x].lease
            /\ proc'[x].own = proc[x].own
            /\ proc'[x].beat = proc[x].beat
            /\ proc'[x].prompt = proc[x].prompt
            /\ ~proc'[x].missed => ~proc[x].missed /\ proc[x].phase # "open"
  BY <1>1, <1>2, MissingKeeps
<1>6. /\ inbox' \in [Nodes -> Seq(Event)]
      /\ \A x \in Nodes : proc[x].phase # "watching" => inbox'[x] = <<>>
      /\ \A x \in Nodes, m \in Nodes : proc[x].phase = "watching" =>
            Applied(config[x], inbox'[x])[m] =
                IF m = n THEN NoAddr ELSE Applied(config[x], inbox[x])[m]
      /\ \A x \in Nodes :
            /\ \A i \in DOMAIN inbox[x] : inbox[x][i].name # x
            /\ x = n => proc[x].phase # "watching"
            => \A i \in DOMAIN inbox'[x] : inbox'[x][i].name # x
  BY <1>2, <1>3, Told DEF Inv
<1>7. key'[n] = NoAddr /\ \A x \in Nodes \ {n} : key'[x] = key[x]
  BY <1>2 DEF Inv, TypeOK
<1>8. \A x \in Nodes : Kept(x)' <=> Kept(x)
  BY <1>5 DEF Kept
<1>10. TypeOK'
  BY <1>2, <1>3, <1>5, <1>6 DEF Inv, TypeOK
<1>11. WatchInv'
  BY <1>5, <1>6 DEF WatchInv
<1>12. StartInv'
  BY <1>5 DEF Inv, StartInv
<1>13. LeaseInv'
  BY <1>2, <1>4, <1>5, <1>7, <1>8 DEF Inv, LeaseInv
<1>14. SelfInv'
  BY <1>2, <1>4, <1>5, <1>6, <1>8, ZenonT(30) DEF Inv, SelfInv
<1>15. ViewInv'
  <2> SUFFICES ASSUME NEW x \in Nodes, NEW m \in Nodes \ {x}
               PROVE  /\ proc'[x].phase \in {"off", "grant", "set", "read"}
                            => config'[x][m] = NoAddr
                      /\ proc'[x].phase \in {"open", "watching"} /\ ~proc'[x].missed
                            => Applied(config'[x], inbox'[x])[m] = key'[m]
    BY DEF ViewInv
  <2>1. /\ proc'[x].phase = proc[x].phase /\ config'[x] = config[x]
        /\ ~proc'[x].missed => ~proc[x].missed /\ proc[x].phase # "open"
        /\ key'[m] = IF m = n THEN NoAddr ELSE key[m]
    BY <1>2, <1>5, <1>7
  <2>2. proc[x].phase = "watching" =>
            Applied(config[x], inbox'[x])[m] =
                IF m = n THEN NoAddr ELSE Applied(config[x], inbox[x])[m]
    BY <1>6
  <2> QED
    BY <2>1, <2>2 DEF Inv, ViewInv
<1> QED
  BY <1>10, <1>11, <1>12, <1>13, <1>14, <1>15 DEF Inv

LEMMA NotifiedStep ==
    ASSUME Inv, NEW n \in Nodes, NEW k \in DOMAIN inbox[n],
           Notified(n, k)
    PROVE  Inv'
<1> DEFINE s == inbox[n]
           b == SubSeq(s, k + 1, Len(s))
           c == Applied(config[n], SubSeq(s, 1, k))
           p == [proc[n] EXCEPT !.phase = IF c[n] = NoAddr THEN "deaf" ELSE @]
<1>1. /\ proc[n] \in Process /\ proc \in [Nodes -> Process]
      /\ s \in Seq(Event) /\ k \in 1 .. Len(s)
      /\ config[n] \in [Nodes -> Addr]
  BY DEF Inv, TypeOK
<1>2. /\ b \in Seq(Event) /\ DOMAIN b = 1 .. (Len(s) - k)
      /\ \A i \in DOMAIN b : b[i] = s[i + k] /\ i + k \in DOMAIN s
      /\ SubSeq(s, 1, k) \in Seq(Event)
  BY <1>1, Later
<1>3. /\ proc[n].phase = "watching"
      /\ p.phase \in {"watching", "deaf"} /\ (p.phase = "deaf" <=> c[n] = NoAddr)
      /\ p.addr = proc[n].addr /\ p.lease = proc[n].lease
      /\ p.own = proc[n].own /\ p.beat = proc[n].beat
      /\ p.prompt = proc[n].prompt /\ p.missed = proc[n].missed
      /\ p \in Process
  BY <1>1 DEF Notified, Process, Phase
<1>4. /\ proc' = [proc EXCEPT ![n] = p]
      /\ config' = [config EXCEPT ![n] = c]
      /\ inbox' = [inbox EXCEPT ![n] = IF c[n] = NoAddr THEN <<>> ELSE b]
      /\ UNCHANGED <<key, left, starts, faults>>
  BY DEF Notified
<1>5. c \in [Nodes -> Addr]
  BY <1>1, <1>2, AppliedType
<1>6. \A m \in Nodes : Applied(c, b)[m] = Applied(config[n], s)[m]
  BY <1>1, AppliedSplit
<1>7. (\A i \in DOMAIN s : s[i].name # n) => c[n] = config[n][n]
  <2> DEFINE t == SubSeq(s, 1, k)
             f == config[n]
  <2>1. (\A i \in DOMAIN s : s[i].name # n) => \A i \in DOMAIN t : t[i].name # n
    BY <1>2
  <2> HIDE DEF t, f
  <2>2. (\A i \in DOMAIN t : t[i].name # n) => Applied(f, t)[n] = f[n]
    BY AppliedNone
  <2> QED
    BY <2>1, <2>2 DEF t, f
<1> HIDE DEF p, c, b
<1>8. /\ proc'[n] = p /\ \A x \in Nodes \ {n} : proc'[x] = proc[x]
      /\ config'[n] = c /\ \A x \in Nodes \ {n} : config'[x] = config[x]
      /\ inbox'[n] = IF c[n] = NoAddr THEN <<>> ELSE b
      /\ \A x \in Nodes \ {n} : inbox'[x] = inbox[x]
  BY <1>1, <1>4 DEF Inv, TypeOK
<1>10. TypeOK'
  <2>1. (IF c[n] = NoAddr THEN <<>> ELSE b) \in Seq(Event)
    <3>1. <<>> \in Seq(Event)
      OBVIOUS
    <3> QED
      BY <3>1, <1>2
  <2>2. inbox' \in [Nodes -> Seq(Event)]
    BY <2>1, <1>4 DEF Inv, TypeOK
  <2>3. proc' \in [Nodes -> Process] /\ config' \in [Nodes -> [Nodes -> Addr]]
    BY <1>3, <1>4, <1>5 DEF Inv, TypeOK
  <2> QED
    BY <2>2, <2>3, <1>4 DEF Inv, TypeOK
<1>11. WatchInv'
  BY <1>3, <1>8 DEF Inv, WatchInv
<1>12. StartInv'
  BY <1>3, <1>8 DEF Inv, StartInv
<1>13. LeaseInv'
  BY <1>3, <1>4, <1>8 DEF Inv, LeaseInv, Kept
<1>14. SelfInv'
  <2>1. ASSUME Kept(n)
        PROVE  /\ c[n] = proc[n].addr
               /\ \A i \in DOMAIN inbox'[n] : inbox'[n][i].name # n
    BY <2>1, <1>2, <1>7, <1>8 DEF Inv, SelfInv
  <2>2. ASSUME NEW x \in Nodes, x # n
        PROVE  /\ proc'[x].phase \in {"grant", "set"} \/ Kept(x)'
                     => config'[x][x] = proc'[x].addr
               /\ Kept(x)' => \A i \in DOMAIN inbox'[x] : inbox'[x][i].name # x
    BY <2>2, <1>8 DEF Inv, SelfInv, Kept
  <2>3. Kept(n)' <=> Kept(n)
    BY <1>3, <1>8 DEF Kept
  <2> QED
    BY <2>1, <2>2, <2>3, <1>3, <1>8 DEF SelfInv
<1>15. ViewInv'
  <2> SUFFICES ASSUME NEW x \in Nodes, NEW m \in Nodes \ {x}
               PROVE  /\ proc'[x].phase \in {"off", "grant", "set", "read"}
                            => config'[x][m] = NoAddr
                      /\ proc'[x].phase \in {"open", "watching"} /\ ~proc'[x].missed
                            => Applied(config'[x], inbox'[x])[m] = key'[m]
    BY DEF ViewInv
  <2>1. CASE x = n
    <3>1. proc'[x].phase # "deaf" => inbox'[x] = b
      BY <2>1, <1>3, <1>8
    <3> QED
      BY <2>1, <3>1, <1>3, <1>4, <1>6, <1>8 DEF Inv, ViewInv
  <2>2. CASE x # n
    BY <2>2, <1>4, <1>8 DEF Inv, ViewInv
  <2> QED
    BY <2>1, <2>2
<1> QED
  BY <1>10, <1>11, <1>12, <1>13, <1>14, <1>15 DEF Inv

LEMMA TickStep ==
    ASSUME Inv, Tick
    PROVE  Inv'
<1>1. /\ TTL \in Nat /\ MaxLag \in Nat /\ Interval \in Nat
      /\ Interval + 2 * MaxLag < TTL
  BY EtcdAssumption
<1>2. ASSUME NEW x \in Nodes
      PROVE  /\ proc'[x] \in Process
             /\ proc'[x].phase = proc[x].phase /\ proc'[x].addr = proc[x].addr
             /\ proc'[x].own = proc[x].own /\ proc'[x].prompt = proc[x].prompt
             /\ proc'[x].missed = proc[x].missed
             /\ left'[x] = IF left[x] > 0 THEN left[x] - 1 ELSE left[x]
             /\ proc[x].phase = "set" \/ Keeps(proc[x]) =>
                   /\ proc[x].beat < Due(proc[x])
                   /\ proc'[x].beat = proc[x].beat + 1
                   /\ proc'[x].lease = IF proc[x].lease > 0
                                       THEN proc[x].lease - 1 ELSE 0
             /\ ~(proc[x].phase = "set" \/ Keeps(proc[x])) => proc'[x] = proc[x]
  <2>1. proc[x] \in Process
    BY DEF Inv, TypeOK
  <2>2. proc'[x] = IF proc[x].phase = "set" \/ Keeps(proc[x])
                   THEN [proc[x] EXCEPT !.beat = @ + 1,
                                        !.lease = IF @ > 0 THEN @ - 1 ELSE 0]
                   ELSE proc[x]
    BY DEF Tick
  <2>3. left'[x] = IF left[x] > 0 THEN left[x] - 1 ELSE left[x]
    BY DEF Tick
  <2>4. proc[x].phase = "set" \/ Keeps(proc[x]) => proc[x].beat < Due(proc[x])
    BY DEF Tick
  <2>5. CASE proc[x].phase = "set" \/ Keeps(proc[x])
    <3> DEFINE r == proc[x]
               l == IF r.lease > 0 THEN r.lease - 1 ELSE 0
               p == [r EXCEPT !.beat = r.beat + 1, !.lease = l]
    <3>1. r \in Process /\ r.lease \in Nat /\ r.beat + 1 \in Nat
      BY <2>1 DEF Process
    <3>2. l \in Nat
      BY <3>1
    <3>3. proc'[x] = p
      BY <2>2, <2>5
    <3> HIDE DEF r, l
    <3>4. /\ p \in Process /\ p.phase = r.phase /\ p.addr = r.addr
          /\ p.own = r.own /\ p.prompt = r.prompt /\ p.missed = r.missed
          /\ p.beat = r.beat + 1 /\ p.lease = l
      BY <3>1, <3>2 DEF Process
    <3> QED
      BY <3>3, <3>4, <2>3, <2>4, <2>5 DEF r, l
  <2>6. CASE ~(proc[x].phase = "set" \/ Keeps(proc[x]))
    BY <2>1, <2>2, <2>3, <2>6
  <2> QED
    BY <2>5, <2>6
<1>3. UNCHANGED <<key, config, inbox, starts, faults>>
  BY DEF Tick
<1>4. \A x \in Nodes : Kept(x)' <=> Kept(x)
  BY <1>2 DEF Kept
<1>10. TypeOK'
  <2>1. \A x \in Nodes : left'[x] \in Nat \union {NoLease}
    BY <1>2 DEF Inv, TypeOK, NoLease
  <2> QED
    BY <2>1, <1>2, <1>3 DEF Inv, TypeOK, Tick
<1>11. WatchInv'
  BY <1>2, <1>3 DEF Inv, WatchInv
<1>12. StartInv'
  <2> SUFFICES ASSUME NEW x \in Nodes
               PROVE  /\ proc'[x].phase \notin {"off"} => proc'[x].addr \in Addrs
                      /\ proc'[x].phase \in {"off", "grant", "failed", "set"}
                            => ~proc'[x].own
                      /\ proc'[x].phase = "grant"
                            => proc'[x].beat = 0 /\ proc'[x].lease = 0
                      /\ proc'[x].phase = "set" =>
                            /\ proc'[x].beat <= MaxLag
                            /\ \/ proc'[x].lease = 0
                               \/ proc'[x].lease + proc'[x].beat = TTL
    BY DEF StartInv
  <2>1. /\ proc[x].phase \notin {"off"} => proc[x].addr \in Addrs
        /\ proc[x].phase \in {"off", "grant", "failed", "set"} => ~proc[x].own
        /\ proc[x].phase = "grant" => proc[x].beat = 0 /\ proc[x].lease = 0
        /\ proc[x].phase = "set"
              => proc[x].lease = 0 \/ proc[x].lease + proc[x].beat = TTL
        /\ proc[x].lease \in Nat /\ proc[x].beat \in Nat
    BY DEF Inv, StartInv, TypeOK, Process
  <2>2. CASE proc[x].phase = "set"
    <3>1. proc[x].beat < MaxLag
      BY <2>2, <1>2 DEF Due
    <3>2. /\ proc'[x].beat = proc[x].beat + 1
          /\ proc'[x].lease = IF proc[x].lease > 0 THEN proc[x].lease - 1 ELSE 0
      BY <2>2, <1>2
    <3> QED
      BY <3>1, <3>2, <2>1, <2>2, <1>1, <1>2
  <2>3. CASE proc[x].phase # "set"
    <3>1. proc[x].phase = "grant" => proc'[x] = proc[x]
      BY <2>1, <2>3, <1>2 DEF Keeps
    <3> QED
      BY <3>1, <2>1, <2>3, <1>2
  <2> QED
    BY <2>2, <2>3
<1>13. LeaseInv'
  <2> SUFFICES ASSUME NEW x \in Nodes, Kept(x)'
               PROVE  /\ key'[x] = proc'[x].addr
                      /\ left'[x] = proc'[x].lease
                      /\ proc'[x].beat <= Interval + MaxLag
                      /\ proc'[x].lease + proc'[x].beat + MaxLag >= TTL
    BY DEF LeaseInv
  <2>1. /\ Kept(x) /\ proc[x].own
        /\ proc[x].phase # "set" /\ proc[x].phase # "off"
    BY <1>4 DEF Kept, Inv, StartInv
  <2>2. proc[x].beat < Interval + MaxLag
    BY <2>1, <1>2 DEF Keeps, Due
  <2>3. proc[x].lease \in Nat /\ proc[x].beat \in Nat
    BY DEF Inv, TypeOK, Process
  <2>4. /\ proc'[x].beat = proc[x].beat + 1
        /\ proc'[x].lease = IF proc[x].lease > 0 THEN proc[x].lease - 1 ELSE 0
    BY <2>1, <1>2 DEF Keeps
  <2>5. /\ key[x] = proc[x].addr /\ left[x] = proc[x].lease
        /\ proc[x].lease + proc[x].beat + MaxLag >= TTL
    BY <2>1 DEF Inv, LeaseInv
  <2>6. proc[x].lease > 0
    BY <2>2, <2>3, <2>5, <1>1
  <2> QED
    BY <2>2, <2>3, <2>4, <2>5, <2>6, <1>1, <1>2, <1>3
<1>14. SelfInv'
  BY <1>2, <1>3, <1>4 DEF Inv, SelfInv
<1>15. ViewInv'
  BY <1>2, <1>3 DEF Inv, ViewInv
<1> QED
  BY <1>10, <1>11, <1>12, <1>13, <1>14, <1>15 DEF Inv

LEMMA InvInductive ==
    ASSUME Inv, [EtcdNext]_etcdVars
    PROVE  Inv'
<1>1. CASE Tick
  BY <1>1, TickStep
<1>2. ASSUME NEW n \in Nodes,
             \/ \E a \in Addrs : Start(n, a)
             \/ Grant(n) \/ GrantFails(n) \/ GrantRefused(n) \/ Set(n) \/ SetFails(n)
             \/ Read(n) \/ ReadFails(n) \/ OpenWatch(n) \/ OpenFails(n)
             \/ StreamEnds(n) \/ \E k \in DOMAIN inbox[n] : Notified(n, k)
             \/ Keepalive(n) \/ KeepaliveFails(n) \/ Expire(n) \/ Crash(n)
      PROVE  Inv'
  BY <1>2, StartStep, GrantStep, GrantFailsStep, GrantRefusedStep, SetStep,
     SetFailsStep, ReadStep, ReadFailsStep, OpenWatchStep, OpenFailsStep, StreamEndsStep, NotifiedStep,
     KeepaliveStep, KeepaliveFailsStep, ExpireStep, CrashStep
<1>3. CASE UNCHANGED etcdVars
  <2>1. UNCHANGED <<key, left, proc, config, inbox, starts, faults>>
    BY <1>3 DEF etcdVars
  <2>2. UNCHANGED TypeOK /\ UNCHANGED WatchInv /\ UNCHANGED StartInv
    BY <2>1 DEF TypeOK, WatchInv, StartInv
  <2>3. UNCHANGED LeaseInv /\ UNCHANGED SelfInv /\ UNCHANGED ViewInv
    BY <2>1 DEF LeaseInv, SelfInv, ViewInv, Kept
  <2> QED
    BY <2>2, <2>3 DEF Inv
<1> QED
  BY <1>1, <1>2, <1>3 DEF EtcdNext

LEMMA InvHolds == EtcdSpec => []Inv
<1>1. EtcdInit => Inv
  BY InitInv
<1>2. Inv /\ [EtcdNext]_etcdVars => Inv'
  BY InvInductive
<1> QED
  BY <1>1, <1>2, PTL DEF EtcdSpec

-----------------------------------------------------------------------------

\* For any nodes, addresses and times with Interval + 2 * MaxLag < TTL: whoever
\* keeps its lease alive in time is registered under its present address, and
\* is never told that it left (register_node and reload_cluster).
THEOREM LeasesKept == EtcdSpec => []LeaseKept
<1>1. Inv => LeaseKept
  BY DEF Inv, LeaseInv, SelfInv, LeaseKept, Kept
<1> QED
  BY <1>1, InvHolds, PTL

\* For any nodes, addresses and times: a watch that missed no change leads to
\* what etcd has of the other nodes (watch_nodes and its callbacks).
THEOREM ViewsFollow == EtcdSpec => []ViewFollows
<1>1. Inv => ViewFollows
  BY DEF Inv, ViewInv, ViewFollows
<1> QED
  BY <1>1, InvHolds, PTL

=============================================================================
