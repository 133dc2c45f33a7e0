----------------------------- MODULE KcpProofs ------------------------------
(***************************************************************************)
(* Proofs about the KCP session, for all scripts of messages, window and   *)
(* datagram sizes and faults: the types and windows of a control block,    *)
(* what the two ends know of each other, and that the session is a channel *)
(* that passes messages on whole, in order and once each.                  *)
(***************************************************************************)
EXTENDS Kcp, InductionLemmas, FiniteSetTheorems, TLAPS

-----------------------------------------------------------------------------
(* Numbers *)

LEMMA MinIs ==
    ASSUME NEW S, S \subseteq Nat, S # {}
    PROVE  Min(S) \in S /\ \A y \in S : Min(S) <= y
BY LeastNumber DEF Min

LEMMA MaxIs ==
    ASSUME NEW n \in Nat, NEW S, S \subseteq 0 .. n, S # {}
    PROVE  Max(S) \in S /\ \A y \in S : Max(S) >= y
<1> DEFINE T == {d \in Nat : \E x \in S : d = n - x}
<1>1. \A x \in S : x \in Int /\ n - x \in T
  OBVIOUS
<1>2. PICK d \in T : \A y \in T : d <= y
  BY <1>1, LeastNumber
<1>3. PICK x \in S : d = n - x
  OBVIOUS
<1>4. ASSUME NEW y \in S PROVE x >= y
  <2>1. d <= n - y /\ x \in Int /\ y \in Int
    BY <1>1, <1>2
  <2> QED
    BY <1>3, <2>1
<1> QED
  BY <1>4 DEF Max

LEMMA MaxOfTwo ==
    ASSUME NEW a \in Int, NEW b \in Int
    PROVE  Max({a, b}) \in {a, b} /\ Max({a, b}) >= a /\ Max({a, b}) >= b
<1>1. \E x \in {a, b} : \A y \in {a, b} : x >= y
  OBVIOUS
<1> QED
  BY <1>1 DEF Max

-----------------------------------------------------------------------------
(* Sequences *)

LEMMA Removed ==
    ASSUME NEW X, NEW s \in Seq(X), NEW n \in 1 .. Len(s) + 1, NEW t,
           t = RemoveAt(s, n)
    PROVE  LET len == IF n = Len(s) + 1 THEN Len(s) ELSE Len(s) - 1
           IN  /\ t \in Seq(X) /\ Len(t) = len /\ DOMAIN t = 1 .. len
               /\ \A i \in 1 .. len : t[i] = IF i < n THEN s[i] ELSE s[i + 1]
<1> DEFINE front == SubSeq(s, 1, n - 1)
           back == SubSeq(s, n + 1, Len(s))
<1>1. /\ front \in Seq(X) /\ Len(front) = n - 1
      /\ \A i \in 1 .. n - 1 : front[i] = s[i]
  BY Prefix
<1>2. CASE n <= Len(s)
  <2>1. /\ back \in Seq(X) /\ Len(back) = Len(s) - n
        /\ \A i \in 1 .. Len(s) - n : back[i] = s[n + i]
    BY <1>2, Suffix
  <2> HIDE DEF front, back
  <2>2. t = front \o back
    BY DEF RemoveAt, front, back
  <2>3. t \in Seq(X) /\ Len(t) = Len(front) + Len(back)
    BY <1>1, <2>1, <2>2, Concat
  <2>6. Len(t) = Len(s) - 1 /\ DOMAIN t = 1 .. Len(s) - 1
    BY <1>1, <2>1, <2>3
  <2>4. ASSUME NEW i \in 1 .. Len(s) - 1 PROVE t[i] = IF i < n THEN s[i] ELSE s[i + 1]
    <3>1. CASE i < n
      <4>1. t[i] = front[i]
        BY <1>1, <2>1, <2>2, <3>1
      <4> QED
        BY <1>1, <3>1, <4>1
    <3>2. CASE i >= n
      <4>1. t[i] = back[i - (n - 1)]
        BY <1>1, <2>1, <2>2, <3>2, SMTT(20)
      <4> QED
        BY <2>1, <3>2, <4>1
    <3> QED
      BY <3>1, <3>2
  <2> QED
    BY <1>2, <2>3, <2>4, <2>6
<1>3. CASE n = Len(s) + 1
  <2>1. back = <<>> /\ front = s
    BY <1>3
  <2> HIDE DEF front, back
  <2>3. t = front \o back
    BY DEF RemoveAt, front, back
  <2>2. t = s
    BY <2>1, <2>3
  <2> QED
    BY <1>3, <2>2
<1> QED
  BY <1>2, <1>3

IsInserted(t, s, n, e) ==
    /\ Len(t) = Len(s) + 1 /\ DOMAIN t = 1 .. Len(s) + 1
    /\ \A i \in 1 .. Len(s) + 1 :
          t[i] = IF i < n THEN s[i] ELSE IF i = n THEN e ELSE s[i - 1]

LEMMA Inserted ==
    ASSUME NEW X, NEW s \in Seq(X), NEW n \in 1 .. Len(s) + 1, NEW e \in X, NEW t,
           t = InsertAt(s, n, e)
    PROVE  t \in Seq(X) /\ IsInserted(t, s, n, e)
<1> DEFINE front == SubSeq(s, 1, n - 1)
           back == SubSeq(s, n, Len(s))
<1>1. /\ front \in Seq(X) /\ Len(front) = n - 1
      /\ \A i \in 1 .. n - 1 : front[i] = s[i]
  BY Prefix
<1>2. /\ back \in Seq(X) /\ Len(back) = Len(s) - n + 1
      /\ \A i \in 1 .. Len(s) - n + 1 : back[i] = s[n + i - 1]
  <2>1. n - 1 \in 0 .. Len(s) /\ (n - 1) + 1 = n
    OBVIOUS
  <2>2. back = SubSeq(s, (n - 1) + 1, Len(s))
    BY <2>1
  <2> HIDE DEF back
  <2> QED
    BY <2>1, <2>2, Suffix
<1> HIDE DEF front, back
<1>3. t = (front \o <<e>>) \o back
  BY DEF InsertAt, front, back
<1>4. t \in Seq(X) /\ Len(t) = Len(s) + 1 /\ DOMAIN t = 1 .. Len(s) + 1
  <2>1. front \o <<e>> \in Seq(X) /\ Len(front \o <<e>>) = Len(front) + 1
    BY <1>1
  <2>2. t \in Seq(X) /\ Len(t) = (Len(front) + 1) + Len(back)
    BY <1>2, <1>3, <2>1, Concat
  <2> QED
    BY <1>1, <1>2, <2>2
<1>5. ASSUME NEW i \in 1 .. Len(s) + 1
      PROVE  t[i] = IF i < n THEN s[i] ELSE IF i = n THEN e ELSE s[i - 1]
  <2>1. CASE i < n
    <3>1. t[i] = front[i]
      BY <1>1, <1>2, <1>3, <2>1
    <3> QED
      BY <1>1, <2>1, <3>1
  <2>2. CASE i = n
    BY <1>1, <1>2, <1>3, <2>2
  <2>3. CASE i > n
    <3>1. t[i] = back[i - n]
      BY <1>1, <1>2, <1>3, <2>3
    <3> QED
      BY <1>2, <2>3, <3>1
  <2> QED
    BY <2>1, <2>2, <2>3
<1> QED
  BY <1>4, <1>5 DEF IsInserted
-----------------------------------------------------------------------------
(* The control block of one end, and what it owes to the other *)

Fragments == [msg : Nat, part : Nat, frg : Nat]
OutSegments == [sn : Nat, data : Fragments, xmit : BOOLEAN, fastack : Nat]
InSegments == [sn : Nat, data : Fragments]
Segments ==
    [cmd : {"ack", "wask", "wins"}, sn : Nat, una : Nat, wnd : Nat]
        \union [cmd : {"push"}, sn : Nat, una : Nat, wnd : Nat, data : Fragments]

Control ==
    [snd_una : Nat, snd_nxt : Nat, rcv_nxt : Nat, rmt_wnd : Nat,
     cwnd : Nat, incr : Nat, ssthresh : Nat, ask_tell : BOOLEAN, probe_wait : BOOLEAN,
     snd_queue : Seq(Fragments), snd_buf : Seq(OutSegments),
     rcv_buf : Seq(InSegments), rcv_queue : Seq(Fragments), acklist : Seq(Nat)]

\* The numbers an end has received, in order or not.
Has(k, sn) == sn < k.rcv_nxt \/ \E i \in DOMAIN k.rcv_buf : k.rcv_buf[i].sn = sn
Got(k) == {sn \in Nat : Has(k, sn)}

\* The segments in flight are numbered in order, within the window, and carry
\* the fragments of the stream F of their end; those no longer in flight are
\* in the set R of what the other end has received; the rest of F is queued.
SendOK(k, F, R) ==
    /\ Ascending(k.snd_buf)
    /\ \A i \in DOMAIN k.snd_buf :
          /\ k.snd_una <= k.snd_buf[i].sn /\ k.snd_buf[i].sn < k.snd_nxt
          /\ k.snd_buf[i].data = F[k.snd_buf[i].sn + 1]
    /\ k.snd_una <= k.snd_nxt /\ k.snd_nxt - k.snd_una <= SndWnd
    /\ \A sn \in 0 .. k.snd_nxt - 1 :
          sn \in R \/ \E i \in DOMAIN k.snd_buf : k.snd_buf[i].sn = sn
    /\ k.snd_nxt + Len(k.snd_queue) = Len(F)
    /\ \A i \in DOMAIN k.snd_queue : k.snd_queue[i] = F[k.snd_nxt + i]

\* What came out of the stream F, of which sent fragments were sent and taken
\* were read: those that wait for the user, and those that wait, numbered in
\* order and within the window, for the ones before them.
RecvOK(k, F, sent_nxt, taken) ==
    /\ Ascending(k.rcv_buf)
    /\ \A i \in DOMAIN k.rcv_buf :
          /\ k.rcv_nxt <= k.rcv_buf[i].sn /\ k.rcv_buf[i].sn < k.rcv_nxt + RcvWnd
          /\ k.rcv_buf[i].sn < sent_nxt
          /\ k.rcv_buf[i].data = F[k.rcv_buf[i].sn + 1]
    /\ k.rcv_nxt <= sent_nxt /\ Len(k.rcv_queue) <= RcvWnd
    /\ k.rcv_nxt = taken + Len(k.rcv_queue)
    /\ \A i \in DOMAIN k.rcv_queue : k.rcv_queue[i] = F[taken + i]

\* What is yet to be acknowledged was received.
AcksOK(k) == \A i \in DOMAIN k.acklist : k.acklist[i] \in Got(k)

\* A segment whose sender has received R and has sent as many fragments of F.
Genuine(R, F, sent_nxt) ==
    {s \in Segments :
        /\ 0 .. s.una - 1 \subseteq R
        /\ s.cmd = "ack" => s.sn \in R
        /\ s.cmd = "push" => s.sn < sent_nxt /\ s.data = F[s.sn + 1]}

\* What an operation of the sending side leaves alone, and of the receiving.
SameRecv(k, m) ==
    /\ m.rcv_nxt = k.rcv_nxt /\ m.rcv_buf = k.rcv_buf
    /\ m.rcv_queue = k.rcv_queue /\ m.acklist = k.acklist
SameSend(k, m) ==
    /\ m.snd_una = k.snd_una /\ m.snd_nxt = k.snd_nxt
    /\ m.snd_queue = k.snd_queue /\ m.snd_buf = k.snd_buf

LEMMA Sizes ==
    /\ SndWnd \in Nat \ {0} /\ RcvWnd \in Nat \ {0} /\ WndRcv \in Nat \ {0}
    /\ Mss \in Nat \ {0} /\ FastResend \in Nat
BY KcpAssumption DEF Mss

LEMMA SameSendOK ==
    ASSUME NEW k, NEW m, NEW F, NEW R, SameSend(k, m), SendOK(k, F, R)
    PROVE  SendOK(m, F, R)
BY DEF SameSend, SendOK

LEMMA SameRecvOK ==
    ASSUME NEW k, NEW m, NEW F, NEW n, NEW taken, SameRecv(k, m)
    PROVE  /\ RecvOK(k, F, n, taken) => RecvOK(m, F, n, taken)
           /\ AcksOK(k) => AcksOK(m)
           /\ Got(k) = Got(m)
BY DEF SameRecv, RecvOK, AcksOK, Got, Has

LEMMA SameTwice ==
    ASSUME NEW k, NEW m, NEW r
    PROVE  /\ SameRecv(k, m) /\ SameRecv(m, r) => SameRecv(k, r)
           /\ SameSend(k, m) /\ SameSend(m, r) => SameSend(k, r)
BY DEF SameRecv, SameSend

-----------------------------------------------------------------------------
(* The sending side *)

\* ikcp_shrink_buf: the window begins at the oldest segment in flight.
LEMMA ShrinkGood ==
    ASSUME NEW k \in Control, NEW F, NEW R, SendOK(k, F, R)
    PROVE  LET m == ShrinkBuf(k)
           IN  /\ m \in Control /\ SendOK(m, F, R) /\ SameRecv(k, m)
               /\ m.snd_nxt = k.snd_nxt
<1> DEFINE una == IF k.snd_buf # <<>> THEN Head(k.snd_buf).sn ELSE k.snd_nxt
           m == [k EXCEPT !.snd_una = una]
<1>1. k.snd_buf \in Seq(OutSegments) /\ k.snd_una \in Nat /\ k.snd_nxt \in Nat
  BY DEF Control
<1>2. /\ una \in Nat /\ k.snd_una <= una /\ una <= k.snd_nxt
      /\ \A i \in DOMAIN k.snd_buf : una <= k.snd_buf[i].sn
  <2>1. CASE k.snd_buf = <<>>
    BY <1>1, <2>1 DEF SendOK
  <2>2. CASE k.snd_buf # <<>>
    <3>1. 1 \in DOMAIN k.snd_buf /\ una = k.snd_buf[1].sn
      BY <1>1, <2>2
    <3>2. \A i \in DOMAIN k.snd_buf : k.snd_buf[i] \in OutSegments
      BY <1>1
    <3>3. \A i \in DOMAIN k.snd_buf :
             i \in Int /\ (i = 1 \/ 1 < i) /\ k.snd_buf[i].sn \in Nat
      BY <1>1, <3>2 DEF OutSegments
    <3>4. \A i \in DOMAIN k.snd_buf : 1 < i => k.snd_buf[1].sn < k.snd_buf[i].sn
      BY <3>1 DEF Ascending, SendOK
    <3>5. k.snd_una <= una /\ una < k.snd_nxt
      BY <3>1 DEF SendOK
    <3> QED
      BY <1>1, <3>1, <3>3, <3>4, <3>5
  <2> QED
    BY <2>1, <2>2
<1> HIDE DEF una
<1>3. /\ m \in Control /\ SameRecv(k, m) /\ m.snd_buf = k.snd_buf
      /\ m.snd_nxt = k.snd_nxt /\ m.snd_queue = k.snd_queue /\ m.snd_una = una
  BY <1>2 DEF Control, SameRecv
<1>4. ShrinkBuf(k) = m
  BY DEF ShrinkBuf, una
<1> HIDE DEF m
<1>5. k.snd_nxt - una <= SndWnd
  BY <1>1, <1>2, Sizes DEF SendOK
<1>6. SendOK(m, F, R)
  BY <1>2, <1>3, <1>5 DEF SendOK
<1> QED
  BY <1>3, <1>4, <1>6

\* The segments buf are those of snd_buf at h[1], h[2] and so on: the others
\* were received.
IsThinned(k, buf, h, R) ==
    /\ h \in [1 .. Len(buf) -> 1 .. Len(k.snd_buf)]
    /\ \A i \in 1 .. Len(buf), j \in 1 .. Len(buf) : i < j => h[i] < h[j]
    /\ \A j \in 1 .. Len(buf) :
          buf[j].sn = k.snd_buf[h[j]].sn /\ buf[j].data = k.snd_buf[h[j]].data
    /\ \A i \in 1 .. Len(k.snd_buf) :
          k.snd_buf[i].sn \in R \/ \E j \in 1 .. Len(buf) : h[j] = i

\* Segments leave snd_buf, in whatever way, only when they were received.
LEMMA Thinned ==
    ASSUME NEW k \in Control, NEW F, NEW R, SendOK(k, F, R),
           NEW buf \in Seq(OutSegments), NEW h, IsThinned(k, buf, h, R),
           NEW m, m = [k EXCEPT !.snd_buf = buf]
    PROVE  /\ m \in Control /\ SendOK(m, F, R) /\ SameRecv(k, m)
           /\ m.snd_nxt = k.snd_nxt
<1> USE DEF IsThinned
<1>1. /\ k.snd_buf \in Seq(OutSegments) /\ DOMAIN k.snd_buf = 1 .. Len(k.snd_buf)
      /\ DOMAIN buf = 1 .. Len(buf)
  BY DEF Control
<1>2. /\ m \in Control /\ SameRecv(k, m) /\ m.snd_buf = buf
      /\ m.snd_nxt = k.snd_nxt /\ m.snd_queue = k.snd_queue /\ m.snd_una = k.snd_una
  BY DEF Control, SameRecv
<1>3. Ascending(buf)
  <2> SUFFICES ASSUME NEW i \in DOMAIN buf, NEW j \in DOMAIN buf, i < j
               PROVE  buf[i].sn < buf[j].sn
    BY DEF Ascending
  <2>1. h[i] \in DOMAIN k.snd_buf /\ h[j] \in DOMAIN k.snd_buf /\ h[i] < h[j]
    BY <1>1
  <2>2. k.snd_buf[h[i]].sn < k.snd_buf[h[j]].sn
    BY <2>1 DEF SendOK, Ascending
  <2> QED
    BY <1>1, <2>2
<1>4. ASSUME NEW j \in DOMAIN buf
      PROVE  /\ k.snd_una <= buf[j].sn /\ buf[j].sn < k.snd_nxt
             /\ buf[j].data = F[buf[j].sn + 1]
  <2>1. h[j] \in DOMAIN k.snd_buf
    BY <1>1
  <2>2. /\ k.snd_una <= k.snd_buf[h[j]].sn /\ k.snd_buf[h[j]].sn < k.snd_nxt
        /\ k.snd_buf[h[j]].data = F[k.snd_buf[h[j]].sn + 1]
    BY <2>1 DEF SendOK
  <2>3. buf[j].sn = k.snd_buf[h[j]].sn /\ buf[j].data = k.snd_buf[h[j]].data
    BY <1>1
  <2> QED
    BY <2>2, <2>3
<1>5. ASSUME NEW sn \in 0 .. k.snd_nxt - 1, sn \notin R
      PROVE  \E j \in DOMAIN buf : buf[j].sn = sn
  <2>1. PICK i \in DOMAIN k.snd_buf : k.snd_buf[i].sn = sn
    BY <1>5 DEF SendOK
  <2>2. PICK j \in 1 .. Len(buf) : h[j] = i
    BY <1>1, <1>5, <2>1
  <2> QED
    BY <1>1, <2>1, <2>2
<1>6. SendOK(m, F, R)
  BY <1>2, <1>3, <1>4, <1>5 DEF SendOK
<1> QED
  BY <1>2, <1>6

\* ikcp_parse_una with a number below which the other end has received all.
LEMMA UnaGood ==
    ASSUME NEW k \in Control, NEW F, NEW R, SendOK(k, F, R),
           NEW una \in Nat, 0 .. una - 1 \subseteq R
    PROVE  LET m == ParseUna(k, una)
           IN  /\ m \in Control /\ SendOK(m, F, R) /\ SameRecv(k, m)
               /\ m.snd_nxt = k.snd_nxt
<1> DEFINE Seen(n) == \A i \in 1 .. n : k.snd_buf[i].sn < una
           L == {i \in 0 .. Len(k.snd_buf) : Seen(i)}
           n == Max(L)
           buf == SubSeq(k.snd_buf, n + 1, Len(k.snd_buf))
           h == [j \in 1 .. Len(buf) |-> n + j]
<1>1. k.snd_buf \in Seq(OutSegments) /\ Len(k.snd_buf) \in Nat
  BY DEF Control
<1>2. n \in 0 .. Len(k.snd_buf) /\ Seen(n)
  <2>1. L \subseteq 0 .. Len(k.snd_buf) /\ 0 \in L
    BY <1>1
  <2>2. n \in L
    <3> HIDE DEF L
    <3> QED
      BY <1>1, <2>1, MaxIs
  <2> HIDE DEF n
  <2> QED
    BY <2>2
<1> HIDE DEF n, L
<1>3. /\ buf \in Seq(OutSegments) /\ Len(buf) = Len(k.snd_buf) - n
      /\ \A i \in 1 .. Len(k.snd_buf) - n : buf[i] = k.snd_buf[n + i]
  BY <1>1, <1>2, Suffix
<1> HIDE DEF buf
<1>4. h \in [1 .. Len(buf) -> 1 .. Len(k.snd_buf)]
  BY <1>1, <1>2, <1>3
<1>5. ASSUME NEW i \in 1 .. Len(k.snd_buf)
      PROVE  k.snd_buf[i].sn \in R \/ \E j \in 1 .. Len(buf) : h[j] = i
  <2>1. CASE i <= n
    <3>1. k.snd_buf[i] \in OutSegments /\ k.snd_buf[i].sn < una
      BY <1>1, <1>2, <2>1
    <3>2. k.snd_buf[i].sn \in 0 .. una - 1
      BY <3>1 DEF OutSegments
    <3> QED
      BY <3>2
  <2>2. CASE i > n
    <3>1. i - n \in 1 .. Len(buf) /\ h[i - n] = i
      BY <1>1, <1>2, <1>3, <2>2
    <3> QED
      BY <3>1
  <2> QED
    BY <1>2, <2>1, <2>2
<1>6. \A i \in 1 .. Len(buf), j \in 1 .. Len(buf) : i < j => h[i] < h[j]
  BY <1>2
<1>7. \A j \in 1 .. Len(buf) :
         buf[j].sn = k.snd_buf[h[j]].sn /\ buf[j].data = k.snd_buf[h[j]].data
  BY <1>3
<1>8. ParseUna(k, una) = [k EXCEPT !.snd_buf = buf]
  BY DEF ParseUna, buf, n, L
<1> HIDE DEF h
<1> DEFINE m == [k EXCEPT !.snd_buf = buf]
<1>9. m \in Control /\ SendOK(m, F, R) /\ SameRecv(k, m) /\ m.snd_nxt = k.snd_nxt
  <2>1. m = [k EXCEPT !.snd_buf = buf]
    OBVIOUS
  <2>2. buf \in Seq(OutSegments)
    BY <1>3
  <2>3. IsThinned(k, buf, h, R)
    BY <1>4, <1>5, <1>6, <1>7 DEF IsThinned
  <2> HIDE DEF m
  <2> QED
    BY <2>1, <2>2, <2>3, Thinned
<1> QED
  BY <1>8, <1>9

\* ikcp_parse_ack with a number the other end has received.
LEMMA AckGood ==
    ASSUME NEW k \in Control, NEW F, NEW R, SendOK(k, F, R), NEW sn \in R
    PROVE  LET m == ParseAck(k, sn)
           IN  /\ m \in Control /\ SendOK(m, F, R) /\ SameRecv(k, m)
               /\ m.snd_nxt = k.snd_nxt
<1> DEFINE old == k.snd_buf
           hits == {i \in DOMAIN old : old[i].sn = sn} \union {Len(old) + 1}
           stop == Min(hits)
           Passed(i) == IF i < stop /\ old[i].fastack < FastResend
                        THEN [old[i] EXCEPT !.fastack = @ + 1] ELSE old[i]
           marked == [i \in DOMAIN old |-> Passed(i)]
           buf == RemoveAt(marked, stop)
           h == [j \in 1 .. Len(buf) |-> IF j < stop THEN j ELSE j + 1]
<1>1. /\ old \in Seq(OutSegments) /\ Len(old) \in Nat /\ DOMAIN old = 1 .. Len(old)
      /\ \A i \in 1 .. Len(old) : old[i] \in OutSegments
  BY DEF Control
<1> HIDE DEF old
<1>2. stop \in hits /\ \A i \in hits : stop <= i
  <2>1. hits \subseteq Nat /\ hits # {}
    BY <1>1
  <2> HIDE DEF hits
  <2> QED
    BY <2>1, MinIs
<1>3. /\ stop \in 1 .. Len(old) + 1
      /\ stop \in DOMAIN old => old[stop].sn = sn
  <2> HIDE DEF stop
  <2> QED
    BY <1>1, <1>2
<1> HIDE DEF stop, hits
<1>4. ASSUME NEW i \in 1 .. Len(old)
      PROVE  /\ Passed(i) \in OutSegments
             /\ Passed(i).sn = old[i].sn /\ Passed(i).data = old[i].data
  <2>1. old[i] \in OutSegments
    BY <1>1
  <2> QED
    BY <2>1 DEF OutSegments
<1> HIDE DEF Passed
<1>5. /\ marked \in Seq(OutSegments) /\ Len(marked) = Len(old)
      /\ \A i \in 1 .. Len(old) : marked[i] = Passed(i)
  BY <1>1, <1>4
<1> HIDE DEF marked
<1> DEFINE len == IF stop = Len(old) + 1 THEN Len(old) ELSE Len(old) - 1
<1>6. /\ buf \in Seq(OutSegments) /\ Len(buf) = len
      /\ \A i \in 1 .. len : buf[i] = IF i < stop THEN marked[i] ELSE marked[i + 1]
  BY <1>3, <1>5, Removed
<1> HIDE DEF buf
<1>14. /\ Len(buf) \in Nat /\ Len(old) \in Nat /\ stop \in 1 .. Len(old) + 1
       /\ stop = Len(old) + 1 => Len(buf) = Len(old)
       /\ stop # Len(old) + 1 => Len(buf) = Len(old) - 1
  <2>1. Len(buf) = len
    BY <1>6
  <2>2. Len(old) \in Nat
    BY <1>1
  <2>3. stop \in 1 .. Len(old) + 1
    BY <1>3
  <2> QED
    BY <2>1, <2>2, <2>3
<1>7. h \in [1 .. Len(buf) -> 1 .. Len(old)]
  BY <1>14
<1>8. ASSUME NEW i \in 1 .. Len(old)
      PROVE  old[i].sn \in R \/ \E j \in 1 .. Len(buf) : h[j] = i
  <2>1. CASE i = stop
    BY <1>1, <1>3, <2>1
  <2>2. CASE i < stop
    <3>1. i \in 1 .. Len(buf) /\ h[i] = i
      BY <1>14, <2>2
    <3> QED
      BY <3>1
  <2>3. CASE i > stop
    <3>1. i - 1 \in 1 .. Len(buf) /\ h[i - 1] = i
      BY <1>14, <2>3
    <3> QED
      BY <3>1
  <2> QED
    BY <1>3, <2>1, <2>2, <2>3
<1>9. \A i \in 1 .. Len(buf), j \in 1 .. Len(buf) : i < j => h[i] < h[j]
  BY <1>3
<1>10. ASSUME NEW j \in 1 .. Len(buf)
       PROVE  buf[j].sn = old[h[j]].sn /\ buf[j].data = old[h[j]].data
  <2>1. h[j] \in 1 .. Len(old) /\ buf[j] = marked[h[j]]
    BY <1>6, <1>7
  <2> QED
    BY <2>1, <1>4, <1>5
<1>11. ParseAck(k, sn) = k \/ ParseAck(k, sn) = [k EXCEPT !.snd_buf = buf]
  BY DEF ParseAck, buf, marked, Passed, stop, hits, old
<1> HIDE DEF h, len
<1>12. CASE ParseAck(k, sn) = [k EXCEPT !.snd_buf = buf]
  <2>1. IsThinned(k, buf, h, R)
    BY <1>7, <1>8, <1>9, <1>10 DEF IsThinned, old
  <2>2. buf \in Seq(OutSegments)
    BY <1>6
  <2> QED
    BY <1>12, <2>1, <2>2, Thinned
<1>13. CASE ParseAck(k, sn) = k
  BY <1>13 DEF SameRecv
<1> QED
  BY <1>11, <1>12, <1>13

LEMMA Quotient ==
    ASSUME NEW a \in Nat, NEW b \in Nat \ {0}
    PROVE  a \div b \in Nat
OBVIOUS

\* The congestion window: nothing else changes.
LEMMA WindowsOnly ==
    ASSUME NEW k \in Control, NEW a \in Nat, NEW b \in Nat, NEW c \in Nat, NEW m,
           m = [k EXCEPT !.cwnd = a, !.incr = b, !.ssthresh = c]
    PROVE  m \in Control /\ SameSend(k, m) /\ SameRecv(k, m)
BY DEF Control, SameSend, SameRecv

LEMMA GrowGood ==
    ASSUME NEW k \in Control, NEW una \in Nat
    PROVE  LET m == GrowCwnd(k, una)
           IN  m \in Control /\ SameSend(k, m) /\ SameRecv(k, m)
<1> DEFINE base == Max({k.incr, Mss})
           quot == (Mss * Mss) \div base
           incr == base + quot + Mss \div 16
           slow == [k EXCEPT !.cwnd = @ + 1, !.incr = @ + Mss]
           careful == [k EXCEPT !.incr = incr,
                       !.cwnd = IF (@ + 1) * Mss >= incr THEN @ + 1 ELSE @]
           grown == IF k.cwnd < k.ssthresh THEN slow ELSE careful
           capped == [grown EXCEPT !.cwnd = k.rmt_wnd, !.incr = k.rmt_wnd * Mss]
           Fine(m) == m \in Control /\ SameSend(k, m) /\ SameRecv(k, m)
<1>1. k.cwnd \in Nat /\ k.incr \in Nat /\ k.rmt_wnd \in Nat /\ Mss \in Nat \ {0}
  BY Sizes DEF Control
<1>2. base \in Nat \ {0}
  <2>1. base \in {k.incr, Mss} /\ base >= Mss
    <3>1. k.incr \in Int /\ Mss \in Int
      BY <1>1
    <3> QED
      BY <3>1, MaxOfTwo, Zenon
  <2> HIDE DEF base
  <2> QED
    BY <1>1, <2>1
<1>3. incr \in Nat
  <2>1. Mss * Mss \in Nat
    BY <1>1
  <2>2. quot \in Nat
    <3> DEFINE square == Mss * Mss
    <3> HIDE DEF square, base
    <3>1. square \in Nat
      BY <2>1 DEF square
    <3>2. square \div base \in Nat
      BY <3>1, <1>2, Quotient
    <3> QED
      BY <3>2 DEF square
  <2>3. Mss \div 16 \in Nat
    BY <1>1, Quotient
  <2> HIDE DEF base, quot
  <2> QED
    BY <1>2, <2>2, <2>3
<1> HIDE DEF base, quot, incr
<1>4. Fine(slow)
  <2> DEFINE b == k.incr + Mss
             c == k.cwnd + 1
  <2>1. b \in Nat /\ c \in Nat
    BY <1>1
  <2>2. slow = [k EXCEPT !.cwnd = c, !.incr = b]
    OBVIOUS
  <2> HIDE DEF slow, b, c
  <2> QED
    BY <2>1, <2>2 DEF Control, SameSend, SameRecv
<1>5. Fine(careful)
  <2> DEFINE c == IF (k.cwnd + 1) * Mss >= incr THEN k.cwnd + 1 ELSE k.cwnd
  <2>1. c \in Nat
    BY <1>1
  <2>2. careful = [k EXCEPT !.incr = incr, !.cwnd = c]
    OBVIOUS
  <2> HIDE DEF careful, c
  <2> QED
    BY <1>3, <2>1, <2>2 DEF Control, SameSend, SameRecv
<1> HIDE DEF slow, careful
<1>6. Fine(grown)
  BY <1>4, <1>5
<1> HIDE DEF grown
<1>7. Fine(capped)
  <2> DEFINE b == k.rmt_wnd * Mss
  <2>1. b \in Nat
    BY <1>1
  <2>2. capped = [grown EXCEPT !.cwnd = k.rmt_wnd, !.incr = b]
    OBVIOUS
  <2> HIDE DEF capped, b
  <2> QED
    BY <1>1, <1>6, <2>1, <2>2 DEF Control, SameSend, SameRecv
<1> HIDE DEF capped
<1>8. Fine(k)
  BY DEF SameSend, SameRecv
<1>9. GrowCwnd(k, una) \in {k, grown, capped}
  BY DEF GrowCwnd, capped, grown, slow, careful, incr, quot, base
<1> HIDE DEF Fine
<1>10. Fine(GrowCwnd(k, una))
  BY <1>6, <1>7, <1>8, <1>9
<1> QED
  BY <1>10 DEF Fine

LEMMA FlushWindowIs ==
    ASSUME NEW k \in Control
    PROVE  FlushWindow(k) \in Nat /\ FlushWindow(k) <= SndWnd
<1> DEFINE W == {SndWnd, k.rmt_wnd} \union (IF NoCwnd THEN {} ELSE {k.cwnd})
<1>1. W \subseteq Nat /\ SndWnd \in W
  BY Sizes DEF Control
<1>2. FlushWindow(k) = Min(W)
  BY DEF FlushWindow
<1> HIDE DEF W
<1> QED
  BY <1>1, <1>2, MinIs

\* Fragments get their numbers in the order of the stream.
LEMMA MoveToBufGood ==
    ASSUME NEW k \in Control, NEW F \in Seq(Fragments), NEW R, SendOK(k, F, R)
    PROVE  LET m == MoveToBuf(k)
           IN  /\ m \in Control /\ SendOK(m, F, R) /\ SameRecv(k, m)
               /\ m.snd_nxt >= k.snd_nxt
<1> DEFINE room == Max({0, k.snd_una + FlushWindow(k) - k.snd_nxt})
           n == Min({room, Len(k.snd_queue)})
           Fresh(i) == [sn |-> k.snd_nxt + i - 1, data |-> k.snd_queue[i],
                        xmit |-> FALSE, fastack |-> 0]
           fresh == [i \in 1 .. n |-> Fresh(i)]
           buf == k.snd_buf \o fresh
           queue == SubSeq(k.snd_queue, n + 1, Len(k.snd_queue))
           nxt == k.snd_nxt + n
           old == k.snd_buf
<1>1. /\ k.snd_una \in Nat /\ k.snd_nxt \in Nat /\ k.snd_queue \in Seq(Fragments)
      /\ Len(k.snd_queue) \in Nat /\ old \in Seq(OutSegments) /\ Len(old) \in Nat
      /\ DOMAIN old = 1 .. Len(old) /\ DOMAIN k.snd_queue = 1 .. Len(k.snd_queue)
  BY DEF Control
<1>2. /\ k.snd_una <= k.snd_nxt /\ k.snd_nxt - k.snd_una <= SndWnd
      /\ k.snd_nxt + Len(k.snd_queue) = Len(F)
      /\ \A i \in DOMAIN k.snd_queue : k.snd_queue[i] = F[k.snd_nxt + i]
  BY DEF SendOK
<1>3. /\ n \in 0 .. Len(k.snd_queue)
      /\ k.snd_nxt + n - k.snd_una <= SndWnd
  <2> DEFINE win == FlushWindow(k)
             free == k.snd_una + win - k.snd_nxt
  <2>5. win \in Nat
    BY FlushWindowIs
  <2> HIDE DEF win
  <2>6. free \in Int
    BY <1>1, <2>5
  <2>7. room = Max({0, free})
    BY DEF win
  <2>1. room \in {0, k.snd_una + win - k.snd_nxt} /\ room \in Nat
    <3> HIDE DEF free, room
    <3>1. room \in {0, free} /\ room >= 0
      <4>1. 0 \in Int
        OBVIOUS
      <4> QED
        BY <4>1, <2>6, <2>7, MaxOfTwo, Zenon
    <3> QED
      BY <2>6, <3>1 DEF free
  <2> HIDE DEF room
  <2>2. n \in {room, Len(k.snd_queue)} /\ n <= room /\ n <= Len(k.snd_queue)
    BY <1>1, <2>1, MinIs
  <2> HIDE DEF n
  <2>3. n \in Nat
    BY <1>1, <2>1, <2>2
  <2>4. win \in Nat /\ win <= SndWnd /\ SndWnd \in Nat
    BY FlushWindowIs, Sizes DEF win
  <2> QED
    BY <1>1, <1>2, <2>1, <2>2, <2>3, <2>4, SMTT(20)
<1> HIDE DEF n, room
<1>19. /\ n \in Nat /\ Len(old) \in Nat /\ k.snd_nxt \in Nat /\ k.snd_una \in Nat
       /\ k.snd_una <= k.snd_nxt
  BY <1>1, <1>2, <1>3
<1>4. /\ fresh \in Seq(OutSegments) /\ Len(fresh) = n
      /\ \A i \in 1 .. n : /\ fresh[i].sn = k.snd_nxt + i - 1
                           /\ fresh[i].data = F[k.snd_nxt + i]
  <2>1. ASSUME NEW i \in 1 .. n
        PROVE  /\ Fresh(i) \in OutSegments /\ Fresh(i).sn = k.snd_nxt + i - 1
               /\ Fresh(i).data = F[k.snd_nxt + i]
    <3>1. i \in DOMAIN k.snd_queue /\ k.snd_nxt + i - 1 \in Nat
      BY <1>1, <1>3
    <3>3. k.snd_queue[i] \in Fragments
      BY <1>1, <3>1
    <3>2. k.snd_queue[i] \in Fragments /\ k.snd_queue[i] = F[k.snd_nxt + i]
      BY <1>2, <3>1, <3>3
    <3> QED
      BY <3>1, <3>2 DEF OutSegments
  <2> HIDE DEF Fresh
  <2> QED
    BY <1>3, <2>1
<1> HIDE DEF fresh
<1>5. buf \in Seq(OutSegments) /\ Len(buf) = Len(old) + n
  BY <1>1, <1>4, Concat
<1>6. /\ \A i \in 1 .. Len(old) : buf[i] = old[i]
      /\ \A i \in 1 .. n : buf[Len(old) + i] = fresh[i]
  BY <1>1, <1>4, ConcatAt
<1>7. DOMAIN buf = 1 .. Len(old) + n
  BY <1>1, <1>3, <1>5
<1> HIDE DEF buf
<1>8. ASSUME NEW i \in DOMAIN buf
      PROVE  \/ i \in 1 .. Len(old) /\ buf[i] = old[i]
             \/ /\ i - Len(old) \in 1 .. n
                /\ buf[i].sn = k.snd_nxt + (i - Len(old)) - 1
                /\ buf[i].data = F[k.snd_nxt + (i - Len(old))]
  <2>1. CASE i \in 1 .. Len(old)
    BY <2>1, <1>6
  <2>2. CASE i \notin 1 .. Len(old)
    <3>1. i - Len(old) \in 1 .. n /\ Len(old) + (i - Len(old)) = i
      BY <1>1, <1>3, <1>7, <2>2, SMTT(20)
    <3>2. buf[i] = fresh[i - Len(old)]
      BY <1>6, <3>1
    <3> QED
      BY <1>4, <3>1, <3>2
  <2> QED
    BY <2>1, <2>2
<1>9. \A i \in 1 .. Len(old) :
         /\ old[i].sn \in Nat /\ k.snd_una <= old[i].sn /\ old[i].sn < k.snd_nxt
         /\ old[i].data = F[old[i].sn + 1]
  <2> SUFFICES ASSUME NEW i \in 1 .. Len(old)
               PROVE  /\ old[i].sn \in Nat /\ k.snd_una <= old[i].sn
                      /\ old[i].sn < k.snd_nxt /\ old[i].data = F[old[i].sn + 1]
    OBVIOUS
  <2>1. old[i] \in OutSegments
    BY <1>1
  <2> QED
    BY <1>1, <2>1 DEF SendOK, OutSegments
<1>10. Ascending(buf)
  <2> SUFFICES ASSUME NEW i \in DOMAIN buf, NEW j \in DOMAIN buf, i < j
               PROVE  buf[i].sn < buf[j].sn
    BY DEF Ascending
  <2>1. i \in Int /\ j \in Int
    BY <1>7
  <2>2. CASE j \in 1 .. Len(old)
    <3>1. i \in 1 .. Len(old)
      BY <1>1, <1>3, <1>7, <2>2
    <3>2. old[i].sn < old[j].sn
      BY <1>1, <2>2, <3>1 DEF SendOK, Ascending
    <3> QED
      BY <1>6, <2>2, <3>1, <3>2
  <2>3. CASE j \notin 1 .. Len(old)
    <3>1. j - Len(old) \in 1 .. n /\ buf[j].sn = k.snd_nxt + (j - Len(old)) - 1
      BY <1>8, <2>3
    <3>2. CASE i \in 1 .. Len(old)
      <4>1. buf[i].sn \in Nat /\ buf[i].sn < k.snd_nxt
        BY <1>6, <1>9, <3>2
      <4> QED
        BY <1>1, <1>3, <3>1, <4>1
    <3>3. CASE i \notin 1 .. Len(old)
      <4>1. i - Len(old) \in 1 .. n /\ buf[i].sn = k.snd_nxt + (i - Len(old)) - 1
        BY <1>8, <3>3
      <4> QED
        BY <1>1, <1>3, <2>1, <3>1, <4>1, SMTT(20)
    <3> QED
      BY <3>2, <3>3
  <2> QED
    BY <2>2, <2>3
<1>11. ASSUME NEW i \in DOMAIN buf
       PROVE  /\ k.snd_una <= buf[i].sn /\ buf[i].sn < nxt
              /\ buf[i].data = F[buf[i].sn + 1]
  <2>1. CASE i \in 1 .. Len(old) /\ buf[i] = old[i]
    <3>1. buf[i].sn \in Nat /\ buf[i].sn < k.snd_nxt
      BY <1>9, <2>1
    <3>2. buf[i].sn < nxt
      BY <1>1, <1>3, <3>1
    <3> QED
      BY <1>9, <2>1, <3>2
  <2>2. CASE /\ i - Len(old) \in 1 .. n
             /\ buf[i].sn = k.snd_nxt + (i - Len(old)) - 1
             /\ buf[i].data = F[k.snd_nxt + (i - Len(old))]
    <3>1. buf[i].sn + 1 = k.snd_nxt + (i - Len(old))
      BY <1>19, <2>2
    <3> DEFINE d == i - Len(old)
    <3>3. d \in 1 .. n /\ buf[i].sn = k.snd_nxt + d - 1
      BY <2>2
    <3> HIDE DEF d
    <3>2. k.snd_una <= buf[i].sn /\ buf[i].sn < nxt
      BY <1>19, <3>3
    <3> QED
      BY <2>2, <3>1, <3>2
  <2> QED
    BY <1>8, <2>1, <2>2
<1>12. ASSUME NEW sn \in 0 .. nxt - 1, sn \notin R
       PROVE  \E i \in DOMAIN buf : buf[i].sn = sn
  <2>1. CASE sn < k.snd_nxt
    <3>1. sn \in 0 .. k.snd_nxt - 1
      BY <1>1, <2>1
    <3>2. PICK i \in DOMAIN old : old[i].sn = sn
      BY <1>12, <3>1 DEF SendOK
    <3>3. i \in DOMAIN buf /\ buf[i].sn = sn
      BY <1>1, <1>3, <1>6, <1>7, <3>2
    <3> QED
      BY <3>3
  <2>2. CASE sn >= k.snd_nxt
    <3> DEFINE i == sn - k.snd_nxt + 1
    <3>4. sn \in Nat /\ sn < k.snd_nxt + n
      BY <1>19
    <3>1. i \in 1 .. n /\ k.snd_nxt + i - 1 = sn
      BY <1>19, <2>2, <3>4
    <3> HIDE DEF i
    <3>2. Len(old) + i \in DOMAIN buf
      BY <1>7, <1>19, <3>1
    <3>3. buf[Len(old) + i] = fresh[i] /\ fresh[i].sn = k.snd_nxt + i - 1
      BY <1>4, <1>6, <3>1
    <3> QED
      BY <3>1, <3>2, <3>3
  <2> QED
    BY <1>1, <1>3, <2>1, <2>2
<1>13. /\ queue \in Seq(Fragments) /\ Len(queue) = Len(k.snd_queue) - n
       /\ DOMAIN queue = 1 .. Len(k.snd_queue) - n
       /\ \A i \in DOMAIN queue : queue[i] = k.snd_queue[n + i]
  BY <1>1, <1>3, Suffix
<1> HIDE DEF queue
<1>14. ASSUME NEW i \in DOMAIN queue PROVE queue[i] = F[nxt + i]
  <2>1. n + i \in DOMAIN k.snd_queue /\ k.snd_nxt + (n + i) = nxt + i
    BY <1>1, <1>3, <1>13, SMTT(20)
  <2> QED
    BY <1>2, <1>13, <2>1
<1>15. /\ nxt \in Nat /\ nxt >= k.snd_nxt /\ k.snd_una <= nxt
       /\ nxt - k.snd_una <= SndWnd /\ nxt + Len(queue) = Len(F)
  <2>1. nxt - k.snd_una <= SndWnd
    BY <1>3, <1>19
  <2>2. nxt \in Nat /\ nxt >= k.snd_nxt /\ k.snd_una <= nxt
    BY <1>19
  <2>3. Len(k.snd_queue) \in Nat
    BY <1>1
  <2>4. nxt + Len(queue) = Len(F)
    <3>1. k.snd_nxt + Len(k.snd_queue) = Len(F) /\ Len(queue) = Len(k.snd_queue) - n
      BY <1>2, <1>13
    <3> QED
      BY <1>19, <2>3, <3>1
  <2> QED
    BY <2>1, <2>2, <2>4
<1> HIDE DEF nxt
<1> DEFINE m == [k EXCEPT !.snd_buf = buf, !.snd_queue = queue, !.snd_nxt = nxt]
<1>16. /\ m \in Control /\ SameRecv(k, m) /\ m.snd_buf = buf
       /\ m.snd_nxt = nxt /\ m.snd_queue = queue /\ m.snd_una = k.snd_una
  BY <1>5, <1>13, <1>15 DEF Control, SameRecv
<1>17. MoveToBuf(k) = m
  BY DEF MoveToBuf, buf, queue, nxt, fresh, Fresh, n, room
<1> HIDE DEF m
<1>18. SendOK(m, F, R)
  BY <1>10, <1>11, <1>12, <1>14, <1>15, <1>16 DEF SendOK
<1> QED
  BY <1>15, <1>16, <1>17, <1>18

LEMMA AdjustGood ==
    ASSUME NEW k \in Control, k.snd_una <= k.snd_nxt, NEW win \in Nat, NEW buf, NEW due
    PROVE  LET m == AdjustCwnd(k, buf, due, win)
           IN  m \in Control /\ SameSend(k, m) /\ SameRecv(k, m)
<1> DEFINE quarter == Max({win \div 2, ThreshMin})
           half == Max({(k.snd_nxt - k.snd_una) \div 2, ThreshMin})
           top == half + FastResend
           late == [k EXCEPT !.ssthresh = quarter, !.cwnd = 1, !.incr = Mss]
           over == [k EXCEPT !.ssthresh = half, !.cwnd = half + FastResend,
                             !.incr = (half + FastResend) * Mss]
           one == [k EXCEPT !.cwnd = 1, !.incr = Mss]
           Fine(m) == m \in Control /\ SameSend(k, m) /\ SameRecv(k, m)
<1>1. Mss \in Nat /\ FastResend \in Nat /\ 1 \in Nat
  BY Sizes
<1>2. \A a \in Nat : Max({a \div 2, ThreshMin}) \in Nat
  <2> TAKE a \in Nat
  <2> DEFINE b == a \div 2
  <2>1. b \in Int /\ ThreshMin \in Int /\ b \in Nat /\ ThreshMin \in Nat
    BY Quotient DEF ThreshMin
  <2> HIDE DEF b
  <2>2. Max({b, ThreshMin}) \in {b, ThreshMin}
    BY <2>1, MaxOfTwo, Zenon
  <2> QED
    BY <2>1, <2>2 DEF b
<1>3. quarter \in Nat
  BY <1>2
<1>4. half \in Nat
  <2>1. k.snd_nxt - k.snd_una \in Nat
    BY DEF Control
  <2> QED
    BY <1>2, <2>1
<1> HIDE DEF quarter, half
<1>5. Fine(late)
  BY <1>1, <1>3 DEF Control, SameSend, SameRecv
<1>6. Fine(over)
  <2> DEFINE c == half + FastResend
             b == (half + FastResend) * Mss
  <2>1. b \in Nat /\ c \in Nat
    BY <1>1, <1>4
  <2>2. over = [k EXCEPT !.cwnd = c, !.incr = b, !.ssthresh = half]
    OBVIOUS
  <2> HIDE DEF over, b, c
  <2> QED
    BY <1>4, <2>1, <2>2, WindowsOnly
<1>7. Fine(one)
  BY <1>1 DEF Control, SameSend, SameRecv
<1>8. Fine(k)
  BY DEF SameSend, SameRecv
<1>9. AdjustCwnd(k, buf, due, win) \in {k, late, over, one}
  BY DEF AdjustCwnd, late, over, one, quarter, half
<1> HIDE DEF Fine, late, over, one
<1>10. Fine(AdjustCwnd(k, buf, due, win))
  BY <1>5, <1>6, <1>7, <1>8, <1>9
<1> QED
  BY <1>10 DEF Fine

\* The whole of a flush: what is sent moves from the queue to the buffer, and
\* nothing is left to be acknowledged.
LEMMA FlushGood ==
    ASSUME NEW k \in Control, NEW F \in Seq(Fragments), NEW R, SendOK(k, F, R), NEW due
    PROVE  LET m == FlushState(k, due)
           IN  /\ m \in Control /\ SendOK(m, F, R) /\ AcksOK(m)
               /\ SameRecv([k EXCEPT !.acklist = <<>>], m)
               /\ m.snd_nxt = MoveToBuf(k).snd_nxt
<1> DEFINE moved == MoveToBuf(k)
           Sent(s) == [s EXCEPT !.xmit = TRUE,
                                !.fastack = IF IsOvertaken(s, due) THEN 0 ELSE @]
           old == moved.snd_buf
           buf == [i \in DOMAIN old |-> Sent(old[i])]
           thin == [moved EXCEPT !.snd_buf = buf]
           flushed == [moved EXCEPT !.acklist = <<>>, !.ask_tell = FALSE,
                                    !.probe_wait = (k.rmt_wnd = 0),
                                    !.snd_buf = buf]
           m == AdjustCwnd(flushed, old, due, FlushWindow(k))
           h == [j \in 1 .. Len(buf) |-> j]
<1>1. moved \in Control /\ SendOK(moved, F, R) /\ SameRecv(k, moved)
  BY MoveToBufGood
<1> HIDE DEF moved
<1>2. old \in Seq(OutSegments) /\ DOMAIN old = 1 .. Len(old) /\ Len(old) \in Nat
  BY <1>1 DEF Control
<1>3. ASSUME NEW i \in 1 .. Len(old)
      PROVE  /\ Sent(old[i]) \in OutSegments
             /\ Sent(old[i]).sn = old[i].sn /\ Sent(old[i]).data = old[i].data
  <2>1. old[i] \in OutSegments
    BY <1>2
  <2> QED
    BY <2>1 DEF OutSegments
<1> HIDE DEF Sent
<1>4. /\ buf \in Seq(OutSegments) /\ Len(buf) = Len(old)
      /\ \A i \in 1 .. Len(old) : buf[i] = Sent(old[i])
  BY <1>2, <1>3
<1> HIDE DEF buf
<1>5. h \in [1 .. Len(buf) -> 1 .. Len(old)]
  BY <1>2, <1>4
<1>6. \A i \in 1 .. Len(buf), j \in 1 .. Len(buf) : i < j => h[i] < h[j]
  OBVIOUS
<1>7. \A j \in 1 .. Len(buf) : buf[j].sn = old[h[j]].sn /\ buf[j].data = old[h[j]].data
  BY <1>3, <1>4
<1>8. \A i \in 1 .. Len(old) : old[i].sn \in R \/ \E j \in 1 .. Len(buf) : h[j] = i
  BY <1>4
<1>9. thin \in Control /\ SendOK(thin, F, R) /\ SameRecv(moved, thin)
      /\ thin.snd_nxt = moved.snd_nxt
  <2>1. thin = [moved EXCEPT !.snd_buf = buf]
    OBVIOUS
  <2>2. buf \in Seq(OutSegments)
    BY <1>4
  <2>3. moved \in Control /\ SendOK(moved, F, R)
    BY <1>1
  <2> HIDE DEF h
  <2>4. IsThinned(moved, buf, h, R)
    BY <1>5, <1>6, <1>7, <1>8 DEF IsThinned
  <2> HIDE DEF thin
  <2> QED
    BY <2>1, <2>2, <2>3, <2>4, Thinned
<1>10. /\ flushed \in Control /\ SameSend(thin, flushed)
       /\ SameRecv([thin EXCEPT !.acklist = <<>>], flushed)
  <2>1. <<>> \in Seq(Nat) /\ (k.rmt_wnd = 0) \in BOOLEAN
    OBVIOUS
  <2>2. flushed \in Control
    BY <1>1, <1>4, <2>1 DEF Control
  <2>3. SameSend(thin, flushed)
    BY <1>1 DEF Control, SameSend
  <2>4. SameRecv([thin EXCEPT !.acklist = <<>>], flushed)
    BY <1>1 DEF Control, SameRecv
  <2> QED
    BY <2>2, <2>3, <2>4
<1>11. FlushState(k, due) = m
  BY DEF FlushState, moved, Sent, buf
<1> HIDE DEF flushed, thin
<1>12. SendOK(flushed, F, R)
  BY <1>9, <1>10, SameSendOK
<1>13. m \in Control /\ SameSend(flushed, m) /\ SameRecv(flushed, m)
  <2>1. FlushWindow(k) \in Nat
    BY FlushWindowIs
  <2>2. flushed.snd_una <= flushed.snd_nxt
    BY <1>12 DEF SendOK
  <2> QED
    BY <1>10, <2>1, <2>2, AdjustGood
<1> HIDE DEF m
<1>14. SendOK(m, F, R)
  BY <1>12, <1>13, SameSendOK
<1>15. SameRecv([k EXCEPT !.acklist = <<>>], m) /\ m.acklist = <<>>
  BY <1>1, <1>9, <1>10, <1>13 DEF SameRecv, Control
<1>16. AcksOK(m)
  BY <1>15 DEF AcksOK
<1>17. m.snd_nxt = moved.snd_nxt
  BY <1>9, <1>10, <1>13 DEF SameSend
<1> QED
  BY <1>11, <1>13, <1>14, <1>15, <1>16, <1>17 DEF moved

-----------------------------------------------------------------------------
(* The receiving side *)

\* Segments move from rcv_buf to the queue: nothing received is lost.
LEMMA ReadyGood ==
    ASSUME NEW k \in Control, NEW F, NEW N \in Nat, NEW taken \in Nat,
           RecvOK(k, F, N, taken)
    PROVE  LET m == MoveReady(k)
           IN  /\ m \in Control /\ RecvOK(m, F, N, taken) /\ SameSend(k, m)
               /\ m.acklist = k.acklist /\ Got(m) = Got(k)
<1> DEFINE old == k.rcv_buf
           queue == k.rcv_queue
           Ready(i) == /\ i <= Len(k.rcv_buf)
                       /\ Len(k.rcv_queue) + i <= RcvWnd
                       /\ \A j \in 1 .. i : k.rcv_buf[j].sn = k.rcv_nxt + j - 1
           L == {i \in 0 .. Len(k.rcv_buf) : Ready(i)} \union {0}
           n == Max(L)
           fresh == [i \in 1 .. n |-> old[i].data]
           queue2 == queue \o fresh
           buf == SubSeq(old, n + 1, Len(old))
           nxt == k.rcv_nxt + n
<1>1. /\ old \in Seq(InSegments) /\ Len(old) \in Nat /\ DOMAIN old = 1 .. Len(old)
      /\ queue \in Seq(Fragments) /\ Len(queue) \in Nat /\ DOMAIN queue = 1 .. Len(queue)
      /\ k.rcv_nxt \in Nat
  BY DEF Control
<1>2. /\ k.rcv_nxt <= N /\ Len(queue) <= RcvWnd /\ k.rcv_nxt = taken + Len(queue)
      /\ \A i \in DOMAIN queue : queue[i] = F[taken + i]
      /\ \A i \in DOMAIN old :
          /\ k.rcv_nxt <= old[i].sn /\ old[i].sn < k.rcv_nxt + RcvWnd
          /\ old[i].sn < N /\ old[i].data = F[old[i].sn + 1]
      /\ \A i \in DOMAIN old, j \in DOMAIN old : i < j => old[i].sn < old[j].sn
  BY DEF RecvOK, Ascending
<1>3. \A i \in 1 .. Len(old) : old[i].sn \in Nat /\ old[i].data \in Fragments
  <2> SUFFICES ASSUME NEW i \in 1 .. Len(old)
               PROVE  old[i].sn \in Nat /\ old[i].data \in Fragments
    OBVIOUS
  <2>1. old[i] \in InSegments
    BY <1>1
  <2> QED
    BY <2>1 DEF InSegments
<1>4. /\ n \in 0 .. Len(old) /\ Len(queue) + n <= RcvWnd
      /\ \A j \in 1 .. n : old[j].sn = k.rcv_nxt + j - 1
  <2>1. L \subseteq 0 .. Len(old) /\ L # {}
    BY <1>1
  <2>2. n \in L
    <3> HIDE DEF L
    <3> QED
      BY <1>1, <2>1, MaxIs
  <2> HIDE DEF n
  <2>3. CASE n = 0
    BY <1>1, <1>2, <2>3
  <2>4. CASE n # 0
    BY <2>2, <2>4
  <2> QED
    BY <2>3, <2>4
<1> HIDE DEF n, L
<1>5. /\ n \in Nat /\ k.rcv_nxt \in Nat /\ Len(old) \in Nat /\ Len(queue) \in Nat
      /\ n <= Len(old) /\ RcvWnd \in Nat
  BY <1>1, <1>4, Sizes
<1>6. /\ fresh \in Seq(Fragments) /\ Len(fresh) = n
      /\ \A i \in 1 .. n : fresh[i] = F[k.rcv_nxt + i]
  <2>1. ASSUME NEW i \in 1 .. n
        PROVE  old[i].data \in Fragments /\ old[i].data = F[k.rcv_nxt + i]
    <3>1. i \in 1 .. Len(old)
      BY <1>5
    <3>2. old[i].data = F[old[i].sn + 1] /\ old[i].sn = k.rcv_nxt + i - 1
      BY <1>1, <1>2, <1>4, <3>1
    <3>3. old[i].sn + 1 = k.rcv_nxt + i
      BY <1>5, <3>2
    <3> QED
      BY <1>3, <3>1, <3>2, <3>3
  <2> HIDE DEF old
  <2> QED
    BY <1>5, <2>1
<1> HIDE DEF fresh
<1>7. queue2 \in Seq(Fragments) /\ Len(queue2) = Len(queue) + n
  BY <1>1, <1>6, Concat
<1>8. DOMAIN queue2 = 1 .. Len(queue) + n
  BY <1>7
<1>9. ASSUME NEW i \in DOMAIN queue2 PROVE queue2[i] = F[taken + i]
  <2>1. CASE i <= Len(queue)
    <3>1. i \in DOMAIN queue /\ queue2[i] = queue[i]
      BY <1>1, <1>5, <1>6, <1>8, <2>1
    <3> QED
      BY <1>2, <3>1
  <2>2. CASE i > Len(queue)
    <3> DEFINE j == i - Len(queue)
    <3>1. j \in 1 .. n /\ Len(queue) + j = i
      BY <1>5, <1>8, <2>2, SMTT(20)
    <3>2. queue2[i] = fresh[j]
      BY <1>1, <1>5, <1>6, <1>8, <2>2
    <3>3. fresh[j] = F[k.rcv_nxt + j]
      BY <1>6, <3>1
    <3>4. k.rcv_nxt + j = taken + i
      BY <1>2, <1>5, <3>1
    <3> QED
      BY <3>2, <3>3, <3>4
  <2> QED
    BY <1>5, <1>8, <2>1, <2>2
<1> HIDE DEF queue2
<1>10. /\ buf \in Seq(InSegments) /\ Len(buf) = Len(old) - n
       /\ DOMAIN buf = 1 .. Len(old) - n
       /\ \A i \in DOMAIN buf : buf[i] = old[n + i]
  BY <1>1, <1>4, Suffix
<1> HIDE DEF buf
<1>11. \A i \in DOMAIN buf : n + i \in DOMAIN old
  BY <1>1, <1>5, <1>10
<1>12. Ascending(buf)
  <2> SUFFICES ASSUME NEW i \in DOMAIN buf, NEW j \in DOMAIN buf, i < j
               PROVE  buf[i].sn < buf[j].sn
    BY DEF Ascending
  <2>1. n + i < n + j
    BY <1>5, <1>10
  <2>2. old[n + i].sn < old[n + j].sn
    BY <1>2, <1>11, <2>1
  <2> QED
    BY <1>10, <2>2
<1>13. ASSUME NEW i \in DOMAIN buf
       PROVE  /\ nxt <= buf[i].sn /\ buf[i].sn < nxt + RcvWnd
              /\ buf[i].sn < N /\ buf[i].data = F[buf[i].sn + 1]
  <2>1. /\ buf[i] = old[n + i] /\ n + i \in DOMAIN old /\ i \in Nat /\ i >= 1
        /\ buf[i].sn \in Nat
    BY <1>1, <1>3, <1>10, <1>11
  <2>2. /\ k.rcv_nxt <= buf[i].sn /\ buf[i].sn < k.rcv_nxt + RcvWnd
        /\ buf[i].sn < N /\ buf[i].data = F[buf[i].sn + 1]
    BY <1>2, <2>1
  <2>3. nxt <= buf[i].sn
    <3>1. CASE n = 0
      BY <1>5, <2>1, <2>2, <3>1
    <3>2. CASE n # 0
      <4>1. n \in DOMAIN old /\ n < n + i /\ old[n].sn = k.rcv_nxt + n - 1
        BY <1>1, <1>4, <1>5, <2>1, <3>2
      <4>2. old[n].sn < old[n + i].sn
        BY <1>2, <2>1, <4>1
      <4> QED
        BY <1>5, <2>1, <4>1, <4>2, SMTT(20)
    <3> QED
      BY <3>1, <3>2
  <2>4. buf[i].sn < nxt + RcvWnd
    BY <1>5, <2>1, <2>2, SMTT(20)
  <2> QED
    BY <2>2, <2>3, <2>4
<1>14. nxt <= N
  <2>1. CASE n = 0
    BY <1>2, <1>5, <2>1
  <2>2. CASE n # 0
    <3>2. n \in 1 .. n /\ n \in DOMAIN old
      BY <1>1, <1>5, <2>2
    <3>1. old[n].sn = k.rcv_nxt + n - 1 /\ old[n].sn < N
      BY <1>2, <1>4, <3>2
    <3> QED
      BY <1>5, <3>1
  <2> QED
    BY <2>1, <2>2
<1>15. nxt \in Nat /\ nxt = taken + Len(queue2) /\ Len(queue2) <= RcvWnd
  <2>1. k.rcv_nxt = taken + Len(queue) /\ Len(queue) + n <= RcvWnd
    BY <1>2, <1>4
  <2>2. Len(queue2) = Len(queue) + n
    BY <1>7
  <2> QED
    BY <1>5, <2>1, <2>2
<1> DEFINE m == [k EXCEPT !.rcv_queue = queue2, !.rcv_buf = buf, !.rcv_nxt = nxt]
<1>16. MoveReady(k) = m
  BY DEF MoveReady, queue2, buf, fresh, n, L, Ready
<1>17. /\ m \in Control /\ SameSend(k, m) /\ m.acklist = k.acklist
       /\ m.rcv_queue = queue2 /\ m.rcv_buf = buf /\ m.rcv_nxt = nxt
  BY <1>7, <1>10, <1>15 DEF Control, SameSend
<1> HIDE DEF m
<1>18. ASSUME NEW sn \in Nat PROVE Has(m, sn) <=> Has(k, sn)
  <2>1. ASSUME Has(k, sn), ~(sn < nxt) PROVE \E i \in DOMAIN buf : buf[i].sn = sn
    <3>1. ~(sn < k.rcv_nxt)
      BY <1>5, <2>1
    <3>2. PICK i \in DOMAIN old : old[i].sn = sn
      BY <2>1, <3>1 DEF Has
    <3>3. i > n
      <4>1. i \in 1 .. n => sn = k.rcv_nxt + i - 1
        BY <1>4, <3>2
      <4> QED
        BY <1>1, <1>5, <2>1, <3>2, <4>1
    <3>4. i - n \in DOMAIN buf /\ n + (i - n) = i
      BY <1>1, <1>5, <1>10, <3>2, <3>3, SMTT(20)
    <3> QED
      BY <1>10, <3>2, <3>4
  <2>2. ASSUME sn < nxt PROVE Has(k, sn)
    <3>1. CASE sn < k.rcv_nxt
      BY <3>1 DEF Has
    <3>2. CASE sn >= k.rcv_nxt
      <4> DEFINE i == sn - k.rcv_nxt + 1
      <4>1. i \in 1 .. n /\ k.rcv_nxt + i - 1 = sn
        BY <1>5, <2>2, <3>2
      <4>2. i \in DOMAIN old
        BY <1>1, <1>5, <4>1
      <4> HIDE DEF i
      <4>3. old[i].sn = sn
        BY <1>4, <4>1
      <4> QED
        BY <4>2, <4>3 DEF Has
    <3> QED
      BY <1>5, <3>1, <3>2
  <2>3. ASSUME NEW i \in DOMAIN buf, buf[i].sn = sn PROVE Has(k, sn)
    <3> DEFINE j == n + i
    <3>1. j \in DOMAIN old /\ old[j].sn = sn
      BY <1>10, <1>11, <2>3
    <3> HIDE DEF j
    <3> QED
      BY <3>1 DEF Has
  <2> QED
    BY <1>17, <2>1, <2>2, <2>3 DEF Has
<1>19. Got(m) = Got(k)
  <2> HIDE DEF nxt
  <2> QED
    BY <1>18, Zenon DEF Got
<1>20. RecvOK(m, F, N, taken)
  BY <1>9, <1>12, <1>13, <1>14, <1>15, <1>17 DEF RecvOK
<1> QED
  BY <1>16, <1>17, <1>19, <1>20

\* A segment finds its place among those that wait: one that is not there yet.
LEMMA InsertGood ==
    ASSUME NEW k \in Control, NEW F, NEW N \in Nat, NEW taken \in Nat,
           RecvOK(k, F, N, taken),
           NEW seg \in InSegments, seg.sn < N, seg.data = F[seg.sn + 1],
           seg.sn >= k.rcv_nxt, seg.sn < k.rcv_nxt + RcvWnd,
           \A i \in DOMAIN k.rcv_buf : k.rcv_buf[i].sn # seg.sn,
           NEW n \in 0 .. Len(k.rcv_buf),
           \A i \in DOMAIN k.rcv_buf : k.rcv_buf[i].sn < seg.sn => i <= n,
           n # 0 => k.rcv_buf[n].sn < seg.sn
    PROVE  LET m == [k EXCEPT !.rcv_buf = InsertAt(k.rcv_buf, n + 1, seg)]
           IN  /\ m \in Control /\ RecvOK(m, F, N, taken) /\ SameSend(k, m)
               /\ m.acklist = k.acklist /\ m.rcv_nxt = k.rcv_nxt
               /\ Got(k) \subseteq Got(m) /\ seg.sn \in Got(m)
<1> DEFINE old == k.rcv_buf
           buf == InsertAt(k.rcv_buf, n + 1, seg)
           m == [k EXCEPT !.rcv_buf = buf]
<1>1. /\ old \in Seq(InSegments) /\ Len(old) \in Nat /\ DOMAIN old = 1 .. Len(old)
      /\ k.rcv_nxt \in Nat /\ seg.sn \in Nat /\ n \in Nat /\ n <= Len(old)
  BY DEF Control, InSegments
<1>2. /\ buf \in Seq(InSegments) /\ DOMAIN buf = 1 .. Len(old) + 1
      /\ \A i \in 1 .. Len(old) + 1 :
            buf[i] = IF i < n + 1 THEN old[i] ELSE IF i = n + 1 THEN seg ELSE old[i - 1]
  <2> DEFINE at == n + 1
  <2>1. at \in 1 .. Len(old) + 1 /\ old \in Seq(InSegments)
    BY <1>1
  <2>2. buf = InsertAt(old, at, seg)
    OBVIOUS
  <2> HIDE DEF at, buf, old
  <2>3. buf \in Seq(InSegments) /\ IsInserted(buf, old, at, seg)
    BY <2>1, <2>2, Inserted
  <2> QED
    BY <2>3 DEF at, IsInserted
<1> HIDE DEF buf
<1>3. \A i \in DOMAIN old :
          /\ k.rcv_nxt <= old[i].sn /\ old[i].sn < k.rcv_nxt + RcvWnd
          /\ old[i].sn < N /\ old[i].data = F[old[i].sn + 1]
  BY DEF RecvOK
<1>4. \A i \in DOMAIN old, j \in DOMAIN old : i < j => old[i].sn < old[j].sn
  BY DEF RecvOK, Ascending
<1>5. \A i \in DOMAIN old : old[i].sn \in Nat
  <2> SUFFICES ASSUME NEW i \in DOMAIN old PROVE old[i].sn \in Nat
    OBVIOUS
  <2>1. old[i] \in InSegments
    BY <1>1
  <2> QED
    BY <2>1 DEF InSegments
<1>6. \A i \in DOMAIN old : IF i <= n THEN old[i].sn < seg.sn ELSE seg.sn < old[i].sn
  <2> SUFFICES ASSUME NEW i \in DOMAIN old
               PROVE  IF i <= n THEN old[i].sn < seg.sn ELSE seg.sn < old[i].sn
    OBVIOUS
  <2>1. CASE i <= n
    <3>1. n \in DOMAIN old /\ old[n].sn < seg.sn /\ (i = n \/ i < n)
      BY <1>1, <2>1
    <3>2. i < n => old[i].sn < old[n].sn
      BY <1>4, <3>1
    <3> QED
      BY <1>1, <1>5, <2>1, <3>1, <3>2, SMTT(20)
  <2>2. CASE i > n
    <3>1. ~(old[i].sn < seg.sn) /\ old[i].sn # seg.sn
      BY <1>1, <2>2
    <3> QED
      BY <1>1, <1>5, <2>2, <3>1
  <2> QED
    BY <1>1, <2>1, <2>2
\* The place of the i-th of the new buffer in the old one.
<1>7. ASSUME NEW i \in DOMAIN buf
      PROVE  \/ i <= n /\ i \in DOMAIN old /\ buf[i] = old[i]
             \/ i = n + 1 /\ buf[i] = seg
             \/ i > n + 1 /\ i - 1 \in DOMAIN old /\ buf[i] = old[i - 1]
  <2>1. CASE i < n + 1
    BY <1>1, <1>2, <2>1, SMTT(20)
  <2>2. CASE i = n + 1
    BY <1>1, <1>2, <2>2
  <2>3. CASE i > n + 1
    BY <1>1, <1>2, <2>3, SMTT(20)
  <2> QED
    BY <1>1, <1>2, <2>1, <2>2, <2>3
<1>8. Ascending(buf)
  <2> SUFFICES ASSUME NEW i \in DOMAIN buf, NEW j \in DOMAIN buf, i < j
               PROVE  buf[i].sn < buf[j].sn
    BY DEF Ascending
  <2>1. i \in Int /\ j \in Int
    BY <1>2
  <2>2. CASE j <= n /\ j \in DOMAIN old /\ buf[j] = old[j]
    <3>1. i <= n /\ i \in DOMAIN old /\ buf[i] = old[i]
      BY <1>1, <1>7, <2>1, <2>2
    <3> QED
      BY <1>4, <2>2, <3>1
  <2>3. CASE j = n + 1 /\ buf[j] = seg
    <3>1. i <= n /\ i \in DOMAIN old /\ buf[i] = old[i]
      BY <1>1, <1>7, <2>1, <2>3
    <3> QED
      BY <1>6, <2>3, <3>1
  <2>4. CASE j > n + 1 /\ j - 1 \in DOMAIN old /\ buf[j] = old[j - 1]
    <3>1. seg.sn < old[j - 1].sn /\ old[j - 1].sn \in Nat
      BY <1>1, <1>5, <1>6, <2>1, <2>4
    <3>2. CASE i <= n /\ i \in DOMAIN old /\ buf[i] = old[i]
      <4>1. old[i].sn < seg.sn /\ old[i].sn \in Nat
        BY <1>5, <1>6, <3>2
      <4>2. old[i].sn < old[j - 1].sn
        BY <1>1, <3>1, <4>1, SMTT(20)
      <4> QED
        BY <2>4, <3>2, <4>2
    <3>3. CASE i = n + 1 /\ buf[i] = seg
      BY <2>4, <3>1, <3>3
    <3>4. CASE i > n + 1 /\ i - 1 \in DOMAIN old /\ buf[i] = old[i - 1]
      <4>1. i - 1 < j - 1
        BY <2>1
      <4>2. old[i - 1].sn < old[j - 1].sn
        BY <1>4, <2>4, <3>4, <4>1
      <4> QED
        BY <2>4, <3>4, <4>2
    <3> QED
      BY <1>7, <3>2, <3>3, <3>4
  <2> QED
    BY <1>7, <2>2, <2>3, <2>4
<1>9. ASSUME NEW i \in DOMAIN buf
      PROVE  /\ k.rcv_nxt <= buf[i].sn /\ buf[i].sn < k.rcv_nxt + RcvWnd
             /\ buf[i].sn < N /\ buf[i].data = F[buf[i].sn + 1]
  <2>1. (\E j \in DOMAIN old : buf[i] = old[j]) \/ buf[i] = seg
    BY <1>7
  <2>2. CASE buf[i] = seg
    BY <1>1, <2>2
  <2>3. ASSUME NEW j \in DOMAIN old, buf[i] = old[j]
        PROVE  /\ k.rcv_nxt <= buf[i].sn /\ buf[i].sn < k.rcv_nxt + RcvWnd
               /\ buf[i].sn < N /\ buf[i].data = F[buf[i].sn + 1]
    BY <1>3, <2>3
  <2> QED
    BY <2>1, <2>2, <2>3
<1>10. \A j \in DOMAIN old : \E i \in DOMAIN buf : buf[i] = old[j]
  <2> SUFFICES ASSUME NEW j \in DOMAIN old PROVE \E i \in DOMAIN buf : buf[i] = old[j]
    OBVIOUS
  <2>1. CASE j <= n
    <3>1. j \in DOMAIN buf /\ buf[j] = old[j]
      BY <1>1, <1>2, <2>1, SMTT(20)
    <3> QED
      BY <3>1
  <2>2. CASE j > n
    <3> DEFINE i == j + 1
    <3>1. i \in 1 .. Len(old) + 1 /\ ~(i < n + 1) /\ i # n + 1 /\ i - 1 = j
      BY <1>1, <2>2
    <3> HIDE DEF i
    <3>2. i \in DOMAIN buf /\ buf[i] = old[j]
      BY <1>2, <3>1
    <3> QED
      BY <3>2
  <2> QED
    BY <1>1, <2>1, <2>2
<1>11. \E i \in DOMAIN buf : buf[i] = seg
  <2>1. n + 1 \in DOMAIN buf /\ buf[n + 1] = seg
    BY <1>1, <1>2
  <2> QED
    BY <2>1
<1>12. /\ m \in Control /\ SameSend(k, m) /\ m.acklist = k.acklist
       /\ m.rcv_buf = buf /\ m.rcv_nxt = k.rcv_nxt /\ m.rcv_queue = k.rcv_queue
  BY <1>2 DEF Control, SameSend
<1> HIDE DEF m
<1>13. RecvOK(m, F, N, taken)
  BY <1>8, <1>9, <1>12 DEF RecvOK
<1>14. ASSUME NEW sn \in Nat, Has(k, sn) PROVE Has(m, sn)
  <2>1. CASE sn < k.rcv_nxt
    BY <1>12, <2>1 DEF Has
  <2>2. ASSUME NEW j \in DOMAIN old, old[j].sn = sn PROVE Has(m, sn)
    BY <1>10, <1>12, <2>2 DEF Has
  <2> QED
    BY <1>14, <2>1, <2>2 DEF Has
<1>15. Got(k) \subseteq Got(m)
  BY <1>14 DEF Got
<1>16. seg.sn \in Got(m)
  BY <1>1, <1>11, <1>12 DEF Got, Has
<1> QED
  BY <1>12, <1>13, <1>15, <1>16 DEF m, buf

\* ikcp_parse_data with a genuine segment.
LEMMA DataGood ==
    ASSUME NEW k \in Control, NEW F, NEW N \in Nat, NEW taken \in Nat,
           RecvOK(k, F, N, taken),
           NEW seg \in InSegments, seg.sn < N, seg.data = F[seg.sn + 1]
    PROVE  LET m == ParseData(k, seg)
           IN  /\ m \in Control /\ RecvOK(m, F, N, taken) /\ SameSend(k, m)
               /\ m.acklist = k.acklist /\ Got(k) \subseteq Got(m)
               /\ seg.sn < k.rcv_nxt + RcvWnd => seg.sn \in Got(m)
<1> DEFINE old == k.rcv_buf
           B == {i \in DOMAIN k.rcv_buf : k.rcv_buf[i].sn < seg.sn} \union {0}
           n == Max(B)
           isRepeat == \E i \in DOMAIN k.rcv_buf : k.rcv_buf[i].sn = seg.sn
           inserted == IF isRepeat THEN k.rcv_buf ELSE InsertAt(k.rcv_buf, n + 1, seg)
           next == [k EXCEPT !.rcv_buf = inserted]
           Fine(m) == /\ m \in Control /\ RecvOK(m, F, N, taken) /\ SameSend(k, m)
                      /\ m.acklist = k.acklist /\ Got(k) \subseteq Got(m)
           out == seg.sn >= k.rcv_nxt + RcvWnd \/ seg.sn < k.rcv_nxt
<1>1. /\ old \in Seq(InSegments) /\ Len(old) \in Nat /\ DOMAIN old = 1 .. Len(old)
      /\ k.rcv_nxt \in Nat /\ seg.sn \in Nat /\ RcvWnd \in Nat
  BY Sizes DEF Control, InSegments
<1>2. n \in B /\ (\A i \in B : i <= n) /\ n \in 0 .. Len(old) /\ \A i \in B : i \in Int
  <2>1. B \subseteq 0 .. Len(old) /\ B # {}
    BY <1>1
  <2> HIDE DEF B, old
  <2>2. n \in B /\ \A i \in B : n >= i
    BY <1>1, <2>1, MaxIs
  <2> HIDE DEF n
  <2> QED
    BY <1>1, <2>1, <2>2
<1> HIDE DEF n
<1>3. /\ \A i \in DOMAIN k.rcv_buf : k.rcv_buf[i].sn < seg.sn => i <= n
      /\ n # 0 => k.rcv_buf[n].sn < seg.sn
  BY <1>2
<1> HIDE DEF B
<1>4. Fine(k)
  BY DEF SameSend
<1>5. ParseData(k, seg) = IF out THEN k ELSE MoveReady(next)
  BY DEF ParseData, n, B
<1>6. CASE out
  <2>1. seg.sn < k.rcv_nxt + RcvWnd => seg.sn \in Got(k)
    BY <1>1, <1>6 DEF Got, Has
  <2> QED
    BY <1>4, <1>5, <1>6, <2>1
<1>7. CASE ~out
  <2>1. seg.sn >= k.rcv_nxt /\ seg.sn < k.rcv_nxt + RcvWnd
    BY <1>1, <1>7
  <2>2. Fine(next) /\ seg.sn \in Got(next)
    <3>1. CASE isRepeat
      <4>1. next = k
        BY <3>1 DEF Control
      <4>2. seg.sn \in Got(k)
        BY <1>1, <3>1 DEF Got, Has
      <4> QED
        BY <1>4, <4>1, <4>2
    <3>2. CASE ~isRepeat
      <4>1. next = [k EXCEPT !.rcv_buf = InsertAt(k.rcv_buf, n + 1, seg)]
        BY <3>2
      <4>2. \A i \in DOMAIN k.rcv_buf : k.rcv_buf[i].sn # seg.sn
        BY <3>2
      <4>3. n \in 0 .. Len(k.rcv_buf)
        BY <1>2
      <4> HIDE DEF next
      <4> QED
        BY <1>3, <2>1, <4>1, <4>2, <4>3, InsertGood
    <3> QED
      BY <3>1, <3>2
  <2> HIDE DEF next
  <2> DEFINE m == MoveReady(next)
  <2>3. /\ m \in Control /\ RecvOK(m, F, N, taken) /\ SameSend(next, m)
        /\ m.acklist = next.acklist /\ Got(m) = Got(next)
    BY <2>2, ReadyGood
  <2>4. ParseData(k, seg) = m
    BY <1>5, <1>7
  <2> HIDE DEF m
  <2>5. SameSend(k, m)
    BY <2>2, <2>3, SameTwice
  <2> QED
    BY <2>2, <2>3, <2>4, <2>5
<1> QED
  BY <1>6, <1>7

-----------------------------------------------------------------------------
(* One end: its stream is F, of which the other end has R; it receives G, of *)
(* which the other end has sent N fragments and its user has taken some.     *)

EndOK(k, F, R, G, N, taken) == SendOK(k, F, R) /\ RecvOK(k, G, N, taken) /\ AcksOK(k)

LEMMA SegmentParts ==
    ASSUME NEW R, NEW G, NEW N, NEW seg \in Genuine(R, G, N)
    PROVE  /\ seg.sn \in Nat /\ seg.una \in Nat /\ seg.wnd \in Nat
           /\ 0 .. seg.una - 1 \subseteq R
           /\ seg.cmd = "ack" => seg.sn \in R
           /\ seg.cmd = "push" => /\ seg.data \in Fragments /\ seg.sn < N
                                  /\ seg.data = G[seg.sn + 1]
<1>1. seg \in Segments
  BY DEF Genuine
<1>2. seg.cmd = "push" => seg.data \in Fragments
  BY <1>1 DEF Segments
<1>3. seg.sn \in Nat /\ seg.una \in Nat /\ seg.wnd \in Nat
  BY <1>1 DEF Segments
<1> QED
  BY <1>2, <1>3 DEF Genuine

LEMMA SegmentGood ==
    ASSUME NEW F, NEW R, NEW G, NEW N \in Nat, NEW taken \in Nat,
           NEW k \in Control, EndOK(k, F, R, G, N, taken),
           NEW seg \in Genuine(R, G, N)
    PROVE  LET m == InputSegment(k, seg)
           IN  /\ m \in Control /\ EndOK(m, F, R, G, N, taken)
               /\ m.snd_nxt = k.snd_nxt /\ Got(k) \subseteq Got(m)
<1> DEFINE told == [k EXCEPT !.rmt_wnd = seg.wnd]
           cut == ParseUna(told, seg.una)
           seen == ShrinkBuf(cut)
           data == [sn |-> seg.sn, data |-> seg.data]
           Fine(m) == /\ m \in Control /\ EndOK(m, F, R, G, N, taken)
                      /\ m.snd_nxt = k.snd_nxt /\ Got(k) \subseteq Got(m)
<1>1. SendOK(k, F, R) /\ RecvOK(k, G, N, taken) /\ AcksOK(k)
  BY DEF EndOK
<1>2. told \in Control /\ SameSend(k, told) /\ SameRecv(k, told)
  BY SegmentParts DEF Control, SameSend, SameRecv
<1>3. told.snd_nxt = k.snd_nxt /\ SendOK(told, F, R)
  <2> HIDE DEF told
  <2>1. told.snd_nxt = k.snd_nxt
    BY <1>2 DEF SameSend
  <2> QED
    BY <1>1, <1>2, <2>1, SameSendOK
<1> HIDE DEF told
<1>4. /\ cut \in Control /\ SendOK(cut, F, R) /\ SameRecv(told, cut)
      /\ cut.snd_nxt = told.snd_nxt
  BY <1>2, <1>3, SegmentParts, UnaGood
<1> HIDE DEF cut
<1>5. /\ seen \in Control /\ SendOK(seen, F, R) /\ SameRecv(cut, seen)
      /\ seen.snd_nxt = cut.snd_nxt
  BY <1>4, ShrinkGood
<1> HIDE DEF seen
<1>6. SameRecv(k, seen) /\ seen.snd_nxt = k.snd_nxt
  BY <1>2, <1>3, <1>4, <1>5, SameTwice
<1>7. RecvOK(seen, G, N, taken) /\ AcksOK(seen) /\ Got(seen) = Got(k)
  BY <1>1, <1>6, SameRecvOK
<1>8. Fine(seen)
  BY <1>5, <1>6, <1>7 DEF EndOK
<1>9. CASE seg.cmd = "ack"
  <2> DEFINE acked == ParseAck(seen, seg.sn)
             m == ShrinkBuf(acked)
  <2>1. /\ acked \in Control /\ SendOK(acked, F, R) /\ SameRecv(seen, acked)
        /\ acked.snd_nxt = seen.snd_nxt
    BY <1>5, <1>9, SegmentParts, AckGood
  <2>2. InputSegment(k, seg) = m
    BY <1>9 DEF InputSegment, seen, cut, told
  <2> HIDE DEF acked
  <2>3. /\ m \in Control /\ SendOK(m, F, R) /\ SameRecv(acked, m)
        /\ m.snd_nxt = acked.snd_nxt
    BY <2>1, ShrinkGood
  <2> HIDE DEF m
  <2>4. SameRecv(seen, m)
    BY <2>1, <2>3, SameTwice
  <2>5. RecvOK(m, G, N, taken) /\ AcksOK(m) /\ Got(m) = Got(seen)
    BY <1>7, <2>4, SameRecvOK
  <2> QED
    BY <1>6, <1>7, <2>1, <2>2, <2>3, <2>5 DEF EndOK
<1>10. CASE seg.cmd = "push" /\ seg.sn < seen.rcv_nxt + RcvWnd
  <2> DEFINE acks == Append(seen.acklist, seg.sn)
             noted == [seen EXCEPT !.acklist = acks]
             m == ParseData(noted, data)
  <2>1. seen.acklist \in Seq(Nat) /\ seg.sn \in Nat
    BY <1>5, SegmentParts DEF Control
  <2>2. acks \in Seq(Nat) /\ \A i \in DOMAIN acks : i \in DOMAIN seen.acklist
                                \/ acks[i] = seg.sn
    BY <2>1
  <2>10. \A i \in DOMAIN acks : i \in DOMAIN seen.acklist => acks[i] = seen.acklist[i]
    BY <2>1
  <2> HIDE DEF acks
  <2>3. /\ noted \in Control /\ SameSend(seen, noted) /\ noted.acklist = acks
        /\ noted.rcv_nxt = seen.rcv_nxt /\ noted.rcv_buf = seen.rcv_buf
        /\ noted.rcv_queue = seen.rcv_queue
    BY <1>5, <2>2 DEF Control, SameSend
  <2>4. InputSegment(k, seg) = m
    <3>1. seg.cmd # "ack"
      BY <1>10
    <3> QED
      BY <1>10, <3>1 DEF InputSegment, seen, cut, told, acks
  <2> HIDE DEF noted
  <2>5. RecvOK(noted, G, N, taken) /\ Got(noted) = Got(seen)
    BY <1>7, <2>3 DEF RecvOK, Got, Has
  <2>6. data \in InSegments /\ data.sn < N /\ data.data = G[data.sn + 1]
    BY <1>10, SegmentParts DEF InSegments
  <2>11. data.sn = seg.sn
    OBVIOUS
  <2> HIDE DEF data
  <2>7. /\ m \in Control /\ RecvOK(m, G, N, taken) /\ SameSend(noted, m)
        /\ m.acklist = noted.acklist /\ Got(noted) \subseteq Got(m)
        /\ seg.sn \in Got(m)
    <3>1. data.sn < noted.rcv_nxt + RcvWnd
      BY <1>10, <2>3, <2>11
    <3> QED
      BY <2>3, <2>5, <2>6, <2>11, <3>1, DataGood
  <2> HIDE DEF m
  <2>8. SendOK(m, F, R) /\ m.snd_nxt = seen.snd_nxt
    <3>1. SameSend(seen, m)
      BY <2>3, <2>7, SameTwice
    <3>2. SendOK(m, F, R)
      BY <1>5, <3>1, SameSendOK
    <3> QED
      BY <3>1, <3>2 DEF SameSend
  <2>9. AcksOK(m)
    <3> SUFFICES ASSUME NEW i \in DOMAIN m.acklist PROVE m.acklist[i] \in Got(m)
      BY DEF AcksOK
    <3>1. m.acklist = acks /\ i \in DOMAIN acks
      BY <2>3, <2>7
    <3>2. CASE acks[i] = seg.sn
      BY <2>7, <3>1, <3>2
    <3>3. CASE i \in DOMAIN seen.acklist
      <4>1. acks[i] = seen.acklist[i]
        BY <2>10, <3>1, <3>3
      <4>2. acks[i] \in Got(seen)
        BY <1>7, <3>3, <4>1 DEF AcksOK
      <4> QED
        BY <2>5, <2>7, <3>1, <4>2
    <3> QED
      BY <2>2, <3>1, <3>2, <3>3
  <2> QED
    BY <1>6, <1>7, <2>4, <2>5, <2>7, <2>8, <2>9 DEF EndOK
<1>11. CASE seg.cmd = "wask"
  <2> DEFINE m == [seen EXCEPT !.ask_tell = TRUE]
  <2>1. InputSegment(k, seg) = m
    BY <1>11 DEF InputSegment, seen, cut, told
  <2>2. m \in Control /\ SameSend(seen, m) /\ SameRecv(seen, m)
    BY <1>5 DEF Control, SameSend, SameRecv
  <2> HIDE DEF m
  <2>3. SendOK(m, F, R) /\ m.snd_nxt = seen.snd_nxt
    <3>1. SendOK(m, F, R)
      BY <1>5, <2>2, SameSendOK
    <3> QED
      BY <2>2, <3>1 DEF SameSend
  <2>4. RecvOK(m, G, N, taken) /\ AcksOK(m) /\ Got(m) = Got(seen)
    BY <1>7, <2>2, SameRecvOK
  <2> QED
    BY <1>6, <1>7, <2>1, <2>2, <2>3, <2>4 DEF EndOK
<1>12. CASE /\ seg.cmd # "ack" /\ seg.cmd # "wask"
            /\ ~(seg.cmd = "push" /\ seg.sn < seen.rcv_nxt + RcvWnd)
  <2>1. InputSegment(k, seg) = seen
    BY <1>12 DEF InputSegment, seen, cut, told
  <2> QED
    BY <1>8, <2>1
<1> QED
  BY <1>9, <1>10, <1>11, <1>12

\* ikcp_input of a datagram of genuine segments.
LEMMA InputGood ==
    ASSUME NEW F, NEW R, NEW G, NEW N \in Nat, NEW taken \in Nat,
           NEW k \in Control, EndOK(k, F, R, G, N, taken),
           NEW datagram \in Seq(Genuine(R, G, N))
    PROVE  LET m == IkcpInput(k, datagram)
           IN  /\ m \in Control /\ EndOK(m, F, R, G, N, taken)
               /\ m.snd_nxt = k.snd_nxt /\ Got(k) \subseteq Got(m)
<1> DEFINE X == {m \in Control : /\ EndOK(m, F, R, G, N, taken)
                                 /\ m.snd_nxt = k.snd_nxt /\ Got(k) \subseteq Got(m)}
           n == Len(datagram)
           Step == [z \in X \X (1 .. n) |-> InputSegment(z[1], datagram[z[2]])]
           after == InputLoop(k, datagram)
           last == after[n]
           m == GrowCwnd(last, k.snd_una)
<1>1. k \in X /\ n \in Nat
  OBVIOUS
<1>2. ASSUME NEW x \in X, NEW i \in 1 .. n PROVE InputSegment(x, datagram[i]) \in X
  <2>1. x \in Control /\ EndOK(x, F, R, G, N, taken) /\ x.snd_nxt = k.snd_nxt
        /\ Got(k) \subseteq Got(x)
    OBVIOUS
  <2>2. datagram[i] \in Genuine(R, G, N)
    BY <1>1
  <2> DEFINE y == InputSegment(x, datagram[i])
  <2>3. /\ y \in Control /\ EndOK(y, F, R, G, N, taken)
        /\ y.snd_nxt = x.snd_nxt /\ Got(x) \subseteq Got(y)
    BY <2>1, <2>2, SegmentGood
  <2> HIDE DEF y
  <2>4. y \in X
    BY <2>1, <2>3
  <2> QED
    BY <2>4 DEF y
<1> HIDE DEF X
<1>3. Step \in [X \X (1 .. n) -> X]
  BY <1>2
<1>4. \A x \in X, i \in 1 .. n : Step[<<x, i>>] = InputSegment(x, datagram[i])
  OBVIOUS
<1> HIDE DEF Step
<1>5. \E f \in [0 .. n -> X] :
         f = [i \in 0 .. n |-> IF i = 0 THEN k ELSE InputSegment(f[i - 1], datagram[i])]
  <2>1. PICK f \in [0 .. n -> X] : IsRun(f, n, k, Step)
    BY <1>1, <1>3, LoopExists
  <2>2. ASSUME NEW i \in 0 .. n
        PROVE  f[i] = IF i = 0 THEN k ELSE InputSegment(f[i - 1], datagram[i])
    <3>1. f[i] = IF i = 0 THEN k ELSE Step[<<f[i - 1], i>>]
      BY <2>1 DEF IsRun
    <3>2. i # 0 => i - 1 \in 0 .. n /\ i \in 1 .. n
      BY <1>1
    <3> QED
      BY <1>4, <3>1, <3>2
  <2> QED
    BY <2>2
<1>6. after = [i \in 0 .. n |-> IF i = 0 THEN k ELSE InputSegment(after[i - 1], datagram[i])]
  BY <1>5 DEF InputLoop
<1>9. IkcpInput(k, datagram) = m
  BY DEF IkcpInput
<1> HIDE DEF after
<1>7. last \in X
  <2>1. after[0] = k
    BY <1>1, <1>6
  <2>2. ASSUME NEW i \in 1 .. n, after[i - 1] \in X PROVE after[i] \in X
    <3>1. i \in 0 .. n /\ i # 0
      BY <1>1
    <3>2. after[i] = InputSegment(after[i - 1], datagram[i])
      BY <1>6, <3>1
    <3> QED
      BY <1>2, <2>2, <3>2
  <2>3. \A i \in 0 .. n : after[i] \in X
    BY <1>1, <2>1, <2>2, Loop
  <2> QED
    BY <1>1, <2>3
<1> HIDE DEF last
<1>8. /\ last \in Control /\ SendOK(last, F, R) /\ RecvOK(last, G, N, taken)
      /\ AcksOK(last) /\ last.snd_nxt = k.snd_nxt /\ Got(k) \subseteq Got(last)
  BY <1>7 DEF X, EndOK
<1>10. m \in Control /\ SameSend(last, m) /\ SameRecv(last, m)
  <2>1. k.snd_una \in Nat
    BY DEF Control
  <2> QED
    BY <1>8, <2>1, GrowGood
<1> HIDE DEF m
<1>11. SendOK(m, F, R) /\ RecvOK(m, G, N, taken) /\ AcksOK(m) /\ Got(m) = Got(last)
  BY <1>8, <1>10, SameSendOK, SameRecvOK
<1>12. m.snd_nxt = last.snd_nxt
  BY <1>10 DEF SameSend
<1> QED
  BY <1>8, <1>9, <1>10, <1>11, <1>12 DEF EndOK

\* Datagrams are made of the segments given.
LEMMA PackGood ==
    ASSUME NEW X, NEW segs \in Seq(X)
    PROVE  Pack(segs) \in Seq(Seq(X))
<1> DEFINE Y == Seq(Seq(X))
           n == Len(segs)
           Step == [z \in Y \X (1 .. n) |-> Put(z[1], segs[z[2]])]
           out == Packed(segs)
<1>1. n \in Nat /\ <<>> \in Y
  OBVIOUS
<1>2. ASSUME NEW y \in Y, NEW i \in 1 .. n PROVE Put(y, segs[i]) \in Y
  <2> DEFINE s == segs[i]
  <2>1. s \in X
    BY <1>1
  <2> HIDE DEF s
  <2>2. Append(y, <<s>>) \in Y
    BY <2>1
  <2>3. CASE y # <<>>
    <3> DEFINE more == Append(y[Len(y)], s)
    <3>1. Len(y) \in 1 .. Len(y) /\ y[Len(y)] \in Seq(X)
      BY <2>3
    <3>2. more \in Seq(X)
      BY <2>1, <3>1
    <3>3. [y EXCEPT ![Len(y)] = more] \in Y
      <4> HIDE DEF more
      <4> QED
        BY <3>1, <3>2
    <3> QED
      BY <2>2, <3>3 DEF Put, s
  <2>4. CASE y = <<>>
    BY <2>2, <2>4 DEF Put, s
  <2> QED
    BY <2>3, <2>4
<1> HIDE DEF Y
<1>3. Step \in [Y \X (1 .. n) -> Y]
  BY <1>2
<1>4. \A y \in Y, i \in 1 .. n : Step[<<y, i>>] = Put(y, segs[i])
  OBVIOUS
<1> HIDE DEF Step
<1>5. \E f \in [0 .. n -> Y] :
         f = [i \in 0 .. n |-> IF i = 0 THEN <<>> ELSE Put(f[i - 1], segs[i])]
  <2>1. PICK f \in [0 .. n -> Y] : IsRun(f, n, <<>>, Step)
    BY <1>1, <1>3, LoopExists
  <2>2. ASSUME NEW i \in 0 .. n
        PROVE  f[i] = IF i = 0 THEN <<>> ELSE Put(f[i - 1], segs[i])
    <3>1. f[i] = IF i = 0 THEN <<>> ELSE Step[<<f[i - 1], i>>]
      BY <2>1 DEF IsRun
    <3>2. i # 0 => i - 1 \in 0 .. n /\ i \in 1 .. n
      BY <1>1
    <3> QED
      BY <1>4, <3>1, <3>2
  <2> QED
    BY <2>2
<1>6. out = [i \in 0 .. n |-> IF i = 0 THEN <<>> ELSE Put(out[i - 1], segs[i])]
  BY <1>5 DEF Packed
<1>7. Pack(segs) = out[n]
  BY DEF Pack
<1> HIDE DEF out
<1>8. out[0] = <<>>
  BY <1>1, <1>6
<1>9. ASSUME NEW i \in 1 .. n, out[i - 1] \in Y PROVE out[i] \in Y
  <2>1. i \in 0 .. n /\ i # 0
    BY <1>1
  <2>2. out[i] = Put(out[i - 1], segs[i])
    BY <1>6, <2>1
  <2> QED
    BY <1>2, <1>9, <2>2
<1>10. \A i \in 0 .. n : out[i] \in Y
  BY <1>1, <1>8, <1>9, Loop
<1>11. out[n] \in Y
  BY <1>1, <1>10
<1> QED
  BY <1>7, <1>11 DEF Y

\* So are the data segments of a flush, of the segments of snd_buf.
LEMMA PushesGood ==
    ASSUME NEW X, NEW k, NEW buf, Len(buf) \in Nat, NEW due,
           \A i \in 1 .. Len(buf) : Push(k, buf[i]) \in X
    PROVE  Pushes(k, buf, due)[Len(buf)] \in Seq(X)
<1> DEFINE Y == Seq(X)
           n == Len(buf)
           Choose(y, i) == IF NeedSend(buf[i], due) THEN Append(y, Push(k, buf[i])) ELSE y
           Step == [z \in Y \X (1 .. n) |-> Choose(z[1], z[2])]
           out == Pushes(k, buf, due)
<1>1. n \in Nat /\ <<>> \in Y
  OBVIOUS
<1>2. ASSUME NEW y \in Y, NEW i \in 1 .. n PROVE Choose(y, i) \in Y
  <2> DEFINE s == Push(k, buf[i])
  <2>1. s \in X
    OBVIOUS
  <2> HIDE DEF s
  <2>2. Append(y, s) \in Y
    BY <2>1
  <2> QED
    BY <2>2 DEF s
<1>12. out = CHOOSE f : f = [i \in 0 .. n |-> IF i = 0 THEN <<>> ELSE Choose(f[i - 1], i)]
  BY DEF Pushes
<1> HIDE DEF Y, Choose
<1>3. Step \in [Y \X (1 .. n) -> Y]
  BY <1>2
<1>4. \A y \in Y, i \in 1 .. n : Step[<<y, i>>] = Choose(y, i)
  OBVIOUS
<1> HIDE DEF Step
<1>5. \E f \in [0 .. n -> Y] :
         f = [i \in 0 .. n |-> IF i = 0 THEN <<>> ELSE Choose(f[i - 1], i)]
  <2>1. PICK f \in [0 .. n -> Y] : IsRun(f, n, <<>>, Step)
    BY <1>1, <1>3, LoopExists
  <2>2. ASSUME NEW i \in 0 .. n
        PROVE  f[i] = IF i = 0 THEN <<>> ELSE Choose(f[i - 1], i)
    <3>1. f[i] = IF i = 0 THEN <<>> ELSE Step[<<f[i - 1], i>>]
      BY <2>1 DEF IsRun
    <3>2. i # 0 => i - 1 \in 0 .. n /\ i \in 1 .. n
      BY <1>1
    <3> QED
      BY <1>4, <3>1, <3>2
  <2> QED
    BY <2>2
<1> HIDE DEF out
<1>6. out = [i \in 0 .. n |-> IF i = 0 THEN <<>> ELSE Choose(out[i - 1], i)]
  BY <1>5, <1>12
<1>8. out[0] = <<>>
  BY <1>1, <1>6
<1>9. ASSUME NEW i \in 1 .. n, out[i - 1] \in Y PROVE out[i] \in Y
  <2>1. i \in 0 .. n /\ i # 0
    BY <1>1
  <2>2. out[i] = Choose(out[i - 1], i)
    BY <1>6, <2>1
  <2> QED
    BY <1>2, <1>9, <2>2
<1>10. \A i \in 0 .. n : out[i] \in Y
  BY <1>1, <1>8, <1>9, Loop
<1>11. out[n] \in Y
  BY <1>1, <1>10
<1> QED
  BY <1>11 DEF Y, out

\* What a flush sends is genuine: acknowledgements of what was received, and
\* fragments with the numbers they have from now on.
LEMMA FlushSendsGenuine ==
    ASSUME NEW k \in Control, NEW F \in Seq(Fragments), NEW R, SendOK(k, F, R), AcksOK(k),
           NEW due, NEW probeDue
    PROVE  Pack(FlushSegments(k, due, probeDue))
              \in Seq(Seq(Genuine(Got(k), F, MoveToBuf(k).snd_nxt)))
<1> DEFINE moved == MoveToBuf(k)
           buf == moved.snd_buf
           X == Genuine(Got(k), F, moved.snd_nxt)
           acks == [i \in DOMAIN k.acklist |-> Header(k, "ack", k.acklist[i])]
           wask == IF k.rmt_wnd = 0 /\ k.probe_wait /\ probeDue
                   THEN <<Header(k, "wask", 0)>> ELSE <<>>
           wins == IF k.ask_tell THEN <<Header(k, "wins", 0)>> ELSE <<>>
           pushes == Pushes(k, buf, due)[Len(buf)]
<1>1. moved \in Control /\ SendOK(moved, F, R)
  BY MoveToBufGood
<1> HIDE DEF moved
<1>2. k.rcv_nxt \in Nat /\ WndUnused(k) \in Nat /\ k.acklist \in Seq(Nat)
  <2>1. k.rcv_nxt \in Nat /\ k.rcv_queue \in Seq(Fragments) /\ RcvWnd \in Nat
        /\ k.acklist \in Seq(Nat)
    BY Sizes DEF Control
  <2>2. Len(k.rcv_queue) \in Nat
    BY <2>1
  <2> QED
    BY <2>1, <2>2 DEF WndUnused
<1>3. 0 .. k.rcv_nxt - 1 \subseteq Got(k)
  BY <1>2 DEF Got, Has
<1>4. ASSUME NEW i \in DOMAIN k.acklist PROVE Header(k, "ack", k.acklist[i]) \in X
  <2>1. k.acklist[i] \in Nat /\ k.acklist[i] \in Got(k)
    BY <1>2 DEF AcksOK
  <2> DEFINE s == Header(k, "ack", k.acklist[i])
  <2>2. /\ s \in Segments /\ s.una = k.rcv_nxt /\ s.cmd = "ack"
        /\ s.sn = k.acklist[i]
    BY <1>2, <2>1 DEF Header, Segments
  <2> HIDE DEF s
  <2>3. s \in X
    BY <1>3, <2>1, <2>2 DEF Genuine
  <2> QED
    BY <2>3 DEF s
<1>5. ASSUME NEW cmd \in {"wask", "wins"} PROVE Header(k, cmd, 0) \in X
  <2> DEFINE s == Header(k, cmd, 0)
  <2>2. s \in Segments /\ s.una = k.rcv_nxt /\ s.cmd # "ack" /\ s.cmd # "push"
    BY <1>2 DEF Header, Segments
  <2> HIDE DEF s
  <2>3. s \in X
    BY <1>3, <2>2 DEF Genuine
  <2> QED
    BY <2>3 DEF s
<1>6. buf \in Seq(OutSegments) /\ Len(buf) \in Nat
  BY <1>1 DEF Control
<1>7. ASSUME NEW i \in 1 .. Len(buf) PROVE Push(k, buf[i]) \in X
  <2>1. buf[i] \in OutSegments /\ i \in DOMAIN buf
    BY <1>6
  <2>2. buf[i].sn \in Nat /\ buf[i].data \in Fragments
    BY <2>1 DEF OutSegments
  <2>3. buf[i].sn < moved.snd_nxt /\ buf[i].data = F[buf[i].sn + 1]
    BY <1>1, <2>1 DEF SendOK
  <2> DEFINE s == Push(k, buf[i])
  <2>4. s \in Segments /\ s.una = k.rcv_nxt /\ s.cmd = "push" /\ s.sn = buf[i].sn
        /\ s.data = buf[i].data
    BY <1>2, <2>2 DEF Push, Segments
  <2> HIDE DEF s
  <2>5. s \in X
    BY <1>3, <2>3, <2>4 DEF Genuine
  <2> QED
    BY <2>5 DEF s
<1> HIDE DEF X, buf
<1>8. acks \in Seq(X)
  BY <1>2, <1>4, SMTT(20)
<1>9. wask \in Seq(X) /\ wins \in Seq(X)
  BY <1>5
<1>10. pushes \in Seq(X)
  BY <1>6, <1>7, PushesGood
<1>11. FlushSegments(k, due, probeDue) = acks \o wask \o wins \o pushes
  BY DEF FlushSegments, buf, moved
<1> HIDE DEF acks, wask, wins, pushes
<1>12. acks \o wask \o wins \o pushes \in Seq(X)
  BY <1>8, <1>9, <1>10
<1>13. Pack(FlushSegments(k, due, probeDue)) \in Seq(Seq(X))
  BY <1>11, <1>12, PackGood
<1> QED
  BY <1>13 DEF X, moved

\* A stream only grows at its end, and so do what was sent and received.
Agree(F, G, n) == \A i \in 1 .. n : G[i] = F[i]

LEMMA SendGrows ==
    ASSUME NEW k, NEW F, NEW R, NEW R2, SendOK(k, F, R), R \subseteq R2
    PROVE  SendOK(k, F, R2)
BY DEF SendOK

LEMMA RecvGrows ==
    ASSUME NEW k \in Control, NEW F, NEW F2, NEW n \in Nat, NEW n2 \in Nat,
           NEW taken \in Nat, RecvOK(k, F, n, taken), n <= n2, Agree(F, F2, n)
    PROVE  RecvOK(k, F2, n2, taken)
<1>1. /\ k.rcv_buf \in Seq(InSegments) /\ k.rcv_queue \in Seq(Fragments)
      /\ k.rcv_nxt \in Nat /\ Len(k.rcv_queue) \in Nat
      /\ DOMAIN k.rcv_queue = 1 .. Len(k.rcv_queue)
  BY DEF Control
<1>2. ASSUME NEW i \in DOMAIN k.rcv_buf
      PROVE  k.rcv_buf[i].sn < n2 /\ k.rcv_buf[i].data = F2[k.rcv_buf[i].sn + 1]
  <2>1. k.rcv_buf[i] \in InSegments
    BY <1>1
  <2>2. k.rcv_buf[i].sn \in Nat /\ k.rcv_buf[i].sn < n
        /\ k.rcv_buf[i].data = F[k.rcv_buf[i].sn + 1]
    BY <2>1 DEF InSegments, RecvOK
  <2> DEFINE j == k.rcv_buf[i].sn + 1
  <2>3. j \in 1 .. n
    BY <2>2
  <2>4. F2[j] = F[j]
    BY <2>3 DEF Agree
  <2>5. k.rcv_buf[i].sn < n2
    BY <2>2
  <2> QED
    BY <2>2, <2>4, <2>5
<1>3. ASSUME NEW i \in DOMAIN k.rcv_queue PROVE k.rcv_queue[i] = F2[taken + i]
  <2>1. k.rcv_nxt <= n /\ k.rcv_nxt = taken + Len(k.rcv_queue)
        /\ k.rcv_queue[i] = F[taken + i]
    BY DEF RecvOK
  <2>2. taken + i \in 1 .. n
    BY <1>1, <2>1
  <2> QED
    BY <2>1, <2>2 DEF Agree
<1>4. k.rcv_nxt <= n2
  BY <1>1 DEF RecvOK
<1> QED
  BY <1>2, <1>3, <1>4 DEF RecvOK

LEMMA GenuineGrows ==
    ASSUME NEW R, NEW R2, NEW F, NEW F2, NEW n \in Nat, NEW n2 \in Nat,
           R \subseteq R2, n <= n2, Agree(F, F2, n)
    PROVE  Genuine(R, F, n) \subseteq Genuine(R2, F2, n2)
<1> SUFFICES ASSUME NEW s \in Genuine(R, F, n) PROVE s \in Genuine(R2, F2, n2)
  OBVIOUS
<1>1. s \in Segments /\ s.sn \in Nat
  BY SegmentParts, ZenonT(40) DEF Genuine
<1>2. ASSUME s.cmd = "push" PROVE s.sn < n2 /\ s.data = F2[s.sn + 1]
  <2>1. s.sn < n /\ s.data = F[s.sn + 1] /\ s.sn + 1 \in 1 .. n
    BY <1>1, <1>2 DEF Genuine
  <2> QED
    BY <1>1, <2>1 DEF Agree
<1>3. 0 .. s.una - 1 \subseteq R2 /\ (s.cmd = "ack" => s.sn \in R2)
  BY DEF Genuine
<1> QED
  BY <1>1, <1>2, <1>3 DEF Genuine

LEMMA TheOther ==
    ASSUME NEW p \in Peer
    PROVE  /\ Remote(p) \in Peer /\ Remote(p) # p /\ Remote(Remote(p)) = p
           /\ \A r \in Peer : r = p \/ r = Remote(p)
<1>1. IsFiniteSet(Peer) /\ Cardinality(Peer) = 2
  BY KcpAssumption
<1>2. IsFiniteSet(Peer \ {p}) /\ Cardinality(Peer \ {p}) = 1
  <2>1. Cardinality(Peer \ {p}) = Cardinality(Peer) - 1 /\ IsFiniteSet(Peer \ {p})
    BY <1>1, FS_RemoveElement
  <2> QED
    BY <1>1, <2>1
<1>3. PICK q : Peer \ {p} = {q}
  BY <1>2, FS_Singleton
<1>4. Remote(p) = q
  BY <1>3 DEF Remote
<1>5. Remote(q) = p
  BY <1>3 DEF Remote
<1> QED
  BY <1>3, <1>4, <1>5

-----------------------------------------------------------------------------
(* The session *)

\* The messages of a stream: cut[j] is the place before the j-th of them.
StreamOK(F, cut, messages) ==
    /\ Len(cut) = Len(messages) + 1 /\ cut[1] = 0
    /\ \A j \in 1 .. Len(messages) + 1 : cut[j] <= Len(F)
    /\ cut[Len(messages) + 1] = Len(F)
    /\ \A j \in 1 .. Len(messages) :
          /\ Len(messages[j]) > 0
          /\ cut[j + 1] = cut[j] + Len(messages[j])
          /\ \A i \in 1 .. Len(messages[j]) :
                /\ messages[j][i] = F[cut[j] + i]
                /\ messages[j][i].frg = Len(messages[j]) - i

\* How many fragments of p's stream the other user has read.
Taken(p, cut) == cut[p][Len(received[p]) + 1]

PeerOK(p, F, cut) ==
    LET k == kcp[p]
        q == Remote(p)
    IN  /\ EndOK(k, F[p], Got(kcp[q]), F[q], kcp[q].snd_nxt, Taken(q, cut))
        /\ StreamOK(F[p], cut[p], sent[p])
        /\ Len(received[p]) <= Len(sent[p])
        /\ net[p] \in Seq(Seq(Genuine(Got(kcp[q]), F[q], kcp[q].snd_nxt)))

SessionTypes ==
    /\ kcp \in [Peer -> Control]
    /\ net \in [Peer -> Seq(Seq(Segments))]
    /\ \A p \in Peer : Len(net[p]) <= NetCap
    /\ offered \in [Peer -> Nat]
    /\ sent \in [Peer -> Seq(Seq(Fragments))]
    /\ received \in [Peer -> Seq(Seq(Fragments))]
    /\ faults \in 0 .. MaxFaults

Streams == [Peer -> Seq(Fragments)]
Cuts == [Peer -> Seq(Nat)]

SessionInv ==
    /\ SessionTypes
    /\ \E F \in Streams, cut \in Cuts : \A p \in Peer : PeerOK(p, F, cut)

LEMMA CreateGood ==
    /\ IkcpCreate \in Control
    /\ \A R : EndOK(IkcpCreate, <<>>, R, <<>>, 0, 0)
<1>1. \A X : <<>> \in Seq(X)
  OBVIOUS
<1>2. IkcpCreate \in Control
  BY <1>1, Sizes DEF IkcpCreate, Control, ThreshInit
<1>3. ASSUME NEW R PROVE SendOK(IkcpCreate, <<>>, R)
  BY Sizes DEF SendOK, IkcpCreate, Ascending
<1>4. RecvOK(IkcpCreate, <<>>, 0, 0) /\ AcksOK(IkcpCreate)
  BY Sizes DEF RecvOK, AcksOK, IkcpCreate, Ascending
<1> QED
  BY <1>2, <1>3, <1>4 DEF EndOK

LEMMA SessionInit == Init => SessionInv
<1> SUFFICES ASSUME Init PROVE SessionInv
  OBVIOUS
<1> DEFINE F == [p \in Peer |-> <<>>]
           cut == [p \in Peer |-> <<0>>]
<1>1. \A X : <<>> \in Seq(X)
  OBVIOUS
<1>2. SessionTypes
  <2>1. NetCap \in Nat /\ MaxFaults \in Nat /\ Len(<<>>) = 0
    BY KcpAssumption
  <2> QED
    BY <1>1, <2>1, CreateGood DEF Init, SessionTypes
<1>3. F \in Streams /\ cut \in Cuts
  BY <1>1 DEF Streams, Cuts
<1>4. ASSUME NEW p \in Peer PROVE PeerOK(p, F, cut)
  <2>1. /\ kcp[p] = IkcpCreate /\ kcp[Remote(p)] = IkcpCreate /\ net[p] = <<>>
        /\ sent[p] = <<>> /\ received[p] = <<>> /\ received[Remote(p)] = <<>>
        /\ F[p] = <<>> /\ F[Remote(p)] = <<>> /\ cut[p] = <<0>> /\ cut[Remote(p)] = <<0>>
    BY TheOther DEF Init
  <2> HIDE DEF F, cut
  <2>2. Taken(Remote(p), cut) = 0 /\ kcp[Remote(p)].snd_nxt = 0
    BY <2>1 DEF Taken, IkcpCreate
  <2>3. StreamOK(F[p], cut[p], sent[p])
    BY <2>1 DEF StreamOK
  <2> QED
    BY <1>1, <2>1, <2>2, <2>3, CreateGood DEF PeerOK
<1> HIDE DEF F, cut
<1> QED
  BY <1>2, <1>3, <1>4 DEF SessionInv

\* What the invariant says of the two ends, seen from one of them.
LEMMA SeenFrom ==
    ASSUME SessionTypes, NEW F \in Streams, NEW cut \in Cuts,
           \A p \in Peer : PeerOK(p, F, cut), NEW p \in Peer
    PROVE  LET q == Remote(p)
           IN  /\ q \in Peer /\ kcp[p] \in Control /\ kcp[p].snd_nxt \in Nat
               /\ F[p] \in Seq(Fragments) /\ cut[p] \in Seq(Nat) /\ Taken(p, cut) \in Nat
               /\ SendOK(kcp[p], F[p], Got(kcp[q]))
               /\ RecvOK(kcp[p], F[q], kcp[q].snd_nxt, Taken(q, cut))
               /\ AcksOK(kcp[p])
               /\ StreamOK(F[p], cut[p], sent[p]) /\ Len(received[p]) <= Len(sent[p])
               /\ net[p] \in Seq(Seq(Genuine(Got(kcp[q]), F[q], kcp[q].snd_nxt)))
               /\ sent[p] \in Seq(Seq(Fragments)) /\ received[p] \in Seq(Seq(Fragments))
<1>1. /\ Remote(p) \in Peer /\ kcp[p] \in Control /\ F[p] \in Seq(Fragments)
      /\ cut[p] \in Seq(Nat) /\ sent[p] \in Seq(Seq(Fragments))
      /\ received[p] \in Seq(Seq(Fragments)) /\ PeerOK(p, F, cut)
  BY TheOther DEF SessionTypes, Streams, Cuts
<1>2. kcp[p].snd_nxt \in Nat
  BY <1>1 DEF Control
<1>3. StreamOK(F[p], cut[p], sent[p]) /\ Len(received[p]) <= Len(sent[p])
  BY <1>1 DEF PeerOK
<1>4. Taken(p, cut) \in Nat
  <2>1. Len(cut[p]) = Len(sent[p]) + 1
    BY <1>3 DEF StreamOK
  <2>2. Len(received[p]) + 1 \in 1 .. Len(cut[p])
    BY <1>1, <1>3, <2>1
  <2> QED
    BY <1>1, <2>2 DEF Taken
<1> QED
  BY <1>1, <1>2, <1>3, <1>4 DEF PeerOK, EndOK

\* One end takes a step: it loses nothing it had received, it sends more, and
\* what is under way is genuine.
LEMMA EndActs ==
    ASSUME SessionTypes, NEW F \in Streams, NEW cut \in Cuts,
           \A p \in Peer : PeerOK(p, F, cut), NEW p \in Peer, NEW m \in Control,
           kcp' = [kcp EXCEPT ![p] = m],
           SendOK(m, F[p], Got(kcp[Remote(p)])), AcksOK(m),
           RecvOK(m, F[Remote(p)], kcp[Remote(p)].snd_nxt, Taken(Remote(p), cut)'),
           Got(kcp[p]) \subseteq Got(m), kcp[p].snd_nxt <= m.snd_nxt,
           net'[p] \in
              Seq(Seq(Genuine(Got(kcp[Remote(p)]), F[Remote(p)], kcp[Remote(p)].snd_nxt))),
           net'[Remote(p)] \in Seq(Seq(Genuine(Got(m), F[p], m.snd_nxt))),
           UNCHANGED sent, received'[p] = received[p],
           Len(received'[Remote(p)]) <= Len(sent[Remote(p)])
    PROVE  \A r \in Peer : PeerOK(r, F, cut)'
<1> DEFINE q == Remote(p)
<1>1. /\ q \in Peer /\ q # p /\ Remote(q) = p /\ \A r \in Peer : r = p \/ r = q
  BY TheOther
<1>2. kcp'[p] = m /\ kcp'[q] = kcp[q]
  BY <1>1 DEF SessionTypes
<1>3. /\ F[p] \in Seq(Fragments) /\ kcp[p].snd_nxt \in Nat /\ Taken(p, cut) \in Nat
      /\ StreamOK(F[p], cut[p], sent[p]) /\ Len(received[p]) <= Len(sent[p])
  BY SeenFrom
<1>4. /\ kcp[q] \in Control /\ SendOK(kcp[q], F[q], Got(kcp[p])) /\ AcksOK(kcp[q])
      /\ RecvOK(kcp[q], F[p], kcp[p].snd_nxt, Taken(p, cut))
      /\ StreamOK(F[q], cut[q], sent[q])
  BY <1>1, SeenFrom
<1>5. m.snd_nxt \in Nat
  BY DEF Control
<1>6. SendOK(kcp[q], F[q], Got(m))
  BY <1>4, SendGrows
<1>7. RecvOK(kcp[q], F[p], m.snd_nxt, Taken(p, cut))
  <2>1. Agree(F[p], F[p], kcp[p].snd_nxt)
    BY DEF Agree
  <2> QED
    BY <1>3, <1>4, <1>5, <2>1, RecvGrows
<1>8. Taken(p, cut)' = Taken(p, cut)
  BY DEF Taken
<1> HIDE DEF q
<1>9. PeerOK(p, F, cut)'
  <2>1. EndOK(m, F[p], Got(kcp[q]), F[q], kcp[q].snd_nxt, Taken(q, cut)')
    BY DEF EndOK, q
  <2>2. EndOK(kcp[p], F[p], Got(kcp[q]), F[q], kcp[q].snd_nxt, Taken(q, cut))'
    BY <1>2, <2>1
  <2>3. net'[p] \in Seq(Seq(Genuine(Got(kcp'[q]), F[q], kcp'[q].snd_nxt)))
    BY <1>2 DEF q
  <2> QED
    BY <1>3, <2>2, <2>3 DEF PeerOK, q
<1>10. PeerOK(q, F, cut)'
  <2>1. EndOK(kcp[q], F[q], Got(m), F[p], m.snd_nxt, Taken(p, cut))
    BY <1>4, <1>6, <1>7 DEF EndOK
  <2>2. EndOK(kcp[q], F[q], Got(kcp[p]), F[p], kcp[p].snd_nxt, Taken(p, cut))'
    BY <1>2, <1>8, <2>1
  <2>3. net'[q] \in Seq(Seq(Genuine(Got(kcp'[p]), F[p], kcp'[p].snd_nxt)))
    BY <1>2 DEF q
  <2>4. Len(received'[q]) <= Len(sent'[q])
    BY DEF q
  <2> QED
    BY <1>1, <1>4, <2>2, <2>3, <2>4 DEF PeerOK
<1> QED
  BY <1>1, <1>9, <1>10

\* A whole message at the head of the queue is the next one of the stream: it
\* ends at the first fragment that counts no more to come.
LEMMA WholeMessage ==
    ASSUME NEW k \in Control, NEW F \in Seq(Fragments), NEW N \in Nat, N <= Len(F),
           NEW cut \in Seq(Nat), NEW messages \in Seq(Seq(Fragments)),
           StreamOK(F, cut, messages), NEW r \in 1 .. Len(messages) + 1,
           RecvOK(k, F, N, cut[r]), PeekSize(k) > 0
    PROVE  /\ r <= Len(messages) /\ PeekSize(k) \in 1 .. Len(k.rcv_queue)
           /\ SubSeq(k.rcv_queue, 1, PeekSize(k)) = messages[r]
           /\ cut[r + 1] = cut[r] + PeekSize(k)
<1> DEFINE queue == k.rcv_queue
           message == messages[r]
           Ends == {i \in DOMAIN queue : queue[i].frg = 0}
           n == Len(message)
<1>1. /\ queue \in Seq(Fragments) /\ Len(queue) \in Nat /\ DOMAIN queue = 1 .. Len(queue)
      /\ k.rcv_nxt \in Nat /\ Len(messages) \in Nat /\ Len(F) \in Nat
  <2>1. queue \in Seq(Fragments) /\ k.rcv_nxt \in Nat
    BY DEF Control
  <2>2. Len(queue) \in Nat /\ DOMAIN queue = 1 .. Len(queue)
    BY <2>1
  <2>3. Len(messages) \in Nat
    OBVIOUS
  <2>4. Len(F) \in Nat
    OBVIOUS
  <2> QED
    BY <2>1, <2>2, <2>3, <2>4
<1>2. queue # <<>> /\ Len(queue) > 0 /\ ~(Len(queue) < Head(queue).frg + 1)
      /\ PeekSize(k) = Min(Ends)
  <2>1. queue # <<>> /\ ~(Len(queue) < Head(queue).frg + 1) /\ PeekSize(k) = Min(Ends)
    BY DEF PeekSize
  <2> QED
    BY <1>1, <2>1
<1>3. /\ k.rcv_nxt <= N /\ k.rcv_nxt = cut[r] + Len(queue)
      /\ \A i \in 1 .. Len(queue) : queue[i] = F[cut[r] + i]
  BY <1>1 DEF RecvOK
<1>4. Len(cut) = Len(messages) + 1 /\ cut[Len(messages) + 1] = Len(F) /\ cut[r] \in Nat
  BY DEF StreamOK
<1> HIDE DEF queue
<1>5. r \in 1 .. Len(messages)
  <2>1. r # Len(messages) + 1
    BY <1>1, <1>2, <1>3, <1>4
  <2> QED
    BY <1>1, <2>1
<1>6. /\ message \in Seq(Fragments) /\ n \in Nat /\ n > 0 /\ cut[r + 1] = cut[r] + n
      /\ \A i \in 1 .. n : message[i] = F[cut[r] + i] /\ message[i].frg = n - i
  <2>1. message \in Seq(Fragments)
    BY <1>5
  <2>2. n \in Nat
    BY <2>1
  <2>3. /\ n > 0 /\ cut[r + 1] = cut[r] + n
        /\ \A i \in 1 .. n : message[i] = F[cut[r] + i] /\ message[i].frg = n - i
    BY <1>5 DEF StreamOK
  <2> QED
    BY <2>1, <2>2, <2>3
<1> HIDE DEF message, n
<1>7. \A i \in 1 .. n : i \in 1 .. Len(queue) => queue[i] = message[i]
  BY <1>3, <1>6
<1>8. n <= Len(queue)
  <2>1. 1 \in 1 .. n /\ 1 \in 1 .. Len(queue)
    BY <1>1, <1>2, <1>6
  <2>2. queue[1] = message[1] /\ message[1].frg = n - 1
    BY <1>6, <1>7, <2>1
  <2>3. Head(queue) = queue[1]
    BY <1>1, <1>2
  <2> QED
    BY <1>1, <1>2, <1>6, <2>2, <2>3, SMTT(20)
<1>9. n \in Ends /\ \A i \in Ends : n <= i
  <2>1. n \in 1 .. n /\ n \in DOMAIN queue
    BY <1>1, <1>6, <1>8
  <2>2. queue[n].frg = 0
    <3>1. queue[n] = message[n] /\ message[n].frg = n - n
      BY <1>1, <1>6, <1>7, <2>1
    <3> QED
      BY <1>6, <3>1
  <2>3. ASSUME NEW i \in Ends, i < n PROVE FALSE
    <3>1. i \in 1 .. Len(queue) /\ i \in 1 .. n /\ queue[i].frg = 0
      BY <1>1, <1>6, <2>3
    <3>2. queue[i] = message[i] /\ message[i].frg = n - i
      BY <1>6, <1>7, <3>1
    <3>3. n - i = 0
      BY <3>1, <3>2
    <3> QED
      BY <1>6, <2>3, <3>1, <3>3
  <2>4. \A i \in Ends : i \in Int
    BY <1>1
  <2>5. n \in Ends
    BY <2>1, <2>2
  <2>6. n \in Int
    BY <1>6
  <2> HIDE DEF Ends
  <2> QED
    BY <2>3, <2>4, <2>5, <2>6
<1>10. Min(Ends) = n
  <2>1. Ends \subseteq Nat /\ Ends # {}
    BY <1>1, <1>9
  <2> HIDE DEF Ends
  <2>2. Min(Ends) \in Ends /\ \A i \in Ends : Min(Ends) <= i
    BY <2>1, MinIs
  <2>3. n <= Min(Ends) /\ Min(Ends) <= n /\ Min(Ends) \in Nat
    BY <1>9, <2>1, <2>2
  <2> QED
    BY <1>6, <2>3
<1> HIDE DEF Ends
<1>11. n \in 1 .. Len(queue) /\ PeekSize(k) = n
  BY <1>1, <1>2, <1>6, <1>8, <1>10
<1>12. SubSeq(queue, 1, n) = message
  <2> DEFINE t == SubSeq(queue, 1, n)
  <2>1. n \in 0 .. Len(queue)
    BY <1>1, <1>11
  <2>2. t \in Seq(Fragments) /\ Len(t) = n /\ \A i \in 1 .. n : t[i] = queue[i]
    BY <1>1, <2>1, Prefix
  <2> HIDE DEF t
  <2>3. Len(message) = n
    BY DEF n, message
  <2>4. \A i \in 1 .. n : t[i] = message[i]
    BY <1>1, <1>7, <1>11, <2>2
  <2>5. t = message
    BY <1>6, <2>2, <2>3, <2>4
  <2> QED
    BY <2>5 DEF t
<1> QED
  BY <1>5, <1>6, <1>11, <1>12 DEF queue, message

\* The user takes n fragments out of the queue.
LEMMA TakeGood ==
    ASSUME NEW k \in Control, NEW F, NEW N \in Nat, NEW taken \in Nat,
           RecvOK(k, F, N, taken), NEW n \in 0 .. Len(k.rcv_queue)
    PROVE  LET m == [k EXCEPT !.rcv_queue = SubSeq(k.rcv_queue, n + 1, Len(k.rcv_queue))]
           IN  /\ m \in Control /\ RecvOK(m, F, N, taken + n) /\ SameSend(k, m)
               /\ m.acklist = k.acklist /\ Got(m) = Got(k)
<1> DEFINE old == k.rcv_queue
           queue == SubSeq(k.rcv_queue, n + 1, Len(k.rcv_queue))
           m == [k EXCEPT !.rcv_queue = queue]
<1>1. old \in Seq(Fragments) /\ Len(old) \in Nat /\ DOMAIN old = 1 .. Len(old)
      /\ n \in Nat /\ n <= Len(old)
  BY DEF Control
<1>2. /\ queue \in Seq(Fragments) /\ Len(queue) = Len(old) - n
      /\ DOMAIN queue = 1 .. Len(old) - n
      /\ \A i \in 1 .. Len(old) - n : queue[i] = old[n + i]
  BY <1>1, Suffix
<1> HIDE DEF queue
<1>3. /\ m \in Control /\ SameSend(k, m) /\ m.acklist = k.acklist
      /\ m.rcv_queue = queue /\ m.rcv_buf = k.rcv_buf /\ m.rcv_nxt = k.rcv_nxt
  BY <1>2 DEF Control, SameSend
<1> HIDE DEF m
<1>4. Got(m) = Got(k)
  BY <1>3 DEF Got, Has
<1>5. ASSUME NEW i \in DOMAIN queue PROVE queue[i] = F[(taken + n) + i]
  <2>1. n + i \in DOMAIN old /\ queue[i] = old[n + i]
    BY <1>1, <1>2
  <2>2. old[n + i] = F[taken + (n + i)]
    BY <2>1 DEF RecvOK
  <2>3. taken + (n + i) = (taken + n) + i
    BY <1>1, <1>2
  <2> QED
    BY <2>1, <2>2, <2>3
<1>6. Len(queue) <= RcvWnd /\ k.rcv_nxt = (taken + n) + Len(queue)
  <2>1. Len(old) <= RcvWnd /\ k.rcv_nxt = taken + Len(old) /\ RcvWnd \in Nat
    BY Sizes DEF RecvOK
  <2>2. Len(queue) = Len(old) - n /\ Len(old) \in Nat /\ n \in Nat /\ n <= Len(old)
    BY <1>1, <1>2
  <2> HIDE DEF old
  <2>3. Len(queue) <= RcvWnd
    BY <2>1, <2>2
  <2>4. k.rcv_nxt = (taken + n) + Len(queue)
    BY <2>1, <2>2
  <2> QED
    BY <2>3, <2>4
<1>7. RecvOK(m, F, N, taken + n)
  <2> DEFINE t2 == taken + n
  <2>1. RecvOK(k, F, N, taken)
    OBVIOUS
  <2> HIDE DEF t2
  <2>2. k.rcv_nxt = t2 + Len(queue) /\ \A i \in DOMAIN queue : queue[i] = F[t2 + i]
    BY <1>5, <1>6 DEF t2
  <2>3. RecvOK(m, F, N, t2)
    BY <1>3, <1>6, <2>1, <2>2 DEF RecvOK
  <2> QED
    BY <2>3 DEF t2
<1> QED
  BY <1>3, <1>4, <1>7 DEF m, queue

LEMMA SeqGrows ==
    ASSUME NEW X, NEW Y, X \subseteq Y
    PROVE  Seq(Seq(X)) \subseteq Seq(Seq(Y))
<1>1. Seq(X) \subseteq Seq(Y)
  OBVIOUS
<1> QED
  BY <1>1

LEMMA GenuineAreSegments ==
    ASSUME NEW R, NEW F, NEW n, NEW s \in Seq(Seq(Genuine(R, F, n)))
    PROVE  s \in Seq(Seq(Segments))
<1>1. Genuine(R, F, n) \subseteq Segments
  BY DEF Genuine
<1> QED
  BY <1>1, SeqGrows

-----------------------------------------------------------------------------
(* The actions *)

\* What lkcp_recv returns is the next message of the other end.
LEMMA RecvTakes ==
    ASSUME SessionTypes, NEW F \in Streams, NEW cut \in Cuts,
           \A p \in Peer : PeerOK(p, F, cut), NEW p \in Peer, Recv(p)
    PROVE  LET q == Remote(p)
               n == PeekSize(kcp[p])
           IN  /\ n \in 0 .. Len(kcp[p].rcv_queue)
               /\ Len(received[q]) < Len(sent[q])
               /\ received' = [received EXCEPT ![q] = Append(@, sent[q][Len(@) + 1])]
               /\ Taken(q, cut)' = Taken(q, cut) + n
<1> DEFINE q == Remote(p)
           k == kcp[p]
           n == PeekSize(k)
           r == Len(received[q]) + 1
           part == SubSeq(k.rcv_queue, 1, n)
<1>1. /\ q \in Peer /\ k \in Control
      /\ RecvOK(k, F[q], kcp[q].snd_nxt, Taken(q, cut))
  BY SeenFrom
<1>2. /\ F[q] \in Seq(Fragments) /\ cut[q] \in Seq(Nat) /\ kcp[q].snd_nxt \in Nat
      /\ kcp[q] \in Control
      /\ StreamOK(F[q], cut[q], sent[q]) /\ Len(received[q]) <= Len(sent[q])
      /\ sent[q] \in Seq(Seq(Fragments)) /\ received[q] \in Seq(Seq(Fragments))
      /\ SendOK(kcp[q], F[q], Got(kcp[Remote(q)]))
  BY <1>1, SeenFrom
<1> HIDE DEF q, k
<1>3. kcp[q].snd_nxt <= Len(F[q])
  <2>1. kcp[q].snd_nxt + Len(kcp[q].snd_queue) = Len(F[q])
    BY <1>2 DEF SendOK
  <2>2. Len(kcp[q].snd_queue) \in Nat
    BY <1>2 DEF Control
  <2> QED
    BY <1>2, <2>1, <2>2, SMTT(20)
<1>4. r \in 1 .. Len(sent[q]) + 1
  <2>1. Len(sent[q]) \in Nat /\ Len(received[q]) \in Nat
    BY <1>2
  <2> QED
    BY <1>2, <2>1
<1>5. RecvOK(k, F[q], kcp[q].snd_nxt, cut[q][r])
  BY <1>1 DEF Taken
<1>6. PeekSize(k) > 0
  BY DEF Recv, k
<1> HIDE DEF n, r, part
<1>7. /\ r <= Len(sent[q]) /\ PeekSize(k) \in 1 .. Len(k.rcv_queue)
      /\ SubSeq(k.rcv_queue, 1, PeekSize(k)) = sent[q][r]
      /\ cut[q][r + 1] = cut[q][r] + PeekSize(k)
  BY <1>1, <1>2, <1>3, <1>4, <1>5, <1>6, WholeMessage
<1>8. received' = [received EXCEPT ![q] = Append(@, part)]
  BY DEF Recv, part, n, k, q
<1>9. part = sent[q][Len(received[q]) + 1]
  BY <1>7 DEF part, n, r
<1>10. received' = [received EXCEPT ![q] = Append(@, sent[q][Len(@) + 1])]
  BY <1>8, <1>9
<1>11. Taken(q, cut)' = Taken(q, cut) + n
  <2>1. received'[q] = Append(received[q], part)
    BY <1>1, <1>8 DEF SessionTypes
  <2>2. Len(received'[q]) = Len(received[q]) + 1
    BY <1>2, <2>1
  <2>3. Len(received'[q]) + 1 = r + 1
    BY <2>2 DEF r
  <2>4. Taken(q, cut)' = cut[q][r + 1]
    BY <2>3 DEF Taken
  <2>5. Taken(q, cut) = cut[q][r]
    BY DEF Taken, r
  <2> QED
    BY <1>7, <2>4, <2>5 DEF n
<1>12. n \in 0 .. Len(k.rcv_queue)
  <2>1. Len(k.rcv_queue) \in Nat
    BY <1>1 DEF Control
  <2> QED
    BY <1>7, <2>1 DEF n
<1>13. Len(received[q]) < Len(sent[q])
  <2>1. Len(sent[q]) \in Nat /\ Len(received[q]) \in Nat
    BY <1>2
  <2> QED
    BY <1>7, <2>1 DEF r
<1> QED
  BY <1>10, <1>11, <1>12, <1>13 DEF q, k, n

LEMMA RecvKept ==
    ASSUME SessionTypes, NEW F \in Streams, NEW cut \in Cuts,
           \A p \in Peer : PeerOK(p, F, cut), NEW p \in Peer, Recv(p)
    PROVE  SessionTypes' /\ \A r \in Peer : PeerOK(r, F, cut)'
<1> DEFINE q == Remote(p)
           k == kcp[p]
           n == PeekSize(k)
           read == [k EXCEPT !.rcv_queue = SubSeq(k.rcv_queue, n + 1, Len(k.rcv_queue))]
           moved == MoveReady(read)
           recover == Len(k.rcv_queue) >= RcvWnd /\ Len(moved.rcv_queue) < RcvWnd
           m == [moved EXCEPT !.ask_tell = @ \/ recover]
           N == kcp[q].snd_nxt
           t == Taken(q, cut)'
<1>1. /\ q \in Peer /\ q # p /\ k \in Control /\ AcksOK(k) /\ SendOK(k, F[p], Got(kcp[q]))
      /\ RecvOK(k, F[q], N, Taken(q, cut))
      /\ net[p] \in Seq(Seq(Genuine(Got(kcp[q]), F[q], N)))
      /\ k.snd_nxt \in Nat
  BY SeenFrom, TheOther
<1>2. /\ N \in Nat /\ Taken(q, cut) \in Nat /\ Remote(q) = p
      /\ net[q] \in Seq(Seq(Genuine(Got(k), F[p], k.snd_nxt)))
      /\ received[q] \in Seq(Seq(Fragments)) /\ sent[q] \in Seq(Seq(Fragments))
  BY <1>1, SeenFrom, TheOther
<1>3. /\ n \in 0 .. Len(k.rcv_queue) /\ Len(received[q]) < Len(sent[q])
      /\ received' = [received EXCEPT ![q] = Append(@, sent[q][Len(@) + 1])]
      /\ t = Taken(q, cut) + n
  BY RecvTakes
<1>4. kcp' = [kcp EXCEPT ![p] = m] /\ UNCHANGED <<net, offered, sent, faults>>
  BY DEF Recv
<1> HIDE DEF k, n, N, t
<1>5. /\ read \in Control /\ RecvOK(read, F[q], N, t) /\ SameSend(k, read)
      /\ read.acklist = k.acklist /\ Got(read) = Got(k)
  BY <1>1, <1>2, <1>3, TakeGood
<1> HIDE DEF read
<1>6. t \in Nat
  <2>1. n \in Int /\ n >= 0
    BY <1>3
  <2> QED
    BY <1>2, <1>3, <2>1
<1>7. /\ moved \in Control /\ RecvOK(moved, F[q], N, t) /\ SameSend(read, moved)
      /\ moved.acklist = read.acklist /\ Got(moved) = Got(read)
  BY <1>2, <1>5, <1>6, ReadyGood
<1> HIDE DEF moved, recover
<1>8. /\ m \in Control /\ SameRecv(moved, m) /\ SameSend(moved, m)
  <2>1. moved.ask_tell \in BOOLEAN
    BY <1>7 DEF Control
  <2>2. (moved.ask_tell \/ recover) \in BOOLEAN
    OBVIOUS
  <2> QED
    BY <1>7, <2>2 DEF Control, SameRecv, SameSend
<1> HIDE DEF m
<1>9. RecvOK(m, F[q], N, t) /\ Got(m) = Got(k) /\ m.acklist = k.acklist
  <2>1. m.acklist = moved.acklist
    BY <1>8 DEF SameRecv
  <2> QED
    BY <1>5, <1>7, <1>8, <2>1, SameRecvOK
<1>10. SameSend(k, m)
  BY <1>5, <1>7, <1>8, SameTwice
<1>11. SendOK(m, F[p], Got(kcp[q])) /\ m.snd_nxt = k.snd_nxt
  BY <1>1, <1>10, SameSendOK DEF SameSend
<1>12. AcksOK(m)
  BY <1>1, <1>9 DEF AcksOK
<1>13. received'[p] = received[p] /\ Len(received'[q]) <= Len(sent[q])
  <2>1. received'[p] = received[p]
    BY <1>1, <1>3 DEF SessionTypes
  <2>2. received'[q] = Append(received[q], sent[q][Len(received[q]) + 1])
    BY <1>1, <1>3 DEF SessionTypes
  <2>3. Len(received'[q]) = Len(received[q]) + 1 /\ Len(received[q]) \in Nat
        /\ Len(sent[q]) \in Nat
    BY <1>2, <2>2
  <2> QED
    BY <1>3, <2>1, <2>3
<1>14. \A r \in Peer : PeerOK(r, F, cut)'
  <2>1. Got(kcp[p]) \subseteq Got(m) /\ kcp[p].snd_nxt <= m.snd_nxt
    BY <1>1, <1>9, <1>11 DEF k
  <2>2. RecvOK(m, F[q], kcp[q].snd_nxt, Taken(q, cut)')
    BY <1>9 DEF N, t
  <2>3. net'[p] \in Seq(Seq(Genuine(Got(kcp[q]), F[q], kcp[q].snd_nxt)))
    BY <1>1, <1>4 DEF N
  <2>4. net'[q] \in Seq(Seq(Genuine(Got(m), F[p], m.snd_nxt)))
    BY <1>2, <1>4, <1>9, <1>11 DEF k
  <2> QED
    BY <1>4, <1>8, <1>11, <1>12, <1>13, <2>1, <2>2, <2>3, <2>4, EndActs
<1>15. SessionTypes'
  <2>1. kcp' \in [Peer -> Control]
    BY <1>4, <1>8 DEF SessionTypes
  <2>2. received' \in [Peer -> Seq(Seq(Fragments))]
    <3> DEFINE more == Append(received[q], sent[q][Len(received[q]) + 1])
    <3>1. Len(received[q]) + 1 \in 1 .. Len(sent[q])
      BY <1>2, <1>3
    <3>2. sent[q][Len(received[q]) + 1] \in Seq(Fragments)
      BY <1>2, <3>1
    <3>3. more \in Seq(Seq(Fragments))
      BY <1>2, <3>2
    <3>4. received' = [received EXCEPT ![q] = more]
      BY <1>3
    <3> HIDE DEF more
    <3> QED
      BY <3>3, <3>4 DEF SessionTypes
  <2> QED
    BY <1>4, <2>1, <2>2 DEF SessionTypes
<1> QED
  BY <1>14, <1>15

LEMMA UpdateKept ==
    ASSUME SessionTypes, NEW F \in Streams, NEW cut \in Cuts,
           \A p \in Peer : PeerOK(p, F, cut), NEW p \in Peer,
           NEW due, NEW probeDue, Update(p, due, probeDue)
    PROVE  SessionTypes' /\ \A r \in Peer : PeerOK(r, F, cut)'
<1> DEFINE q == Remote(p)
           k == kcp[p]
           m == FlushState(k, due)
           out == Pack(FlushSegments(k, due, probeDue))
           N == MoveToBuf(k).snd_nxt
<1>1. /\ q \in Peer /\ q # p /\ k \in Control /\ AcksOK(k) /\ SendOK(k, F[p], Got(kcp[q]))
      /\ RecvOK(k, F[q], kcp[q].snd_nxt, Taken(q, cut))
      /\ net[p] \in Seq(Seq(Genuine(Got(kcp[q]), F[q], kcp[q].snd_nxt)))
      /\ k.snd_nxt \in Nat /\ F[p] \in Seq(Fragments) /\ Len(received[p]) <= Len(sent[p])
  BY SeenFrom, TheOther
<1>2. /\ net[q] \in Seq(Seq(Genuine(Got(k), F[p], k.snd_nxt)))
      /\ Len(received[q]) <= Len(sent[q])
  BY <1>1, SeenFrom, TheOther
<1>3. /\ kcp' = [kcp EXCEPT ![p] = m] /\ UNCHANGED <<offered, sent, received, faults>>
      /\ Len(net[q]) + Len(out) <= NetCap /\ net' = [net EXCEPT ![q] = @ \o out]
  BY DEF Update
<1> HIDE DEF q, k
<1>4. out \in Seq(Seq(Genuine(Got(k), F[p], N)))
  BY <1>1, FlushSendsGenuine
<1>5. /\ m \in Control /\ SendOK(m, F[p], Got(kcp[q])) /\ AcksOK(m)
      /\ SameRecv([k EXCEPT !.acklist = <<>>], m) /\ m.snd_nxt = N
  BY <1>1, FlushGood
<1>6. N >= k.snd_nxt
  BY <1>1, MoveToBufGood
<1> HIDE DEF m, out, N
<1>7. m.rcv_nxt = k.rcv_nxt /\ m.rcv_buf = k.rcv_buf /\ m.rcv_queue = k.rcv_queue
  BY <1>1, <1>5 DEF SameRecv, Control
<1>8. RecvOK(m, F[q], kcp[q].snd_nxt, Taken(q, cut)) /\ Got(m) = Got(k)
  BY <1>1, <1>7 DEF RecvOK, Got, Has
<1>9. N \in Nat /\ k.snd_nxt <= N
  BY <1>1, <1>5, <1>6 DEF Control
<1>10. net[q] \o out \in Seq(Seq(Genuine(Got(m), F[p], m.snd_nxt)))
  <2> DEFINE X == Genuine(Got(k), F[p], N)
  <2>1. Agree(F[p], F[p], k.snd_nxt)
    BY DEF Agree
  <2>2. Genuine(Got(k), F[p], k.snd_nxt) \subseteq X
    BY <1>1, <1>9, <2>1, GenuineGrows
  <2> HIDE DEF X
  <2>3. net[q] \in Seq(Seq(X))
    BY <1>2, <2>2, SeqGrows
  <2>4. out \in Seq(Seq(X))
    BY <1>4 DEF X
  <2>5. net[q] \o out \in Seq(Seq(X))
    BY <2>3, <2>4
  <2> QED
    BY <1>5, <1>8, <2>5 DEF X
<1>11. net'[q] = net[q] \o out /\ net'[p] = net[p]
  BY <1>1, <1>3 DEF SessionTypes
<1>12. \A r \in Peer : PeerOK(r, F, cut)'
  <2>1. Got(kcp[p]) \subseteq Got(m) /\ kcp[p].snd_nxt <= m.snd_nxt
    BY <1>5, <1>8, <1>9 DEF k
  <2>2. RecvOK(m, F[q], kcp[q].snd_nxt, Taken(q, cut)')
    BY <1>3, <1>8 DEF Taken
  <2>3. received'[p] = received[p] /\ Len(received'[q]) <= Len(sent[q])
    BY <1>2, <1>3
  <2> QED
    BY <1>1, <1>3, <1>5, <1>10, <1>11, <2>1, <2>2, <2>3, EndActs DEF q
<1>13. SessionTypes'
  <2>1. kcp' \in [Peer -> Control]
    BY <1>3, <1>5 DEF SessionTypes
  <2>2. net[q] \o out \in Seq(Seq(Segments)) /\ Len(net[q] \o out) <= NetCap
    <3>1. net[q] \o out \in Seq(Seq(Segments))
      BY <1>10, GenuineAreSegments
    <3>2. Len(net[q] \o out) = Len(net[q]) + Len(out)
      BY <1>2, <1>4
    <3> QED
      BY <1>3, <3>1, <3>2
  <2>3. net' \in [Peer -> Seq(Seq(Segments))]
    BY <1>3, <2>2 DEF SessionTypes
  <2>4. \A r \in Peer : Len(net'[r]) <= NetCap
    BY <1>3, <2>2 DEF SessionTypes
  <2> QED
    BY <1>3, <2>1, <2>3, <2>4 DEF SessionTypes
<1> QED
  BY <1>12, <1>13

\* A datagram less under way.
LEMMA NetShrinks ==
    ASSUME NEW X, NEW s \in Seq(Seq(X)), NEW i \in DOMAIN s
    PROVE  /\ RemoveAt(s, i) \in Seq(Seq(X)) /\ Len(RemoveAt(s, i)) <= Len(s)
           /\ s[i] \in Seq(X)
<1> DEFINE Y == Seq(X)
           t == RemoveAt(s, i)
<1>1. s \in Seq(Y) /\ i \in 1 .. Len(s) + 1 /\ i # Len(s) + 1 /\ Len(s) \in Nat
  OBVIOUS
<1>2. s[i] \in Seq(X)
  OBVIOUS
<1> HIDE DEF Y
<1>3. t \in Seq(Y) /\ Len(t) = Len(s) - 1
  <2>1. t = RemoveAt(s, i)
    OBVIOUS
  <2> HIDE DEF t
  <2> QED
    BY <1>1, <2>1, Removed
<1> HIDE DEF t
<1>4. Len(t) <= Len(s)
  BY <1>1, <1>3
<1> QED
  BY <1>2, <1>3, <1>4 DEF Y, t

LEMMA DeliverKept ==
    ASSUME SessionTypes, NEW F \in Streams, NEW cut \in Cuts,
           \A p \in Peer : PeerOK(p, F, cut), NEW p \in Peer,
           NEW i, Deliver(p, i)
    PROVE  SessionTypes' /\ \A r \in Peer : PeerOK(r, F, cut)'
<1> DEFINE q == Remote(p)
           k == kcp[p]
           datagram == net[p][i]
           m == IkcpInput(k, datagram)
           rest == RemoveAt(net[p], i)
           X == Genuine(Got(kcp[q]), F[q], kcp[q].snd_nxt)
           N == kcp[q].snd_nxt
           t == Taken(q, cut)
<1>1. /\ q \in Peer /\ q # p /\ k \in Control /\ AcksOK(k) /\ SendOK(k, F[p], Got(kcp[q]))
      /\ RecvOK(k, F[q], kcp[q].snd_nxt, Taken(q, cut))
      /\ net[p] \in Seq(Seq(X)) /\ k.snd_nxt \in Nat /\ F[p] \in Seq(Fragments)
  BY SeenFrom, TheOther
<1>2. /\ net[q] \in Seq(Seq(Genuine(Got(k), F[p], k.snd_nxt)))
      /\ Len(received[q]) <= Len(sent[q]) /\ N \in Nat /\ t \in Nat
  BY <1>1, SeenFrom, TheOther
<1>3. /\ i \in DOMAIN net[p] /\ kcp' = [kcp EXCEPT ![p] = m]
      /\ net' = [net EXCEPT ![p] = rest]
      /\ UNCHANGED <<offered, sent, received, faults>>
  BY DEF Deliver
<1> HIDE DEF q, k
<1>4. /\ rest \in Seq(Seq(X)) /\ Len(rest) <= Len(net[p]) /\ datagram \in Seq(X)
  <2> HIDE DEF X
  <2> QED
    BY <1>1, <1>3, NetShrinks
<1> HIDE DEF datagram, rest
<1>5. /\ m \in Control /\ EndOK(m, F[p], Got(kcp[q]), F[q], N, t)
      /\ m.snd_nxt = k.snd_nxt /\ Got(k) \subseteq Got(m)
  <2>1. EndOK(k, F[p], Got(kcp[q]), F[q], N, t)
    BY <1>1 DEF EndOK
  <2>2. datagram \in Seq(Genuine(Got(kcp[q]), F[q], N))
    BY <1>4
  <2> HIDE DEF N, t
  <2> QED
    BY <1>1, <1>2, <2>1, <2>2, InputGood
<1> HIDE DEF m
<1>6. net[q] \in Seq(Seq(Genuine(Got(m), F[p], m.snd_nxt)))
  <2>1. Agree(F[p], F[p], k.snd_nxt)
    BY DEF Agree
  <2>2. Genuine(Got(k), F[p], k.snd_nxt) \subseteq Genuine(Got(m), F[p], m.snd_nxt)
    BY <1>1, <1>5, <2>1, GenuineGrows
  <2> QED
    BY <1>2, <2>2, SeqGrows
<1>7. net'[q] = net[q] /\ net'[p] = rest
  BY <1>1, <1>3 DEF SessionTypes
<1>8. \A r \in Peer : PeerOK(r, F, cut)'
  <2>1. Got(kcp[p]) \subseteq Got(m) /\ kcp[p].snd_nxt <= m.snd_nxt
    BY <1>1, <1>5 DEF k
  <2>2. RecvOK(m, F[q], kcp[q].snd_nxt, Taken(q, cut)')
    BY <1>3, <1>5 DEF Taken, EndOK
  <2>3. received'[p] = received[p] /\ Len(received'[q]) <= Len(sent[q])
    BY <1>2, <1>3
  <2>4. SendOK(m, F[p], Got(kcp[q])) /\ AcksOK(m)
    BY <1>5 DEF EndOK
  <2> QED
    BY <1>3, <1>4, <1>5, <1>6, <1>7, <2>1, <2>2, <2>3, <2>4, EndActs DEF q
<1>9. SessionTypes'
  <2>1. kcp' \in [Peer -> Control]
    BY <1>3, <1>5 DEF SessionTypes
  <2>2. rest \in Seq(Seq(Segments))
    BY <1>4, GenuineAreSegments
  <2>3. net' \in [Peer -> Seq(Seq(Segments))]
    BY <1>3, <2>2 DEF SessionTypes
  <2>4. \A r \in Peer : Len(net'[r]) <= NetCap
    <3> SUFFICES ASSUME NEW r \in Peer PROVE Len(net'[r]) <= NetCap
      OBVIOUS
    <3>1. CASE r = p
      <4>3. Len(net[p]) \in Nat
        BY <1>1
      <4>4. Len(rest) \in Nat
        BY <1>4
      <4>1. Len(net[p]) \in Nat /\ Len(rest) \in Nat /\ NetCap \in Nat
        BY <4>3, <4>4, KcpAssumption
      <4>2. Len(net[p]) <= NetCap
        BY DEF SessionTypes
      <4> QED
        BY <1>4, <1>7, <3>1, <4>1, <4>2
    <3>2. CASE r # p
      BY <1>3, <3>2 DEF SessionTypes
    <3> QED
      BY <3>1, <3>2
  <2> QED
    BY <1>3, <2>1, <2>3, <2>4 DEF SessionTypes
<1> QED
  BY <1>8, <1>9

\* The network loses or repeats a datagram.
LEMMA NetKept ==
    ASSUME SessionTypes, NEW F \in Streams, NEW cut \in Cuts,
           \A p \in Peer : PeerOK(p, F, cut), NEW p \in Peer,
           NEW i, Lose(p, i) \/ Duplicate(p, i)
    PROVE  SessionTypes' /\ \A r \in Peer : PeerOK(r, F, cut)'
<1> DEFINE q == Remote(p)
           X == Genuine(Got(kcp[q]), F[q], kcp[q].snd_nxt)
           now == net'[p]
<1>1. q \in Peer /\ q # p /\ net[p] \in Seq(Seq(X)) /\ net[p] \in Seq(Seq(Segments))
      /\ \A r \in Peer : r = p \/ r = q
  BY SeenFrom, TheOther DEF SessionTypes
<1>2. UNCHANGED <<kcp, offered, sent, received>> /\ i \in DOMAIN net[p]
      /\ faults < MaxFaults /\ faults' = faults + 1
  BY DEF Lose, Duplicate
<1>3. NetCap \in Nat /\ MaxFaults \in Nat /\ Len(net[p]) \in Nat /\ Len(net[p]) <= NetCap
  BY <1>1, KcpAssumption DEF SessionTypes
<1>4. \E s \in Seq(Seq(X)) : net' = [net EXCEPT ![p] = s] /\ Len(s) <= NetCap
  <2> HIDE DEF X
  <2>1. CASE Lose(p, i)
    <3> DEFINE s == RemoveAt(net[p], i)
    <3>1. s \in Seq(Seq(X)) /\ Len(s) <= Len(net[p])
      BY <1>1, <1>2, NetShrinks
    <3>2. net' = [net EXCEPT ![p] = s]
      BY <2>1 DEF Lose
    <3> HIDE DEF s
    <3>3. Len(s) \in Nat
      BY <3>1
    <3>4. Len(s) <= NetCap
      BY <1>3, <3>1, <3>3
    <3> QED
      BY <3>1, <3>2, <3>4, Zenon
  <2>2. CASE Duplicate(p, i)
    <3> DEFINE s == Append(net[p], net[p][i])
    <3>1. net[p][i] \in Seq(X)
      BY <1>1, <1>2
    <3>2. s \in Seq(Seq(X)) /\ Len(s) = Len(net[p]) + 1
      BY <1>1, <3>1
    <3>3. net' = [net EXCEPT ![p] = s] /\ Len(net[p]) < NetCap
      BY <2>2 DEF Duplicate
    <3> HIDE DEF s
    <3>4. Len(s) <= NetCap
      BY <1>3, <3>2, <3>3
    <3> QED
      BY <3>2, <3>3, <3>4, Zenon
  <2> QED
    BY <2>1, <2>2
<1>5. PICK s \in Seq(Seq(X)) : net' = [net EXCEPT ![p] = s] /\ Len(s) <= NetCap
  BY <1>4
<1>6. net'[p] = s /\ \A r \in Peer : r # p => net'[r] = net[r]
  BY <1>5 DEF SessionTypes
<1>7. ASSUME NEW r \in Peer PROVE PeerOK(r, F, cut)'
  <2>1. PeerOK(r, F, cut)
    OBVIOUS
  <2>2. net'[r] \in Seq(Seq(Genuine(Got(kcp[Remote(r)]), F[Remote(r)],
                                      kcp[Remote(r)].snd_nxt)))
    <3>1. CASE r = p
      BY <1>5, <1>6, <3>1
    <3>2. CASE r # p
      BY <1>6, <2>1, <3>2 DEF PeerOK
    <3> QED
      BY <3>1, <3>2
  <2> QED
    BY <1>2, <2>1, <2>2 DEF PeerOK, Taken
<1>8. SessionTypes'
  <2>1. s \in Seq(Seq(Segments))
    BY GenuineAreSegments
  <2>2. net' \in [Peer -> Seq(Seq(Segments))]
    BY <1>5, <2>1 DEF SessionTypes
  <2>3. \A r \in Peer : Len(net'[r]) <= NetCap
    BY <1>5, <1>6 DEF SessionTypes
  <2>4. faults' \in 0 .. MaxFaults
    BY <1>2, <1>3 DEF SessionTypes
  <2> QED
    BY <1>2, <2>2, <2>3, <2>4 DEF SessionTypes
<1> QED
  BY <1>7, <1>8

\* A message is appended to the stream.
LEMMA Extended ==
    ASSUME NEW X, NEW s \in Seq(X), NEW r \in Seq(X)
    PROVE  /\ s \o r \in Seq(X) /\ Len(s \o r) = Len(s) + Len(r) /\ Agree(s, s \o r, Len(s))
           /\ \A i \in 1 .. Len(r) : (s \o r)[Len(s) + i] = r[i]
<1>1. \A i \in 1 .. Len(r) : (s \o r)[Len(s) + i] = r[i]
  OBVIOUS
<1>2. Agree(s, s \o r, Len(s))
  BY DEF Agree
<1> QED
  BY <1>1, <1>2, Concat

LEMMA FragmentsAre ==
    ASSUME NEW m \in Nat, NEW count \in Nat \ {0}
    PROVE  LET message == FragmentsOf(m, count)
           IN  /\ message \in Seq(Fragments) /\ Len(message) = count
               /\ \A i \in 1 .. count : message[i].frg = count - i
<1>1. ASSUME NEW i \in 1 .. count
      PROVE  Fragment(m, i, count) \in Fragments /\ Fragment(m, i, count).frg = count - i
  BY DEF Fragment, Fragments
<1> QED
  BY <1>1 DEF FragmentsOf

IsStream(F, cut, messages) ==
    /\ F \in Seq(Fragments) /\ cut \in Seq(Nat) /\ messages \in Seq(Seq(Fragments))
    /\ StreamOK(F, cut, messages)

IsMessage(message) ==
    /\ message \in Seq(Fragments) /\ Len(message) > 0
    /\ \A i \in 1 .. Len(message) : message[i].frg = Len(message) - i

\* The stream, its cuts and its messages after one message more.
IsLonger(F, cut, messages, message, F2, cut2, more) ==
    /\ F2 = F \o message /\ cut2 = Append(cut, Len(F) + Len(message))
    /\ more = Append(messages, message)

LEMMA StreamGrows ==
    ASSUME NEW F, NEW cut, NEW messages, NEW message, NEW F2, NEW cut2, NEW more,
           IsStream(F, cut, messages), IsMessage(message),
           IsLonger(F, cut, messages, message, F2, cut2, more)
    PROVE  IsStream(F2, cut2, more)
<1> DEFINE n == Len(messages)
           l == Len(message)
           f == Len(F)
<1>13. F \in Seq(Fragments) /\ cut \in Seq(Nat) /\ message \in Seq(Fragments)
       /\ messages \in Seq(Seq(Fragments)) /\ StreamOK(F, cut, messages)
  BY DEF IsStream, IsMessage
<1>14. F2 = F \o message
  BY DEF IsLonger
<1>1. Len(messages) \in Nat /\ Len(message) \in Nat
  <2>1. Len(messages) \in Nat
    BY <1>13
  <2> QED
    BY <1>13, <2>1
<1>2. Len(F) \in Nat
  BY <1>13
<1>3. /\ Len(cut) = n + 1 /\ cut[1] = 0 /\ cut[n + 1] = f
      /\ \A j \in 1 .. n + 1 : cut[j] <= f
  BY <1>13 DEF StreamOK
<1>4. /\ cut2 \in Seq(Nat) /\ Len(cut2) = n + 2 /\ cut2[n + 2] = f + l
      /\ \A j \in 1 .. n + 1 : cut2[j] = cut[j]
  <2> DEFINE end == f + l
  <2>1. end \in Nat
    BY <1>1, <1>2
  <2>2. cut2 = Append(cut, end)
    BY DEF IsLonger
  <2> HIDE DEF end
  <2>3. cut2 \in Seq(Nat) /\ Len(cut2) = Len(cut) + 1 /\ cut2[Len(cut) + 1] = end
        /\ \A j \in 1 .. Len(cut) : cut2[j] = cut[j]
    BY <1>13, <2>1, <2>2
  <2>4. Len(cut) + 1 = n + 2
    BY <1>1, <1>3
  <2> QED
    BY <1>1, <1>3, <2>3, <2>4 DEF end
<1>5. /\ Len(more) = n + 1 /\ more[n + 1] = message
      /\ \A j \in 1 .. n : more[j] = messages[j]
      /\ more \in Seq(Seq(Fragments))
  BY <1>13 DEF IsLonger
<1>6. /\ Len(F2) = f + l /\ \A i \in 1 .. f : F2[i] = F[i]
      /\ \A i \in 1 .. l : F2[f + i] = message[i]
  BY <1>13, <1>14, Extended DEF Agree
<1>15. F2 \in Seq(Fragments)
  BY <1>13, <1>14, Extended
<1> HIDE DEF n, l, f
<1>7. n \in Nat /\ l \in Nat /\ f \in Nat /\ l > 0
  BY <1>1, <1>2 DEF n, l, f, IsMessage
<1>8. \A j \in 1 .. n + 1 : cut[j] \in Nat
  BY <1>3, <1>13
<1>9. ASSUME NEW j \in 1 .. n + 2 PROVE cut2[j] <= f + l
  <2>1. CASE j = n + 2
    BY <1>4, <1>7, <2>1
  <2>2. CASE j \in 1 .. n + 1
    <3>1. cut2[j] = cut[j] /\ cut[j] <= f /\ cut[j] \in Nat
      BY <1>3, <1>4, <1>8, <2>2
    <3> QED
      BY <1>7, <3>1
  <2> QED
    BY <1>7, <2>1, <2>2
<1>10. ASSUME NEW j \in 1 .. n + 1
       PROVE  /\ Len(more[j]) > 0
              /\ cut2[j + 1] = cut2[j] + Len(more[j])
              /\ \A i \in 1 .. Len(more[j]) :
                    /\ more[j][i] = F2[cut2[j] + i]
                    /\ more[j][i].frg = Len(more[j]) - i
  <2>1. CASE j = n + 1
    <3>1. more[j] = message /\ Len(more[j]) = l
      BY <1>5, <2>1 DEF l
    <3>2. cut2[j] = f /\ j + 1 = n + 2
      BY <1>3, <1>4, <1>7, <2>1
    <3>3. cut2[j + 1] = f + l
      BY <1>4, <3>2
    <3>4. \A i \in 1 .. l : message[i] = F2[f + i] /\ message[i].frg = l - i
      BY <1>6 DEF l, IsMessage
    <3> QED
      BY <1>7, <3>1, <3>2, <3>3, <3>4
  <2>2. CASE j \in 1 .. n
    <3> DEFINE w == messages[j]
    <3>1. more[j] = w
      BY <1>5, <2>2
    <3>2. /\ Len(w) > 0 /\ cut[j + 1] = cut[j] + Len(w)
          /\ \A i \in 1 .. Len(w) : w[i] = F[cut[j] + i] /\ w[i].frg = Len(w) - i
      BY <1>13, <2>2 DEF StreamOK, n
    <3>3. Len(w) \in Nat
      <4>1. w \in Seq(Fragments)
        BY <1>13, <2>2 DEF n
      <4> QED
        BY <4>1
    <3> HIDE DEF w
    <3>4. j \in 1 .. n + 1 /\ j + 1 \in 1 .. n + 1
      BY <1>7, <2>2
    <3>5. cut2[j] = cut[j] /\ cut2[j + 1] = cut[j + 1] /\ cut[j] \in Nat /\ cut[j + 1] <= f
      BY <1>3, <1>4, <1>8, <3>4
    <3>6. ASSUME NEW i \in 1 .. Len(w) PROVE w[i] = F2[cut[j] + i]
      <4>1. cut[j] + i \in 1 .. f
        BY <1>7, <3>2, <3>3, <3>5
      <4>2. F2[cut[j] + i] = F[cut[j] + i]
        BY <1>6, <4>1
      <4> QED
        BY <3>2, <4>2
    <3> QED
      BY <3>1, <3>2, <3>5, <3>6
  <2> QED
    BY <1>7, <2>1, <2>2
<1>11. cut2[1] = 0 /\ cut2[n + 2] = f + l
  BY <1>3, <1>4, <1>7
<1>12. (n + 1) + 1 = n + 2
  BY <1>7
<1> QED
  <2>1. StreamOK(F2, cut2, more)
    BY <1>4, <1>5, <1>6, <1>9, <1>10, <1>11, <1>12 DEF StreamOK
  <2> QED
    BY <1>4, <1>5, <1>15, <2>1 DEF IsStream

\* ikcp_send of a message: it waits behind what is queued.
LEMMA QueueGood ==
    ASSUME NEW k \in Control, NEW F, NEW R, SendOK(k, F, R), NEW message, NEW F2,
           NEW cut, NEW messages, NEW cut2, NEW more,
           IsStream(F, cut, messages), IsMessage(message),
           IsLonger(F, cut, messages, message, F2, cut2, more)
    PROVE  LET m == [k EXCEPT !.snd_queue = @ \o message]
           IN  /\ m \in Control /\ SendOK(m, F2, R) /\ SameRecv(k, m)
               /\ m.snd_nxt = k.snd_nxt
<1> DEFINE queue == k.snd_queue \o message
           m == [k EXCEPT !.snd_queue = queue]
           old == k.snd_queue
           f == Len(F)
<1>12. F \in Seq(Fragments) /\ message \in Seq(Fragments) /\ F2 = F \o message
  BY DEF IsStream, IsMessage, IsLonger
<1>1. /\ old \in Seq(Fragments) /\ k.snd_nxt \in Nat /\ k.snd_buf \in Seq(OutSegments)
  BY DEF Control
<1>2. Len(old) \in Nat /\ DOMAIN old = 1 .. Len(old) /\ Len(message) \in Nat
  <2>1. Len(old) \in Nat /\ DOMAIN old = 1 .. Len(old)
    BY <1>1
  <2> QED
    BY <1>12, <2>1
<1>3. /\ queue \in Seq(Fragments) /\ Len(queue) = Len(old) + Len(message)
      /\ \A i \in 1 .. Len(old) : queue[i] = old[i]
      /\ \A i \in 1 .. Len(message) : queue[Len(old) + i] = message[i]
  BY <1>1, <1>12, Extended DEF Agree
<1>4. DOMAIN queue = 1 .. Len(old) + Len(message)
  BY <1>3
<1> HIDE DEF queue
<1>5. /\ Len(F2) = f + Len(message) /\ \A i \in 1 .. f : F2[i] = F[i]
      /\ \A i \in 1 .. Len(message) : F2[f + i] = message[i]
  BY <1>12, Extended DEF Agree
<1>6. k.snd_nxt + Len(old) = f /\ \A i \in DOMAIN old : old[i] = F[k.snd_nxt + i]
  BY DEF SendOK
<1> HIDE DEF f
<1>7. ASSUME NEW i \in DOMAIN queue PROVE queue[i] = F2[k.snd_nxt + i]
  <2>1. CASE i <= Len(old)
    <3>1. i \in 1 .. Len(old) /\ k.snd_nxt + i \in 1 .. f
      BY <1>1, <1>2, <1>4, <1>6, <2>1
    <3>2. queue[i] = old[i] /\ old[i] = F[k.snd_nxt + i]
      BY <1>2, <1>3, <1>6, <3>1
    <3> QED
      BY <1>5, <3>1, <3>2
  <2>2. CASE i > Len(old)
    <3> DEFINE j == i - Len(old)
    <3>1. j \in 1 .. Len(message) /\ Len(old) + j = i /\ f + j = k.snd_nxt + i
      BY <1>1, <1>2, <1>4, <1>6, <2>2, SMTT(20)
    <3> HIDE DEF j
    <3>2. queue[Len(old) + j] = message[j] /\ F2[f + j] = message[j]
      BY <1>3, <1>5, <3>1
    <3> QED
      BY <3>1, <3>2
  <2> QED
    BY <1>2, <1>4, <2>1, <2>2
<1>8. ASSUME NEW i \in DOMAIN k.snd_buf PROVE k.snd_buf[i].data = F2[k.snd_buf[i].sn + 1]
  <2>1. k.snd_buf[i] \in OutSegments
    BY <1>1
  <2>2. k.snd_buf[i].sn \in Nat /\ k.snd_buf[i].sn < k.snd_nxt
        /\ k.snd_buf[i].data = F[k.snd_buf[i].sn + 1]
    BY <2>1 DEF OutSegments, SendOK
  <2> DEFINE j == k.snd_buf[i].sn + 1
  <2>3. j \in 1 .. f
    BY <1>1, <1>2, <1>6, <2>2, SMTT(20)
  <2>4. F2[j] = F[j]
    BY <1>5, <2>3
  <2> QED
    BY <2>2, <2>4
<1>9. k.snd_nxt + Len(queue) = Len(F2)
  <2>1. Len(queue) = Len(old) + Len(message) /\ Len(F2) = f + Len(message)
    BY <1>3, <1>5
  <2> QED
    BY <1>1, <1>2, <1>6, <2>1
<1>10. /\ m \in Control /\ SameRecv(k, m) /\ m.snd_buf = k.snd_buf /\ m.snd_nxt = k.snd_nxt
       /\ m.snd_una = k.snd_una /\ m.snd_queue = queue
  BY <1>3 DEF Control, SameRecv
<1> HIDE DEF m
<1>11. SendOK(m, F2, R)
  BY <1>7, <1>8, <1>9, <1>10 DEF SendOK
<1> QED
  BY <1>10, <1>11 DEF m, queue

LEMMA SendKept ==
    ASSUME SessionTypes, NEW F \in Streams, NEW cut \in Cuts,
           \A p \in Peer : PeerOK(p, F, cut), NEW p \in Peer, Send(p)
    PROVE  /\ SessionTypes'
           /\ \E F2 \in Streams, cut2 \in Cuts : \A r \in Peer : PeerOK(r, F2, cut2)'
<1> DEFINE q == Remote(p)
           k == kcp[p]
           o == offered[p] + 1
           message == FragmentsOf(o, Script[p][o])
           m == [k EXCEPT !.snd_queue = @ \o message]
           stream == F[p] \o message
           ends == Append(cut[p], Len(F[p]) + Len(message))
           more == Append(sent[p], message)
           F2 == [F EXCEPT ![p] = stream]
           cut2 == [cut EXCEPT ![p] = ends]
<1>1. /\ q \in Peer /\ q # p /\ Remote(q) = p /\ k \in Control /\ AcksOK(k)
      /\ SendOK(k, F[p], Got(kcp[q])) /\ k.snd_nxt \in Nat
      /\ RecvOK(k, F[q], kcp[q].snd_nxt, Taken(q, cut))
      /\ net[p] \in Seq(Seq(Genuine(Got(kcp[q]), F[q], kcp[q].snd_nxt)))
      /\ Len(received[p]) <= Len(sent[p])
      /\ \A r \in Peer : r = p \/ r = q
  BY SeenFrom, TheOther
<1>2. /\ F[p] \in Seq(Fragments) /\ cut[p] \in Seq(Nat) /\ sent[p] \in Seq(Seq(Fragments))
      /\ StreamOK(F[p], cut[p], sent[p]) /\ received[p] \in Seq(Seq(Fragments))
      /\ Taken(p, cut) \in Nat
  BY SeenFrom
<1>3. /\ kcp[q] \in Control /\ AcksOK(kcp[q]) /\ SendOK(kcp[q], F[q], Got(k))
      /\ RecvOK(kcp[q], F[p], k.snd_nxt, Taken(p, cut))
      /\ StreamOK(F[q], cut[q], sent[q]) /\ Len(received[q]) <= Len(sent[q])
      /\ net[q] \in Seq(Seq(Genuine(Got(k), F[p], k.snd_nxt)))
  BY <1>1, SeenFrom
<1>4. offered' = [offered EXCEPT ![p] = @ + 1] /\ UNCHANGED <<net, received, faults>>
  BY DEF Send
<1>5. offered' \in [Peer -> Nat]
  BY <1>4 DEF SessionTypes
<1>6. \/ UNCHANGED <<kcp, sent>>
      \/ /\ kcp' = [kcp EXCEPT ![p].snd_queue = @ \o message]
         /\ sent' = [sent EXCEPT ![p] = Append(@, message)]
  BY DEF Send
<1>7. CASE UNCHANGED <<kcp, sent>>
  <2>1. \A r \in Peer : PeerOK(r, F, cut)'
    BY <1>4, <1>7 DEF PeerOK, Taken
  <2>2. SessionTypes'
    BY <1>4, <1>5, <1>7 DEF SessionTypes
  <2> QED
    BY <2>1, <2>2
<1>8. CASE /\ kcp' = [kcp EXCEPT ![p].snd_queue = @ \o message]
           /\ sent' = [sent EXCEPT ![p] = Append(@, message)]
  <2>1. IsMessage(message) /\ message \in Seq(Fragments)
    <3>1. offered[p] \in Nat /\ offered[p] < Len(Script[p])
          /\ Script[p] \in Seq(Nat \ {0})
      BY KcpAssumption DEF Send, SessionTypes
    <3>2. o \in Nat /\ Script[p][o] \in Nat \ {0}
      BY <3>1
    <3> DEFINE count == Script[p][o]
    <3> HIDE DEF o, count
    <3>3. /\ FragmentsOf(o, count) \in Seq(Fragments) /\ Len(FragmentsOf(o, count)) = count
          /\ \A i \in 1 .. count : FragmentsOf(o, count)[i].frg = count - i
      BY <3>2, FragmentsAre DEF count
    <3>4. count \in Nat /\ count > 0
      BY <3>2 DEF count
    <3>5. message = FragmentsOf(o, count)
      BY DEF count
    <3> HIDE DEF message
    <3> QED
      BY <3>3, <3>4, <3>5 DEF IsMessage
  <2>2. kcp' = [kcp EXCEPT ![p] = m]
    BY <1>1, <1>8 DEF SessionTypes
  <2>3. sent' = [sent EXCEPT ![p] = more]
    BY <1>8
  <2> HIDE DEF message
  <2>4. IsStream(F[p], cut[p], sent[p])
    BY <1>2 DEF IsStream
  <2>5. IsLonger(F[p], cut[p], sent[p], message, stream, ends, more)
    BY DEF IsLonger
  <2>6. IsStream(stream, ends, more)
    <3> HIDE DEF stream, ends, more
    <3> QED
      BY <2>1, <2>4, <2>5, StreamGrows
  <2>7. /\ m \in Control /\ SendOK(m, stream, Got(kcp[q])) /\ SameRecv(k, m)
        /\ m.snd_nxt = k.snd_nxt
    <3> HIDE DEF stream, ends, more, q, k
    <3> QED
      BY <1>1, <2>1, <2>4, <2>5, QueueGood
  <2>8. Agree(F[p], stream, k.snd_nxt)
    <3>1. Agree(F[p], stream, Len(F[p]))
      BY <1>2, <2>1, Extended
    <3>2. k.snd_nxt + Len(k.snd_queue) = Len(F[p]) /\ k.snd_queue \in Seq(Fragments)
      BY <1>1 DEF SendOK, Control
    <3>3. Len(k.snd_queue) \in Nat
      BY <3>2
    <3> HIDE DEF stream, k
    <3>4. k.snd_nxt <= Len(F[p])
      BY <1>1, <3>2, <3>3
    <3> QED
      BY <1>1, <3>1, <3>2, <3>3, <3>4 DEF Agree
  <2>9. F2 \in Streams /\ F2[p] = stream /\ F2[q] = F[q]
    <3>1. stream \in Seq(Fragments)
      BY <2>6 DEF IsStream
    <3> HIDE DEF stream
    <3> QED
      BY <1>1, <3>1 DEF Streams
  <2>10. cut2 \in Cuts /\ cut2[p] = ends /\ cut2[q] = cut[q]
    <3>1. ends \in Seq(Nat)
      BY <2>6 DEF IsStream
    <3> HIDE DEF ends
    <3> QED
      BY <1>1, <3>1 DEF Cuts
  <2>11. /\ kcp'[p] = m /\ kcp'[q] = kcp[q] /\ sent'[p] = more /\ sent'[q] = sent[q]
         /\ received' = received /\ net' = net
    BY <1>1, <1>4, <2>2, <2>3 DEF SessionTypes
  <2>12. Len(received[p]) <= Len(more)
    <3>1. Len(sent[p]) \in Nat /\ Len(more) = Len(sent[p]) + 1
      BY <1>2, <2>1
    <3>2. Len(received[p]) \in Nat
      BY <1>2
    <3> HIDE DEF more
    <3> QED
      BY <1>1, <3>1, <3>2
  <2>19. PICK G \in Streams, c \in Cuts : G = F2 /\ c = cut2
    BY <2>9, <2>10
  <2>20. G[p] = stream /\ G[q] = F[q] /\ c[p] = ends /\ c[q] = cut[q]
    BY <2>9, <2>10, <2>19
  <2> HIDE DEF F2, cut2
  <2>13. Taken(p, c)' = Taken(p, cut) /\ Taken(q, c)' = Taken(q, cut)
    <3>1. Taken(q, c)' = Taken(q, cut)
      BY <2>20, <2>11 DEF Taken
    <3>2. Taken(p, c)' = ends[Len(received[p]) + 1]
      <4> HIDE DEF ends
      <4> QED
        BY <2>20, <2>11 DEF Taken
    <3>3. Len(received[p]) + 1 \in 1 .. Len(cut[p])
      <4>1. Len(cut[p]) = Len(sent[p]) + 1
        BY <1>2 DEF StreamOK
      <4>2. Len(received[p]) \in Nat /\ Len(sent[p]) \in Nat
        BY <1>2
      <4> QED
        BY <1>1, <4>1, <4>2
    <3>4. ends[Len(received[p]) + 1] = cut[p][Len(received[p]) + 1]
      BY <1>2, <2>1, <3>3
    <3> HIDE DEF ends
    <3> QED
      BY <3>1, <3>2, <3>4 DEF Taken
  <2> HIDE DEF m, stream, ends, more, k, q
  <2>14. Got(m) = Got(k) /\ AcksOK(m) /\ RecvOK(m, F[q], kcp[q].snd_nxt, Taken(q, cut))
    BY <1>1, <2>7, SameRecvOK
  <2>15. PeerOK(p, G, c)'
    <3>1. EndOK(m, G[p], Got(kcp'[q]), G[q], kcp'[q].snd_nxt, Taken(q, c)')
      BY <2>7, <2>20, <2>11, <2>13, <2>14 DEF EndOK
    <3>2. EndOK(kcp[p], G[p], Got(kcp[q]), G[q], kcp[q].snd_nxt, Taken(q, c))'
      BY <2>11, <3>1
    <3>3. StreamOK(G[p], c[p], sent'[p])
      BY <2>6, <2>20, <2>11 DEF IsStream
    <3>4. net'[p] \in Seq(Seq(Genuine(Got(kcp'[q]), G[q], kcp'[q].snd_nxt)))
      BY <1>1, <2>20, <2>11
    <3>5. Len(received'[p]) <= Len(sent'[p])
      BY <2>11, <2>12
    <3> QED
      BY <3>2, <3>3, <3>4, <3>5 DEF PeerOK, q
  <2>16. PeerOK(q, G, c)'
    <3>1. SendOK(kcp[q], F[q], Got(m))
      BY <1>3, <2>14
    <3>2. RecvOK(kcp[q], stream, k.snd_nxt, Taken(p, cut))
      BY <1>1, <1>2, <1>3, <2>8, RecvGrows
    <3>3. EndOK(kcp'[q], G[q], Got(kcp'[p]), G[p], kcp'[p].snd_nxt, Taken(p, c)')
      BY <1>3, <2>7, <2>20, <2>11, <2>13, <3>1, <3>2 DEF EndOK
    <3>4. EndOK(kcp[q], G[q], Got(kcp[p]), G[p], kcp[p].snd_nxt, Taken(p, c))'
      BY <3>3
    <3>5. Genuine(Got(k), F[p], k.snd_nxt) \subseteq Genuine(Got(m), stream, m.snd_nxt)
      BY <1>1, <2>7, <2>8, <2>14, GenuineGrows
    <3>6. net'[q] \in Seq(Seq(Genuine(Got(kcp'[p]), G[p], kcp'[p].snd_nxt)))
      BY <1>3, <2>20, <2>11, <3>5, SeqGrows
    <3>7. StreamOK(G[q], c[q], sent'[q]) /\ Len(received'[q]) <= Len(sent'[q])
      BY <1>3, <2>20, <2>11
    <3> QED
      BY <1>1, <3>4, <3>6, <3>7 DEF PeerOK
  <2>17. SessionTypes'
    <3>1. kcp' \in [Peer -> Control]
      BY <2>2, <2>7 DEF SessionTypes
    <3>2. more \in Seq(Seq(Fragments))
      BY <2>6 DEF IsStream
    <3>3. sent' \in [Peer -> Seq(Seq(Fragments))]
      BY <2>3, <3>2 DEF SessionTypes
    <3> QED
      BY <1>4, <1>5, <3>1, <3>3 DEF SessionTypes
  <2>18. \A r \in Peer : PeerOK(r, G, c)'
    BY <1>1, <2>15, <2>16
  <2> QED
    BY <2>17, <2>18
<1> QED
  BY <1>6, <1>7, <1>8

LEMMA SessionNext == SessionInv /\ [Next]_vars => SessionInv'
<1> SUFFICES ASSUME SessionInv, [Next]_vars PROVE SessionInv'
  OBVIOUS
<1>1. SessionTypes
  BY DEF SessionInv
<1>2. PICK F \in Streams, cut \in Cuts : \A p \in Peer : PeerOK(p, F, cut)
  BY DEF SessionInv
<1>3. ASSUME NEW p \in Peer, Send(p) PROVE SessionInv'
  BY <1>1, <1>2, <1>3, SendKept DEF SessionInv
<1>4. ASSUME NEW p \in Peer, Recv(p) PROVE SessionInv'
  BY <1>1, <1>2, <1>4, RecvKept DEF SessionInv
<1>5. ASSUME NEW p \in Peer, NEW due \in SUBSET InFlight(p), NEW probeDue \in BOOLEAN,
             Update(p, due, probeDue)
      PROVE  SessionInv'
  BY <1>1, <1>2, <1>5, UpdateKept DEF SessionInv
<1>6. ASSUME NEW p \in Peer, NEW i, Deliver(p, i) PROVE SessionInv'
  BY <1>1, <1>2, <1>6, DeliverKept DEF SessionInv
<1>7. ASSUME NEW p \in Peer, NEW i, Lose(p, i) \/ Duplicate(p, i) PROVE SessionInv'
  BY <1>1, <1>2, <1>7, NetKept DEF SessionInv
<1>8. ASSUME UNCHANGED vars PROVE SessionInv'
  BY <1>1, <1>2, <1>8 DEF SessionInv, SessionTypes, PeerOK, Taken, vars
<1> QED
  BY <1>3, <1>4, <1>5, <1>6, <1>7, <1>8 DEF Next

-----------------------------------------------------------------------------
(* Theorems *)

\* Whatever is lost, repeated and overtaken, both ends go on in step with one
\* stream of fragments in each direction: what is queued, in flight, on the
\* way and waiting at the other end are parts of it.
THEOREM InStep == Spec => []SessionInv
<1> QED
  BY SessionInit, SessionNext, PTL DEF Spec

LEMMA InvTypes == SessionInv => TypeOK
<1> SUFFICES ASSUME SessionInv PROVE TypeOK
  OBVIOUS
<1>1. SessionTypes
  BY DEF SessionInv
<1>2. PICK F \in Streams, cut \in Cuts : \A p \in Peer : PeerOK(p, F, cut)
  BY DEF SessionInv
<1>3. ASSUME NEW p \in Peer
      PROVE  /\ \A i \in DOMAIN kcp[p].snd_queue : kcp[p].snd_queue[i].frg \in Nat
             /\ Ascending(kcp[p].snd_buf) /\ Ascending(kcp[p].rcv_buf)
             /\ {kcp[p].cwnd, kcp[p].rmt_wnd, kcp[p].ssthresh, kcp[p].incr} \subseteq Nat
  <2> DEFINE k == kcp[p]
  <2>1. k \in Control /\ Ascending(k.snd_buf) /\ Ascending(k.rcv_buf)
    BY <1>1, <1>2, SeenFrom DEF SendOK, RecvOK
  <2> HIDE DEF k
  <2>2. \A i \in DOMAIN k.snd_queue : k.snd_queue[i] \in Fragments
    <3>1. k.snd_queue \in Seq(Fragments)
      BY <2>1 DEF Control
    <3> QED
      BY <3>1
  <2>3. {k.cwnd, k.rmt_wnd, k.ssthresh, k.incr} \subseteq Nat
    BY <2>1 DEF Control
  <2>4. \A i \in DOMAIN k.snd_queue : k.snd_queue[i].frg \in Nat
    BY <2>2 DEF Fragments
  <2> QED
    BY <2>1, <2>3, <2>4 DEF k
<1> QED
  BY <1>1, <1>3 DEF TypeOK, SessionTypes

\* The types of a session, and the order of its two buffers.
THEOREM TypeCorrect == Spec => []TypeOK
<1> QED
  BY InStep, InvTypes, PTL

LEMMA InvWindows == SessionInv => WithinWindows
<1> SUFFICES ASSUME SessionInv, NEW p \in Peer
             PROVE  LET k == kcp[p]
                    IN  /\ k.snd_nxt - k.snd_una <= SndWnd
                        /\ Len(k.rcv_queue) <= RcvWnd
                        /\ \A i \in DOMAIN k.rcv_buf :
                              k.rcv_buf[i].sn \in k.rcv_nxt .. k.rcv_nxt + RcvWnd - 1
  BY DEF WithinWindows
<1>1. SessionTypes
  BY DEF SessionInv
<1>2. PICK F \in Streams, cut \in Cuts : \A r \in Peer : PeerOK(r, F, cut)
  BY DEF SessionInv
<1> DEFINE k == kcp[p]
<1>3. /\ k \in Control
      /\ SendOK(k, F[p], Got(kcp[Remote(p)]))
      /\ RecvOK(k, F[Remote(p)], kcp[Remote(p)].snd_nxt, Taken(Remote(p), cut))
  BY <1>1, <1>2, SeenFrom
<1> HIDE DEF k
<1>4. k.snd_nxt - k.snd_una <= SndWnd /\ Len(k.rcv_queue) <= RcvWnd
  BY <1>3 DEF SendOK, RecvOK
<1>5. ASSUME NEW i \in DOMAIN k.rcv_buf
      PROVE  k.rcv_buf[i].sn \in k.rcv_nxt .. k.rcv_nxt + RcvWnd - 1
  <2>1. k.rcv_nxt <= k.rcv_buf[i].sn /\ k.rcv_buf[i].sn < k.rcv_nxt + RcvWnd
    BY <1>3 DEF RecvOK
  <2>2. k.rcv_nxt \in Nat /\ k.rcv_buf \in Seq(InSegments)
    BY <1>3 DEF Control
  <2>3. k.rcv_buf[i] \in InSegments
    BY <2>2
  <2>4. k.rcv_buf[i].sn \in Nat
    BY <2>3 DEF InSegments
  <2>5. RcvWnd \in Nat
    BY KcpAssumption
  <2> QED
    BY <2>1, <2>2, <2>4, <2>5
<1> QED
  BY <1>4, <1>5 DEF k

\* Never more in flight, or more kept by the receiver, than the two windows of
\* ikcp_wndsize allow, for windows of any size.
THEOREM WindowsRespected == Spec => []WithinWindows
<1> QED
  BY InStep, InvWindows, PTL

LEMMA InvNothingForgotten == SessionInv => NothingForgotten
<1> SUFFICES ASSUME SessionInv, NEW p \in Peer, NEW sn \in 0 .. kcp[p].snd_nxt - 1
             PROVE  \/ sn \in InFlight(p)
                    \/ sn < kcp[Remote(p)].rcv_nxt
                    \/ \E i \in DOMAIN kcp[Remote(p)].rcv_buf :
                           kcp[Remote(p)].rcv_buf[i].sn = sn
  BY DEF NothingForgotten
<1>1. SessionTypes
  BY DEF SessionInv
<1>2. PICK F \in Streams, cut \in Cuts : \A r \in Peer : PeerOK(r, F, cut)
  BY DEF SessionInv
<1>3. SendOK(kcp[p], F[p], Got(kcp[Remote(p)]))
  BY <1>1, <1>2, SeenFrom
<1>4. sn \in Got(kcp[Remote(p)]) \/ \E i \in DOMAIN kcp[p].snd_buf : kcp[p].snd_buf[i].sn = sn
  BY <1>3 DEF SendOK
<1> QED
  BY <1>4 DEF InFlight, Got, Has

\* A sender forgets a fragment only once the other end has it, whatever becomes
\* of the acknowledgements and of the fragment's copies on the way.
THEOREM NothingLost == Spec => []NothingForgotten
<1> QED
  BY InStep, InvNothingForgotten, PTL

-----------------------------------------------------------------------------
(* The session is a channel *)

LEMMA ChannelInit == Init => Channel!Init
BY DEF Init, Channel!Init

LEMMA SendAccepts ==
    ASSUME SessionTypes, NEW p \in Peer, Send(p)
    PROVE  Channel!Accept(p) \/ UNCHANGED Channel!channelVars
<1> DEFINE o == offered[p] + 1
           message == FragmentsOf(o, Script[p][o])
<1>1. received' = received
  BY DEF Send
<1>2. sent' = sent \/ sent' = [sent EXCEPT ![p] = Append(@, message)]
  BY DEF Send
<1>3. o \in DOMAIN Script[p]
  <2>1. Script[p] \in Seq(Nat \ {0}) /\ offered[p] \in Nat /\ offered[p] < Len(Script[p])
    BY KcpAssumption DEF Send, SessionTypes
  <2> QED
    BY <2>1
<1>4. message \in UNION {Messages(r) : r \in Peer}
  BY <1>3 DEF Messages
<1> HIDE DEF message
<1> QED
  BY <1>1, <1>2, <1>4 DEF Channel!Accept, Channel!channelVars

LEMMA ChannelNext ==
    SessionInv /\ [Next]_vars => [Channel!Next]_(Channel!channelVars)
<1> SUFFICES ASSUME SessionInv, [Next]_vars
             PROVE  Channel!Next \/ UNCHANGED <<sent, received>>
  BY DEF Channel!channelVars
<1>1. SessionTypes
  BY DEF SessionInv
<1>2. PICK F \in Streams, cut \in Cuts : \A p \in Peer : PeerOK(p, F, cut)
  BY DEF SessionInv
<1>3. ASSUME NEW p \in Peer, Send(p)
      PROVE  Channel!Next \/ UNCHANGED <<sent, received>>
  BY <1>1, <1>3, SendAccepts DEF Channel!Next, Channel!channelVars
<1>4. ASSUME NEW p \in Peer, Recv(p) PROVE Channel!Next
  <2>1. Remote(p) \in Peer
    BY TheOther
  <2>2. /\ Len(received[Remote(p)]) < Len(sent[Remote(p)])
        /\ received' = [received EXCEPT ![Remote(p)] =
                           Append(@, sent[Remote(p)][Len(@) + 1])]
    BY <1>1, <1>2, <1>4, RecvTakes
  <2>3. UNCHANGED sent
    BY <1>4 DEF Recv
  <2>4. Channel!Take(Remote(p))
    BY <2>2, <2>3 DEF Channel!Take
  <2> QED
    BY <2>1, <2>4 DEF Channel!Next
<1>5. ASSUME NEW p \in Peer, NEW due, NEW probeDue, Update(p, due, probeDue)
      PROVE  UNCHANGED <<sent, received>>
  BY <1>5 DEF Update
<1>6. ASSUME NEW p \in Peer, NEW i, Deliver(p, i) \/ Lose(p, i) \/ Duplicate(p, i)
      PROVE  UNCHANGED <<sent, received>>
  BY <1>6 DEF Deliver, Lose, Duplicate
<1>7. ASSUME UNCHANGED vars PROVE UNCHANGED <<sent, received>>
  BY <1>7 DEF vars
<1> QED
  BY <1>3, <1>4, <1>5, <1>6, <1>7 DEF Next

\* The session implements the channel of KcpChannel: every message that
\* ikcp_send accepts comes out of ikcp_recv whole, in order and once, for any
\* messages, windows, sizes of datagrams and number of faults.
THEOREM IsChannel == Spec => ChannelSpec
<1>1. Spec => []SessionInv
  BY InStep
<1>2. Init => Channel!Init
  BY ChannelInit
<1>3. SessionInv /\ [Next]_vars => [Channel!Next]_(Channel!channelVars)
  BY ChannelNext
<1> QED
  BY <1>1, <1>2, <1>3, PTL DEF Spec, ChannelSpec, Channel!Spec

\* What a user has read is what the other has sent so far, less its end.
ReadInOrder ==
    \A p \in Peer : \A i \in DOMAIN received[p] :
        i \in DOMAIN sent[p] /\ received[p][i] = sent[p][i]

LEMMA ReadInOrderNext ==
    SessionTypes /\ ReadInOrder /\ [Channel!Next]_(Channel!channelVars) => ReadInOrder'
<1> SUFFICES ASSUME SessionTypes, ReadInOrder, [Channel!Next]_(Channel!channelVars)
             PROVE  ReadInOrder'
  OBVIOUS
<1>1. sent \in [Peer -> Seq(Seq(Fragments))] /\ received \in [Peer -> Seq(Seq(Fragments))]
  BY DEF SessionTypes
<1>2. CASE UNCHANGED <<sent, received>>
  BY <1>2 DEF ReadInOrder
<1>3. ASSUME NEW p \in Peer, Channel!Accept(p) PROVE ReadInOrder'
  <2>1. PICK m : sent' = [sent EXCEPT ![p] = Append(@, m)] /\ received' = received
    BY <1>3 DEF Channel!Accept
  <2>2. sent'[p] = Append(sent[p], m) /\ \A r \in Peer : r # p => sent'[r] = sent[r]
    BY <1>1, <2>1
  <2>3. sent[p] \in Seq(Seq(Fragments))
    BY <1>1
  <2>4. ASSUME NEW i \in DOMAIN sent[p]
        PROVE  i \in DOMAIN sent'[p] /\ sent'[p][i] = sent[p][i]
    BY <2>2, <2>3
  <2>5. ASSUME NEW r \in Peer, NEW i \in DOMAIN received'[r]
        PROVE  i \in DOMAIN sent'[r] /\ received'[r][i] = sent'[r][i]
    <3>1. i \in DOMAIN sent[r] /\ received'[r][i] = sent[r][i]
      BY <2>1, <2>5 DEF ReadInOrder
    <3> QED
      BY <2>2, <2>4, <3>1
  <2> QED
    BY <2>5 DEF ReadInOrder
<1>4. ASSUME NEW p \in Peer, Channel!Take(p) PROVE ReadInOrder'
  <2> DEFINE n == Len(received[p])
             next == sent[p][n + 1]
  <2>1. n < Len(sent[p]) /\ sent' = sent /\ received' = [received EXCEPT ![p] = Append(@, next)]
    BY <1>4 DEF Channel!Take
  <2>2. received'[p] = Append(received[p], next)
        /\ \A r \in Peer : r # p => received'[r] = received[r]
    BY <1>1, <2>1
  <2>3. received[p] \in Seq(Seq(Fragments)) /\ sent[p] \in Seq(Seq(Fragments))
    BY <1>1
  <2>4. n \in Nat /\ n + 1 \in DOMAIN sent[p] /\ DOMAIN received[p] = 1 .. n
    BY <2>1, <2>3
  <2> HIDE DEF next
  <2>5. ASSUME NEW i \in DOMAIN received'[p]
        PROVE  \/ i = n + 1 /\ received'[p][i] = next
               \/ i \in DOMAIN received[p] /\ received'[p][i] = received[p][i]
    BY <2>2, <2>3, <2>4
  <2>6. ASSUME NEW r \in Peer, NEW i \in DOMAIN received'[r]
        PROVE  i \in DOMAIN sent'[r] /\ received'[r][i] = sent'[r][i]
    <3>1. CASE r = p
      BY <2>1, <2>4, <2>5, <2>6, <3>1 DEF ReadInOrder, next
    <3>2. CASE r # p
      BY <2>1, <2>2, <2>6, <3>2 DEF ReadInOrder
    <3> QED
      BY <3>1, <3>2
  <2> QED
    BY <2>6 DEF ReadInOrder
<1> QED
  BY <1>2, <1>3, <1>4 DEF Channel!Next, Channel!channelVars

\* The users' view of it: at all times what one has read from ikcp_recv are
\* the first messages that the other's ikcp_send accepted, in that order.
THEOREM DeliveredInOrder == Spec => []ReadInOrder
<1>1. Init => ReadInOrder
  BY DEF Init, ReadInOrder
<1>2. SessionInv /\ ReadInOrder /\ [Next]_vars => ReadInOrder'
  BY ChannelNext, ReadInOrderNext DEF SessionInv
<1> QED
  BY <1>1, <1>2, InStep, PTL DEF Spec
=============================================================================
