-------------------------- MODULE TransportProofs --------------------------
(***************************************************************************)
(* No byte is lost, doubled or out of order in the client socket, in TLS   *)
(* and in the web client, whatever the pieces it moves in.                 *)
(***************************************************************************)
EXTENDS ClientSocket, Tls, WebClient, InductionLemmas, SequenceTheorems, TLAPS

-----------------------------------------------------------------------------
(* The client socket *)

\* What was asked for has arrived or is in the hands of block_send, unless that
\* has failed; what was served has been taken or can be.
SocketInv ==
    /\ \A s \in {sending, asked, arrived, coming, served, taken} : s \in Seq(Bytes)
    /\ fd \in {"none", "open", "peer_closed", "broken", "closed"}
    /\ \/ asked = arrived \o sending
       \/ /\ fd \in {"broken", "closed"} /\ returned = "error"
          /\ sending = <<>> /\ IsPrefix(arrived, asked)
    /\ served = taken \o coming
    /\ returned = "close" => fd \in {"peer_closed", "closed"} /\ coming = <<>>

LEMMA ConcatPrefix ==
    ASSUME NEW X, NEW s \in Seq(X), NEW r \in Seq(X)
    PROVE  IsPrefix(s, s \o r)
<1>1. Len(s) \in Nat /\ Len(s) <= Len(s \o r) /\ s \o r \in Seq(X)
  OBVIOUS
<1>2. SubSeq(s, 1, Len(s)) = s
  OBVIOUS
<1>3. SubSeq(s \o r, 1, Len(s)) = s
  OBVIOUS
<1> QED
  BY <1>1, <1>2, <1>3 DEF IsPrefix

\* A sequence is a part of it and the rest.
LEMMA Cut ==
    ASSUME NEW X, NEW s \in Seq(X), NEW n \in 0 .. Len(s)
    PROVE  /\ SubSeq(s, 1, n) \in Seq(X) /\ SubSeq(s, n + 1, Len(s)) \in Seq(X)
           /\ SubSeq(s, 1, n) \o SubSeq(s, n + 1, Len(s)) = s
<1>1. 1 \in 1 .. Len(s) + 1 /\ n \in 1 - 1 .. Len(s) /\ Len(s) \in n .. Len(s)
  OBVIOUS
<1>2. SubSeq(s, 1, n) \o SubSeq(s, n + 1, Len(s)) = SubSeq(s, 1, Len(s))
  BY <1>1, ConcatAdjacentSubSeq
<1>3. SubSeq(s, 1, n) \in Seq(X) /\ SubSeq(s, n + 1, Len(s)) \in Seq(X)
  OBVIOUS
<1> QED
  BY <1>2, <1>3, SubSeqFull

LEMMA SocketWhole == SocketInv => StreamsAreWhole
<1> SUFFICES ASSUME SocketInv PROVE StreamsAreWhole
  OBVIOUS
<1>1. IsPrefix(arrived, asked)
  BY ConcatPrefix DEF SocketInv
<1>2. IsPrefix(taken, served)
  BY ConcatPrefix DEF SocketInv
<1>3. returned = "close" => taken = served
  BY ConcatEmptySeq DEF SocketInv
<1> QED
  BY <1>1, <1>2, <1>3 DEF SocketInv, StreamsAreWhole

LEMMA SocketInitInv == SocketInit => SocketInv
BY DEF SocketInit, SocketInv

LEMMA SendInv ==
    ASSUME SocketInv, NEW m \in Packets, Send(m)
    PROVE  SocketInv'
<1>1. m \in Seq(Bytes)
  BY SocketAssumption
<1>2. asked = arrived
  BY ConcatEmptySeq DEF Send, SocketInv
<1> QED
  BY <1>1, <1>2, Concat DEF Send, SocketInv

LEMMA BlockSendInv ==
    ASSUME SocketInv, NEW r, BlockSend(r)
    PROVE  SocketInv'
<1>1. /\ r \in 0 .. Len(sending) /\ sending \in Seq(Bytes) /\ arrived \in Seq(Bytes)
      /\ asked = arrived \o sending
  BY DEF BlockSend, SocketInv
<1> DEFINE part == SubSeq(sending, 1, r)
           rest == SubSeq(sending, r + 1, Len(sending))
<1>2. part \in Seq(Bytes) /\ rest \in Seq(Bytes) /\ part \o rest = sending
  BY <1>1, Cut
<1>3. arrived' = arrived \o part /\ sending' = rest
  BY DEF BlockSend
<1> HIDE DEF part, rest
<1>4. (arrived \o part) \o rest = arrived \o (part \o rest) /\ arrived \o part \in Seq(Bytes)
  <2>1. arrived \in Seq(Bytes) /\ part \in Seq(Bytes) /\ rest \in Seq(Bytes)
    BY <1>1, <1>2
  <2>2. (arrived \o part) \o rest = arrived \o (part \o rest)
    BY <2>1, ConcatAssociative
  <2> QED
    BY <2>1, <2>2
<1>5. arrived' \in Seq(Bytes) /\ asked = arrived' \o sending'
  BY <1>1, <1>2, <1>3, <1>4
<1> QED
  BY <1>2, <1>3, <1>5 DEF BlockSend, SocketInv

LEMMA TakeInv ==
    ASSUME SocketInv, NEW r, NEW atMost, Take(r, atMost)
    PROVE  SocketInv'
<1>1. /\ r \in 0 .. Len(coming) /\ coming \in Seq(Bytes) /\ taken \in Seq(Bytes)
      /\ served = taken \o coming
  BY DEF Take, SocketInv
<1> DEFINE part == SubSeq(coming, 1, r)
           rest == SubSeq(coming, r + 1, Len(coming))
<1>2. part \in Seq(Bytes) /\ rest \in Seq(Bytes) /\ part \o rest = coming
  BY <1>1, Cut
<1>3. taken' = taken \o part /\ coming' = rest
  BY DEF Take
<1> HIDE DEF part, rest
<1>4. (taken \o part) \o rest = taken \o (part \o rest) /\ taken \o part \in Seq(Bytes)
  <2>1. taken \in Seq(Bytes) /\ part \in Seq(Bytes) /\ rest \in Seq(Bytes)
    BY <1>1, <1>2
  <2>2. (taken \o part) \o rest = taken \o (part \o rest)
    BY <2>1, ConcatAssociative
  <2> QED
    BY <2>1, <2>2
<1>5. taken' \in Seq(Bytes) /\ served = taken' \o coming'
  BY <1>1, <1>2, <1>3, <1>4
<1> QED
  BY <1>2, <1>3, <1>5 DEF Take, SocketInv

LEMMA ServeInv ==
    ASSUME SocketInv, NEW b \in Bytes, Serve(b)
    PROVE  SocketInv'
<1>1. /\ taken \in Seq(Bytes) /\ coming \in Seq(Bytes) /\ served = taken \o coming
      /\ returned # "close"
  BY DEF SocketInv, Serve
<1>2. Append(coming, b) \in Seq(Bytes) /\ Append(served, b) = taken \o Append(coming, b)
  <2>1. /\ <<b>> \in Seq(Bytes) /\ taken \o coming \in Seq(Bytes)
        /\ Append(coming, b) = coming \o <<b>> /\ Append(coming, b) \in Seq(Bytes)
        /\ Append(taken \o coming, b) = (taken \o coming) \o <<b>>
    BY <1>1
  <2> QED
    BY <1>1, <2>1, ConcatAssociative
<1>3. Append(served, b) \in Seq(Bytes)
  BY DEF SocketInv
<1> QED
  BY <1>1, <1>2, <1>3 DEF SocketInv, Serve

LEMMA SocketNextInv == SocketInv /\ [SocketNext]_socketVars => SocketInv'
<1> SUFFICES ASSUME SocketInv, [SocketNext]_socketVars PROVE SocketInv'
  OBVIOUS
<1>1. CASE Connect
  BY <1>1 DEF Connect, SocketInv
<1>2. ASSUME NEW m \in Packets, Send(m) PROVE SocketInv'
  BY <1>2, SendInv
<1>3. ASSUME NEW r, BlockSend(r) PROVE SocketInv'
  BY <1>3, BlockSendInv
<1>4. CASE BlockSendFails
  <2>1. IsPrefix(arrived, asked)
    BY ConcatPrefix DEF SocketInv
  <2> QED
    BY <1>4, <2>1 DEF BlockSendFails, SocketInv
<1>5. ASSUME NEW r, NEW atMost, Take(r, atMost) PROVE SocketInv'
  BY <1>5, TakeInv
<1>6. CASE RecvNothing
  BY <1>6 DEF RecvNothing, SocketInv
<1>7. ASSUME NEW b \in Bytes, Serve(b) PROVE SocketInv'
  BY <1>7, ServeInv
<1>8. CASE PeerCloses \/ Break \/ SocketClose
  BY <1>8 DEF PeerCloses, Break, SocketClose, SocketInv
<1>9. CASE UNCHANGED socketVars
  BY <1>9 DEF socketVars, SocketInv
<1> QED
  BY <1>1, <1>2, <1>3, <1>4, <1>5, <1>6, <1>7, <1>8, <1>9 DEF SocketNext

\* However the kernel cuts what is sent and received, and whenever the
\* connection breaks, the client socket loses no byte and no order.
THEOREM StreamsStayWhole == SocketSpec => []StreamsAreWhole
BY SocketWhole, SocketInitInv, SocketNextInv, PTL DEF SocketSpec

-----------------------------------------------------------------------------
(* Only *)

\* f is what Only collects of s, step by step.
Collects(f, s, S) ==
    /\ f[0] = <<>>
    /\ \A i \in 1 .. Len(s) :
          f[i] = IF s[i] \in S THEN Append(f[i - 1], s[i]) ELSE f[i - 1]

LEMMA OnlyCollects ==
    ASSUME NEW T, NEW s \in Seq(T), NEW S
    PROVE  \E f : /\ Collects(f, s, S) /\ Only(s, S) = f[Len(s)]
                  /\ \A i \in 0 .. Len(s) : f[i] \in Seq(T)
<1> DEFINE n == Len(s)
           X == Seq(T)
           Longer(y, i) == IF s[i] \in S THEN Append(y, s[i]) ELSE y
           F == [z \in X \X (1 .. n) |-> Longer(z[1], z[2])]
           only == CHOOSE f : f = [i \in 0 .. n |-> IF i = 0 THEN <<>> ELSE Longer(f[i - 1], i)]
<1>1. n \in Nat /\ <<>> \in X
  OBVIOUS
<1>2. ASSUME NEW y \in X, NEW i \in 1 .. n PROVE Longer(y, i) \in X
  BY s[i] \in T
<1>3. Only(s, S) = only[n]
  BY DEF Only
<1> HIDE DEF X, Longer
<1>4. F \in [X \X (1 .. n) -> X]
  BY <1>2
<1>5. \A y \in X, i \in 1 .. n : F[<<y, i>>] = Longer(y, i)
  OBVIOUS
<1> HIDE DEF F
<1>6. \E f \in [0 .. n -> X] :
         f = [i \in 0 .. n |-> IF i = 0 THEN <<>> ELSE Longer(f[i - 1], i)]
  <2>1. PICK f \in [0 .. n -> X] : IsRun(f, n, <<>>, F)
    BY <1>1, <1>4, LoopExists
  <2>2. ASSUME NEW i \in 0 .. n
        PROVE  f[i] = IF i = 0 THEN <<>> ELSE Longer(f[i - 1], i)
    <3>1. f[i] = IF i = 0 THEN <<>> ELSE F[<<f[i - 1], i>>]
      BY <2>1 DEF IsRun
    <3>2. i # 0 => i - 1 \in 0 .. n /\ i \in 1 .. n
      BY <1>1
    <3> QED
      BY <1>5, <3>1, <3>2
  <2> QED
    BY <2>2
<1>7. only = [i \in 0 .. n |-> IF i = 0 THEN <<>> ELSE Longer(only[i - 1], i)]
  BY <1>6
<1> HIDE DEF only
<1>8. only[0] = <<>>
  BY <1>1, <1>7
<1>9. ASSUME NEW i \in 1 .. n PROVE only[i] = Longer(only[i - 1], i)
  <2>1. i \in 0 .. n /\ i # 0
    BY <1>1
  <2> QED
    BY <1>7, <2>1
<1>10. ASSUME NEW i \in 1 .. n, only[i - 1] \in X PROVE only[i] \in X
  BY <1>2, <1>9, <1>10
<1>11. \A i \in 0 .. n : only[i] \in X
  BY <1>1, <1>8, <1>10, Loop
<1>12. Collects(only, s, S)
  BY <1>8, <1>9 DEF Collects, Longer
<1> QED
  BY <1>3, <1>11, <1>12 DEF X

\* Two runs of a loop with the same steps are the same.
LEMMA CollectsOnly ==
    ASSUME NEW T, NEW s \in Seq(T), NEW S, NEW g, Collects(g, s, S)
    PROVE  Only(s, S) = g[Len(s)]
<1>1. PICK f : Collects(f, s, S) /\ Only(s, S) = f[Len(s)]
  BY OnlyCollects
<1> DEFINE same == [i \in 0 .. Len(s) |-> IF f[i] = g[i] THEN 1 ELSE 0]
<1>0. Len(s) \in Nat /\ 0 \in 0 .. Len(s)
  OBVIOUS
<1>2. same[0] \in {1}
  BY <1>0, <1>1 DEF Collects
<1>3. ASSUME NEW i \in 1 .. Len(s), same[i - 1] \in {1} PROVE same[i] \in {1}
  <2>1. i - 1 \in 0 .. Len(s) /\ i \in 0 .. Len(s)
    BY <1>0
  <2>2. f[i - 1] = g[i - 1]
    BY <1>3, <2>1
  <2>3. f[i] = g[i]
    BY <1>1, <2>2 DEF Collects
  <2> QED
    BY <2>1, <2>3
<1> HIDE DEF same
<1>4. \A i \in 0 .. Len(s) : same[i] \in {1}
  BY <1>0, <1>2, <1>3, Loop
<1> QED
  BY <1>1, <1>4, Len(s) \in 0 .. Len(s) DEF same

LEMMA OnlyType ==
    ASSUME NEW T, NEW s \in Seq(T), NEW S
    PROVE  Only(s, S) \in Seq(T)
BY OnlyCollects, Len(s) \in 0 .. Len(s)

\* Of two sequences, one after the other.
LEMMA OnlyConcat ==
    ASSUME NEW T, NEW s \in Seq(T), NEW t \in Seq(T), NEW S
    PROVE  Only(s \o t, S) = Only(s, S) \o Only(t, S)
<1>1. PICK f : /\ Collects(f, s, S) /\ Only(s, S) = f[Len(s)]
               /\ \A i \in 0 .. Len(s) : f[i] \in Seq(T)
  BY OnlyCollects
<1>2. PICK g : /\ Collects(g, t, S) /\ Only(t, S) = g[Len(t)]
               /\ \A i \in 0 .. Len(t) : g[i] \in Seq(T)
  BY OnlyCollects
<1> DEFINE m == Len(s)
           n == Len(t)
           h == [i \in 0 .. m + n |-> IF i <= m THEN f[i] ELSE f[m] \o g[i - m]]
<1>3. /\ m \in Nat /\ n \in Nat /\ s \o t \in Seq(T) /\ Len(s \o t) = m + n
      /\ \A i \in 1 .. m : (s \o t)[i] = s[i]
      /\ \A i \in 1 .. n : (s \o t)[m + i] = t[i]
  BY Concat, ConcatAt
<1>4. f[m] \in Seq(T) /\ \A i \in 0 .. n : g[i] \in Seq(T)
  BY <1>1, <1>2, <1>3
<1> HIDE DEF m, n
<1>5. h[0] = <<>>
  BY <1>1, <1>3 DEF Collects
<1>6. ASSUME NEW i \in 1 .. m + n
      PROVE  h[i] = IF (s \o t)[i] \in S THEN Append(h[i - 1], (s \o t)[i]) ELSE h[i - 1]
  <2>1. i \in 0 .. m + n /\ i - 1 \in 0 .. m + n
    BY <1>3
  <2>2. CASE i <= m
    <3>1. h[i] = f[i] /\ h[i - 1] = f[i - 1] /\ i \in 1 .. m
      BY <1>3, <2>1, <2>2
    <3> QED
      BY <1>1, <1>3, <3>1 DEF Collects, m
  <2>3. CASE i > m
    <3> DEFINE j == i - m
    <3>1. j \in 1 .. n /\ i = m + j /\ j - 1 \in 0 .. n
      BY <1>3, <2>3
    <3>2. h[i] = f[m] \o g[j] /\ (s \o t)[i] = t[j]
      <4>1. h[i] = f[m] \o g[j]
        <5>1. m \in Nat /\ i \in Int /\ ~(i <= m)
          BY <1>3, <2>3
        <5> QED
          BY <2>1, <5>1
      <4>2. (s \o t)[m + j] = t[j]
        BY <1>3, <3>1
      <4> HIDE DEF h, j
      <4> QED
        BY <3>1, <4>1, <4>2
    <3>3. h[i - 1] = f[m] \o g[j - 1]
      <4>1. CASE j = 1
        <5>1. i - 1 = m /\ h[i - 1] = f[m] /\ g[j - 1] = <<>>
          BY <1>2, <1>3, <2>1, <3>1, <4>1 DEF Collects
        <5> QED
          BY <1>4, <5>1, ConcatEmptySeq
      <4>2. CASE j # 1
        <5>1. h[i - 1] = f[m] \o g[(i - 1) - m]
          <6>1. m \in Nat /\ i \in Int /\ ~(i - 1 <= m) /\ i - 1 \in 0 .. m + n
            BY <1>3, <2>1, <3>1, <4>2
          <6> HIDE DEF j
          <6> QED
            BY <6>1
        <5>2. (i - 1) - m = j - 1
          <6>1. m \in Int /\ i \in Int
            BY <1>3
          <6> QED
            BY <6>1
        <5> QED
          BY <5>1, <5>2
      <4> QED
        BY <4>1, <4>2
    <3> HIDE DEF j, h
    <3>4. g[j] = IF t[j] \in S THEN Append(g[j - 1], t[j]) ELSE g[j - 1]
      BY <1>2, <3>1 DEF Collects, n
    <3>5. t[j] \in T
      BY <3>1 DEF n
    <3>6. PICK a, b : a = f[m] /\ b = g[j - 1]
      OBVIOUS
    <3>7. a \in Seq(T) /\ b \in Seq(T)
      BY <1>4, <3>1, <3>6
    <3>8. a \o Append(b, t[j]) = Append(a \o b, t[j])
      <4>1. PICK x \in T : x = t[j]
        BY <3>5
      <4>2. /\ <<x>> \in Seq(T) /\ Append(b, x) = b \o <<x>> /\ a \o b \in Seq(T)
            /\ Append(a \o b, x) = (a \o b) \o <<x>>
        BY <3>7
      <4> QED
        BY <3>7, <4>1, <4>2, ConcatAssociative
    <3> QED
      BY <3>2, <3>3, <3>4, <3>6, <3>8
  <2> QED
    BY <1>3, <2>2, <2>3
<1> HIDE DEF h
<1>7. Collects(h, s \o t, S)
  BY <1>3, <1>5, <1>6 DEF Collects
<1>8. Only(s \o t, S) = h[m + n]
  BY <1>3, <1>7, CollectsOnly
<1>9. h[m + n] = f[m] \o g[n]
  <2>1. CASE n = 0
    <3>1. h[m + n] = f[m] /\ g[n] = <<>>
      BY <1>2, <1>3, <2>1 DEF Collects, h
    <3> QED
      BY <1>4, <3>1, ConcatEmptySeq
  <2>2. CASE n # 0
    <3>1. m + n \in 0 .. m + n /\ ~(m + n <= m) /\ (m + n) - m = n
      BY <1>3, <2>2
    <3> QED
      BY <3>1 DEF h
  <2> QED
    BY <2>1, <2>2
<1> QED
  BY <1>1, <1>2, <1>8, <1>9 DEF m, n

LEMMA OnlyNone ==
    ASSUME NEW T, NEW s \in Seq(T), NEW S, \A x \in T : x \notin S
    PROVE  Only(s, S) = <<>>
<1>1. PICK f : Collects(f, s, S) /\ Only(s, S) = f[Len(s)]
  BY OnlyCollects
<1>2. f[0] \in {<<>>}
  BY <1>1 DEF Collects
<1>3. ASSUME NEW i \in 1 .. Len(s), f[i - 1] \in {<<>>} PROVE f[i] \in {<<>>}
  <2>1. s[i] \in T
    OBVIOUS
  <2> QED
    BY <1>1, <1>3, <2>1 DEF Collects
<1>4. \A i \in 0 .. Len(s) : f[i] \in {<<>>}
  BY <1>2, <1>3, Loop, Len(s) \in Nat
<1> QED
  BY <1>1, <1>4, Len(s) \in 0 .. Len(s)

LEMMA OnlyEmpty == ASSUME NEW S PROVE Only(<<>>, S) = <<>>
<1>1. PICK e \in Seq({}) : e = <<>>
  BY EmptySeq
<1>2. PICK c : Collects(c, e, S) /\ Only(e, S) = c[Len(e)]
  BY OnlyCollects
<1> QED
  BY <1>1, <1>2 DEF Collects

\* A choice within a choice.
LEMMA OnlyTwice ==
    ASSUME NEW T, NEW s \in Seq(T), NEW S, NEW R, R \subseteq S
    PROVE  Only(Only(s, S), R) = Only(s, R)
<1>1. PICK f : /\ Collects(f, s, S) /\ Only(s, S) = f[Len(s)]
               /\ \A i \in 0 .. Len(s) : f[i] \in Seq(T)
  BY OnlyCollects
<1> DEFINE g == [i \in 0 .. Len(s) |-> Only(f[i], R)]
<1>2. g[0] = <<>>
  <2>2. Only(<<>>, R) = <<>>
    BY OnlyEmpty
  <2> QED
    BY <1>1, <2>2, Len(s) \in Nat DEF Collects
<1>3. ASSUME NEW i \in 1 .. Len(s)
      PROVE  g[i] = IF s[i] \in R THEN Append(g[i - 1], s[i]) ELSE g[i - 1]
  <2>1. i - 1 \in 0 .. Len(s) /\ i \in 0 .. Len(s) /\ s[i] \in T
    OBVIOUS
  <2>2. PICK x \in T : x = s[i]
    BY <2>1
  <2>3. PICK y \in Seq(T) : y = f[i - 1]
    BY <1>1, <2>1
  <2>4. f[i] = IF x \in S THEN Append(y, x) ELSE y
    BY <1>1, <2>2, <2>3 DEF Collects
  <2>5. Only(Append(y, x), R) = IF x \in R THEN Append(Only(y, R), x) ELSE Only(y, R)
    <3>1. <<x>> \in Seq(T) /\ Append(y, x) = y \o <<x>> /\ Len(<<x>>) = 1 /\ <<x>>[1] = x
      OBVIOUS
    <3>2. Only(Append(y, x), R) = Only(y, R) \o Only(<<x>>, R)
      <4>1. PICK w \in Seq(T) : w = <<x>>
        BY <3>1
      <4>2. Only(y \o w, R) = Only(y, R) \o Only(w, R)
        BY OnlyConcat
      <4> QED
        BY <3>1, <4>1, <4>2
    <3>3. Only(<<x>>, R) = IF x \in R THEN <<x>> ELSE <<>>
      <4>1. PICK w \in Seq(T) : w = <<x>>
        BY <3>1
      <4>2. PICK h : Collects(h, w, R) /\ Only(w, R) = h[Len(w)]
        BY OnlyCollects
      <4>3. /\ h[0] = <<>> /\ h[1] = IF x \in R THEN Append(h[0], x) ELSE h[0]
            /\ Only(<<x>>, R) = h[1]
        <5>1. Len(w) = 1 /\ w[1] = x /\ 1 \in 1 .. Len(w) /\ 1 - 1 = 0
          BY <3>1, <4>1
        <5>2. h[0] = <<>> /\ h[1] = IF w[1] \in R THEN Append(h[1 - 1], w[1]) ELSE h[1 - 1]
          BY <4>2, <5>1 DEF Collects
        <5> QED
          BY <4>1, <4>2, <5>1, <5>2
      <4> QED
        BY <4>3
    <3>4. Only(y, R) \in Seq(T)
      BY OnlyType
    <3>5. PICK z \in Seq(T) : z = Only(y, R)
      BY <3>4
    <3>6. z \o <<x>> = Append(z, x) /\ z \o <<>> = z
      BY ConcatEmptySeq
    <3> QED
      BY <3>2, <3>3, <3>5, <3>6
  <2> QED
    BY <2>1, <2>2, <2>3, <2>4, <2>5
<1> HIDE DEF g
<1>4. Collects(g, s, R)
  BY <1>2, <1>3 DEF Collects
<1>5. Only(s, R) = g[Len(s)]
  BY <1>4, CollectsOnly
<1> QED
  BY <1>1, <1>5, Len(s) \in 0 .. Len(s) DEF g

-----------------------------------------------------------------------------
(* TLS *)

Records == Data \union Nat

TlsTypeOK ==
    /\ flights \in Nat
    /\ in_bio \in [Endpoint -> Seq(Records)]
    /\ out_bio \in [Endpoint -> Seq(Records)]
    /\ wire \in [Endpoint -> Seq(Records)]
    /\ written \in [Endpoint -> Seq(Records)]
    /\ received \in [Endpoint -> Seq(Records)]
    /\ closed \in [Endpoint -> BOOLEAN]

TlsInv == TlsTypeOK /\ BytesInOrder

\* BytesInOrder of one end, with what is on its way taken apart.
InOrder(e) ==
    written[Other(e)] = ((received[e] \o Only(in_bio[e], Data)) \o Only(wire[e], Data))
                          \o Only(out_bio[Other(e)], Data)

LEMMA Peers ==
    ASSUME NEW e \in Endpoint
    PROVE  /\ Other(e) \in Endpoint /\ Other(e) # e /\ Other(Other(e)) = e
           /\ \A d \in Endpoint : d = e \/ d = Other(e)
BY DEF Endpoint, Other

\* s \o t, where it matters only that concatenation is associative.
Then(s, t) == s \o t

LEMMA ThenType ==
    ASSUME NEW T, NEW s \in Seq(T), NEW t \in Seq(T)
    PROVE  Then(s, t) \in Seq(T)
BY Concat DEF Then

LEMMA ThenAssociative ==
    ASSUME NEW T, NEW s \in Seq(T), NEW t \in Seq(T), NEW u \in Seq(T)
    PROVE  Then(Then(s, t), u) = Then(s, Then(t, u))
BY ConcatAssociative DEF Then

LEMMA OnlyThen ==
    ASSUME NEW T, NEW s \in Seq(T), NEW t \in Seq(T), NEW S
    PROVE  Only(Then(s, t), S) = Then(Only(s, S), Only(t, S))
BY OnlyConcat DEF Then

LEMMA FourThen ==
    ASSUME NEW T, NEW r \in Seq(T), NEW a \in Seq(T), NEW b \in Seq(T), NEW c \in Seq(T)
    PROVE  Then(r, Then(Then(a, b), c)) = Then(Then(Then(r, a), b), c)
BY ThenType, ThenAssociative

LEMMA ThreeParts ==
    ASSUME NEW T, NEW r \in Seq(T), NEW a \in Seq(T), NEW b \in Seq(T), NEW c \in Seq(T),
           NEW S
    PROVE  Then(r, Only(Then(Then(a, b), c), S))
             = Then(Then(Then(r, Only(a, S)), Only(b, S)), Only(c, S))
<1>1. Only(Then(Then(a, b), c), S) = Then(Then(Only(a, S), Only(b, S)), Only(c, S))
  BY ThenType, OnlyThen
<1>2. Only(a, S) \in Seq(T) /\ Only(b, S) \in Seq(T) /\ Only(c, S) \in Seq(T)
  BY OnlyType
<1> QED
  BY <1>1, <1>2, FourThen

AllInOrder == \A e \in Endpoint : ~(closed[e] \/ closed[Other(e)]) => InOrder(e)

LEMMA OrderApart == TlsTypeOK => (BytesInOrder <=> AllInOrder)
<1> SUFFICES ASSUME TlsTypeOK PROVE BytesInOrder <=> AllInOrder
  OBVIOUS
<1>1. ASSUME NEW e \in Endpoint
      PROVE  InOrder(e) <=>
               written[Other(e)] =
                 received[e] \o Only(in_bio[e] \o wire[e] \o out_bio[Other(e)], Data)
  <2>1. Other(e) \in Endpoint
    BY Peers
  <2>2. PICK r \in Seq(Records), a \in Seq(Records), b \in Seq(Records), c \in Seq(Records) :
           r = received[e] /\ a = in_bio[e] /\ b = wire[e] /\ c = out_bio[Other(e)]
    BY <2>1 DEF TlsTypeOK
  <2>2a. r \in Seq(Records) /\ a \in Seq(Records) /\ b \in Seq(Records) /\ c \in Seq(Records)
    BY <2>2
  <2>3. Then(r, Only(Then(Then(a, b), c), Data))
          = Then(Then(Then(r, Only(a, Data)), Only(b, Data)), Only(c, Data))
    BY <2>2a, ThreeParts
  <2> QED
    BY <2>2, <2>3 DEF InOrder, Then
<1> QED
  BY <1>1 DEF BytesInOrder, AllInOrder

\* A step of end e hands what has come on to its caller, or leaves it on its
\* way; what it gives to the other end, in out_bio or on the wire, grows by
\* what its caller writes.
LEMMA Kept ==
    ASSUME TlsInv, TlsTypeOK', NEW e \in Endpoint, NEW d \in Seq(Records),
           UNCHANGED closed, ~closed[e],
           written'[e] = written[e] \o d, written'[Other(e)] = written[Other(e)],
           received'[Other(e)] = received[Other(e)], in_bio'[Other(e)] = in_bio[Other(e)],
           out_bio'[Other(e)] = out_bio[Other(e)],
           Then(received'[e], Then(Only(in_bio'[e], Data), Only(wire'[e], Data)))
              = Then(received[e], Then(Only(in_bio[e], Data), Only(wire[e], Data))),
           Then(Only(wire'[Other(e)], Data), Only(out_bio'[e], Data))
              = Then(Then(Only(wire[Other(e)], Data), Only(out_bio[e], Data)), d)
    PROVE  TlsInv'
<1> DEFINE p == Other(e)
<1>1. p \in Endpoint /\ p # e /\ Other(p) = e /\ \A x \in Endpoint : x = e \/ x = p
  BY Peers
<1>2. \A x \in Endpoint : ~(closed[x] \/ closed[Other(x)]) => InOrder(x)
  BY OrderApart DEF TlsInv, AllInOrder
<1>3. written'[p] = written[p] /\ written'[e] = written[e] \o d
  BY <1>1 DEF TlsInv, TlsTypeOK
<1>4. CASE closed[p]
  <2>1. \A x \in Endpoint : closed'[x] \/ closed'[Other(x)]
    BY <1>1, <1>4
  <2> QED
    BY <2>1 DEF TlsInv, BytesInOrder
<1>5. CASE ~closed[p]
  <2>1. InOrder(e) /\ InOrder(p)
    BY <1>1, <1>2, <1>5
  <2>2. InOrder(e)'
    <3>1. /\ received[e] \in Seq(Records) /\ received'[e] \in Seq(Records)
          /\ Only(in_bio[e], Data) \in Seq(Records) /\ Only(in_bio'[e], Data) \in Seq(Records)
          /\ Only(wire[e], Data) \in Seq(Records) /\ Only(wire'[e], Data) \in Seq(Records)
      BY OnlyType DEF TlsInv, TlsTypeOK
    <3>2. Then(Then(received[e], Only(in_bio[e], Data)), Only(wire[e], Data))
            = Then(received[e], Then(Only(in_bio[e], Data), Only(wire[e], Data)))
      BY <3>1, ThenAssociative
    <3>3. Then(Then(received'[e], Only(in_bio'[e], Data)), Only(wire'[e], Data))
            = Then(received'[e], Then(Only(in_bio'[e], Data), Only(wire'[e], Data)))
      BY <3>1, ThenAssociative
    <3> QED
      BY <1>1, <1>3, <2>1, <3>2, <3>3 DEF InOrder, Then
  <2>3. InOrder(p)'
    <3>1. PICK r \in Seq(Records), a \in Seq(Records) :
             r = received[p] /\ a = Only(in_bio[p], Data)
      BY <1>1, OnlyType DEF TlsInv, TlsTypeOK
    <3>2. PICK b \in Seq(Records), c \in Seq(Records) :
             b = Only(wire[p], Data) /\ c = Only(out_bio[e], Data)
      BY <1>1, OnlyType DEF TlsInv, TlsTypeOK
    <3>3. PICK b1 \in Seq(Records), c1 \in Seq(Records) :
             b1 = Only(wire'[p], Data) /\ c1 = Only(out_bio'[e], Data)
      BY <1>1, OnlyType DEF TlsTypeOK
    <3>0. /\ r \in Seq(Records) /\ a \in Seq(Records) /\ b \in Seq(Records)
          /\ c \in Seq(Records) /\ b1 \in Seq(Records) /\ c1 \in Seq(Records)
      BY <3>1, <3>2, <3>3
    <3>4. written[e] = ((r \o a) \o b) \o c
      BY <1>1, <2>1, <3>1, <3>2 DEF InOrder
    <3>5. Then(b1, c1) = Then(Then(b, c), d)
      BY <3>2, <3>3
    <3>6. r = received'[p] /\ a = Only(in_bio'[p], Data)
      BY <1>1, <3>1
    <3>7. (((r \o a) \o b) \o c) \o d = ((r \o a) \o b1) \o c1
      <4>2. Then(Then(Then(Then(r, a), b), c), d) = Then(Then(Then(r, a), b1), c1)
        <5>1. PICK s \in Seq(Records) : s = Then(r, a)
          BY <3>0, ThenType
        <5>2. s \in Seq(Records)
          BY <5>1
        <5>3. Then(s, Then(b1, c1)) = Then(Then(s, b1), c1)
          BY <3>0, <5>2, ThenAssociative
        <5>4. Then(s, Then(Then(b, c), d)) = Then(Then(Then(s, b), c), d)
          BY <3>0, <5>2, FourThen
        <5> QED
          BY <3>5, <5>1, <5>3, <5>4, Zenon
      <4> QED
        BY <4>2 DEF Then
    <3> QED
      BY <1>1, <1>3, <3>3, <3>4, <3>6, <3>7 DEF InOrder
  <2>4. \A x \in Endpoint : InOrder(x)'
    BY <1>1, <2>2, <2>3
  <2>5. AllInOrder'
    BY <1>1, <2>4 DEF AllInOrder
  <2>6. TlsTypeOK'
    OBVIOUS
  <2>7. BytesInOrder'
    BY <2>5, <2>6, OrderApart, PTL
  <2> QED
    BY <2>6, <2>7 DEF TlsInv
<1> QED
  BY <1>4, <1>5

\* What the caller hands over is on its way no more.
LEMMA Moves ==
    ASSUME TlsTypeOK, NEW e \in Endpoint, NEW n \in 0 .. Len(wire[e])
    PROVE  /\ Arrived(e, n) \in Seq(Records) /\ Rest(e, n) \in Seq(Records)
           /\ Then(Only(Arrived(e, n), Data), Only(Rest(e, n), Data))
                = Then(Only(in_bio[e], Data), Only(wire[e], Data))
<1>1. PICK w : w = wire[e]
  OBVIOUS
<1>2. PICK i : i = in_bio[e]
  OBVIOUS
<1>3. w \in Seq(Records) /\ i \in Seq(Records)
  BY <1>1, <1>2 DEF TlsTypeOK
<1>4. PICK u : u = SubSeq(w, 1, n)
  OBVIOUS
<1>5. PICK v : v = SubSeq(w, n + 1, Len(w))
  OBVIOUS
<1>6. u \in Seq(Records) /\ v \in Seq(Records) /\ Then(u, v) = w
  BY <1>1, <1>3, <1>4, <1>5, Cut DEF Then
<1>7. Arrived(e, n) = Then(i, u) /\ Rest(e, n) = v
  BY <1>1, <1>2, <1>4, <1>5 DEF Arrived, Rest, Then
<1>8. Only(Then(i, u), Data) = Then(Only(i, Data), Only(u, Data))
  BY <1>3, <1>6, OnlyThen
<1>9. Only(Then(u, v), Data) = Then(Only(u, Data), Only(v, Data))
  BY <1>6, OnlyThen
<1>10. /\ Only(i, Data) \in Seq(Records) /\ Only(u, Data) \in Seq(Records)
       /\ Only(v, Data) \in Seq(Records)
  BY <1>3, <1>6, OnlyType
<1>11. Then(Then(Only(i, Data), Only(u, Data)), Only(v, Data))
         = Then(Only(i, Data), Then(Only(u, Data), Only(v, Data)))
  BY <1>10, ThenAssociative
<1>12. Then(i, u) \in Seq(Records)
  BY <1>3, <1>6, ThenType
<1> QED
  BY <1>1, <1>2, <1>6, <1>7, <1>8, <1>9, <1>11, <1>12

LEMMA UnreadData ==
    ASSUME TlsTypeOK, NEW e \in Endpoint, NEW in \in Seq(Records)
    PROVE  /\ Unread(e, in) \in Seq(Records)
           /\ Only(Unread(e, in), Data) = Only(in, Data)
           /\ Reaches(e, in) = flights => Unread(e, in) = Only(in, Data)
<1> DEFINE S == Data \union (Reaches(e, in) + 1 .. flights)
<1>1. Unread(e, in) = Only(in, S) /\ Data \subseteq S
  BY DEF Unread
<1>2. Reaches(e, in) = flights => S = Data
  BY DEF TlsTypeOK
<1> HIDE DEF S
<1>3. Only(in, S) \in Seq(Records)
  BY OnlyType
<1>4. Only(Only(in, S), Data) = Only(in, Data)
  BY <1>1, OnlyTwice
<1> QED
  BY <1>1, <1>2, <1>3, <1>4

LEMMA AnswersData ==
    ASSUME TlsTypeOK, NEW e \in Endpoint, NEW in
    PROVE  Answers(e, in) \in Seq(Records) /\ Only(Answers(e, in), Data) = <<>>
<1> DEFINE S == {i \in seen[e] + 1 .. Reaches(e, in) : Sender(i) = e}
           all == [i \in 1 .. flights |-> i]
<1>1. Answers(e, in) = Only(all, S)
  BY DEF Answers
<1>2. all \in Seq(Nat)
  BY DEF TlsTypeOK
<1> HIDE DEF S, all
<1>3. Only(all, S) \in Seq(Nat)
  BY <1>2, OnlyType
<1>4. PICK x : x = Only(all, S)
  OBVIOUS
<1>5. \A k \in Nat : k \notin Data
  BY TlsAssumption
<1>6. Only(x, Data) = <<>>
  BY <1>3, <1>4, <1>5, OnlyNone
<1>7. Nat \subseteq Records
  BY DEF Records
<1>8. x \in Seq(Records)
  BY <1>3, <1>4, <1>7, SeqMonotonic
<1> QED
  BY <1>1, <1>4, <1>6, <1>8

\* What is added to out_bio holds no data.
LEMMA AddAnswers ==
    ASSUME TlsTypeOK, NEW e \in Endpoint, NEW in
    PROVE  /\ out_bio[e] \o Answers(e, in) \in Seq(Records)
           /\ Only(out_bio[e] \o Answers(e, in), Data) = Only(out_bio[e], Data)
<1>1. PICK o : o = out_bio[e]
  OBVIOUS
<1>2. PICK a : a = Answers(e, in)
  OBVIOUS
<1>3. o \in Seq(Records) /\ a \in Seq(Records) /\ Only(a, Data) = <<>>
  BY <1>1, <1>2, AnswersData DEF TlsTypeOK
<1>4. Only(Then(o, a), Data) = Then(Only(o, Data), Only(a, Data))
  BY <1>3, OnlyThen
<1>5. Only(o, Data) \in Seq(Records)
  BY <1>3, OnlyType
<1>6. Only(o, Data) \o <<>> = Only(o, Data)
  BY <1>5, ConcatEmptySeq
<1>7. Then(o, a) \in Seq(Records)
  BY <1>3, ThenType
<1> QED
  BY <1>1, <1>2, <1>3, <1>4, <1>6, <1>7 DEF Then

LEMMA DataOfData ==
    ASSUME NEW s \in Seq(Data)
    PROVE  s \in Seq(Records) /\ Only(s, Data) = s
<1>1. PICK f : /\ Collects(f, s, Data) /\ Only(s, Data) = f[Len(s)]
  BY OnlyCollects
<1> DEFINE same == [i \in 0 .. Len(s) |-> IF f[i] = SubSeq(s, 1, i) THEN 1 ELSE 0]
<1>2. Len(s) \in Nat /\ 0 \in 0 .. Len(s) /\ Len(s) \in 0 .. Len(s)
  OBVIOUS
<1>3. same[0] \in {1}
  <2>1. SubSeq(s, 1, 0) = <<>>
    OBVIOUS
  <2> QED
    BY <1>1, <1>2, <2>1 DEF Collects
<1>4. ASSUME NEW i \in 1 .. Len(s), same[i - 1] \in {1} PROVE same[i] \in {1}
  <2>1. i - 1 \in 0 .. Len(s) /\ i \in 0 .. Len(s) /\ s[i] \in Data
    BY <1>2
  <2>2. f[i - 1] = SubSeq(s, 1, i - 1)
    BY <1>4, <2>1
  <2>3. f[i] = Append(SubSeq(s, 1, i - 1), s[i])
    BY <1>1, <2>1, <2>2 DEF Collects
  <2>4. Append(SubSeq(s, 1, i - 1), s[i]) = SubSeq(s, 1, i)
    OBVIOUS
  <2> QED
    BY <2>1, <2>3, <2>4
<1> HIDE DEF same
<1>5. \A i \in 0 .. Len(s) : same[i] \in {1}
  BY <1>2, <1>3, <1>4, Loop
<1>6. f[Len(s)] = SubSeq(s, 1, Len(s))
  BY <1>2, <1>5 DEF same
<1>7. SubSeq(s, 1, Len(s)) = s
  BY SubSeqFull
<1>8. Data \subseteq Records
  BY DEF Records
<1> QED
  BY <1>1, <1>6, <1>7, <1>8, SeqMonotonic

LEMMA KeptQuiet ==
    ASSUME TlsInv, TlsTypeOK', NEW e \in Endpoint, UNCHANGED <<closed, written>>, ~closed[e],
           received'[Other(e)] = received[Other(e)], in_bio'[Other(e)] = in_bio[Other(e)],
           out_bio'[Other(e)] = out_bio[Other(e)],
           Then(received'[e], Then(Only(in_bio'[e], Data), Only(wire'[e], Data)))
              = Then(received[e], Then(Only(in_bio[e], Data), Only(wire[e], Data))),
           Then(Only(wire'[Other(e)], Data), Only(out_bio'[e], Data))
              = Then(Only(wire[Other(e)], Data), Only(out_bio[e], Data))
    PROVE  TlsInv'
<1>1. Other(e) \in Endpoint
  BY Peers
<1>2. written[e] \in Seq(Records) /\ <<>> \in Seq(Records)
  BY DEF TlsInv, TlsTypeOK
<1>3. written[e] \o <<>> = written[e]
  BY <1>2, ConcatEmptySeq
<1>4. Only(wire[Other(e)], Data) \in Seq(Records) /\ Only(out_bio[e], Data) \in Seq(Records)
  BY <1>1, OnlyType DEF TlsInv, TlsTypeOK
<1>5. Then(Only(wire[Other(e)], Data), Only(out_bio[e], Data)) \in Seq(Records)
  BY <1>4, ThenType
<1>6. Then(Then(Only(wire[Other(e)], Data), Only(out_bio[e], Data)), <<>>)
        = Then(Only(wire[Other(e)], Data), Only(out_bio[e], Data))
  BY <1>5, ConcatEmptySeq DEF Then
<1> QED
  BY <1>2, <1>3, <1>6, Kept

LEMMA HandshakeInv ==
    ASSUME TlsInv, NEW e \in Endpoint, NEW n \in 0 .. Len(wire[e]), Handshake(e, n)
    PROVE  TlsInv'
<1> DEFINE p == Other(e)
<1>1. PICK in, out, over :
         in = Arrived(e, n) /\ out = out_bio[e] \o Answers(e, in) /\ over = (Reaches(e, in) = flights)
  OBVIOUS
<1>2. /\ ~closed[e]
      /\ in_bio' = [in_bio EXCEPT ![e] = Unread(e, in)]
      /\ out_bio' = [out_bio EXCEPT ![e] = IF over THEN out ELSE <<>>]
      /\ wire' = [wire EXCEPT ![e] = Rest(e, n), ![p] = IF over THEN @ ELSE @ \o out]
      /\ UNCHANGED <<flights, closed, written, received>>
  BY <1>1 DEF Handshake
<1>3. TlsTypeOK /\ p \in Endpoint /\ p # e
  BY Peers DEF TlsInv
<1>4. /\ in \in Seq(Records) /\ Rest(e, n) \in Seq(Records)
      /\ Then(Only(in, Data), Only(Rest(e, n), Data))
           = Then(Only(in_bio[e], Data), Only(wire[e], Data))
  BY <1>1, <1>3, Moves
<1>5. Unread(e, in) \in Seq(Records) /\ Only(Unread(e, in), Data) = Only(in, Data)
  BY <1>3, <1>4, UnreadData
<1>6. out \in Seq(Records) /\ Only(out, Data) = Only(out_bio[e], Data)
  BY <1>1, <1>3, AddAnswers
<1>7. /\ wire[p] \in Seq(Records) /\ wire[e] \in Seq(Records) /\ out_bio[e] \in Seq(Records)
      /\ in_bio[e] \in Seq(Records) /\ received[e] \in Seq(Records)
      /\ written[e] \in Seq(Records)
  BY <1>3 DEF TlsTypeOK
<1>8. /\ in_bio'[e] = Unread(e, in) /\ in_bio'[p] = in_bio[p]
      /\ out_bio'[e] = (IF over THEN out ELSE <<>>) /\ out_bio'[p] = out_bio[p]
      /\ wire'[e] = Rest(e, n) /\ wire'[p] = (IF over THEN wire[p] ELSE wire[p] \o out)
  BY <1>2, <1>3 DEF TlsTypeOK
<1>9. wire[p] \o out \in Seq(Records) /\ <<>> \in Seq(Records)
  BY <1>6, <1>7, Concat
<1>10. TlsTypeOK'
  BY <1>2, <1>3, <1>4, <1>5, <1>6, <1>7, <1>9 DEF TlsTypeOK
<1>11. Then(Only(wire'[p], Data), Only(out_bio'[e], Data))
         = Then(Only(wire[p], Data), Only(out_bio[e], Data))
  <2>1. CASE over
    BY <1>6, <1>8, <2>1
  <2>2. CASE ~over
    <3>1. Only(Then(wire[p], out), Data) = Then(Only(wire[p], Data), Only(out, Data))
      BY <1>6, <1>7, OnlyThen
    <3>2. Then(wire[p], out) \in Seq(Records)
      BY <1>6, <1>7, ThenType
    <3>3. Only(Then(wire[p], out), Data) \in Seq(Records)
      BY <3>2, OnlyType
    <3>4. Only(<<>>, Data) = <<>>
      BY OnlyEmpty
    <3>5. Then(Only(Then(wire[p], out), Data), <<>>) = Only(Then(wire[p], out), Data)
      BY <3>3, ConcatEmptySeq DEF Then
    <3>6. wire'[p] = Then(wire[p], out) /\ out_bio'[e] = <<>>
      BY <1>8, <2>2 DEF Then
    <3> QED
      BY <1>6, <3>1, <3>4, <3>5, <3>6
  <2> QED
    BY <2>1, <2>2
<1>12. Then(received'[e], Then(Only(in_bio'[e], Data), Only(wire'[e], Data)))
         = Then(received[e], Then(Only(in_bio[e], Data), Only(wire[e], Data)))
  BY <1>2, <1>4, <1>5, <1>8
<1> QED
  BY <1>2, <1>8, <1>10, <1>11, <1>12, KeptQuiet

LEMMA TlsReadInv ==
    ASSUME TlsInv, NEW e \in Endpoint, NEW n \in 0 .. Len(wire[e]), TlsRead(e, n)
    PROVE  TlsInv'
<1> DEFINE p == Other(e)
<1>1. PICK in, over : in = Arrived(e, n) /\ over = (Reaches(e, in) = flights)
  OBVIOUS
<1>2. /\ ~closed[e]
      /\ in_bio' = [in_bio EXCEPT ![e] = IF over THEN <<>> ELSE Unread(e, in)]
      /\ out_bio' = [out_bio EXCEPT ![e] = @ \o Answers(e, in)]
      /\ wire' = [wire EXCEPT ![e] = Rest(e, n)]
      /\ received' = [received EXCEPT ![e] = IF over THEN @ \o Unread(e, in) ELSE @]
      /\ UNCHANGED <<flights, closed, written>>
  BY <1>1 DEF TlsRead
<1>3. TlsTypeOK /\ p \in Endpoint /\ p # e
  BY Peers DEF TlsInv
<1>4. /\ in \in Seq(Records) /\ Rest(e, n) \in Seq(Records)
      /\ Then(Only(in, Data), Only(Rest(e, n), Data))
           = Then(Only(in_bio[e], Data), Only(wire[e], Data))
  BY <1>1, <1>3, Moves
<1>5. /\ Unread(e, in) \in Seq(Records) /\ Only(Unread(e, in), Data) = Only(in, Data)
      /\ over => Unread(e, in) = Only(in, Data)
  BY <1>1, <1>3, <1>4, UnreadData
<1>6. PICK out : out = out_bio[e] \o Answers(e, in)
  OBVIOUS
<1>7. out \in Seq(Records) /\ Only(out, Data) = Only(out_bio[e], Data)
  BY <1>3, <1>6, AddAnswers
<1>8. received[e] \in Seq(Records) /\ received[e] \o Unread(e, in) \in Seq(Records)
  BY <1>3, <1>5, Concat DEF TlsTypeOK
<1>9. /\ in_bio'[e] = (IF over THEN <<>> ELSE Unread(e, in)) /\ in_bio'[p] = in_bio[p]
      /\ out_bio'[e] = out /\ out_bio'[p] = out_bio[p]
      /\ wire'[e] = Rest(e, n) /\ wire'[p] = wire[p]
      /\ received'[e] = (IF over THEN received[e] \o Unread(e, in) ELSE received[e])
      /\ received'[p] = received[p]
  BY <1>2, <1>3, <1>6 DEF TlsTypeOK
<1>10. <<>> \in Seq(Records)
  OBVIOUS
<1>11. TlsTypeOK'
  BY <1>2, <1>3, <1>4, <1>5, <1>6, <1>7, <1>8, <1>10 DEF TlsTypeOK
<1>12. Then(received'[e], Then(Only(in_bio'[e], Data), Only(wire'[e], Data)))
         = Then(received[e], Then(Only(in_bio[e], Data), Only(wire[e], Data)))
  <2>1. CASE ~over
    BY <1>4, <1>5, <1>9, <2>1
  <2>2. CASE over
    <3>1. PICK x : x = Only(in, Data)
      OBVIOUS
    <3>2. PICK w : w = Only(Rest(e, n), Data)
      OBVIOUS
    <3>3. x \in Seq(Records) /\ w \in Seq(Records)
      BY <1>4, <3>1, <3>2, OnlyType
    <3>4. received'[e] = Then(received[e], x) /\ in_bio'[e] = <<>>
      BY <1>5, <1>9, <2>2, <3>1 DEF Then
    <3>5. Then(<<>>, w) = w
      BY <3>3, ConcatEmptySeq DEF Then
    <3>6. Then(Then(received[e], x), w) = Then(received[e], Then(x, w))
      BY <1>8, <3>3, ThenAssociative
    <3>7. Only(<<>>, Data) = <<>>
      BY OnlyEmpty
    <3> QED
      BY <1>4, <1>9, <3>1, <3>2, <3>4, <3>5, <3>6, <3>7
  <2> QED
    BY <2>1, <2>2
<1>13. Then(Only(wire'[p], Data), Only(out_bio'[e], Data))
         = Then(Only(wire[p], Data), Only(out_bio[e], Data))
  BY <1>7, <1>9
<1> QED
  BY <1>2, <1>9, <1>11, <1>12, <1>13, KeptQuiet

LEMMA TlsWriteInv ==
    ASSUME TlsInv, NEW e \in Endpoint, NEW data \in Seq(Data), TlsWrite(e, data)
    PROVE  TlsInv'
<1> DEFINE p == Other(e)
<1>1. PICK goesOn, in : goesOn = (data # <<>> /\ ~Finished(e)) /\ in = in_bio[e]
  OBVIOUS
<1>2. PICK out : out = out_bio[e] \o (IF goesOn THEN Answers(e, in) ELSE <<>>)
  OBVIOUS
<1>3. PICK fails : fails = (goesOn /\ Reaches(e, in) < flights)
  OBVIOUS
<1>4. /\ ~closed[e]
      /\ in_bio' = [in_bio EXCEPT ![e] = Unread(e, in)] \/ in_bio' = in_bio
      /\ \/ /\ fails
            /\ out_bio' = [out_bio EXCEPT ![e] = out]
            /\ UNCHANGED <<wire, written>>
         \/ /\ ~fails
            /\ out_bio' = [out_bio EXCEPT ![e] = <<>>]
            /\ wire' = [wire EXCEPT ![p] = @ \o out \o data]
            /\ written' = [written EXCEPT ![e] = @ \o data]
      /\ UNCHANGED <<flights, closed, received>>
  BY <1>1, <1>2, <1>3 DEF TlsWrite
<1>5. TlsTypeOK /\ p \in Endpoint /\ p # e
  BY Peers DEF TlsInv
<1>6. in \in Seq(Records)
  BY <1>1, <1>5 DEF TlsTypeOK
<1>7. Unread(e, in) \in Seq(Records) /\ Only(Unread(e, in), Data) = Only(in, Data)
  BY <1>5, <1>6, UnreadData
<1>8. out \in Seq(Records) /\ Only(out, Data) = Only(out_bio[e], Data)
  <2>1. CASE goesOn
    BY <1>2, <1>5, <2>1, AddAnswers
  <2>2. CASE ~goesOn
    <3>1. PICK o : o = out_bio[e]
      OBVIOUS
    <3>2. o \in Seq(Records) /\ out = o \o <<>>
      BY <1>2, <1>5, <2>2, <3>1 DEF TlsTypeOK
    <3>3. o \o <<>> = o
      BY <3>2, ConcatEmptySeq
    <3> QED
      BY <3>1, <3>2, <3>3
  <2> QED
    BY <2>1, <2>2
<1>9. /\ in_bio'[p] = in_bio[p] /\ in_bio'[e] \in Seq(Records)
      /\ in_bio' \in [Endpoint -> Seq(Records)]
      /\ Only(in_bio'[e], Data) = Only(in_bio[e], Data)
  BY <1>1, <1>4, <1>5, <1>6, <1>7 DEF TlsTypeOK
<1>10. data \in Seq(Records) /\ Only(data, Data) = data /\ <<>> \in Seq(Records)
  BY DataOfData
<1>11. /\ wire[p] \in Seq(Records) /\ written[e] \in Seq(Records)
       /\ out_bio[e] \in Seq(Records)
  BY <1>5 DEF TlsTypeOK
<1>12. CASE fails
  <2>1. /\ out_bio'[e] = out /\ out_bio'[p] = out_bio[p]
        /\ UNCHANGED <<wire, written, closed, received, flights>>
        /\ out_bio' \in [Endpoint -> Seq(Records)]
    BY <1>4, <1>5, <1>8, <1>12 DEF TlsTypeOK
  <2>2. TlsTypeOK'
    BY <1>5, <1>9, <2>1 DEF TlsTypeOK
  <2>3. Then(received'[e], Then(Only(in_bio'[e], Data), Only(wire'[e], Data)))
          = Then(received[e], Then(Only(in_bio[e], Data), Only(wire[e], Data)))
    BY <1>9, <2>1
  <2>4. Then(Only(wire'[p], Data), Only(out_bio'[e], Data))
          = Then(Only(wire[p], Data), Only(out_bio[e], Data))
    BY <1>8, <2>1
  <2> QED
    BY <1>4, <1>9, <2>1, <2>2, <2>3, <2>4, KeptQuiet
<1>13. CASE ~fails
  <2>1. Then(wire[p], out) \in Seq(Records)
    BY <1>8, <1>11, ThenType
  <2>2. Then(Then(wire[p], out), data) \in Seq(Records)
    BY <1>10, <2>1, ThenType
  <2>3. Then(written[e], data) \in Seq(Records)
    BY <1>10, <1>11, ThenType
  <2>4. /\ out_bio' = [out_bio EXCEPT ![e] = <<>>]
        /\ wire' = [wire EXCEPT ![p] = Then(Then(wire[p], out), data)]
        /\ written' = [written EXCEPT ![e] = Then(written[e], data)]
        /\ UNCHANGED <<flights, closed, received>>
    BY <1>4, <1>5, <1>13 DEF Then, TlsTypeOK
  <2>5. /\ out_bio'[e] = <<>> /\ out_bio'[p] = out_bio[p]
        /\ wire'[e] = wire[e] /\ wire'[p] = Then(Then(wire[p], out), data)
        /\ written'[e] = Then(written[e], data) /\ written'[p] = written[p]
        /\ received' = received
    BY <1>5, <2>4 DEF TlsTypeOK
  <2>6. TlsTypeOK'
    BY <1>5, <1>9, <1>10, <2>2, <2>3, <2>4 DEF TlsTypeOK
  <2>7. Then(received'[e], Then(Only(in_bio'[e], Data), Only(wire'[e], Data)))
          = Then(received[e], Then(Only(in_bio[e], Data), Only(wire[e], Data)))
    BY <1>9, <2>5
  <2>8. Only(Then(Then(wire[p], out), data), Data)
          = Then(Then(Only(wire[p], Data), Only(out_bio[e], Data)), data)
    <3>1. Only(Then(Then(wire[p], out), data), Data)
            = Then(Only(Then(wire[p], out), Data), Only(data, Data))
      BY <1>10, <2>1, OnlyThen
    <3>2. Only(Then(wire[p], out), Data) = Then(Only(wire[p], Data), Only(out, Data))
      BY <1>8, <1>11, OnlyThen
    <3> QED
      BY <1>8, <1>10, <3>1, <3>2
  <2>9. Then(Only(wire'[p], Data), Only(out_bio'[e], Data))
          = Then(Then(Only(wire[p], Data), Only(out_bio[e], Data)), data)
    <3>1. PICK x : x = Only(Then(Then(wire[p], out), data), Data)
      OBVIOUS
    <3>2. x \in Seq(Records)
      BY <2>2, <3>1, OnlyType
    <3>3. Then(x, <<>>) = x
      BY <3>2, ConcatEmptySeq DEF Then
    <3>4. Only(<<>>, Data) = <<>>
      BY OnlyEmpty
    <3> QED
      BY <2>5, <2>8, <3>1, <3>3, <3>4
  <2>10. written'[e] = written[e] \o data
    BY <2>5 DEF Then
  <2> QED
    BY <1>4, <1>9, <1>10, <2>5, <2>6, <2>7, <2>9, <2>10, Kept
<1> QED
  BY <1>12, <1>13

LEMMA TlsCloseInv ==
    ASSUME TlsInv, NEW e \in Endpoint, TlsClose(e)
    PROVE  TlsInv'
<1>1. /\ closed' = [closed EXCEPT ![e] = TRUE]
      /\ in_bio' = [in_bio EXCEPT ![e] = <<>>]
      /\ out_bio' = [out_bio EXCEPT ![e] = <<>>]
      /\ UNCHANGED <<flights, seen, wire, written, received>>
  BY DEF TlsClose
<1>2. TlsTypeOK /\ <<>> \in Seq(Records)
  BY DEF TlsInv
<1>3. TlsTypeOK'
  BY <1>1, <1>2 DEF TlsTypeOK
<1>4. \A x \in Endpoint : closed'[x] \/ closed'[Other(x)]
  BY <1>1, <1>2, Peers DEF TlsTypeOK
<1>5. BytesInOrder'
  BY <1>4 DEF BytesInOrder
<1> QED
  BY <1>3, <1>5 DEF TlsInv

LEMMA TlsInitInv == TlsInit => TlsInv
<1> SUFFICES ASSUME TlsInit PROVE TlsInv
  OBVIOUS
<1>1. TlsTypeOK
  <2>1. <<>> \in Seq(Records)
    OBVIOUS
  <2> QED
    BY <2>1, TlsAssumption DEF TlsInit, TlsTypeOK
<1>2. ASSUME NEW e \in Endpoint PROVE InOrder(e)
  <2>1. Other(e) \in Endpoint
    BY Peers
  <2>2. /\ written[Other(e)] = <<>> /\ received[e] = <<>> /\ in_bio[e] = <<>>
        /\ wire[e] = <<>> /\ out_bio[Other(e)] = <<>>
    BY <2>1 DEF TlsInit
  <2>3. Only(<<>>, Data) = <<>>
    BY OnlyEmpty
  <2> QED
    BY <2>2, <2>3 DEF InOrder
<1> QED
  BY <1>1, <1>2, OrderApart DEF TlsInv, AllInOrder

LEMMA TlsNextInv == TlsInv /\ [TlsNext]_tlsVars => TlsInv'
<1> SUFFICES ASSUME TlsInv, [TlsNext]_tlsVars PROVE TlsInv'
  OBVIOUS
<1>1. ASSUME NEW e \in Endpoint, NEW n \in 0 .. Len(wire[e]), Handshake(e, n)
      PROVE  TlsInv'
  BY <1>1, HandshakeInv
<1>2. ASSUME NEW e \in Endpoint, NEW n \in 0 .. Len(wire[e]), TlsRead(e, n)
      PROVE  TlsInv'
  BY <1>2, TlsReadInv
<1>3. ASSUME NEW e \in Endpoint, NEW d \in Data, TlsWrite(e, <<d>>) PROVE TlsInv'
  <2>1. <<d>> \in Seq(Data)
    OBVIOUS
  <2> QED
    BY <1>3, <2>1, TlsWriteInv
<1>4. ASSUME NEW e \in Endpoint, TlsWrite(e, <<>>) PROVE TlsInv'
  <2>1. <<>> \in Seq(Data)
    OBVIOUS
  <2> QED
    BY <1>4, <2>1, TlsWriteInv
<1>5. ASSUME NEW e \in Endpoint, TlsClose(e) PROVE TlsInv'
  BY <1>5, TlsCloseInv
<1>6. CASE UNCHANGED tlsVars
  BY <1>6 DEF tlsVars, TlsInv, TlsTypeOK, BytesInOrder
<1> QED
  BY <1>1, <1>2, <1>3, <1>4, <1>5, <1>6 DEF TlsNext, Step

\* What is written through ltls.c is read once and in order, for any data, any
\* number of flights, and any way to cut what is handed over.
THEOREM TlsKeepsOrder == TlsSpec => []BytesInOrder
<1>1. TlsInv => BytesInOrder
  BY DEF TlsInv
<1> QED
  BY <1>1, TlsInitInv, TlsNextInv, PTL DEF TlsSpec

-----------------------------------------------------------------------------
(* The web client *)

\* f adds up the numbers of s, step by step.
Adds(f, s) ==
    /\ f[0] = 0
    /\ \A i \in 1 .. Len(s) : f[i] = f[i - 1] + s[i]

LEMMA LengthAdds ==
    ASSUME NEW s \in Seq(Nat)
    PROVE  \E f : /\ Adds(f, s) /\ LengthOf(s) = f[Len(s)]
                  /\ \A i \in 0 .. Len(s) : f[i] \in Nat
<1> DEFINE n == Len(s)
           More(y, i) == y + s[i]
           F == [z \in Nat \X (1 .. n) |-> More(z[1], z[2])]
           sum == CHOOSE f : f = [i \in 0 .. n |-> IF i = 0 THEN 0 ELSE More(f[i - 1], i)]
<1>1. n \in Nat
  OBVIOUS
<1>2. ASSUME NEW y \in Nat, NEW i \in 1 .. n PROVE More(y, i) \in Nat
  BY s[i] \in Nat
<1>3. LengthOf(s) = sum[n]
  BY DEF LengthOf
<1> HIDE DEF More
<1>4. F \in [Nat \X (1 .. n) -> Nat]
  BY <1>2
<1>5. \A y \in Nat, i \in 1 .. n : F[<<y, i>>] = More(y, i)
  OBVIOUS
<1> HIDE DEF F
<1>6. \E f \in [0 .. n -> Nat] :
         f = [i \in 0 .. n |-> IF i = 0 THEN 0 ELSE More(f[i - 1], i)]
  <2>1. PICK f \in [0 .. n -> Nat] : IsRun(f, n, 0, F)
    BY <1>1, <1>4, LoopExists
  <2>2. ASSUME NEW i \in 0 .. n
        PROVE  f[i] = IF i = 0 THEN 0 ELSE More(f[i - 1], i)
    <3>1. f[i] = IF i = 0 THEN 0 ELSE F[<<f[i - 1], i>>]
      BY <2>1 DEF IsRun
    <3>2. i # 0 => i - 1 \in 0 .. n /\ i \in 1 .. n
      BY <1>1
    <3> QED
      BY <1>5, <3>1, <3>2
  <2> QED
    BY <2>2
<1>7. sum = [i \in 0 .. n |-> IF i = 0 THEN 0 ELSE More(sum[i - 1], i)]
  BY <1>6
<1> HIDE DEF sum
<1>8. sum[0] = 0
  BY <1>1, <1>7
<1>9. ASSUME NEW i \in 1 .. n PROVE sum[i] = More(sum[i - 1], i)
  <2>1. i \in 0 .. n /\ i # 0
    BY <1>1
  <2> QED
    BY <1>7, <2>1
<1>10. ASSUME NEW i \in 1 .. n, sum[i - 1] \in Nat PROVE sum[i] \in Nat
  BY <1>2, <1>9, <1>10
<1>11. \A i \in 0 .. n : sum[i] \in Nat
  <2>1. PICK X : X = Nat
    OBVIOUS
  <2>2. n \in Nat /\ sum[0] \in X /\ \A i \in 1 .. n : sum[i - 1] \in X => sum[i] \in X
    BY <1>1, <1>8, <1>10, <2>1
  <2> HIDE DEF n
  <2>3. \A i \in 0 .. n : sum[i] \in X
    BY <2>2, Loop
  <2> QED
    BY <2>1, <2>3
<1>12. Adds(sum, s)
  BY <1>8, <1>9 DEF Adds, More
<1> QED
  BY <1>3, <1>11, <1>12

LEMMA LengthType ==
    ASSUME NEW s \in Seq(Nat)
    PROVE  LengthOf(s) \in Nat
BY LengthAdds, Len(s) \in 0 .. Len(s)

LEMMA LengthEmpty == LengthOf(<<>>) = 0
<1>1. PICK s : s = <<>>
  OBVIOUS
<1>2. s \in Seq(Nat) /\ Len(s) = 0
  BY <1>1
<1>3. PICK f : Adds(f, s) /\ LengthOf(s) = f[Len(s)]
  BY <1>2, LengthAdds
<1> QED
  BY <1>1, <1>2, <1>3 DEF Adds

\* One piece more.
LEMMA LengthAppend ==
    ASSUME NEW s \in Seq(Nat), NEW x \in Nat
    PROVE  LengthOf(Append(s, x)) = LengthOf(s) + x
<1>1. PICK t : t = Append(s, x)
  OBVIOUS
<1>2. /\ t \in Seq(Nat) /\ Len(s) \in Nat /\ Len(t) = Len(s) + 1
      /\ \A i \in 1 .. Len(s) : t[i] = s[i]
      /\ t[Len(s) + 1] = x
  BY <1>1
<1>3. PICK f : /\ Adds(f, s) /\ LengthOf(s) = f[Len(s)]
               /\ \A i \in 0 .. Len(s) : f[i] \in Nat
  BY LengthAdds
<1>4. PICK g : /\ Adds(g, t) /\ LengthOf(t) = g[Len(t)]
               /\ \A i \in 0 .. Len(t) : g[i] \in Nat
  BY <1>2, LengthAdds
<1> DEFINE same == [i \in 0 .. Len(s) |-> IF f[i] = g[i] THEN 1 ELSE 0]
<1>5. same[0] \in {1}
  BY <1>2, <1>3, <1>4 DEF Adds
<1>6. ASSUME NEW i \in 1 .. Len(s), same[i - 1] \in {1} PROVE same[i] \in {1}
  <2>1. i - 1 \in 0 .. Len(s) /\ i \in 0 .. Len(s) /\ i \in 1 .. Len(t)
    BY <1>2
  <2>2. f[i - 1] = g[i - 1]
    BY <1>6, <2>1
  <2>3. f[i] = f[i - 1] + s[i] /\ g[i] = g[i - 1] + t[i]
    BY <1>3, <1>4, <2>1 DEF Adds
  <2> QED
    BY <1>2, <2>1, <2>2, <2>3
<1> HIDE DEF same
<1>7. \A i \in 0 .. Len(s) : same[i] \in {1}
  BY <1>2, <1>5, <1>6, Loop
<1>8. f[Len(s)] = g[Len(s)]
  BY <1>7, Len(s) \in 0 .. Len(s) DEF same
<1>9. g[Len(t)] = g[Len(s)] + x
  <2>1. Len(t) \in 1 .. Len(t) /\ Len(t) - 1 = Len(s)
    BY <1>2
  <2>2. g[Len(t)] = g[Len(t) - 1] + t[Len(t)]
    BY <1>4, <2>1 DEF Adds
  <2> QED
    BY <1>2, <2>1, <2>2
<1> QED
  BY <1>1, <1>3, <1>4, <1>8, <1>9

WebTypeOK ==
    /\ content \in [Request -> Seq(Nat)] /\ delivered \in [Request -> Seq(Nat)]
    /\ maxlength \in [Request -> Nat] /\ block \in [Request -> Nat]
    /\ request \in [Request -> {"none", "running", "ended", "told", "removed"}]
    /\ failed \in [Request -> BOOLEAN] /\ error \in [Request -> BOOLEAN]
    /\ response \in [Request -> [given : BOOLEAN, body : Seq(Nat), error : BOOLEAN]]

\* As long as realloc has given what it was asked for, the buffer is as long
\* as content_maxlength says and keeps all that was delivered.
BufferIsTrue(r) ==
    (~failed[r] /\ request[r] # "removed") =>
        content[r] = delivered[r] /\ block[r] = maxlength[r]

\* Nothing is delivered after an answer was given.
GivenIsOver(r) == response[r].given => request[r] \in {"told", "removed"}

BufferHolds(r) == LengthOf(content[r]) <= block[r]

AnswerIsWhole(r) ==
    (response[r].given /\ ~response[r].error) => response[r].body = delivered[r]

Sound(r) == BufferIsTrue(r) /\ GivenIsOver(r) /\ BufferHolds(r) /\ AnswerIsWhole(r)

WebInv == WebTypeOK /\ \A r \in Request : Sound(r)

LEMMA WebInitInv == WebInit => WebInv
<1> SUFFICES ASSUME WebInit PROVE WebInv
  OBVIOUS
<1>1. WebTypeOK
  BY EmptySeq DEF WebInit, WebTypeOK
<1>2. ASSUME NEW r \in Request PROVE Sound(r)
  BY LengthEmpty
  DEF WebInit, Sound, BufferIsTrue, GivenIsOver, BufferHolds, AnswerIsWhole
<1> QED
  BY <1>1, <1>2 DEF WebInv

LEMMA GrownHolds ==
    ASSUME WebTypeOK, NEW r \in Request, NEW length \in Nat
    PROVE  /\ Grown(r, length) \in Nat
           /\ LengthOf(content[r]) + length <= Grown(r, length)
<1>1. PICK a, b : a = maxlength[r] /\ b = LengthOf(content[r]) + length
  OBVIOUS
<1>2. a \in Nat /\ b \in Nat /\ Initial \in Nat
  BY <1>1, LengthType, WebAssumption DEF WebTypeOK
<1>3. PICK m : m = Max({a, b, Initial})
  OBVIOUS
<1>4. m \in {a, b, Initial} /\ \A y \in {a, b, Initial} : m >= y
  <2>1. \E x \in {a, b, Initial} : \A y \in {a, b, Initial} : x >= y
    BY <1>2
  <2> QED
    BY <1>3, <2>1 DEF Max
<1>5. Grown(r, length) = 2 * m
  BY <1>1, <1>3 DEF Grown
<1> QED
  BY <1>1, <1>2, <1>4, <1>5

LEMMA WriteSound ==
    ASSUME WebInv, NEW r \in Request, NEW length \in Piece, NEW memory \in BOOLEAN,
           WriteCallback(r, length, memory)
    PROVE  WebInv'
<1> USE DEF WebInv
<1>1. /\ length \in Nat /\ content[r] \in Seq(Nat) /\ delivered[r] \in Seq(Nat)
      /\ block[r] \in Nat /\ maxlength[r] \in Nat
  BY WebAssumption DEF WebTypeOK
<1>2. /\ Grown(r, length) \in Nat
      /\ LengthOf(content[r]) + length <= Grown(r, length)
  BY <1>1, GrownHolds
<1>3. PICK longer : longer = Append(content[r], length)
  OBVIOUS
<1>4. longer \in Seq(Nat) /\ LengthOf(longer) = LengthOf(content[r]) + length
  BY <1>1, <1>3, LengthAppend
<1>5. PICK d : d = Append(delivered[r], length)
  OBVIOUS
<1>6. d \in Seq(Nat)
  BY <1>1, <1>5
<1>7. /\ delivered' = [delivered EXCEPT ![r] = d]
      /\ request[r] = "running" /\ UNCHANGED <<request, error, response>>
  BY <1>5 DEF WriteCallback
<1>8. ~response[r].given
  BY <1>7 DEF Sound, GivenIsOver
<1>9. CASE failed[r]
  <2>1. UNCHANGED <<content, maxlength, block, failed>>
    BY <1>9 DEF WriteCallback
  <2>2. WebTypeOK'
    BY <1>6, <1>7, <2>1 DEF WebTypeOK
  <2>3. ASSUME NEW q \in Request PROVE Sound(q)'
    BY <1>7, <1>8, <1>9, <2>1
    DEF WebTypeOK, Sound, BufferIsTrue, GivenIsOver, BufferHolds, AnswerIsWhole
  <2> QED
    BY <2>2, <2>3
<1>10. CASE ~failed[r]
  <2> DEFINE fits == LengthOf(content[r]) + length <= maxlength[r]
  <2>1. PICK size : size = IF fits THEN maxlength[r] ELSE Grown(r, length)
    OBVIOUS
  <2>2. size \in Nat /\ LengthOf(longer) <= size
    BY <1>1, <1>2, <1>4, <2>1
  <2>3. maxlength' = [maxlength EXCEPT ![r] = size]
    BY <1>10, <2>1 DEF WriteCallback
  <2>4. content[r] = delivered[r] /\ block[r] = maxlength[r]
    BY <1>7, <1>10 DEF Sound, BufferIsTrue
  <2>5. CASE fits \/ memory
    <3>1. /\ content' = [content EXCEPT ![r] = longer]
          /\ block' = [block EXCEPT ![r] = size] /\ UNCHANGED failed
      BY <1>3, <1>10, <2>1, <2>4, <2>5 DEF WriteCallback
    <3>2. WebTypeOK'
      BY <1>4, <1>6, <1>7, <2>2, <2>3, <3>1 DEF WebTypeOK
    <3>3. longer = d
      BY <1>3, <1>5, <2>4
    <3>4. ASSUME NEW q \in Request PROVE Sound(q)'
      <4>1. CASE q = r
        BY <1>7, <1>8, <2>2, <2>3, <3>1, <3>3, <4>1
        DEF WebTypeOK, Sound, BufferIsTrue, GivenIsOver, BufferHolds, AnswerIsWhole
      <4>2. CASE q # r
        BY <1>7, <2>3, <3>1, <4>2
        DEF WebTypeOK, Sound, BufferIsTrue, GivenIsOver, BufferHolds, AnswerIsWhole
      <4> QED
        BY <4>1, <4>2
    <3> QED
      BY <3>2, <3>4
  <2>6. CASE ~(fits \/ memory)
    <3>1. failed' = [failed EXCEPT ![r] = TRUE] /\ UNCHANGED <<content, block>>
      BY <1>10, <2>6 DEF WriteCallback
    <3>2. WebTypeOK'
      BY <1>6, <1>7, <2>2, <2>3, <3>1 DEF WebTypeOK
    <3>3. ASSUME NEW q \in Request PROVE Sound(q)'
      <4>1. CASE q = r
        BY <1>7, <1>8, <3>1, <4>1
        DEF WebTypeOK, Sound, BufferIsTrue, GivenIsOver, BufferHolds, AnswerIsWhole
      <4>2. CASE q # r
        BY <1>7, <2>3, <3>1, <4>2
        DEF WebTypeOK, Sound, BufferIsTrue, GivenIsOver, BufferHolds, AnswerIsWhole
      <4> QED
        BY <4>1, <4>2
    <3> QED
      BY <3>2, <3>3
  <2> QED
    BY <2>5, <2>6
<1> QED
  BY <1>9, <1>10

LEMMA WebStepInv == WebInv /\ [WebNext]_webVars => WebInv'
<1> SUFFICES ASSUME WebInv, [WebNext]_webVars PROVE WebInv'
  OBVIOUS
<1> USE DEF WebInv, Sound, BufferIsTrue, GivenIsOver, BufferHolds, AnswerIsWhole
<1>1. CASE WebCreate \/ UrlEncoding \/ Destroy \/ UNCHANGED webVars
  BY <1>1 DEF WebCreate, UrlEncoding, Destroy, webVars, WebTypeOK
<1>2. ASSUME NEW r \in Request, MakeRequest(r) PROVE WebInv'
  BY <1>2 DEF MakeRequest, WebTypeOK
<1>3. ASSUME NEW r \in Request, NEW length \in Piece, NEW memory \in BOOLEAN,
             WriteCallback(r, length, memory)
      PROVE  WebInv'
  BY <1>3, WriteSound
<1>4. ASSUME NEW r \in Request, EndTransfer(r) PROVE WebInv'
  BY <1>4 DEF EndTransfer, WebTypeOK
<1>5. ASSUME NEW r \in Request, Query(r) PROVE WebInv'
  BY <1>5 DEF Query, WebTypeOK
<1>6. ASSUME NEW r \in Request, GetRespond(r) PROVE WebInv'
  <2>1. /\ request[r] = "told"
        /\ UNCHANGED <<request, delivered, content, maxlength, block, failed>>
    BY <1>6 DEF GetRespond
  <2>2. PICK e \in BOOLEAN : e = (error[r] \/ failed[r])
    BY <1>6 DEF WebTypeOK
  <2>3. error' = [error EXCEPT ![r] = e] /\ error'[r] = e
    BY <1>6, <2>2 DEF GetRespond, WebTypeOK
  <2>4. PICK x : x = [given |-> TRUE, body |-> content[r], error |-> e]
    OBVIOUS
  <2>5. /\ response' = [response EXCEPT ![r] = x]
        /\ x \in [given : BOOLEAN, body : Seq(Nat), error : BOOLEAN]
    BY <1>6, <2>3, <2>4 DEF GetRespond, WebTypeOK
  <2>6. WebTypeOK'
    BY <2>1, <2>3, <2>5 DEF WebTypeOK
  <2>7. ~x.error => x.body = delivered[r]
    BY <2>1, <2>2, <2>4
  <2>8. ASSUME NEW q \in Request PROVE Sound(q)'
    BY <2>1, <2>5, <2>7 DEF WebTypeOK
  <2> QED
    BY <2>6, <2>8
<1>7. ASSUME NEW r \in Request, RemoveRequest(r) PROVE WebInv'
  BY <1>7, LengthEmpty, EmptySeq DEF RemoveRequest, WebTypeOK
<1> QED
  BY <1>1, <1>2, <1>3, <1>4, <1>5, <1>6, <1>7 DEF WebNext

\* What webclient.c keeps of a body never exceeds its buffer, and a body it
\* gives without an error is whole, whatever the pieces it came in and
\* whichever realloc failed.
THEOREM BodiesAreWhole == WebSpec => []BodyIsWhole
<1>1. WebInv => BodyIsWhole
  BY DEF WebInv, Sound, BufferHolds, AnswerIsWhole, BodyIsWhole
<1> QED
  BY <1>1, WebInitInv, WebStepInv, PTL DEF WebSpec
=============================================================================
