-------------------------- MODULE InductionLemmas --------------------------
(***************************************************************************)
(* What several of the proofs need of numbers, of loops, which the modules *)
(* write as recursive functions of the number of steps done, and of        *)
(* sequences.                                                              *)
(***************************************************************************)
EXTENDS Integers, Sequences, WellFoundedInduction, TLAPS

\* A set of natural numbers has a least one.
LEMMA LeastNumber ==
    ASSUME NEW S, S \subseteq Nat, S # {}
    PROVE  \E x \in S : \A y \in S : x <= y
<1> DEFINE R == {p \in Nat \X Nat : p[1] < p[2]}
<1>1. IsWellFoundedOn(R, Nat)
  BY NatLessThanWellFounded DEF OpToRel
<1>2. \E x \in S : \A y \in S : <<y, x>> \notin R
  <2> HIDE DEF R
  <2> QED
    BY <1>1, WFMin
<1>3. PICK x \in S : \A y \in S : <<y, x>> \notin R
  BY <1>2
<1>4. ASSUME NEW y \in S PROVE x <= y
  <2>1. x \in Nat /\ y \in Nat /\ ~(<<y, x>>[1] < <<y, x>>[2])
    BY <1>3
  <2> QED
    BY <2>1
<1> QED
  BY <1>4

\* What holds at first and is kept by each step of a loop holds at its end.
LEMMA Loop ==
    ASSUME NEW n \in Nat, NEW f, NEW X, f[0] \in X,
           \A i \in 1 .. n : f[i - 1] \in X => f[i] \in X
    PROVE  \A i \in 0 .. n : f[i] \in X
<1> DEFINE bad == {i \in 0 .. n : f[i] \notin X}
<1> SUFFICES ASSUME bad # {} PROVE FALSE
  OBVIOUS
<1>1. PICK i \in bad : \A j \in bad : i <= j
  <2>1. bad \subseteq Nat
    OBVIOUS
  <2> HIDE DEF bad
  <2> QED
    BY <2>1, LeastNumber
<1>2. i # 0 /\ i \in 1 .. n /\ i - 1 \in 0 .. n
  BY <1>1
<1>3. i - 1 \notin bad
  BY <1>1, <1>2
<1> QED
  BY <1>1, <1>2, <1>3

\* A recursive function over an initial part of the natural numbers exists:
\* F[<<x, i>>] is its next value.
IsRun(f, n, x, F) == f = [i \in 0 .. n |-> IF i = 0 THEN x ELSE F[<<f[i - 1], i>>]]

LEMMA LoopExists ==
    ASSUME NEW n \in Nat, NEW X, NEW x \in X, NEW F \in [X \X (1 .. n) -> X]
    PROVE  \E f \in [0 .. n -> X] : IsRun(f, n, x, F)
<1> USE DEF IsRun
<1> DEFINE IsLoop(f, m) ==
             f = [i \in 0 .. m |-> IF i = 0 THEN x ELSE F[<<f[i - 1], i>>]]
           bad == {m \in 0 .. n : ~ \E f \in [0 .. m -> X] : IsLoop(f, m)}
<1> SUFFICES ASSUME bad # {} PROVE FALSE
  <2>1. n \in 0 .. n /\ n \notin bad => \E f \in [0 .. n -> X] : IsLoop(f, n)
    BY Zenon
  <2> QED
    BY <2>1, SMTT(20)
<1>1. PICK m \in bad : \A j \in bad : m <= j
  <2>1. bad \subseteq Nat
    OBVIOUS
  <2> HIDE DEF bad
  <2> QED
    BY <2>1, LeastNumber
<1>2. m # 0
  <2>1. [i \in 0 .. 0 |-> x] \in [0 .. 0 -> X] /\ IsLoop([i \in 0 .. 0 |-> x], 0)
    OBVIOUS
  <2> QED
    BY <2>1, <1>1
<1>3. m \in 1 .. n /\ m - 1 \in 0 .. n /\ m - 1 \notin bad
  BY <1>1, <1>2
<1>4. PICK f \in [0 .. m - 1 -> X] : IsLoop(f, m - 1)
  BY <1>3
<1> DEFINE g == [i \in 0 .. m |-> IF i = m THEN F[<<f[m - 1], m>>] ELSE f[i]]
<1>5. g \in [0 .. m -> X]
  <2>1. F[<<f[m - 1], m>>] \in X
    BY <1>3
  <2> QED
    BY <2>1, <1>3
<1>6. IsLoop(g, m)
  <2> SUFFICES ASSUME NEW i \in 0 .. m
               PROVE  g[i] = IF i = 0 THEN x ELSE F[<<g[i - 1], i>>]
    OBVIOUS
  <2>1. CASE i = m
    <3>1. g[m] = F[<<f[m - 1], m>>] /\ g[m - 1] = f[m - 1]
      BY <1>3
    <3> QED
      BY <2>1, <3>1, <1>2
  <2>2. CASE i # m
    <3>1. i \in 0 .. m - 1 /\ g[i] = f[i] /\ (i # 0 => g[i - 1] = f[i - 1])
      BY <2>2, <1>3
    <3>2. f[i] = IF i = 0 THEN x ELSE F[<<f[i - 1], i>>]
      BY <3>1, <1>4
    <3> QED
      BY <3>1, <3>2
  <2> QED
    BY <2>1, <2>2
<1> QED
  BY <1>1, <1>5, <1>6

-----------------------------------------------------------------------------
(* Sequences *)

LEMMA Suffix ==
    ASSUME NEW X, NEW s \in Seq(X), NEW n \in 0 .. Len(s), NEW t,
           t = SubSeq(s, n + 1, Len(s))
    PROVE  /\ t \in Seq(X) /\ Len(t) = Len(s) - n /\ DOMAIN t = 1 .. Len(s) - n
           /\ \A i \in 1 .. Len(s) - n : t[i] = s[n + i]
OBVIOUS

LEMMA Prefix ==
    ASSUME NEW X, NEW s \in Seq(X), NEW n \in 0 .. Len(s), NEW t,
           t = SubSeq(s, 1, n)
    PROVE  /\ t \in Seq(X) /\ Len(t) = n /\ DOMAIN t = 1 .. n
           /\ \A i \in 1 .. n : t[i] = s[i]
OBVIOUS

LEMMA Concat ==
    ASSUME NEW X, NEW s \in Seq(X), NEW r \in Seq(X)
    PROVE  s \o r \in Seq(X) /\ Len(s \o r) = Len(s) + Len(r)
OBVIOUS

LEMMA ConcatAt ==
    ASSUME NEW X, NEW s \in Seq(X), NEW r \in Seq(X)
    PROVE  /\ \A i \in 1 .. Len(s) : (s \o r)[i] = s[i]
           /\ \A i \in 1 .. Len(r) : (s \o r)[Len(s) + i] = r[i]
<1>1. Len(s) \in Nat /\ Len(r) \in Nat
  OBVIOUS
<1>2. \A i \in 1 .. Len(s) : (s \o r)[i] = s[i]
  OBVIOUS
<1>3. ASSUME NEW i \in 1 .. Len(r) PROVE (s \o r)[Len(s) + i] = r[i]
  BY <1>1
<1> QED
  BY <1>2, <1>3
=============================================================================
