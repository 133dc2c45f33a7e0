-------------------------- MODULE KcpClockProofs ---------------------------
(***************************************************************************)
(* For every clock, interval, measured round trip and setting of the       *)
(* constants: the resend time of KCP stays within its bounds, the next     *)
(* flush is never far from now, and ikcp_check names no time too late.     *)
(* The last two rest on what the difference of two counters that wrap says *)
(* of the numbers they count.                                              *)
(***************************************************************************)
EXTENDS KcpClock, TLAPS

\* What the resend time is computed from: smoothed round trips that never go
\* negative, and a lower bound that one of the two modes sets.
TimingInv ==
    /\ timing \in [updated : BOOLEAN, ts_flush : Int, interval : 1 .. SlapLimit,
                   nodelay : BOOLEAN, minrto : {RtoNdl, RtoMin}, srtt : Nat,
                   rttval : Nat, rto : RtoNdl .. RtoMax]

FlightInv ==
    /\ flight \in [xmit : Nat, rto : Nat, resendts : Int]
    /\ flight.xmit > 0 => flight.rto >= RtoNdl

Inv == current \in Int /\ lull \in 1 .. SlapLimit /\ TimingInv /\ FlightInv

LEMMA Constants ==
    /\ Wrap \in Nat \ {0} /\ SlapLimit \in Nat \ {0}
    /\ RtoNdl \in Nat \ {0} /\ RtoMin \in Nat /\ RtoDef \in Nat /\ RtoMax \in Nat
    /\ RtoNdl <= RtoMin /\ RtoMin <= RtoDef /\ RtoDef <= RtoMax
    /\ Intervals \subseteq 1 .. SlapLimit /\ 2 * SlapLimit + 1 < Wrap
    /\ Rtts \subseteq Nat /\ Ticks \subseteq Int
BY ClockAssumption

\* _ibound_ keeps a value between a lower and an upper bound that are in order.
LEMMA IboundRange ==
    ASSUME NEW lower \in Int, NEW middle \in Int, NEW upper \in Int, lower <= upper
    PROVE  Ibound(lower, middle, upper) \in lower .. upper
BY DEF Ibound, Imin, Imax

LEMMA ItimediffInt ==
    ASSUME NEW a \in Int, NEW b \in Int
    PROVE  Itimediff(a, b) \in Int
<1>1. (a - b) % Wrap \in Int /\ Wrap \div 2 \in Int
  BY Constants
<1> QED
  BY <1>1, Constants DEF Itimediff

LEMMA InitInv == ClockInit => Inv
<1> SUFFICES ASSUME ClockInit PROVE Inv
  OBVIOUS
<1>1. TimingInv
  <2>1. /\ 0 \in Int /\ 0 \in Nat /\ FALSE \in BOOLEAN /\ Intervals \subseteq 1 .. SlapLimit
        /\ RtoDef \in RtoNdl .. RtoMax /\ RtoMin \in {RtoNdl, RtoMin}
    BY Constants
  <2>2. timing \in [updated : {FALSE}, ts_flush : {0}, interval : Intervals,
                    nodelay : BOOLEAN, minrto : {RtoMin}, srtt : {0},
                    rttval : {0}, rto : {RtoDef}]
    BY DEF ClockInit
  <2> QED
    BY <2>1, <2>2, Zenon DEF TimingInv
<1>2. FlightInv
  BY DEF ClockInit, FlightInv, NoSegment
<1> QED
  BY <1>1, <1>2, Constants DEF ClockInit, Inv

\* A segment starts with the resend time, and each resend adds to it.
LEMMA ResendInv ==
    ASSUME Inv, NEW now \in Int, NEW overtaken \in BOOLEAN
    PROVE  /\ Resend(now, overtaken) \in [xmit : Nat, rto : Nat, resendts : Int]
           /\ Resend(now, overtaken).xmit > 0 => Resend(now, overtaken).rto >= RtoNdl
<1> DEFINE rto == timing.rto
           again == flight.rto + IF timing.nodelay THEN timing.rto \div 2
                                                   ELSE timing.rto
           slack == IF timing.nodelay THEN 0 ELSE timing.rto \div 8
<1>1. /\ rto \in Nat /\ rto >= RtoNdl
      /\ flight.xmit \in Nat /\ flight.rto \in Nat /\ flight.resendts \in Int
      /\ flight.xmit > 0 => flight.rto >= RtoNdl
  BY Constants DEF Inv, TimingInv, FlightInv
<1>2. rto \div 2 \in Nat /\ rto \div 8 \in Nat
  BY <1>1
<1>3. again \in Nat /\ again >= flight.rto /\ slack \in Nat
  <2>1. CASE timing.nodelay
    BY <2>1, <1>1, <1>2
  <2>2. CASE ~timing.nodelay
    BY <2>2, <1>1, <1>2
  <2> QED
    BY <2>1, <2>2
<1> HIDE DEF again, slack
<1> DEFINE next == Resend(now, overtaken)
           over == Itimediff(now, flight.resendts) >= 0
<1>4. /\ (now + rto + slack) % Wrap \in Int
      /\ (now + again) % Wrap \in Int
      /\ (now + flight.rto) % Wrap \in Int
  BY <1>1, <1>3, Constants
<1>5. \/ next = [xmit |-> 1, rto |-> rto, resendts |-> (now + rto + slack) % Wrap]
      \/ /\ flight.xmit > 0
         /\ next = [xmit |-> flight.xmit + 1, rto |-> again,
                    resendts |-> (now + again) % Wrap]
      \/ /\ flight.xmit > 0
         /\ next = [xmit |-> flight.xmit + 1, rto |-> flight.rto,
                    resendts |-> (now + flight.rto) % Wrap]
      \/ next = flight
  <2>1. CASE flight.xmit = 0
    BY <2>1 DEF Resend, slack
  <2>2. CASE flight.xmit > 0 /\ over
    BY <2>2, <1>1 DEF Resend, again
  <2>3. CASE flight.xmit > 0 /\ ~over /\ overtaken
    BY <2>3, <1>1 DEF Resend
  <2>4. CASE flight.xmit > 0 /\ ~over /\ ~overtaken
    BY <2>4, <1>1 DEF Resend
  <2> QED
    BY <1>1, <2>1, <2>2, <2>3, <2>4
<1>6. flight \in [xmit : Nat, rto : Nat, resendts : Int]
  BY DEF Inv, FlightInv
<1> HIDE DEF next, rto
<1>7. CASE next = [xmit |-> 1, rto |-> rto, resendts |-> (now + rto + slack) % Wrap]
  BY <1>1, <1>4, <1>7 DEF next
<1>8. CASE /\ flight.xmit > 0
           /\ next = [xmit |-> flight.xmit + 1, rto |-> again,
                      resendts |-> (now + again) % Wrap]
  BY <1>1, <1>3, <1>4, <1>8, Constants DEF next
<1>9. CASE /\ flight.xmit > 0
           /\ next = [xmit |-> flight.xmit + 1, rto |-> flight.rto,
                      resendts |-> (now + flight.rto) % Wrap]
  BY <1>1, <1>4, <1>9 DEF next
<1>10. CASE next = flight
  BY <1>1, <1>6, <1>10 DEF next
<1> QED
  BY <1>5, <1>7, <1>8, <1>9, <1>10

LEMMA SlapInt ==
    ASSUME Inv, NEW now \in Int
    PROVE  Slap(now) \in Int
<1>1. Itimediff(now, timing.ts_flush) \in Int
  BY ItimediffInt DEF Inv, TimingInv
<1> QED
  BY <1>1 DEF Slap

LEMMA NextFlushInt ==
    ASSUME Inv, NEW now \in Int
    PROVE  NextFlush(now) \in Int
<1> DEFINE start == (now - Slap(now)) % Wrap
           next == (start + timing.interval) % Wrap
<1>1. timing.interval \in Int
  BY DEF Inv, TimingInv
<1>2. start \in Int
  BY SlapInt, Constants
<1>3. next \in Int
  BY <1>1, <1>2, Constants
<1>4. (now + timing.interval) % Wrap \in Int
  BY <1>1, Constants
<1> QED
  BY <1>3, <1>4 DEF NextFlush

LEMMA UpdateInv ==
    ASSUME Inv, NEW now \in Int, NEW overtaken \in BOOLEAN, Update(now, overtaken)
    PROVE  Inv'
<1>1. current' \in Int
  BY DEF Update
<1>4. lull' \in 1 .. SlapLimit
  <2>1. lull' \in {timing.interval, SlapLimit, lull}
    BY DEF Update
  <2>2. timing.interval \in 1 .. SlapLimit /\ lull \in 1 .. SlapLimit
    BY DEF Inv, TimingInv
  <2> QED
    BY <2>1, <2>2, Constants
<1>2. CASE Flushes(now)
  <2>1. /\ flight' = Resend(now, overtaken)
        /\ timing' = [timing EXCEPT !.updated = TRUE, !.ts_flush = NextFlush(now)]
    BY <1>2 DEF Update
  <2>2. TimingInv'
    BY <2>1, NextFlushInt DEF Inv, TimingInv
  <2>3. FlightInv'
    BY <2>1, ResendInv DEF FlightInv
  <2> QED
    BY <1>1, <1>4, <2>2, <2>3 DEF Inv
<1>3. CASE ~Flushes(now)
  <2>1. UNCHANGED <<flight, timing>>
    BY <1>3 DEF Update
  <2> QED
    BY <1>1, <1>4, <2>1 DEF Inv, TimingInv, FlightInv
<1> QED
  BY <1>2, <1>3

LEMMA FlushInv ==
    ASSUME Inv, NEW overtaken \in BOOLEAN, Flush(overtaken)
    PROVE  Inv'
<1>1. current \in Int
  BY DEF Inv
<1>2. FlightInv'
  BY <1>1, ResendInv DEF FlightInv, Flush
<1> QED
  BY <1>2 DEF Flush, Inv, TimingInv

LEMMA AckInv ==
    ASSUME Inv, NEW rtt \in Nat, Ack(rtt)
    PROVE  Inv'
<1> DEFINE delta == IF rtt > timing.srtt THEN rtt - timing.srtt ELSE timing.srtt - rtt
           rttval == IF timing.srtt = 0 THEN rtt \div 2
                     ELSE (3 * timing.rttval + delta) \div 4
           srtt == IF timing.srtt = 0 THEN rtt
                   ELSE Imax(1, (7 * timing.srtt + rtt) \div 8)
           rto == Ibound(timing.minrto, srtt + Imax(1, 4 * rttval), RtoMax)
<1>1. /\ timing.srtt \in Nat /\ timing.rttval \in Nat
      /\ timing.minrto \in Int /\ timing.minrto <= RtoMax /\ timing.minrto >= RtoNdl
  BY Constants DEF Inv, TimingInv
<1>2. delta \in Nat
  BY <1>1
<1>3. rttval \in Nat
  <2> HIDE DEF delta
  <2>1. rtt \div 2 \in Nat
    OBVIOUS
  <2>2. 3 * timing.rttval + delta \in Nat
    BY <1>1, <1>2
  <2>3. (3 * timing.rttval + delta) \div 4 \in Nat
    BY <2>2
  <2> QED
    BY <2>1, <2>3
<1>4. srtt \in Nat
  <2>1. (7 * timing.srtt + rtt) \div 8 \in Nat
    BY <1>1
  <2> QED
    BY <2>1 DEF Imax
<1>5. rto \in RtoNdl .. RtoMax
  <2> HIDE DEF rttval, srtt
  <2>1. srtt + Imax(1, 4 * rttval) \in Int
    BY <1>3, <1>4 DEF Imax
  <2>2. rto \in timing.minrto .. RtoMax
    <3>1. RtoMax \in Int
      BY Constants
    <3> QED
      BY <2>1, <3>1, <1>1, IboundRange, Zenon
  <2> QED
    BY <2>2, <1>1, Constants
<1>6. timing' = [timing EXCEPT !.srtt = srtt, !.rttval = rttval, !.rto = rto]
  BY DEF Ack
<1>7. TimingInv'
  <2> HIDE DEF rttval, srtt, rto
  <2> QED
    BY <1>3, <1>4, <1>5, <1>6 DEF Inv, TimingInv
<1>8. FlightInv'
  BY DEF Ack, FlightInv, NoSegment
<1> QED
  BY <1>7, <1>8 DEF Inv, Ack

LEMMA NodelayInv ==
    ASSUME Inv, NEW nodelay \in BOOLEAN, NEW interval \in Intervals,
           Nodelay(nodelay, interval)
    PROVE  Inv'
<1> DEFINE minrto == IF nodelay THEN RtoNdl ELSE RtoMin
<1>1. minrto \in {RtoNdl, RtoMin} /\ interval \in 1 .. SlapLimit
  BY Constants
<1>2. timing' = [timing EXCEPT !.nodelay = nodelay, !.interval = interval,
                               !.minrto = minrto]
  BY DEF Nodelay
<1>3. TimingInv'
  <2> HIDE DEF minrto
  <2> QED
    BY <1>1, <1>2 DEF Inv, TimingInv
<1> QED
  BY <1>3 DEF Nodelay, Inv, FlightInv

LEMMA NextInv == Inv /\ [ClockNext]_clockVars => Inv'
<1> SUFFICES ASSUME Inv, [ClockNext]_clockVars PROVE Inv'
  OBVIOUS
<1>1. ASSUME NEW tick \in Ticks, NEW overtaken \in BOOLEAN,
             Update((current + tick) % Wrap, overtaken)
      PROVE  Inv'
  <2>1. (current + tick) % Wrap \in Int
    BY Constants DEF Inv
  <2> QED
    BY <1>1, <2>1, UpdateInv
<1>2. ASSUME NEW rtt \in Rtts, Ack(rtt) PROVE Inv'
  BY <1>2, AckInv, Constants
<1>3. ASSUME NEW nodelay \in BOOLEAN, NEW interval \in Intervals,
             Nodelay(nodelay, interval)
      PROVE  Inv'
  BY <1>3, NodelayInv
<1>4. ASSUME NEW overtaken \in BOOLEAN, Flush(overtaken) PROVE Inv'
  BY <1>4, FlushInv
<1>5. CASE UNCHANGED clockVars
  BY <1>5 DEF clockVars, Inv, TimingInv, FlightInv
<1> QED
  BY <1>1, <1>2, <1>3, <1>4, <1>5 DEF ClockNext

\* The resend time stays between IKCP_RTO_NDL and IKCP_RTO_MAX, and no segment
\* gets less, for every clock, interval and measured round trip.
THEOREM RtoBounded == ClockSpec => []RtoIsBounded
<1>1. Inv => RtoIsBounded
  BY DEF Inv, TimingInv, FlightInv, RtoIsBounded
<1> QED
  BY InitInv, NextInv, <1>1, PTL DEF ClockSpec

-----------------------------------------------------------------------------
(* Counters that wrap *)

LEMMA DivMod ==
    ASSUME NEW x \in Int
    PROVE  /\ x = Wrap * (x \div Wrap) + (x % Wrap)
           /\ x % Wrap \in 0 .. Wrap - 1 /\ x \div Wrap \in Int
BY Constants

\* The remainder is the only number of the range that is so many ranges away.
LEMMA ModIs ==
    ASSUME NEW q \in Int, NEW r \in 0 .. Wrap - 1
    PROVE  (Wrap * q + r) % Wrap = r
<1> DEFINE x == Wrap * q + r
           p == x \div Wrap
           s == x % Wrap
<1>1. Wrap \in Nat \ {0} /\ x \in Int
  BY Constants
<1>2. x = Wrap * p + s /\ s \in 0 .. Wrap - 1 /\ p \in Int
  BY <1>1, DivMod
<1>3. Wrap * (p - q) = r - s
  <2> HIDE DEF p, s
  <2> QED
    BY <1>1, <1>2
<1> HIDE DEF x, p, s
<1>4. CASE p - q >= 1
  <2>1. Wrap * (p - q) >= Wrap
    BY <1>1, <1>2, <1>4
  <2> QED
    BY <1>1, <1>2, <1>3, <2>1
<1>5. CASE p - q <= -1
  <2>1. Wrap * (p - q) <= -Wrap
    BY <1>1, <1>2, <1>5
  <2> QED
    BY <1>1, <1>2, <1>3, <2>1
<1>6. CASE p = q
  BY <1>2, <1>3, <1>6, <1>1 DEF x, s
<1> QED
  BY <1>2, <1>4, <1>5, <1>6

\* Half the range: what a difference may be.
Half == Wrap \div 2

LEMMA HalfRange == Half \in Nat /\ SlapLimit < Half /\ 2 * Half <= Wrap
<1>1. Wrap \in Nat \ {0} /\ SlapLimit \in Nat /\ 2 * SlapLimit + 1 < Wrap
  BY Constants
<1> QED
  BY <1>1 DEF Half

\* Two counters whose numbers are e apart, up to whole ranges, have that
\* difference if e is less than half a range.
LEMMA ItimediffIs ==
    ASSUME NEW a \in Int, NEW b \in Int, NEW q \in Int, NEW e \in Int,
           a - b = Wrap * q + e, -Half <= e, e < Half
    PROVE  Itimediff(a, b) = e
<1>1. Wrap \in Nat \ {0} /\ Half \in Nat /\ 2 * Half <= Wrap
  BY Constants, HalfRange
<1> DEFINE d == (a - b) % Wrap
<1>4. Itimediff(a, b) = IF d < Half THEN d ELSE d - Wrap
  BY DEF Itimediff, Half
<1>2. CASE e >= 0
  <2>1. e \in 0 .. Wrap - 1
    BY <1>1, <1>2
  <2>2. d = e
    BY <2>1, ModIs
  <2> HIDE DEF d
  <2> QED
    BY <1>1, <1>4, <2>2
<1>3. CASE e < 0
  <2>1. e + Wrap \in 0 .. Wrap - 1 /\ ~(e + Wrap < Half)
    BY <1>1, <1>3
  <2>2. a - b = Wrap * (q - 1) + (e + Wrap)
    BY <1>1
  <2>3. d = e + Wrap
    BY <2>1, <2>2, ModIs
  <2> HIDE DEF d
  <2> QED
    BY <1>1, <1>4, <2>1, <2>3
<1> QED
  BY <1>2, <1>3

\* The difference of two counters is that of their numbers, up to ranges.
LEMMA ItimediffOf ==
    ASSUME NEW a \in Int, NEW b \in Int
    PROVE  /\ Itimediff(a, b) \in Int
           /\ -Half - 1 <= Itimediff(a, b) /\ Itimediff(a, b) < Half
           /\ \E q \in Int : a - b = Wrap * q + Itimediff(a, b)
<1> DEFINE d == (a - b) % Wrap
           p == (a - b) \div Wrap
<1>1. /\ Wrap \in Nat \ {0} /\ Half \in Nat /\ 2 * Half <= Wrap
      /\ Wrap <= 2 * Half + 1
  BY Constants, HalfRange DEF Half
<1>2. a - b = Wrap * p + d /\ d \in 0 .. Wrap - 1 /\ p \in Int
  BY DivMod
<1>3. Itimediff(a, b) = IF d < Half THEN d ELSE d - Wrap
  BY DEF Itimediff, Half
<1> HIDE DEF d, p
<1>4. CASE d < Half
  BY <1>1, <1>2, <1>3, <1>4
<1>5. CASE ~(d < Half)
  <2>1. a - b = Wrap * (p + 1) + (d - Wrap)
    BY <1>1, <1>2
  <2> QED
    BY <1>1, <1>2, <1>3, <1>5, <2>1
<1> QED
  BY <1>4, <1>5

\* Time added to a counter that wraps adds to the difference.
LEMMA ItimediffAdd ==
    ASSUME NEW a \in Int, NEW b \in Int, NEW e \in Int,
           -Half <= Itimediff(a, b) + e, Itimediff(a, b) + e < Half
    PROVE  Itimediff((a + e) % Wrap, b) = Itimediff(a, b) + e
<1> DEFINE d == Itimediff(a, b)
           x == a + e
           p == x \div Wrap
           r == x % Wrap
<1>1. d \in Int /\ \E q \in Int : a - b = Wrap * q + d
  BY ItimediffOf
<1>2. PICK q \in Int : a - b = Wrap * q + d
  BY <1>1
<1>3. Wrap \in Int /\ r \in Int /\ p \in Int /\ x = Wrap * p + r
  BY DivMod, Constants
<1>4. -Half <= d + e /\ d + e < Half
  OBVIOUS
<1> HIDE DEF d, p, r
<1>5. r - b = Wrap * (q - p) + (d + e)
  <2>1. r - b = (a + e) - Wrap * p - b
    BY <1>3
  <2>2. Wrap * (q - p) = Wrap * q - Wrap * p /\ Wrap * p \in Int /\ Wrap * q \in Int
    BY <1>3
  <2> QED
    BY <1>1, <1>2, <2>1, <2>2
<1>6. q - p \in Int /\ d + e \in Int
  BY <1>1, <1>3
<1>7. Itimediff(r, b) = d + e
  <2> DEFINE k == q - p
             c == d + e
  <2>1. /\ r \in Int /\ k \in Int /\ c \in Int /\ -Half <= c /\ c < Half
        /\ r - b = Wrap * k + c
    BY <1>3, <1>4, <1>5, <1>6
  <2> HIDE DEF k, c
  <2>2. Itimediff(r, b) = c
    BY <2>1, ItimediffIs
  <2> QED
    BY <2>2 DEF c
<1> QED
  BY <1>7 DEF d, r

\* The difference of the two the other way round.
LEMMA ItimediffBack ==
    ASSUME NEW a \in Int, NEW b \in Int, -Half < Itimediff(a, b)
    PROVE  Itimediff(b, a) = -Itimediff(a, b)
<1> DEFINE d == Itimediff(a, b)
<1>1. d \in Int /\ d < Half /\ \E q \in Int : a - b = Wrap * q + d
  BY ItimediffOf
<1>2. PICK q \in Int : a - b = Wrap * q + d
  BY <1>1
<1> HIDE DEF d
<1>3. b - a = Wrap * (-q) + (-d) /\ Half \in Nat
  BY <1>1, <1>2, Constants, HalfRange
<1> QED
  BY <1>1, <1>3, ItimediffIs DEF d

LEMMA ItimediffSame == ASSUME NEW a \in Int PROVE Itimediff(a, a) = 0
<1>1. a - a = Wrap * 0 + 0 /\ Half \in Nat /\ 0 < Half
  BY Constants, HalfRange
<1> QED
  BY <1>1, ItimediffIs

-----------------------------------------------------------------------------
(* When the next flush is, and what ikcp_check says of it *)

LEMMA SlapIs ==
    ASSUME Inv, NEW now \in Int
    PROVE  /\ Slap(now) \in -SlapLimit .. SlapLimit - 1
           /\ Slap(now) < 0 => /\ timing.updated
                               /\ Slap(now) = Itimediff(now, timing.ts_flush)
<1>1. /\ Itimediff(now, timing.ts_flush) \in Int /\ SlapLimit \in Nat \ {0}
      /\ timing.updated \in BOOLEAN
  BY ItimediffInt, Constants DEF Inv, TimingInv
<1> QED
  BY <1>1 DEF Slap

\* A flush sets the next one between one millisecond and an interval ahead.
LEMMA NextFlushIs ==
    ASSUME Inv, NEW now \in Int, Flushes(now)
    PROVE  Itimediff(NextFlush(now), now) \in 1 .. timing.interval
<1> DEFINE slap == Slap(now)
           i == timing.interval
           start == (now - slap) % Wrap
           next == (start + i) % Wrap
           late == (now + i) % Wrap
<1>1. /\ slap \in 0 .. SlapLimit - 1 /\ i \in 1 .. SlapLimit /\ SlapLimit \in Nat
      /\ Half \in Nat /\ SlapLimit < Half
  BY SlapIs, Constants, HalfRange DEF Flushes, Inv, TimingInv
<1>2. start \in Int /\ next \in Int /\ late \in Int
  BY <1>1, Constants
<1>3. NextFlush(now) = IF Itimediff(now, next) >= 0 THEN late ELSE next
  BY DEF NextFlush
<1> HIDE DEF slap, i
<1>4. Itimediff(start, now) = -slap
  <2>1. Itimediff(now, now) = 0
    BY ItimediffSame
  <2>2. -slap \in Int /\ -Half <= 0 + -slap /\ 0 + -slap < Half /\ now - slap = now + -slap
    BY <1>1
  <2>3. Itimediff((now + -slap) % Wrap, now) = 0 + -slap
    BY <2>1, <2>2, ItimediffAdd
  <2> QED
    BY <2>2, <2>3
<1>5. Itimediff(late, now) = i
  <2>1. Itimediff(now, now) = 0
    BY ItimediffSame
  <2>2. i \in Int /\ -Half <= 0 + i /\ 0 + i < Half
    BY <1>1
  <2>3. Itimediff((now + i) % Wrap, now) = 0 + i
    BY <2>1, <2>2, ItimediffAdd
  <2> QED
    BY <2>2, <2>3
<1> HIDE DEF start, late
<1>6. Itimediff(next, now) = i - slap
  <2>1. i \in Int /\ -Half <= -slap + i /\ -slap + i < Half
    BY <1>1
  <2>2. Itimediff((start + i) % Wrap, now) = -slap + i
    BY <1>2, <1>4, <2>1, ItimediffAdd
  <2> QED
    BY <1>1, <2>2
<1> HIDE DEF next
<1>8. timing.interval = i
  BY DEF i
<1>7. Itimediff(now, next) = slap - i
  <2>1. -Half < Itimediff(next, now)
    BY <1>1, <1>6
  <2>2. Itimediff(now, next) = -Itimediff(next, now)
    BY <1>2, <2>1, ItimediffBack
  <2> QED
    BY <1>1, <1>6, <2>2
<1> QED
  BY <1>1, <1>3, <1>5, <1>6, <1>7, <1>8

\* A counter that moves on towards one ahead of it is that much nearer to it.
LEMMA ItimediffNearer ==
    ASSUME NEW a \in Int, NEW b \in Int, NEW c \in Int,
           Itimediff(a, b) \in 1 .. SlapLimit, Itimediff(a, c) \in 1 .. SlapLimit,
           Itimediff(b, c) >= 0
    PROVE  Itimediff(a, b) <= Itimediff(a, c)
<1> DEFINE x == Itimediff(a, b)
           y == Itimediff(a, c)
           z == Itimediff(b, c)
<1>1. PICK q1 \in Int : a - b = Wrap * q1 + x
  BY ItimediffOf
<1>2. PICK q2 \in Int : b - c = Wrap * q2 + z
  BY ItimediffOf
<1>3. PICK q3 \in Int : a - c = Wrap * q3 + y
  BY ItimediffOf
<1>4. /\ x \in 1 .. SlapLimit /\ y \in 1 .. SlapLimit /\ z \in Int /\ 0 <= z /\ z < Half
      /\ Wrap \in Nat \ {0} /\ SlapLimit \in Nat /\ Half \in Nat
      /\ SlapLimit < Half /\ 2 * Half <= Wrap
  BY ItimediffOf, Constants, HalfRange
<1> HIDE DEF x, y, z
<1> DEFINE k == q3 - q1 - q2
<1>5. k \in Int /\ x + z - y = Wrap * k
  <2>1. x + z - y = Wrap * q3 - Wrap * q1 - Wrap * q2
    BY <1>1, <1>2, <1>3, <1>4
  <2>2. Wrap * k = Wrap * q3 - Wrap * q1 - Wrap * q2
    BY <1>4
  <2> QED
    BY <2>1, <2>2
<1> HIDE DEF k
<1>6. -Wrap < x + z - y /\ x + z - y < Wrap
  BY <1>4
<1>7. CASE k >= 1
  <2>1. Wrap * k >= Wrap
    BY <1>4, <1>5, <1>7
  <2> QED
    BY <1>4, <1>5, <1>6, <2>1
<1>8. CASE k <= -1
  <2>1. Wrap * k <= -Wrap
    BY <1>4, <1>5, <1>8
  <2> QED
    BY <1>4, <1>5, <1>6, <2>1
<1>9. CASE k = 0
  <2>1. Wrap * k = 0
    BY <1>4, <1>9
  <2>2. x <= y
    BY <1>4, <1>5, <2>1
  <2> QED
    BY <2>2 DEF x, y
<1> QED
  BY <1>5, <1>7, <1>8, <1>9

\* What a step does to the time until the next flush: a flush makes it an
\* interval at most, an update that does not flush makes it shorter, or leaves
\* it in the range in which a clock that stepped back counts as unbroken.
LEMMA NextSilence ==
    ASSUME Inv, SilenceIsBounded, [ClockNext]_clockVars
    PROVE  SilenceIsBounded'
<1> USE DEF SilenceIsBounded
<1>1. ASSUME NEW tick \in Ticks, NEW overtaken \in BOOLEAN,
             Update((current + tick) % Wrap, overtaken)
      PROVE  SilenceIsBounded'
  <2> DEFINE now == (current + tick) % Wrap
  <2>1. now \in Int /\ current' = now /\ SlapLimit \in Nat
    BY <1>1, Constants DEF Inv, Update
  <2>4. lull' = CASE Flushes(now) -> timing.interval
                  [] ~Flushes(now) /\ Itimediff(now, current) < 0 -> SlapLimit
                  [] OTHER -> lull
    BY <1>1 DEF Update
  <2>2. CASE Flushes(now)
    <3>1. timing' = [timing EXCEPT !.updated = TRUE, !.ts_flush = NextFlush(now)]
      BY <1>1, <2>2 DEF Update
    <3>2. timing'.ts_flush = NextFlush(now)
      BY <3>1 DEF Inv, TimingInv
    <3> HIDE DEF now
    <3>3. Itimediff(NextFlush(now), now) \in 1 .. timing.interval
      BY <2>1, <2>2, NextFlushIs
    <3>4. Itimediff(timing.ts_flush, current)' = Itimediff(NextFlush(now), now)
      BY <2>1, <3>2 DEF Itimediff
    <3>5. lull' = timing.interval
      BY <2>2, <2>4
    <3>6. timing.interval \in 1 .. SlapLimit
      BY DEF Inv, TimingInv
    <3> QED
      BY <2>1, <3>3, <3>4, <3>5, <3>6
  <2>3. CASE ~Flushes(now)
    <3>1. UNCHANGED timing
      BY <1>1, <2>3 DEF Update
    <3> HIDE DEF now
    <3>2. Slap(now) \in -SlapLimit .. SlapLimit - 1 /\ Slap(now) < 0
      BY <2>1, <2>3, SlapIs DEF Flushes
    <3>3. Itimediff(now, timing.ts_flush) \in -SlapLimit .. -1
      BY <2>1, <3>2, SlapIs
    <3>4. timing.ts_flush \in Int /\ Half \in Nat /\ SlapLimit < Half
      BY HalfRange DEF Inv, TimingInv
    <3>5. Itimediff(timing.ts_flush, now) = -Itimediff(now, timing.ts_flush)
      BY <2>1, <3>3, <3>4, ItimediffBack
    <3>6. Itimediff(timing.ts_flush, current)' = Itimediff(timing.ts_flush, now)
      BY <2>1, <3>1 DEF Itimediff
    <3>7. timing.updated /\ Itimediff(timing.ts_flush, now) \in 1 .. SlapLimit
      BY <2>1, <3>2, <3>3, <3>5, SlapIs
    <3>8. CASE Itimediff(now, current) < 0
      <4>1. lull' = SlapLimit
        BY <2>3, <2>4, <3>8
      <4> QED
        BY <2>1, <3>6, <3>7, <4>1
    <3>9. CASE ~(Itimediff(now, current) < 0)
      <4>1. lull' = lull
        BY <2>3, <2>4, <3>9
      <4>2. Itimediff(timing.ts_flush, current) \in 1 .. lull /\ lull <= SlapLimit
        BY <3>7
      <4>3. current \in Int /\ Itimediff(now, current) >= 0
        BY <2>1, <3>9, ItimediffInt DEF Inv
      <4>4. Itimediff(timing.ts_flush, current) \in 1 .. SlapLimit /\ lull \in Int
        BY <2>1, <4>2 DEF Inv
      <4>5. Itimediff(timing.ts_flush, now) <= Itimediff(timing.ts_flush, current)
        BY <2>1, <3>4, <3>7, <4>3, <4>4, ItimediffNearer
      <4> QED
        BY <3>6, <3>7, <4>1, <4>2, <4>4, <4>5
    <3> QED
      BY <3>8, <3>9
  <2> QED
    BY <2>2, <2>3
<1>2. ASSUME UNCHANGED <<timing.ts_flush, timing.updated, current, lull>>
      PROVE  SilenceIsBounded'
  BY <1>2 DEF Itimediff
<1>3. ASSUME NEW rtt \in Rtts, Ack(rtt) PROVE SilenceIsBounded'
  <2>1. UNCHANGED <<timing.ts_flush, timing.updated, current, lull>>
    BY <1>3 DEF Ack, Inv, TimingInv
  <2> QED
    BY <1>2, <2>1
<1>4. ASSUME NEW nodelay \in BOOLEAN, NEW interval \in Intervals,
             Nodelay(nodelay, interval)
      PROVE  SilenceIsBounded'
  <2>1. UNCHANGED <<timing.ts_flush, timing.updated, current, lull>>
    BY <1>4 DEF Nodelay, Inv, TimingInv
  <2> QED
    BY <1>2, <2>1
<1>5. ASSUME NEW overtaken \in BOOLEAN, Flush(overtaken) PROVE SilenceIsBounded'
  BY <1>2, <1>5 DEF Flush
<1>6. CASE UNCHANGED clockVars
  BY <1>2, <1>6 DEF clockVars
<1> QED
  BY <1>1, <1>3, <1>4, <1>5, <1>6 DEF ClockNext

\* However the user's clock jumps and wraps, at an update the next flush is at
\* most the last flush's interval ahead if the clock has not stepped back since,
\* and never further than the distance at which a clock counts as set anew.
THEOREM SilenceBounded == ClockSpec => []SilenceIsBounded
<1>1. ClockInit => SilenceIsBounded
  BY DEF ClockInit, SilenceIsBounded
<1> QED
  BY InitInv, NextInv, NextSilence, <1>1, PTL DEF ClockSpec

\* The least of the times ikcp_check considers is one of them and at most each.
LEMMA LeastWait ==
    ASSUME NEW a \in Int, NEW b \in Int, NEW S, S = {} \/ \E c \in Int : S = {c}
    PROVE  LET m == Min({a, b} \union S)
           IN  m \in Int /\ m <= a /\ m <= b /\ \A c \in S : m <= c
<1> DEFINE T == {a, b} \union S
<1>1. \A x \in T : x \in Int
  OBVIOUS
<1>2. \E x \in T : \A y \in T : x <= y
  <2>1. CASE S = {}
    BY <2>1
  <2>2. ASSUME NEW c \in Int, S = {c} PROVE \E x \in T : \A y \in T : x <= y
    BY <2>2
  <2> QED
    BY <2>1, <2>2
<1>3. Min(T) \in T /\ \A y \in T : Min(T) <= y
  BY <1>2 DEF Min
<1> QED
  BY <1>1, <1>3

LEMMA CheckIs ==
    ASSUME Inv, NEW now \in Int, NEW wait \in 0 .. SlapLimit,
           wait < (Check(now) - now) % Wrap
    PROVE  /\ ~Flushes((now + wait) % Wrap)
           /\ flight.xmit > 0 => Itimediff((now + wait) % Wrap, flight.resendts) < 0
<1> DEFINE slap == Slap(now)
           toResend == Itimediff(flight.resendts, now)
           others == IF flight.xmit = 0 THEN {} ELSE {toResend}
           m == Min({-slap, timing.interval} \union others)
           then == (now + wait) % Wrap
<1>1. /\ slap \in -SlapLimit .. SlapLimit - 1 /\ timing.interval \in 1 .. SlapLimit
      /\ SlapLimit \in Nat /\ Half \in Nat /\ SlapLimit < Half /\ 2 * Half <= Wrap
      /\ Wrap \in Nat \ {0}
      /\ flight.xmit \in Nat /\ flight.resendts \in Int /\ timing.ts_flush \in Int
      /\ then \in Int
  BY SlapIs, Constants, HalfRange DEF Inv, TimingInv, FlightInv
<1>2. toResend \in Int /\ toResend < Half
  BY <1>1, ItimediffOf
<1>3. /\ m \in Int /\ m <= -slap /\ m <= timing.interval
      /\ flight.xmit > 0 => m <= toResend
  <2> HIDE DEF slap, toResend
  <2>1. -slap \in Int /\ (others = {} \/ \E c \in Int : others = {c})
    BY <1>1, <1>2
  <2>2. flight.xmit > 0 => toResend \in others
    BY <1>1
  <2> HIDE DEF others
  <2> DEFINE flushIn == -slap
             tick == timing.interval
  <2>3. m = Min({flushIn, tick} \union others) /\ flushIn \in Int /\ tick \in Int
    BY <1>1, <2>1
  <2> HIDE DEF flushIn, tick, m
  <2>4. /\ m \in Int /\ m <= flushIn /\ m <= tick
        /\ \A c \in others : m <= c
    BY <2>1, <2>3, LeastWait
  <2> QED
    BY <2>2, <2>4 DEF flushIn, tick
<1>4. Check(now) = IF slap >= 0 \/ m <= 0 THEN now ELSE (now + m) % Wrap
  <2>1. slap = Slap(now) /\ m = Min({-slap, timing.interval} \union others)
    OBVIOUS
  <2> HIDE DEF m, slap, others
  <2>2. others = IF flight.xmit = 0 THEN {} ELSE {Itimediff(flight.resendts, now)}
    BY DEF others
  <2> QED
    BY <2>1, <2>2 DEF Check
<1> HIDE DEF slap, m, toResend, then
<1>5. slap < 0 /\ m > 0 /\ wait < m
  <2>1. 0 % Wrap = 0
    BY <1>1
  <2>2. slap < 0 /\ m > 0
    <3> SUFFICES ASSUME ~(slap < 0 /\ m > 0) PROVE FALSE
      OBVIOUS
    <3>1. Check(now) = now
      BY <1>1, <1>3, <1>4
    <3>2. Check(now) - now = 0
      BY <3>1
    <3> QED
      BY <2>1, <3>2
  <2>3. (Check(now) - now) % Wrap = m
    <3> DEFINE x == now + m
               p == x \div Wrap
               r == x % Wrap
    <3>1. Check(now) = r
      BY <1>4, <2>2, <1>1, <1>3
    <3>2. x \in Int /\ x = Wrap * p + r /\ p \in Int /\ r \in Int
      BY <1>3, DivMod
    <3> HIDE DEF p, r
    <3>3. r - now = Wrap * (-p) + m
      BY <1>1, <1>3, <3>2
    <3>4. m \in 0 .. Wrap - 1 /\ -p \in Int
      BY <1>1, <1>3, <2>2, <3>2
    <3> QED
      BY <3>1, <3>3, <3>4, ModIs
  <2> QED
    BY <2>2, <2>3
<1>6. ~Flushes(then)
  <2>1. timing.updated /\ Itimediff(now, timing.ts_flush) = slap
    BY <1>5, SlapIs DEF slap
  <2>2. -Half <= slap + wait /\ slap + wait < Half /\ wait \in Int
    BY <1>1, <1>3, <1>5
  <2>3. Itimediff(then, timing.ts_flush) = slap + wait
    BY <1>1, <2>1, <2>2, ItimediffAdd DEF then
  <2>4. slap + wait < 0 /\ ~(slap + wait < -SlapLimit) /\ ~(slap + wait >= SlapLimit)
    BY <1>1, <1>3, <1>5
  <2>5. Slap(then) = slap + wait
    BY <2>1, <2>3, <2>4 DEF Slap
  <2> QED
    BY <1>1, <2>4, <2>5 DEF Flushes
<1>7. ASSUME flight.xmit > 0 PROVE Itimediff(then, flight.resendts) < 0
  <2>1. toResend > wait /\ -Half < toResend
    BY <1>1, <1>2, <1>3, <1>5, <1>7
  <2>2. Itimediff(now, flight.resendts) = -toResend
    BY <1>1, <2>1, ItimediffBack DEF toResend
  <2>3. -Half <= -toResend + wait /\ -toResend + wait < Half /\ wait \in Int
    BY <1>1, <1>2, <2>1
  <2>4. Itimediff(then, flight.resendts) = -toResend + wait
    BY <1>1, <2>2, <2>3, ItimediffAdd DEF then
  <2> QED
    BY <1>1, <1>2, <2>1, <2>4
<1> QED
  BY <1>6, <1>7 DEF then

\* A caller that sleeps until the time ikcp_check named misses neither a flush
\* nor a resend, whatever the clock shows when it asks, wrapped or not.
THEOREM ChecksInTime == ClockSpec => []CheckIsNotLate
<1>1. Inv => CheckIsNotLate
  <2> SUFFICES ASSUME Inv, NEW tick \in Ticks
               PROVE  LET now == (current + tick) % Wrap
                      IN  \A wait \in 0 .. SlapLimit :
                             wait < (Check(now) - now) % Wrap =>
                                /\ ~Flushes((now + wait) % Wrap)
                                /\ flight.xmit > 0 =>
                                     Itimediff((now + wait) % Wrap, flight.resendts) < 0
    BY DEF CheckIsNotLate
  <2>1. (current + tick) % Wrap \in Int
    BY Constants DEF Inv
  <2> QED
    BY <2>1, CheckIs
<1> QED
  BY InitInv, NextInv, <1>1, PTL DEF ClockSpec

=============================================================================
