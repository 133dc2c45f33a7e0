------------------------------ MODULE KcpClock ------------------------------
(***************************************************************************)
(* The clock of a KCP control block: when ikcp_update flushes, when        *)
(* ikcp_check tells its caller to come back, when a segment is sent again, *)
(* and the resend time measured from acknowledgements.  Times are          *)
(* millisecond counters that wrap (32 bits in ikcp.c, Wrap here) and are   *)
(* compared by the sign of their difference.                               *)
(***************************************************************************)
EXTENDS Integers, FiniteSetsExt

CONSTANTS
    Wrap,          \* 2^32
    SlapLimit,     \* a clock this far from ts_flush was set anew (10000)
    Intervals,     \* the intervals the user sets (10 .. 5000)
    RtoNdl,        \* IKCP_RTO_NDL
    RtoMin,        \* IKCP_RTO_MIN
    RtoDef,        \* IKCP_RTO_DEF
    RtoMax,        \* IKCP_RTO_MAX
    Rtts,          \* round trips the acknowledgements measure
    Ticks,         \* how the user's clock moves between two updates
    MaxXmit        \* bound: how often a segment is sent

ASSUME ClockAssumption ==
    /\ {Wrap, SlapLimit, RtoNdl, RtoMin, RtoDef, RtoMax} \subseteq Nat \ {0}
    /\ RtoNdl <= RtoMin /\ RtoMin <= RtoDef /\ RtoDef <= RtoMax
    /\ Intervals \subseteq 1 .. SlapLimit /\ Intervals # {}
    /\ 2 * SlapLimit + 1 < Wrap
    /\ Rtts \subseteq Nat /\ Ticks \subseteq Int
    /\ MaxXmit \in Nat /\ 2 * RtoMax * MaxXmit < Wrap

VARIABLES
    current,   \* the time of the last ikcp_update
    timing,    \* ts_flush, interval, nodelay, rx_srtt, rx_rttval, rx_rto, ...
    flight,    \* the segment in snd_buf: how often sent, its rto and resendts
    lull       \* history: how far off the last flush or step back left the next

clockVars == <<current, timing, flight, lull>>

Itimediff(later, earlier) ==
    LET d == (later - earlier) % Wrap IN IF d < Wrap \div 2 THEN d ELSE d - Wrap

Imin(a, b) == IF a <= b THEN a ELSE b
Imax(a, b) == IF a >= b THEN a ELSE b
\* Mutant of Ibound: no upper bound.
Ibound_NoUpper(lower, middle, upper) == Imax(lower, middle)

Ibound(lower, middle, upper) == Imin(Imax(lower, middle), upper)

NoSegment == [xmit |-> 0, rto |-> 0, resendts |-> 0]

ClockInit ==
    /\ current = 0 /\ lull = SlapLimit
    /\ flight = NoSegment
    /\ timing \in [updated : {FALSE}, ts_flush : {0}, interval : Intervals,
                   nodelay : BOOLEAN, minrto : {RtoMin}, srtt : {0},
                   rttval : {0}, rto : {RtoDef}]

\* Mutant of Slap: a clock that was set anew is not noticed.
Slap_NoReset(now) ==
    IF timing.updated THEN Itimediff(now, timing.ts_flush) ELSE 0

\* A clock that was set anew restarts the flush timer.
Slap(now) ==
    LET d == Itimediff(now, timing.ts_flush)
    IN IF ~timing.updated \/ d >= SlapLimit \/ d < -SlapLimit THEN 0 ELSE d

Flushes(now) == Slap(now) >= 0

NextFlush(now) ==
    LET start == (now - Slap(now)) % Wrap
        next == (start + timing.interval) % Wrap
    IN IF Itimediff(now, next) >= 0 THEN (now + timing.interval) % Wrap ELSE next

\* The timer of the segment at a flush: first sent, sent again when its time
\* has come, or when later segments have overtaken it, else left alone.
Resend(now, overtaken) ==
    LET again == flight.rto + IF timing.nodelay THEN timing.rto \div 2
                                                ELSE timing.rto
        slack == IF timing.nodelay THEN 0 ELSE timing.rto \div 8
        over == Itimediff(now, flight.resendts) >= 0
    IN CASE flight.xmit = 0 -> [xmit |-> 1, rto |-> timing.rto,
                                resendts |-> (now + timing.rto + slack) % Wrap]
         [] flight.xmit > 0 /\ over ->
               [xmit |-> flight.xmit + 1, rto |-> again,
                resendts |-> (now + again) % Wrap]
         [] flight.xmit > 0 /\ ~over /\ overtaken ->
               [xmit |-> flight.xmit + 1, rto |-> flight.rto,
                resendts |-> (now + flight.rto) % Wrap]
         [] OTHER -> flight

Update(now, overtaken) ==
    /\ current' = now
    /\ IF Flushes(now)
       THEN /\ Resend(now, overtaken).xmit <= MaxXmit
            /\ flight' = Resend(now, overtaken)
            /\ timing' = [timing EXCEPT !.updated = TRUE,
                                        !.ts_flush = NextFlush(now)]
       ELSE UNCHANGED <<flight, timing>>
    /\ lull' = CASE Flushes(now) -> timing.interval
                 [] ~Flushes(now) /\ Itimediff(now, current) < 0 -> SlapLimit
                 [] OTHER -> lull

\* lkcp_flush: a flush at the time of the last update.
Flush(overtaken) ==
    /\ timing.updated
    /\ Resend(current, overtaken).xmit <= MaxXmit
    /\ flight' = Resend(current, overtaken)
    /\ UNCHANGED <<current, timing, lull>>

\* ikcp_update_ack, and the segment leaves snd_buf.
Ack(rtt) ==
    /\ flight.xmit > 0
    /\ flight' = NoSegment
    /\ LET t == timing
           delta == IF rtt > t.srtt THEN rtt - t.srtt ELSE t.srtt - rtt
           rttval == IF t.srtt = 0 THEN rtt \div 2 ELSE (3 * t.rttval + delta) \div 4
           srtt == IF t.srtt = 0 THEN rtt ELSE Imax(1, (7 * t.srtt + rtt) \div 8)
       IN timing' = [t EXCEPT !.srtt = srtt, !.rttval = rttval,
                     !.rto = Ibound(t.minrto, srtt + Imax(1, 4 * rttval), RtoMax)]
    /\ UNCHANGED <<current, lull>>

Nodelay(nodelay, interval) ==
    /\ timing' = [timing EXCEPT !.nodelay = nodelay, !.interval = interval,
                  !.minrto = IF nodelay THEN RtoNdl ELSE RtoMin]
    /\ UNCHANGED <<current, flight, lull>>

ClockNext ==
    \/ \E tick \in Ticks, overtaken \in BOOLEAN :
          Update((current + tick) % Wrap, overtaken)
    \/ \E overtaken \in BOOLEAN : Flush(overtaken)
    \/ \E rtt \in Rtts : Ack(rtt)
    \/ \E nodelay \in BOOLEAN, interval \in Intervals : Nodelay(nodelay, interval)

ClockSpec == ClockInit /\ [][ClockNext]_clockVars

\* Mutant of Check: only the flush counts, not the resend time.
Check_NoResend(now) ==
    LET wait == Min({-Slap(now), timing.interval})
    IN IF Slap(now) >= 0 \/ wait <= 0 THEN now ELSE (now + wait) % Wrap

\* When to call ikcp_update again.
Check(now) ==
    LET toFlush == -Slap(now)
        toResend == IF flight.xmit = 0 THEN {} ELSE {Itimediff(flight.resendts, now)}
        wait == Min({toFlush, timing.interval} \union toResend)
    IN IF Slap(now) >= 0 \/ wait <= 0 THEN now ELSE (now + wait) % Wrap

-----------------------------------------------------------------------------
(* Properties *)

\* A caller that sleeps until the time ikcp_check names misses nothing: at no
\* earlier time would ikcp_update have flushed or found a segment to resend.
CheckIsNotLate ==
    \A now \in {(current + tick) % Wrap : tick \in Ticks} :
        \A wait \in 0 .. SlapLimit :
            wait < (Check(now) - now) % Wrap =>
                /\ ~Flushes((now + wait) % Wrap)
                /\ flight.xmit > 0 =>
                     Itimediff((now + wait) % Wrap, flight.resendts) < 0

\* At an update the next flush is at most as far ahead as the interval that
\* the last flush took, when the clock did not step back since; and whatever
\* the clock did, at most SlapLimit.
SilenceIsBounded ==
    timing.updated => /\ Itimediff(timing.ts_flush, current) \in 1 .. lull
                      /\ lull <= SlapLimit

\* The resend time stays between its bounds under any measured round trips
\* and any change of mode, and a segment is never given less.
RtoIsBounded ==
    /\ timing.rto \in RtoNdl .. RtoMax
    /\ flight.xmit > 0 => flight.rto >= RtoNdl

=============================================================================
