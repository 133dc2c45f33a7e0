-------------------------------- MODULE Kcp --------------------------------
(***************************************************************************)
(* The reliable transport over UDP of 3rd/src-c/kcp/ikcp.c: two control    *)
(* blocks, the datagrams between them, and the two users of lkcp.c.  A     *)
(* datagram may be lost, duplicated or overtaken.                          *)
(*                                                                         *)
(* Timers are not clocks here: at a flush any segment in flight may or may *)
(* not have reached its resend time, and so may the window probe.  The     *)
(* arithmetic of the clock is in KcpClock.  kcp->state, set to -1 when a   *)
(* segment was sent dead_link times, is read nowhere and is left out.      *)
(***************************************************************************)
EXTENDS Integers, FiniteSets, SequencesExt

CONSTANTS
    Peer,          \* the two ends of the session
    Script,        \* Script[p]: fragment counts of the messages p's user sends
    MaxFragments,  \* ikcp_send refuses messages of more fragments (255)
    SndWnd,        \* snd_wnd of both ends, as set by ikcp_wndsize
    RcvWnd,        \* rcv_wnd of both ends, as set by ikcp_wndsize
    WndRcv,        \* IKCP_WND_RCV, the remote window assumed at first
    Mtu,           \* size of a datagram, in segment headers
    PushSize,      \* size of a data segment with its header, at most Mtu
    FastResend,    \* acks of later segments that cause a resend, 0: never
    NoCwnd,        \* TRUE: congestion control off
    NetCap,        \* bound: datagrams under way to one end
    AckCap,        \* bound: acknowledgements an end has still to send
    MaxFaults      \* bound: datagrams the network loses or repeats

ASSUME KcpAssumption ==
    /\ IsFiniteSet(Peer) /\ Cardinality(Peer) = 2
    /\ Script \in [Peer -> Seq(Nat \ {0})]
    /\ {SndWnd, RcvWnd, WndRcv, PushSize, NetCap, AckCap} \subseteq Nat \ {0}
    /\ {Mtu, MaxFragments, FastResend, MaxFaults} \subseteq Nat
    /\ PushSize <= Mtu /\ Mtu > 1
    /\ NoCwnd \in BOOLEAN

VARIABLES
    kcp,       \* the control block of each end
    net,       \* net[p]: datagrams under way to p
    offered,   \* how much of Script[p] the user has tried to send
    sent,      \* messages, as fragments, that ikcp_send accepted from p
    received,  \* messages of p that ikcp_recv put together at the other end
    faults     \* datagrams lost or repeated so far

vars == <<kcp, net, offered, sent, received, faults>>

Remote(p) == CHOOSE q \in Peer : q # p

\* A message is named by its sender's position in the script; a fragment by
\* its message and its place in it.  frg counts the fragments still to come.
Fragment(m, i, count) == [msg |-> m, part |-> i, frg |-> count - i]

FragmentsOf(m, count) == [i \in 1 .. count |-> Fragment(m, i, count)]

Mss == Mtu - 1
ThreshInit == 2
ThreshMin == 2

IkcpCreate ==
    [snd_una |-> 0, snd_nxt |-> 0, rcv_nxt |-> 0, rmt_wnd |-> WndRcv,
     cwnd |-> 0, incr |-> 0, ssthresh |-> ThreshInit,
     ask_tell |-> FALSE, probe_wait |-> FALSE,
     snd_queue |-> <<>>, snd_buf |-> <<>>, rcv_buf |-> <<>>,
     rcv_queue |-> <<>>, acklist |-> <<>>]

Init ==
    /\ kcp = [p \in Peer |-> IkcpCreate]
    /\ net = [p \in Peer |-> <<>>]
    /\ offered = [p \in Peer |-> 0]
    /\ sent = [p \in Peer |-> <<>>]
    /\ received = [p \in Peer |-> <<>>]
    /\ faults = 0

-----------------------------------------------------------------------------
(* Receiving side *)

WndUnused(k) == IF Len(k.rcv_queue) < RcvWnd THEN RcvWnd - Len(k.rcv_queue)
                                             ELSE 0

\* The loop that ends both ikcp_recv and ikcp_parse_data: segments leave
\* rcv_buf while the next one is there and the queue has room.
MoveReady(k) ==
    LET Ready(n) == /\ n <= Len(k.rcv_buf)
                    /\ Len(k.rcv_queue) + n <= RcvWnd
                    /\ \A i \in 1 .. n : k.rcv_buf[i].sn = k.rcv_nxt + i - 1
        n == Max({i \in 0 .. Len(k.rcv_buf) : Ready(i)} \union {0})
    IN [k EXCEPT !.rcv_queue = @ \o [i \in 1 .. n |-> k.rcv_buf[i].data],
                 !.rcv_buf = SubSeq(@, n + 1, Len(@)),
                 !.rcv_nxt = @ + n]

\* Mutant of ParseData: the segment goes to the end of the buffer.
ParseData_AtEnd(k, seg) ==
    LET isRepeat == \E i \in DOMAIN k.rcv_buf : k.rcv_buf[i].sn = seg.sn
    IN IF seg.sn >= k.rcv_nxt + RcvWnd \/ seg.sn < k.rcv_nxt \/ isRepeat
       THEN k
       ELSE MoveReady([k EXCEPT !.rcv_buf = Append(@, seg)])

\* Insertion behind the last segment of a lower number, seen from the tail; a
\* repeated segment is dropped.
ParseData(k, seg) ==
    LET before == Max({i \in DOMAIN k.rcv_buf : k.rcv_buf[i].sn < seg.sn} \union {0})
        isRepeat == \E i \in DOMAIN k.rcv_buf : k.rcv_buf[i].sn = seg.sn
        inserted == IF isRepeat THEN k.rcv_buf
                    ELSE InsertAt(k.rcv_buf, before + 1, seg)
    IN IF seg.sn >= k.rcv_nxt + RcvWnd \/ seg.sn < k.rcv_nxt
       THEN k
       ELSE MoveReady([k EXCEPT !.rcv_buf = inserted])

\* Mutant of PeekSize: a message whose end is missing is given as it is.
PeekSize_Partial(k) ==
    Min({i \in DOMAIN k.rcv_queue : k.rcv_queue[i].frg = 0}
        \union {Len(k.rcv_queue)})

\* Number of segments in the first message of the queue, 0 while incomplete.
PeekSize(k) ==
    IF k.rcv_queue = <<>> \/ Len(k.rcv_queue) < Head(k.rcv_queue).frg + 1
    THEN 0
    ELSE Min({i \in DOMAIN k.rcv_queue : k.rcv_queue[i].frg = 0})

-----------------------------------------------------------------------------
(* Sending side *)

ShrinkBuf(k) ==
    [k EXCEPT !.snd_una = IF k.snd_buf # <<>> THEN Head(k.snd_buf).sn
                                              ELSE k.snd_nxt]

\* Mutant of ParseUna: the segment that una itself names leaves, too.
ParseUna_Through(k, una) ==
    LET Seen(n) == \A i \in 1 .. n : k.snd_buf[i].sn <= una
        n == Max({i \in 0 .. Len(k.snd_buf) : Seen(i)})
    IN [k EXCEPT !.snd_buf = SubSeq(@, n + 1, Len(@))]

\* Everything the remote end has received in order leaves snd_buf: the loop
\* stops at the first segment that una does not cover.
ParseUna(k, una) ==
    LET Seen(n) == \A i \in 1 .. n : k.snd_buf[i].sn < una
        n == Max({i \in 0 .. Len(k.snd_buf) : Seen(i)})
    IN [k EXCEPT !.snd_buf = SubSeq(@, n + 1, Len(@))]

\* The acknowledged segment leaves snd_buf and those the scan passed before
\* it count one more overtaking: all of them when it was no longer there.
\* fastack is only compared with FastResend: the model stops it there.
ParseAck(k, sn) ==
    LET buf == k.snd_buf
        stop == Min({i \in DOMAIN buf : buf[i].sn = sn} \union {Len(buf) + 1})
        Passed(i) == IF i < stop /\ buf[i].fastack < FastResend
                     THEN [buf[i] EXCEPT !.fastack = @ + 1] ELSE buf[i]
    IN IF sn < k.snd_una \/ sn >= k.snd_nxt
       THEN k
       ELSE [k EXCEPT !.snd_buf = RemoveAt([i \in DOMAIN buf |-> Passed(i)], stop)]

\* The congestion window grows once for a datagram that moves snd_una.
GrowCwnd(k, una) ==
    LET slow == [k EXCEPT !.cwnd = @ + 1, !.incr = @ + Mss]
        base == Max({k.incr, Mss})
        incr == base + (Mss * Mss) \div base + Mss \div 16
        careful == [k EXCEPT !.incr = incr,
                    !.cwnd = IF (@ + 1) * Mss >= incr THEN @ + 1 ELSE @]
        grown == IF k.cwnd < k.ssthresh THEN slow ELSE careful
    IN CASE ~(k.snd_una > una /\ k.cwnd < k.rmt_wnd) -> k
         [] grown.cwnd > k.rmt_wnd ->
              [grown EXCEPT !.cwnd = k.rmt_wnd, !.incr = k.rmt_wnd * Mss]
         [] OTHER -> grown

\* One segment of a datagram.
InputSegment(k, seg) ==
    LET seen == ShrinkBuf(ParseUna([k EXCEPT !.rmt_wnd = seg.wnd], seg.una))
        data == [sn |-> seg.sn, data |-> seg.data]
    IN CASE seg.cmd = "ack" -> ShrinkBuf(ParseAck(seen, seg.sn))
         [] seg.cmd = "push" /\ seg.sn < seen.rcv_nxt + RcvWnd ->
              ParseData([seen EXCEPT !.acklist = Append(@, seg.sn)], data)
         [] seg.cmd = "wask" -> [seen EXCEPT !.ask_tell = TRUE]
         [] OTHER -> seen

\* The loop of ikcp_input: after[i] is the control block after i segments.
InputLoop(k, datagram) ==
    LET after[i \in 0 .. Len(datagram)] ==
            IF i = 0 THEN k ELSE InputSegment(after[i - 1], datagram[i])
    IN after

IkcpInput(k, datagram) ==
    GrowCwnd(InputLoop(k, datagram)[Len(datagram)], k.snd_una)

\* The segments of a flush, put into datagrams of at most Mtu.
SizeOf(seg) == IF seg.cmd = "push" THEN PushSize ELSE 1

Size(datagram) ==
    LET pushes == Cardinality({i \in DOMAIN datagram : datagram[i].cmd = "push"})
    IN pushes * PushSize + Len(datagram) - pushes

Put(out, seg) ==
    IF out # <<>> /\ Size(Last(out)) + SizeOf(seg) <= Mtu
    THEN [out EXCEPT ![Len(out)] = Append(@, seg)]
    ELSE Append(out, <<seg>>)

Packed(segs) ==
    LET out[i \in 0 .. Len(segs)] ==
            IF i = 0 THEN <<>> ELSE Put(out[i - 1], segs[i])
    IN out

Pack(segs) == Packed(segs)[Len(segs)]

\* Fragments the window lets leave snd_queue, with their numbers.
FlushWindow(k) ==
    Min({SndWnd, k.rmt_wnd} \union (IF NoCwnd THEN {} ELSE {k.cwnd}))

\* Mutant of MoveToBuf: the window begins at snd_nxt, not at snd_una.
MoveToBuf_FromNext(k) ==
    LET n == Min({FlushWindow(k), Len(k.snd_queue)})
        Fresh(i) == [sn |-> k.snd_nxt + i - 1, data |-> k.snd_queue[i],
                     xmit |-> FALSE, fastack |-> 0]
    IN [k EXCEPT !.snd_buf = @ \o [i \in 1 .. n |-> Fresh(i)],
                 !.snd_queue = SubSeq(@, n + 1, Len(@)),
                 !.snd_nxt = @ + n]

MoveToBuf(k) ==
    LET room == Max({0, k.snd_una + FlushWindow(k) - k.snd_nxt})
        n == Min({room, Len(k.snd_queue)})
        Fresh(i) == [sn |-> k.snd_nxt + i - 1, data |-> k.snd_queue[i],
                     xmit |-> FALSE, fastack |-> 0]
    IN [k EXCEPT !.snd_buf = @ \o [i \in 1 .. n |-> Fresh(i)],
                 !.snd_queue = SubSeq(@, n + 1, Len(@)),
                 !.snd_nxt = @ + n]

\* Which segments of snd_buf a flush sends: those never sent, those whose
\* resend time is over (due), those overtaken often enough.
IsLate(s, due) == s.xmit /\ s.sn \in due
IsOvertaken(s, due) ==
    s.xmit /\ s.sn \notin due /\ FastResend > 0 /\ s.fastack >= FastResend
NeedSend(s, due) == ~s.xmit \/ IsLate(s, due) \/ IsOvertaken(s, due)

\* The windows after a flush of the segments buf, win being its window.
AdjustCwnd(k, buf, due, win) ==
    LET change == \E i \in DOMAIN buf : IsOvertaken(buf[i], due)
        lost == \E i \in DOMAIN buf : IsLate(buf[i], due)
        half == Max({(k.snd_nxt - k.snd_una) \div 2, ThreshMin})
    IN CASE lost -> [k EXCEPT !.ssthresh = Max({win \div 2, ThreshMin}),
                              !.cwnd = 1, !.incr = Mss]
         [] change /\ ~lost -> [k EXCEPT !.ssthresh = half,
                                         !.cwnd = half + FastResend,
                                         !.incr = (half + FastResend) * Mss]
         [] OTHER -> IF k.cwnd < 1 THEN [k EXCEPT !.cwnd = 1, !.incr = Mss]
                                   ELSE k

\* The data segments of a flush, out of the segments buf of snd_buf.
Header(k, cmd, sn) ==
    [cmd |-> cmd, sn |-> sn, una |-> k.rcv_nxt, wnd |-> WndUnused(k)]
Push(k, s) ==
    [cmd |-> "push", sn |-> s.sn, una |-> k.rcv_nxt, wnd |-> WndUnused(k),
     data |-> s.data]

Pushes(k, buf, due) ==
    LET chosen[i \in 0 .. Len(buf)] ==
            IF i = 0 THEN <<>>
            ELSE IF NeedSend(buf[i], due) THEN Append(chosen[i - 1], Push(k, buf[i]))
            ELSE chosen[i - 1]
    IN chosen

\* Mutant of FlushSegments: a closed window is not asked about.
FlushSegments_NoProbe(k, due, probeDue) ==
    LET acks == [i \in DOMAIN k.acklist |-> Header(k, "ack", k.acklist[i])]
        wins == IF k.ask_tell THEN <<Header(k, "wins", 0)>> ELSE <<>>
        buf == MoveToBuf(k).snd_buf
    IN acks \o wins \o Pushes(k, buf, due)[Len(buf)]

\* Acknowledgements, probes, then data.  due: the segments whose resend
\* time is over, probeDue: the time of the window probe is over.
FlushSegments(k, due, probeDue) ==
    LET acks == [i \in DOMAIN k.acklist |-> Header(k, "ack", k.acklist[i])]
        wask == IF k.rmt_wnd = 0 /\ k.probe_wait /\ probeDue
                THEN <<Header(k, "wask", 0)>> ELSE <<>>
        wins == IF k.ask_tell THEN <<Header(k, "wins", 0)>> ELSE <<>>
        buf == MoveToBuf(k).snd_buf
    IN acks \o wask \o wins \o Pushes(k, buf, due)[Len(buf)]

FlushState(k, due) ==
    LET moved == MoveToBuf(k)
        Sent(s) == [s EXCEPT !.xmit = TRUE,
                             !.fastack = IF IsOvertaken(s, due) THEN 0 ELSE @]
        buf == moved.snd_buf
        flushed == [moved EXCEPT !.acklist = <<>>, !.ask_tell = FALSE,
                                 !.probe_wait = (k.rmt_wnd = 0),
                                 !.snd_buf = [i \in DOMAIN buf |-> Sent(buf[i])]]
    IN AdjustCwnd(flushed, buf, due, FlushWindow(k))

-----------------------------------------------------------------------------
(* Steps *)

\* lkcp_send: a message of too many fragments is refused with -2.
Send(p) ==
    /\ offered[p] < Len(Script[p])
    /\ offered' = [offered EXCEPT ![p] = @ + 1]
    /\ LET m == offered[p] + 1
           message == FragmentsOf(m, Script[p][m])
       IN IF Len(message) > MaxFragments
          THEN UNCHANGED <<kcp, sent>>
          ELSE /\ kcp' = [kcp EXCEPT ![p].snd_queue = @ \o message]
               /\ sent' = [sent EXCEPT ![p] = Append(@, message)]
    /\ UNCHANGED <<net, received, faults>>

\* lkcp_recv when a whole message is there.  A queue that was full and now
\* has room is told to the other end at the next flush.
Recv(p) ==
    /\ PeekSize(kcp[p]) > 0
    /\ LET k == kcp[p]
           n == PeekSize(k)
           moved == MoveReady([k EXCEPT !.rcv_queue = SubSeq(@, n + 1, Len(@))])
           recover == Len(k.rcv_queue) >= RcvWnd /\ Len(moved.rcv_queue) < RcvWnd
       IN /\ kcp' = [kcp EXCEPT ![p] = [moved EXCEPT !.ask_tell = @ \/ recover]]
          /\ received' = [received EXCEPT ![Remote(p)] =
                             Append(@, SubSeq(k.rcv_queue, 1, n))]
    /\ UNCHANGED <<net, offered, sent, faults>>

\* lkcp_update when the interval is over, or lkcp_flush.
Update(p, due, probeDue) ==
    /\ LET out == Pack(FlushSegments(kcp[p], due, probeDue))
       IN /\ Len(net[Remote(p)]) + Len(out) <= NetCap
          /\ net' = [net EXCEPT ![Remote(p)] = @ \o out]
    /\ kcp' = [kcp EXCEPT ![p] = FlushState(@, due)]
    /\ UNCHANGED <<offered, sent, received, faults>>

\* lkcp_input of any datagram under way: they overtake each other.
Deliver(p, i) ==
    /\ i \in DOMAIN net[p]
    /\ Len(kcp[p].acklist) < AckCap
    /\ kcp' = [kcp EXCEPT ![p] = IkcpInput(@, net[p][i])]
    /\ net' = [net EXCEPT ![p] = RemoveAt(@, i)]
    /\ UNCHANGED <<offered, sent, received, faults>>

Lose(p, i) ==
    /\ i \in DOMAIN net[p] /\ faults < MaxFaults
    /\ net' = [net EXCEPT ![p] = RemoveAt(@, i)]
    /\ faults' = faults + 1
    /\ UNCHANGED <<kcp, offered, sent, received>>

Duplicate(p, i) ==
    /\ i \in DOMAIN net[p] /\ faults < MaxFaults /\ Len(net[p]) < NetCap
    /\ net' = [net EXCEPT ![p] = Append(@, @[i])]
    /\ faults' = faults + 1
    /\ UNCHANGED <<kcp, offered, sent, received>>

InFlight(p) == {kcp[p].snd_buf[i].sn : i \in DOMAIN kcp[p].snd_buf}

Next ==
    \E p \in Peer :
        \/ Send(p)
        \/ Recv(p)
        \/ \E due \in SUBSET InFlight(p), probeDue \in BOOLEAN :
               Update(p, due, probeDue)
        \/ \E i \in 1 .. NetCap : Deliver(p, i) \/ Lose(p, i) \/ Duplicate(p, i)

Spec == Init /\ [][Next]_vars

\* Both users keep calling lkcp_update with a clock that advances, so that
\* every resend time comes; both read what is there; the network delivers
\* what it does not lose.  Strong fairness of Update makes up for NetCap,
\* Deliver for AckCap: the bounds of the model block them now and then.
Fairness ==
    \A p \in Peer : /\ WF_vars(Recv(p))
                    /\ SF_vars(Update(p, InFlight(p), TRUE))
                    /\ SF_vars(Deliver(p, 1))

FairSpec == Spec /\ Fairness

-----------------------------------------------------------------------------
(* Properties *)

Ascending(buf) ==
    \A i \in DOMAIN buf, j \in DOMAIN buf : i < j => buf[i].sn < buf[j].sn

\* Types, and the order and the bounds of the four queues of a control
\* block: the counters agree with the windows of ikcp_wndsize.
TypeOK ==
    /\ offered \in [Peer -> Nat]
    /\ faults \in 0 .. MaxFaults
    /\ \A p \in Peer :
        /\ Len(net[p]) <= NetCap
        /\ \A i \in DOMAIN kcp[p].snd_queue : kcp[p].snd_queue[i].frg \in Nat
        /\ Ascending(kcp[p].snd_buf)
        /\ Ascending(kcp[p].rcv_buf)
        /\ {kcp[p].cwnd, kcp[p].rmt_wnd, kcp[p].ssthresh, kcp[p].incr} \subseteq Nat

\* What the sender no longer keeps, the receiver has: a fragment leaves
\* snd_buf (ikcp_parse_una, ikcp_parse_ack) only when it is in the receiver's
\* buffer or was passed on, whatever was lost, repeated or overtaken.
NothingForgotten ==
    \A p \in Peer : \A sn \in 0 .. kcp[p].snd_nxt - 1 :
        \/ sn \in InFlight(p)
        \/ sn < kcp[Remote(p)].rcv_nxt
        \/ \E i \in DOMAIN kcp[Remote(p)].rcv_buf :
               kcp[Remote(p)].rcv_buf[i].sn = sn

\* The two windows: never more fragments in flight than snd_wnd, never more
\* than rcv_wnd waiting for the user, and nothing kept beyond the window.
WithinWindows ==
    \A p \in Peer :
        LET k == kcp[p] IN
        /\ k.snd_nxt - k.snd_una <= SndWnd
        /\ Len(k.rcv_queue) <= RcvWnd
        /\ \A i \in DOMAIN k.rcv_buf :
              k.rcv_buf[i].sn \in k.rcv_nxt .. k.rcv_nxt + RcvWnd - 1

\* The session implements the channel: messages come out whole, in order
\* and once each.
Messages(p) == {FragmentsOf(m, Script[p][m]) : m \in DOMAIN Script[p]}

Channel == INSTANCE KcpChannel WITH
    Message <- UNION {Messages(p) : p \in Peer}

ChannelSpec == Channel!Spec

\* Everything ikcp_send accepted arrives: nobody waits for ever on a closed
\* window, a lost acknowledgement or a lost answer to a probe.
AllArrives ==
    \A p \in Peer : \A n \in DOMAIN Script[p] :
        Len(sent[p]) >= n ~> Len(received[p]) >= n

=============================================================================
