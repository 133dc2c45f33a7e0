----------------------------- MODULE KcpChannel -----------------------------
(***************************************************************************)
(* What a KCP session promises its two users: the messages one side hands  *)
(* to ikcp_send come out of ikcp_recv on the other side whole, in order    *)
(* and once each.                                                          *)
(***************************************************************************)
EXTENDS Naturals, Sequences

CONSTANTS Peer, Message

VARIABLES
    sent,      \* messages accepted by ikcp_send, for each sender
    received   \* messages returned by ikcp_recv, for each sender

channelVars == <<sent, received>>

Init ==
    /\ sent = [p \in Peer |-> <<>>]
    /\ received = [p \in Peer |-> <<>>]

\* The sender's user hands over one more message.
Accept(p) ==
    /\ \E m \in Message : sent' = [sent EXCEPT ![p] = Append(@, m)]
    /\ UNCHANGED received

\* The other user takes the oldest message it has not seen.
Take(p) ==
    /\ Len(received[p]) < Len(sent[p])
    /\ received' = [received EXCEPT ![p] = Append(@, sent[p][Len(@) + 1])]
    /\ UNCHANGED sent

Next == \E p \in Peer : Accept(p) \/ Take(p)

Spec == Init /\ [][Next]_channelVars

=============================================================================
