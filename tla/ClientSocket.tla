---------------------------- MODULE ClientSocket ----------------------------
(***************************************************************************)
(* A socket of lua-clientsocket.c and the end it is connected to.  The     *)
(* kernel is external: it takes a part of what is sent, gives a part of    *)
(* what has come, may answer EAGAIN or EINTR, and loses the connection.    *)
(* What is sent goes through the loops of block_send and write_sz, one     *)
(* call of the kernel at a time.  read_n is left out: it reads each part   *)
(* to the start of its buffer.                                             *)
(***************************************************************************)
EXTENDS Integers, Sequences, SequencesExt

CONSTANTS
    Packets,     \* what the caller sends: sequences of bytes
    Bytes,       \* what the other end sends
    MaxBytes,    \* bound: bytes in either direction
    CACHE_SIZE   \* 0x1000

ASSUME SocketAssumption ==
    Packets \subseteq Seq(Bytes) /\ MaxBytes \in Nat

VARIABLES
    fd,          \* "none", "open", "peer_closed", "broken" or "closed"
    sending,     \* what the loop of block_send has left
    asked,       \* what the caller gave to calls of send
    arrived,     \* what the other end was given
    coming,      \* what the other end has sent and nobody has read
    served,      \* all it has sent
    taken,       \* what the caller got
    returned     \* of the last call: "data", "block", "close" or "error"

socketVars == <<fd, sending, asked, arrived, coming, served, taken, returned>>

SocketInit ==
    /\ fd = "none"
    /\ sending = <<>> /\ asked = <<>> /\ arrived = <<>>
    /\ coming = <<>> /\ served = <<>> /\ taken = <<>>
    /\ returned = "block"

\* lconnect: a descriptor of a connection that fails is never closed.
Connect ==
    /\ fd = "none"
    /\ \/ fd' = "open" /\ UNCHANGED returned
       \/ returned' = "error" /\ UNCHANGED fd
    /\ UNCHANGED <<sending, asked, arrived, coming, served, taken>>

Send(m) ==
    /\ fd = "open" /\ sending = <<>>
    /\ Len(asked) + Len(m) <= MaxBytes
    /\ sending' = m
    /\ asked' = asked \o m
    /\ UNCHANGED <<fd, arrived, coming, served, taken, returned>>

\* Mutant of BlockSend: the buffer is not moved past what was sent.
BlockSend_NoAdvance(r) ==
    /\ fd = "open" /\ r \in 1 .. Len(sending)
    /\ arrived' = arrived \o SubSeq(sending, 1, r)
    /\ sending' = SubSeq(sending, 1, Len(sending) - r)
    /\ UNCHANGED <<fd, asked, coming, served, taken, returned>>

\* One turn of the loop that sends r bytes; EAGAIN and EINTR leave it as it is.
BlockSend(r) ==
    /\ fd = "open" /\ r \in 1 .. Len(sending)
    /\ arrived' = arrived \o SubSeq(sending, 1, r)
    /\ sending' = SubSeq(sending, r + 1, Len(sending))
    /\ UNCHANGED <<fd, asked, coming, served, taken, returned>>

\* Any other error leaves the loop, and the call, at once.
BlockSendFails ==
    /\ fd = "broken" /\ sending # <<>>
    /\ sending' = <<>>
    /\ returned' = "error"
    /\ UNCHANGED <<fd, asked, arrived, coming, served, taken>>

\* A call of read that finds r bytes: lrecv, and read_2 and read_8, which
\* give what one read gives, however short.
Take(r, atMost) ==
    /\ fd \in {"open", "peer_closed"} /\ sending = <<>>
    /\ r \in 1 .. Len(coming) /\ r <= atMost
    /\ taken' = taken \o SubSeq(coming, 1, r)
    /\ coming' = SubSeq(coming, r + 1, Len(coming))
    /\ returned' = "data"
    /\ UNCHANGED <<fd, sending, asked, arrived, served>>

\* lrecv with nothing to read.  At the end of the stream read_2 and read_8
\* give the empty string as lrecv does, and they raise the same error; with
\* nothing to read they go on in their loop, which changes nothing.
RecvNothing ==
    /\ fd \in {"open", "peer_closed", "broken"} /\ sending = <<>>
    /\ fd # "broken" => coming = <<>>
    /\ returned' = CASE fd = "open" -> "block"
                   [] fd = "peer_closed" -> "close"
                   [] fd = "broken" -> "error"
    /\ UNCHANGED <<fd, sending, asked, arrived, coming, served, taken>>

Serve(b) ==
    /\ fd = "open" /\ Len(served) < MaxBytes
    /\ served' = Append(served, b)
    /\ coming' = Append(coming, b)
    /\ UNCHANGED <<fd, sending, asked, arrived, taken, returned>>

PeerCloses ==
    /\ fd = "open" /\ sending = <<>>
    /\ fd' = "peer_closed"
    /\ UNCHANGED <<sending, asked, arrived, coming, served, taken, returned>>

Break ==
    /\ fd = "open"
    /\ fd' = "broken"
    /\ UNCHANGED <<sending, asked, arrived, coming, served, taken, returned>>

\* lclose.
SocketClose ==
    /\ fd \in {"open", "peer_closed", "broken"} /\ sending = <<>>
    /\ fd' = "closed"
    /\ UNCHANGED <<sending, asked, arrived, coming, served, taken, returned>>

SocketNext ==
    \/ Connect
    \/ \E m \in Packets : Send(m)
    \/ \E r \in 1 .. MaxBytes : BlockSend(r)
    \/ BlockSendFails
    \/ \E r \in 1 .. MaxBytes, atMost \in {CACHE_SIZE, 2, 8} : Take(r, atMost)
    \/ RecvNothing
    \/ \E b \in Bytes : Serve(b)
    \/ PeerCloses
    \/ Break
    \/ SocketClose

SocketSpec == SocketInit /\ [][SocketNext]_socketVars

-----------------------------------------------------------------------------
(* Properties *)

\* However the kernel cuts what is sent and what is received, neither a byte
\* nor the order is lost: what has arrived is the beginning of what was asked
\* for, all of it once no call is under way and none has failed; and "close"
\* is answered only when everything the other end sent has been taken.
StreamsAreWhole ==
    /\ IsPrefix(arrived, asked)
    /\ (fd # "broken" /\ returned # "error") => asked = arrived \o sending
    /\ IsPrefix(taken, served)
    /\ returned = "close" => taken = served

=============================================================================
