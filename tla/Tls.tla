-------------------------------- MODULE Tls --------------------------------
(***************************************************************************)
(* Two ends of a TLS connection, each a tls_context of ltls.c: OpenSSL     *)
(* between two memory BIOs, with the caller carrying what is in them over  *)
(* a TCP connection.  OpenSSL is external: a handshake is a number of      *)
(* flights, sent in turn, the first by the client.  A record is a flight   *)
(* (a number) or a datum (a value of Data).                                *)
(***************************************************************************)
EXTENDS Integers, Sequences

CONSTANTS
    Flights,     \* flights of a handshake: 4 in TLS 1.2, 3 in TLS 1.3
    Data,        \* what the callers write
    MaxData      \* bound: how much an end writes

ASSUME TlsAssumption ==
    /\ Flights \subseteq Nat
    /\ \A d \in Data : d \notin Nat

VARIABLES
    flights,     \* how many this handshake has
    seen,        \* by end: the flights it has sent or read
    in_bio,
    out_bio,
    closed,      \* is_close
    wire,        \* by end: what is on its way to it
    written,     \* by end: what its caller wrote
    received     \* by end: what its caller read

tlsVars == <<flights, seen, in_bio, out_bio, closed, wire, written, received>>

Endpoint == {"client", "server"}

Other(e) == IF e = "client" THEN "server" ELSE "client"

\* The end that sends a flight.
Sender(n) == IF n % 2 = 1 THEN "client" ELSE "server"

TlsInit ==
    /\ flights \in Flights
    /\ seen = [e \in Endpoint |-> 0]
    /\ in_bio = [e \in Endpoint |-> <<>>]
    /\ out_bio = [e \in Endpoint |-> <<>>]
    /\ closed = [e \in Endpoint |-> FALSE]
    /\ wire = [e \in Endpoint |-> <<>>]
    /\ written = [e \in Endpoint |-> <<>>]
    /\ received = [e \in Endpoint |-> <<>>]

\* SSL_is_init_finished.
Finished(e) == seen[e] = flights

\* The last flight that end e reaches when it holds the records of in: it
\* reads those of its peer that are there and answers each with its own.
Reaches(e, in) ==
    CHOOSE n \in seen[e] .. flights :
        /\ \A i \in (seen[e] + 1) .. n :
              Sender(i) = e \/ \E j \in DOMAIN in : in[j] = i
        /\ n < flights => /\ Sender(n + 1) # e
                          /\ \A j \in DOMAIN in : in[j] # n + 1

\* The records of s that are in S, in their order.
Only(s, S) ==
    LET only[i \in 0 .. Len(s)] ==
          IF i = 0 THEN <<>>
          ELSE IF s[i] \in S THEN Append(only[i - 1], s[i]) ELSE only[i - 1]
    IN only[Len(s)]

\* What SSL_do_handshake leaves in in_bio and adds to out_bio.
Unread(e, in) == Only(in, Data \union (Reaches(e, in) + 1 .. flights))

Answers(e, in) ==
    Only([i \in 1 .. flights |-> i],
         {i \in seen[e] + 1 .. Reaches(e, in) : Sender(i) = e})

\* Mutant of Arrived: what handshake or write left in in_bio is gone.
Arrived_Fresh(e, n) == SubSeq(wire[e], 1, n)

\* The caller hands over the first n records that have arrived: _bio_write.
Arrived(e, n) == in_bio[e] \o SubSeq(wire[e], 1, n)

Rest(e, n) == SubSeq(wire[e], n + 1, Len(wire[e]))

\* _ltls_context_handshake: when it ends the handshake it returns nothing,
\* whatever is in out_bio.
Handshake(e, n) ==
    LET in == Arrived(e, n)
        out == out_bio[e] \o Answers(e, in)
        over == Reaches(e, in) = flights
    IN /\ ~closed[e] /\ ~Finished(e)
       /\ seen' = [seen EXCEPT ![e] = Reaches(e, in)]
       /\ in_bio' = [in_bio EXCEPT ![e] = Unread(e, in)]
       /\ out_bio' = [out_bio EXCEPT ![e] = IF over THEN out ELSE <<>>]
       /\ wire' = [wire EXCEPT ![e] = Rest(e, n),
                               ![Other(e)] = IF over THEN @ ELSE @ \o out]
       /\ UNCHANGED <<flights, closed, written, received>>

\* _ltls_context_read: SSL_read goes on with a handshake that is not over,
\* and the answers stay in out_bio.
TlsRead(e, n) ==
    LET in == Arrived(e, n)
        over == Reaches(e, in) = flights
    IN /\ ~closed[e]
       /\ seen' = [seen EXCEPT ![e] = Reaches(e, in)]
       /\ in_bio' = [in_bio EXCEPT ![e] = IF over THEN <<>> ELSE Unread(e, in)]
       /\ out_bio' = [out_bio EXCEPT ![e] = @ \o Answers(e, in)]
       /\ wire' = [wire EXCEPT ![e] = Rest(e, n)]
       /\ received' = [received EXCEPT ![e] = IF over THEN @ \o Unread(e, in) ELSE @]
       /\ UNCHANGED <<flights, closed, written>>

\* Mutant of TlsWrite: without data nothing is sent, not even what is in out_bio.
TlsWrite_NoFlush(e, data) ==
    LET goesOn == data # <<>> /\ ~Finished(e)
        out == out_bio[e] \o IF goesOn THEN Answers(e, in_bio[e]) ELSE <<>>
        fails == goesOn /\ Reaches(e, in_bio[e]) < flights
    IN /\ ~closed[e]
       /\ Len(written[e]) + Len(data) <= MaxData
       /\ IF goesOn
          THEN /\ seen' = [seen EXCEPT ![e] = Reaches(e, in_bio[e])]
               /\ in_bio' = [in_bio EXCEPT ![e] = Unread(e, in_bio[e])]
          ELSE UNCHANGED <<seen, in_bio>>
       /\ IF fails \/ data = <<>>
          THEN /\ out_bio' = [out_bio EXCEPT ![e] = out]
               /\ UNCHANGED <<wire, written>>
          ELSE /\ out_bio' = [out_bio EXCEPT ![e] = <<>>]
               /\ wire' = [wire EXCEPT ![Other(e)] = @ \o out \o data]
               /\ written' = [written EXCEPT ![e] = @ \o data]
       /\ UNCHANGED <<flights, closed, received>>

\* _ltls_context_write.  SSL_write, too, goes on with the handshake; when that
\* is not over it is an error and nothing is sent.  Without data only out_bio
\* is emptied.
TlsWrite(e, data) ==
    LET goesOn == data # <<>> /\ ~Finished(e)
        out == out_bio[e] \o IF goesOn THEN Answers(e, in_bio[e]) ELSE <<>>
        fails == goesOn /\ Reaches(e, in_bio[e]) < flights
    IN /\ ~closed[e]
       /\ Len(written[e]) + Len(data) <= MaxData
       /\ IF goesOn
          THEN /\ seen' = [seen EXCEPT ![e] = Reaches(e, in_bio[e])]
               /\ in_bio' = [in_bio EXCEPT ![e] = Unread(e, in_bio[e])]
          ELSE UNCHANGED <<seen, in_bio>>
       /\ IF fails
          THEN /\ out_bio' = [out_bio EXCEPT ![e] = out]
               /\ UNCHANGED <<wire, written>>
          ELSE /\ out_bio' = [out_bio EXCEPT ![e] = <<>>]
               /\ wire' = [wire EXCEPT ![Other(e)] = @ \o out \o data]
               /\ written' = [written EXCEPT ![e] = @ \o data]
       /\ UNCHANGED <<flights, closed, received>>

\* _ltls_context_close, by the caller or the collector: the BIOs are freed,
\* and the connection with them.
TlsClose(e) ==
    /\ ~closed[e]
    /\ closed' = [closed EXCEPT ![e] = TRUE]
    /\ in_bio' = [in_bio EXCEPT ![e] = <<>>]
    /\ out_bio' = [out_bio EXCEPT ![e] = <<>>]
    /\ UNCHANGED <<flights, seen, wire, written, received>>

Step(e) ==
    \/ \E n \in 0 .. Len(wire[e]) : Handshake(e, n) \/ TlsRead(e, n)
    \/ \E d \in Data : TlsWrite(e, <<d>>)
    \/ TlsWrite(e, <<>>)
    \/ TlsClose(e)

TlsNext == \E e \in Endpoint : Step(e)

TlsSpec == TlsInit /\ [][TlsNext]_tlsVars

\* The caller's loop: it hands what has arrived to the handshake until that is
\* over, then empties out_bio with a write.
Exchange(e) == Handshake(e, Len(wire[e])) \/ (Finished(e) /\ TlsWrite(e, <<>>))

TlsFairness == \A e \in Endpoint : WF_tlsVars(Exchange(e))

TlsFairSpec == TlsSpec /\ TlsFairness

-----------------------------------------------------------------------------
(* Properties *)

\* Whatever chunks TCP makes of the records, and wherever handshake, read and
\* write leave some in a BIO, what an end wrote is, in order and each once,
\* with the caller of the other end or on its way to it, while both are open.
BytesInOrder ==
    \A e \in Endpoint :
        ~(closed[e] \/ closed[Other(e)]) =>
            written[Other(e)] =
                received[e] \o Only(in_bio[e] \o wire[e] \o out_bio[Other(e)], Data)

\* The last flight, which handshake leaves in out_bio when it ends, leaves
\* with the next write: no two ends wait for each other for good.
Over == (\E e \in Endpoint : closed[e]) \/ (\A e \in Endpoint : Finished(e))

HandshakesEnd == <>Over

=============================================================================
