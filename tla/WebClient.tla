----------------------------- MODULE WebClient -----------------------------
(***************************************************************************)
(* The HTTP client of webclient.c: requests on a libcurl multi handle, the *)
(* buffer a body grows in, and what is allocated for each request.         *)
(* libcurl is external: it delivers a body in pieces, ends a request with  *)
(* a result, and tells of each request that ended once.                    *)
(***************************************************************************)
EXTENDS Integers, Sequences, FiniteSetsExt

CONSTANTS
    Request,     \* struct webrequest
    Piece,       \* what one call of write_callback brings: its length
    MaxPieces,   \* bound: pieces of a body
    Initial      \* the smallest buffer before it is doubled (512)

ASSUME WebAssumption == Piece \subseteq Nat /\ MaxPieces \in Nat /\ Initial \in Nat

VARIABLES
    curlm,       \* the multi handle: "none", "live" or "freed"
    encoding,    \* encoding_curl is there
    request,     \* "none", "running", "ended", "told" or "removed"
    delivered,   \* the pieces libcurl has delivered
    content,     \* the pieces kept in the buffer
    maxlength,   \* content_maxlength
    block,       \* bytes the buffer really has
    failed,      \* content_realloc_failed
    error,       \* the error text is not empty
    response     \* what get_respond gave last: body and error

webVars == <<curlm, encoding, request, delivered, content, maxlength, block,
             failed, error, response>>

LengthOf(s) ==
    LET sum[i \in 0 .. Len(s)] == IF i = 0 THEN 0 ELSE sum[i - 1] + s[i]
    IN sum[Len(s)]

WebInit ==
    /\ curlm = "none" /\ encoding = FALSE
    /\ request = [r \in Request |-> "none"]
    /\ delivered = [r \in Request |-> <<>>]
    /\ content = [r \in Request |-> <<>>]
    /\ maxlength = [r \in Request |-> 0]
    /\ block = [r \in Request |-> 0]
    /\ failed = [r \in Request |-> FALSE]
    /\ error = [r \in Request |-> FALSE]
    /\ response = [r \in Request |-> [given |-> FALSE, body |-> <<>>, error |-> FALSE]]

\* webclient_create.
WebCreate ==
    /\ curlm = "none"
    /\ curlm' = "live"
    /\ UNCHANGED <<encoding, request, delivered, content, maxlength, block,
                   failed, error, response>>

\* url_encoding makes its own handle at the first call.
UrlEncoding ==
    /\ curlm = "live" /\ ~encoding
    /\ encoding' = TRUE
    /\ UNCHANGED <<curlm, request, delivered, content, maxlength, block,
                   failed, error, response>>

\* webclient_request; when it fails nothing of it is left but, at times, the
\* form it was to post.
MakeRequest(r) ==
    /\ curlm = "live" /\ request[r] = "none"
    /\ request' = [request EXCEPT ![r] = "running"]
    /\ UNCHANGED <<curlm, encoding, delivered, content, maxlength, block,
                   failed, error, response>>

\* write_callback, called by curl_multi_perform in webclient_query: what is
\* not enough is doubled, and from a realloc that failed on all is dropped.
Grown(r, length) ==
    2 * Max({maxlength[r], LengthOf(content[r]) + length, Initial})

\* Mutant of WriteCallback: it goes on after a realloc that failed.
WriteCallback_GoesOn(r, length, memory) ==
    LET fits == LengthOf(content[r]) + length <= maxlength[r]
    IN /\ curlm = "live" /\ request[r] = "running"
       /\ Len(delivered[r]) < MaxPieces
       /\ delivered' = [delivered EXCEPT ![r] = Append(@, length)]
       /\ maxlength' = [maxlength EXCEPT ![r] = IF fits THEN @ ELSE Grown(r, length)]
       /\ IF fits \/ memory
          THEN /\ content' = [content EXCEPT ![r] = Append(@, length)]
               /\ block' = [block EXCEPT ![r] = IF fits THEN @ ELSE Grown(r, length)]
               /\ UNCHANGED failed
          ELSE /\ failed' = [failed EXCEPT ![r] = TRUE]
               /\ UNCHANGED <<content, block>>
       /\ UNCHANGED <<curlm, encoding, request, error, response>>

WriteCallback(r, length, memory) ==
    LET fits == LengthOf(content[r]) + length <= maxlength[r]
    IN /\ curlm = "live" /\ request[r] = "running"
       /\ Len(delivered[r]) < MaxPieces
       /\ delivered' = [delivered EXCEPT ![r] = Append(@, length)]
       /\ IF failed[r]
          THEN UNCHANGED <<content, maxlength, block, failed>>
          ELSE /\ maxlength' = [maxlength EXCEPT ![r] = IF fits THEN @ ELSE Grown(r, length)]
               /\ IF fits \/ memory
                  THEN /\ content' = [content EXCEPT ![r] = Append(@, length)]
                       /\ block' = [block EXCEPT ![r] = IF fits THEN @ ELSE Grown(r, length)]
                       /\ UNCHANGED failed
                  ELSE /\ failed' = [failed EXCEPT ![r] = TRUE]
                       /\ UNCHANGED <<content, block>>
       /\ UNCHANGED <<curlm, encoding, request, error, response>>

\* The transfer ends, with an error or not.
EndTransfer(r) ==
    /\ curlm = "live" /\ request[r] = "running"
    /\ request' = [request EXCEPT ![r] = "ended"]
    /\ \E e \in BOOLEAN : error' = [error EXCEPT ![r] = e]
    /\ UNCHANGED <<curlm, encoding, delivered, content, maxlength, block,
                   failed, response>>

\* webclient_query answers a request that has ended.
Query(r) ==
    /\ curlm = "live" /\ request[r] = "ended"
    /\ request' = [request EXCEPT ![r] = "told"]
    /\ UNCHANGED <<curlm, encoding, delivered, content, maxlength, block,
                   failed, error, response>>

\* webclient_getrespond.
GetRespond(r) ==
    /\ curlm = "live" /\ request[r] = "told"
    /\ error' = [error EXCEPT ![r] = @ \/ failed[r]]
    /\ response' = [response EXCEPT ![r] = [given |-> TRUE, body |-> content[r],
                                        error |-> error'[r]]]
    /\ UNCHANGED <<curlm, encoding, request, delivered, content, maxlength,
                   block, failed>>

\* webclient_removerequest, at any time.
RemoveRequest(r) ==
    /\ curlm = "live" /\ request[r] \in {"running", "ended", "told"}
    /\ request' = [request EXCEPT ![r] = "removed"]
    /\ content' = [content EXCEPT ![r] = <<>>]
    /\ block' = [block EXCEPT ![r] = 0]
    /\ UNCHANGED <<curlm, encoding, delivered, maxlength, failed, error, response>>

\* webclient_destory, by the collector: requests that were not removed stay.
Destroy ==
    /\ curlm = "live"
    /\ curlm' = "freed" /\ encoding' = FALSE
    /\ UNCHANGED <<request, delivered, content, maxlength, block, failed,
                   error, response>>

WebNext ==
    \/ WebCreate
    \/ UrlEncoding
    \/ \E r \in Request : MakeRequest(r)
    \/ \E r \in Request, length \in Piece, memory \in BOOLEAN :
          WriteCallback(r, length, memory)
    \/ \E r \in Request : EndTransfer(r) \/ Query(r) \/ GetRespond(r) \/ RemoveRequest(r)
    \/ Destroy

WebSpec == WebInit /\ [][WebNext]_webVars

-----------------------------------------------------------------------------
(* Properties *)

\* A body given without an error is all that was delivered, in order; and
\* what is kept never exceeds the block that realloc gave, although
\* content_maxlength is raised before realloc is known to succeed.
BodyIsWhole ==
    \A r \in Request :
        /\ LengthOf(content[r]) <= block[r]
        /\ (response[r].given /\ ~response[r].error) => response[r].body = delivered[r]

=============================================================================
