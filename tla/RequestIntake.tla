---------------------------- MODULE RequestIntake ----------------------------
(***************************************************************************)
(* What reading a request promises to the rest of the server, without the  *)
(* buffer, the chunks and the loops: at one moment the request is accepted *)
(* with a body of a definite length, or rejected.  RequestReader           *)
(* implements it; HttpServer is built on it.                               *)
(***************************************************************************)
EXTENDS Naturals

CONSTANTS
    BodyMax,     \* HTTP_MAX_BODY_BUFFER
    Requests     \* the requests a client may send

VARIABLES
    request, sent, closed, aborted,   \* the client, as in RequestReader
    outcome,                          \* what http_parse_request returned
    bodyLen                           \* req->content_length

client == <<request, sent, closed, aborted>>
intake == <<client, outcome, bodyLen>>

AtMost(a, b) == IF a <= b THEN a ELSE b

\* The bytes a client that is done sending has sent of request r's body.
Delivered(r, bytes) == bytes - r.head

\* The bodies an accepted request may have.  A body shorter than announced
\* (and than the limit) means that the stream ended there; a longer one means
\* that the client sent more than it announced.
AcceptedBody(r, bytes, ended, n) ==
    /\ bytes >= r.head
    /\ IF r.contentLength = 0
       THEN n = 0
       ELSE /\ n <= Delivered(r, bytes)
            /\ n <= BodyMax
            /\ n < AtMost(r.contentLength, BodyMax) => ended /\ n = Delivered(r, bytes)
            /\ r.tail <= r.contentLength => n <= AtMost(r.contentLength, BodyMax)

Init ==
    /\ request \in Requests
    /\ sent = 0 /\ closed = FALSE /\ aborted = FALSE
    /\ outcome = "pending" /\ bodyLen = 0

ClientStep ==
    /\ request' = request
    /\ sent' >= sent /\ (closed \/ aborted => sent' = sent)
    /\ closed' \in {closed, TRUE}
    /\ aborted' \in {aborted, TRUE}
    /\ UNCHANGED <<outcome, bodyLen>>

Accept ==
    /\ outcome = "pending"
    /\ outcome' = "accepted"
    /\ AcceptedBody(request, sent, closed, bodyLen')
    /\ UNCHANGED client

\* Rejection needs a reason the reader cannot always name: a reset, a full
\* buffer, no memory, a head that does not parse.  It leaves no body.
Reject ==
    /\ outcome = "pending"
    /\ outcome' = "rejected"
    /\ UNCHANGED <<client, bodyLen>>

Next == ClientStep \/ Accept \/ Reject

Spec == Init /\ [][Next]_intake

=============================================================================
