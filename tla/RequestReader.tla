---------------------------- MODULE RequestReader ----------------------------
(***************************************************************************)
(* How the server takes one HTTP request off a stream socket:              *)
(* http_parse_request, read_until_double_crlf and read_body of             *)
(* src/src/http/http_parser.c over read_some and read_all of               *)
(* src/src/reader.c.                                                       *)
(*                                                                         *)
(* Bytes are counted, not represented.  A request is the length of its     *)
(* head (request line and headers up to and including the double CRLF),    *)
(* the number of bytes the client means to send after it, and the value of *)
(* its Content-Length.  The client sends in segments of any size, so the   *)
(* reader sees the head and the body cut at arbitrary places.              *)
(***************************************************************************)
EXTENDS Naturals

CONSTANTS
    ChunkSize,   \* buffer_len: bytes of the buffer http_handle_connection allocates
    HeadersMax,  \* HTTP_MAX_HEADERS_BUFFER
    BodyMax,     \* HTTP_MAX_BODY_BUFFER
    Requests     \* the requests a client may send

CRLFCRLF == 4    \* bytes of the double CRLF

ASSUME SizesAssumption ==
    /\ ChunkSize \in Nat \ {0}
    /\ HeadersMax \in Nat
    /\ BodyMax \in Nat
    /\ ChunkSize <= HeadersMax
    /\ HeadersMax <= BodyMax

ASSUME RequestsAssumption ==
    \A r \in Requests : /\ r.head \in Nat /\ r.head >= CRLFCRLF
                        /\ r.tail \in Nat
                        /\ r.contentLength \in Nat

VARIABLES
    \* the client
    request,  \* the request it sends, chosen once
    sent,     \* bytes it has put on the wire
    closed,   \* it has closed its sending side
    aborted,  \* the connection was reset: read() fails
    \* the reader
    phase,    \* where http_parse_request is
    chunks,   \* chunk_count
    cap,      \* bytes allocated for *buffer
    total,    \* total_read: bytes read while looking for the double CRLF
    toRead,   \* to_read of read_body
    got,      \* total_read of read_all
    bodyLen,  \* req->content_length, the length of req->body
    failure   \* why the request was given up

client == <<request, sent, closed, aborted>>
reader == <<phase, chunks, cap, total, toRead, got, bodyLen, failure>>
vars   == <<client, reader>>

Phases   == {"head", "parse", "body", "copy", "done", "failed"}
Failures == {"none", "read", "capacity", "memory", "syntax"}

Least(a, b)   == IF a <= b THEN a ELSE b

Init ==
    /\ request \in Requests
    /\ sent = 0 /\ closed = FALSE /\ aborted = FALSE
    /\ phase = "head" /\ chunks = 1 /\ cap = ChunkSize /\ total = 0
    /\ toRead = 0 /\ got = 0 /\ bodyLen = 0 /\ failure = "none"

-----------------------------------------------------------------------------
(* The client. *)

ClientSend(n) ==
    /\ ~closed /\ ~aborted
    /\ sent + n <= request.head + request.tail
    /\ sent' = sent + n
    /\ UNCHANGED <<request, closed, aborted, reader>>

ClientClose ==
    /\ ~closed
    /\ closed' = TRUE
    /\ UNCHANGED <<request, sent, aborted, reader>>

ClientAbort ==
    /\ ~aborted
    /\ aborted' = TRUE
    /\ UNCHANGED <<request, sent, closed, reader>>

-----------------------------------------------------------------------------
(* read() on the socket, as read_some sees it: it blocks until there is    *)
(* something to report, takes all that is there and fits, and reports zero *)
(* at the end of the stream.  Asked for no bytes, it reports zero at once. *)
(* The retry after EINTR changes nothing and is no step of its own.        *)

Pending == sent - (total + got)

ReadReturns(room, n) ==
    /\ ~aborted
    /\ \/ room > 0 /\ Pending > 0 /\ n = Least(Pending, room)
       \/ room > 0 /\ Pending = 0 /\ closed /\ n = 0
       \/ room = 0 /\ n = 0

Fail(why) == phase' = "failed" /\ failure' = why

\* read() reports an error in either loop.
ReadFails ==
    /\ aborted
    /\ \/ phase = "head"
       \/ phase = "body"
    /\ Fail("read")
    /\ UNCHANGED <<client, chunks, cap, total, toRead, got, bodyLen>>

-----------------------------------------------------------------------------
(* One iteration of read_until_double_crlf: read into what is left of the  *)
(* buffer, look for the double CRLF, and grow the buffer by one chunk      *)
(* after every read that has not found it, full or not.                    *)

\* Seeded faults: the limit compared with the size before growing; the last
\* chunk that fits refused.
MayGrow_OldSize(size) == size - ChunkSize <= HeadersMax
MayGrow_NotLast(size) == size + ChunkSize <= HeadersMax

MayGrow(size) == size <= HeadersMax

HeadRead(n) ==
    /\ phase = "head"
    /\ ReadReturns(ChunkSize * chunks - total, n)
    /\ total' = total + n
    /\ UNCHANGED <<client, toRead, got, bodyLen>>

HeadFound(n) ==
    /\ HeadRead(n)
    /\ total + n >= request.head
    /\ phase' = "parse"
    /\ UNCHANGED <<chunks, cap, failure>>

HeadGrow(n) ==
    /\ HeadRead(n)
    /\ total + n < request.head
    /\ MayGrow(ChunkSize * (chunks + 1))
    /\ chunks' = chunks + 1
    /\ cap' = ChunkSize * (chunks + 1)
    /\ UNCHANGED <<phase, failure>>

HeadGiveUp(n) ==
    /\ HeadRead(n)
    /\ total + n < request.head
    /\ chunks' = chunks + 1
    /\ \/ ~MayGrow(ChunkSize * (chunks + 1)) /\ Fail("capacity")
       \/ MayGrow(ChunkSize * (chunks + 1)) /\ Fail("memory")
    /\ UNCHANGED cap

-----------------------------------------------------------------------------
(* http_parse_request after the head is in: the request line and headers   *)
(* are parsed (module HeaderParser has the detail; here they parse or fail)*)
(* and the Content-Length decides whether there is a body to read.         *)

ParseFails ==
    /\ phase = "parse"
    /\ Fail("syntax")
    /\ UNCHANGED <<client, chunks, cap, total, toRead, got, bodyLen>>

ParseNoBody ==
    /\ phase = "parse"
    /\ request.contentLength = 0
    /\ phase' = "done"
    /\ UNCHANGED <<client, chunks, cap, total, toRead, got, bodyLen, failure>>

\* already_read_body: bytes after the head that came in with it.
EarlyBody == total - request.head

\* Seeded fault: max_body is not applied.
BodyLimit_Unbounded == request.contentLength

BodyLimit == Least(request.contentLength, BodyMax)

\* Seeded faults: the subtraction without the comparison before it; the bytes
\* that came with the head not counted.
BodyToRead_Unchecked == BodyLimit - EarlyBody
BodyToRead_ForgetEarly == BodyLimit

BodyToRead == IF EarlyBody <= BodyLimit THEN BodyLimit - EarlyBody ELSE 0

\* Seeded fault: room for the body alone.
BodySize_BodyOnly(size) == IF BodyToRead > size THEN BodyToRead ELSE size

BodySize(size) == IF total + BodyToRead > size THEN total + BodyToRead ELSE size

\* read_body up to its read_all: fix how much to read and make room for it.
BodyBegin ==
    /\ phase = "parse"
    /\ request.contentLength > 0
    /\ toRead' = BodyToRead
    /\ cap' = BodySize(cap)
    /\ phase' = IF BodyToRead = 0 THEN "copy" ELSE "body"
    /\ UNCHANGED <<client, chunks, total, got, bodyLen, failure>>

BodyNoMemory ==
    /\ phase = "parse"
    /\ request.contentLength > 0
    /\ BodySize(cap) > cap
    /\ Fail("memory")
    /\ UNCHANGED <<client, chunks, cap, total, toRead, got, bodyLen>>

\* Seeded fault: one read() instead of read_all.
BodyRead_Once(n) ==
    /\ phase = "body"
    /\ ReadReturns(toRead - got, n)
    /\ got' = got + n
    /\ phase' = "copy"
    /\ UNCHANGED <<client, chunks, cap, total, toRead, bodyLen, failure>>

\* One iteration of read_all, which stops when it has all or at end of file.
BodyRead(n) ==
    /\ phase = "body"
    /\ ReadReturns(toRead - got, n)
    /\ got' = got + n
    /\ phase' = IF n = 0 \/ got + n = toRead THEN "copy" ELSE "body"
    /\ UNCHANGED <<client, chunks, cap, total, toRead, bodyLen, failure>>

\* Seeded fault: the length counts only what read_all returned.
BodyCopy_LateOnly ==
    /\ phase = "copy"
    /\ bodyLen' = got
    /\ phase' = "done"
    /\ UNCHANGED <<client, chunks, cap, total, toRead, got, failure>>

\* The rest of read_body: copy what came after the head into req->body.
BodyCopy ==
    /\ phase = "copy"
    /\ bodyLen' = got + EarlyBody
    /\ phase' = "done"
    /\ UNCHANGED <<client, chunks, cap, total, toRead, got, failure>>

CopyNoMemory ==
    /\ phase = "copy"
    /\ Fail("memory")
    /\ UNCHANGED <<client, chunks, cap, total, toRead, got, bodyLen>>

-----------------------------------------------------------------------------
ClientNext ==
    \/ \E n \in 1..(request.head + request.tail) : ClientSend(n)
    \/ ClientClose
    \/ ClientAbort

HeadNext ==
    \E n \in 0..cap : HeadFound(n) \/ HeadGrow(n) \/ HeadGiveUp(n)

BodyNext ==
    \/ ParseFails
    \/ ParseNoBody
    \/ BodyBegin
    \/ BodyNoMemory
    \/ \E n \in 0..toRead : BodyRead(n)
    \/ BodyCopy
    \/ CopyNoMemory

ReaderNext == ReadFails \/ HeadNext \/ BodyNext

Next == ClientNext \/ ReaderNext

\* The reader runs whenever it is not blocked in read().  Nothing is assumed
\* of the client: it may stop sending without closing.
Spec == Init /\ [][Next]_vars /\ WF_vars(ReaderNext)

-----------------------------------------------------------------------------
(* Properties. *)

\* Every variable stays in its type (the locals of read_until_double_crlf and
\* read_body, and the fields of the request they fill).
TypeOK ==
    /\ request \in Requests
    /\ sent \in 0..(request.head + request.tail)
    /\ closed \in BOOLEAN /\ aborted \in BOOLEAN
    /\ phase \in Phases /\ failure \in Failures
    /\ chunks \in Nat /\ cap \in Nat
    /\ total \in Nat /\ toRead \in Nat /\ got \in Nat /\ bodyLen \in Nat

\* No read is ever given more room than the buffer has: the room passed to
\* read_some in the head loop, and the one passed to read_all for the body,
\* end within the bytes *buffer was last allocated with.
ReadsStayInBuffer ==
    /\ phase = "head" => total + (ChunkSize * chunks - total) <= cap
    /\ phase = "body" => total + toRead <= cap
    /\ total + got <= cap

\* The server never asks read() for zero bytes, so a zero it reports always
\* means that the client closed.  (A head loop that read into a full buffer
\* would take its own zero for progress and spin to the limit.)
ZeroMeansEndOfStream ==
    /\ phase = "head" => total < ChunkSize * chunks
    /\ phase = "body" => got < toRead

\* What read_some and read_all are asked for is never too much and never nothing.
ReadsAreSound == ReadsStayInBuffer /\ ZeroMeansEndOfStream

\* The buffer of one connection is bounded whatever the client sends: by
\* HTTP_MAX_HEADERS_BUFFER for the head, and by that and the body limit after.
BufferBounded ==
    /\ phase = "head" => cap <= HeadersMax
    /\ cap <= HeadersMax + BodyMax

\* The copy into req->body reads only bytes that came off the socket, and all
\* that came after the head; and its length respects the body limit even when
\* the client sent more than it announced.
BodyCopyIsSound ==
    phase = "done" /\ request.contentLength > 0 =>
        /\ request.head + bodyLen = total + got
        /\ bodyLen <= BodyMax

\* However the stream was cut into reads, a body shorter than announced means
\* that the client closed after exactly those bytes, and a client that sends
\* no more than it announced gets no more than that into req->body.
BodyIndependentOfSegments ==
    phase = "done" /\ request.contentLength > 0 =>
        /\ bodyLen < BodyLimit => closed /\ bodyLen = sent - request.head
        /\ request.tail <= request.contentLength => bodyLen <= BodyLimit

\* A head that fits in the buffer and is on the wire before the first read is
\* never given up for want of room: the growth loop reaches its last chunk.
LargestHead == ChunkSize * (HeadersMax \div ChunkSize)
PromptHeadIsRead ==
    [](/\ phase = "head" /\ total = 0 /\ chunks = 1
       /\ sent >= request.head
       /\ request.head <= LargestHead
       => [](failure # "capacity"))

\* Reading ends once the client has closed, was reset, or has sent the head and
\* the body it announced: the loops neither spin nor wait for bytes not due.
Finished == phase \in {"done", "failed"}
NothingMoreDue == \/ closed
                  \/ aborted
                  \/ sent >= request.head + BodyLimit
ReadingEnds == NothingMoreDue ~> Finished

\* The abstract view of a request: accepted or rejected at one moment.
Intake == INSTANCE RequestIntake WITH
    outcome <- IF phase = "done" THEN "accepted"
                 ELSE IF phase = "failed" THEN "rejected"
                 ELSE "pending"

\* All the loops together do what RequestIntake promises of one atomic step.
ImplementsIntake == Intake!Spec

-----------------------------------------------------------------------------
(* What the documentation says and the code does not do. *)

\* "Upper bound for the size (in bytes) of the header section buffer": a head
\* within that bound, from a client that does not hang up, is not given up for
\* want of room.  The bound is spent on reads, not on bytes.
OnlyLongHeadsAreRefused ==
    failure = "capacity" => closed \/ request.head > HeadersMax

=============================================================================
