------------------------ MODULE RequestReader_proofs ------------------------
(***************************************************************************)
(* Proofs about RequestReader for every chunk size, every limit and every  *)
(* set of requests: the types, the buffer bounds, what the copied body is, *)
(* and that the read loops implement RequestIntake.                        *)
(***************************************************************************)
EXTENDS RequestReader, TLAPS

\* The inductive invariant.  At each place in http_parse_request it says what
\* is known of the buffer, of what was read, and of what the client has sent.
AtHead ==
    phase = "head" =>
        /\ cap = ChunkSize * chunks /\ total < cap /\ cap <= HeadersMax
        /\ total < request.head
        /\ got = 0

AtParse ==
    phase = "parse" =>
        /\ request.head <= total /\ total <= HeadersMax
        /\ got = 0 /\ cap <= HeadersMax

AtBody ==
    phase \in {"body", "copy"} =>
        /\ request.contentLength > 0
        /\ request.head <= total /\ total <= HeadersMax
        /\ toRead = BodyToRead
        /\ total + toRead <= cap
        /\ got <= toRead
        /\ phase = "body" => got < toRead
        /\ got < toRead /\ phase = "copy" => closed /\ sent = total + got

AtDone ==
    /\ phase # "done" => bodyLen = 0
    /\ phase = "done" =>
        /\ request.head <= total /\ total <= HeadersMax
        /\ request.contentLength = 0 => bodyLen = 0
        /\ request.contentLength > 0 =>
            /\ bodyLen = got + EarlyBody
            /\ got <= BodyToRead
            /\ got < BodyToRead => closed /\ sent = total + got

Throughout ==
    /\ total + got <= sent
    /\ total + got <= cap
    /\ cap <= HeadersMax + BodyMax

IInv == TypeOK /\ AtHead /\ AtParse /\ AtBody /\ AtDone /\ Throughout

-----------------------------------------------------------------------------
\* A request's numbers are naturals and its head holds at least the CRLFs.
LEMMA RequestTypes ==
    ASSUME NEW r \in Requests
    PROVE  /\ r.head \in Nat /\ r.head >= 4
           /\ r.tail \in Nat
           /\ r.contentLength \in Nat
  BY RequestsAssumption DEF CRLFCRLF

\* One more chunk adds ChunkSize bytes to the product the code recomputes.
LEMMA OneMoreChunk ==
    ASSUME NEW c \in Nat
    PROVE  /\ ChunkSize * c \in Nat
           /\ ChunkSize * (c + 1) = ChunkSize * c + ChunkSize
  BY SizesAssumption

\* What read() returns never exceeds what was asked for or what is there.
LEMMA ReadBounds ==
    ASSUME TypeOK, NEW room \in Nat, NEW n \in Nat, total + got <= sent,
           ReadReturns(room, n)
    PROVE  /\ n <= room
           /\ total + got + n <= sent
           /\ n = 0 /\ room > 0 => closed /\ sent = total + got
  <1>1. sent \in Nat /\ total \in Nat /\ got \in Nat
    BY RequestTypes DEF TypeOK
  <1> QED
    BY <1>1 DEF ReadReturns, Least, Pending

LEMMA InitInv == Init => IInv
  <1> SUFFICES ASSUME Init PROVE IInv
    OBVIOUS
  <1>1. ChunkSize \in Nat /\ ChunkSize > 0 /\ ChunkSize * 1 = ChunkSize
    BY SizesAssumption
  <1>2. request.head \in Nat /\ request.head >= 4 /\ request.tail \in Nat
    BY RequestTypes DEF Init
  <1>3. HeadersMax \in Nat /\ BodyMax \in Nat /\ ChunkSize <= HeadersMax
    BY SizesAssumption
  <1>4. closed \in BOOLEAN /\ aborted \in BOOLEAN
    BY Zenon DEF Init
  <1>5. /\ request \in Requests /\ sent \in 0..(request.head + request.tail)
        /\ phase \in Phases /\ failure \in Failures
        /\ chunks \in Nat /\ cap \in Nat
        /\ total \in Nat /\ toRead \in Nat /\ got \in Nat /\ bodyLen \in Nat
    BY <1>1, <1>2 DEF Init, Phases, Failures
  <1>6. TypeOK
    BY <1>4, <1>5 DEF TypeOK
  <1>7. AtHead /\ AtParse /\ AtBody /\ AtDone /\ Throughout
    BY <1>1, <1>2, <1>3 DEF Init, AtHead, AtParse, AtBody, AtDone, Throughout
  <1> QED
    BY <1>6, <1>7 DEF IInv

\* The facts about numbers that every step needs, from the types.
LEMMA Numbers ==
    ASSUME TypeOK
    PROVE  /\ request.head \in Nat /\ request.head >= 4
           /\ request.tail \in Nat /\ request.contentLength \in Nat
           /\ sent \in Nat /\ chunks \in Nat /\ cap \in Nat
           /\ total \in Nat /\ toRead \in Nat /\ got \in Nat /\ bodyLen \in Nat
           /\ HeadersMax \in Nat /\ BodyMax \in Nat /\ ChunkSize \in Nat
           /\ BodyLimit \in Nat /\ BodyLimit <= BodyMax
           /\ BodyLimit <= request.contentLength
  <1>1. request \in Requests
    BY DEF TypeOK
  <1> QED
    BY <1>1, RequestTypes, SizesAssumption DEF TypeOK, BodyLimit, Least

\* What read_body asks for after a head of the right size.
LEMMA BodyNumbers ==
    ASSUME TypeOK, request.head <= total
    PROVE  /\ EarlyBody \in Nat /\ BodyToRead \in Nat
           /\ total = request.head + EarlyBody
           /\ EarlyBody <= BodyLimit => BodyToRead = BodyLimit - EarlyBody
           /\ EarlyBody > BodyLimit => BodyToRead = 0
  BY Numbers DEF EarlyBody, BodyToRead

\* A step of the client leaves the reader alone and never shrinks the stream;
\* once it has closed it sends no more.
LEMMA ClientInv ==
    ASSUME IInv, ClientNext PROVE IInv'
  <1>1. /\ request' = request /\ sent <= sent'
        /\ closed => closed' /\ sent' = sent
        /\ sent' \in 0..(request.head + request.tail)
    BY Numbers DEF ClientNext, ClientSend, ClientClose, ClientAbort, IInv, TypeOK
  <1>2. closed' \in BOOLEAN /\ aborted' \in BOOLEAN
    BY Zenon DEF ClientNext, ClientSend, ClientClose, ClientAbort, IInv, TypeOK
  <1>3. UNCHANGED reader
    BY DEF ClientNext, ClientSend, ClientClose, ClientAbort, reader
  <1>4. TypeOK'
    BY <1>1, <1>2, <1>3 DEF IInv, TypeOK, reader
  <1>5. AtHead' /\ AtParse' /\ AtBody' /\ AtDone' /\ Throughout'
    BY <1>1, <1>3, Numbers
    DEF IInv, reader, AtHead, AtParse, AtBody, AtDone, Throughout,
        BodyToRead, EarlyBody, BodyLimit, Least
  <1> QED
    BY <1>4, <1>5 DEF IInv

\* Giving up keeps every bound: only phase and failure (and chunks) change.
LEMMA FailInv ==
    ASSUME IInv, NEW why \in Failures, Fail(why),
           UNCHANGED <<client, cap, toRead, got, bodyLen>>,
           chunks' \in Nat, total' \in Nat,
           total' + got <= sent, total' + got <= cap,
           phase # "done"
    PROVE  IInv'
  <1>1. closed' \in BOOLEAN /\ aborted' \in BOOLEAN
    BY DEF IInv, TypeOK, client
  <1>2. TypeOK'
    BY <1>1 DEF IInv, TypeOK, client, Fail, Phases
  <1> QED
    BY <1>2, Numbers
    DEF IInv, client, Fail, AtHead, AtParse, AtBody, AtDone, Throughout

\* The head loop: found, another chunk, or given up.
LEMMA HeadInv ==
    ASSUME IInv, HeadNext PROVE IInv'
  <1> PICK n \in 0..cap : HeadFound(n) \/ HeadGrow(n) \/ HeadGiveUp(n)
    BY DEF HeadNext
  <1>1. HeadRead(n)
    BY DEF HeadFound, HeadGrow, HeadGiveUp
  <1>2. /\ phase = "head" /\ cap = ChunkSize * chunks /\ total < cap
        /\ cap <= HeadersMax /\ got = 0 /\ total < request.head
        /\ n \in Nat /\ total' = total + n /\ bodyLen = 0
    BY <1>1, Numbers DEF HeadRead, IInv, AtHead, AtDone
  <1>3. ChunkSize * chunks - total \in Nat
    BY <1>2, Numbers DEF IInv
  <1>4. n <= cap - total /\ total + n <= sent
    BY <1>1, <1>2, <1>3, ReadBounds, Numbers DEF HeadRead, IInv, Throughout
  <1>5. /\ closed' \in BOOLEAN /\ aborted' \in BOOLEAN
        /\ request' = request /\ sent' = sent /\ UNCHANGED <<toRead, got, bodyLen>>
    BY <1>1 DEF HeadRead, client, IInv, TypeOK
  <1>6. CASE HeadFound(n)
    <2>1. TypeOK'
      BY <1>2, <1>5, <1>6, Numbers DEF HeadFound, IInv, TypeOK, Phases
    <2>2. AtHead' /\ AtParse' /\ AtBody' /\ AtDone' /\ Throughout'
      BY <1>2, <1>4, <1>5, <1>6, Numbers
      DEF HeadFound, IInv, AtHead, AtParse, AtBody, AtDone, Throughout
    <2> QED
      BY <2>1, <2>2 DEF IInv
  <1>7. CASE HeadGrow(n)
    <2>1. ChunkSize * (chunks + 1) = cap + ChunkSize /\ ChunkSize > 0
      BY <1>2, OneMoreChunk, Numbers, SizesAssumption DEF IInv
    <2>2. TypeOK'
      BY <2>1, <1>2, <1>5, <1>7, Numbers DEF HeadGrow, IInv, TypeOK
    <2>3. AtHead' /\ AtParse' /\ AtBody' /\ AtDone' /\ Throughout'
      BY <2>1, <1>2, <1>4, <1>5, <1>7, Numbers
      DEF HeadGrow, MayGrow, IInv, AtHead, AtParse, AtBody, AtDone, Throughout
    <2> QED
      BY <2>2, <2>3 DEF IInv
  <1>8. CASE HeadGiveUp(n)
    <2>1. PICK why \in Failures : Fail(why)
      BY <1>8 DEF HeadGiveUp, Failures
    <2> QED
      BY <2>1, <1>1, <1>2, <1>4, <1>8, Numbers, FailInv
      DEF HeadGiveUp, HeadRead, IInv
  <1> QED
    BY <1>6, <1>7, <1>8

\* One iteration of read_all: it stays in the room made for it, and comes up
\* short only at the end of the stream.
LEMMA BodyReadInv ==
    ASSUME IInv, NEW n \in Nat, BodyRead(n) PROVE IInv'
  <1>1. /\ phase = "body" /\ got < toRead /\ total + toRead <= cap
        /\ toRead = BodyToRead /\ request.head <= total /\ total <= HeadersMax
        /\ request.contentLength > 0 /\ bodyLen = 0
    BY DEF BodyRead, IInv, AtBody, AtDone
  <1>2. toRead - got \in Nat /\ toRead - got > 0
    BY <1>1, Numbers DEF IInv
  <1>3. /\ n <= toRead - got /\ total + got + n <= sent
        /\ n = 0 => closed /\ sent = total + got
    BY <1>2, ReadBounds DEF BodyRead, IInv, Throughout
  <1>4. /\ closed' \in BOOLEAN /\ aborted' \in BOOLEAN /\ closed' = closed
        /\ UNCHANGED <<request, sent, chunks, cap, total, toRead, bodyLen, failure>>
    BY DEF BodyRead, client, IInv, TypeOK
  <1>5. got' = got + n /\ phase' = IF n = 0 \/ got + n = toRead THEN "copy" ELSE "body"
    BY DEF BodyRead
  <1>6. TypeOK'
    BY <1>4, <1>5, Numbers DEF IInv, TypeOK, Phases
  <1>7. BodyToRead' = BodyToRead
    BY <1>4 DEF BodyToRead, EarlyBody, BodyLimit
  <1>8. AtHead' /\ AtParse' /\ AtBody' /\ AtDone' /\ Throughout'
    BY <1>1, <1>2, <1>3, <1>4, <1>5, <1>7, Numbers
    DEF IInv, AtHead, AtParse, AtBody, AtDone, Throughout
  <1> QED
    BY <1>6, <1>8 DEF IInv

\* read_body up to its read_all: the buffer holds all that will be read.
LEMMA BodyBeginInv ==
    ASSUME IInv, BodyBegin PROVE IInv'
  <1>1. /\ phase = "parse" /\ request.contentLength > 0 /\ got = 0 /\ bodyLen = 0
        /\ request.head <= total /\ total <= HeadersMax /\ cap <= HeadersMax
        /\ toRead' = BodyToRead /\ cap' = BodySize(cap)
        /\ phase' = IF BodyToRead = 0 THEN "copy" ELSE "body"
    BY DEF BodyBegin, IInv, AtParse, AtDone
  <1>2. /\ closed' \in BOOLEAN /\ aborted' \in BOOLEAN
        /\ UNCHANGED <<request, sent, chunks, total, got, bodyLen, failure>>
    BY DEF BodyBegin, client, IInv, TypeOK
  <1>3. BodyToRead \in Nat /\ total + BodyToRead <= HeadersMax + BodyMax
    BY <1>1, BodyNumbers, Numbers DEF IInv
  <1>4. cap' \in Nat /\ cap' >= cap /\ total + BodyToRead <= cap'
        /\ cap' <= HeadersMax + BodyMax
    BY <1>1, <1>3, Numbers DEF BodySize, IInv
  <1>5. TypeOK'
    BY <1>1, <1>2, <1>3, <1>4 DEF IInv, TypeOK, Phases
  <1>6. BodyToRead' = BodyToRead
    BY <1>2 DEF BodyToRead, EarlyBody, BodyLimit
  <1>7. AtHead' /\ AtParse' /\ AtBody' /\ AtDone' /\ Throughout'
    BY <1>1, <1>2, <1>3, <1>4, <1>6, Numbers
    DEF IInv, AtHead, AtParse, AtBody, AtDone, Throughout
  <1> QED
    BY <1>5, <1>7 DEF IInv

\* Ending with a body, copied out of the buffer, or without one.
LEMMA EndInv ==
    ASSUME IInv, BodyCopy \/ ParseNoBody PROVE IInv'
  <1>1. /\ closed' \in BOOLEAN /\ aborted' \in BOOLEAN /\ closed' = closed
        /\ UNCHANGED <<request, sent, chunks, cap, total, toRead, got, failure>>
        /\ phase' = "done"
    BY DEF BodyCopy, ParseNoBody, client, IInv, TypeOK
  <1>2. request.head <= total /\ total <= HeadersMax
    BY DEF BodyCopy, ParseNoBody, IInv, AtBody, AtParse
  <1>3. EarlyBody \in Nat /\ EarlyBody' = EarlyBody /\ BodyToRead' = BodyToRead
    BY <1>1, <1>2, BodyNumbers DEF BodyToRead, EarlyBody, BodyLimit, IInv
  <1>4. CASE BodyCopy
    <2>1. bodyLen' = got + EarlyBody
      BY <1>4 DEF BodyCopy
    <2>2. TypeOK'
      BY <2>1, <1>1, <1>3, Numbers DEF IInv, TypeOK, Phases
    <2> QED
      BY <2>1, <2>2, <1>1, <1>2, <1>3, <1>4, Numbers
      DEF BodyCopy, IInv, AtHead, AtParse, AtBody, AtDone, Throughout
  <1>5. CASE ParseNoBody
    <2>1. bodyLen' = bodyLen /\ bodyLen = 0 /\ request.contentLength = 0
      BY <1>5 DEF ParseNoBody, IInv, AtDone
    <2>2. TypeOK'
      BY <2>1, <1>1 DEF IInv, TypeOK, Phases
    <2> QED
      BY <2>1, <2>2, <1>1, <1>2, Numbers
      DEF IInv, AtHead, AtParse, AtBody, AtDone, Throughout
  <1> QED
    BY <1>4, <1>5

\* Every step of the system keeps the invariant.
LEMMA StepInv ==
    ASSUME IInv, [Next]_vars PROVE IInv'
  <1>1. CASE ClientNext
    BY <1>1, ClientInv
  <1>2. CASE ReadFails
    BY <1>2, FailInv DEF ReadFails, IInv, TypeOK, Throughout, Failures
  <1>3. CASE HeadNext
    BY <1>3, HeadInv
  <1>4. CASE ParseFails \/ BodyNoMemory \/ CopyNoMemory
    BY <1>4, FailInv
    DEF ParseFails, BodyNoMemory, CopyNoMemory, IInv, TypeOK, Throughout, Failures
  <1>5. CASE BodyBegin
    BY <1>5, BodyBeginInv
  <1>6. CASE \E n \in 0..toRead : BodyRead(n)
    BY <1>6, BodyReadInv, Numbers DEF IInv
  <1>7. CASE BodyCopy \/ ParseNoBody
    BY <1>7, EndInv
  <1>8. CASE UNCHANGED vars
    <2>1. TypeOK'
      BY <1>8 DEF vars, client, reader, IInv, TypeOK
    <2> QED
      BY <2>1, <1>8 DEF vars, client, reader, IInv, AtHead, AtParse, AtBody, AtDone,
          Throughout, BodyToRead, EarlyBody, BodyLimit
  <1> QED
    BY <1>1, <1>2, <1>3, <1>4, <1>5, <1>6, <1>7, <1>8 DEF Next, ReaderNext, BodyNext

\* The inductive invariant holds in every reachable state of http_parse_request.
THEOREM Invariance == Spec => []IInv
  BY InitInv, StepInv, PTL DEF Spec

-----------------------------------------------------------------------------
\* The locals of the read loops and the request's fields keep their types.
THEOREM TypeCorrect == Spec => []TypeOK
  <1>1. IInv => TypeOK
    BY DEF IInv
  <1> QED
    BY <1>1, Invariance, PTL

\* read_until_double_crlf and read_body never read past the allocated buffer.
THEOREM ReadsInBuffer == Spec => []ReadsStayInBuffer
  <1>1. IInv => ReadsStayInBuffer
    <2> SUFFICES ASSUME IInv PROVE ReadsStayInBuffer
      OBVIOUS
    <2>1. ChunkSize * chunks \in Nat
      BY Numbers, OneMoreChunk DEF IInv
    <2> QED
      BY <2>1, Numbers DEF IInv, AtHead, AtBody, Throughout, ReadsStayInBuffer
  <1> QED
    BY <1>1, Invariance, PTL

\* Neither loop asks read() for zero bytes, so zero means the client closed.
THEOREM ZeroIsEndOfStream == Spec => []ZeroMeansEndOfStream
  <1>1. IInv => ZeroMeansEndOfStream
    BY DEF IInv, AtHead, AtBody, ZeroMeansEndOfStream
  <1> QED
    BY <1>1, Invariance, PTL

\* Both together: no read is asked for more than there is room for, or for nothing.
THEOREM ReadsSound == Spec => []ReadsAreSound
  <1>1. ReadsStayInBuffer /\ ZeroMeansEndOfStream => ReadsAreSound
    BY DEF ReadsAreSound
  <1> QED
    BY <1>1, ReadsInBuffer, ZeroIsEndOfStream, PTL

\* One connection's buffer never outgrows the two limits together.
THEOREM BufferIsBounded == Spec => []BufferBounded
  <1>1. IInv => BufferBounded
    BY DEF IInv, AtHead, Throughout, BufferBounded
  <1> QED
    BY <1>1, Invariance, PTL

\* What a finished request knows of its body, in one place.
LEMMA DoneFacts ==
    ASSUME IInv, phase = "done", request.contentLength > 0
    PROVE  /\ EarlyBody \in Nat /\ total = request.head + EarlyBody
           /\ bodyLen = got + EarlyBody
           /\ EarlyBody <= BodyLimit => bodyLen <= BodyLimit
           /\ bodyLen < BodyLimit => closed /\ sent = total + got
           /\ EarlyBody > BodyLimit => bodyLen = EarlyBody
           /\ EarlyBody <= BodyMax
           /\ total + got <= sent
  <1>1. request.head <= total /\ total <= HeadersMax /\ bodyLen = got + EarlyBody
        /\ got <= BodyToRead /\ (got < BodyToRead => closed /\ sent = total + got)
    BY DEF IInv, AtDone
  <1>2. HeadersMax <= BodyMax
    BY SizesAssumption
  <1> QED
    BY <1>1, <1>2, BodyNumbers, Numbers DEF IInv, Throughout

\* The memcpy into req->body stays within the bytes read, and within the limit.
THEOREM BodyCopySound == Spec => []BodyCopyIsSound
  <1>1. IInv => BodyCopyIsSound
    BY DoneFacts, Numbers DEF IInv, BodyCopyIsSound
  <1> QED
    BY <1>1, Invariance, PTL

\* The body does not depend on how TCP cut the stream, unless the client sent
\* more than it announced.
THEOREM SegmentsDoNotMatter == Spec => []BodyIndependentOfSegments
  <1>1. IInv => BodyIndependentOfSegments
    <2> SUFFICES ASSUME IInv, phase = "done", request.contentLength > 0
                 PROVE  /\ bodyLen < BodyLimit => closed /\ bodyLen = sent - request.head
                        /\ request.tail <= request.contentLength => bodyLen <= BodyLimit
      BY DEF BodyIndependentOfSegments
    <2>1. bodyLen < BodyLimit => closed /\ bodyLen = sent - request.head
      BY DoneFacts, Numbers DEF IInv
    <2>2. ASSUME request.tail <= request.contentLength PROVE bodyLen <= BodyLimit
      <3>1. sent <= request.head + request.tail
        BY Numbers DEF IInv, TypeOK
      <3>2. EarlyBody <= BodyLimit
        BY <2>2, <3>1, DoneFacts, Numbers, SizesAssumption DEF IInv, BodyLimit, Least
      <3> QED
        BY <3>2, DoneFacts
    <2> QED
      BY <2>1, <2>2
  <1> QED
    BY <1>1, Invariance, PTL

-----------------------------------------------------------------------------
\* The initial states of the reader are initial states of the intake.
LEMMA InitMaps == Init => Intake!Init
  BY DEF Init, Intake!Init

\* A step of the client is a step of the intake's client.
LEMMA ClientMaps ==
    ASSUME IInv, ClientNext PROVE Intake!Next
  <1>1. sent \in Nat /\ request' = request /\ UNCHANGED <<phase, bodyLen>>
    BY Numbers DEF ClientNext, ClientSend, ClientClose, ClientAbort, reader, IInv
  <1>2. sent' >= sent /\ (closed \/ aborted => sent' = sent)
    BY <1>1 DEF ClientNext, ClientSend, ClientClose, ClientAbort
  <1>3. closed' \in {closed, TRUE} /\ aborted' \in {aborted, TRUE}
    BY DEF ClientNext, ClientSend, ClientClose, ClientAbort
  <1> QED
    BY <1>1, <1>2, <1>3 DEF Intake!Next, Intake!ClientStep

\* Giving up is the intake's rejection.
LEMMA FailMaps ==
    ASSUME NEW why, Fail(why), phase \notin {"done", "failed"},
           UNCHANGED <<client, bodyLen>>
    PROVE  Intake!Reject
  BY DEF Fail, client, Intake!Reject, Intake!client

\* The step that finishes a request is the intake's atomic acceptance: the
\* reads before it have added up to a body the intake allows.
LEMMA EndMaps ==
    ASSUME IInv, BodyCopy \/ ParseNoBody PROVE Intake!Accept
  <1>1. phase \notin {"done", "failed"} /\ phase' = "done" /\ UNCHANGED client
    BY DEF BodyCopy, ParseNoBody
  <1>2. request.head <= total /\ total <= HeadersMax /\ total + got <= sent
    BY DEF BodyCopy, ParseNoBody, IInv, AtBody, AtParse, Throughout
  <1>3. Intake!AcceptedBody(request, sent, closed, bodyLen')
    <2>1. CASE request.contentLength = 0
      <3>1. bodyLen' = 0
        BY <2>1 DEF BodyCopy, ParseNoBody, IInv, AtBody, AtDone
      <3> QED
        BY <2>1, <3>1, <1>2, Numbers DEF IInv, Intake!AcceptedBody
    <2>2. CASE request.contentLength > 0
      <3>1. /\ bodyLen' = got + EarlyBody
            /\ got <= BodyToRead
            /\ got < BodyToRead => closed /\ sent = total + got
        BY <2>2, Numbers DEF BodyCopy, ParseNoBody, IInv, AtBody
      <3>2. /\ EarlyBody \in Nat /\ total = request.head + EarlyBody
            /\ EarlyBody <= BodyLimit => BodyToRead = BodyLimit - EarlyBody
            /\ EarlyBody > BodyLimit => BodyToRead = 0
        BY <1>2, BodyNumbers DEF IInv
      <3>3. BodyLimit = Intake!AtMost(request.contentLength, BodyMax)
        BY DEF BodyLimit, Least, Intake!AtMost
      <3>4. sent <= request.head + request.tail
        BY Numbers DEF IInv, TypeOK
      <3>5. bodyLen' <= sent - request.head /\ bodyLen' <= BodyMax
        BY <3>1, <3>2, <1>2, Numbers, SizesAssumption DEF IInv
      <3>6. bodyLen' < BodyLimit => closed /\ bodyLen' = sent - request.head
        BY <3>1, <3>2, <1>2, Numbers DEF IInv
      <3>7. request.tail <= request.contentLength => bodyLen' <= BodyLimit
        <4>1. request.tail <= request.contentLength => EarlyBody <= BodyLimit
          BY <3>2, <3>4, <1>2, Numbers, SizesAssumption DEF IInv, BodyLimit, Least
        <4> QED
          BY <4>1, <3>1, <3>2, Numbers DEF IInv
      <3>8. request.contentLength # 0 /\ sent >= request.head
        BY <2>2, <1>2, Numbers DEF IInv
      <3> QED
        BY <3>3, <3>5, <3>6, <3>7, <3>8 DEF Intake!AcceptedBody, Intake!Delivered
    <2> QED
      BY <2>1, <2>2, Numbers DEF IInv
  <1> QED
    BY <1>1, <1>3 DEF Intake!Accept, Intake!client, client

\* Every other step of the reader changes nothing the intake shows.
LEMMA LoopMaps ==
    ASSUME UNCHANGED <<client, bodyLen>>,
           phase' = phase \/ {phase, phase'} \subseteq {"head", "parse", "body", "copy"}
    PROVE  UNCHANGED Intake!intake
  BY DEF client, Intake!intake, Intake!client

\* Each step of the reader is one step of the intake, or none.
LEMMA StepMaps ==
    ASSUME IInv, [Next]_vars PROVE [Intake!Next]_(Intake!intake)
  <1>1. CASE ClientNext
    BY <1>1, ClientMaps
  <1>2. CASE ReadFails
    BY <1>2, FailMaps DEF ReadFails, Intake!Next
  <1>3. CASE HeadNext
    <2> PICK n \in 0..cap : HeadFound(n) \/ HeadGrow(n) \/ HeadGiveUp(n)
      BY <1>3 DEF HeadNext
    <2>1. phase = "head" /\ UNCHANGED <<client, bodyLen>>
      BY DEF HeadFound, HeadGrow, HeadGiveUp, HeadRead
    <2>2. CASE HeadFound(n) \/ HeadGrow(n)
      BY <2>1, <2>2, LoopMaps DEF HeadFound, HeadGrow
    <2>3. CASE HeadGiveUp(n)
      BY <2>1, <2>3, FailMaps DEF HeadGiveUp, Intake!Next
    <2> QED
      BY <2>2, <2>3
  <1>4. CASE ParseFails \/ BodyNoMemory \/ CopyNoMemory
    BY <1>4, FailMaps DEF ParseFails, BodyNoMemory, CopyNoMemory, Intake!Next
  <1>5. CASE BodyBegin
    BY <1>5, LoopMaps DEF BodyBegin
  <1>6. CASE \E n \in 0..toRead : BodyRead(n)
    BY <1>6, LoopMaps DEF BodyRead
  <1>7. CASE BodyCopy \/ ParseNoBody
    BY <1>7, EndMaps DEF Intake!Next
  <1>8. CASE UNCHANGED vars
    BY <1>8, LoopMaps DEF vars, reader
  <1> QED
    BY <1>1, <1>2, <1>3, <1>4, <1>5, <1>6, <1>7, <1>8 DEF Next, ReaderNext, BodyNext

\* The read loops of http_parse_request implement RequestIntake.
THEOREM ReaderImplementsIntake == Spec => ImplementsIntake
  <1>1. IInv /\ [Next]_vars => [Intake!Next]_(Intake!intake)
    BY StepMaps
  <1> QED
    BY <1>1, InitMaps, Invariance, PTL DEF Spec, ImplementsIntake, Intake!Spec

-----------------------------------------------------------------------------
(* A head that is there from the beginning. *)

\* Every read so far has filled its chunk, and a request is given up only in the end.
Prompt ==
    /\ request.head <= LargestHead
    /\ failure # "capacity"
    /\ phase = "head" => sent >= request.head /\ total = ChunkSize * (chunks - 1)

GivenUp == failure # "none" => phase = "failed"

\* A head that needs another chunk leaves room for it.
LEMMA AnotherChunk ==
    ASSUME NEW c \in Nat, ChunkSize * c < LargestHead
    PROVE  MayGrow(ChunkSize * (c + 1))
  <1> DEFINE q == HeadersMax \div ChunkSize
  <1>1. q \in Nat /\ ChunkSize * q <= HeadersMax /\ ChunkSize \in Nat \ {0}
    BY SizesAssumption
  <1>2. ChunkSize * c < ChunkSize * q
    BY DEF LargestHead
  <1> HIDE DEF q
  <1>3. c < q
    <2>1. SUFFICES ASSUME q <= c PROVE FALSE
      BY <1>1
    <2>2. PICK d \in Nat : c = q + d
      <3>1. c - q \in Nat /\ c = q + (c - q)
        BY <1>1, <2>1
      <3> QED
        BY <3>1
    <2>3. ChunkSize * c = ChunkSize * q + ChunkSize * d
      BY <1>1, <2>2
    <2>4. ChunkSize * d \in Nat /\ ChunkSize * q \in Nat
      BY <1>1
    <2> QED
      BY <1>2, <2>3, <2>4
  <1>4. PICK d \in Nat : q = (c + 1) + d
    <2>1. q - (c + 1) \in Nat /\ q = (c + 1) + (q - (c + 1))
      BY <1>1, <1>3
    <2> QED
      BY <2>1
  <1>5. ChunkSize * q = ChunkSize * (c + 1) + ChunkSize * d
    BY <1>1, <1>4
  <1>6. ChunkSize * d \in Nat /\ ChunkSize * (c + 1) \in Nat
    BY <1>1
  <1>7. ChunkSize * (c + 1) <= ChunkSize * q
    BY <1>5, <1>6
  <1> QED
    BY <1>1, <1>6, <1>7, SizesAssumption DEF MayGrow

\* A failure is final.
LEMMA GivenUpKeeps ==
    ASSUME GivenUp, [Next]_vars PROVE GivenUp'
  <1>1. CASE ClientNext \/ UNCHANGED vars
    BY <1>1 DEF ClientNext, ClientSend, ClientClose, ClientAbort, reader, vars, GivenUp
  <1>2. CASE ReaderNext
    BY <1>2 DEF ReaderNext, ReadFails, HeadNext, HeadFound, HeadGrow, HeadGiveUp, HeadRead,
                BodyNext, ParseFails, ParseNoBody, BodyBegin, BodyNoMemory, BodyRead, BodyCopy,
                CopyNoMemory, Fail, GivenUp
  <1> QED
    BY <1>1, <1>2 DEF Next

LEMMA PromptKeeps ==
    ASSUME IInv, GivenUp, Prompt, [Next]_vars PROVE Prompt'
  <1>1. CASE ClientNext \/ UNCHANGED vars
    <2>1. request' = request /\ UNCHANGED reader
      BY <1>1 DEF ClientNext, ClientSend, ClientClose, ClientAbort, client, vars
    <2>2. sent' = sent \/ \E n \in Nat : sent' = sent + n
      BY <1>1, Numbers DEF ClientNext, ClientSend, ClientClose, ClientAbort, client, vars, IInv
    <2>3. sent >= request.head => sent' >= request.head
      BY <2>2, Numbers DEF IInv
    <2> QED
      BY <2>1, <2>3 DEF reader, Prompt, LargestHead
  <1>2. CASE HeadNext
    <2> PICK n \in 0..cap : HeadFound(n) \/ HeadGrow(n) \/ HeadGiveUp(n)
      BY <1>2 DEF HeadNext
    <2>1. /\ phase = "head" /\ got = 0 /\ total < request.head /\ sent >= request.head
          /\ total = ChunkSize * (chunks - 1) /\ total < ChunkSize * chunks
          /\ n \in Nat /\ total' = total + n /\ UNCHANGED client
          /\ ReadReturns(ChunkSize * chunks - total, n)
      BY Numbers DEF HeadFound, HeadGrow, HeadGiveUp, HeadRead, IInv, AtHead, Prompt
    <2>2. chunks \in Nat \ {0} /\ ChunkSize * chunks = total + ChunkSize
      <3>1. chunks \in Nat /\ total \in Nat /\ ChunkSize \in Nat
        BY Numbers DEF IInv
      <3>2. chunks # 0
        <4>1. ChunkSize * 0 = 0
          BY <3>1
        <4> QED
          BY <2>1, <3>1, <4>1
      <3>3. chunks - 1 \in Nat /\ chunks = (chunks - 1) + 1
        BY <3>1, <3>2
      <3>4. ChunkSize * ((chunks - 1) + 1) = ChunkSize * (chunks - 1) + ChunkSize
        BY <3>3, OneMoreChunk
      <3> QED
        BY <2>1, <3>1, <3>2, <3>3, <3>4
    <2>3. n = ChunkSize \/ total + n >= request.head
      <3>1. total \in Nat /\ sent \in Nat /\ request.head \in Nat /\ ChunkSize \in Nat \ {0}
        BY Numbers, SizesAssumption DEF IInv
      <3> DEFINE room == ChunkSize * chunks - total
      <3>2. room = ChunkSize
        BY <2>2, <3>1
      <3>3. ReadReturns(room, n)
        BY <2>1
      <3> HIDE DEF room
      <3>4. Pending = sent - total /\ Pending > 0
        BY <2>1, <3>1 DEF Pending
      <3>5. n = IF Pending <= room THEN Pending ELSE room
        BY <3>1, <3>2, <3>3, <3>4 DEF ReadReturns, Least
      <3> QED
        BY <2>1, <3>1, <3>2, <3>4, <3>5
    <2>4. CASE HeadFound(n)
      BY <2>1, <2>4 DEF HeadFound, Prompt, client, LargestHead
    <2>5. ASSUME total + n < request.head
          PROVE  total + n = ChunkSize * chunks /\ MayGrow(ChunkSize * (chunks + 1))
      <3>1. total + n = ChunkSize * chunks
        BY <2>2, <2>3, <2>5, Numbers DEF IInv
      <3>2. ChunkSize * chunks < LargestHead
        <4>1. LargestHead \in Nat
          BY SizesAssumption DEF LargestHead
        <4>2. request.head <= LargestHead /\ request.head \in Nat /\ ChunkSize * chunks \in Nat
          BY <2>2, OneMoreChunk, Numbers DEF Prompt, IInv
        <4> QED
          BY <2>5, <3>1, <4>1, <4>2
      <3> QED
        BY <2>2, <3>1, <3>2, AnotherChunk
    <2>6. CASE HeadGrow(n)
      <3>1. chunks' = chunks + 1 /\ chunks' - 1 = chunks /\ failure' = failure
            /\ total' = ChunkSize * chunks
        BY <2>1, <2>2, <2>5, <2>6 DEF HeadGrow
      <3> QED
        BY <2>1, <3>1 DEF Prompt, client, LargestHead
    <2>7. CASE HeadGiveUp(n)
      BY <2>1, <2>5, <2>7 DEF HeadGiveUp, Fail, Prompt, client, LargestHead
    <2> QED
      BY <2>4, <2>6, <2>7
  <1>3. CASE ReadFails \/ BodyNext
    <2>1. UNCHANGED client /\ phase' # "head" /\ (failure' = failure \/ failure' # "capacity")
      BY <1>3 DEF ReadFails, BodyNext, ParseFails, ParseNoBody, BodyBegin, BodyNoMemory, BodyRead,
                  BodyCopy, CopyNoMemory, Fail
    <2> QED
      BY <2>1 DEF Prompt, client, LargestHead
  <1> QED
    BY <1>1, <1>2, <1>3 DEF Next, ReaderNext

\* A head that fits in the buffer and is on the wire before the first read is never given up for
\* want of room: for every chunk size and limit the growth loop reaches its last chunk.
THEOREM PromptHeads == Spec => PromptHeadIsRead
  <1> DEFINE P == /\ phase = "head" /\ total = 0 /\ chunks = 1
                  /\ sent >= request.head
                  /\ request.head <= LargestHead
  <1>1. Init => GivenUp
    BY DEF Init, GivenUp
  <1>2. IInv /\ GivenUp /\ P => Prompt
    BY SizesAssumption DEF GivenUp, Prompt
  <1>3. Prompt => failure # "capacity"
    BY DEF Prompt
  <1>4. GivenUp /\ [Next]_vars => GivenUp'
    BY GivenUpKeeps
  <1>5. IInv /\ GivenUp /\ Prompt /\ [Next]_vars => Prompt'
    BY PromptKeeps
  <1> HIDE DEF P
  <1>6. Spec => [](P => [](failure # "capacity"))
    BY <1>1, <1>2, <1>3, <1>4, <1>5, Invariance, PTL DEF Spec
  <1> QED
    BY <1>6 DEF PromptHeadIsRead, P

-----------------------------------------------------------------------------
(* Why reading ends: what is proved of it.  Every step of the reader lowers a   *)
(* number that the client cannot raise, and a reader that has not ended has a   *)
(* step to take as soon as nothing more is due.  Only the fairness is left out. *)

\* How many steps the reader has left at most.
StepsLeft ==
    CASE phase = "head"  -> 4 + BodyMax + (HeadersMax - cap)
      [] phase = "parse" -> 3 + BodyMax
      [] phase = "body"  -> 2 + (toRead - got)
      [] phase = "copy"  -> 1
      [] OTHER           -> 0

MostSteps == 4 + BodyMax + HeadersMax

LEMMA StepsLeftBound ==
    ASSUME IInv PROVE StepsLeft \in 0..MostSteps
  <1>1. phase = "body" => toRead - got \in 1..BodyMax
    BY BodyNumbers, Numbers DEF IInv, AtBody
  <1>2. phase = "head" => HeadersMax - cap \in 0..HeadersMax
    BY Numbers DEF IInv, AtHead
  <1> QED
    BY <1>1, <1>2, Numbers DEF IInv, StepsLeft, MostSteps

LEMMA HeadProgress ==
    ASSUME IInv, HeadNext PROVE StepsLeft' < StepsLeft
  <1> PICK n \in 0..cap : HeadFound(n) \/ HeadGrow(n) \/ HeadGiveUp(n)
    BY DEF HeadNext
  <1>1. phase = "head" /\ cap = ChunkSize * chunks /\ cap <= HeadersMax
    BY DEF HeadFound, HeadGrow, HeadGiveUp, HeadRead, IInv, AtHead
  <1>2. CASE HeadFound(n)
    BY <1>1, <1>2, Numbers DEF HeadFound, StepsLeft, IInv
  <1>3. CASE HeadGrow(n)
    <2>1. cap' = cap + ChunkSize /\ ChunkSize > 0 /\ cap' <= HeadersMax /\ phase' = "head"
      BY <1>1, <1>3, OneMoreChunk, Numbers, SizesAssumption DEF HeadGrow, MayGrow, IInv
    <2> QED
      BY <1>1, <2>1, Numbers DEF StepsLeft, IInv
  <1>4. CASE HeadGiveUp(n)
    BY <1>1, <1>4, Numbers DEF HeadGiveUp, Fail, StepsLeft, IInv
  <1> QED
    BY <1>2, <1>3, <1>4

LEMMA BodyProgress ==
    ASSUME IInv, ReadFails \/ BodyNext PROVE StepsLeft' < StepsLeft
  <1>1. CASE ReadFails \/ ParseFails \/ BodyNoMemory \/ CopyNoMemory
    <2>1. phase' = "failed" /\ phase \in {"head", "parse", "body", "copy"}
      BY <1>1 DEF ReadFails, ParseFails, BodyNoMemory, CopyNoMemory, Fail
    <2> QED
      BY <2>1, Numbers DEF StepsLeft, IInv, AtHead, AtBody
  <1>2. CASE ParseNoBody \/ BodyCopy
    BY <1>2, Numbers DEF ParseNoBody, BodyCopy, StepsLeft, IInv
  <1>3. CASE BodyBegin
    <2>1. /\ phase = "parse" /\ toRead' = BodyToRead /\ got' = 0
          /\ phase' = IF BodyToRead = 0 THEN "copy" ELSE "body"
      BY <1>3 DEF BodyBegin, IInv, AtParse
    <2>2. BodyToRead \in 0..BodyMax
      BY <2>1, BodyNumbers, Numbers DEF IInv, AtParse
    <2> QED
      BY <2>1, <2>2, Numbers DEF StepsLeft, IInv
  <1>4. CASE \E n \in 0..toRead : BodyRead(n)
    <2> PICK n \in 0..toRead : BodyRead(n)
      BY <1>4
    <2>1. /\ phase = "body" /\ got < toRead /\ toRead' = toRead /\ got' = got + n
          /\ phase' = IF n = 0 \/ got + n = toRead THEN "copy" ELSE "body"
      BY DEF BodyRead, IInv, AtBody
    <2> QED
      BY <2>1, Numbers DEF StepsLeft, IInv
  <1> QED
    BY <1>1, <1>2, <1>3, <1>4 DEF BodyNext

\* However the client sends, closes or resets, the reader takes at most MostSteps steps:
\* each lowers StepsLeft, and nothing the client does raises it.
THEOREM BoundedWork ==
    Spec => /\ [](StepsLeft \in 0..MostSteps)
            /\ [][StepsLeft' <= StepsLeft /\ (ReaderNext => StepsLeft' < StepsLeft)]_vars
  <1>1. IInv => StepsLeft \in 0..MostSteps
    BY StepsLeftBound
  <1>2. IInv' => (StepsLeft \in 0..MostSteps)'
    BY <1>1, PTL
  <1>3. IInv /\ [Next]_vars =>
          [StepsLeft' <= StepsLeft /\ (ReaderNext => StepsLeft' < StepsLeft)]_vars
    <2> SUFFICES ASSUME IInv, Next
                 PROVE  StepsLeft' <= StepsLeft /\ (ReaderNext => StepsLeft' < StepsLeft)
      OBVIOUS
    <2>1. StepsLeft \in Nat /\ StepsLeft' \in Nat
      BY <1>1, <1>2, StepInv
    <2>2. ReaderNext => StepsLeft' < StepsLeft
      BY HeadProgress, BodyProgress DEF ReaderNext
    <2>3. ClientNext => StepsLeft' = StepsLeft
      BY DEF ClientNext, ClientSend, ClientClose, ClientAbort, reader, StepsLeft
    <2> QED
      BY <2>1, <2>2, <2>3 DEF Next
  <1> QED
    BY <1>1, <1>3, Invariance, PTL DEF Spec

\* The room the reader offers to its next read().
Room == IF phase = "head" THEN ChunkSize * chunks - total ELSE toRead - got

\* The reader is not blocked in read(): it is between two reads, or read() reports something.
CanGoOn ==
    \/ phase \in {"parse", "copy"}
    \/ aborted
    \/ \E n \in 0..Room : ReadReturns(Room, n)

\* The reader never waits for a byte that is not due: when the client has closed, was reset or has
\* sent all that its head announced, the reader has ended or can go on.
THEOREM NeverWaitsForMore == Spec => [](NothingMoreDue => Finished \/ CanGoOn)
  <1>1. ASSUME IInv, NothingMoreDue, ~Finished PROVE CanGoOn
    <2>1. phase \in {"head", "parse", "body", "copy"}
      BY <1>1 DEF Finished, IInv, TypeOK, Phases
    <2>2. ASSUME phase \in {"head", "body"}, ~aborted PROVE ReadReturns(Room, Least(Pending, Room))
      <3>1. Room \in Nat /\ Room > 0
        BY <1>1, <2>2, Numbers DEF Room, IInv, AtHead, AtBody
      <3>2. Pending \in Nat /\ sent = total + got + Pending
        BY <1>1, Numbers DEF Pending, IInv, Throughout
      <3>3. Pending = 0 => closed
        <4>1. CASE phase = "head"
          BY <4>1, <1>1, <2>2, <3>2, Numbers DEF NothingMoreDue, IInv, AtHead
        <4>2. CASE phase = "body"
          <5>1. /\ request.head <= total /\ toRead = BodyToRead /\ got < toRead
            BY <4>2, <1>1 DEF IInv, AtBody
          <5> QED
            BY <5>1, <1>1, <2>2, <3>2, BodyNumbers, Numbers DEF NothingMoreDue, IInv
        <4> QED
          BY <4>1, <4>2, <2>2
      <3> QED
        BY <2>2, <3>1, <3>2, <3>3 DEF ReadReturns, Least
    <2>3. ASSUME phase \in {"head", "body"} PROVE Least(Pending, Room) \in 0..Room
      BY <1>1, <2>3, Numbers DEF Least, Pending, Room, IInv, Throughout, AtHead, AtBody
    <2> QED
      BY <2>1, <2>2, <2>3 DEF CanGoOn
  <1> QED
    BY <1>1, Invariance, PTL

=============================================================================
