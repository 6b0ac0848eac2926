------------------------ MODULE ConnectionService_proofs -----------------------
(***************************************************************************)
(* Proof that HttpServer implements ConnectionService: each step of the    *)
(* program and of its clients is one step of the service, or none.         *)
(***************************************************************************)
EXTENDS HttpServer_proofs

\* What the service needs to know beyond IInv: an answer is decided on for a body that
\* RequestIntake allows, and a connection that ends without a failure, reset or not, has been
\* given all of it.
Undecided == Reading \cup {"handle"}
BodyKnown ==
    bodyLen \in 0..BodyMax /\ Accepted(bodyLen) /\ (bodyLen > 0 => "body" \in fields)

AnswerKnown ==
    /\ pc \in Reading \cup {"accept", "freeBuff", "close"} => bodyLen = 0
    /\ pc = "handle" => BodyKnown
    /\ pc \in Ending /\ serving \notin failed =>
          due[serving] > 0 /\ written[serving] = due[serving]

Served == [Service!Next]_Service!service

-----------------------------------------------------------------------------
(* The steps the service does not see, and failures. *)

\* What the service sees of a server step that decides nothing and gives nothing.
LEMMA FailOrNothing ==
  ASSUME IInv, pc \notin {"accept", "killed"}, pc' # "killed",
         UNCHANGED <<clientVars, conn, backlog, due, written>>,
         failed' = failed \/ (failed' = failed \cup {serving} /\ (due[serving] = 0 \/ aborted[serving]))
  PROVE  Served
  <1>1. UNCHANGED <<request, sent, closed, aborted>>
    BY DEF clientVars
  <1>2. CASE failed' = failed
    BY <1>1, <1>2 DEF Served, Service!service, Service!clients
  <1>3. CASE failed' # failed
    <2>1. serving \in Clients /\ conn[serving] = "serving" /\ serving \notin failed
      BY <1>3, Serving
    <2>2. Service!Fail(serving)
      BY <1>1, <1>3, <2>1 DEF Service!Fail, Service!Serving, Service!clients
    <2> QED
      BY <2>1, <2>2 DEF Served, Service!Next
  <1> QED
    BY <1>2, <1>3

\* Up to the answer a step may read, allocate and give up.
LEMMA ReadingServes ==
  ASSUME IInv, AnswerKnown, pc \in Undecided, pc' # "killed",
         UNCHANGED <<clientVars, netVars, written, due>>,
         \/ failed' = failed /\ pc' \in Reading /\ bodyLen' = bodyLen /\ pc \in Reading
         \/ failed' = failed /\ pc' = "handle" /\ BodyKnown'
         \/ /\ failed' = failed \cup {serving} /\ pc' \in Ending
            /\ pc' \in {"clearRes", "clearReq"} \/ (bodyLen' = bodyLen /\ pc \in Reading)
  PROVE  Served /\ AnswerKnown'
  <1> USE DEF Undecided, Reading, Ending
  <1>1. UNCHANGED <<conn, backlog, serving, due, written>>
    BY DEF netVars
  <1>2. due[serving] = 0
    BY DEF IInv, ProgressSound, Working
  <1>3. Served
    BY <1>1, <1>2, FailOrNothing
  <1>4. AnswerKnown'
    <2>1. CASE failed' = failed /\ pc' \in Reading /\ bodyLen' = bodyLen /\ pc \in Reading
      BY <1>1, <2>1 DEF AnswerKnown
    <2>2. CASE failed' = failed /\ pc' = "handle" /\ BodyKnown'
      BY <1>1, <1>2, <2>2 DEF AnswerKnown
    <2>3. CASE /\ failed' = failed \cup {serving} /\ pc' \in Ending
               /\ pc' \in {"clearRes", "clearReq"} \/ (bodyLen' = bodyLen /\ pc \in Reading)
      BY <1>1, <1>2, <2>3 DEF AnswerKnown
    <2> QED
      BY <2>1, <2>2, <2>3
  <1> QED
    BY <1>3, <1>4

LEMMA SetupServes ==
  ASSUME IInv, AnswerKnown, AllocBuff \/ AllocReq
  PROVE  Served /\ AnswerKnown'
  BY ReadingServes DEF AllocBuff, AllocReq, GiveUp, Undecided, Reading, Ending

\* The body of a request without one has no bytes.
LEMMA NoBodyServes ==
  ASSUME IInv, AnswerKnown, NoBody
  PROVE  Served /\ AnswerKnown'
  <1> USE DEF NoBody
  <1>1. UNCHANGED <<request, sent, closed, aborted, serving, bodyLen, fields>>
    BY DEF clientVars, netVars, heapVars, replyVars
  <1>2. bodyLen = 0 /\ pc \in Undecided
    BY DEF AnswerKnown, Reading, Undecided
  <1>3. sent[serving] >= request[serving].head
    BY DEF IInv, AnswerSound
  <1>4. Accepted(bodyLen)
    BY <1>2, <1>3 DEF Accepted, Intake!AcceptedBody
  <1>5. BodyKnown'
    BY <1>1, <1>2, <1>4, ServerAssumption DEF BodyKnown, Accepted
  <1> QED
    BY <1>2, <1>5, ReadingServes DEF replyVars

LEMMA ReadBodyServes ==
  ASSUME IInv, AnswerKnown, NEW n \in 0..BodyMax, ReadBody(n)
  PROVE  Served /\ AnswerKnown'
  <1> USE DEF ReadBody
  <1>1. UNCHANGED <<request, sent, closed, aborted, serving>>
    BY DEF clientVars, netVars
  <1>2. BodyKnown'
    BY <1>1 DEF BodyKnown, Accepted
  <1> QED
    BY <1>2, ReadingServes DEF Undecided, Reading

LEMMA ParseServes ==
  ASSUME IInv, AnswerKnown, Parse
  PROVE  Served /\ AnswerKnown'
  <1> USE DEF Undecided, Reading, Ending
  <1>1. CASE ReadHead \/ ReadHeadFails
    BY <1>1, ReadingServes DEF ReadHead, ReadHeadFails, GiveUp, replyVars
  <1>2. CASE ParseLine
    BY <1>2, ReadingServes DEF ParseLine, GiveUp
  <1>3. CASE ParseHeaders \/ ParseHeadersFails
    BY <1>3, ReadingServes DEF ParseHeaders, ParseHeadersFails, GiveUp, replyVars
  <1>4. CASE ReadBodyFails
    BY <1>4, ReadingServes DEF ReadBodyFails, GiveUp
  <1> QED
    BY <1>1, <1>2, <1>3, <1>4, NoBodyServes, ReadBodyServes DEF Parse

-----------------------------------------------------------------------------
(* The answer is decided on, given, and the connection ends. *)

\* What a handler may answer with, given the body that came.
LEMMA DecideServes ==
  ASSUME IInv, AnswerKnown, pc = "handle", UNCHANGED <<clientVars, netVars, written>>, NEW r, Respond(r),
         r.length \in Nat, request[serving].route = "echo" /\ bodyLen > 0 => r.length = bodyLen
  PROVE  Served /\ AnswerKnown'
  <1> USE DEF Respond
  <1>1. UNCHANGED <<request, sent, closed, aborted, conn, backlog, serving>>
    BY DEF clientVars, netVars
  <1>2. serving \in Clients /\ conn[serving] = "serving" /\ serving \notin failed
    BY Serving DEF IInv, ProgressSound, Working
  <1>3. due[serving] = 0 /\ due \in [Clients -> Nat]
    BY DEF IInv, TypeOK, ProgressSound, Working
  <1>4. due'[serving] = 1 + r.length /\ due'[serving] # 0
    BY <1>2, <1>3
  <1>5. bodyLen \in 0..BodyMax /\ Service!Intake(serving)!AcceptedBody(request[serving], sent[serving], closed[serving], bodyLen)
    BY ServerAssumption DEF AnswerKnown, BodyKnown, Accepted, Intake!AcceptedBody,
       Service!Intake!AcceptedBody, Intake!Delivered, Service!Intake!Delivered, Intake!AtMost,
       Service!Intake!AtMost
  <1>6. due'[serving] \in Service!AnswerLengths(request[serving], bodyLen)
    BY <1>4 DEF Service!AnswerLengths
  <1>7. Service!Decide(serving)
    BY <1>1, <1>2, <1>3, <1>4, <1>5, <1>6 DEF Service!Decide, Service!Serving, Service!clients
  <1>8. Served
    BY <1>2, <1>7 DEF Served, Service!Next
  <1>9. \A c \in Clients : conn[c] \in {"idle", "queued"} => due'[c] = due[c]
    BY <1>2, <1>3
  <1>10. AnswerKnown'
    BY <1>1, <1>9 DEF AnswerKnown, Undecided, Reading, Ending
  <1> QED
    BY <1>8, <1>10

LEMMA HandleServes ==
  ASSUME IInv, AnswerKnown, Handle
  PROVE  Served /\ AnswerKnown'
  <1>1. /\ pc = "handle" /\ UNCHANGED <<clientVars, netVars, written>>
        /\ bodyLen \in Nat /\ (bodyLen > 0 => "body" \in fields)
    BY DEF Handle, HandleRedirect, HandleEcho, HandleFile, HandleText, AnswerKnown, BodyKnown, IInv, TypeOK
  <1>2. CASE GiveUp("clearRes") /\ UNCHANGED <<bodyLen, due>>
    BY <1>1, <1>2, ReadingServes DEF GiveUp, Undecided, Ending
  <1>3. ASSUME NEW r, Respond(r), r.length \in Nat,
               request[serving].route = "echo" /\ bodyLen > 0 => r.length = bodyLen
        PROVE  Served /\ AnswerKnown'
    BY <1>1, <1>3, DecideServes
  <1>4. CASE HandleRedirect
    BY <1>2, <1>3, <1>4 DEF HandleRedirect, NoResponse
  <1>5. CASE HandleEcho
    <2>1. CASE Echoes /\ Respond([NoResponse EXCEPT !.body = "body", !.length = bodyLen])
      BY <1>1, <1>3, <2>1 DEF NoResponse
    <2>2. CASE ~Echoes /\ Respond([NoResponse EXCEPT !.body = "text", !.owned = TRUE, !.length = 1])
      BY <1>1, <1>3, <2>2 DEF NoResponse, Echoes
    <2> QED
      BY <1>2, <1>5, <2>1, <2>2 DEF HandleEcho
  <1>6. CASE HandleFile
    <2>1. ASSUME NEW n \in {0, 2},
                 Respond([NoResponse EXCEPT !.body = "file", !.owned = TRUE, !.length = n])
          PROVE  Served /\ AnswerKnown'
      <3>1. [NoResponse EXCEPT !.body = "file", !.owned = TRUE, !.length = n].length = n
        BY DEF NoResponse
      <3>2. n \in Nat /\ ~ (request[serving].route = "echo" /\ bodyLen > 0)
        BY <1>6, <2>1 DEF HandleFile
      <3> QED
        BY <1>3, <2>1, <3>1, <3>2, Zenon
    <2>2. ASSUME Respond(NoResponse) PROVE Served /\ AnswerKnown'
      BY <1>1, <1>3, <1>6, <2>2 DEF NoResponse, HandleFile
    <2>3. ASSUME Respond(StaticText) PROVE Served /\ AnswerKnown'
      BY <1>1, <1>3, <1>6, <2>3 DEF StaticText, NoResponse, HandleFile
    <2> QED
      BY <1>2, <1>6, <2>1, <2>2, <2>3, Zenon DEF HandleFile
  <1>7. CASE HandleText
    BY <1>1, <1>3, <1>7 DEF HandleText, StaticText, NoResponse
  <1> QED
    BY <1>4, <1>5, <1>6, <1>7 DEF Handle

LEMMA WriteServes ==
  ASSUME IInv, AnswerKnown, NEW n \in 1..SocketRoom, Write(n)
  PROVE  Served /\ AnswerKnown'
  <1> DEFINE size == written[serving] + n
  <1>1. UNCHANGED <<request, sent, closed, aborted, conn, backlog, serving, due, failed>>
    BY DEF Write, clientVars, netVars
  <1>2. pc \in {"sendHead", "sendBody"} /\ ~aborted[serving] /\ size <= SendEnd
    BY DEF Write
  <1>3. serving \in Clients /\ conn[serving] = "serving" /\ serving \notin failed
    BY <1>2, Serving DEF IInv, ProgressSound, Working
  <1>4. /\ written \in [Clients -> Nat] /\ n \in Nat \ {0} /\ res.length \in Nat
        /\ due[serving] = 1 + res.length
    BY <1>2, ServerAssumption DEF IInv, TypeOK, ProgressSound
  <1>5. /\ written'[serving] = size /\ written' = [written EXCEPT ![serving] = size]
        /\ \A c \in Clients : c # serving => written'[c] = written[c]
    BY <1>3, <1>4 DEF Write
  <1>6. size \in (written[serving] + 1)..due[serving]
    <2>1. written[serving] \in Nat /\ due[serving] \in Nat
      BY <1>3, <1>4
    <2>2. SendEnd <= due[serving] /\ SendEnd \in Nat
      BY <1>4 DEF SendEnd, ResponseLength
    <2> QED
      BY <1>2, <1>4, <2>1, <2>2
  <1>7. pc' = AfterSend(size) /\ pc' # "killed"
    BY <1>2 DEF Write, AfterSend
  <1>8. Service!Give(serving)
    BY <1>1, <1>2, <1>3, <1>5, <1>6, <1>7 DEF Service!Give, Service!Serving, Service!clients
  <1>9. Served
    BY <1>3, <1>8 DEF Served, Service!Next
  <1>10. pc' \in {"sendHead", "sendBody"} \/ (pc' = "clearRes" /\ size = due[serving])
    <2>1. CASE pc = "sendHead"
      BY <1>2, <1>4, <1>6, <1>7, <2>1 DEF AfterSend, SendEnd, ResponseLength
    <2>2. CASE pc = "sendBody"
      BY <1>2, <1>4, <1>6, <1>7, <2>2 DEF AfterSend, SendEnd, ResponseLength
    <2> QED
      BY <1>2, <2>1, <2>2
  <1>11. AnswerKnown'
    BY <1>1, <1>4, <1>5, <1>10 DEF AnswerKnown, Undecided, Reading, Ending
  <1> QED
    BY <1>9, <1>11

\* A write to a connection that was reset fails, or the process dies of it.
LEMMA ResetServes ==
  ASSUME IInv, AnswerKnown, WriteError \/ WriteSignal
  PROVE  Served /\ AnswerKnown'
  <1>1. pc \in {"sendHead", "sendBody"} /\ aborted[serving]
    BY DEF WriteError, WriteSignal
  <1>2. UNCHANGED <<request, sent, closed, aborted, conn, backlog, serving, due, written>>
    BY DEF WriteError, WriteSignal, clientVars, netVars, replyVars
  <1>3. serving \in Clients /\ conn[serving] = "serving" /\ due[serving] > 0
    BY <1>1, Serving DEF IInv, ProgressSound, ReplySound
  <1>4. CASE WriteError
    <2>1. Served
      BY <1>1, <1>2, <1>4, FailOrNothing DEF WriteError, GiveUp
    <2>2. AnswerKnown'
      BY <1>2, <1>4 DEF WriteError, GiveUp, AnswerKnown, Undecided, Reading, Ending
    <2> QED
      BY <2>1, <2>2
  <1>5. CASE WriteSignal
    <2>1. pc' = "killed" /\ failed' = failed
      BY <1>5 DEF WriteSignal, replyVars
    <2>2. Service!Die(serving)
      BY <1>1, <1>2, <1>3, <2>1 DEF Service!Die, Service!Serving, Service!clients
    <2>3. Served
      BY <1>3, <2>2 DEF Served, Service!Next
    <2>4. AnswerKnown'
      BY <1>2, <2>1 DEF AnswerKnown, Undecided, Reading, Ending
    <2> QED
      BY <2>3, <2>4
  <1> QED
    BY <1>4, <1>5

LEMMA CleanupServes ==
  ASSUME IInv, AnswerKnown, Cleanup
  PROVE  Served /\ AnswerKnown'
  <1> USE DEF ClearResponse, ClearRequest, FreeBuff, CloseConnection
  <1>1. /\ pc \in Ending /\ UNCHANGED <<clientVars, backlog, due, written, failed>>
        /\ serving \in Clients /\ conn[serving] = "serving"
    BY Serving DEF Cleanup, Ending, netVars, replyVars
  <1>2. CASE ClearResponse \/ ClearRequest \/ FreeBuff
    <2>1. UNCHANGED <<conn, serving>> /\ pc' \in Ending
      BY <1>2 DEF netVars, Ending
    <2>2. Served
      BY <1>1, <2>1, FailOrNothing DEF Ending
    <2>3. pc' \in {"freeBuff", "close"} => bodyLen' = 0
      BY <1>1, <1>2 DEF AnswerKnown, Ending, replyVars
    <2>4. AnswerKnown'
      BY <1>1, <2>1, <2>3 DEF AnswerKnown, Undecided, Reading, Ending
    <2> QED
      BY <2>2, <2>4
  <1>3. CASE CloseConnection
    <2>1. serving \in failed \/ (due[serving] > 0 /\ written[serving] = due[serving])
      BY <1>1 DEF AnswerKnown
    <2>2. Service!End(serving)
      BY <1>1, <1>3, <2>1 DEF Service!End, Service!Serving, Service!clients, clientVars
    <2>3. Served
      BY <1>1, <2>2 DEF Served, Service!Next
    <2>4. \A c \in Clients : conn'[c] \in {"idle", "queued"} => conn[c] = conn'[c]
      BY <1>1, <1>3 DEF IInv, TypeOK
    <2>5. AnswerKnown'
      BY <1>1, <1>3, <2>4 DEF replyVars, AnswerKnown, Undecided, Reading, Ending
    <2> QED
      BY <2>3, <2>5
  <1> QED
    BY <1>2, <1>3 DEF Cleanup

-----------------------------------------------------------------------------
(* A turn begins, and what the clients do. *)

LEMMA AcceptServes ==
  ASSUME IInv, AnswerKnown, Accept
  PROVE  Served /\ AnswerKnown'
  <1> DEFINE c == Head(backlog)
  <1>1. /\ pc = "accept" /\ pc' = "buff" /\ backlog # << >> /\ serving' = c
        /\ UNCHANGED <<request, sent, closed, aborted, due, written, failed, bodyLen>>
        /\ conn' = [conn EXCEPT ![c] = "serving"] /\ backlog' = Tail(backlog)
    BY DEF Accept, clientVars, replyVars
  <1>2. c \in Clients /\ conn[c] = "queued"
    BY <1>1 DEF IInv, QueueSound
  <1>3. \A d \in Clients : conn[d] # "serving"
    BY <1>1, ServerAssumption DEF IInv, TypeOK, QueueSound
  <1>4. Service!Begin
    BY <1>1, <1>3 DEF Service!Begin, Service!clients
  <1>5. Served
    BY <1>4 DEF Served, Service!Next
  <1>6. bodyLen = 0
    BY <1>1 DEF AnswerKnown
  <1>7. AnswerKnown'
    BY <1>1, <1>2, <1>6 DEF AnswerKnown, Undecided, Reading, Ending
  <1> QED
    BY <1>5, <1>7

LEMMA ClientServes ==
  ASSUME IInv, AnswerKnown, ClientNext
  PROVE  Served /\ AnswerKnown'
  <1>1. PICK c \in Clients : \/ Connect(c) \/ ClientTake(c) \/ ClientClose(c) \/ ClientAbort(c)
                            \/ \E n \in 1..(request[c].head + request[c].tail) : ClientSend(c, n)
    BY DEF ClientNext
  <1>2. UNCHANGED <<request, serving, pc, bodyLen, due, written, failed, fields>>
    BY <1>1 DEF Connect, ClientTake, ClientClose, ClientAbort, ClientSend, clientVars, netVars,
       replyVars, heapVars
  <1>3. CASE Connect(c)
    <2>1. UNCHANGED <<sent, closed, aborted>>
      BY <1>3 DEF Connect, clientVars
    <2>2. Service!Connect(c)
      BY <1>2, <1>3, <2>1 DEF Connect, Service!Connect, Service!clients
    <2>3. Served
      BY <2>2 DEF Served, Service!Next
    <2>4. \A d \in Clients : conn'[d] \in {"idle", "queued"} => conn[d] \in {"idle", "queued"}
      BY <1>3 DEF Connect, IInv, TypeOK
    <2>5. AnswerKnown'
      BY <1>2, <2>1, <2>4 DEF AnswerKnown, BodyKnown, Accepted
    <2> QED
      BY <2>3, <2>5
  <1>4. CASE ~Connect(c)
    <2>1. /\ UNCHANGED <<conn, backlog>>
          /\ \A d \in Clients : sent'[d] >= sent[d] /\ (closed[d] \/ aborted[d] => sent'[d] = sent[d])
          /\ \A d \in Clients : (closed[d] => closed'[d]) /\ (aborted[d] => aborted'[d])
      <3>1. UNCHANGED <<conn, backlog>>
        BY <1>1, <1>4 DEF ClientTake, ClientClose, ClientAbort, ClientSend, netVars
      <3>2. \A d \in Clients : sent[d] \in Nat
        BY ServerAssumption DEF IInv, TypeOK
      <3>3. CASE ClientTake(c) \/ ClientClose(c) \/ ClientAbort(c)
        BY <3>1, <3>2, <3>3 DEF ClientTake, ClientClose, ClientAbort, IInv, TypeOK
      <3>4. CASE \E n \in 1..(request[c].head + request[c].tail) : ClientSend(c, n)
        <4>1. PICK n \in 1..(request[c].head + request[c].tail) : ClientSend(c, n)
          BY <3>4
        <4>2. /\ sent' = [sent EXCEPT ![c] = sent[c] + n] /\ n \in Nat /\ ~closed[c] /\ ~aborted[c]
              /\ closed' = closed /\ aborted' = aborted
          BY <4>1 DEF ClientSend
        <4>3. \A d \in Clients : sent'[d] = IF d = c THEN sent[d] + n ELSE sent[d]
          BY <3>2, <4>1, <4>2 DEF ClientSend, IInv, TypeOK
        <4> QED
          BY <3>1, <3>2, <4>2, <4>3
      <3> QED
        BY <1>1, <1>4, <3>3, <3>4
    <2>2. Service!ClientStep
      BY <1>2, <2>1 DEF Service!ClientStep
    <2>3. Served
      BY <2>2 DEF Served, Service!Next
    <2>4. pc = "handle" => BodyKnown'
      <3>1. SUFFICES ASSUME pc = "handle" PROVE BodyKnown'
        OBVIOUS
      <3>2. serving \in Clients /\ BodyKnown
        BY <3>1, Serving DEF AnswerKnown
      <3>3. /\ sent[serving] \in Nat /\ sent'[serving] >= sent[serving] /\ sent'[serving] \in Nat
            /\ closed[serving] => closed'[serving] /\ sent'[serving] = sent[serving]
            /\ request[serving].head \in Nat /\ bodyLen \in Nat
        <4>1. sent[serving] \in Nat /\ request[serving] \in Requests
          BY <3>2, ServerAssumption DEF IInv, TypeOK
        <4>2. sent'[serving] \in Nat
          <5>1. IInv'
            BY ClientNextKeeps
          <5> QED
            BY <1>2, <3>2, <5>1, ServerAssumption DEF IInv, TypeOK
        <4> QED
          BY <2>1, <3>1, <3>2, <4>1, <4>2, ServerAssumption DEF BodyKnown
      <3>4. Accepted(bodyLen)'
        <4>1. Accepted(bodyLen)
          BY <3>2 DEF BodyKnown
        <4> QED
          BY <1>2, <3>3, <4>1 DEF Accepted, Intake!AcceptedBody, Intake!Delivered
      <3> QED
        BY <1>2, <3>2, <3>4 DEF BodyKnown, Accepted
    <2>5. AnswerKnown'
      BY <1>2, <2>1, <2>4 DEF AnswerKnown
    <2> QED
      BY <2>3, <2>5
  <1> QED
    BY <1>3, <1>4

-----------------------------------------------------------------------------
LEMMA InitServes == Init => Service!Init /\ AnswerKnown
  <1> SUFFICES ASSUME Init PROVE Service!Init /\ AnswerKnown
    OBVIOUS
  <1>1. Service!Init
    BY DEF Init, Service!Init
  <1>2. AnswerKnown
    BY DEF Init, AnswerKnown, Undecided, Reading, Ending
  <1> QED
    BY <1>1, <1>2

LEMMA StepServes ==
  ASSUME IInv, AnswerKnown, [Next]_vars
  PROVE  Served /\ AnswerKnown'
  <1>1. CASE UNCHANGED vars
    <2>1. /\ UNCHANGED <<request, sent, closed, aborted, conn, backlog, due, written, failed, pc>>
          /\ UNCHANGED <<serving, bodyLen, fields>>
      BY <1>1 DEF vars, clientVars, netVars, heapVars, replyVars
    <2> QED
      BY <2>1 DEF Served, Service!service, Service!clients, AnswerKnown, BodyKnown, Accepted
  <1>2. CASE ClientNext
    BY <1>2, ClientServes
  <1>3. CASE ServerNext
    <2>1. CASE Setup
      BY <2>1, AcceptServes, SetupServes DEF Setup
    <2>2. CASE Send
      BY <2>2, WriteServes, ResetServes DEF Send
    <2> QED
      BY <1>3, <2>1, <2>2, ParseServes, HandleServes, CleanupServes DEF ServerNext
  <1> QED
    BY <1>1, <1>2, <1>3 DEF Next

\* Both invariants hold in every reachable state.
THEOREM AnswersAreKnown == Spec => [](IInv /\ AnswerKnown)
  <1>1. Init => AnswerKnown
    BY InitServes
  <1>2. IInv /\ AnswerKnown /\ [Next]_vars => AnswerKnown'
    BY StepServes
  <1> QED
    BY <1>1, <1>2, Invariance, PTL DEF Spec

\* For any number of clients, any requests and any failures: connections are served one after the
\* other in the order in which they came, each with a whole answer to a request that is there,
\* or with none because a call failed or the connection was reset.
THEOREM ServerImplementsService == Spec => ImplementsService
  <1>1. Init => Service!Init
    BY InitServes
  <1>2. IInv /\ AnswerKnown /\ [Next]_vars => Served
    BY StepServes
  <1> QED
    BY <1>1, <1>2, AnswersAreKnown, PTL DEF Spec, ImplementsService, Service!Spec, Served

-----------------------------------------------------------------------------
(* Why everyone is served: what is proved of it.  A connection takes the server  *)
(* a bounded number of steps, and the server stands still only for the client    *)
(* that it serves.  The order of the queue is the service's; what is left is the *)
(* fairness of the one thread and the cooperation of the clients.                *)

\* The longest body of a response: an echo's, or a file's, which counts as two.
LongestBody == IF BodyMax >= 2 THEN BodyMax ELSE 2

\* How many steps the server has left at most for the connection at hand.
StepsLeft ==
    CASE pc = "buff"     -> 12 + LongestBody
      [] pc = "req"      -> 11 + LongestBody
      [] pc = "head"     -> 10 + LongestBody
      [] pc = "line"     -> 9 + LongestBody
      [] pc = "headers"  -> 8 + LongestBody
      [] pc = "body"     -> 7 + LongestBody
      [] pc = "handle"   -> 6 + LongestBody
      [] pc \in {"sendHead", "sendBody"} -> 4 + (due[serving] - written[serving])
      [] pc = "clearRes" -> 4
      [] pc = "clearReq" -> 3
      [] pc = "freeBuff" -> 2
      [] pc = "close"    -> 1
      [] OTHER           -> 0

MostSteps == 12 + LongestBody

\* What is still to be written, and that no response is longer than the longest.
ResponseFits == pc \in {"sendHead", "sendBody"} => res.length <= LongestBody

LEMMA SendingNumbers ==
  ASSUME IInv, pc \in {"sendHead", "sendBody"}
  PROVE  /\ serving \in Clients /\ due[serving] \in Nat /\ written[serving] \in Nat
         /\ res.length \in Nat /\ due[serving] = 1 + res.length
         /\ pc = "sendHead" => written[serving] = 0
         /\ pc = "sendBody" => written[serving] \in 1..res.length
  BY Serving DEF IInv, TypeOK, ProgressSound, Working

LEMMA StepsLeftBound ==
  ASSUME IInv, ResponseFits PROVE StepsLeft \in 0..MostSteps
  <1>1. LongestBody \in Nat
    BY ServerAssumption DEF LongestBody
  <1>2. pc \in {"sendHead", "sendBody"} => due[serving] - written[serving] \in 1..(1 + LongestBody)
    BY <1>1, SendingNumbers DEF ResponseFits
  <1> QED
    BY <1>1, <1>2 DEF StepsLeft, MostSteps

LEMMA HandleProgress ==
  ASSUME IInv, AnswerKnown, Handle
  PROVE  ResponseFits' /\ StepsLeft' < StepsLeft
  <1>1. /\ pc = "handle" /\ UNCHANGED <<serving, written>> /\ serving \in Clients
        /\ bodyLen \in 0..BodyMax /\ written[serving] = 0
    <2>1. pc = "handle" /\ UNCHANGED <<serving, written>>
      BY DEF Handle, HandleRedirect, HandleEcho, HandleFile, HandleText, netVars
    <2> QED
      BY <2>1, Serving DEF IInv, TypeOK, ProgressSound, Working, AnswerKnown, BodyKnown
  <1>2. LongestBody \in Nat /\ LongestBody >= 2 /\ LongestBody >= BodyMax /\ BodyMax \in Nat
    BY ServerAssumption DEF LongestBody
  <1>3. due \in [Clients -> Nat]
    BY DEF IInv, TypeOK
  <1>4. pc' = "clearRes" \/ \E r : Respond(r) /\ r.length \in 0..LongestBody
    <2> /\ 0 \in 0..LongestBody /\ 1 \in 0..LongestBody /\ 2 \in 0..LongestBody
        /\ bodyLen \in 0..LongestBody
      BY <1>1, <1>2
    <2>1. CASE HandleRedirect
      <3>1. [NoResponse EXCEPT !.extra = TRUE].length = 0
        BY DEF NoResponse
      <3> QED
        BY <2>1, <3>1, Zenon DEF HandleRedirect, GiveUp
    <2>2. CASE HandleEcho
      <3>1. /\ [NoResponse EXCEPT !.body = "body", !.length = bodyLen].length = bodyLen
            /\ [NoResponse EXCEPT !.body = "text", !.owned = TRUE, !.length = 1].length = 1
        BY DEF NoResponse
      <3> QED
        BY <2>2, <3>1, Zenon DEF HandleEcho, GiveUp
    <2>3. CASE HandleFile
      <3>1. /\ \A n \in {0, 2} :
                  [NoResponse EXCEPT !.body = "file", !.owned = TRUE, !.length = n].length
                      \in 0..LongestBody
            /\ NoResponse.length = 0 /\ StaticText.length = 1
        BY DEF NoResponse, StaticText
      <3> QED
        BY <2>3, <3>1, Zenon DEF HandleFile, GiveUp
    <2>4. CASE HandleText
      <3>1. StaticText.length = 1
        BY DEF NoResponse, StaticText
      <3> QED
        BY <2>4, <3>1, Zenon DEF HandleText
    <2> QED
      BY <2>1, <2>2, <2>3, <2>4 DEF Handle
  <1>5. ASSUME NEW r, Respond(r), r.length \in 0..LongestBody
        PROVE  ResponseFits' /\ StepsLeft' < StepsLeft
    <2>1. pc' = "sendHead" /\ res' = r /\ due'[serving] = 1 + r.length
      BY <1>1, <1>3, <1>5 DEF Respond
    <2> QED
      BY <1>1, <1>2, <1>5, <2>1 DEF StepsLeft, ResponseFits
  <1>6. CASE pc' = "clearRes"
    BY <1>1, <1>2, <1>6 DEF StepsLeft, ResponseFits
  <1> QED
    BY <1>4, <1>5, <1>6

LEMMA WriteProgress ==
  ASSUME IInv, ResponseFits, NEW n \in 1..SocketRoom, Write(n)
  PROVE  ResponseFits' /\ StepsLeft' < StepsLeft
  <1>1. /\ pc \in {"sendHead", "sendBody"} /\ UNCHANGED <<serving, due, res>>
        /\ written'[serving] = written[serving] + n /\ n \in Nat /\ n > 0
        /\ pc' = AfterSend(written[serving] + n) /\ written[serving] + n <= SendEnd
    BY SendingNumbers, ServerAssumption DEF Write, netVars, IInv, TypeOK
  <1>2. pc' = pc \/ pc' = "sendBody" \/ pc' = "clearRes"
    BY <1>1 DEF AfterSend
  <1>3. written'[serving] <= due[serving]
    BY <1>1, SendingNumbers DEF SendEnd, ResponseLength
  <1> QED
    BY <1>1, <1>2, <1>3, SendingNumbers DEF StepsLeft, ResponseFits

\* The other steps of a connection go from one label to a later one.
LEMMA LabelProgress ==
  ASSUME IInv, AllocBuff \/ AllocReq \/ Parse \/ WriteError \/ WriteSignal \/ Cleanup
  PROVE  ResponseFits' /\ StepsLeft' < StepsLeft
  <1>1. LongestBody \in Nat
    BY ServerAssumption DEF LongestBody
  <1>2. CASE AllocBuff \/ AllocReq
    BY <1>1, <1>2 DEF AllocBuff, AllocReq, GiveUp, StepsLeft, ResponseFits
  <1>3. CASE Parse
    BY <1>1, <1>3 DEF Parse, ReadHead, ReadHeadFails, ParseLine, ParseHeaders, ParseHeadersFails,
                      NoBody, ReadBody, ReadBodyFails, GiveUp, StepsLeft, ResponseFits
  <1>4. CASE WriteError \/ WriteSignal
    <2>1. pc \in {"sendHead", "sendBody"} /\ pc' \in {"clearRes", "killed"}
      BY <1>4 DEF WriteError, WriteSignal, GiveUp
    <2> QED
      BY <2>1, SendingNumbers DEF StepsLeft, ResponseFits
  <1>5. CASE Cleanup
    BY <1>5 DEF Cleanup, ClearResponse, ClearRequest, FreeBuff, CloseConnection, StepsLeft, ResponseFits
  <1> QED
    BY <1>2, <1>3, <1>4, <1>5

\* What clients do, and stuttering, leaves the server where it is.
LEMMA ClientsDoNotDelay ==
  ASSUME ResponseFits, ClientNext \/ UNCHANGED vars
  PROVE  ResponseFits' /\ StepsLeft' = StepsLeft
  <1>1. UNCHANGED <<pc, serving, due, written, res>>
    BY DEF ClientNext, Connect, ClientSend, ClientTake, ClientClose, ClientAbort, vars, netVars, replyVars
  <1> QED
    BY <1>1 DEF StepsLeft, ResponseFits

LEMMA StepProgress ==
  ASSUME IInv, AnswerKnown, ResponseFits, [Next]_vars
  PROVE  /\ ResponseFits'
         /\ Accept => StepsLeft = 0 /\ StepsLeft' = MostSteps
         /\ ServerNext /\ ~Accept => StepsLeft' < StepsLeft
         /\ ~ServerNext => StepsLeft' = StepsLeft
  <1>1. CASE Accept
    <2>1. pc = "accept" /\ pc' = "buff"
      BY <1>1 DEF Accept
    <2>2. StepsLeft = 0 /\ StepsLeft' = MostSteps /\ ResponseFits'
      BY <2>1 DEF StepsLeft, MostSteps, ResponseFits
    <2> QED
      BY <1>1, <2>2 DEF ServerNext, Setup
  <1>2. CASE ServerNext /\ ~Accept
    BY <1>2, LabelProgress, HandleProgress, WriteProgress DEF ServerNext, Setup, Send
  <1>3. CASE ~ServerNext
    BY <1>3, ClientsDoNotDelay DEF Next, ServerNext, Setup
  <1> QED
    BY <1>1, <1>2, <1>3

\* A connection takes the server at most MostSteps steps after accept(), however its clients and
\* its calls behave: every step but accept() lowers StepsLeft, and no client raises it.
THEOREM ConnectionsEnd ==
    Spec => /\ [](StepsLeft \in 0..MostSteps)
            /\ [][/\ Accept => StepsLeft = 0
                  /\ ~Accept => StepsLeft' <= StepsLeft /\ (ServerNext => StepsLeft' < StepsLeft)]_vars
  <1>1. Init => ResponseFits
    BY DEF Init, ResponseFits
  <1>2. IInv /\ AnswerKnown /\ ResponseFits /\ [Next]_vars => ResponseFits'
    BY StepProgress
  <1>3. Spec => []ResponseFits
    BY <1>1, <1>2, AnswersAreKnown, PTL DEF Spec
  <1>4. IInv /\ ResponseFits => StepsLeft \in 0..MostSteps
    BY StepsLeftBound
  <1>5. IInv' /\ ResponseFits' => (StepsLeft \in 0..MostSteps)'
    BY <1>4, PTL
  <1>6. IInv /\ AnswerKnown /\ ResponseFits /\ [Next]_vars /\ IInv' =>
          [/\ Accept => StepsLeft = 0
           /\ ~Accept => StepsLeft' <= StepsLeft /\ (ServerNext => StepsLeft' < StepsLeft)]_vars
    <2> SUFFICES ASSUME IInv, AnswerKnown, ResponseFits, Next, IInv'
                 PROVE  /\ Accept => StepsLeft = 0
                        /\ ~Accept => StepsLeft' <= StepsLeft /\ (ServerNext => StepsLeft' < StepsLeft)
      OBVIOUS
    <2>1. StepsLeft \in Nat /\ StepsLeft' \in Nat
      BY <1>4, <1>5, StepProgress DEF MostSteps
    <2> QED
      BY <2>1, StepProgress
  <1> QED
    BY <1>3, <1>4, <1>6, AnswersAreKnown, PTL DEF Spec

\* No call of the server blocks: there is a connection to accept, a read has or can have all that
\* it waits for, or there is room to write.
CanGoOn ==
    /\ pc = "accept" => backlog # << >>
    /\ Unblocked
    /\ pc \in {"sendHead", "sendBody"} => aborted[serving] \/ WriteRoom(serving) > 0
    /\ pc # "killed"

\* The client that is served owes bytes of its request or has to read what was written.
ItsTurn(c) == ~NothingMoreDue(c) \/ (~aborted[c] /\ taken[c] < written[c])

\* The one thread stands still only when nobody is there, after the signal, or for the client it
\* serves, and then because this client has not done its part: no other client, no failed call
\* and no length of a request makes it wait.
THEOREM WaitsForItsClientOnly ==
    Spec => [](\/ CanGoOn
               \/ pc = "killed"
               \/ pc = "accept" /\ backlog = << >>
               \/ serving \in Clients /\ ItsTurn(serving))
  <1>1. ASSUME IInv, pc \notin {"accept", "killed"}, ~ItsTurn(serving) PROVE CanGoOn
    <2>1. /\ serving \in Clients /\ request[serving] \in Requests /\ sent[serving] \in Nat
          /\ taken[serving] \in Nat /\ written[serving] \in Nat
          /\ request[serving].head \in Nat /\ request[serving].tail \in Nat
          /\ request[serving].contentLength \in Nat /\ BodyMax \in Nat
          /\ SocketRoom \in Nat \ {0}
      BY <1>1, Serving, ServerAssumption DEF IInv, TypeOK
    <2>2. NothingMoreDue(serving)
      BY <1>1 DEF ItsTurn
    <2>3. BodyDue(serving) \in 0..BodyMax
      BY <2>1 DEF BodyDue
    <2>4. pc = "head" => sent[serving] >= request[serving].head \/ closed[serving] \/ aborted[serving]
      BY <2>1, <2>2, <2>3 DEF NothingMoreDue
    <2>5. ASSUME pc = "body", ~aborted[serving] PROVE \E n \in 0..BodyMax : Accepted(n)
      <3> DEFINE came == sent[serving] - request[serving].head
                 n == IF request[serving].contentLength = 0 THEN 0
                      ELSE IF came <= BodyDue(serving) THEN came ELSE BodyDue(serving)
      <3>1. came \in Nat
        BY <1>1, <2>1, <2>5 DEF IInv, AnswerSound
      <3>2. BodyDue(serving) = Intake!AtMost(request[serving].contentLength, BodyMax)
        BY DEF BodyDue, Intake!AtMost
      <3>3. closed[serving] \/ came >= BodyDue(serving)
        BY <2>1, <2>2, <2>3, <2>5 DEF NothingMoreDue
      <3>4. n \in 0..BodyMax
        BY <2>1, <2>3, <3>1
      <3>5. Intake!AcceptedBody(request[serving], sent[serving], closed[serving], n)
        BY <2>1, <2>3, <3>1, <3>2, <3>3 DEF Intake!AcceptedBody, Intake!Delivered
      <3> HIDE DEF n
      <3> QED
        BY <3>4, <3>5 DEF Accepted
    <2>6. aborted[serving] \/ WriteRoom(serving) > 0
      BY <1>1, <2>1 DEF ItsTurn, WriteRoom
    <2> QED
      BY <1>1, <2>4, <2>5, <2>6 DEF CanGoOn, Unblocked
  <1>2. ASSUME IInv, pc = "accept", backlog # << >> PROVE CanGoOn
    BY <1>2 DEF CanGoOn, Unblocked
  <1>3. IInv => \/ CanGoOn
                \/ pc = "killed"
                \/ pc = "accept" /\ backlog = << >>
                \/ serving \in Clients /\ ItsTurn(serving)
    BY <1>1, <1>2, Serving
  <1> QED
    BY <1>3, Invariance, PTL

-----------------------------------------------------------------------------
(* Every step of the server is a step towards the end of everyone who waits.    *)

\* The place of a client in the line.
Place(line, c) == CHOOSE k \in 1..Len(line) : line[k] = c

\* The steps the server has to do at most until a connection has ended.
StepsUntilEnd(c) ==
    CASE conn[c] = "queued"  -> Place(backlog, c) * (MostSteps + 1) + StepsLeft
      [] conn[c] = "serving" -> StepsLeft
      [] OTHER               -> 0

\* Whoever waits stands in the line.
AllInLine == \A c \in Clients : conn[c] = "queued" => \E k \in 1..Len(backlog) : backlog[k] = c

LEMMA PlaceIs ==
    ASSUME NEW line, NEW c, NEW k \in 1..Len(line), line[k] = c,
           \A i, j \in 1..Len(line) : line[i] = line[j] => i = j
    PROVE  Place(line, c) = k
  BY DEF Place

\* Without accept(), connections only join at the end of the line, or end.
LEMMA LineGrows ==
    ASSUME IInv, Next, ~Accept
    PROVE  \/ UNCHANGED <<conn, backlog, serving>>
           \/ \E d \in Clients : /\ conn[d] = "idle" /\ conn' = [conn EXCEPT ![d] = "queued"]
                                 /\ backlog' = Append(backlog, d)
           \/ /\ serving \in Clients /\ conn' = [conn EXCEPT ![serving] = "done"]
              /\ backlog' = backlog /\ pc' = "accept"
  <1>1. CASE ClientNext
    BY <1>1 DEF ClientNext, Connect, ClientSend, ClientTake, ClientClose, ClientAbort, netVars
  <1>2. CASE AllocBuff \/ AllocReq \/ Parse
    BY <1>2 DEF AllocBuff, AllocReq, Parse, ReadHead, ReadHeadFails, ParseLine, ParseHeaders,
                ParseHeadersFails, NoBody, ReadBody, ReadBodyFails, netVars
  <1>3. CASE Handle
    BY <1>3 DEF Handle, HandleRedirect, HandleEcho, HandleFile, HandleText, netVars
  <1>4. CASE Send
    BY <1>4 DEF Send, WriteError, WriteSignal, Write, netVars
  <1>5. CASE Cleanup
    BY <1>5, Serving DEF Cleanup, ClearResponse, ClearRequest, FreeBuff, CloseConnection, netVars
  <1> QED
    BY <1>1, <1>2, <1>3, <1>4, <1>5 DEF Next, ServerNext, Setup

LEMMA LineKeeps == IInv /\ AllInLine /\ [Next]_vars => AllInLine'
  <1> SUFFICES ASSUME IInv, AllInLine, [Next]_vars, NEW c \in Clients, conn'[c] = "queued"
               PROVE  \E k \in 1..Len(backlog') : backlog'[k] = c
    BY DEF AllInLine
  <1>1. conn \in [Clients -> {"idle", "queued", "serving", "done"}] /\ backlog \in Seq(Clients)
    BY DEF IInv, TypeOK, QueueSound
  <1>2. CASE Accept
    <2>1. /\ backlog # << >> /\ backlog' = Tail(backlog)
          /\ conn' = [conn EXCEPT ![Head(backlog)] = "serving"]
      BY <1>2 DEF Accept
    <2>2. conn[c] = "queued" /\ c # Head(backlog)
      BY <1>1, <2>1
    <2>3. PICK k \in 1..Len(backlog) : backlog[k] = c
      BY <2>2 DEF AllInLine
    <2>4. k - 1 \in 1..Len(backlog') /\ backlog'[k - 1] = c
      BY <1>1, <2>1, <2>2, <2>3
    <2> QED
      BY <2>4
  <1>3. CASE UNCHANGED vars
    BY <1>3 DEF vars, netVars, AllInLine
  <1>4. CASE Next /\ ~Accept
    <2>1. CASE conn[c] = "queued"
      <3>1. PICK k \in 1..Len(backlog) : backlog[k] = c
        BY <2>1 DEF AllInLine
      <3> QED
        BY <1>1, <1>4, <3>1, LineGrows
    <2>2. CASE conn[c] # "queued"
      <3>1. backlog' = Append(backlog, c)
        BY <1>1, <1>4, <2>2, LineGrows
      <3> QED
        BY <1>1, <3>1
    <2> QED
      BY <2>1, <2>2
  <1> QED
    BY <1>2, <1>3, <1>4

\* accept() brings everyone one place nearer, which is worth more than the new connection costs.
LEMMA AcceptCounts ==
    ASSUME IInv, IInv', AllInLine, Accept, NEW c \in Clients, conn[c] \in {"queued", "serving"},
           StepsLeft = 0, StepsLeft' = MostSteps
    PROVE  /\ StepsUntilEnd(c) \in Nat /\ StepsUntilEnd(c)' \in Nat
           /\ StepsUntilEnd(c)' < StepsUntilEnd(c)
  <1>1. MostSteps \in Nat
    BY ServerAssumption DEF MostSteps, LongestBody
  <1>2. /\ conn \in [Clients -> {"idle", "queued", "serving", "done"}] /\ backlog \in Seq(Clients)
        /\ \A i, j \in 1..Len(backlog) : backlog[i] = backlog[j] => i = j
        /\ \A i, j \in 1..Len(backlog') : backlog'[i] = backlog'[j] => i = j
    BY DEF IInv, TypeOK, QueueSound
  <1>3. /\ backlog # << >> /\ backlog' = Tail(backlog) /\ Head(backlog) \in Clients
        /\ conn' = [conn EXCEPT ![Head(backlog)] = "serving"]
    BY <1>2 DEF Accept
  <1>4. conn[c] = "queued"
    <2>1. pc = "accept" => serving = NoClient
      BY DEF IInv, TypeOK
    <2>2. conn[c] # "serving"
      BY <2>1, ServerAssumption DEF Accept, IInv, QueueSound
    <2> QED
      BY <2>2
  <1>5. PICK k \in 1..Len(backlog) : backlog[k] = c
    BY <1>4 DEF AllInLine
  <1>6. k \in Nat /\ k >= 1 /\ StepsUntilEnd(c) = k * (MostSteps + 1)
    <2>1. Place(backlog, c) = k
      BY <1>2, <1>5, PlaceIs
    <2> QED
      BY <1>1, <1>2, <1>4, <1>5, <2>1 DEF StepsUntilEnd
  <1>7. CASE k = 1
    <2>1. conn'[c] = "serving"
      BY <1>2, <1>3, <1>5, <1>7
    <2> QED
      BY <1>1, <1>6, <1>7, <2>1 DEF StepsUntilEnd
  <1>8. CASE k # 1
    <2>1. k - 1 \in 1..Len(backlog') /\ backlog'[k - 1] = c /\ c # Head(backlog)
      BY <1>2, <1>3, <1>5, <1>8
    <2>2. Place(backlog', c) = k - 1
      BY <1>2, <2>1, PlaceIs
    <2>3. conn'[c] = "queued"
      BY <1>2, <1>3, <1>4, <2>1
    <2>4. StepsUntilEnd(c)' = (k - 1) * (MostSteps + 1) + MostSteps
      BY <2>2, <2>3 DEF StepsUntilEnd
    <2>5. /\ k * (MostSteps + 1) \in Nat
          /\ (k - 1) * (MostSteps + 1) \in Nat
          /\ (k - 1) * (MostSteps + 1) + MostSteps = k * (MostSteps + 1) - 1
      BY <1>1, <1>6
    <2> QED
      BY <1>1, <1>6, <2>4, <2>5
  <1> QED
    BY <1>7, <1>8

\* No other step moves anyone in the line.
LEMMA OthersCount ==
    ASSUME IInv, IInv', AllInLine, Next, ~Accept, NEW c \in Clients,
           conn[c] \in {"queued", "serving"}, StepsLeft \in Nat, StepsLeft' \in Nat,
           StepsLeft' <= StepsLeft
    PROVE  /\ StepsUntilEnd(c) \in Nat /\ StepsUntilEnd(c)' <= StepsUntilEnd(c)
           /\ StepsLeft' < StepsLeft => StepsUntilEnd(c)' < StepsUntilEnd(c)
  <1>1. MostSteps \in Nat
    BY ServerAssumption DEF MostSteps, LongestBody
  <1>2. /\ conn \in [Clients -> {"idle", "queued", "serving", "done"}] /\ backlog \in Seq(Clients)
        /\ \A i, j \in 1..Len(backlog) : backlog[i] = backlog[j] => i = j
        /\ \A i, j \in 1..Len(backlog') : backlog'[i] = backlog'[j] => i = j
        /\ \A d \in Clients : conn[d] = "serving" <=> d = serving
    BY DEF IInv, TypeOK, QueueSound
  <1>3. CASE conn[c] = "queued"
    <2>1. PICK k \in 1..Len(backlog) : backlog[k] = c
      BY <1>3 DEF AllInLine
    <2>2. conn'[c] = "queued" /\ k \in 1..Len(backlog') /\ backlog'[k] = c
      BY <1>2, <1>3, <2>1, LineGrows
    <2>3. Place(backlog, c) = k /\ Place(backlog', c) = k
      BY <1>2, <2>1, <2>2, PlaceIs
    <2>4. /\ StepsUntilEnd(c) = k * (MostSteps + 1) + StepsLeft
          /\ StepsUntilEnd(c)' = k * (MostSteps + 1) + StepsLeft'
      BY <1>3, <2>2, <2>3 DEF StepsUntilEnd
    <2>5. k * (MostSteps + 1) \in Nat
      BY <1>1, <1>2, <2>1
    <2> QED
      BY <2>4, <2>5
  <1>4. CASE conn[c] = "serving"
    <2>1. conn'[c] = "serving" \/ conn'[c] = "done"
      BY <1>2, <1>4, LineGrows
    <2>2. StepsUntilEnd(c) = StepsLeft /\ StepsUntilEnd(c)' \in {StepsLeft', 0}
      BY <1>4, <2>1 DEF StepsUntilEnd
    <2> QED
      BY <2>2
  <1> QED
    BY <1>3, <1>4

\* However many clients there are and whatever they and the calls do: each step of the server brings
\* the end of every connection that waits or is served nearer, and nothing that clients do, not
\* even to connect meanwhile, moves it away.  So nobody is passed over for ever.
THEOREM EveryStepCounts ==
    Spec => [][\A c \in Clients : conn[c] \in {"queued", "serving"} =>
                  /\ StepsUntilEnd(c) \in Nat /\ StepsUntilEnd(c)' <= StepsUntilEnd(c)
                  /\ ServerNext => StepsUntilEnd(c)' < StepsUntilEnd(c)]_vars
  <1> DEFINE Counts == \A c \in Clients : conn[c] \in {"queued", "serving"} =>
                          /\ StepsUntilEnd(c) \in Nat /\ StepsUntilEnd(c)' <= StepsUntilEnd(c)
                          /\ ServerNext => StepsUntilEnd(c)' < StepsUntilEnd(c)
  <1>1. Init => ResponseFits /\ AllInLine
    BY DEF Init, ResponseFits, AllInLine
  <1>2. IInv /\ AnswerKnown /\ ResponseFits /\ AllInLine /\ [Next]_vars => ResponseFits' /\ AllInLine'
    BY StepProgress, LineKeeps
  <1>3. Spec => [](ResponseFits /\ AllInLine)
    BY <1>1, <1>2, AnswersAreKnown, PTL DEF Spec
  <1>4. IInv' /\ ResponseFits' => (StepsLeft \in 0..MostSteps)'
    <2>1. IInv /\ ResponseFits => StepsLeft \in 0..MostSteps
      BY StepsLeftBound
    <2> QED
      BY <2>1, PTL
  <1>5. IInv /\ AnswerKnown /\ ResponseFits /\ AllInLine /\ IInv' /\ [Next]_vars => [Counts]_vars
    <2> SUFFICES ASSUME IInv, AnswerKnown, ResponseFits, AllInLine, IInv', Next,
                        NEW c \in Clients, conn[c] \in {"queued", "serving"}
                 PROVE  /\ StepsUntilEnd(c) \in Nat /\ StepsUntilEnd(c)' <= StepsUntilEnd(c)
                        /\ ServerNext => StepsUntilEnd(c)' < StepsUntilEnd(c)
      OBVIOUS
    <2>1. /\ StepsLeft \in Nat /\ StepsLeft' \in Nat
      BY <1>4, StepsLeftBound, StepProgress DEF MostSteps
    <2>2. CASE Accept
      <3>1. /\ StepsUntilEnd(c) \in Nat /\ StepsUntilEnd(c)' \in Nat
            /\ StepsUntilEnd(c)' < StepsUntilEnd(c)
        BY <2>2, StepProgress, AcceptCounts
      <3> QED
        BY <3>1
    <2>3. CASE ~Accept
      <3>1. StepsLeft' <= StepsLeft /\ (ServerNext => StepsLeft' < StepsLeft)
        BY <2>1, <2>3, StepProgress
      <3> QED
        BY <2>1, <2>3, <3>1, OthersCount
    <2> QED
      BY <2>2, <2>3
  <1> QED
    BY <1>3, <1>5, AnswersAreKnown, PTL DEF Spec

=============================================================================
