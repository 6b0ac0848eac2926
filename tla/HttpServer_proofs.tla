---------------------------- MODULE HttpServer_proofs --------------------------
(***************************************************************************)
(* Proofs about HttpServer: for any number of clients and any requests, no *)
(* heap block is used or freed wrongly, nothing is left behind but blocks  *)
(* known to be forgotten, and no response is cut short or sent too early.  *)
(***************************************************************************)
EXTENDS HttpServer, TLAPS

\* Where http_handle_connection may be, and what it holds there.
Labels == {"accept", "buff", "req", "head", "line", "headers", "body", "handle", "sendHead",
           "sendBody", "clearRes", "clearReq", "freeBuff", "close", "killed"}
Answering == {"sendHead", "sendBody", "clearRes", "killed"}
HasReq == Answering \cup {"head", "line", "headers", "body", "handle", "clearReq"}
NoBuff == {"accept", "buff", "close"}
NoFields == {"accept", "buff", "req", "head", "line", "freeBuff", "close"}
Working == {"buff", "req", "head", "line", "headers", "body", "handle", "sendHead", "sendBody"}
Ending == {"clearRes", "clearReq", "freeBuff", "close"}

\* The blocks the variables of the connection at hand lead to.
ReplyBlocks == (IF res.extra THEN {"extra"} ELSE {}) \cup (IF res.owned THEN {res.body} ELSE {})
Named ==
    fields \cup ReplyBlocks \cup (IF pc \in HasReq THEN {"req"} ELSE {})
           \cup (IF buff = "none" THEN {} ELSE {buff})

\* The variables point to what they should at each place.
PlaceSound ==
    /\ pc \in Labels
    /\ buff \in {"none", "buff", "grown"} /\ (buff = "none" <=> pc \in NoBuff)
    /\ fields \subseteq {"method", "path", "version", "strings", "headers", "body"}
    /\ pc \in NoFields => fields = {}

ReplySound ==
    /\ res \in [body : {"none", "static", "body", "text", "file"}, owned : BOOLEAN,
                extra : BOOLEAN, length : Nat]
    /\ res.owned <=> res.body \in {"text", "file"}
    /\ res.body = "body" => "body" \in fields
    /\ res.body = "none" => res.length = 0
    /\ pc \notin Answering => res = NoResponse
    /\ pc = "sendBody" => res.length > 0

\* What is named is allocated, and what is allocated is named or forgotten.
HeapSound ==
    /\ ~heapFault
    /\ Mine(Named) \subseteq live
    /\ \A p \in live : p[1] = serving => p[2] \in Named \/ Forgotten(serving, p[2])
    /\ \A p \in live : p[1] # serving => Forgotten(p[1], p[2]) /\ conn[p[1]] = "done"

\* Each connection waits once, and is untouched while it does.
QueueSound ==
    /\ backlog \in Seq(Clients)
    /\ \A i, j \in 1..Len(backlog) : backlog[i] = backlog[j] => i = j
    /\ \A i \in 1..Len(backlog) : conn[backlog[i]] = "queued"
    /\ \A c \in Clients : conn[c] = "serving" <=> c = serving
    /\ \A c \in Clients : conn[c] \in {"idle", "queued"} =>
          written[c] = 0 /\ due[c] = 0 /\ c \notin failed

\* How much of the response is written, and that nothing has failed until then.
ProgressSound ==
    /\ pc \in Working => serving \notin failed
    /\ pc \in Working \ {"sendBody"} => written[serving] = 0
    /\ pc \in Working \ {"sendHead", "sendBody"} => due[serving] = 0
    /\ pc \in {"sendHead", "sendBody"} => due[serving] = 1 + res.length
    /\ pc = "sendBody" => written[serving] \in 1..res.length
    /\ pc \in Ending /\ ~aborted[serving] =>
          written[serving] = IF serving \in failed THEN 0 ELSE due[serving]
    /\ WholeResponseOrNone

\* The request is there before its answer.
AnswerSound ==
    /\ pc \in {"line", "headers", "body", "handle", "sendHead", "sendBody"} =>
          sent[serving] >= request[serving].head
    /\ pc \in {"handle", "sendHead", "sendBody"} => NothingMoreDue(serving)
    /\ AnswerFollowsRequest

IInv ==
    /\ TypeOK /\ PlaceSound /\ ReplySound /\ HeapSound /\ QueueSound /\ ProgressSound
    /\ AnswerSound

-----------------------------------------------------------------------------
(* The frame of a server step. *)

\* While a connection is handled there is one, and it counts as being served.
LEMMA Serving ==
  ASSUME IInv, pc # "accept"
  PROVE  serving \in Clients /\ serving # NoClient /\ conn[serving] = "serving"
  <1>1. serving \in Clients /\ serving # NoClient
    BY ServerAssumption DEF IInv, TypeOK
  <1> QED
    BY <1>1 DEF IInv, QueueSound

\* Blocks of the connection at hand are freed and allocated as its variables change.
LEMMA HeapStep ==
  ASSUME IInv, NEW out, NEW in, UNCHANGED <<clientVars, conn, serving>>, ~heapFault',
         failed \subseteq failed',
         \/ UNCHANGED due
         \/ /\ pc = "handle"
            /\ \A c \in Clients : c # serving => due'[c] = due[c],
         live' = (live \ Mine(out)) \cup Mine(in),
         Named' \subseteq (Named \ out) \cup in,
         \A b \in (Named \ out) \cup in : b \in Named' \/ Forgotten(serving, b)'
  PROVE  HeapSound'
  <1> USE DEF clientVars
  <1>0. /\ \A b : Forgotten(serving, b) => Forgotten(serving, b)'
        /\ \A c \in Clients : \A b : c # serving /\ Forgotten(c, b) => Forgotten(c, b)'
    <2>1. CASE UNCHANGED due
      BY <2>1 DEF Forgotten
    <2>2. CASE pc = "handle" /\ \A c \in Clients : c # serving => due'[c] = due[c]
      <3>1. due[serving] = 0 /\ serving \notin failed
        BY <2>2 DEF IInv, ProgressSound, Working
      <3>2. \A b : ~Forgotten(serving, b)
        BY <3>1 DEF Forgotten, StaticText, NoResponse
      <3> QED
        BY <2>2, <3>2 DEF Forgotten
    <2> QED
      BY <2>1, <2>2
  <1>1. Mine(Named') \subseteq live'
    BY DEF IInv, HeapSound, Mine
  <1>2. ASSUME NEW p \in live', p[1] = serving
        PROVE  p[2] \in Named' \/ Forgotten(serving, p[2])'
    <2>1. CASE p \in live /\ p \notin Mine(out)
      <3>1. p = <<p[1], p[2]>>
        BY <2>1 DEF IInv, TypeOK
      <3>2. p[2] \notin out
        BY <1>2, <2>1, <3>1 DEF Mine
      <3> QED
        BY <1>0, <1>2, <2>1, <3>2 DEF IInv, HeapSound
    <2>2. CASE p \in Mine(in)
      BY <2>2 DEF Mine
    <2> QED
      BY <1>2, <2>1, <2>2
  <1>3. ASSUME NEW p \in live', p[1] # serving
        PROVE  Forgotten(p[1], p[2])' /\ conn'[p[1]] = "done"
    <2>1. p \in live /\ p[1] \in Clients
      BY <1>3 DEF Mine, IInv, TypeOK
    <2> QED
      BY <1>0, <1>3, <2>1 DEF IInv, HeapSound
  <1>4. Mine(Named)' = Mine(Named')
    BY DEF Mine
  <1> QED
    BY <1>1, <1>2, <1>3, <1>4 DEF HeapSound

\* The step leaves the queue alone and touches the connection at hand only.
LEMMA QueueStep ==
  ASSUME IInv, pc # "accept", UNCHANGED <<conn, serving, backlog>>,
         failed' \subseteq failed \cup {serving},
         \A c \in Clients : c # serving => written'[c] = written[c] /\ due'[c] = due[c]
  PROVE  QueueSound'
  <1>1. ASSUME NEW c \in Clients, conn[c] \in {"idle", "queued"}
        PROVE  written'[c] = 0 /\ due'[c] = 0 /\ c \notin failed'
    BY <1>1, Serving DEF IInv, QueueSound
  <1> QED
    BY <1>1 DEF IInv, QueueSound

\* What is done stays as it was.
LEMMA DoneStep ==
  ASSUME IInv, pc # "accept", UNCHANGED <<clientVars, conn, serving>>,
         failed \subseteq failed', failed' \subseteq failed \cup {serving},
         \A c \in Clients : c # serving => written'[c] = written[c] /\ due'[c] = due[c]
  PROVE  WholeResponseOrNone'
  <1>1. UNCHANGED aborted
    BY DEF clientVars
  <1>2. \A c \in Clients : conn[c] = "done" => c # serving
    BY Serving
  <1> QED
    BY <1>1, <1>2 DEF IInv, ProgressSound, WholeResponseOrNone

\* The parts put together, the types with them.
LEMMA Together ==
  ASSUME IInv, pc # "accept", pc' # "accept", UNCHANGED <<clientVars, conn, serving>>,
         PlaceSound', ReplySound', HeapSound', QueueSound', ProgressSound', AnswerSound',
         live' \subseteq Clients \X Blocks, written' \in [Clients -> Nat], due' \in [Clients -> Nat],
         failed' \subseteq failed \cup {serving}, bodyLen' \in Nat
  PROVE  IInv'
  <1>1. UNCHANGED <<request, sent, closed, aborted, taken>>
    BY DEF clientVars
  <1>2. /\ request' \in [Clients -> Requests]
        /\ \A c \in Clients : sent'[c] \in 0..(request'[c].head + request'[c].tail)
        /\ sent' \in [Clients -> Nat] /\ taken' \in [Clients -> Nat]
        /\ closed' \in [Clients -> BOOLEAN] /\ aborted' \in [Clients -> BOOLEAN]
        /\ conn' \in [Clients -> {"idle", "queued", "serving", "done"}]
        /\ serving' \in Clients \cup {NoClient}
    BY <1>1 DEF IInv, TypeOK
  <1>3. fields' \subseteq Blocks /\ buff' \in {"none", "buff", "grown"}
    BY DEF PlaceSound, Blocks
  <1>4. res'.length \in Nat
    BY DEF ReplySound
  <1>5. failed' \subseteq Clients
    BY Serving DEF IInv, TypeOK
  <1>6. (pc' = "accept") = (serving' = NoClient)
    BY Serving
  <1>7. TypeOK'
    BY <1>2, <1>3, <1>4, <1>5, <1>6 DEF TypeOK
  <1> QED
    BY <1>7 DEF IInv

\* Blocks of the connection at hand are blocks.
LEMMA BlocksTyped ==
  ASSUME IInv, pc # "accept", NEW out, NEW in \in SUBSET Blocks,
         live' = (live \ Mine(out)) \cup Mine(in)
  PROVE  live' \subseteq Clients \X Blocks
  BY Serving DEF IInv, TypeOK, Mine

-----------------------------------------------------------------------------
(* The steps before there is a response: everything up to the answer, and  *)
(* every failure on the way.                                               *)

Reading == {"buff", "req", "head", "line", "headers", "body"}
BeforeAnswer == (Reading \cup {"handle", "clearReq", "freeBuff", "close"}) \ {"buff"}

LEMMA EarlyStep ==
  ASSUME IInv, pc \in Reading, pc' \in BeforeAnswer,
         UNCHANGED <<clientVars, netVars, res, written, due>>,
         \/ pc' \in Working /\ failed' = failed
         \/ pc' \in Ending /\ failed' = failed \cup {serving},
         PlaceSound', HeapSound', live' \subseteq Clients \X Blocks, bodyLen' \in Nat,
         pc' \in {"line", "headers", "body", "handle"} => sent[serving] >= request[serving].head,
         pc' = "handle" => NothingMoreDue(serving)
  PROVE  IInv'
  <1> USE DEF Reading, BeforeAnswer
  <1>1. serving \in Clients /\ pc # "accept"
    BY Serving
  <1>2. UNCHANGED <<request, sent, closed, aborted, taken, conn, backlog, serving>>
    BY DEF clientVars, netVars
  <1>3. failed \subseteq failed' /\ failed' \subseteq failed \cup {serving}
    OBVIOUS
  <1>4. QueueSound'
    BY <1>1, <1>2, <1>3, QueueStep
  <1>5. ReplySound'
    <2>1. res = NoResponse
      BY DEF IInv, ReplySound, Answering
    <2>2. res' = NoResponse /\ pc' # "sendBody"
      BY <2>1
    <2> QED
      BY <2>2 DEF ReplySound, NoResponse
  <1>6. ProgressSound'
    <2>1. WholeResponseOrNone'
      BY <1>1, <1>2, <1>3, DoneStep
    <2>2. written[serving] = 0 /\ due[serving] = 0
      BY DEF IInv, ProgressSound, Working
    <2>3. serving \notin failed
      BY DEF IInv, ProgressSound, Working
    <2> QED
      BY <1>1, <1>2, <2>1, <2>2, <2>3 DEF ProgressSound, Working, Ending
  <1>7. AnswerSound'
    BY <1>2 DEF IInv, AnswerSound, AnswerFollowsRequest, NothingMoreDue, BodyDue
  <1>8. written' \in [Clients -> Nat] /\ due' \in [Clients -> Nat]
    BY DEF IInv, TypeOK
  <1> QED
    BY <1>1, <1>2, <1>3, <1>4, <1>5, <1>6, <1>7, <1>8, Together

LEMMA AllocBuffKeeps ==
  ASSUME IInv, AllocBuff
  PROVE  IInv'
  <1> USE DEF AllocBuff, Reading, BeforeAnswer, Working, Ending
  <1>1. pc = "buff" /\ buff = "none" /\ fields = {} /\ res = NoResponse
    BY DEF IInv, PlaceSound, NoBuff, NoFields, ReplySound, Answering
  <1>2. ReplyBlocks = {} /\ ReplyBlocks' = {}
    BY <1>1 DEF ReplyBlocks, NoResponse
  <1>3. Named = {}
    BY <1>1, <1>2 DEF Named, HasReq, Answering
  <1>4. PlaceSound'
    BY <1>1 DEF IInv, PlaceSound, NoBuff, NoFields, Labels, GiveUp
  <1>5. UNCHANGED <<conn, serving>> /\ failed \subseteq failed' /\ ~heapFault'
    BY DEF netVars, GiveUp, IInv, HeapSound
  <1>6. HeapSound' /\ live' \subseteq Clients \X Blocks
    <2>1. CASE Alloc("buff") /\ buff' = "buff" /\ pc' = "req"
      <3>1. Named' = {"buff"}
        BY <1>1, <1>2, <2>1 DEF Named, HasReq, Answering
      <3>2. live' = (live \ Mine({})) \cup Mine({"buff"})
        BY <2>1 DEF Alloc, Mine
      <3> QED
        BY <1>1, <1>3, <1>5, <3>1, <3>2, HeapStep, BlocksTyped DEF Blocks
    <2>2. CASE GiveUp("close") /\ UNCHANGED <<live, buff>>
      <3>1. Named' = {}
        BY <1>1, <1>2, <2>2 DEF Named, HasReq, Answering, GiveUp
      <3>2. live' = (live \ Mine({})) \cup Mine({})
        BY <2>2 DEF Mine
      <3> QED
        BY <1>1, <1>3, <1>5, <3>1, <3>2, HeapStep, BlocksTyped
    <2> QED
      BY <2>1, <2>2
  <1>7. bodyLen' \in Nat
    BY DEF IInv, TypeOK
  <1> QED
    BY <1>1, <1>4, <1>6, <1>7, EarlyStep DEF GiveUp

LEMMA AllocReqKeeps ==
  ASSUME IInv, AllocReq
  PROVE  IInv'
  <1> USE DEF AllocReq, Reading, BeforeAnswer, Working, Ending
  <1>1. pc = "req" /\ buff # "none" /\ fields = {} /\ res = NoResponse
    BY DEF IInv, PlaceSound, NoBuff, NoFields, ReplySound, Answering
  <1>2. ReplyBlocks = {} /\ ReplyBlocks' = {}
    BY <1>1 DEF ReplyBlocks, NoResponse
  <1>3. Named = {buff}
    BY <1>1, <1>2 DEF Named, HasReq, Answering
  <1>4. PlaceSound'
    BY <1>1 DEF IInv, PlaceSound, NoBuff, NoFields, Labels, GiveUp
  <1>5. UNCHANGED <<conn, serving>> /\ failed \subseteq failed' /\ ~heapFault'
    BY DEF netVars, GiveUp, IInv, HeapSound
  <1>6. HeapSound' /\ live' \subseteq Clients \X Blocks
    <2>1. CASE Alloc("req") /\ pc' = "head"
      <3>1. Named' = {"req", buff}
        BY <1>1, <1>2, <2>1 DEF Named, HasReq, Answering
      <3>2. live' = (live \ Mine({})) \cup Mine({"req"})
        BY <2>1 DEF Alloc, Mine
      <3> QED
        BY <1>1, <1>3, <1>5, <3>1, <3>2, HeapStep, BlocksTyped DEF Blocks
    <2>2. CASE GiveUp("freeBuff") /\ UNCHANGED live
      <3>1. Named' = {buff}
        BY <1>1, <1>2, <2>2 DEF Named, HasReq, Answering, GiveUp
      <3>2. live' = (live \ Mine({})) \cup Mine({})
        BY <2>2 DEF Mine
      <3> QED
        BY <1>1, <1>3, <1>5, <3>1, <3>2, HeapStep, BlocksTyped
    <2> QED
      BY <2>1, <2>2
  <1>7. bodyLen' \in Nat
    BY DEF IInv, TypeOK
  <1> QED
    BY <1>1, <1>4, <1>6, <1>7, EarlyStep DEF GiveUp

\* While the head or the body is read the buffer may move, and the pointer follows it.
LEMMA ReadIntoKeeps ==
  ASSUME IInv, pc \in {"head", "body"}, NEW extra \in SUBSET {"body"}, ReadInto(extra),
         fields' = fields \cup extra, UNCHANGED <<clientVars, conn, serving, res, due>>,
         pc' \in HasReq \ Answering,
         failed \subseteq failed'
  PROVE  HeapSound' /\ live' \subseteq Clients \X Blocks /\ buff' \in {"buff", "grown"}
  <1>1. buff \in {"buff", "grown"} /\ fields \subseteq {"method", "path", "version", "strings", "headers", "body"}
    BY DEF IInv, PlaceSound, NoBuff
  <1>2. ReplyBlocks = {} /\ ReplyBlocks' = {}
    BY DEF IInv, ReplySound, Answering, ReplyBlocks, NoResponse
  <1>3. Named = fields \cup {"req", buff}
    BY <1>1, <1>2 DEF Named, HasReq
  <1>4. ~heapFault /\ Mine(Named) \subseteq live
    BY DEF IInv, HeapSound
  <1>5. CASE MoveBuff(extra)
    <2>1. Elsewhere(buff) \in {"buff", "grown"} /\ Elsewhere(buff) # buff
      BY <1>1 DEF Elsewhere
    <2>2. Named' = fields \cup extra \cup {"req", Elsewhere(buff)}
      BY <1>2, <1>5, <2>1 DEF Named, MoveBuff
    <2>3. live' = (live \ Mine({buff})) \cup Mine({Elsewhere(buff)} \cup extra)
      BY <1>5 DEF MoveBuff
    <2>4. ~heapFault'
      BY <1>3, <1>4, <1>5 DEF MoveBuff, Mine
    <2>5. Named' \subseteq (Named \ {buff}) \cup {Elsewhere(buff)} \cup extra
      BY <1>1, <1>3, <2>2
    <2>6. (Named \ {buff}) \cup {Elsewhere(buff)} \cup extra \subseteq Named'
      BY <1>3, <2>2
    <2>7. HeapSound'
      BY <2>3, <2>4, <2>5, <2>6, HeapStep
    <2>8. live' \subseteq Clients \X Blocks
      BY <2>1, <2>3, BlocksTyped DEF Blocks
    <2> QED
      BY <1>5, <2>1, <2>7, <2>8 DEF MoveBuff
  <1>6. CASE KeepBuff(extra)
    <2>1. Named' = fields \cup extra \cup {"req", buff}
      BY <1>1, <1>2, <1>6 DEF Named, KeepBuff
    <2>2. live' = (live \ Mine({})) \cup Mine(extra)
      BY <1>6 DEF KeepBuff, Mine
    <2>3. ~heapFault'
      BY <1>4, <1>6 DEF KeepBuff
    <2>4. HeapSound'
      BY <1>3, <2>1, <2>2, <2>3, HeapStep
    <2>5. live' \subseteq Clients \X Blocks
      BY <2>2, BlocksTyped DEF Blocks
    <2> QED
      BY <1>1, <1>6, <2>4, <2>5 DEF KeepBuff
  <1> QED
    BY <1>5, <1>6 DEF ReadInto

LEMMA ReadHeadKeeps ==
  ASSUME IInv, ReadHead
  PROVE  IInv'
  <1> USE DEF ReadHead, Reading, BeforeAnswer, Working, Ending, netVars, replyVars
  <1>1. fields = {} /\ buff # "none"
    BY DEF IInv, PlaceSound, NoFields, NoBuff
  <1>2. HeapSound' /\ live' \subseteq Clients \X Blocks /\ buff' \in {"buff", "grown"}
    BY ReadIntoKeeps DEF HasReq, Answering
  <1>3. PlaceSound'
    BY <1>1, <1>2 DEF PlaceSound, NoBuff, NoFields, Labels
  <1>4. bodyLen' \in Nat /\ sent[serving] >= request[serving].head
    BY DEF IInv, TypeOK
  <1> QED
    BY <1>2, <1>3, <1>4, EarlyStep

LEMMA ReadHeadFailsKeeps ==
  ASSUME IInv, ReadHeadFails
  PROVE  IInv'
  <1> USE DEF ReadHeadFails, GiveUp, Reading, BeforeAnswer, Working, Ending, netVars
  <1>1. fields = {} /\ buff # "none"
    BY DEF IInv, PlaceSound, NoFields, NoBuff
  <1>2. HeapSound' /\ live' \subseteq Clients \X Blocks /\ buff' \in {"buff", "grown"}
    BY ReadIntoKeeps DEF HasReq, Answering
  <1>3. PlaceSound'
    BY <1>1, <1>2 DEF PlaceSound, NoBuff, NoFields, Labels
  <1>4. bodyLen' \in Nat
    BY DEF IInv, TypeOK
  <1> QED
    BY <1>2, <1>3, <1>4, EarlyStep

LEMMA ParseLineKeeps ==
  ASSUME IInv, ParseLine
  PROVE  IInv'
  <1> USE DEF Reading, BeforeAnswer, Working, Ending, netVars, GiveUp
  <1>1. PICK parsed \in 0..3 :
          /\ live' = live \cup Mine({Tokens[i] : i \in 1..parsed})
          /\ fields' = fields \cup {Tokens[i] : i \in 1..parsed}
          /\ \/ pc' = "headers" /\ UNCHANGED failed
             \/ pc' = "clearReq" /\ failed' = failed \cup {serving}
    BY DEF ParseLine
  <1> DEFINE new == {Tokens[i] : i \in 1..parsed}
  <1>2. new \subseteq {"method", "path", "version"}
    BY DEF Tokens
  <1> HIDE DEF new
  <1>3. /\ pc = "line" /\ fields = {} /\ buff # "none" /\ buff \in {"none", "buff", "grown"}
        /\ res = NoResponse
    BY DEF ParseLine, IInv, PlaceSound, NoFields, NoBuff, ReplySound, Answering
  <1>4. UNCHANGED <<clientVars, conn, backlog, serving, heapFault, buff, bodyLen, res, written, due>>
    BY DEF ParseLine
  <1>5. PlaceSound'
    BY <1>1, <1>2, <1>3, <1>4 DEF PlaceSound, NoBuff, NoFields, Labels, new
  <1>6. ReplyBlocks = {} /\ ReplyBlocks' = {}
    BY <1>3, <1>4 DEF ReplyBlocks, NoResponse
  <1>7. Named = {"req", buff} /\ Named' = new \cup {"req", buff}
    BY <1>1, <1>3, <1>4, <1>6 DEF Named, HasReq, Answering, new
  <1>8. live' = (live \ Mine({})) \cup Mine(new)
    BY <1>1 DEF Mine, new
  <1>9. ~heapFault' /\ failed \subseteq failed'
    BY <1>1, <1>4 DEF IInv, HeapSound
  <1>10. HeapSound' /\ live' \subseteq Clients \X Blocks
    BY <1>2, <1>3, <1>4, <1>7, <1>8, <1>9, HeapStep, BlocksTyped DEF Blocks
  <1>11. bodyLen' \in Nat
    BY <1>4 DEF IInv, TypeOK
  <1>12. sent[serving] >= request[serving].head
    BY <1>3 DEF IInv, AnswerSound
  <1> QED
    BY <1>1, <1>3, <1>4, <1>5, <1>10, <1>11, <1>12, EarlyStep

LEMMA ParseHeadersKeeps ==
  ASSUME IInv, ParseHeaders
  PROVE  IInv'
  <1> USE DEF ParseHeaders, Reading, BeforeAnswer, Working, Ending, netVars, heapVars, replyVars
  <1> DEFINE new == {"strings", "headers"}
  <1>1. /\ buff # "none" /\ buff \in {"none", "buff", "grown"} /\ res = NoResponse
        /\ fields \subseteq {"method", "path", "version", "strings", "headers", "body"}
    BY DEF IInv, PlaceSound, NoBuff, ReplySound, Answering
  <1>2. PlaceSound'
    BY <1>1 DEF PlaceSound, NoBuff, NoFields, Labels
  <1>3. ReplyBlocks = {} /\ ReplyBlocks' = {}
    BY <1>1 DEF ReplyBlocks, NoResponse
  <1>4. Named = fields \cup {"req", buff} /\ Named' = fields \cup new \cup {"req", buff}
    BY <1>1, <1>3 DEF Named, HasReq, Answering
  <1>5. live' = (live \ Mine({})) \cup Mine(new)
    BY DEF Mine
  <1>6. ~heapFault'
    BY DEF IInv, HeapSound
  <1>7. HeapSound' /\ live' \subseteq Clients \X Blocks
    BY <1>4, <1>5, <1>6, HeapStep, BlocksTyped DEF Blocks
  <1>8. bodyLen' \in Nat /\ sent[serving] >= request[serving].head
    BY DEF IInv, TypeOK, AnswerSound
  <1> QED
    BY <1>2, <1>7, <1>8, EarlyStep

\* The strings of headers that could not be kept are out of reach from here on.
LEMMA ParseHeadersFailsKeeps ==
  ASSUME IInv, ParseHeadersFails
  PROVE  IInv'
  <1> USE DEF ParseHeadersFails, GiveUp, Reading, BeforeAnswer, Working, Ending, netVars, heapVars
  <1>1. /\ buff # "none" /\ buff \in {"none", "buff", "grown"} /\ res = NoResponse
        /\ fields \subseteq {"method", "path", "version", "strings", "headers", "body"}
    BY DEF IInv, PlaceSound, NoBuff, ReplySound, Answering
  <1>2. PlaceSound'
    BY <1>1 DEF PlaceSound, NoBuff, NoFields, Labels
  <1>3. ReplyBlocks = {} /\ ReplyBlocks' = {}
    BY <1>1 DEF ReplyBlocks, NoResponse
  <1>4. Named = fields \cup {"req", buff} /\ Named' = Named
    BY <1>1, <1>3 DEF Named, HasReq, Answering
  <1>5. PICK lost \in {{}, {"strings"}} : live' = (live \ Mine({})) \cup Mine(lost)
    <2>1. CASE live' = live
      <3>1. live' = (live \ Mine({})) \cup Mine({})
        BY <2>1 DEF Mine
      <3> QED
        BY <3>1
    <2>2. CASE live' = live \cup Mine({"strings"})
      <3>1. live' = (live \ Mine({})) \cup Mine({"strings"})
        BY <2>2 DEF Mine
      <3> QED
        BY <3>1
    <2> QED
      BY <2>1, <2>2
  <1>6. ~heapFault'
    BY DEF IInv, HeapSound
  <1>7. HeapSound' /\ live' \subseteq Clients \X Blocks
    <2>1. \A b \in (Named \ {}) \cup lost : b \in Named' \/ Forgotten(serving, b)'
      <3>1. due[serving] = 0
        BY DEF IInv, ProgressSound
      <3>2. Forgotten(serving, "strings")'
        BY <3>1 DEF Forgotten
      <3> QED
        BY <1>4, <3>2
    <2>2. lost \in SUBSET Blocks
      BY DEF Blocks
    <2> QED
      BY <1>4, <1>5, <1>6, <2>1, <2>2, HeapStep, BlocksTyped
  <1>8. bodyLen' \in Nat
    BY DEF IInv, TypeOK
  <1> QED
    BY <1>2, <1>7, <1>8, EarlyStep

LEMMA NoBodyKeeps ==
  ASSUME IInv, NoBody
  PROVE  IInv'
  <1> USE DEF NoBody, Reading, BeforeAnswer, Working, Ending, netVars, heapVars, replyVars
  <1>1. serving \in Clients
    BY Serving
  <1>2. request[serving] \in Requests /\ sent[serving] \in Nat
    BY <1>1, ServerAssumption DEF IInv, TypeOK
  <1>3. PlaceSound'
    BY DEF IInv, PlaceSound, NoBuff, NoFields, Labels
  <1>4. live' = (live \ Mine({})) \cup Mine({}) /\ ~heapFault'
    BY DEF Mine, IInv, HeapSound
  <1>5. Named' = Named
    BY DEF Named, ReplyBlocks, HasReq, Answering
  <1>6. HeapSound' /\ live' \subseteq Clients \X Blocks
    BY <1>4, <1>5, HeapStep, BlocksTyped
  <1>7. bodyLen' \in Nat /\ sent[serving] >= request[serving].head
    BY DEF IInv, TypeOK, AnswerSound
  <1>8. NothingMoreDue(serving)
    BY <1>2, <1>7, ServerAssumption DEF NothingMoreDue, BodyDue
  <1> QED
    BY <1>3, <1>6, <1>7, <1>8, EarlyStep

\* A body that was accepted is all there, or the client has closed.
LEMMA ReadBodyKeeps ==
  ASSUME IInv, NEW n \in 0..BodyMax, ReadBody(n)
  PROVE  IInv'
  <1> USE DEF ReadBody, Reading, BeforeAnswer, Working, Ending, netVars
  <1>1. serving \in Clients
    BY Serving
  <1>2. request[serving] \in Requests /\ sent[serving] \in Nat
    BY <1>1, ServerAssumption DEF IInv, TypeOK
  <1>3. /\ buff # "none" /\ fields \subseteq {"method", "path", "version", "strings", "headers", "body"}
    BY DEF IInv, PlaceSound, NoBuff
  <1>4. HeapSound' /\ live' \subseteq Clients \X Blocks /\ buff' \in {"buff", "grown"}
    BY ReadIntoKeeps DEF HasReq, Answering
  <1>5. PlaceSound'
    BY <1>3, <1>4 DEF PlaceSound, NoBuff, NoFields, Labels
  <1>6. bodyLen' \in Nat
    BY ServerAssumption
  <1>7. sent[serving] >= request[serving].head
    BY DEF IInv, AnswerSound
  <1>8. NothingMoreDue(serving)
    <2>1. request[serving].contentLength \in Nat /\ request[serving].head \in Nat /\ BodyMax \in Nat
      BY <1>2, ServerAssumption
    <2> DEFINE len == request[serving].contentLength
    <2>2. /\ n <= sent[serving] - request[serving].head
          /\ n < BodyDue(serving) => closed[serving]
      BY DEF Accepted, Intake!AcceptedBody, Intake!Delivered, Intake!AtMost, BodyDue
    <2>3. BodyDue(serving) \in Nat
      BY <2>1 DEF BodyDue
    <2> QED
      BY <1>2, <2>1, <2>2, <2>3 DEF NothingMoreDue
  <1> QED
    BY <1>4, <1>5, <1>6, <1>7, <1>8, EarlyStep

LEMMA ReadBodyFailsKeeps ==
  ASSUME IInv, ReadBodyFails
  PROVE  IInv'
  <1> USE DEF ReadBodyFails, GiveUp, Reading, BeforeAnswer, Working, Ending, netVars
  <1>1. buff # "none" /\ fields \subseteq {"method", "path", "version", "strings", "headers", "body"}
    BY DEF IInv, PlaceSound, NoBuff
  <1>2. HeapSound' /\ live' \subseteq Clients \X Blocks /\ buff' \in {"buff", "grown"}
    BY ReadIntoKeeps DEF HasReq, Answering
  <1>3. PlaceSound'
    BY <1>1, <1>2 DEF PlaceSound, NoBuff, NoFields, Labels
  <1>4. bodyLen' \in Nat
    BY DEF IInv, TypeOK
  <1> QED
    BY <1>2, <1>3, <1>4, EarlyStep

-----------------------------------------------------------------------------
(* The answer is made: its blocks are its own or the request's body.       *)

LEMMA AnswerStep ==
  ASSUME IInv, pc = "handle", NEW in \in SUBSET {"extra", "text", "file"},
         NEW lost \in SUBSET {"statPath"},
         UNCHANGED <<clientVars, netVars, heapFault, buff, fields, bodyLen, written>>,
         live' = live \cup Mine(in \cup lost), ReplyBlocks' = in,
         lost # {} => request[serving].route = "file" /\ Respond(StaticText),
         res' \in [body : {"none", "static", "body", "text", "file"}, owned : BOOLEAN,
                   extra : BOOLEAN, length : Nat],
         res'.owned <=> res'.body \in {"text", "file"},
         res'.body = "body" => "body" \in fields,
         res'.body = "none" => res'.length = 0,
         \/ Respond(res')
         \/ GiveUp("clearRes") /\ UNCHANGED <<res, due>>
  PROVE  IInv'
  <1>1. serving \in Clients /\ pc # "accept"
    BY Serving
  <1>2. UNCHANGED <<request, sent, closed, aborted, taken, conn, backlog, serving>>
    BY DEF clientVars, netVars
  <1>3. failed \subseteq failed' /\ failed' \subseteq failed \cup {serving}
    BY DEF Respond, GiveUp
  <1>4. pc' \in {"sendHead", "clearRes"}
    BY DEF Respond, GiveUp
  <1>5. PlaceSound'
    BY <1>4 DEF IInv, PlaceSound, NoBuff, NoFields, Labels
  <1>6. ReplySound'
    BY <1>4 DEF ReplySound, Answering
  <1>7. HeapSound' /\ live' \subseteq Clients \X Blocks
    <2>1. ReplyBlocks = {}
      BY DEF IInv, ReplySound, Answering, ReplyBlocks, NoResponse
    <2> DEFINE new == in \cup lost
               out == {}
    <2>2. Named' = Named \cup in
      BY <1>4, <2>1 DEF Named, HasReq, Answering
    <2>3. live' = (live \ Mine(out)) \cup Mine(new) /\ ~heapFault' /\ new \in SUBSET Blocks
      BY DEF Mine, IInv, HeapSound, Blocks
    <2>4. \A b \in lost : Forgotten(serving, b)'
      <3> SUFFICES ASSUME lost # {} PROVE Forgotten(serving, "statPath")'
        OBVIOUS
      <3>1. due'[serving] = 1 + StaticText.length
        BY <1>1 DEF IInv, TypeOK, Respond
      <3>2. StaticText' = StaticText
        BY DEF StaticText, NoResponse
      <3> QED
        BY <1>2, <3>1, <3>2 DEF Forgotten
    <2>5. \A c \in Clients : c # serving => due'[c] = due[c]
      BY DEF IInv, TypeOK, Respond
    <2>6. \A b \in (Named \ out) \cup new : b \in Named' \/ Forgotten(serving, b)'
      BY <2>2, <2>4
    <2>7. Named' \subseteq (Named \ out) \cup new
      BY <2>2
    <2> HIDE DEF new, out
    <2>8. HeapSound'
      <3>1. UNCHANGED <<clientVars, conn, serving>> /\ ~heapFault' /\ failed \subseteq failed'
        BY <1>2, <1>3, <2>3
      <3>2. live' = (live \ Mine(out)) \cup Mine(new)
        BY <2>3
      <3>3. pc = "handle" /\ \A c \in Clients : c # serving => due'[c] = due[c]
        BY <2>5
      <3> QED
        BY <2>6, <2>7, <3>1, <3>2, <3>3, HeapStep
    <2>9. live' \subseteq Clients \X Blocks
      BY <1>1, <2>3, BlocksTyped
    <2> QED
      BY <2>8, <2>9
  <1>8. QueueSound'
    <2>1. \A c \in Clients : c # serving => due'[c] = due[c]
      BY DEF IInv, TypeOK, Respond
    <2> QED
      BY <1>1, <1>2, <1>3, <2>1, QueueStep
  <1>9. written[serving] = 0 /\ serving \notin failed
    BY DEF IInv, ProgressSound, Working
  <1>10. due' \in [Clients -> Nat]
    BY DEF IInv, TypeOK, Respond
  <1>11. \A c \in Clients : c # serving => due'[c] = due[c]
    BY DEF IInv, TypeOK, Respond
  <1>12. pc' = "sendHead" => due'[serving] = 1 + res'.length /\ failed' = failed
    BY <1>1 DEF IInv, TypeOK, Respond, GiveUp
  <1>13. pc' = "clearRes" => serving \in failed'
    BY DEF Respond, GiveUp
  <1>14. ProgressSound'
    <2>1. WholeResponseOrNone'
      BY <1>1, <1>2, <1>3, <1>11, DoneStep
    <2> QED
      BY <1>2, <1>4, <1>9, <1>12, <1>13, <2>1 DEF ProgressSound, Working, Ending
  <1>15. AnswerSound'
    BY <1>2, <1>4 DEF IInv, AnswerSound, AnswerFollowsRequest, NothingMoreDue, BodyDue
  <1>16. written' \in [Clients -> Nat] /\ bodyLen' \in Nat
    BY DEF IInv, TypeOK
  <1> QED
    BY <1>1, <1>2, <1>3, <1>4, <1>5, <1>6, <1>7, <1>8, <1>10, <1>14, <1>15, <1>16, Together

\* The blocks the answer needs are allocated, and no other.
LEMMA HandleStep ==
  ASSUME IInv, pc = "handle", NEW in \in SUBSET {"extra", "text", "file"},
         UNCHANGED <<clientVars, netVars, heapFault, buff, fields, bodyLen, written>>,
         live' = live \cup Mine(in), ReplyBlocks' = in,
         res' \in [body : {"none", "static", "body", "text", "file"}, owned : BOOLEAN,
                   extra : BOOLEAN, length : Nat],
         res'.owned <=> res'.body \in {"text", "file"},
         res'.body = "body" => "body" \in fields,
         res'.body = "none" => res'.length = 0,
         \/ Respond(res')
         \/ GiveUp("clearRes") /\ UNCHANGED <<res, due>>
  PROVE  IInv'
  <1> DEFINE lost == {}
  <1>1. lost \in SUBSET {"statPath"} /\ in \cup lost = in /\ ~(lost # {})
    OBVIOUS
  <1> HIDE DEF lost
  <1> QED
    BY <1>1, AnswerStep

LEMMA HandleKeeps ==
  ASSUME IInv, Handle
  PROVE  IInv'
  <1>1. pc = "handle"
    BY DEF Handle, HandleRedirect, HandleEcho, HandleFile, HandleText
  <1>2. res = NoResponse /\ bodyLen \in Nat
    BY <1>1 DEF IInv, ReplySound, Answering, TypeOK
  <1>3. live \cup Mine({}) = live
    BY DEF Mine
  <1>4. CASE HandleRedirect
    <2>1. CASE Alloc("extra") /\ Respond([NoResponse EXCEPT !.extra = TRUE])
      <3>1. ReplyBlocks' = {"extra"}
        BY <2>1 DEF ReplyBlocks, NoResponse, Respond
      <3> QED
        BY <1>1, <1>4, <2>1, <3>1, HandleStep DEF HandleRedirect, Alloc, NoResponse, Respond
    <2>2. CASE GiveUp("clearRes") /\ UNCHANGED <<live, res, due>>
      <3>1. ReplyBlocks' = {}
        BY <1>2, <2>2 DEF ReplyBlocks, NoResponse
      <3> QED
        BY <1>1, <1>2, <1>3, <1>4, <2>2, <3>1, HandleStep DEF HandleRedirect, NoResponse
    <2> QED
      BY <1>4, <2>1, <2>2 DEF HandleRedirect
  <1>5. CASE HandleEcho
    <2>1. CASE Echoes /\ Respond([NoResponse EXCEPT !.body = "body", !.length = bodyLen]) /\ UNCHANGED live
      <3>1. ReplyBlocks' = {}
        BY <2>1 DEF ReplyBlocks, NoResponse, Respond
      <3> QED
        BY <1>1, <1>2, <1>3, <1>5, <2>1, <3>1, HandleStep DEF HandleEcho, Echoes, NoResponse, Respond
    <2>2. CASE /\ Alloc("text")
               /\ Respond([NoResponse EXCEPT !.body = "text", !.owned = TRUE, !.length = 1])
      <3>1. ReplyBlocks' = {"text"}
        BY <2>2 DEF ReplyBlocks, NoResponse, Respond
      <3> QED
        BY <1>1, <1>5, <2>2, <3>1, HandleStep DEF HandleEcho, Alloc, NoResponse, Respond
    <2>3. CASE GiveUp("clearRes") /\ UNCHANGED <<live, res, due>>
      <3>1. ReplyBlocks' = {}
        BY <1>2, <2>3 DEF ReplyBlocks, NoResponse
      <3> QED
        BY <1>1, <1>2, <1>3, <1>5, <2>3, <3>1, HandleStep DEF HandleEcho, NoResponse
    <2> QED
      BY <1>5, <2>1, <2>2, <2>3 DEF HandleEcho
  <1>6. CASE HandleFile
    <2>1. CASE /\ Alloc("file")
               /\ \E n \in {0, 2} :
                     Respond([NoResponse EXCEPT !.body = "file", !.owned = TRUE, !.length = n])
      <3>1. PICK n \in {0, 2} :
                Respond([NoResponse EXCEPT !.body = "file", !.owned = TRUE, !.length = n])
        BY <2>1
      <3>2. ReplyBlocks' = {"file"}
        BY <3>1 DEF ReplyBlocks, NoResponse, Respond
      <3>3. live' = live \cup Mine({"file"})
        BY <2>1 DEF Alloc
      <3>4. /\ Respond(res') /\ UNCHANGED <<clientVars, netVars, heapFault, buff, fields, bodyLen, written>>
            /\ res' = [body |-> "file", owned |-> TRUE, extra |-> FALSE, length |-> n]
        BY <1>6, <3>1 DEF HandleFile, NoResponse, Respond
      <3>5. /\ res' \in [body : {"none", "static", "body", "text", "file"}, owned : BOOLEAN,
                         extra : BOOLEAN, length : Nat]
            /\ res'.owned /\ res'.body = "file"
        BY <3>4
      <3> QED
        BY <1>1, <3>2, <3>3, <3>4, <3>5, HandleStep
    <2>2. CASE Respond(NoResponse) /\ UNCHANGED live
      <3>1. ReplyBlocks' = {}
        BY <2>2 DEF ReplyBlocks, NoResponse, Respond
      <3> QED
        BY <1>1, <1>3, <1>6, <2>2, <3>1, HandleStep DEF HandleFile, NoResponse, Respond
    <2>3. CASE Respond(StaticText) /\ UNCHANGED live
      <3>1. ReplyBlocks' = {}
        BY <2>3 DEF ReplyBlocks, NoResponse, StaticText, Respond
      <3> QED
        BY <1>1, <1>3, <1>6, <2>3, <3>1, HandleStep DEF HandleFile, NoResponse, StaticText, Respond
    <2>4. CASE Respond(StaticText) /\ Alloc("statPath")
      <3>1. ReplyBlocks' = {}
        BY <2>4 DEF ReplyBlocks, NoResponse, StaticText, Respond
      <3>2. live' = live \cup Mine({} \cup {"statPath"})
        BY <2>4 DEF Alloc, Mine
      <3>3. /\ res' = StaticText
            /\ UNCHANGED <<clientVars, netVars, heapFault, buff, fields, bodyLen, written>>
            /\ request[serving].route = "file"
        BY <1>6, <2>4 DEF HandleFile, Respond
      <3> QED
        BY <1>1, <2>4, <3>1, <3>2, <3>3, AnswerStep DEF NoResponse, StaticText
    <2>5. CASE GiveUp("clearRes") /\ UNCHANGED <<live, res, due>>
      <3>1. ReplyBlocks' = {}
        BY <1>2, <2>5 DEF ReplyBlocks, NoResponse
      <3> QED
        BY <1>1, <1>2, <1>3, <1>6, <2>5, <3>1, HandleStep DEF HandleFile, NoResponse
    <2> QED
      BY <1>6, <2>1, <2>2, <2>3, <2>4, <2>5 DEF HandleFile
  <1>7. CASE HandleText
    <2>1. ReplyBlocks' = {}
      BY <1>7 DEF HandleText, ReplyBlocks, NoResponse, StaticText, Respond
    <2> QED
      BY <1>1, <1>3, <1>7, <2>1, HandleStep DEF HandleText, NoResponse, StaticText, Respond, heapVars
  <1> QED
    BY <1>4, <1>5, <1>6, <1>7 DEF Handle

-----------------------------------------------------------------------------
(* The answer is sent.                                                     *)

\* What the response owns, or is lent, is still there while it is sent.
LEMMA BodyIsThere ==
  ASSUME IInv, pc \in {"sendHead", "sendBody"}
  PROVE  Mine(BodyBlocks) \subseteq live
  <1>1. BodyBlocks \subseteq Named
    BY DEF IInv, ReplySound, BodyBlocks, Named, ReplyBlocks
  <1> QED
    BY <1>1 DEF IInv, HeapSound, Mine

LEMMA WriteKeeps ==
  ASSUME IInv, NEW n \in 1..SocketRoom, Write(n)
  PROVE  IInv'
  <1> DEFINE size == written[serving] + n
  <1>1. serving \in Clients /\ pc \in {"sendHead", "sendBody"}
    BY Serving DEF Write
  <1>2. UNCHANGED <<request, sent, closed, aborted, taken, conn, backlog, serving, live, buff, fields,
                    bodyLen, res, due, failed>>
    BY DEF Write, clientVars, netVars
  <1>3. /\ written \in [Clients -> Nat] /\ res.length \in Nat /\ due \in [Clients -> Nat]
        /\ due[serving] = 1 + res.length /\ serving \notin failed
    BY <1>1 DEF IInv, TypeOK, ProgressSound, Working
  <1>4. n \in Nat \ {0} /\ size \in Nat
    BY <1>1, <1>3, ServerAssumption
  <1>5. written' = [written EXCEPT ![serving] = size] /\ size <= SendEnd /\ pc' = AfterSend(size)
    BY DEF Write
  <1>6. /\ written' \in [Clients -> Nat] /\ written'[serving] = size
        /\ \A c \in Clients : c # serving => written'[c] = written[c]
    BY <1>1, <1>3, <1>4, <1>5
  <1>7. \/ pc' = "sendBody" /\ res.length > 0 /\ size \in 1..res.length
        \/ pc' = "clearRes" /\ size = 1 + res.length
    <2>1. CASE pc = "sendHead"
      <3>1. size = 1
        BY <1>1, <1>3, <1>4, <1>5, <2>1 DEF SendEnd
      <3> QED
        BY <1>3, <1>5, <2>1, <3>1 DEF AfterSend, SendEnd
    <2>2. CASE pc = "sendBody"
      <3>1. res.length > 0 /\ written[serving] \in 1..res.length
        BY <2>2 DEF IInv, ReplySound, ProgressSound
      <3>2. SendEnd = 1 + res.length
        BY <2>2 DEF SendEnd, ResponseLength
      <3>3. CASE size < SendEnd
        <4>1. pc' = "sendBody"
          BY <1>5, <2>2, <3>3 DEF AfterSend
        <4> QED
          BY <1>3, <1>4, <3>1, <3>2, <3>3, <4>1
      <3>4. CASE ~(size < SendEnd)
        <4>1. pc' = "clearRes"
          BY <1>5, <2>2, <3>4 DEF AfterSend
        <4> QED
          BY <1>3, <1>4, <1>5, <3>2, <3>4, <4>1
      <3> QED
        BY <3>3, <3>4
    <2> QED
      BY <1>1, <2>1, <2>2
  <1> HIDE DEF size
  <1>8. pc' \in {"sendBody", "clearRes"}
    BY <1>7
  <1>9. PlaceSound'
    BY <1>1, <1>2, <1>8 DEF IInv, PlaceSound, NoBuff, NoFields, Labels
  <1>10. ReplySound'
    BY <1>2, <1>7 DEF IInv, ReplySound, Answering
  <1>11. HeapSound' /\ live' \subseteq Clients \X Blocks
    <2>1. Named' = Named
      BY <1>1, <1>2, <1>8 DEF Named, ReplyBlocks, HasReq, Answering
    <2>2. ~heapFault'
      BY <1>1, BodyIsThere DEF Write, IInv, HeapSound
    <2>3. live' = (live \ Mine({})) \cup Mine({})
      BY <1>2 DEF Mine
    <2> QED
      BY <1>1, <1>2, <2>1, <2>2, <2>3, HeapStep, BlocksTyped DEF clientVars
  <1>12. QueueSound'
    BY <1>1, <1>2, <1>6, QueueStep
  <1>13. WholeResponseOrNone'
    BY <1>1, <1>2, <1>6, DoneStep DEF clientVars
  <1>14. ProgressSound'
    BY <1>2, <1>3, <1>6, <1>7, <1>8, <1>13 DEF ProgressSound, Working, Ending
  <1>15. AnswerSound'
    <2>1. sent[serving] >= request[serving].head /\ NothingMoreDue(serving)
      BY <1>1 DEF IInv, AnswerSound
    <2>2. \A c \in Clients : NothingMoreDue(c)' = NothingMoreDue(c)
      BY <1>2 DEF NothingMoreDue, BodyDue
    <2>3. AnswerFollowsRequest'
      BY <1>2, <1>6, <2>1, <2>2 DEF IInv, AnswerSound, AnswerFollowsRequest
    <2>4. NothingMoreDue(serving)'
      BY <1>2, <2>1 DEF NothingMoreDue, BodyDue
    <2> QED
      BY <1>2, <2>1, <2>3, <2>4 DEF AnswerSound
  <1>16. bodyLen' \in Nat /\ due' \in [Clients -> Nat]
    BY <1>2 DEF IInv, TypeOK
  <1> QED
    BY <1>1, <1>2, <1>6, <1>8, <1>9, <1>10, <1>11, <1>12, <1>14, <1>15, <1>16, Together DEF clientVars

\* On a connection that was reset nothing is promised any more.
LEMMA WriteFailsKeeps ==
  ASSUME IInv, WriteError \/ WriteSignal
  PROVE  IInv'
  <1>1. /\ serving \in Clients /\ pc \in {"sendHead", "sendBody"} /\ aborted[serving]
        /\ pc' \in {"clearRes", "killed"}
    BY Serving DEF WriteError, WriteSignal, GiveUp
  <1>2. UNCHANGED <<request, sent, closed, aborted, taken, conn, backlog, serving, live, heapFault, buff,
                    fields, bodyLen, res, written, due>>
    BY DEF WriteError, WriteSignal, clientVars, netVars, heapVars, replyVars
  <1>3. failed \subseteq failed' /\ failed' \subseteq failed \cup {serving}
    BY DEF WriteError, WriteSignal, GiveUp, replyVars
  <1>4. PlaceSound'
    BY <1>1, <1>2 DEF IInv, PlaceSound, NoBuff, NoFields, Labels
  <1>5. ReplySound'
    BY <1>1, <1>2 DEF IInv, ReplySound, Answering
  <1>6. HeapSound' /\ live' \subseteq Clients \X Blocks
    <2>1. Named' = Named
      BY <1>1, <1>2 DEF Named, ReplyBlocks, HasReq, Answering
    <2>2. ~heapFault' /\ live' = (live \ Mine({})) \cup Mine({})
      BY <1>2 DEF Mine, IInv, HeapSound
    <2> QED
      BY <1>1, <1>2, <1>3, <2>1, <2>2, HeapStep, BlocksTyped DEF clientVars
  <1>7. QueueSound'
    BY <1>1, <1>2, <1>3, QueueStep
  <1>8. WholeResponseOrNone'
    BY <1>1, <1>2, <1>3, DoneStep DEF clientVars
  <1>9. ProgressSound'
    BY <1>1, <1>2, <1>8 DEF ProgressSound, Working, Ending
  <1>10. AnswerSound'
    BY <1>1, <1>2 DEF IInv, AnswerSound, AnswerFollowsRequest, NothingMoreDue, BodyDue
  <1>11. bodyLen' \in Nat /\ due' \in [Clients -> Nat] /\ written' \in [Clients -> Nat]
    BY <1>2 DEF IInv, TypeOK
  <1> QED
    BY <1>1, <1>2, <1>3, <1>4, <1>5, <1>6, <1>7, <1>9, <1>10, <1>11, Together DEF clientVars

-----------------------------------------------------------------------------
(* The cleanup.                                                            *)

\* Freeing what is named, and only that, is sound.
LEMMA FreeIsSound ==
  ASSUME IInv, NEW names \in SUBSET Named, Free(names)
  PROVE  ~heapFault' /\ live' = (live \ Mine(names)) \cup Mine({})
  BY DEF Free, IInv, HeapSound, Mine

\* A step of the cleanup: only the place, the heap and what leads to it change.
LEMMA CleanupStep ==
  ASSUME IInv, pc \in Ending \ {"close"}, pc' \in Ending,
         UNCHANGED <<clientVars, netVars, written, due, failed>>,
         PlaceSound', ReplySound', HeapSound', live' \subseteq Clients \X Blocks, bodyLen' \in Nat
  PROVE  IInv'
  <1>1. serving \in Clients /\ pc # "accept" /\ pc' # "accept"
    BY Serving DEF Ending
  <1>2. UNCHANGED <<request, sent, closed, aborted, taken, conn, backlog, serving>>
    BY DEF clientVars, netVars
  <1>3. QueueSound'
    BY <1>1, <1>2, QueueStep
  <1>4. WholeResponseOrNone'
    BY <1>1, <1>2, DoneStep
  <1>5. ProgressSound'
    BY <1>2, <1>4 DEF IInv, ProgressSound, Working, Ending
  <1>6. AnswerSound'
    BY <1>2 DEF IInv, AnswerSound, AnswerFollowsRequest, NothingMoreDue, BodyDue, Ending
  <1>7. due' \in [Clients -> Nat] /\ written' \in [Clients -> Nat]
    BY DEF IInv, TypeOK
  <1> QED
    BY <1>1, <1>2, <1>3, <1>5, <1>6, <1>7, Together

LEMMA ClearResponseKeeps ==
  ASSUME IInv, ClearResponse
  PROVE  IInv'
  <1> USE DEF ClearResponse, netVars
  <1>1. /\ pc = "clearRes" /\ pc' = "clearReq" /\ pc # "accept"
        /\ buff \in {"buff", "grown"}
        /\ fields \subseteq {"method", "path", "version", "strings", "headers", "body"}
    BY DEF IInv, PlaceSound, NoBuff
  <1>2. ReplyBlocks \subseteq {"extra", "text", "file"}
    BY DEF ReplyBlocks, IInv, ReplySound
  <1>3. Free(ReplyBlocks) /\ ReplyBlocks \subseteq Named
    BY DEF ReplyBlocks, Named
  <1>4. ~heapFault' /\ live' = (live \ Mine(ReplyBlocks)) \cup Mine({})
    BY <1>3, FreeIsSound
  <1>5. ReplyBlocks' = {}
    BY DEF ReplyBlocks, NoResponse
  <1>6. Named' = fields \cup {"req", buff} /\ Named = fields \cup {"req", buff} \cup ReplyBlocks
    BY <1>1, <1>5 DEF Named, HasReq, Answering
  <1>7. Named' = Named \ ReplyBlocks
    BY <1>1, <1>2, <1>6
  <1>8. HeapSound' /\ live' \subseteq Clients \X Blocks
    BY <1>1, <1>4, <1>7, HeapStep, BlocksTyped
  <1>9. PlaceSound'
    BY <1>1 DEF PlaceSound, NoBuff, NoFields, Labels
  <1>10. ReplySound'
    BY <1>1 DEF ReplySound, NoResponse
  <1>11. bodyLen' \in Nat
    BY DEF IInv, TypeOK
  <1> QED
    BY <1>1, <1>8, <1>9, <1>10, <1>11, CleanupStep DEF Ending

LEMMA ClearRequestKeeps ==
  ASSUME IInv, ClearRequest
  PROVE  IInv'
  <1> USE DEF ClearRequest, netVars
  <1>1. /\ pc = "clearReq" /\ pc' = "freeBuff" /\ pc # "accept" /\ res = NoResponse
        /\ buff \in {"buff", "grown"}
        /\ fields \subseteq {"method", "path", "version", "strings", "headers", "body"}
    BY DEF IInv, PlaceSound, NoBuff, ReplySound, Answering
  <1>2. ReplyBlocks = {} /\ ReplyBlocks' = {}
    BY <1>1 DEF ReplyBlocks, NoResponse
  <1>3. Named = fields \cup {"req"} \cup {buff} /\ Named' = {buff}
    BY <1>1, <1>2 DEF Named, HasReq, Answering
  <1>4. ~heapFault' /\ live' = (live \ Mine(fields \cup {"req"})) \cup Mine({})
    BY <1>3, FreeIsSound
  <1> DEFINE out == fields \cup {"req"}
  <1>5. Named' = Named \ out
    BY <1>1, <1>3
  <1>6. HeapSound' /\ live' \subseteq Clients \X Blocks
    <2>1. live' = (live \ Mine(out)) \cup Mine({}) /\ UNCHANGED <<clientVars, conn, serving, failed, due>>
      BY <1>4
    <2>2. /\ Named' \subseteq (Named \ out) \cup {}
          /\ \A b \in (Named \ out) \cup {} : b \in Named' \/ Forgotten(serving, b)'
      BY <1>5
    <2>3. {} \in SUBSET Blocks /\ ~heapFault' /\ pc # "accept" /\ failed \subseteq failed'
      BY <1>1, <1>4, <2>1
    <2> HIDE DEF out, ClearRequest
    <2>4. HeapSound'
      BY <2>1, <2>2, <2>3, HeapStep
    <2>5. live' \subseteq Clients \X Blocks
      BY <2>1, <2>3, BlocksTyped
    <2> QED
      BY <2>4, <2>5
  <1>7. PlaceSound'
    BY <1>1 DEF PlaceSound, NoBuff, NoFields, Labels
  <1>8. ReplySound'
    BY <1>1 DEF ReplySound, NoResponse
  <1> QED
    BY <1>1, <1>6, <1>7, <1>8, CleanupStep DEF Ending

LEMMA FreeBuffKeeps ==
  ASSUME IInv, FreeBuff
  PROVE  IInv'
  <1> USE DEF FreeBuff, netVars, replyVars
  <1>1. /\ pc = "freeBuff" /\ pc' = "close" /\ pc # "accept" /\ res = NoResponse
        /\ buff \in {"buff", "grown"} /\ fields = {}
    BY DEF IInv, PlaceSound, NoBuff, NoFields, ReplySound, Answering
  <1>2. ReplyBlocks = {} /\ ReplyBlocks' = {}
    BY <1>1 DEF ReplyBlocks, NoResponse
  <1>3. Named = {buff} /\ Named' = {}
    BY <1>1, <1>2 DEF Named, HasReq, Answering
  <1>4. ~heapFault' /\ live' = (live \ Mine({buff})) \cup Mine({})
    BY <1>3, FreeIsSound
  <1>5. HeapSound' /\ live' \subseteq Clients \X Blocks
    BY <1>1, <1>3, <1>4, HeapStep, BlocksTyped
  <1>6. PlaceSound'
    BY <1>1 DEF PlaceSound, NoBuff, NoFields, Labels
  <1>7. ReplySound'
    BY <1>1 DEF ReplySound, NoResponse
  <1>8. bodyLen' \in Nat
    BY DEF IInv, TypeOK
  <1> QED
    BY <1>1, <1>5, <1>6, <1>7, <1>8, CleanupStep DEF Ending

-----------------------------------------------------------------------------
(* From one connection to the next.                                        *)

\* What is left of a connection when it is closed is forgotten.
LEMMA CloseKeeps ==
  ASSUME IInv, CloseConnection
  PROVE  IInv'
  <1> USE DEF CloseConnection
  <1>1. serving \in Clients /\ serving # NoClient /\ pc = "close" /\ pc' = "accept"
    BY Serving
  <1>2. UNCHANGED <<request, sent, closed, aborted, taken, backlog, live, heapFault, buff, fields,
                    bodyLen, res, written, due, failed>>
    BY DEF clientVars, heapVars, replyVars
  <1>3. buff = "none" /\ fields = {} /\ res = NoResponse
    BY <1>1 DEF IInv, PlaceSound, NoBuff, NoFields, ReplySound, Answering
  <1>4. ReplyBlocks = {} /\ Named = {} /\ Named' = {}
    BY <1>1, <1>2, <1>3 DEF ReplyBlocks, NoResponse, Named, HasReq, Answering
  <1>5. conn \in [Clients -> {"idle", "queued", "serving", "done"}] /\ live \subseteq Clients \X Blocks
    BY DEF IInv, TypeOK
  <1>6. /\ conn' \in [Clients -> {"idle", "queued", "serving", "done"}] /\ conn'[serving] = "done"
        /\ \A c \in Clients : c # serving => conn'[c] = conn[c]
    BY <1>1, <1>5
  <1>7. HeapSound'
    <2>1. Mine(Named)' = {}
      BY <1>4 DEF Mine
    <2>2. ASSUME NEW p \in live
          PROVE  p[1] \in Clients /\ Forgotten(p[1], p[2])' /\ conn'[p[1]] = "done"
      <3>1. p[1] \in Clients /\ Forgotten(p[1], p[2]) /\ conn'[p[1]] = "done"
        BY <1>1, <1>4, <1>5, <1>6 DEF IInv, HeapSound
      <3> QED
        BY <1>2, <3>1 DEF Forgotten
    <2>3. ~heapFault' /\ \A p \in live' : p[1] # serving'
      BY <1>2, <2>2, ServerAssumption DEF IInv, HeapSound
    <2> QED
      BY <1>2, <2>1, <2>2, <2>3 DEF HeapSound
  <1>8. QueueSound'
    <2>1. \A i \in 1..Len(backlog) : backlog[i] \in Clients /\ backlog[i] # serving
      BY <1>1, Serving DEF IInv, QueueSound
    <2>2. \A i \in 1..Len(backlog) : conn'[backlog[i]] = "queued"
      BY <1>6, <2>1 DEF IInv, QueueSound
    <2>3. \A c \in Clients : conn'[c] # "serving" /\ c # serving'
      BY <1>1, <1>6, ServerAssumption DEF IInv, QueueSound
    <2> QED
      BY <1>2, <1>6, <2>2, <2>3 DEF IInv, QueueSound
  <1>9. ProgressSound'
    BY <1>1, <1>2, <1>6 DEF IInv, ProgressSound, Working, Ending, WholeResponseOrNone
  <1>10. PlaceSound' /\ ReplySound'
    BY <1>1, <1>2, <1>3 DEF PlaceSound, ReplySound, NoResponse, NoBuff, NoFields, Labels
  <1>11. AnswerSound'
    BY <1>1, <1>2 DEF IInv, AnswerSound, AnswerFollowsRequest, NothingMoreDue, BodyDue
  <1>12. TypeOK'
    BY <1>1, <1>2, <1>5, <1>6 DEF IInv, TypeOK
  <1> QED
    BY <1>7, <1>8, <1>9, <1>10, <1>11, <1>12 DEF IInv

\* The next connection holds nothing yet.
LEMMA AcceptKeeps ==
  ASSUME IInv, Accept
  PROVE  IInv'
  <1> USE DEF Accept
  <1> DEFINE c0 == Head(backlog)
  <1>1. backlog \in Seq(Clients) /\ backlog # << >> /\ Len(backlog) \in Nat \ {0}
    BY DEF IInv, QueueSound
  <1>2. c0 = backlog[1] /\ c0 \in Clients /\ conn[c0] = "queued" /\ c0 # NoClient
    BY <1>1, ServerAssumption DEF IInv, QueueSound
  <1>3. /\ UNCHANGED <<request, sent, closed, aborted, taken, live, heapFault, buff, fields, bodyLen,
                       res, written, due, failed>>
        /\ pc = "accept" /\ pc' = "buff" /\ serving' = c0 /\ serving = NoClient
    BY DEF clientVars, heapVars, replyVars, IInv, TypeOK
  <1>4. buff = "none" /\ fields = {} /\ res = NoResponse
    BY DEF IInv, PlaceSound, NoBuff, NoFields, ReplySound, Answering
  <1>5. conn \in [Clients -> {"idle", "queued", "serving", "done"}] /\ live \subseteq Clients \X Blocks
    BY DEF IInv, TypeOK
  <1>6. /\ conn' \in [Clients -> {"idle", "queued", "serving", "done"}] /\ conn'[c0] = "serving"
        /\ \A c \in Clients : c # c0 => conn'[c] = conn[c]
    BY <1>2, <1>5
  <1>7. /\ backlog' \in Seq(Clients) /\ Len(backlog') = Len(backlog) - 1
        /\ \A i \in 1..Len(backlog') : backlog'[i] = backlog[i + 1] /\ i + 1 \in 1..Len(backlog)
    BY <1>1
  <1> HIDE DEF c0
  <1>8. HeapSound'
    <2>1. Named' = {}
      BY <1>3, <1>4 DEF ReplyBlocks, NoResponse, Named, HasReq, Answering
    <2>2. ASSUME NEW p \in live
          PROVE  p[1] # c0 /\ Forgotten(p[1], p[2])' /\ conn'[p[1]] = "done"
      <3>1. p[1] \in Clients /\ p[1] # serving
        BY <1>3, <1>5, ServerAssumption
      <3>2. Forgotten(p[1], p[2]) /\ conn[p[1]] = "done"
        BY <3>1 DEF IInv, HeapSound
      <3>3. Forgotten(p[1], p[2])'
        BY <1>3, <3>2 DEF Forgotten
      <3> QED
        BY <1>2, <1>6, <3>1, <3>2, <3>3
    <2>3. Mine(Named)' = {} /\ ~heapFault'
      BY <1>3, <2>1 DEF Mine, IInv, HeapSound
    <2> QED
      BY <1>3, <2>2, <2>3 DEF HeapSound
  <1>9. QueueSound'
    <2>1. \A i, j \in 1..Len(backlog') : backlog'[i] = backlog'[j] => i = j
      BY <1>1, <1>7 DEF IInv, QueueSound
    <2>2. \A i \in 1..Len(backlog') : backlog'[i] # c0 /\ backlog'[i] \in Clients
      BY <1>1, <1>2, <1>7 DEF IInv, QueueSound
    <2>3. \A i \in 1..Len(backlog') : conn'[backlog'[i]] = "queued"
      BY <1>6, <1>7, <2>2 DEF IInv, QueueSound
    <2>4. \A c \in Clients : conn'[c] = "serving" <=> c = serving'
      BY <1>2, <1>3, <1>6, ServerAssumption DEF IInv, QueueSound
    <2>5. \A c \in Clients : conn'[c] \in {"idle", "queued"} =>
                 written'[c] = 0 /\ due'[c] = 0 /\ c \notin failed'
      BY <1>3, <1>6 DEF IInv, QueueSound
    <2> QED
      BY <1>7, <2>1, <2>3, <2>4, <2>5 DEF QueueSound
  <1>10. ProgressSound'
    <2>1. written[c0] = 0 /\ due[c0] = 0 /\ c0 \notin failed
      BY <1>2 DEF IInv, QueueSound
    <2>2. WholeResponseOrNone'
      BY <1>3, <1>6 DEF IInv, ProgressSound, WholeResponseOrNone
    <2> QED
      BY <1>3, <2>1, <2>2 DEF ProgressSound, Working, Ending
  <1>11. PlaceSound' /\ ReplySound'
    BY <1>3, <1>4 DEF PlaceSound, ReplySound, NoResponse, NoBuff, NoFields, Labels
  <1>12. AnswerSound'
    BY <1>3 DEF IInv, AnswerSound, AnswerFollowsRequest, NothingMoreDue, BodyDue
  <1>13. TypeOK'
    BY <1>2, <1>3, <1>5, <1>6 DEF IInv, TypeOK
  <1> QED
    BY <1>8, <1>9, <1>10, <1>11, <1>12, <1>13 DEF IInv

-----------------------------------------------------------------------------
(* The clients.                                                            *)

\* Nothing a client does reaches into the process.
LEMMA ClientFrame ==
  ASSUME IInv, UNCHANGED <<serving, pc, heapVars, replyVars>>
  PROVE  PlaceSound' /\ ReplySound' /\ Named' = Named /\ Mine(Named)' = Mine(Named)
  <1>1. UNCHANGED <<live, heapFault, buff, fields, bodyLen, res, written, due, failed>>
    BY DEF heapVars, replyVars
  <1>2. PlaceSound' /\ ReplySound'
    BY <1>1 DEF IInv, PlaceSound, ReplySound
  <1>3. Named' = Named
    BY <1>1 DEF Named, ReplyBlocks
  <1> QED
    BY <1>2, <1>3 DEF Mine

LEMMA ConnectKeeps ==
  ASSUME IInv, NEW c0 \in Clients, Connect(c0)
  PROVE  IInv'
  <1> USE DEF Connect
  <1>1. UNCHANGED <<request, sent, closed, aborted, taken, serving, pc, live, heapFault, buff, fields,
                    bodyLen, res, written, due, failed>>
    BY DEF clientVars, heapVars, replyVars
  <1>2. PlaceSound' /\ ReplySound' /\ Mine(Named)' = Mine(Named) /\ Named' = Named
    BY ClientFrame
  <1>3. conn \in [Clients -> {"idle", "queued", "serving", "done"}] /\ live \subseteq Clients \X Blocks
    BY DEF IInv, TypeOK
  <1>4. /\ conn' \in [Clients -> {"idle", "queued", "serving", "done"}] /\ conn'[c0] = "queued"
        /\ \A c \in Clients : c # c0 => conn'[c] = conn[c]
    BY <1>3
  <1>5. HeapSound'
    <2>1. ASSUME NEW p \in live, p[1] # serving
          PROVE  Forgotten(p[1], p[2])' /\ conn'[p[1]] = "done"
      <3>1. Forgotten(p[1], p[2]) /\ conn[p[1]] = "done"
        BY <2>1 DEF IInv, HeapSound
      <3>2. p[1] \in Clients /\ p[1] # c0
        BY <1>3, <3>1
      <3> QED
        BY <1>1, <1>4, <3>1, <3>2 DEF Forgotten
    <2>2. \A b : Forgotten(serving, b) => Forgotten(serving, b)'
      BY <1>1 DEF Forgotten
    <2> QED
      BY <1>1, <1>2, <2>1, <2>2 DEF IInv, HeapSound
  <1>6. QueueSound'
    <2>1. backlog \in Seq(Clients) /\ Len(backlog) \in Nat
      BY DEF IInv, QueueSound
    <2>2. /\ backlog' \in Seq(Clients) /\ Len(backlog') = Len(backlog) + 1
          /\ \A i \in 1..Len(backlog) : backlog'[i] = backlog[i] /\ backlog'[i] \in Clients
          /\ backlog'[Len(backlog) + 1] = c0
      BY <2>1
    <2>3. \A i \in 1..Len(backlog) : conn[backlog[i]] = "queued" /\ backlog[i] # c0
      BY DEF IInv, QueueSound
    <2>4. \A i \in 1..Len(backlog') : i \in 1..Len(backlog) \/ i = Len(backlog) + 1
      BY <2>1, <2>2
    <2>5. \A i, j \in 1..Len(backlog') : backlog'[i] = backlog'[j] => i = j
      BY <2>2, <2>3, <2>4 DEF IInv, QueueSound
    <2>6. \A i \in 1..Len(backlog') : conn'[backlog'[i]] = "queued"
      BY <1>4, <2>2, <2>3, <2>4
    <2>7. \A c \in Clients : conn'[c] = "serving" <=> c = serving'
      BY <1>1, <1>4 DEF IInv, QueueSound
    <2>8. \A c \in Clients : conn'[c] \in {"idle", "queued"} =>
                 written'[c] = 0 /\ due'[c] = 0 /\ c \notin failed'
      BY <1>1, <1>4 DEF IInv, QueueSound
    <2> QED
      BY <2>2, <2>5, <2>6, <2>7, <2>8 DEF QueueSound
  <1>7. ProgressSound'
    BY <1>1, <1>4 DEF IInv, ProgressSound, WholeResponseOrNone
  <1>8. AnswerSound'
    BY <1>1 DEF IInv, AnswerSound, AnswerFollowsRequest, NothingMoreDue, BodyDue
  <1>9. TypeOK'
    BY <1>1, <1>3, <1>4 DEF IInv, TypeOK
  <1> QED
    BY <1>2, <1>5, <1>6, <1>7, <1>8, <1>9 DEF IInv

\* A connected client only ever adds to what it sent, read, closed or broke.
LEMMA ClientKeeps ==
  ASSUME IInv, UNCHANGED <<request, netVars, pc, heapVars, replyVars>>,
         TypeOK',
         \A c \in Clients :
            /\ sent'[c] >= sent[c]
            /\ closed[c] => closed'[c]
            /\ aborted[c] => aborted'[c]
  PROVE  IInv'
  <1>1. UNCHANGED <<conn, backlog, serving, live, heapFault, buff, fields, bodyLen, res, written, due,
                    failed>>
    BY DEF netVars, heapVars, replyVars
  <1>2. PlaceSound' /\ ReplySound' /\ Mine(Named)' = Mine(Named) /\ Named' = Named
    BY <1>1, ClientFrame
  <1>3. HeapSound' /\ QueueSound'
    BY <1>1, <1>2 DEF IInv, HeapSound, QueueSound, Forgotten
  <1>4. ProgressSound'
    <2>1. WholeResponseOrNone'
      BY <1>1 DEF IInv, ProgressSound, WholeResponseOrNone
    <2>2. pc \in Ending => serving \in Clients
      BY Serving DEF Ending
    <2> QED
      BY <1>1, <2>1, <2>2 DEF IInv, ProgressSound
  <1>5. AnswerSound'
    <2>1. \A c \in Clients : request[c].head \in Nat /\ BodyDue(c) \in Nat /\ sent[c] \in Nat /\ sent'[c] \in Nat
      BY ServerAssumption DEF IInv, TypeOK, BodyDue
    <2>2. \A c \in Clients : sent[c] >= request[c].head => sent'[c] >= request'[c].head
      BY <2>1
    <2>3. \A c \in Clients : BodyDue(c)' = BodyDue(c)
      BY DEF BodyDue
    <2>4. \A c \in Clients : NothingMoreDue(c) => NothingMoreDue(c)'
      BY <2>1, <2>3 DEF NothingMoreDue
    <2>5. AnswerFollowsRequest'
      BY <1>1, <2>2, <2>4 DEF IInv, AnswerSound, AnswerFollowsRequest
    <2>6. pc \in {"line", "headers", "body", "handle", "sendHead", "sendBody"} => serving \in Clients
      BY Serving
    <2>7. serving \in Clients /\ NothingMoreDue(serving) => NothingMoreDue(serving)'
      BY <1>1, <2>1 DEF NothingMoreDue, BodyDue
    <2> QED
      BY <1>1, <2>2, <2>4, <2>5, <2>6, <2>7 DEF IInv, AnswerSound
  <1> QED
    BY <1>2, <1>3, <1>4, <1>5 DEF IInv

-----------------------------------------------------------------------------
(* The whole specification.                                                *)

LEMMA Initially == Init => IInv
  <1> SUFFICES ASSUME Init PROVE IInv
    OBVIOUS
  <1> USE DEF Init
  <1>1. \A c \in Clients :
          request[c] \in Requests /\ sent[c] = 0 /\ written[c] = 0 /\ due[c] = 0 /\ conn[c] = "idle"
    OBVIOUS
  <1>2. TypeOK
    <2>1. \A c \in Clients : sent[c] \in 0..(request[c].head + request[c].tail)
      <3> SUFFICES ASSUME NEW c \in Clients PROVE sent[c] \in 0..(request[c].head + request[c].tail)
        OBVIOUS
      <3> HIDE DEF Init
      <3>1. request[c].head \in Nat /\ request[c].tail \in Nat
        BY <1>1, ServerAssumption
      <3> QED
        BY <1>1, <3>1
    <2> QED
      BY <2>1 DEF TypeOK, NoResponse
  <1>3. PlaceSound /\ ReplySound
    BY DEF PlaceSound, ReplySound, NoResponse, NoBuff, NoFields, Labels, Answering
  <1>4. HeapSound
    <2>1. Named = {}
      BY DEF Named, ReplyBlocks, NoResponse, HasReq, Answering
    <2> QED
      BY <2>1 DEF HeapSound, Mine
  <1>5. QueueSound
    <2>1. backlog \in Seq(Clients) /\ Len(backlog) = 0
      OBVIOUS
    <2> QED
      BY <1>1, <2>1, ServerAssumption DEF QueueSound
  <1>6. ProgressSound /\ AnswerSound
    BY <1>1 DEF ProgressSound, AnswerSound, Working, Ending, WholeResponseOrNone, AnswerFollowsRequest
  <1> QED
    BY <1>2, <1>3, <1>4, <1>5, <1>6 DEF IInv

LEMMA ClientNextKeeps ==
  ASSUME IInv, ClientNext
  PROVE  IInv'
  <1>1. PICK c \in Clients :
          \/ Connect(c) \/ ClientTake(c) \/ ClientClose(c) \/ ClientAbort(c)
          \/ \E n \in 1..(request[c].head + request[c].tail) : ClientSend(c, n)
    BY DEF ClientNext
  <1>2. CASE Connect(c)
    BY <1>2, ConnectKeeps
  <1>3. /\ request[c].head \in Nat /\ request[c].tail \in Nat
        /\ \A d \in Clients : sent[d] \in Nat
    BY ServerAssumption DEF IInv, TypeOK
  <1> USE DEF heapVars, replyVars, netVars
  <1>4. CASE ClientTake(c)
    <2>1. TypeOK'
      BY <1>4 DEF IInv, TypeOK, ClientTake
    <2> QED
      BY <1>3, <1>4, <2>1, ClientKeeps DEF ClientTake
  <1>5. CASE ClientClose(c)
    <2>1. TypeOK'
      BY <1>5 DEF IInv, TypeOK, ClientClose
    <2>2. \A d \in Clients : closed[d] => closed'[d]
      BY <1>5 DEF IInv, TypeOK, ClientClose
    <2> QED
      BY <1>3, <1>5, <2>1, <2>2, ClientKeeps DEF ClientClose
  <1>6. CASE ClientAbort(c)
    <2>1. TypeOK'
      BY <1>6 DEF IInv, TypeOK, ClientAbort
    <2>2. \A d \in Clients : aborted[d] => aborted'[d]
      BY <1>6 DEF IInv, TypeOK, ClientAbort
    <2> QED
      BY <1>3, <1>6, <2>1, <2>2, ClientKeeps DEF ClientAbort
  <1>7. CASE \E n \in 1..(request[c].head + request[c].tail) : ClientSend(c, n)
    <2>1. PICK n \in 1..(request[c].head + request[c].tail) : ClientSend(c, n)
      BY <1>7
    <2>2. \A d \in Clients :
            sent'[d] >= sent[d] /\ sent'[d] \in 0..(request[d].head + request[d].tail)
      BY <1>3, <2>1 DEF IInv, TypeOK, ClientSend
    <2>3. TypeOK'
      BY <2>1, <2>2 DEF IInv, TypeOK, ClientSend
    <2> QED
      BY <2>1, <2>2, <2>3, ClientKeeps DEF ClientSend
  <1> QED
    BY <1>1, <1>2, <1>4, <1>5, <1>6, <1>7

LEMMA ServerNextKeeps ==
  ASSUME IInv, ServerNext
  PROVE  IInv'
  <1>1. CASE Setup
    BY <1>1, AcceptKeeps, AllocBuffKeeps, AllocReqKeeps DEF Setup
  <1>2. CASE Parse
    <2>1. CASE \E n \in 0..BodyMax : ReadBody(n)
      BY <2>1, ReadBodyKeeps
    <2> QED
      BY <1>2, <2>1, ReadHeadKeeps, ReadHeadFailsKeeps, ParseLineKeeps, ParseHeadersKeeps,
         ParseHeadersFailsKeeps, NoBodyKeeps, ReadBodyFailsKeeps DEF Parse
  <1>3. CASE Handle
    BY <1>3, HandleKeeps
  <1>4. CASE Send
    <2>1. CASE \E n \in 1..SocketRoom : Write(n)
      BY <2>1, WriteKeeps
    <2> QED
      BY <1>4, <2>1, WriteFailsKeeps DEF Send
  <1>5. CASE Cleanup
    BY <1>5, ClearResponseKeeps, ClearRequestKeeps, FreeBuffKeeps, CloseKeeps DEF Cleanup
  <1> QED
    BY <1>1, <1>2, <1>3, <1>4, <1>5 DEF ServerNext

LEMMA StutterKeeps ==
  ASSUME IInv, UNCHANGED vars
  PROVE  IInv'
  <1>1. UNCHANGED <<request, netVars, pc, heapVars, replyVars>> /\ UNCHANGED <<sent, closed, aborted, taken>>
    BY DEF vars, clientVars
  <1>2. TypeOK'
    BY <1>1 DEF IInv, TypeOK, netVars, heapVars, replyVars
  <1>3. \A c \in Clients : sent'[c] >= sent[c]
    BY <1>1, ServerAssumption DEF IInv, TypeOK
  <1> QED
    BY <1>1, <1>2, <1>3, ClientKeeps

LEMMA Invariance == Spec => []IInv
  <1>1. IInv /\ [Next]_vars => IInv'
    BY ClientNextKeeps, ServerNextKeeps, StutterKeeps DEF Next
  <1> QED
    BY <1>1, Initially, PTL DEF Spec

-----------------------------------------------------------------------------
\* Whatever the clients do and whichever call fails, the variables of the accept loop and of
\* http_handle_connection stay in their types.
THEOREM TypeCorrect == Spec => []TypeOK
  <1>1. IInv => TypeOK
    BY DEF IInv
  <1> QED
    BY <1>1, Invariance, PTL

\* No connection, whichever of its calls fails, frees or reads a block it does not have: the
\* buffer that realloc moved and the body lent to an echo are never used after they are gone.
THEOREM HeapIsSafe == Spec => []HeapSafe
  <1>1. IInv => HeapSafe
    BY DEF IInv, HeapSound, HeapSafe
  <1> QED
    BY <1>1, Invariance, PTL

\* For any number of connections and any requests: between two connections the only blocks still
\* held are header strings of connections that failed before there was an answer, and paths that
\* posix_stat forgot on connections answered with a text instead of a file.
THEOREM ForgottenBlocksAreKnown == Spec => []OnlyForgottenBlocksStay
  <1>1. ASSUME IInv PROVE OnlyForgottenBlocksStay
    <2>1. ASSUME pc = "accept", NEW p \in live PROVE Forgotten(p[1], p[2])
      <3>1. p[1] \in Clients /\ serving = NoClient
        BY <1>1, <2>1 DEF IInv, TypeOK
      <3> QED
        BY <1>1, <3>1, ServerAssumption DEF IInv, HeapSound
    <2> QED
      BY <2>1 DEF OnlyForgottenBlocksStay
  <1> QED
    BY <1>1, Invariance, PTL

\* write_all sends all of a response however the kernel splits it up, and a connection on which
\* a call failed before there was a response gets nothing.
THEOREM WholeOrNone == Spec => []WholeResponseOrNone
  <1>1. IInv => WholeResponseOrNone
    BY DEF IInv, ProgressSound
  <1> QED
    BY <1>1, Invariance, PTL

\* No client is answered before it has sent the head and the body it announced, up to the limit,
\* or has closed.
THEOREM AnswersFollow == Spec => []AnswerFollowsRequest
  <1>1. IInv => AnswerFollowsRequest
    BY DEF IInv, AnswerSound
  <1> QED
    BY <1>1, Invariance, PTL

=============================================================================
