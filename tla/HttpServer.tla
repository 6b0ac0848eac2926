----------------------------- MODULE HttpServer -----------------------------
(***************************************************************************)
(* The server as a whole: the accept loop of src/src/server.c, and for     *)
(* each connection http_handle_connection of src/src/core/http_core.c with *)
(* what it calls (http_parse_request, adapter_http_app, http_send_response,*)
(* http_response_clear, http_request_clear), while any number of clients   *)
(* connect, send, read, close and reset.                                   *)
(*                                                                         *)
(* What is kept is who owns which heap block, which call may fail, and how *)
(* far the response got.  Reading a request is the atomic step that        *)
(* RequestIntake promises (RequestReader implements it); what the          *)
(* application answers is reduced to where the body of the response lives. *)
(***************************************************************************)
EXTENDS Naturals, Sequences

CONSTANTS
    Clients,    \* the clients that may connect, one connection each
    NoClient,   \* not a client
    Requests,   \* the requests they may send
    BodyMax,    \* HTTP_MAX_BODY_BUFFER
    SocketRoom  \* how much of a response the kernel buffers for a slow reader

ASSUME ServerAssumption ==
    /\ NoClient \notin Clients
    /\ BodyMax \in Nat
    /\ SocketRoom \in Nat \ {0}
    /\ \A r \in Requests :
        /\ r.head \in Nat \ {0} /\ r.tail \in Nat /\ r.contentLength \in Nat
        /\ r.route \in {"redirect", "echo", "file", "text"}

VARIABLES
    \* the clients and the kernel
    request,    \* what each client sends
    sent,       \* how much of it is on the wire
    closed,     \* the client closed its sending side
    aborted,    \* the connection was reset
    taken,      \* how much of the response the client has read
    conn,       \* the state of each connection
    backlog,    \* connections waiting for accept()
    \* the process
    serving,    \* the client whose connection is being handled
    pc,         \* where http_handle_connection is
    live,       \* the heap blocks allocated and not freed
    heapFault,  \* a block was freed or used that was not allocated
    buff,       \* the pointer buff of http_handle_connection
    fields,     \* the blocks *req points to
    bodyLen,    \* req->content_length
    res,        \* *res
    written,    \* how much of the response write() has taken, per client
    due,        \* the length of the response the application made (history)
    failed      \* the connections on which some call failed

clientVars == <<request, sent, closed, aborted, taken>>
netVars    == <<conn, backlog, serving>>
heapVars   == <<live, heapFault, buff, fields>>
replyVars  == <<bodyLen, res, written, due, failed>>
vars       == <<clientVars, netVars, pc, heapVars, replyVars>>

\* struct http_response after {0}.  A body is a heap block of this connection
\* or, when "static", text that is never freed.
NoResponse == [body |-> "none", owned |-> FALSE, extra |-> FALSE, length |-> 0]

Tokens == <<"method", "path", "version">>
Blocks == {"buff", "grown", "req", "method", "path", "version", "strings",
           "headers", "body", "text", "file", "extra", "statPath"}

Init ==
    /\ request \in [Clients -> Requests]
    /\ sent = [c \in Clients |-> 0] /\ taken = [c \in Clients |-> 0]
    /\ closed = [c \in Clients |-> FALSE] /\ aborted = [c \in Clients |-> FALSE]
    /\ conn = [c \in Clients |-> "idle"] /\ backlog = << >> /\ serving = NoClient
    /\ pc = "accept"
    /\ live = {} /\ heapFault = FALSE /\ buff = "none" /\ fields = {}
    /\ bodyLen = 0 /\ res = NoResponse
    /\ written = [c \in Clients |-> 0] /\ due = written /\ failed = {}

-----------------------------------------------------------------------------
(* The clients. *)

Connect(c) ==
    /\ conn[c] = "idle"
    /\ conn' = [conn EXCEPT ![c] = "queued"]
    /\ backlog' = Append(backlog, c)
    /\ UNCHANGED <<clientVars, serving, pc, heapVars, replyVars>>

ClientSend(c, n) ==
    /\ conn[c] # "idle" /\ ~closed[c] /\ ~aborted[c]
    /\ sent[c] + n <= request[c].head + request[c].tail
    /\ sent' = [sent EXCEPT ![c] = @ + n]
    /\ UNCHANGED <<request, closed, aborted, taken, netVars, pc, heapVars, replyVars>>

ClientTake(c) ==
    /\ taken[c] < written[c] /\ ~aborted[c]
    /\ taken' = [taken EXCEPT ![c] = @ + 1]
    /\ UNCHANGED <<request, sent, closed, aborted, netVars, pc, heapVars, replyVars>>

ClientClose(c) ==
    /\ conn[c] # "idle" /\ ~closed[c]
    /\ closed' = [closed EXCEPT ![c] = TRUE]
    /\ UNCHANGED <<request, sent, aborted, taken, netVars, pc, heapVars, replyVars>>

ClientAbort(c) ==
    /\ conn[c] # "idle" /\ ~aborted[c]
    /\ aborted' = [aborted EXCEPT ![c] = TRUE]
    /\ UNCHANGED <<request, sent, closed, taken, netVars, pc, heapVars, replyVars>>

-----------------------------------------------------------------------------
(* The heap.  The blocks of each connection are its own, so what one       *)
(* connection loses stays lost while the next is served.                   *)

Mine(names) == {<<serving, b>> : b \in names}

Alloc(name) == live' = live \cup Mine({name})

Free(names) ==
    /\ heapFault' = (heapFault \/ ~(Mine(names) \subseteq live))
    /\ live' = live \ Mine(names)

\* realloc: the old block is gone, the new one is elsewhere.
Elsewhere(name) == IF name = "buff" THEN "grown" ELSE "buff"

\* Seeded fault: the pointer realloc returned is not stored in *buffer.
MoveBuff_StalePointer(extra) ==
    /\ heapFault' = (heapFault \/ ~(Mine({buff}) \subseteq live))
    /\ live' = (live \ Mine({buff})) \cup Mine({Elsewhere(buff)} \cup extra)
    /\ buff' = buff

MoveBuff(extra) ==
    /\ heapFault' = (heapFault \/ ~(Mine({buff}) \subseteq live))
    /\ live' = (live \ Mine({buff})) \cup Mine({Elsewhere(buff)} \cup extra)
    /\ buff' = Elsewhere(buff)

KeepBuff(extra) ==
    /\ live' = live \cup Mine(extra)
    /\ UNCHANGED <<heapFault, buff>>

\* Reading: the buffer may move; extra is what is allocated on the way.
ReadInto(extra) == MoveBuff(extra) \/ KeepBuff(extra)

\* Seeded fault: http_handle_connection does not test what http_parse_request
\* returned after reading the head.
GiveUp_Unchecked(l) ==
    pc' = (IF pc = "head" THEN "handle" ELSE l) /\ failed' = failed \cup {serving}

\* Some call failed: on to the cleanup at label l.
GiveUp(l) == pc' = l /\ failed' = failed \cup {serving}

-----------------------------------------------------------------------------
(* server_start's loop and the two allocations of http_handle_connection.  *)

Accept ==
    /\ pc = "accept" /\ backlog # << >>
    /\ serving' = Head(backlog) /\ backlog' = Tail(backlog)
    /\ conn' = [conn EXCEPT ![Head(backlog)] = "serving"]
    /\ pc' = "buff"
    /\ UNCHANGED <<clientVars, heapVars, replyVars>>

AllocBuff ==
    /\ pc = "buff"
    /\ \/ Alloc("buff") /\ buff' = "buff" /\ pc' = "req" /\ UNCHANGED failed
       \/ GiveUp("close") /\ UNCHANGED <<live, buff>>
    /\ UNCHANGED <<clientVars, netVars, heapFault, fields, bodyLen, res, written, due>>

AllocReq ==
    /\ pc = "req"
    /\ \/ Alloc("req") /\ pc' = "head" /\ UNCHANGED failed
       \/ GiveUp("freeBuff") /\ UNCHANGED live
    /\ UNCHANGED <<clientVars, netVars, heapFault, buff, fields, bodyLen, res, written, due>>

-----------------------------------------------------------------------------
(* http_parse_request. *)

\* read_until_double_crlf: the head is in; the buffer may have been moved.
ReadHead ==
    /\ pc = "head"
    /\ sent[serving] >= request[serving].head /\ ~aborted[serving]
    /\ ReadInto({})
    /\ pc' = "line"
    /\ UNCHANGED <<clientVars, netVars, fields, replyVars>>

\* It gave up: the stream ended or broke, the buffer is full, no memory.
ReadHeadFails ==
    /\ pc = "head"
    /\ sent[serving] > 0 \/ closed[serving] \/ aborted[serving]
    /\ ReadInto({})
    /\ GiveUp("clearReq")
    /\ UNCHANGED <<clientVars, netVars, fields, bodyLen, res, written, due>>

\* http_parse_request_line: method, path and version, each its own block.
\* Each is stored in *req before the next is allocated.
ParseLine ==
    /\ pc = "line"
    /\ \E parsed \in 0..3 :
        LET new == {Tokens[i] : i \in 1..parsed} IN
        /\ live' = live \cup Mine(new)
        /\ fields' = fields \cup new
        /\ IF parsed = 3 THEN pc' = "headers" /\ UNCHANGED failed
                         ELSE GiveUp("clearReq")
    /\ UNCHANGED <<clientVars, netVars, heapFault, buff, bodyLen, res, written, due>>

\* http_parse_request_headers: the strings first, in a local array, and only at
\* the end the array in *req that makes them reachable.
ParseHeaders ==
    /\ pc = "headers"
    /\ live' = live \cup Mine({"strings", "headers"})
    /\ fields' = fields \cup {"strings", "headers"}
    /\ pc' = "body"
    /\ UNCHANGED <<clientVars, netVars, heapFault, buff, replyVars>>

ParseHeadersFails ==
    /\ pc = "headers"
    /\ live' \in {live, live \cup Mine({"strings"})}
    /\ GiveUp("clearReq")
    /\ UNCHANGED <<clientVars, netVars, heapFault, buff, fields, bodyLen, res, written, due>>

Intake == INSTANCE RequestIntake WITH
    request <- request[serving], sent <- sent[serving],
    closed <- closed[serving], aborted <- aborted[serving], outcome <- pc

Accepted(n) ==
    Intake!AcceptedBody(request[serving], sent[serving], closed[serving], n)

\* No Content-Length, or zero: http_parse_request returns at once.
NoBody ==
    /\ pc = "body" /\ request[serving].contentLength = 0
    /\ pc' = "handle"
    /\ UNCHANGED <<clientVars, netVars, heapVars, replyVars>>

\* read_body, which may move the buffer and copies the body to a block of its own.
ReadBody(n) ==
    /\ pc = "body" /\ request[serving].contentLength > 0 /\ ~aborted[serving]
    /\ Accepted(n)
    /\ bodyLen' = n
    /\ ReadInto({"body"})
    /\ fields' = fields \cup {"body"}
    /\ pc' = "handle"
    /\ UNCHANGED <<clientVars, netVars, res, written, due, failed>>

ReadBodyFails ==
    /\ pc = "body" /\ request[serving].contentLength > 0
    /\ ReadInto({})
    /\ GiveUp("clearReq")
    /\ UNCHANGED <<clientVars, netVars, fields, bodyLen, res, written, due>>

-----------------------------------------------------------------------------
(* adapter_http_app and the application behind it: where the response body *)
(* lives and who frees it.                                                 *)

Respond(r) ==
    /\ res' = r /\ due' = [due EXCEPT ![serving] = 1 + r.length]
    /\ pc' = "sendHead" /\ UNCHANGED failed

\* A redirect: no body, one Location header in an array on the heap, whose
\* value is a literal (every rule app_init adds is EXACT).
HandleRedirect ==
    /\ pc = "handle" /\ request[serving].route = "redirect"
    /\ \/ Alloc("extra") /\ Respond([NoResponse EXCEPT !.extra = TRUE])
       \/ GiveUp("clearRes") /\ UNCHANGED <<live, res, due>>
    /\ UNCHANGED <<clientVars, netVars, heapFault, buff, fields, bodyLen, written>>

\* handle_route_echo: the request's own body, lent; or a line of text, given.
Echoes == "body" \in fields /\ bodyLen > 0

HandleEcho ==
    /\ pc = "handle" /\ request[serving].route = "echo"
    /\ \/ /\ Echoes
          /\ Respond([NoResponse EXCEPT !.body = "body", !.length = bodyLen])
          /\ UNCHANGED live
       \/ /\ ~Echoes
          /\ Alloc("text")
          /\ Respond([NoResponse EXCEPT !.body = "text", !.owned = TRUE, !.length = 1])
       \/ ~Echoes /\ GiveUp("clearRes") /\ UNCHANGED <<live, res, due>>
    /\ UNCHANGED <<clientVars, netVars, heapFault, buff, fields, bodyLen, written>>

StaticText == [NoResponse EXCEPT !.body = "static", !.length = 1]

\* static_router_handle (module StaticRouter has the detail), whose answer depends on
\* the directory: the file's content in a block the response owns, of no byte if the
\* file was truncated after lstat; nothing for a file that was empty; text for what is
\* refused, too large, or not there, and then posix_stat forgets the path it made; or
\* an internal error.
HandleFile ==
    /\ pc = "handle" /\ request[serving].route = "file"
    /\ \/ /\ Alloc("file")
          /\ \E n \in {0, 2} :
                Respond([NoResponse EXCEPT !.body = "file", !.owned = TRUE, !.length = n])
       \/ Respond(NoResponse) /\ UNCHANGED live
       \/ Respond(StaticText) /\ UNCHANGED live
       \/ Respond(StaticText) /\ Alloc("statPath")
       \/ GiveUp("clearRes") /\ UNCHANGED <<live, res, due>>
    /\ UNCHANGED <<clientVars, netVars, heapFault, buff, fields, bodyLen, written>>

\* "Route not found", "API route not found", "Method not allowed": text from which no file
\* was asked for.
HandleText ==
    /\ pc = "handle" /\ request[serving].route = "text"
    /\ Respond(StaticText)
    /\ UNCHANGED <<clientVars, netVars, heapVars, bodyLen, written>>

-----------------------------------------------------------------------------
(* http_send_response: the head is one unit, then the body, by write_all.  *)
(* write() takes what fits in the socket's buffer and blocks when nothing  *)
(* does.  http_handle_connection ignores the result.                       *)

ResponseLength == 1 + res.length

WriteRoom(c) == SocketRoom - (written[c] - taken[c])

SendEnd == IF pc = "sendHead" THEN 1 ELSE ResponseLength

\* Seeded fault: one write() instead of write_all.
AfterSend_OneWrite(size) ==
    IF pc = "sendHead" /\ res.length > 0 THEN "sendBody" ELSE "clearRes"

AfterSend(size) ==
    IF size < SendEnd THEN pc
    ELSE IF pc = "sendHead" /\ res.length > 0 THEN "sendBody" ELSE "clearRes"

BodyBlocks == IF pc = "sendBody" /\ res.body # "static" THEN {res.body} ELSE {}

Write(n) ==
    /\ pc \in {"sendHead", "sendBody"} /\ ~aborted[serving]
    /\ n <= WriteRoom(serving) /\ written[serving] + n <= SendEnd
    /\ written' = [written EXCEPT ![serving] = @ + n]
    /\ pc' = AfterSend(written[serving] + n)
    /\ heapFault' = (heapFault \/ ~(Mine(BodyBlocks) \subseteq live))
    /\ UNCHANGED <<clientVars, netVars, live, buff, fields, bodyLen, res, due, failed>>

\* write() on a connection that was reset: an error that write_all returns, or
\* the signal SIGPIPE, which nothing in the program handles or blocks.
WriteError ==
    /\ pc \in {"sendHead", "sendBody"} /\ aborted[serving]
    /\ GiveUp("clearRes")
    /\ UNCHANGED <<clientVars, netVars, heapVars, bodyLen, res, written, due>>

WriteSignal ==
    /\ pc \in {"sendHead", "sendBody"} /\ aborted[serving]
    /\ pc' = "killed"
    /\ UNCHANGED <<clientVars, netVars, heapVars, replyVars>>

-----------------------------------------------------------------------------
(* The cleanup at the end of http_handle_connection, and close().          *)

\* Seeded fault: body_owned is ignored.
ClearResponse_KeepBody ==
    /\ pc = "clearRes"
    /\ Free(IF res.extra THEN {"extra"} ELSE {})
    /\ res' = NoResponse
    /\ pc' = "clearReq"
    /\ UNCHANGED <<clientVars, netVars, buff, fields, bodyLen, written, due, failed>>

\* http_response_clear: the array if owned, the body if owned.
ClearResponse ==
    /\ pc = "clearRes"
    /\ Free((IF res.extra THEN {"extra"} ELSE {}) \cup (IF res.owned THEN {res.body} ELSE {}))
    /\ res' = NoResponse
    /\ pc' = "clearReq"
    /\ UNCHANGED <<clientVars, netVars, buff, fields, bodyLen, written, due, failed>>

\* http_request_clear, then free(req): all that *req points to, and *req.
ClearRequest ==
    /\ pc = "clearReq"
    /\ Free(fields \cup {"req"})
    /\ fields' = {} /\ bodyLen' = 0
    /\ pc' = "freeBuff"
    /\ UNCHANGED <<clientVars, netVars, buff, res, written, due, failed>>

FreeBuff ==
    /\ pc = "freeBuff"
    /\ Free({buff})
    /\ buff' = "none"
    /\ pc' = "close"
    /\ UNCHANGED <<clientVars, netVars, fields, replyVars>>

\* Seeded faults: the accept loop ends when a handler reports an error; the
\* variable client_sock is used again for the next round.
CloseConnection_StopOnError ==
    /\ pc = "close"
    /\ conn' = [conn EXCEPT ![serving] = "done"]
    /\ serving' = NoClient
    /\ pc' = IF serving \in failed THEN "stopped" ELSE "accept"
    /\ UNCHANGED <<clientVars, backlog, heapVars, replyVars>>
CloseConnection_KeepSocket ==
    /\ pc = "close"
    /\ conn' = [conn EXCEPT ![serving] = "done"]
    /\ pc' = "accept"
    /\ UNCHANGED <<clientVars, backlog, serving, heapVars, replyVars>>

CloseConnection ==
    /\ pc = "close"
    /\ conn' = [conn EXCEPT ![serving] = "done"]
    /\ serving' = NoClient
    /\ pc' = "accept"
    /\ UNCHANGED <<clientVars, backlog, heapVars, replyVars>>

-----------------------------------------------------------------------------
ClientNext ==
    \E c \in Clients :
        \/ Connect(c) \/ ClientTake(c) \/ ClientClose(c) \/ ClientAbort(c)
        \/ \E n \in 1..(request[c].head + request[c].tail) : ClientSend(c, n)

Setup == Accept \/ AllocBuff \/ AllocReq

Parse ==
    \/ ReadHead \/ ReadHeadFails \/ ParseLine \/ ParseHeaders \/ ParseHeadersFails
    \/ NoBody \/ ReadBodyFails
    \/ \E n \in 0..BodyMax : ReadBody(n)

Handle == HandleRedirect \/ HandleEcho \/ HandleFile \/ HandleText

Send == WriteError \/ WriteSignal \/ \E n \in 1..SocketRoom : Write(n)

Cleanup == ClearResponse \/ ClearRequest \/ FreeBuff \/ CloseConnection

ServerNext == Setup \/ Parse \/ Handle \/ Send \/ Cleanup

Next == ClientNext \/ ServerNext

\* A read blocks until what it waits for has come or cannot come any more.
Unblocked ==
    /\ pc = "head" => \/ sent[serving] >= request[serving].head
                      \/ closed[serving] \/ aborted[serving]
    /\ pc = "body" => (\E n \in 0..BodyMax : Accepted(n)) \/ aborted[serving]

\* The one thread of the server runs whenever no call of it blocks.
Spec == Init /\ [][Next]_vars /\ WF_vars(Unblocked /\ ServerNext)

-----------------------------------------------------------------------------
(* Properties. *)

\* Every variable stays in its type, and the locals of http_handle_connection
\* exist only while a connection is handled.
TypeOK ==
    /\ request \in [Clients -> Requests]
    /\ \A f \in {sent, taken, written, due} : f \in [Clients -> Nat]
    /\ \A c \in Clients : sent[c] \in 0..(request[c].head + request[c].tail)
    /\ closed \in [Clients -> BOOLEAN] /\ aborted \in [Clients -> BOOLEAN]
    /\ conn \in [Clients -> {"idle", "queued", "serving", "done"}]
    /\ serving \in Clients \cup {NoClient} /\ (pc = "accept") = (serving = NoClient)
    /\ live \subseteq Clients \X Blocks /\ fields \subseteq Blocks
    /\ buff \in {"none", "buff", "grown"} /\ failed \subseteq Clients
    /\ bodyLen \in Nat /\ res.length \in Nat

\* No connection, however it ends and however its calls fail, frees a block
\* twice, frees one it does not have, reads into a buffer that realloc moved, or
\* sends a body (the request's own, for an echo) that was already freed.
HeapSafe == ~heapFault

\* Between two connections the server holds no heap block but the two kinds that it
\* forgets: the header strings of a connection on which parsing failed before
\* http_request_clear could see them, and the path of posix_stat of a connection
\* that asked for a file and was answered with a text.
Forgotten(c, b) ==
    \/ b = "strings" /\ c \in failed /\ due[c] = 0
    \/ b = "statPath" /\ request[c].route = "file" /\ due[c] = 1 + StaticText.length
OnlyForgottenBlocksStay ==
    pc = "accept" => \A b \in live : Forgotten(b[1], b[2])

\* A connection that was not reset gets the whole response or, when some call
\* failed before there was one, nothing: never a part, and never nothing
\* without a failure.
WholeResponseOrNone ==
    \A c \in Clients : conn[c] = "done" /\ ~aborted[c] =>
        written[c] = IF c \in failed THEN 0 ELSE due[c]

\* No byte of a response is written before the client has sent the head and the
\* body it announced, up to the limit, or has closed; so no client is answered
\* on half a request.
BodyDue(c) == IF request[c].contentLength <= BodyMax THEN request[c].contentLength ELSE BodyMax
NothingMoreDue(c) == closed[c] \/ aborted[c] \/ sent[c] >= request[c].head + BodyDue(c)
AnswerFollowsRequest ==
    \A c \in Clients : written[c] > 0 => sent[c] >= request[c].head /\ NothingMoreDue(c)

\* Every connection accepted by the kernel is eventually handled and closed, one
\* after the other, provided that every connected client finishes its request
\* (or closes, or is reset) and reads its response: one thread, no timeouts.  A
\* connection also counts as ended when SIGPIPE, raised by a write to a client that
\* reset its connection, kills the process and with it every connection there is.
Cooperative ==
    \A c \in Clients :
        /\ [](conn[c] # "idle" => <>NothingMoreDue(c))
        /\ []<>(aborted[c] \/ taken[c] = written[c])
Ended(c) == conn[c] = "done" \/ pc = "killed"
EveryoneServed == Cooperative => \A c \in Clients : conn[c] = "queued" ~> Ended(c)

\* The view of a client: lines, answers and ends, without the statements in between.
Service == INSTANCE ConnectionService WITH running <- pc # "killed"

\* Clients are served in the order in which they came, each with the whole answer to the
\* whole request, the body sent back to an echo included, or with none for a reason.
ImplementsService == Service!Spec

-----------------------------------------------------------------------------
(* What the documentation says and the code does not do. *)

\* "On any other error, the function stops and returns -1": writing to a client
\* that is gone ends the connection, not the process.
WriteErrorsAreReturned == pc # "killed"

=============================================================================
