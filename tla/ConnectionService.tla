--------------------------- MODULE ConnectionService ---------------------------
(***************************************************************************)
(* What the server promises its clients, without the heap, the buffers and *)
(* the statements of http_handle_connection: connections are served one    *)
(* after the other in the order in which they came; an answer is decided   *)
(* on once the request is there, and an echo is exactly the body that      *)
(* came; and a connection ends with the whole answer, or with nothing      *)
(* because some call failed before there was one, or because it was reset. *)
(* HttpServer implements it.                                               *)
(***************************************************************************)
EXTENDS Naturals, Sequences

CONSTANTS
    Clients,    \* the clients that may connect, one connection each
    Requests,   \* the requests they may send
    BodyMax     \* HTTP_MAX_BODY_BUFFER

VARIABLES
    request, sent, closed, aborted,   \* the clients, as in HttpServer
    conn,                             \* the state of each connection
    backlog,                          \* connections that wait, the first one first
    due,                              \* the length of the answer decided on, or 0
    written,                          \* how much of it is written
    failed,                           \* the connections on which a call failed
    running                           \* the process has not been killed

clients == <<request, sent, closed, aborted>>
service == <<clients, conn, backlog, due, written, failed, running>>

Init ==
    /\ request \in [Clients -> Requests]
    /\ sent = [c \in Clients |-> 0] /\ written = sent /\ due = sent
    /\ closed = [c \in Clients |-> FALSE] /\ aborted = closed
    /\ conn = [c \in Clients |-> "idle"] /\ backlog = << >>
    /\ failed = {} /\ running = TRUE

\* What a client has promised to the kernel it cannot take back.
ClientStep ==
    /\ request' = request
    /\ \A c \in Clients :
        /\ sent'[c] >= sent[c] /\ (closed[c] \/ aborted[c] => sent'[c] = sent[c])
        /\ (closed[c] => closed'[c]) /\ (aborted[c] => aborted'[c])
    /\ UNCHANGED <<conn, backlog, due, written, failed, running>>

Connect(c) ==
    /\ conn[c] = "idle"
    /\ conn' = [conn EXCEPT ![c] = "queued"]
    /\ backlog' = Append(backlog, c)
    /\ UNCHANGED <<clients, due, written, failed, running>>

\* The next one's turn comes when nobody is served.
Begin ==
    /\ running /\ backlog # << >> /\ \A c \in Clients : conn[c] # "serving"
    /\ conn' = [conn EXCEPT ![Head(backlog)] = "serving"]
    /\ backlog' = Tail(backlog)
    /\ UNCHANGED <<clients, due, written, failed, running>>

Serving(c) == running /\ conn[c] = "serving"

\* The body that the answer is made from, as RequestIntake promises it.
Intake(c) == INSTANCE RequestIntake WITH
    request <- request[c], sent <- sent[c], closed <- closed[c], aborted <- aborted[c],
    outcome <- conn[c], bodyLen <- due[c]

\* The head counts as one.
AnswerLengths(r, n) == IF r.route = "echo" /\ n > 0 THEN {1 + n} ELSE Nat \ {0}

Decide(c) ==
    /\ Serving(c) /\ due[c] = 0 /\ c \notin failed
    /\ \E n \in 0..BodyMax :
        /\ Intake(c)!AcceptedBody(request[c], sent[c], closed[c], n)
        /\ due'[c] \in AnswerLengths(request[c], n)
    /\ due' = [due EXCEPT ![c] = due'[c]]
    /\ UNCHANGED <<clients, conn, backlog, written, failed, running>>

Give(c) ==
    /\ Serving(c) /\ c \notin failed /\ ~aborted[c]
    /\ written'[c] \in (written[c] + 1)..due[c]
    /\ written' = [written EXCEPT ![c] = written'[c]]
    /\ UNCHANGED <<clients, conn, backlog, due, failed, running>>

\* A call fails: before there is an answer, or because the connection was reset.
Fail(c) ==
    /\ Serving(c) /\ c \notin failed
    /\ due[c] = 0 \/ aborted[c]
    /\ failed' = failed \cup {c}
    /\ UNCHANGED <<clients, conn, backlog, due, written, running>>

End(c) ==
    /\ Serving(c)
    /\ c \in failed \/ (due[c] > 0 /\ written[c] = due[c])
    /\ conn' = [conn EXCEPT ![c] = "done"]
    /\ UNCHANGED <<clients, backlog, due, written, failed, running>>

\* The signal of a write to a connection that was reset.
Die(c) ==
    /\ Serving(c) /\ aborted[c] /\ due[c] > 0
    /\ running' = FALSE
    /\ UNCHANGED <<clients, conn, backlog, due, written, failed>>

Next ==
    \/ ClientStep \/ Begin
    \/ \E c \in Clients : Connect(c) \/ Decide(c) \/ Give(c) \/ Fail(c) \/ End(c) \/ Die(c)

Spec == Init /\ [][Next]_service

=============================================================================
