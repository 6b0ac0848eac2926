---------------------------- MODULE MCHttpServer ----------------------------
(***************************************************************************)
(* HttpServer with two clients.  Each kind of response body is there, a    *)
(* body that is announced and comes, and one that is announced and may not.*)
(***************************************************************************)
EXTENDS HttpServer, TLC

CONSTANTS c1, c2

Asks(route, tail, length) ==
    [head |-> 1, tail |-> tail, contentLength |-> length, route |-> route]

MCRequests ==
    {Asks("redirect", 0, 0), Asks("echo", 2, 2), Asks("echo", 0, 1),
     Asks("file", 0, 0), Asks("text", 1, 0)}

\* For liveness: a body that may not come, and responses longer
\* than the socket buffers at once.
MCLiveRequests == {Asks("echo", 1, 1), Asks("text", 0, 0)}

MCClients == {c1, c2}

\* Nothing tells the clients apart but their names.
ClientSymmetry == Permutations(MCClients)

=============================================================================
