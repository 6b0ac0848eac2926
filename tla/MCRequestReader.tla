--------------------------- MODULE MCRequestReader ---------------------------
(***************************************************************************)
(* RequestReader on a buffer of 4-byte chunks, at most three of them, and  *)
(* heads from the shortest one up to one byte over the largest.            *)
(***************************************************************************)
EXTENDS RequestReader

MCRequests ==
    [head : {4, 5, 12, 13}, tail : {0, 5, 16}, contentLength : {0, 3, 30}]

\* A head that fits in the first chunk but for one byte, and no body.
MCShortHeads == {[head |-> 5, tail |-> 0, contentLength |-> 0]}

=============================================================================
