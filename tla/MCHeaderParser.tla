--------------------------- MODULE MCHeaderParser ---------------------------
(***************************************************************************)
(* HeaderParser with room for three headers: the two lengths tell which of   *)
(* two Content-Length fields counts, the hint is a name that only begins   *)
(* like it, one line has no colon, and "7: x" makes a number as the value  *)
(* of the line before it.                                                  *)
(***************************************************************************)
EXTENDS HeaderParser

Field(name, number) == [name |-> name, colon |-> TRUE, number |-> number, leads |-> 0]

MCFields ==
    {Field("Content-Length", 1), Field("Content-Length", 2),
     Field("Content-Length-Hint", 3), Field("content-length", 4),
     [name |-> "Content-Length", colon |-> FALSE, number |-> 0, leads |-> 0],
     [name |-> "7", colon |-> TRUE, number |-> 0, leads |-> 7]}

MCBareRequest == {Field("Host", 0)}

=============================================================================
