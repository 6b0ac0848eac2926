---------------------------- MODULE ResponseHead ----------------------------
(***************************************************************************)
(* Putting the head of a response together: http_send_response of          *)
(* src/src/http/http_response.c up to write_all.  A line is its length;    *)
(* snprintf returns the length a line would have, whether or not it fits.  *)
(***************************************************************************)
EXTENDS Integers

CONSTANTS
    HeadSize,    \* sizeof headers
    LastLine,    \* strlen of end_of_headers
    LineSizes,   \* the lengths the lines may have
    MaxExtra     \* bound: extra headers of a response

ASSUME HeadAssumption ==
    /\ HeadSize \in Nat /\ LastLine \in Nat /\ LastLine < HeadSize
    /\ LineSizes \subseteq Nat /\ MaxExtra \in Nat

VARIABLES
    at,        \* the line that comes next: "status", "type", "extra", "write", "refused"; "idle"
    left,      \* extra headers to come
    written,   \* h_written
    total      \* the length of all lines seen (history)

headVars == <<at, left, written, total>>

headersLimit == HeadSize - LastLine

HeadInit == at = "idle" /\ left = 0 /\ written = 0 /\ total = 0

\* A response is to be sent, with some extra headers.
Begin ==
    /\ at \in {"idle", "write", "refused"} /\ at' = "status"
    /\ left' \in 0..MaxExtra /\ written' = 0 /\ total' = 0

\* Seeded fault: a line may fill the buffer to the end.
Fits_NoReserve(size) == written + size < HeadSize

\* What snprintf says is compared with the room in front of the last line.
Fits(size) == size < headersLimit - written

Line(size, next) ==
    /\ total' = total + size
    /\ \/ Fits(size) /\ written' = written + size /\ at' = next
       \/ ~Fits(size) /\ at' = "refused" /\ UNCHANGED written

StatusLine == at = "status" /\ UNCHANGED left /\ \E n \in LineSizes : Line(n, "type")

\* Without a content type nothing is written, and the comparison is made all the same.
TypeLine == at = "type" /\ UNCHANGED left /\ \E n \in LineSizes \cup {0} : Line(n, "extra")

\* An extra header is measured before it is written, and compared twice.
ExtraLine ==
    /\ at = "extra" /\ left > 0 /\ left' = left - 1
    /\ \E n \in LineSizes :
          IF written + n + LastLine > HeadSize
          THEN at' = "refused" /\ total' = total + n /\ UNCHANGED written
          ELSE Line(n, "extra")

\* The last line, for which there is room; then the head is written to the socket.
EndLine ==
    /\ at = "extra" /\ left = 0
    /\ at' = "write" /\ written' = written + LastLine /\ total' = total + LastLine
    /\ UNCHANGED left

HeadNext == Begin \/ StatusLine \/ TypeLine \/ ExtraLine \/ EndLine

HeadSpec == HeadInit /\ [][HeadNext]_headVars

-----------------------------------------------------------------------------

\* The lengths are numbers.
HeadTypeOK ==
    /\ at \in {"idle", "status", "type", "extra", "write", "refused"}
    /\ left \in 0..MaxExtra /\ written \in Nat /\ total \in Nat

\* The head that goes to the socket is whole, down to its last line, and inside the buffer
\* with its terminator; and only a head that would not be is refused.
HeadIsWhole ==
    /\ at = "write" => written = total /\ written < HeadSize
    /\ at = "refused" => total + LastLine >= HeadSize
=============================================================================
