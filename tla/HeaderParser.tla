---------------------------- MODULE HeaderParser ----------------------------
(***************************************************************************)
(* From the head of a request to its Content-Length:                       *)
(* http_parse_request_headers, the scan in http_parse_request and          *)
(* http_request_clear (src/src/http/http_parser.c, http_request.c).        *)
(*                                                                         *)
(* The buffer is a sequence of lines: the header fields, the blank line    *)
(* that ends the head, and what follows it in memory, which is body bytes  *)
(* that came along or whatever the buffer held before.  What the scan sees *)
(* of a line is its name, and the number atoll makes of its value; a line  *)
(* can also be read as the value of the line before it.  No line begins    *)
(* with blanks.                                                            *)
(***************************************************************************)
EXTENDS Naturals, Sequences

CONSTANTS
    Fields,      \* the lines there may be: records [name, colon, number, leads],
                 \* where atoll makes leads of the line from its first character on
    Beyond,      \* what atoll makes of the memory after the last line
    MaxFields,   \* bound: header fields of a request
    MaxRest,     \* bound: lines in memory after its head
    MaxHeaders   \* HTTP_MAX_HEADERS

\* A blank line: between the CR and the LF before it and its own there is nothing.
Blank == [name |-> "", colon |-> FALSE, number |-> 0, leads |-> 0]

\* The names strncmp(name, "Content-Length", 14) accepts, of those modelled.
LengthNames == {"Content-Length", "Content-Length-Hint"}

ASSUME ParserAssumption ==
    /\ MaxFields \in Nat /\ MaxRest \in Nat /\ MaxHeaders \in Nat \ {0}
    /\ Beyond \in Nat
    /\ \A f \in Fields :
          f.colon \in BOOLEAN /\ f.number \in Nat /\ f.leads \in Nat /\ f # Blank

VARIABLES
    text,           \* the lines of the buffer after the request line
    fields,         \* how many of them, the first ones, are the head's fields
    at,             \* the line header_start_ptr points to
    kept,           \* headers_tmp, then req->headers
    dropped,        \* headers_dropped
    strings,        \* names and values allocated and not freed
    stored,         \* req->headers is set: the strings can be reached
    noMemory,       \* a calloc failed (history)
    scanned,        \* headers the scan has passed
    contentLength,  \* content_len
    pc

vars == <<text, fields, at, kept, dropped, strings, stored, noMemory, scanned, contentLength, pc>>

Runs(n) == UNION {[1..k -> Fields] : k \in 0..n}

Init ==
    /\ \E head \in Runs(MaxFields), rest \in Runs(MaxRest) :
        text = head \o <<Blank>> \o rest /\ fields = Len(head)
    /\ at = 1 /\ kept = << >> /\ dropped = 0 /\ strings = 0 /\ stored = FALSE
    /\ noMemory = FALSE /\ scanned = 0 /\ contentLength = 0 /\ pc = "line"

-----------------------------------------------------------------------------
(* One iteration of the loop over the lines.                               *)

\* http_parse_request_line returns the index of the LF that ends the request
\* line, so the first line begins with that LF, and is not blank even when there
\* is no header field.
LineFeed(k) == k = 1

\* Seeded fault: only the end of the text ends the loop (header_end < 0).
EndOfHeaders_TextOnly == at > Len(text)

\* find_crlf(...) < 1: no more line ends in memory, or a blank line.
EndOfHeaders == at <= Len(text) => text[at] = Blank /\ ~LineFeed(at)

Stop ==
    /\ pc = "line" /\ EndOfHeaders
    /\ pc' = "array"
    /\ UNCHANGED <<text, fields, at, kept, dropped, strings, stored, noMemory, scanned, contentLength>>

\* Seeded fault: one header more than there is room for.
Full_OneMore == Len(kept) > MaxHeaders

Full == Len(kept) >= MaxHeaders

Drop ==
    /\ pc = "line" /\ ~EndOfHeaders
    /\ Full
    /\ at' = at + 1 /\ dropped' = dropped + 1
    /\ UNCHANGED <<text, fields, kept, strings, stored, noMemory, scanned, contentLength, pc>>

\* What atoll makes of the text that begins with line k: a blank line begins
\* with its CR.
Leads(k) == IF k <= Len(text) THEN text[k].leads ELSE Beyond

\* Without a colon the name is the whole line and its CR, and the length left for
\* the value, header_end+1-idx, is -1, as a size_t no limit: the value is the
\* line after it.
Parsed(k) ==
    [name |-> text[k].name, lf |-> LineFeed(k),
     number |-> IF text[k].colon THEN text[k].number ELSE Leads(k + 1)]

Take ==
    /\ pc = "line" /\ ~EndOfHeaders
    /\ ~Full
    /\ at' = at + 1
    /\ strings' = strings + 2
    /\ kept' = Append(kept, Parsed(at))
    /\ UNCHANGED <<text, fields, dropped, stored, noMemory, scanned, contentLength, pc>>

\* No memory for the name, or for the value after it: return at once.
TakeFails ==
    /\ pc = "line" /\ ~EndOfHeaders
    /\ ~Full
    /\ strings' \in {strings, strings + 1}
    /\ noMemory' = TRUE /\ pc' = "clear"
    /\ UNCHANGED <<text, fields, at, kept, dropped, stored, scanned, contentLength>>

\* The array that makes the strings reachable through *req.
Store ==
    /\ pc = "array"
    /\ \/ stored' = TRUE /\ pc' = "scan" /\ UNCHANGED noMemory
       \/ noMemory' = TRUE /\ pc' = "clear" /\ UNCHANGED stored
    /\ UNCHANGED <<text, fields, at, kept, dropped, strings, scanned, contentLength>>

\* The scan of http_parse_request for the Content-Length.
IsLength(h) == ~h.lf /\ h.name \in LengthNames

\* Seeded fault: the first header that matches counts.
ScanNext_KeepFirst ==
    /\ pc = "scan" /\ scanned < Len(kept)
    /\ scanned' = scanned + 1
    /\ contentLength' = IF IsLength(kept[scanned + 1]) /\ contentLength = 0
                        THEN kept[scanned + 1].number ELSE contentLength
    /\ UNCHANGED <<text, fields, at, kept, dropped, strings, stored, noMemory, pc>>

\* One iteration of the scan: the last header that matches counts.
ScanNext ==
    /\ pc = "scan" /\ scanned < Len(kept)
    /\ scanned' = scanned + 1
    /\ contentLength' = IF IsLength(kept[scanned + 1]) THEN kept[scanned + 1].number
                                                       ELSE contentLength
    /\ UNCHANGED <<text, fields, at, kept, dropped, strings, stored, noMemory, pc>>

ScanEnd ==
    /\ pc = "scan" /\ scanned >= Len(kept)
    /\ pc' = "clear"
    /\ UNCHANGED <<text, fields, at, kept, dropped, strings, stored, noMemory, scanned,
                   contentLength>>

\* Seeded fault: the values are not freed.
Clear_NamesOnly ==
    /\ pc = "clear"
    /\ strings' = (IF stored THEN strings - Len(kept) ELSE strings)
    /\ stored' = FALSE
    /\ pc' = "cleared"
    /\ UNCHANGED <<text, fields, at, kept, dropped, noMemory, scanned, contentLength>>

\* http_request_clear, once the request is handled or has failed to parse.
Clear ==
    /\ pc = "clear"
    /\ strings' = (IF stored THEN strings - 2 * Len(kept) ELSE strings)
    /\ stored' = FALSE
    /\ pc' = "cleared"
    /\ UNCHANGED <<text, fields, at, kept, dropped, noMemory, scanned, contentLength>>

-----------------------------------------------------------------------------
Next == Stop \/ Drop \/ Take \/ TakeFails \/ Store \/ ScanNext \/ ScanEnd \/ Clear

\* The parser calls nothing that blocks, and no allocation has to fail.
Spec == Init /\ [][Next]_vars /\ WF_vars(Next /\ noMemory' = noMemory)

-----------------------------------------------------------------------------
(* Properties. *)

\* Every variable stays in its type; the headers fit into headers_tmp, and the
\* loop accounts for every line it has passed.
TypeOK ==
    /\ Len(text) \in 1..(MaxFields + 1 + MaxRest) /\ fields \in 0..MaxFields
    /\ at \in 1..(Len(text) + 1)
    /\ Len(kept) <= MaxHeaders /\ Len(kept) + dropped = at - 1
    /\ strings \in Nat /\ stored \in BOOLEAN /\ noMemory \in BOOLEAN
    /\ scanned \in 0..Len(kept) /\ contentLength \in Nat
    /\ pc \in {"line", "array", "scan", "clear", "cleared"}

\* If the request has a header field, the loop ends at the blank line: every
\* header kept is a field of the head, in its place, and only the fields beyond
\* HTTP_MAX_HEADERS are dropped, whatever the body looks like.
HeadersComeFromTheHead ==
    fields > 0 =>
        /\ at <= fields + 1
        /\ \A k \in 1..Len(kept) : k <= fields /\ kept[k] = Parsed(k)
        /\ pc = "scan" => Len(kept) + dropped = fields

\* The length of the body to read is that of the last Content-Length among the
\* headers kept, but the first; without one it is zero, and no body is read.  A
\* Content-Length after HTTP_MAX_HEADERS fields, or in the body, has no effect.  If
\* that field has no colon, the length is the number its next line begins with,
\* which is zero if the next line is the blank one.
Announcing ==
    {k \in 2..fields : k <= MaxHeaders /\ text[k].name \in LengthNames}
LengthIsAnnounced ==
    pc \in {"clear", "cleared"} /\ ~noMemory /\ fields > 0 =>
        \/ Announcing = {} /\ contentLength = 0
        \/ \E k \in Announcing :
              /\ \A m \in Announcing : m <= k
              /\ contentLength = IF text[k].colon THEN text[k].number ELSE text[k + 1].leads

\* Clearing the request frees every name and value, provided that no allocation
\* of the parser failed; if one did, it frees none of them.
NoStringLost ==
    pc = "cleared" => IF noMemory THEN strings >= 2 * Len(kept) ELSE strings = 0

-----------------------------------------------------------------------------
(* What the documentation says and the code does not do. *)

\* "Index of first character after the request line": the headers parsed from
\* there on are the fields of the request, the first one and none included.
HeadersAreTheFields ==
    pc = "scan" => /\ Len(kept) <= fields
                   /\ \A k \in 1..Len(kept) : ~kept[k].lf

=============================================================================
