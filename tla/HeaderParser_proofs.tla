------------------------- MODULE HeaderParser_proofs -------------------------
(***************************************************************************)
(* Proofs about HeaderParser for every limit, every set of fields and any  *)
(* number of them: the headers come from the head, the length is the one   *)
(* announced, and nothing is lost but on an allocation failure.            *)
(***************************************************************************)
EXTENDS HeaderParser, TLAPS

\* The buffer: the fields of the head, none of them blank, then a blank line.
TextSound ==
    /\ text \in Seq(Fields \cup {Blank})
    /\ fields \in Nat /\ fields + 1 <= Len(text)
    /\ Len(text) <= MaxFields + 1 + MaxRest /\ fields <= MaxFields
    /\ \A k \in 1..fields : text[k] # Blank
    /\ text[fields + 1] = Blank

\* What the loop can make of the lines.
Parsable == {Parsed(k) : k \in 1..Len(text)}

\* The loop: where it is, what it has kept and what it has dropped.
LoopSound ==
    /\ at \in Nat /\ at >= 1 /\ at <= Len(text) + 1
    /\ kept \in Seq(Parsable)
    /\ dropped \in Nat
    /\ Len(kept) <= MaxHeaders /\ Len(kept) + dropped = at - 1
    /\ dropped > 0 => Len(kept) = MaxHeaders
    /\ \A k \in 1..Len(kept) : kept[k] = Parsed(k)
    /\ fields > 0 => at <= fields + 1
    /\ (fields > 0 /\ pc \in {"array", "scan"}) => at = fields + 1

\* The strings: two for each header kept, until the request is cleared.
StringsSound ==
    /\ strings \in Nat /\ stored \in BOOLEAN /\ noMemory \in BOOLEAN
    /\ pc \in {"line", "array", "scan", "clear", "cleared"}
    /\ pc \in {"line", "array"} => strings = 2 * Len(kept) /\ ~stored /\ ~noMemory
    /\ pc = "scan" => strings = 2 * Len(kept) /\ stored /\ ~noMemory
    /\ pc = "clear" => /\ noMemory => ~stored /\ strings >= 2 * Len(kept)
                       /\ ~noMemory => stored /\ strings = 2 * Len(kept)
    /\ pc = "cleared" => IF noMemory THEN strings >= 2 * Len(kept) ELSE strings = 0

\* The headers among the first n kept that the scan takes for a Content-Length.
Matching(n) == {k \in 1..n : IsLength(kept[k])}

\* The scan: the last match so far has set the length.
ScanSound ==
    /\ scanned \in Nat /\ scanned <= Len(kept) /\ contentLength \in Nat
    /\ pc \in {"line", "array"} => scanned = 0 /\ contentLength = 0
    /\ \/ Matching(scanned) = {} /\ contentLength = 0
       \/ \E k \in Matching(scanned) :
            /\ \A m \in Matching(scanned) : m <= k
            /\ contentLength = kept[k].number
    /\ pc \in {"clear", "cleared"} /\ ~noMemory =>
            scanned = Len(kept) /\ (fields > 0 => at = fields + 1)

IInv == TextSound /\ LoopSound /\ StringsSound /\ ScanSound

-----------------------------------------------------------------------------
(* Initially. *)

\* The buffer of an initial state is one head, a blank line and what follows.
LEMMA InitInv == Init => IInv
<1> SUFFICES ASSUME Init PROVE IInv
  OBVIOUS
<1> USE ParserAssumption
<1>1. TextSound
  <2>1. PICK head \in Runs(MaxFields), rest \in Runs(MaxRest) :
            text = head \o <<Blank>> \o rest /\ fields = Len(head)
    BY DEF Init
  <2>2. PICK n \in 0..MaxFields : head \in [1..n -> Fields]
    BY DEF Runs
  <2>3. PICK m \in 0..MaxRest : rest \in [1..m -> Fields]
    BY DEF Runs
  <2>4. head \in Seq(Fields \cup {Blank}) /\ Len(head) = n
    BY <2>2
  <2>5. rest \in Seq(Fields \cup {Blank}) /\ Len(rest) = m
    BY <2>3
  <2>6. <<Blank>> \in Seq(Fields \cup {Blank}) /\ Len(<<Blank>>) = 1 /\ <<Blank>>[1] = Blank
    OBVIOUS
  <2>7. /\ text \in Seq(Fields \cup {Blank}) /\ Len(text) = n + 1 + m
        /\ \A k \in 1..n : text[k] = head[k]
        /\ text[n + 1] = Blank
    <3> DEFINE start == head \o <<Blank>>
    <3> HIDE DEF Blank
    <3>1. /\ start \in Seq(Fields \cup {Blank}) /\ Len(start) = n + 1
          /\ \A k \in 1..n : start[k] = head[k]
          /\ start[n + 1] = Blank
      BY <2>4, <2>6
    <3>2. text = start \o rest
      BY <2>1
    <3> HIDE DEF start
    <3>3. text \in Seq(Fields \cup {Blank}) /\ Len(text) = n + 1 + m
      <4> DEFINE Line == Fields \cup {Blank}
      <4>1. start \in Seq(Line) /\ rest \in Seq(Line)
        BY <3>1, <2>5
      <4> HIDE DEF Line
      <4>2. start \o rest \in Seq(Line) /\ Len(start \o rest) = Len(start) + Len(rest)
        BY <4>1
      <4>3. text \in Seq(Line) /\ Len(text) = Len(start) + Len(rest)
        BY <3>2, <4>2
      <4> QED
        BY <4>3, <3>1, <2>5 DEF Line
    <3>4. \A k \in 1..Len(start) : text[k] = start[k]
      BY <3>1, <3>2, <2>5
    <3> QED
      BY <3>1, <3>3, <3>4
  <2>8. \A k \in 1..n : head[k] # Blank
    BY <2>2
  <2> QED
    BY <2>1, <2>4, <2>7, <2>8 DEF TextSound
<1>2. LoopSound
  BY <1>1 DEF Init, LoopSound, TextSound
<1>3. StringsSound
  <2>1. Len(kept) = 0 /\ 2 * 0 = 0 /\ 0 \in Nat
    BY DEF Init
  <2>2. strings = 2 * Len(kept)
    BY <2>1 DEF Init
  <2>3. strings \in Nat /\ pc = "line" /\ noMemory = FALSE /\ stored = FALSE
    BY DEF Init
  <2> QED
    BY <2>2, <2>3 DEF StringsSound
<1>4. ScanSound
  BY DEF Init, ScanSound, Matching
<1> QED
  BY <1>1, <1>2, <1>3, <1>4 DEF IInv

-----------------------------------------------------------------------------
(* Every step. *)

\* A header of the loop holds a number.
LEMMA NumberOfHeader ==
  ASSUME TextSound, LoopSound, NEW k \in 1..Len(kept)
  PROVE  kept[k] = Parsed(k) /\ kept[k].number \in Nat
<1>1. k \in 1..Len(text) /\ kept[k] = Parsed(k)
  BY ParserAssumption DEF LoopSound, TextSound
<1>2. text[k] \in Fields \cup {Blank}
  BY <1>1 DEF TextSound
<1>3. Blank.number \in Nat /\ Blank.leads \in Nat
  BY DEF Blank
<1>4. text[k].number \in Nat
  BY Zenon, <1>2, <1>3, ParserAssumption
<1>5. Leads(k + 1) \in Nat
  <2>1. CASE k + 1 <= Len(text)
    <3>1. text[k + 1] \in Fields \cup {Blank}
      BY <1>1, <2>1 DEF TextSound
    <3>2. text[k + 1].leads \in Nat
      BY Zenon, <3>1, <1>3, ParserAssumption
    <3> QED
      BY <2>1, <3>2 DEF Leads
  <2>2. CASE ~(k + 1 <= Len(text))
    BY <2>2, ParserAssumption DEF Leads
  <2> QED
    BY <2>1, <2>2
<1> QED
  BY <1>1, <1>4, <1>5 DEF Parsed

\* What the steps that leave the buffer alone keep.
LEMMA TextStays ==
  ASSUME TextSound, UNCHANGED <<text, fields>>
  PROVE  /\ TextSound' /\ Parsable' = Parsable
         /\ \A k \in Nat : Parsed(k)' = Parsed(k)
BY DEF TextSound, Parsable, Parsed, Leads, Blank, LineFeed

\* The steps that leave what the loop has done alone.
LEMMA LoopStays ==
  ASSUME TextSound, LoopSound, UNCHANGED <<text, fields, at, kept, dropped>>,
         pc' \in {"array", "scan"} => pc \in {"array", "scan"}
  PROVE  LoopSound'
BY TextStays DEF LoopSound, Parsed, Leads, LineFeed, Parsable

\* The steps that leave what the scan has done alone.
LEMMA ScanStays ==
  ASSUME ScanSound, UNCHANGED <<fields, at, kept, scanned, contentLength>>,
         pc' = "line" => pc = "line",
         pc' = "array" => pc \in {"line", "array"},
         pc' \in {"clear", "cleared"} /\ ~noMemory' =>
             \/ pc \in {"clear", "cleared"} /\ ~noMemory
             \/ scanned = Len(kept) /\ (fields > 0 => at = fields + 1)
  PROVE  ScanSound'
BY DEF ScanSound, Matching, IsLength

\* The loop stops on the blank line if there is a field.
LEMMA StopInv == IInv /\ Stop => IInv'
<1> SUFFICES ASSUME IInv, Stop PROVE IInv'
  OBVIOUS
<1> USE DEF IInv, Stop
<1>1. TextSound'
  BY TextStays
<1>2. LoopSound'
  <2>1. fields > 0 => at = fields + 1
    <3> SUFFICES ASSUME fields > 0 PROVE at = fields + 1
      OBVIOUS
    <3>1. at \in 1..(fields + 1) /\ fields + 1 <= Len(text)
      BY DEF LoopSound, TextSound
    <3>2. text[at] = Blank
      BY <3>1 DEF EndOfHeaders, TextSound
    <3> QED
      BY <3>1, <3>2 DEF TextSound
  <2> QED
    BY <2>1, TextStays DEF LoopSound, Parsed, Leads, LineFeed, Parsable
<1>3. StringsSound'
  BY DEF StringsSound
<1>4. ScanSound'
  BY ScanStays
<1> QED
  BY <1>1, <1>2, <1>3, <1>4

\* A line that does not end the loop is before the end of the text, and, if
\* there are fields, before the blank line.
LEMMA NotTheEnd ==
  ASSUME TextSound, LoopSound, ~EndOfHeaders
  PROVE  at <= Len(text) /\ (fields > 0 => at + 1 <= fields + 1)
<1>1. at <= Len(text) /\ ~(text[at] = Blank /\ ~LineFeed(at))
  BY DEF EndOfHeaders, LoopSound, TextSound
<1>2. ASSUME fields > 0 PROVE at # fields + 1
  BY <1>1, <1>2 DEF TextSound, LineFeed
<1> QED
  BY <1>1, <1>2 DEF LoopSound, TextSound

\* A line is dropped only when the array is full.
LEMMA DropInv == IInv /\ Drop => IInv'
<1> SUFFICES ASSUME IInv, Drop PROVE IInv'
  OBVIOUS
<1> USE DEF IInv, Drop
<1>1. TextSound'
  BY TextStays
<1>2. LoopSound'
  <2>1. at <= Len(text) /\ (fields > 0 => at + 1 <= fields + 1)
    BY NotTheEnd
  <2>2. Len(kept) = MaxHeaders
    BY ParserAssumption DEF LoopSound, Full
  <2>3. \A k \in 1..Len(kept') : kept'[k] = Parsed(k)'
    BY TextStays DEF LoopSound
  <2>4. kept' \in Seq(Parsable')
    BY TextStays DEF LoopSound
  <2> QED
    BY <2>1, <2>2, <2>3, <2>4 DEF LoopSound, TextSound
<1>3. StringsSound'
  BY DEF StringsSound
<1>4. ScanSound'
  BY DEF ScanSound, Matching, IsLength
<1> QED
  BY <1>1, <1>2, <1>3, <1>4

\* A header more, of the line the loop is at, and two strings more.
LEMMA TakeInv == IInv /\ Take => IInv'
<1> SUFFICES ASSUME IInv, Take PROVE IInv'
  OBVIOUS
<1> USE DEF IInv, Take
<1>1. TextSound'
  BY TextStays
<1>2. LoopSound'
  <2>1. at <= Len(text) /\ (fields > 0 => at + 1 <= fields + 1)
    BY NotTheEnd
  <2>2. dropped = 0 /\ Len(kept) = at - 1 /\ Len(kept) + 1 <= MaxHeaders
    BY ParserAssumption DEF LoopSound, Full
  <2>3. Parsed(at) \in Parsable
    BY <2>1 DEF Parsable, LoopSound, TextSound
  <2>4. /\ kept' \in Seq(Parsable) /\ Len(kept') = at
        /\ kept'[at] = Parsed(at)
        /\ \A k \in 1..Len(kept) : kept'[k] = kept[k]
    BY <2>2, <2>3 DEF LoopSound
  <2>5. \A k \in 1..Len(kept') : kept'[k] = Parsed(k)
    BY <2>2, <2>4 DEF LoopSound
  <2>6. \A k \in 1..Len(kept') : kept'[k] = Parsed(k)'
    BY <2>5 DEF Parsed, Leads, LineFeed
  <2>7. kept' \in Seq(Parsable')
    BY <2>4, TextStays
  <2> QED
    BY <2>1, <2>2, <2>4, <2>6, <2>7 DEF LoopSound, TextSound
<1>3. StringsSound'
  BY ParserAssumption DEF StringsSound, LoopSound
<1>4. ScanSound'
  BY ParserAssumption DEF ScanSound, Matching, LoopSound
<1> QED
  BY <1>1, <1>2, <1>3, <1>4

\* A failed allocation leaves at least the strings of the headers kept.
LEMMA TakeFailsInv == IInv /\ TakeFails => IInv'
<1> SUFFICES ASSUME IInv, TakeFails PROVE IInv'
  OBVIOUS
<1> USE DEF IInv, TakeFails
<1>1. TextSound'
  BY TextStays
<1>2. LoopSound'
  BY LoopStays
<1>3. StringsSound'
  BY DEF StringsSound, LoopSound
<1>4. ScanSound'
  BY ScanStays
<1> QED
  BY <1>1, <1>2, <1>3, <1>4

\* The strings become reachable, or memory is short again.
LEMMA StoreInv == IInv /\ Store => IInv'
<1> SUFFICES ASSUME IInv, Store PROVE IInv'
  OBVIOUS
<1> USE DEF IInv, Store
<1>1. TextSound'
  BY TextStays
<1>2. LoopSound'
  BY LoopStays
<1>3. StringsSound'
  <2>1. Len(kept) \in Nat
    BY DEF LoopSound
  <2>2. CASE stored' = TRUE /\ pc' = "scan" /\ UNCHANGED noMemory
    BY <2>1, <2>2 DEF StringsSound
  <2>3. CASE noMemory' = TRUE /\ pc' = "clear" /\ UNCHANGED stored
    BY <2>1, <2>3 DEF StringsSound
  <2> QED
    BY <2>2, <2>3
<1>4. ScanSound'
  BY ScanStays
<1> QED
  BY <1>1, <1>2, <1>3, <1>4

\* One header more is scanned: it is the last match or changes nothing.
LEMMA ScanNextInv == IInv /\ ScanNext => IInv'
<1> SUFFICES ASSUME IInv, ScanNext PROVE IInv'
  OBVIOUS
<1> USE DEF IInv, ScanNext
<1>1. TextSound'
  BY TextStays
<1>2. LoopSound'
  BY LoopStays
<1>3. StringsSound'
  BY DEF StringsSound
<1>4. ScanSound'
  <2> DEFINE n == scanned + 1
  <2>1. n \in 1..Len(kept) /\ scanned \in Nat
    BY DEF ScanSound, LoopSound
  <2>2. kept[n].number \in Nat
    BY <2>1, NumberOfHeader
  <2>4. scanned' \in Nat /\ scanned' <= Len(kept') /\ contentLength' \in Nat
    BY <2>1, <2>2 DEF ScanSound, LoopSound
  <2>5. \/ Matching(n) = {} /\ contentLength' = 0
        \/ \E k \in Matching(n) :
              /\ \A m \in Matching(n) : m <= k
              /\ contentLength' = kept[k].number
    <3>1. CASE IsLength(kept[n])
      <4>1. n \in Matching(n) /\ \A m \in Matching(n) : m <= n
        BY <2>1, <3>1 DEF Matching
      <4> QED
        BY <3>1, <4>1
    <3>2. CASE ~IsLength(kept[n])
      <4>1. Matching(n) = Matching(scanned)
        BY <2>1, <3>2 DEF Matching
      <4> QED
        BY <3>2, <4>1 DEF ScanSound
    <3> QED
      BY <3>1, <3>2
  <2>6. \/ Matching(scanned)' = {} /\ contentLength' = 0
        \/ \E k \in Matching(scanned)' :
              /\ \A m \in Matching(scanned)' : m <= k
              /\ contentLength' = (kept[k].number)'
    <3>1. Matching(scanned)' = Matching(n)
      BY DEF Matching, IsLength
    <3> QED
      BY <3>1, <2>5
  <2> QED
    BY <2>4, <2>6 DEF ScanSound
<1> QED
  BY <1>1, <1>2, <1>3, <1>4

\* The scan has passed every header.
LEMMA ScanEndInv == IInv /\ ScanEnd => IInv'
<1> SUFFICES ASSUME IInv, ScanEnd PROVE IInv'
  OBVIOUS
<1> USE DEF IInv, ScanEnd
<1>1. TextSound'
  BY TextStays
<1>2. LoopSound'
  BY LoopStays
<1>3. StringsSound'
  BY DEF StringsSound
<1>4. ScanSound'
  <2>1. scanned = Len(kept) /\ (fields > 0 => at = fields + 1)
    BY DEF ScanSound, LoopSound
  <2> QED
    BY <2>1, ScanStays
<1> QED
  BY <1>1, <1>2, <1>3, <1>4

\* What is reachable is freed, two strings for each header.
LEMMA ClearInv == IInv /\ Clear => IInv'
<1> SUFFICES ASSUME IInv, Clear PROVE IInv'
  OBVIOUS
<1> USE DEF IInv, Clear
<1>1. TextSound'
  BY TextStays
<1>2. LoopSound'
  BY LoopStays
<1>3. StringsSound'
  <2>1. Len(kept) \in Nat
    BY DEF LoopSound
  <2>2. CASE noMemory
    BY <2>1, <2>2 DEF StringsSound
  <2>3. CASE ~noMemory
    <3>1. stored /\ strings = 2 * Len(kept)
      BY <2>3 DEF StringsSound
    <3>2. strings' = strings - strings
      BY <3>1
    <3>3. strings' = 0
      BY <3>2 DEF StringsSound
    <3>4. ~noMemory' /\ noMemory' \in BOOLEAN /\ stored' \in BOOLEAN /\ pc' = "cleared"
      BY <2>3 DEF StringsSound
    <3>5. strings' \in Nat
      BY <3>3
    <3> HIDE DEF IInv, Clear
    <3> QED
      BY <3>3, <3>4, <3>5 DEF StringsSound
  <2> QED
    BY <2>2, <2>3
<1>4. ScanSound'
  BY ScanStays
<1> QED
  BY <1>1, <1>2, <1>3, <1>4

\* Doing nothing keeps everything.
LEMMA StutterInv == IInv /\ UNCHANGED vars => IInv'
<1> SUFFICES ASSUME IInv, UNCHANGED vars PROVE IInv'
  OBVIOUS
<1> USE DEF IInv, vars
<1>1. TextSound'
  BY TextStays
<1>2. LoopSound'
  BY LoopStays
<1>3. StringsSound'
  BY DEF StringsSound
<1>4. ScanSound'
  BY ScanStays
<1> QED
  BY <1>1, <1>2, <1>3, <1>4

-----------------------------------------------------------------------------
(* The theorems. *)

\* The inductive invariant: the loop has kept a prefix of the lines and owns two
\* strings for each, and the scan has found the last match of what it has passed.
THEOREM Invariance == Spec => []IInv
<1>1. IInv /\ [Next]_vars => IInv'
  BY StopInv, DropInv, TakeInv, TakeFailsInv, StoreInv, ScanNextInv, ScanEndInv,
     ClearInv, StutterInv DEF Next
<1> QED
  BY InitInv, <1>1, PTL DEF Spec

\* headers_tmp never overflows, whatever the limits and the head.
THEOREM TypeCorrect == Spec => []TypeOK
<1>1. IInv => TypeOK
  BY ParserAssumption
     DEF IInv, TypeOK, TextSound, LoopSound, StringsSound, ScanSound
<1> QED
  BY <1>1, Invariance, PTL

\* With a field in the head, no header is made of the body or of old memory.
THEOREM HeadersOfTheHead == Spec => []HeadersComeFromTheHead
<1>1. IInv => HeadersComeFromTheHead
  BY DEF IInv, HeadersComeFromTheHead, TextSound, LoopSound
<1> QED
  BY <1>1, Invariance, PTL

\* The length of the body is that of the last Content-Length the limit lets in, or
\* what its next line begins with if it has no colon.
THEOREM LengthOfTheBody == Spec => []LengthIsAnnounced
<1>1. IInv => LengthIsAnnounced
  <2> SUFFICES ASSUME IInv, pc \in {"clear", "cleared"}, ~noMemory, fields > 0
               PROVE  \/ Announcing = {} /\ contentLength = 0
                      \/ \E k \in Announcing :
                            /\ \A m \in Announcing : m <= k
                            /\ contentLength = IF text[k].colon THEN text[k].number
                                                               ELSE text[k + 1].leads
    BY DEF LengthIsAnnounced
  <2>1. scanned = Len(kept) /\ Len(kept) + dropped = fields
    BY DEF IInv, ScanSound, LoopSound, TextSound
  <2>2. /\ Len(kept) \in Nat /\ Len(kept) <= fields /\ Len(kept) <= MaxHeaders
        /\ Len(kept) < fields => Len(kept) = MaxHeaders
    BY <2>1, ParserAssumption DEF IInv, LoopSound, TextSound
  <2>3. \A k \in 1..Len(kept) : kept[k] = Parsed(k)
    BY DEF IInv, LoopSound
  <2>4. Matching(scanned) = Announcing
    <3>1. ASSUME NEW k \in 1..Len(kept)
          PROVE  IsLength(kept[k]) <=> k # 1 /\ text[k].name \in LengthNames
      <4>1. kept[k] = Parsed(k)
        BY <2>3
      <4>2. Parsed(k).name = text[k].name /\ Parsed(k).lf = (k = 1)
        BY DEF Parsed, LineFeed
      <4> QED
        BY <4>1, <4>2 DEF IsLength
    <3>2. 2..fields \cap 1..MaxHeaders = 2..Len(kept)
      BY <2>2, ParserAssumption DEF IInv, TextSound
    <3>3. Announcing = {k \in 2..Len(kept) : text[k].name \in LengthNames}
      BY <3>2, <2>2, ParserAssumption DEF Announcing, IInv, TextSound
    <3> QED
      BY <3>1, <3>3, <2>1, <2>2 DEF Matching
  <2>5. \A k \in Matching(scanned) :
            kept[k].number = IF text[k].colon THEN text[k].number ELSE text[k + 1].leads
    <3> TAKE k \in Matching(scanned)
    <3>1. kept[k] = Parsed(k) /\ k \in 1..fields
      BY <2>1, <2>2, <2>3 DEF Matching, IInv, TextSound
    <3>2. Leads(k + 1) = text[k + 1].leads
      BY <3>1 DEF Leads, IInv, TextSound
    <3> QED
      BY <3>1, <3>2 DEF Parsed
  <2> QED
    BY <2>4, <2>5 DEF IInv, ScanSound
<1> QED
  BY <1>1, Invariance, PTL

\* Without an allocation failure, clearing the request frees all it holds.
THEOREM StringsAreFreed == Spec => []NoStringLost
<1>1. IInv => NoStringLost
  BY DEF IInv, StringsSound, NoStringLost
<1> QED
  BY <1>1, Invariance, PTL

-----------------------------------------------------------------------------
(* The parser ends.                                                             *)

\* The steps the parser has still to do at most: a line taken is passed twice.
StepsLeft == IF pc = "line" THEN 2 * (Len(text) + 1 - at) + Len(kept) + 4
             ELSE IF pc = "array" THEN Len(kept) + 3
             ELSE IF pc = "scan" THEN Len(kept) - scanned + 2
             ELSE IF pc = "clear" THEN 1 ELSE 0

MostSteps == 2 * (MaxFields + 1 + MaxRest) + 4

\* What the count rests on.
Sizes ==
    /\ Len(text) \in Nat /\ Len(text) <= MaxFields + 1 + MaxRest
    /\ at \in 1..(Len(text) + 1) /\ Len(kept) \in Nat /\ Len(kept) <= at - 1
    /\ scanned \in 0..Len(kept)
    /\ pc \in {"line", "array", "scan", "clear", "cleared"}
    /\ pc = "array" => scanned = 0

\* Whatever lines the buffer holds, and whichever allocation fails, the parser takes at most
\* MostSteps steps, each of which brings it nearer to the cleared request.
THEOREM ParsingEnds ==
    Spec => /\ [](StepsLeft \in 0..MostSteps /\ (StepsLeft = 0 <=> pc = "cleared"))
            /\ [][StepsLeft' < StepsLeft]_vars
  <1>1. IInv => Sizes
    BY DEF Sizes, IInv, TextSound, LoopSound, StringsSound, ScanSound
  <1>2. IInv => StepsLeft \in 0..MostSteps /\ (StepsLeft = 0 <=> pc = "cleared")
    <2> SUFFICES ASSUME IInv
                 PROVE  StepsLeft \in 0..MostSteps /\ (StepsLeft = 0 <=> pc = "cleared")
      OBVIOUS
    <2>1. Sizes /\ MaxFields + 1 + MaxRest \in Nat
      BY <1>1, ParserAssumption
    <2>2. MostSteps \in Nat /\ MostSteps >= 2 * Len(text) + 4
      BY <2>1 DEF Sizes, MostSteps
    <2>3. CASE pc = "line"
      BY <2>1, <2>2, <2>3 DEF Sizes, StepsLeft
    <2>4. CASE pc = "array" \/ pc = "scan"
      BY <2>1, <2>2, <2>4 DEF Sizes, StepsLeft
    <2>5. CASE pc = "clear" \/ pc = "cleared"
      BY <2>1, <2>2, <2>5 DEF Sizes, StepsLeft
    <2> QED
      BY <2>1, <2>3, <2>4, <2>5 DEF Sizes
  <1>3. IInv /\ IInv' /\ [Next]_vars => [StepsLeft' < StepsLeft]_vars
    <2> SUFFICES ASSUME IInv, IInv', Next PROVE StepsLeft' < StepsLeft
      OBVIOUS
    <2>1. Sizes /\ Sizes'
      BY <1>1, PTL
    <2>2. CASE Drop \/ Take
      <3>1. /\ pc = "line" /\ pc' = "line" /\ text' = text /\ at' = at + 1
            /\ Len(kept') = Len(kept) \/ Len(kept') = Len(kept) + 1
        BY <2>1, <2>2 DEF Drop, Take, IInv, LoopSound
      <3> QED
        BY <2>1, <3>1 DEF StepsLeft, Sizes
    <2>3. CASE Stop \/ Store \/ ScanNext \/ ScanEnd
      BY <2>1, <2>3 DEF Stop, Store, ScanNext, ScanEnd, StepsLeft, Sizes
    <2>4. CASE TakeFails \/ Clear
      BY <2>1, <2>4 DEF TakeFails, Clear, StepsLeft, Sizes
    <2> QED
      BY <2>2, <2>3, <2>4 DEF Next
  <1> QED
    BY <1>2, <1>3, Invariance, PTL DEF Spec

=============================================================================
