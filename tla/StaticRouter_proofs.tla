------------------------- MODULE StaticRouter_proofs --------------------------
(***************************************************************************)
(* Proofs about StaticRouter: for files of any size, any limit, any number *)
(* of edits and any request path, nothing is kept, nothing is read beyond  *)
(* the buffer, and every error has a cause.                                *)
(***************************************************************************)
EXTENDS StaticRouter, WellFoundedInduction, TLAPS

\* What is known at each system call: the blocks held, the size in hand, and, as long as
\* nobody edits, what the path names.
AtMatch == pc = "match" => live = {} /\ stat = 0
AtStat  == pc = "stat" => live = {"relPath"} /\ stat = 0
AtOpen ==
    pc = "open" =>
        /\ live = {"relPath"} /\ stat > 0 /\ (MaxBytes # 0 => stat <= MaxBytes)
        /\ changes = 0 => node \in Files
AtAlloc ==
    pc = "alloc" =>
        /\ live = {"relPath", "file"} /\ stat > 0 /\ (MaxBytes # 0 => stat <= MaxBytes)
        /\ changes = 0 => fd \in Files
AtRead ==
    pc = "read" =>
        /\ live = {"relPath", "file", "buffer"}
        /\ stat > 0 /\ (MaxBytes # 0 => stat <= MaxBytes)
        /\ changes = 0 => fd \in Files
BeforeDone ==
    pc # "done" => out = Nothing /\ missing = FALSE /\ (pc # "read" => got = 0)

IInv ==
    /\ TypeOK /\ AtMatch /\ AtStat /\ AtOpen /\ AtAlloc /\ AtRead /\ BeforeDone
    /\ ServedWithinLimits /\ NothingHeld /\ ErrorsHaveACause

-----------------------------------------------------------------------------
(* The path rules. *)

\* A set of numbers has a smallest one.
LEMMA Least ==
  ASSUME NEW T, T \subseteq Nat, T # {}
  PROVE  \E x \in T : \A y \in T : x <= y
  <1>1. PICK x \in T : \A y \in T : ~(<<y, x>> \in OpToRel(<, Nat))
    BY NatLessThanWellFounded, WFMin
  <1>2. \A y \in T : ~(y < x)
    BY <1>1 DEF OpToRel
  <1> QED
    BY <1>2

\* End finds the first mark, or the end of the path.
LEMMA EndIsInPath ==
  ASSUME NEW path \in Seq({Slash, Up, Mark, Name})
  PROVE  End(path) \in 0..Len(path)
  <1> DEFINE Ends_(n) == /\ \A i \in 1..n : path[i] # Mark
                         /\ n < Len(path) => path[n + 1] = Mark
  <1> DEFINE marks == {i \in 1..Len(path) : path[i] = Mark}
  <1>1. \E n \in 0..Len(path) : Ends_(n)
    <2>1. CASE marks = {}
      <3>1. Len(path) \in 0..Len(path) /\ Ends_(Len(path))
        BY <2>1
      <3> QED
        BY <3>1
    <2>2. CASE marks # {}
      <3>0. marks \subseteq Nat
        OBVIOUS
      <3>1. PICK first \in marks : \A i \in marks : first <= i
        <4> HIDE DEF marks
        <4> QED
          BY <2>2, <3>0, Least
      <3>2. first - 1 \in 0..Len(path) /\ Ends_(first - 1)
        BY <3>1
      <3> QED
        BY <3>2
    <2> QED
      BY <2>1, <2>2
  <1> QED
    BY <1>1 DEF End

\* Both passes of build_rel_path agree.
LEMMA PassesAgree ==
  ASSUME NEW url \in Urls
  PROVE  Len(RelPath(url)) = RelLength(url)
  <1> DEFINE path == Skipped(url)
             kept == SubSeq(path, 1, End(path))
  <1>1. path \in Seq({Slash, Up, Mark, Name})
    BY StaticAssumption DEF Skipped
  <1>2. End(path) \in 0..Len(path)
    BY <1>1, EndIsInPath
  <1>3. kept \in Seq({Slash, Up, Mark, Name}) /\ Len(kept) = End(path)
    BY <1>1, <1>2
  <1>4. CASE WantsIndex(path, End(path))
    <2>1. <<Name>> \in Seq({Slash, Up, Mark, Name}) /\ Len(<<Name>>) = 1
      OBVIOUS
    <2>2. Len(kept \o <<Name>>) = End(path) + 1
      BY <1>3, <2>1
    <2> QED
      BY <1>4, <2>2 DEF RelPath, RelLength
  <1>5. CASE ~WantsIndex(path, End(path))
    <2>1. kept \o <<>> = kept
      BY <1>3
    <2> QED
      BY <1>3, <1>5, <2>1, <1>2 DEF RelPath, RelLength
  <1> QED
    BY <1>4, <1>5

-----------------------------------------------------------------------------
LEMMA Initially == Init => IInv
  <1> SUFFICES ASSUME Init PROVE IInv
    OBVIOUS
  <1>1. missing \in BOOLEAN /\ fault \in BOOLEAN
    BY DEF Init
  <1>2. fd = "none" /\ pc = "match"
    BY DEF Init
  <1>3. TypeOK
    BY <1>1, <1>2, StaticAssumption DEF Init, TypeOK, Nodes, Nothing
  <1>4. AtMatch /\ AtStat /\ AtOpen /\ AtAlloc /\ AtRead /\ BeforeDone
    BY DEF Init, AtMatch, AtStat, AtOpen, AtAlloc, AtRead, BeforeDone
  <1>5. ServedWithinLimits /\ NothingHeld /\ ErrorsHaveACause
    BY DEF Init, Nothing, ServedWithinLimits, NothingHeld, ErrorsHaveACause
  <1> QED
    BY <1>3, <1>4, <1>5 DEF IInv

LEMMA EditKeeps == IInv /\ Edit => IInv'
  <1> SUFFICES ASSUME IInv, Edit PROVE IInv'
    OBVIOUS
  <1>1. changes \in Nat /\ changes' = changes + 1 /\ changes' \in 0..MaxChanges
    BY StaticAssumption DEF Edit, IInv, TypeOK
  <1>2. node' \in Nodes /\ size' \in [Files -> 0..MaxSize]
    <2>1. CASE node' \in Nodes /\ UNCHANGED size
      BY <2>1 DEF IInv, TypeOK
    <2>2. CASE /\ \E f \in Files, s \in 0..MaxSize : s # size[f] /\ size' = [size EXCEPT ![f] = s]
               /\ UNCHANGED node
      BY <2>2 DEF IInv, TypeOK
    <2> QED
      BY <2>1, <2>2 DEF Edit
  <1>3. UNCHANGED <<asks, pc, stat, fd, got, live, missing, fault, out>>
    BY DEF Edit
  <1>4. TypeOK'
    BY <1>1, <1>2, <1>3 DEF IInv, TypeOK
  <1>5. AtMatch' /\ AtStat' /\ AtOpen' /\ AtAlloc' /\ AtRead' /\ BeforeDone'
    BY <1>1, <1>3 DEF IInv, AtMatch, AtStat, AtOpen, AtAlloc, AtRead, BeforeDone
  <1>6. ServedWithinLimits' /\ NothingHeld' /\ ErrorsHaveACause'
    BY <1>1, <1>3 DEF IInv, ServedWithinLimits, NothingHeld, ErrorsHaveACause
  <1> QED
    BY <1>4, <1>5, <1>6 DEF IInv

\* The ways out: whatever is returned and kept, this is all that has to be shown.
Outs == [ret : {-1, 0, 1}, status : {"none", "200", "403", "404", "405"}, length : 0..MaxSize]

\* The resolved path is still held exactly if lstat found nothing.
Told(kept) == \/ missing' = TRUE /\ "statPath" \in kept
              \/ missing' = FALSE /\ "statPath" \notin kept

LEMMA WayOut ==
  ASSUME IInv, NEW o \in Outs, NEW kept, Return(o, kept), UNCHANGED <<directory, asks>>,
         fault' \in BOOLEAN, Told(kept),
         kept \subseteq {"relPath", "statPath", "file", "buffer"},
         stat' \in 0..MaxSize, got' \in 0..MaxSize, got' <= stat',
         o.status = "200" => o.length <= stat' /\ (MaxBytes # 0 => o.length <= MaxBytes),
         kept \ {"statPath"} =
             IF o.ret = 0 /\ o.status = "200" /\ stat' > 0 THEN {"buffer"} ELSE {},
         o.ret = -1 => fault' \/ changes > 0
  PROVE  IInv'
  <1>1. /\ pc' = "done" /\ out' = o /\ live' = kept /\ fd' = "none"
        /\ UNCHANGED <<node, size, changes, asks>>
    BY DEF Return, directory
  <1>2. ~(pc' \in {"alloc", "read"}) /\ missing' \in BOOLEAN
    BY <1>1 DEF Told
  <1>3. TypeOK'
    BY <1>1, <1>2 DEF IInv, TypeOK, Outs, Nodes
  <1>4. AtMatch' /\ AtStat' /\ AtOpen' /\ AtAlloc' /\ AtRead' /\ BeforeDone'
    BY <1>1 DEF AtMatch, AtStat, AtOpen, AtAlloc, AtRead, BeforeDone
  <1>5. ServedWithinLimits'
    BY <1>1 DEF ServedWithinLimits
  <1>6. NothingHeld'
    <2>1. ("statPath" \in live') <=> missing'
      BY <1>1 DEF Told
    <2>2. live' \ {"statPath"} =
              IF out'.ret = 0 /\ out'.status = "200" /\ stat' > 0 THEN {"buffer"} ELSE {}
      BY <1>1
    <2> QED
      BY <1>1, <2>1, <2>2, Zenon DEF NothingHeld
  <1>7. ErrorsHaveACause'
    BY <1>1 DEF ErrorsHaveACause
  <1> QED
    BY <1>3, <1>4, <1>5, <1>6, <1>7 DEF IInv

\* Leaving with neither file nor buffer, and with the resolved path only if lstat failed.
LEMMA EmptyHanded ==
  ASSUME IInv, NEW o \in Outs, NEW kept, Return(o, kept), UNCHANGED <<directory, asks>>,
         fault' \in BOOLEAN, Told(kept),
         kept \subseteq {"statPath"}, UNCHANGED got,
         stat' \in 0..MaxSize, got <= stat', o.status # "200",
         o.ret = -1 => fault' \/ changes > 0
  PROVE  IInv'
  <1>1. got' \in 0..MaxSize
    BY DEF IInv, TypeOK
  <1>2. kept \ {"statPath"} = {}
    OBVIOUS
  <1> QED
    BY <1>1, <1>2, WayOut

\* An answer made of static text...
LEMMA Refusal ==
  ASSUME IInv, NEW status \in {"403", "404", "405"}, NEW kept, Return([Nothing EXCEPT !.status = status], kept), UNCHANGED <<directory, asks>>,
         UNCHANGED got, got <= stat', stat' \in 0..MaxSize,
         fault' \in BOOLEAN, Told(kept), kept \subseteq {"statPath"}
  PROVE  IInv'
  <1> DEFINE o == [Nothing EXCEPT !.status = status]
  <1>1. o \in Outs /\ o.status # "200" /\ o.ret = 0
    BY StaticAssumption DEF Nothing, Outs
  <1>2. Return(o, kept)
    OBVIOUS
  <1> HIDE DEF o
  <1> QED
    BY <1>1, <1>2, EmptyHanded

\* ... "not mine"...
LEMMA NotMine ==
  ASSUME IInv, NEW kept, Return([Nothing EXCEPT !.ret = 1], kept), UNCHANGED <<directory, asks>>,
         UNCHANGED got, got <= stat', stat' \in 0..MaxSize,
         fault' \in BOOLEAN, Told(kept), kept \subseteq {"statPath"}
  PROVE  IInv'
  <1> DEFINE o == [Nothing EXCEPT !.ret = 1]
  <1>1. o \in Outs /\ o.status # "200" /\ o.ret = 1
    BY StaticAssumption DEF Nothing, Outs
  <1>2. Return(o, kept)
    OBVIOUS
  <1> HIDE DEF o
  <1> QED
    BY <1>1, <1>2, EmptyHanded

\* ... and an error.
LEMMA Errored ==
  ASSUME IInv, NEW kept, Return([Nothing EXCEPT !.ret = -1], kept), UNCHANGED <<directory, asks>>,
         UNCHANGED got, got <= stat', stat' \in 0..MaxSize,
         fault' \in BOOLEAN, Told(kept), kept \subseteq {"statPath"},
         fault' \/ changes > 0
  PROVE  IInv'
  <1> DEFINE o == [Nothing EXCEPT !.ret = -1]
  <1>1. o \in Outs /\ o.status # "200" /\ o.ret = -1
    BY StaticAssumption DEF Nothing, Outs
  <1>2. Return(o, kept)
    OBVIOUS
  <1> HIDE DEF o
  <1> QED
    BY <1>1, <1>2, EmptyHanded

LEMMA MatchKeeps == IInv /\ Match => IInv'
  <1> SUFFICES ASSUME IInv, Match PROVE IInv'
    OBVIOUS
  <1>1. /\ pc = "match" /\ live = {} /\ stat = 0 /\ fd = "none" /\ got = 0 /\ missing = FALSE
        /\ out = Nothing /\ stat \in 0..MaxSize
        /\ UNCHANGED <<directory, asks, stat, got, missing>>
    BY DEF IInv, TypeOK, AtMatch, BeforeDone, Match
  <1>2. Len(RelPath(asks.url)) = RelLength(asks.url)
    BY PassesAgree DEF IInv, TypeOK, Asks
  <1>w. UNCHANGED <<directory, asks>> /\ UNCHANGED got /\ got <= stat' /\ stat' \in 0..MaxSize
    BY <1>1
  <1>n. {} \subseteq {"statPath"} /\ Told({})
    BY <1>1 DEF Told
  <1>3. CASE Return([Nothing EXCEPT !.ret = 1], {}) /\ UNCHANGED fault
    <2>1. fault' \in BOOLEAN
      BY <1>3 DEF IInv, TypeOK
    <2> QED
      BY <1>w, <1>n, <1>3, <2>1, NotMine
  <1>4. CASE Answer("405", {}) /\ UNCHANGED fault
    <2>1. fault' \in BOOLEAN
      BY <1>4 DEF IInv, TypeOK
    <2> QED
      BY <1>w, <1>n, <1>4, <2>1, Refusal DEF Answer
  <1>5. CASE fault' = TRUE /\ Error({})
    <2>1. fault' \in BOOLEAN /\ (fault' \/ changes > 0)
      BY <1>5
    <2> QED
      BY <1>w, <1>n, <1>5, <2>1, Errored DEF Error
  <1>6. CASE pc' = "stat" /\ live' = {"relPath"} /\ UNCHANGED <<fd, out, fault>>
    <2>1. TypeOK'
      BY <1>1, <1>6 DEF IInv, TypeOK, directory, Nodes
    <2>2. missing' = FALSE
      BY <1>1
    <2> QED
      BY <1>1, <1>6, <2>1, <2>2
      DEF IInv, AtMatch, AtStat, AtOpen, AtAlloc, AtRead, BeforeDone, Nothing,
          ServedWithinLimits, NothingHeld, ErrorsHaveACause
  <1> QED
    BY <1>2, <1>3, <1>4, <1>5, <1>6 DEF Match

LEMMA StatKeeps == IInv /\ (StatRefused \/ StatMissing \/ StatFound) => IInv'
  <1> SUFFICES ASSUME IInv, StatRefused \/ StatMissing \/ StatFound PROVE IInv'
    OBVIOUS
  <1>1. /\ pc = "stat" /\ live = {"relPath"} /\ stat = 0 /\ fd = "none" /\ got = 0
        /\ out = Nothing /\ stat \in 0..MaxSize /\ UNCHANGED <<directory, asks, got>>
    BY DEF IInv, TypeOK, AtStat, BeforeDone, StatRefused, StatMissing, StatFound
  <1>2. missing = FALSE /\ fault \in BOOLEAN
    BY <1>1 DEF IInv, TypeOK, BeforeDone
  <1>w. UNCHANGED <<directory, asks>> /\ UNCHANGED got
    BY <1>1
  <1>n. {} \subseteq {"statPath"} /\ live \ {"relPath"} = {}
    BY <1>1
  <1>3. CASE StatRefused
    <2>1. fault' \in BOOLEAN
      BY <1>2, <1>3 DEF StatRefused
    <2>2. Told({}) /\ got <= stat' /\ stat' \in 0..MaxSize
      BY <1>1, <1>2, <1>3 DEF StatRefused, Told
    <2>3. Return([Nothing EXCEPT !.status = "404"], {})
      BY <1>3, <1>n DEF StatRefused, Answer
    <2> QED
      BY <1>w, <1>n, <2>1, <2>2, <2>3, Refusal
  <1>4. CASE StatMissing
    <2>1. fault' \in BOOLEAN
      BY <1>2, <1>4 DEF StatMissing
    <2>2. /\ Told({"statPath"}) /\ got <= stat' /\ stat' \in 0..MaxSize
          /\ {"statPath"} \subseteq {"statPath"}
      BY <1>1, <1>2, <1>4 DEF StatMissing, Told
    <2>3. Return([Nothing EXCEPT !.status = "404"], {"statPath"})
      <3>1. (live \cup {"statPath"}) \ {"relPath"} = {"statPath"}
        BY <1>1
      <3> QED
        BY <1>4, <3>1 DEF StatMissing, Answer
    <2> QED
      BY <1>w, <2>1, <2>2, <2>3, Refusal
  <1>5. CASE StatFound
    <2>1. fault' \in BOOLEAN
      BY <1>2, <1>5 DEF StatFound
    <2>n. Told({}) /\ missing' = FALSE
      BY <1>2, <1>5 DEF StatFound, Told
    <2>2. CASE node = "dir"
      <3>1. Return([Nothing EXCEPT !.status = "404"], {}) /\ stat' = stat
        BY <1>5, <1>n, <2>2, StaticAssumption DEF StatFound, Answer
      <3>2. got <= stat' /\ stat' \in 0..MaxSize
        BY <1>1, <3>1
      <3> QED
        BY <1>w, <1>n, <2>1, <2>n, <3>1, <3>2, Refusal
    <2>3. CASE node \in Files
      <3>1. stat' = size[node] /\ size[node] \in 0..MaxSize
        BY <1>5, <2>3, StaticAssumption DEF StatFound, IInv, TypeOK
      <3>5. got <= stat' /\ stat' \in 0..MaxSize
        BY <1>1, <3>1
      <3>2. CASE Answer("403", live \ {"relPath"})
        <4>1. Return([Nothing EXCEPT !.status = "403"], {})
          BY <1>n, <3>2 DEF Answer
        <4> QED
          BY <1>w, <1>n, <2>1, <2>n, <3>5, <4>1, Refusal
      <3>3. CASE size[node] = 0 /\ Answer("200", live \ {"relPath"})
        <4> DEFINE o == [Nothing EXCEPT !.status = "200"]
        <4>1. o \in Outs /\ o.ret = 0 /\ o.length = 0 /\ o.status = "200"
          BY StaticAssumption DEF Nothing, Outs
        <4>2. Return(o, {})
          BY <1>n, <3>3 DEF Answer
        <4> HIDE DEF o
        <4>3. stat' = 0 /\ got' = 0 /\ got' \in 0..MaxSize /\ got' <= stat'
          BY <1>1, <3>1, <3>3
        <4>4. o.status = "200" => o.length <= stat' /\ (MaxBytes # 0 => o.length <= MaxBytes)
          BY <4>1, <4>3, StaticAssumption
        <4>5. {} \ {"statPath"} =
                  IF o.ret = 0 /\ o.status = "200" /\ stat' > 0 THEN {"buffer"} ELSE {}
          BY <4>3
        <4>6. {} \subseteq {"relPath", "statPath", "file", "buffer"} /\ o.ret # -1
          BY <4>1
        <4> QED
          BY <1>w, <2>1, <2>n, <3>5, <4>1, <4>2, <4>3, <4>4, <4>5, <4>6, WayOut
      <3>4. CASE ~TooLarge(size[node]) /\ size[node] > 0 /\ pc' = "open" /\ UNCHANGED <<live, fd, out>>
        <4>0. UNCHANGED <<node, size, changes, asks, fault, missing>>
          BY <1>1, <1>5 DEF directory, StatFound
        <4>1. TypeOK'
          <5>1. missing' \in BOOLEAN /\ fault' \in BOOLEAN
            BY <2>1, <2>n
          <5> QED
            BY <1>1, <3>1, <3>4, <4>0, <5>1 DEF IInv, TypeOK, Nodes
        <4>2. stat' > 0 /\ (MaxBytes # 0 => stat' <= MaxBytes)
          BY <3>1, <3>4, StaticAssumption DEF TooLarge
        <4>3. node' \in Files
          BY <2>3, <4>0
        <4>4. AtMatch' /\ AtStat' /\ AtOpen' /\ AtAlloc' /\ AtRead'
          BY <1>1, <3>4, <4>2, <4>3 DEF AtMatch, AtStat, AtOpen, AtAlloc, AtRead
        <4>5. BeforeDone' /\ NothingHeld'
          BY <1>1, <2>n, <3>4 DEF BeforeDone, NothingHeld
        <4>6. ServedWithinLimits' /\ ErrorsHaveACause'
          BY <1>1, <3>4, <3>5 DEF Nothing, ServedWithinLimits, ErrorsHaveACause
        <4> QED
          BY <4>1, <4>4, <4>5, <4>6 DEF IInv
      <3> QED
        BY <1>5, <2>3, <3>2, <3>3, <3>4, StaticAssumption DEF StatFound
    <2> QED
      BY <1>5, <2>2, <2>3 DEF StatFound
  <1> QED
    BY <1>3, <1>4, <1>5

LEMMA OpenKeeps == IInv /\ (Open \/ OpenFails) => IInv'
  <1> SUFFICES ASSUME IInv, Open \/ OpenFails PROVE IInv'
    OBVIOUS
  <1>1. /\ pc = "open" /\ live = {"relPath"} /\ stat > 0 /\ got = 0 /\ out = Nothing
        /\ stat \in 0..MaxSize /\ (MaxBytes # 0 => stat <= MaxBytes)
        /\ UNCHANGED <<directory, asks, stat, got, missing>>
    BY DEF IInv, TypeOK, AtOpen, BeforeDone, Open, OpenFails
  <1>2. missing = FALSE /\ fault \in BOOLEAN /\ node \in Nodes /\ changes \in Nat
        /\ (changes = 0 => node \in Files)
    BY <1>1 DEF IInv, TypeOK, BeforeDone, AtOpen
  <1>3. CASE Open
    <2>1. TypeOK'
      <3>1. missing' \in BOOLEAN /\ fault' \in BOOLEAN
        BY <1>1, <1>2, <1>3 DEF Open
      <3> QED
        BY <1>1, <1>2, <1>3, <3>1 DEF Open, IInv, TypeOK, directory
    <2>2. AtMatch' /\ AtStat' /\ AtOpen' /\ AtRead'
      BY <1>3 DEF Open, AtMatch, AtStat, AtOpen, AtRead
    <2>3. AtAlloc'
      BY <1>1, <1>2, <1>3 DEF Open, AtAlloc, directory
    <2>4. BeforeDone' /\ NothingHeld'
      BY <1>1, <1>2, <1>3 DEF Open, BeforeDone, NothingHeld
    <2>5. ServedWithinLimits' /\ ErrorsHaveACause'
      BY <1>1, <1>3 DEF Open, Nothing, ServedWithinLimits, ErrorsHaveACause
    <2> QED
      BY <2>1, <2>2, <2>3, <2>4, <2>5 DEF IInv
  <1>4. CASE OpenFails
    <2>1. fault' \in BOOLEAN
      BY <1>2, <1>4 DEF OpenFails
    <2>2. fault' \/ changes > 0
      <3>1. CASE node # "none"
        BY <1>4, <3>1 DEF OpenFails
      <3>2. CASE node = "none"
        BY <1>2, <3>2, StaticAssumption
      <3> QED
        BY <3>1, <3>2
    <2>3. Told({}) /\ {} \subseteq {"statPath"}
      BY <1>1, <1>2 DEF Told
    <2>4. Return([Nothing EXCEPT !.ret = -1], {})
      <3>1. live \ {"relPath"} = {}
        BY <1>1
      <3> QED
        BY <1>4, <3>1 DEF OpenFails, Error
    <2>5. UNCHANGED <<directory, asks>> /\ UNCHANGED got /\ got <= stat' /\ stat' \in 0..MaxSize
      BY <1>1
    <2> QED
      BY <2>1, <2>2, <2>3, <2>4, <2>5, Errored
  <1> QED
    BY <1>3, <1>4

LEMMA AllocKeeps == IInv /\ (Alloc \/ AllocFails) => IInv'
  <1> SUFFICES ASSUME IInv, Alloc \/ AllocFails PROVE IInv'
    OBVIOUS
  <1>1. /\ pc = "alloc" /\ live = {"relPath", "file"} /\ stat > 0 /\ got = 0 /\ out = Nothing
        /\ stat \in 0..MaxSize /\ (MaxBytes # 0 => stat <= MaxBytes)
        /\ UNCHANGED <<directory, asks, stat, got, missing>>
    BY DEF IInv, TypeOK, AtAlloc, BeforeDone, Alloc, AllocFails
  <1>2. missing = FALSE /\ fault \in BOOLEAN /\ fd \in Nodes /\ fd # "none"
        /\ (changes = 0 => fd \in Files)
    BY <1>1 DEF IInv, TypeOK, BeforeDone, AtAlloc
  <1>3. CASE Alloc
    <2>1. TypeOK'
      <3>1. missing' \in BOOLEAN /\ fault' \in BOOLEAN
        BY <1>1, <1>2, <1>3 DEF Alloc
      <3> QED
        BY <1>1, <1>2, <1>3, <3>1 DEF Alloc, IInv, TypeOK, directory
    <2>2. AtMatch' /\ AtStat' /\ AtOpen' /\ AtAlloc'
      BY <1>3 DEF Alloc, AtMatch, AtStat, AtOpen, AtAlloc
    <2>3. AtRead'
      <3>1. live' = {"relPath", "file", "buffer"}
        BY <1>1, <1>3 DEF Alloc
      <3> QED
        BY <1>1, <1>2, <1>3, <3>1 DEF Alloc, AtRead, directory
    <2>4. BeforeDone' /\ NothingHeld'
      BY <1>1, <1>2, <1>3 DEF Alloc, BeforeDone, NothingHeld
    <2>5. ServedWithinLimits' /\ ErrorsHaveACause'
      BY <1>1, <1>3 DEF Alloc, Nothing, ServedWithinLimits, ErrorsHaveACause
    <2> QED
      BY <2>1, <2>2, <2>3, <2>4, <2>5 DEF IInv
  <1>4. CASE AllocFails
    <2>1. fault' \in BOOLEAN /\ (fault' \/ changes > 0)
      BY <1>4 DEF AllocFails
    <2>2. Told({}) /\ {} \subseteq {"statPath"}
      BY <1>1, <1>2 DEF Told
    <2>3. Return([Nothing EXCEPT !.ret = -1], {})
      <3>1. live \ {"relPath", "file"} = {}
        BY <1>1
      <3> QED
        BY <1>4, <3>1 DEF AllocFails, Error
    <2>4. UNCHANGED <<directory, asks>> /\ UNCHANGED got /\ got <= stat' /\ stat' \in 0..MaxSize
      BY <1>1
    <2> QED
      BY <2>1, <2>2, <2>3, <2>4, Errored
  <1> QED
    BY <1>3, <1>4

\* One read() returns no more than there is room for.
LEMMA ReadFits ==
  ASSUME IInv, pc = "read", fd \in Files
  PROVE  ReadCount \in Nat /\ got + ReadCount <= stat
  <1>1. size[fd] \in Nat /\ got \in Nat /\ stat \in Nat /\ got <= stat
    BY StaticAssumption DEF IInv, TypeOK, ServedWithinLimits
  <1>2. Left \in Nat
    BY <1>1 DEF Left
  <1> QED
    BY <1>1, <1>2 DEF ReadCount

LEMMA ReadKeeps == IInv /\ (ReadMore \/ ReadLast \/ ReadFails) => IInv'
  <1> SUFFICES ASSUME IInv, ReadMore \/ ReadLast \/ ReadFails PROVE IInv'
    OBVIOUS
  <1>1. /\ pc = "read" /\ live = {"relPath", "file", "buffer"} /\ stat > 0 /\ out = Nothing
        /\ stat \in 0..MaxSize /\ (MaxBytes # 0 => stat <= MaxBytes)
        /\ got \in 0..MaxSize /\ got <= stat
        /\ UNCHANGED <<directory, asks, stat, missing>>
    BY DEF IInv, TypeOK, AtRead, BeforeDone, ServedWithinLimits, ReadMore, ReadLast, ReadFails
  <1>2. missing = FALSE /\ fault \in BOOLEAN /\ fd \in Nodes /\ changes \in Nat
        /\ (changes = 0 => fd \in Files)
    BY <1>1 DEF IInv, TypeOK, BeforeDone, AtRead
  <1>3. CASE ReadMore
    <2>1. got' \in 0..MaxSize /\ got' <= stat'
      BY <1>1, <1>3, ReadFits, StaticAssumption DEF ReadMore
    <2>2. TypeOK'
      <3>1. missing' \in BOOLEAN /\ fault' \in BOOLEAN
        BY <1>1, <1>2, <1>3 DEF ReadMore
      <3> QED
        BY <1>1, <1>2, <1>3, <2>1, <3>1 DEF ReadMore, IInv, TypeOK, directory
    <2>3. AtMatch' /\ AtStat' /\ AtOpen' /\ AtAlloc'
      BY <1>1, <1>3 DEF ReadMore, AtMatch, AtStat, AtOpen, AtAlloc
    <2>4. AtRead'
      BY <1>1, <1>2, <1>3 DEF ReadMore, AtRead, directory
    <2>5. BeforeDone' /\ NothingHeld'
      BY <1>1, <1>2, <1>3 DEF ReadMore, BeforeDone, NothingHeld
    <2>6. ServedWithinLimits' /\ ErrorsHaveACause'
      BY <1>1, <1>3, <2>1 DEF ReadMore, Nothing, ServedWithinLimits, ErrorsHaveACause
    <2> QED
      BY <2>2, <2>3, <2>4, <2>5, <2>6 DEF IInv
  <1>4. CASE ReadLast
    <2> DEFINE o == [ret |-> 0, status |-> "200", length |-> got + ReadCount]
    <2>1. got' = got + ReadCount /\ got' \in 0..MaxSize /\ got' <= stat' /\ stat' \in 0..MaxSize
      BY <1>1, <1>4, ReadFits, StaticAssumption DEF ReadLast
    <2>2. o \in Outs /\ o.ret = 0 /\ o.length = got' /\ o.status = "200"
      BY <2>1 DEF Outs
    <2>3. Return(o, {"buffer"})
      <3>1. live \ {"relPath", "file"} = {"buffer"}
        BY <1>1
      <3> QED
        BY <1>4, <3>1 DEF ReadLast
    <2> HIDE DEF o
    <2>4. o.status = "200" => o.length <= stat' /\ (MaxBytes # 0 => o.length <= MaxBytes)
      BY <1>1, <2>1, <2>2, StaticAssumption
    <2>5. {"buffer"} \ {"statPath"} =
              IF o.ret = 0 /\ o.status = "200" /\ stat' > 0 THEN {"buffer"} ELSE {}
      BY <1>1, <2>2
    <2>6. {"buffer"} \subseteq {"relPath", "statPath", "file", "buffer"} /\ o.ret # -1
      BY <2>2
    <2>7. Told({"buffer"}) /\ UNCHANGED <<directory, asks>>
      BY <1>1, <1>2 DEF Told
    <2>8. fault' \in BOOLEAN
      BY <1>2, <1>4 DEF ReadLast
    <2> QED
      BY <2>1, <2>2, <2>3, <2>4, <2>5, <2>6, <2>7, <2>8, WayOut
  <1>5. CASE ReadFails
    <2>1. fault' \in BOOLEAN
      BY <1>2, <1>5 DEF ReadFails
    <2>2. fault' \/ changes > 0
      <3>1. CASE fd # "dir"
        BY <1>5, <3>1 DEF ReadFails
      <3>2. CASE fd = "dir"
        BY <1>2, <3>2, StaticAssumption
      <3> QED
        BY <3>1, <3>2
    <2>3. Told({}) /\ {} \subseteq {"statPath"}
      BY <1>1, <1>2 DEF Told
    <2>4. Return([Nothing EXCEPT !.ret = -1], {})
      <3>1. live \ {"relPath", "file", "buffer"} = {}
        BY <1>1
      <3> QED
        BY <1>5, <3>1 DEF ReadFails, Error
    <2>5. UNCHANGED <<directory, asks>> /\ UNCHANGED got /\ got <= stat' /\ stat' \in 0..MaxSize
      BY <1>1, <1>5 DEF ReadFails
    <2> QED
      BY <2>1, <2>2, <2>3, <2>4, <2>5, Errored
  <1> QED
    BY <1>3, <1>4, <1>5

\* A step that changes nothing.
LEMMA StutterKeeps == IInv /\ UNCHANGED vars => IInv'
  <1> SUFFICES ASSUME IInv, UNCHANGED vars PROVE IInv'
    OBVIOUS
  <1>1. UNCHANGED <<node, size, changes, asks, pc, stat, fd, got, live, missing, fault, out>>
    BY DEF vars, directory
  <1>2. TypeOK'
    BY <1>1 DEF IInv, TypeOK
  <1> QED
    BY <1>1, <1>2
    DEF IInv, AtMatch, AtStat, AtOpen, AtAlloc, AtRead, BeforeDone,
        ServedWithinLimits, NothingHeld, ErrorsHaveACause

LEMMA StepKeeps == IInv /\ [Next]_vars => IInv'
  BY EditKeeps, MatchKeeps, StatKeeps, OpenKeeps, AllocKeeps, ReadKeeps, StutterKeeps
  DEF Next, Handle

LEMMA Invariance == Spec => []IInv
  BY Initially, StepKeeps, PTL DEF Spec

-----------------------------------------------------------------------------
(* The theorems. *)

\* Every variable stays in its type, and the descriptor is open from open to close only.
THEOREM TypeCorrect == Spec => []TypeOK
  <1>1. IInv => TypeOK
    BY DEF IInv
  <1> QED
    BY <1>1, Invariance, PTL

\* Whatever happens to the file between lstat, open and the reads, what is read fits the
\* buffer and what is served is within max_bytes.
THEOREM ServedWithin == Spec => []ServedWithinLimits
  <1>1. IInv => ServedWithinLimits
    BY DEF IInv
  <1> QED
    BY <1>1, Invariance, PTL

\* Every way out closes the file and frees what it does not hand over, except the path
\* posix_stat forgets.
THEOREM NothingIsHeld == Spec => []NothingHeld
  <1>1. IInv => NothingHeld
    BY DEF IInv
  <1> QED
    BY <1>1, Invariance, PTL

\* A request is only dropped because a call failed or somebody edited meanwhile; so the two
\* passes over the path agree for every path there is.
THEOREM ErrorsAreCaused == Spec => []ErrorsHaveACause
  <1>1. IInv => ErrorsHaveACause
    BY DEF IInv
  <1> QED
    BY <1>1, Invariance, PTL

-----------------------------------------------------------------------------
(* If nobody edits and nothing fails. *)

\* What lstat saw is still there, and it is what has been opened.
QuietSound ==
    changes = 0 /\ ~fault =>
        /\ pc \in {"stat", "open", "alloc", "read"} => Matches(asks.url) /\ asks.get
        /\ pc \in {"open", "alloc", "read"} => ~Refused /\ node \in Files /\ stat = size[node]
        /\ pc \in {"alloc", "read"} => fd = node
        /\ pc = "done" => out = QuietAnswer

\* The answer by the way that leads to it.
LEMMA QuietAnswers ==
  /\ ~Matches(asks.url) => QuietAnswer = [Nothing EXCEPT !.ret = 1]
  /\ Matches(asks.url) /\ ~asks.get => QuietAnswer = [Nothing EXCEPT !.status = "405"]
  /\ Matches(asks.url) /\ asks.get =>
        /\ Refused \/ node \notin Files => QuietAnswer = [Nothing EXCEPT !.status = "404"]
        /\ ~Refused /\ node \in Files =>
              QuietAnswer = IF TooLarge(size[node]) THEN [Nothing EXCEPT !.status = "403"]
                            ELSE [ret |-> 0, status |-> "200", length |-> size[node]]
  BY DEF QuietAnswer, TooLarge

LEMMA QuietStarts == Init => QuietSound
  BY DEF Init, QuietSound

\* A step of the handler by which nothing has failed.
LEMMA QuietKeeps ==
  ASSUME IInv, QuietSound, [Next]_vars
  PROVE  QuietSound'
  <1>1. CASE Edit
    BY <1>1 DEF Edit, QuietSound, IInv, TypeOK
  <1>2. CASE UNCHANGED vars
    BY <1>2 DEF vars, directory, QuietSound, QuietAnswer, Refused
  <1>3. CASE Handle
    <2>1. UNCHANGED <<node, size, changes, asks>> /\ fault \in BOOLEAN /\ (fault => fault')
      BY <1>3 DEF Handle, Match, StatRefused, StatMissing, StatFound, Open, OpenFails, Alloc,
                  AllocFails, ReadMore, ReadLast, ReadFails, directory, IInv, TypeOK
    <2>2. Refused' = Refused /\ QuietAnswer' = QuietAnswer
      BY <2>1 DEF Refused, QuietAnswer
    <2> SUFFICES ASSUME changes = 0, ~fault, ~fault' PROVE QuietSound'
      BY <2>1 DEF QuietSound
    <2>3. CASE pc' # "done"
      <3>1. CASE Match
        BY <2>1, <2>3, <3>1 DEF Match, Return, Answer, Error, QuietSound
      <3>2. CASE StatFound
        BY <2>1, <2>2, <2>3, <3>2 DEF StatFound, Return, Answer, QuietSound
      <3>3. CASE Open
        BY <2>1, <2>2, <3>3 DEF Open, QuietSound
      <3>4. CASE Alloc \/ ReadMore
        BY <2>1, <2>2, <3>4 DEF Alloc, ReadMore, QuietSound
      <3> QED
        BY <1>3, <2>3, <3>1, <3>2, <3>3, <3>4
           DEF Handle, StatRefused, StatMissing, OpenFails, AllocFails, ReadLast, ReadFails,
               Return, Answer, Error
    <2>4. CASE pc' = "done"
      <3> SUFFICES out' = QuietAnswer
        BY <2>2, <2>4 DEF QuietSound
      <3>1. CASE Match
        <4>1. Len(RelPath(asks.url)) = RelLength(asks.url)
          BY PassesAgree DEF IInv, TypeOK, Asks
        <4> QED
          BY <2>4, <3>1, <4>1, QuietAnswers DEF Match, Return, Answer, Error
      <3>2. CASE StatRefused \/ StatMissing
        BY <3>2, QuietAnswers, StaticAssumption
           DEF StatRefused, StatMissing, Return, Answer, QuietSound
      <3>3. CASE StatFound
        <4>1. CASE node = "dir"
          BY <3>3, <4>1, QuietAnswers, StaticAssumption DEF StatFound, Return, Answer, QuietSound
        <4>2. CASE node \in Files
          <5>1. \/ TooLarge(size[node]) /\ Answer("403", live \ {"relPath"})
                \/ ~TooLarge(size[node]) /\ size[node] = 0 /\ Answer("200", live \ {"relPath"})
            BY <2>4, <3>3, <4>2, StaticAssumption DEF StatFound
          <5>2. Nothing.ret = 0 /\ [Nothing EXCEPT !.status = "200"]
                                    = [ret |-> 0, status |-> "200", length |-> 0]
            BY DEF Nothing
          <5> QED
            BY <3>3, <4>2, <5>1, <5>2, QuietAnswers DEF StatFound, Return, Answer, QuietSound
        <4> QED
          BY <3>3, <4>1, <4>2 DEF StatFound
      <3>4. CASE OpenFails \/ AllocFails \/ ReadFails
        BY <3>4, StaticAssumption DEF OpenFails, AllocFails, ReadFails, QuietSound
      <3>5. CASE ReadLast
        <4>1. /\ fd = node /\ node \in Files /\ stat = size[node] /\ ~Refused
              /\ Matches(asks.url) /\ asks.get
          BY <3>5 DEF ReadLast, QuietSound
        <4>2. stat \in Nat /\ got \in Nat /\ got <= stat /\ ~TooLarge(stat)
          BY <3>5, StaticAssumption
             DEF ReadLast, IInv, TypeOK, ServedWithinLimits, AtRead, TooLarge
        <4>3. ReadCount = stat - got
          BY <4>1, <4>2 DEF ReadCount, Left
        <4>4. got + ReadCount = stat
          BY <4>2, <4>3
        <4>5. out' = [ret |-> 0, status |-> "200", length |-> stat]
          BY <3>5, <4>4 DEF ReadLast, Return
        <4> QED
          BY <4>1, <4>2, <4>5, QuietAnswers
      <3> QED
        BY <1>3, <2>4, <3>1, <3>2, <3>3, <3>4, <3>5
           DEF Handle, Open, Alloc, ReadMore, QuietSound
    <2> QED
      BY <2>3, <2>4
  <1> QED
    BY <1>1, <1>2, <1>3 DEF Next

\* If nobody edits and nothing fails, the whole file is served, or the error that names the
\* reason: for every size and limit and every request path.
THEOREM ExactAnswers == Spec => []ExactWhenQuiet
  <1>1. QuietSound => ExactWhenQuiet
    BY DEF QuietSound, ExactWhenQuiet
  <1> QED
    BY <1>1, Invariance, QuietStarts, QuietKeeps, PTL DEF Spec

-----------------------------------------------------------------------------
(* The walk along the path. *)

\* What the n-th piece adds to the depth.
Step(path, n) ==
    IF path[n] = Slash \/ ~Begins(path, n) THEN 0
    ELSE IF path[n] = Up /\ Ends(path, n) THEN -1 ELSE 1

\* A walk of m steps.
Walks(w, path, m) == w = [n \in 0..m |-> IF n = 0 THEN 0 ELSE w[n - 1] + Step(path, n)]

LEMMA OneMoreStep ==
  ASSUME NEW path, NEW m \in Nat, NEW w, Walks(w, path, m)
  PROVE  \E v : Walks(v, path, m + 1)
  <1> DEFINE v == [n \in 0..(m + 1) |-> IF n <= m THEN w[n] ELSE w[m] + Step(path, m + 1)]
  <1>1. \A n \in 0..m : w[n] = IF n = 0 THEN 0 ELSE w[n - 1] + Step(path, n)
    BY DEF Walks
  <1>2. ASSUME NEW n \in 0..(m + 1)
        PROVE  v[n] = IF n = 0 THEN 0 ELSE v[n - 1] + Step(path, n)
    <2>1. CASE n = 0
      BY <1>1, <2>1
    <2>2. CASE n # 0 /\ n <= m
      <3>1. n \in 0..m /\ n - 1 \in 0..(m + 1) /\ n - 1 <= m
        BY <2>2
      <3> QED
        BY <1>1, <2>2, <3>1
    <2>3. CASE n = m + 1
      <3>1. n - 1 = m /\ m \in 0..(m + 1) /\ n # 0 /\ ~(n <= m)
        BY <2>3
      <3> QED
        BY <2>3, <3>1
    <2> QED
      BY <2>1, <2>2, <2>3
  <1>3. v = [n \in 0..(m + 1) |-> IF n = 0 THEN 0 ELSE v[n - 1] + Step(path, n)]
    BY <1>2
  <1> QED
    BY <1>3 DEF Walks

\* There is a walk of any number of steps: else there were a smallest number without one.
LEMMA WalkExists ==
  ASSUME NEW path, NEW m \in Nat
  PROVE  \E w : Walks(w, path, m)
  <1> DEFINE none == {k \in Nat : ~\E w : Walks(w, path, k)}
  <1>1. SUFFICES ASSUME none # {} PROVE FALSE
    OBVIOUS
  <1>2. PICK k \in none : \A l \in none : k <= l
    <2>1. none \subseteq Nat
      OBVIOUS
    <2> HIDE DEF none
    <2> QED
      BY <1>1, <2>1, Least
  <1>3. CASE k = 0
    <2>1. Walks([n \in 0..0 |-> 0], path, 0)
      BY DEF Walks
    <2> QED
      BY <1>3, <2>1
  <1>4. CASE k # 0
    <2>1. k - 1 \in Nat /\ k - 1 \notin none /\ k = (k - 1) + 1
      BY <1>2, <1>4
    <2>2. PICK w : Walks(w, path, k - 1)
      BY <2>1
    <2>3. \E v : Walks(v, path, (k - 1) + 1)
      BY <2>1, <2>2, OneMoreStep
    <2> QED
      BY <2>1, <2>3
  <1> QED
    BY <1>3, <1>4

LEMMA DepthWalks ==
  ASSUME NEW path, Len(path) \in Nat
  PROVE  Walks(Depth(path), path, Len(path))
  <1>1. \E w : Walks(w, path, Len(path))
    BY WalkExists
  <1>2. Depth(path) = CHOOSE w : Walks(w, path, Len(path))
    BY DEF Depth, Walks, Step
  <1> QED
    BY <1>1, <1>2

\* A path that is not refused never leads up.
LEMMA NeverUp ==
  ASSUME NEW path \in Seq({Slash, Up, Mark, Name}), ~Climbs(path), NEW n \in 1..Len(path)
  PROVE  Step(path, n) \in {0, 1}
  <1>1. SUFFICES ASSUME path[n] = Up, Begins(path, n) PROVE FALSE
    BY DEF Step
  <1>2. Slash # Up
    BY DEF Slash, Up
  <1>3. CASE path[1] = Slash
    <2>1. /\ Skipped(path) = Tail(path) /\ n # 1 /\ n - 1 \in 1..Len(Tail(path))
          /\ \A i \in 1..Len(Tail(path)) : Tail(path)[i] = path[i + 1]
      BY <1>1, <1>2, <1>3 DEF Skipped
    <2>2. n - 1 = 1 \/ Tail(path)[(n - 1) - 1] = Slash
      BY <1>1, <2>1 DEF Begins
    <2>3. Tail(path)[n - 1] = Up
      BY <1>1, <2>1
    <2> QED
      BY <2>1, <2>2, <2>3 DEF Climbs
  <1>4. CASE path[1] # Slash
    <2>1. Skipped(path) = path
      BY <1>4 DEF Skipped
    <2> QED
      BY <1>1, <2>1 DEF Climbs, Begins
  <1> QED
    BY <1>3, <1>4

LEMMA NeverOut ==
  ASSUME NEW path \in Seq({Slash, Up, Mark, Name}), ~Climbs(path), NEW n \in 0..Len(path)
  PROVE  Depth(path)[n] >= 0
  <1> DEFINE w == Depth(path)
             bad == {k \in 0..Len(path) : ~(w[k] \in Nat)}
  <1>1. \A k \in 0..Len(path) : w[k] = IF k = 0 THEN 0 ELSE w[k - 1] + Step(path, k)
    <2>1. Walks(w, path, Len(path))
      BY DepthWalks
    <2> HIDE DEF w
    <2> QED
      BY <2>1 DEF Walks
  <1> HIDE DEF w
  <1>2. SUFFICES ASSUME bad # {} PROVE FALSE
    BY DEF w
  <1>3. PICK k \in bad : \A l \in bad : k <= l
    <2>1. bad \subseteq Nat
      OBVIOUS
    <2> HIDE DEF bad
    <2> QED
      BY <1>2, <2>1, Least
  <1>4. k # 0 /\ k \in 1..Len(path)
    BY <1>1, <1>3
  <1>5. k - 1 \in 0..Len(path) /\ k - 1 \notin bad /\ w[k - 1] \in Nat
    BY <1>3, <1>4
  <1>6. Step(path, k) \in {0, 1} /\ w[k] = w[k - 1] + Step(path, k)
    BY <1>1, <1>4, NeverUp
  <1> QED
    BY <1>3, <1>5, <1>6

\* A file is opened only if its path was not refused.
NotRefused == pc \in {"open", "alloc", "read"} => ~Refused

LEMMA NotRefusedKeeps ==
  ASSUME NotRefused, [Next]_vars PROVE NotRefused'
  <1>1. Refused' = Refused
    BY DEF Next, Edit, Handle, Match, StatRefused, StatMissing, StatFound, Open, OpenFails, Alloc,
           AllocFails, ReadMore, ReadLast, ReadFails, vars, Refused
  <1>2. pc' \in {"open", "alloc", "read"} => pc \in {"open", "alloc", "read"} \/ ~Refused
    BY DEF Next, Edit, Handle, Match, StatRefused, StatMissing, StatFound, Open, OpenFails, Alloc,
           AllocFails, ReadMore, ReadLast, ReadFails, vars, Return, Answer, Error
  <1> QED
    BY <1>1, <1>2 DEF NotRefused

\* What is looked up is made of the pieces a request path is made of.
LEMMA RelPathPieces ==
  ASSUME NEW url \in Urls
  PROVE  RelPath(url) \in Seq({Slash, Up, Mark, Name})
  <1> DEFINE Pieces == {Slash, Up, Mark, Name}
             path == Skipped(url)
  <1>1. path \in Seq(Pieces)
    <2>1. url \in Seq(Pieces)
      BY StaticAssumption
    <2> QED
      BY <2>1 DEF Skipped
  <1>2. End(path) \in 0..Len(path)
    BY <1>1, EndIsInPath
  <1>3. SubSeq(path, 1, End(path)) \in Seq(Pieces) /\ <<Name>> \in Seq(Pieces) /\ <<>> \in Seq(Pieces)
    BY <1>1, <1>2
  <1> HIDE DEF path, Pieces
  <1>4. \A s \in Seq(Pieces) : SubSeq(path, 1, End(path)) \o s \in Seq(Pieces)
    BY <1>3
  <1> QED
    BY <1>3, <1>4 DEF RelPath, path, Pieces

\* Whatever a request path is made of, a file is opened only if the walk to it never leaves the
\* root.
THEOREM StaysUnderRoot == Spec => []OpensUnderRoot
  <1>1. Init => NotRefused
    BY DEF Init, NotRefused
  <1>2. IInv /\ NotRefused => OpensUnderRoot
    <2> SUFFICES ASSUME IInv, NotRefused, pc \in {"open", "alloc", "read"},
                        NEW n \in 0..Len(RelPath(asks.url))
                 PROVE  Depth(RelPath(asks.url))[n] >= 0
      BY DEF OpensUnderRoot
    <2>1. RelPath(asks.url) \in Seq({Slash, Up, Mark, Name})
      BY RelPathPieces DEF IInv, TypeOK, Asks
    <2> QED
      BY <2>1, NeverOut DEF NotRefused, Refused
  <1> QED
    BY <1>1, <1>2, Invariance, NotRefusedKeeps, PTL DEF Spec

-----------------------------------------------------------------------------
(* Why handling ends: what is proved of it.  Every call on the way lowers a    *)
(* number that no edit raises.                                                 *)

\* How many steps static_router_handle has left at most.
StepsLeft ==
    CASE pc = "match" -> MaxSize + 5
      [] pc = "stat"  -> MaxSize + 4
      [] pc = "open"  -> MaxSize + 3
      [] pc = "alloc" -> MaxSize + 2
      [] pc = "read"  -> 1 + (stat - got)
      [] OTHER        -> 0

MostSteps == MaxSize + 5

LEMMA StepsLeftBound == IInv => StepsLeft \in 0..MostSteps
  <1> SUFFICES ASSUME IInv PROVE StepsLeft \in 0..MostSteps
    OBVIOUS
  <1>1. MaxSize \in Nat /\ stat \in 0..MaxSize /\ got \in 0..MaxSize /\ got <= stat
    BY StaticAssumption DEF IInv, TypeOK, ServedWithinLimits
  <1> QED
    BY <1>1 DEF StepsLeft, MostSteps

LEMMA HandleProgress ==
  ASSUME IInv, Handle
  PROVE  StepsLeft' < StepsLeft
  <1>1. MaxSize \in Nat /\ stat \in 0..MaxSize /\ got \in 0..MaxSize /\ got <= stat
    BY StaticAssumption DEF IInv, TypeOK, ServedWithinLimits
  <1>2. CASE Match
    BY <1>1, <1>2 DEF Match, Return, Answer, Error, StepsLeft
  <1>3. CASE StatRefused \/ StatMissing \/ StatFound
    BY <1>1, <1>3 DEF StatRefused, StatMissing, StatFound, Return, Answer, StepsLeft
  <1>4. CASE Open \/ OpenFails
    BY <1>1, <1>4 DEF Open, OpenFails, Return, Error, StepsLeft
  <1>5. CASE Alloc \/ AllocFails
    <2>1. pc = "alloc" => got = 0
      BY DEF IInv, BeforeDone
    <2> QED
      BY <1>1, <1>5, <2>1 DEF Alloc, AllocFails, Return, Error, StepsLeft
  <1>6. CASE ReadMore
    <2>1. pc = "read" /\ pc' = "read" /\ stat' = stat /\ got' = got + ReadCount /\ ReadCount > 0
      BY <1>6 DEF ReadMore
    <2>2. ReadCount \in Nat
      BY <1>6, ReadFits DEF ReadMore
    <2> QED
      BY <1>1, <2>1, <2>2 DEF StepsLeft
  <1>7. CASE ReadLast \/ ReadFails
    BY <1>1, <1>7 DEF ReadLast, ReadFails, Return, Error, StepsLeft
  <1> QED
    BY <1>2, <1>3, <1>4, <1>5, <1>6, <1>7 DEF Handle

\* A request for a file takes at most MostSteps system calls and allocations, whatever is done to the
\* file meanwhile: each lowers StepsLeft, and an edit, even one that lengthens the file, does
\* not raise it, since the reads stop at the size lstat reported.
THEOREM BoundedWork ==
    Spec => /\ [](StepsLeft \in 0..MostSteps)
            /\ [][StepsLeft' <= StepsLeft /\ (Handle => StepsLeft' < StepsLeft)]_vars
  <1>1. IInv' => (StepsLeft \in 0..MostSteps)'
    BY StepsLeftBound, PTL
  <1>2. IInv /\ IInv' /\ [Next]_vars =>
          [StepsLeft' <= StepsLeft /\ (Handle => StepsLeft' < StepsLeft)]_vars
    <2> SUFFICES ASSUME IInv, IInv', Next
                 PROVE  StepsLeft' <= StepsLeft /\ (Handle => StepsLeft' < StepsLeft)
      OBVIOUS
    <2>1. StepsLeft \in Int /\ StepsLeft' \in Int
      BY <1>1, StepsLeftBound, StaticAssumption DEF MostSteps
    <2>2. Edit => StepsLeft' = StepsLeft
      BY DEF Edit, StepsLeft
    <2> QED
      BY <2>1, <2>2, HandleProgress DEF Next
  <1> QED
    BY <1>2, StepsLeftBound, Invariance, PTL DEF Spec

===============================================================================
