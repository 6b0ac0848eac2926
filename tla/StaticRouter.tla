---------------------------- MODULE StaticRouter ----------------------------
(***************************************************************************)
(* Serving one request from the filesystem: static_router_handle of        *)
(* src/src/router/router_static.c over fs_stat, fs_open, fs_read_all and   *)
(* fs_close, and their POSIX implementation in                             *)
(* src/ports/posix/fs_posix.c, one step per system call, while somebody    *)
(* else edits the directory.  File content is a number of bytes; a path is *)
(* a sequence of the pieces its rules tell apart.                          *)
(***************************************************************************)
EXTENDS Integers, Sequences

CONSTANTS
    Files,       \* the regular files (inodes) there may be
    MaxSize,     \* the size of the largest of them
    MaxBytes,    \* max_bytes of the mount; 0 means no limit
    MaxChanges,  \* bound: edits of the directory during one request
    Urls         \* request paths, each without the mount's prefix it begins with

\* The pieces of a path; "..", followed by no slash, is the beginning of a longer name.
Slash == "/"
Up    == ".."
Mark  == "?"    \* the ? or # in front of a query or a fragment
Name  == "a"    \* text without any of the others, the index file's name too

ASSUME StaticAssumption ==
    /\ Files \cap {"dir", "none"} = {}
    /\ Urls \subseteq Seq({Slash, Up, Mark, Name})
    /\ MaxSize \in Nat /\ MaxBytes \in Nat /\ MaxChanges \in Nat

VARIABLES
    \* the directory, as its editor sees it
    node,     \* what the requested path names: a file, "dir" or "none"
    size,     \* the size of each file
    changes,  \* edits so far
    \* the request
    asks,     \* what static_router_handle sees of it
    \* static_router_handle and the calls below it
    pc,       \* the system call it is at
    stat,     \* size field of its struct fs_stat
    fd,       \* what its open file descriptor refers to, or "none"
    got,      \* total_read
    live,     \* heap blocks allocated and not freed
    missing,  \* lstat found nothing (history)
    fault,    \* an allocation or a read failed (history)
    out       \* the return value, the status and the payload length

directory == <<node, size, changes>>
vars == <<directory, asks, pc, stat, fd, got, live, missing, fault, out>>

Nodes == Files \cup {"dir", "none"}

\* url: what follows the mount's prefix; get: the method is GET.
Asks == [url : Urls, get : BOOLEAN]

Nothing == [ret |-> 0, status |-> "none", length |-> 0]

Init ==
    /\ node \in Nodes /\ size \in [Files -> 0..MaxSize] /\ changes = 0
    /\ asks \in Asks
    /\ pc = "match" /\ stat = 0 /\ fd = "none" /\ got = 0 /\ live = {}
    /\ missing = FALSE /\ fault = FALSE /\ out = Nothing

-----------------------------------------------------------------------------
(* The editor of the directory. *)

Edit ==
    /\ changes < MaxChanges
    /\ changes' = changes + 1
    /\ \/ node' \in Nodes \ {node} /\ UNCHANGED size
       \/ /\ \E f \in Files, s \in 0..MaxSize : s # size[f] /\ size' = [size EXCEPT ![f] = s]
          /\ UNCHANGED node
    /\ UNCHANGED <<asks, pc, stat, fd, got, live, missing, fault, out>>

-----------------------------------------------------------------------------
(* The ways static_router_handle returns: with a status and a payload that *)
(* is static text, with the file's content, "not mine", or an error.       *)

\* Seeded fault: the file is not closed.
Return_KeepOpen(o, kept) == pc' = "done" /\ out' = o /\ live' = kept /\ UNCHANGED fd

Return(o, kept) == pc' = "done" /\ out' = o /\ live' = kept /\ fd' = "none"

Answer(status, kept) == Return([Nothing EXCEPT !.status = status], kept)

Error(kept) == Return([Nothing EXCEPT !.ret = -1], kept)

\* The prefix must be followed by a slash, and by something at all.
Matches(url) == url # <<>> /\ url[1] = Slash

\* build_rel_path: one slash is skipped and what follows the first mark is cut off...
Skipped(url) == IF url # <<>> /\ url[1] = Slash THEN Tail(url) ELSE url
End(path) ==
    CHOOSE n \in 0..Len(path) :
        /\ \A i \in 1..n : path[i] # Mark
        /\ n < Len(path) => path[n + 1] = Mark

\* ... and the index file's name completes what is empty or ends with a slash.
WantsIndex(path, end) == end = 0 \/ path[end] = Slash

\* The first pass returns the length, the second one writes the path.
\* Seeded fault: the first pass counts the query too.
RelLength_WithQuery(url) == Len(Skipped(url)) + (IF WantsIndex(Skipped(url), End(Skipped(url))) THEN 1 ELSE 0)

RelLength(url) ==
    LET path == Skipped(url)
    IN  End(path) + (IF WantsIndex(path, End(path)) THEN 1 ELSE 0)
RelPath(url) ==
    LET path == Skipped(url)
    IN  SubSeq(path, 1, End(path)) \o (IF WantsIndex(path, End(path)) THEN <<Name>> ELSE <<>>)

\* Seeded fault: only the beginning of the path is looked at.
Climbs_FirstOnly(rel) == LET path == Skipped(rel) IN path # <<>> /\ path[1] = Up

\* resolve_under_root refuses "..", at the beginning or after a slash, whatever follows it.
Climbs(rel) ==
    LET path == Skipped(rel)
    IN  \E i \in 1..Len(path) : path[i] = Up /\ (i = 1 \/ path[i - 1] = Slash)

Refused == Climbs(RelPath(asks.url))

Match ==
    /\ pc = "match"
    /\ \/ ~Matches(asks.url) /\ Return([Nothing EXCEPT !.ret = 1], {}) /\ UNCHANGED fault
       \/ Matches(asks.url) /\ ~asks.get /\ Answer("405", {}) /\ UNCHANGED fault
       \/ /\ Matches(asks.url) /\ asks.get
          /\ IF Len(RelPath(asks.url)) = RelLength(asks.url)
             THEN pc' = "stat" /\ live' = {"relPath"} /\ UNCHANGED <<fd, out>>
             ELSE Error({})
          /\ UNCHANGED fault
       \/ Matches(asks.url) /\ asks.get /\ fault' = TRUE /\ Error({})
    /\ UNCHANGED <<directory, asks, stat, got, missing>>

\* fs_stat fails: the path climbs, there is no memory for the resolved path, or
\* lstat reports some other error.  In each case the answer is 404.
StatRefused ==
    /\ pc = "stat"
    /\ fault' = (fault \/ ~Refused)
    /\ Answer("404", live \ {"relPath"})
    /\ UNCHANGED <<directory, asks, stat, got, missing>>

\* lstat says ENOENT, and posix_stat returns without freeing the resolved path.
StatMissing ==
    /\ pc = "stat" /\ ~Refused
    /\ node = "none"
    /\ missing' = TRUE
    /\ Answer("404", (live \cup {"statPath"}) \ {"relPath"})
    /\ UNCHANGED <<directory, asks, stat, got, fault>>

\* Seeded fault: a file of exactly the allowed size is refused.
TooLarge_AtLimit(bytes) == MaxBytes # 0 /\ bytes >= MaxBytes

TooLarge(bytes) == MaxBytes # 0 /\ bytes > MaxBytes

\* lstat reports what is there, and what it says decides the rest.
StatFound ==
    /\ pc = "stat" /\ ~Refused
    /\ \/ node = "dir" /\ Answer("404", live \ {"relPath"}) /\ UNCHANGED stat
       \/ /\ node \in Files
          /\ stat' = size[node]
          /\ \/ TooLarge(size[node]) /\ Answer("403", live \ {"relPath"})
             \/ ~TooLarge(size[node]) /\ size[node] = 0 /\ Answer("200", live \ {"relPath"})
             \/ /\ ~TooLarge(size[node]) /\ size[node] > 0
                /\ pc' = "open" /\ UNCHANGED <<live, fd, out>>
    /\ UNCHANGED <<directory, asks, got, missing, fault>>

\* open(2) finds what the path names by now; a directory opens too.
Open ==
    /\ pc = "open"
    /\ node # "none"
    /\ fd' = node /\ live' = live \cup {"file"}
    /\ pc' = "alloc"
    /\ UNCHANGED <<directory, asks, stat, got, missing, fault, out>>

\* The path is gone, or there is no memory for it or for the file's struct
\* (then the descriptor is closed again).
OpenFails ==
    /\ pc = "open"
    /\ fault' = (fault \/ node # "none")
    /\ Error(live \ {"relPath"})
    /\ UNCHANGED <<directory, asks, stat, got, missing>>

Alloc ==
    /\ pc = "alloc"
    /\ live' = live \cup {"buffer"}
    /\ pc' = "read"
    /\ UNCHANGED <<directory, asks, stat, fd, got, missing, fault, out>>

AllocFails ==
    /\ pc = "alloc"
    /\ fault' = TRUE
    /\ Error(live \ {"relPath", "file"})
    /\ UNCHANGED <<directory, asks, stat, got, missing>>

\* One read() of read_all: what the file has left, as far as there is room.
Left == IF size[fd] > got THEN size[fd] - got ELSE 0
\* Seeded fault: reading until the end of the file, not of the buffer.
ReadCount_All == Left

ReadCount == IF Left <= stat - got THEN Left ELSE stat - got

ReadMore ==
    /\ pc = "read" /\ fd \in Files
    /\ ReadCount > 0 /\ got + ReadCount < stat
    /\ got' = got + ReadCount
    /\ UNCHANGED <<directory, asks, pc, stat, fd, live, missing, fault, out>>

\* Seeded fault: the end of the file does not end the loop.
ReadLast_FullOnly ==
    /\ pc = "read" /\ fd \in Files
    /\ got + ReadCount >= stat
    /\ got' = got + ReadCount
    /\ Return([ret |-> 0, status |-> "200", length |-> got + ReadCount], live \ {"relPath", "file"})
    /\ UNCHANGED <<directory, asks, stat, missing, fault>>

\* All that was announced is in, or the file ends here: close it and answer.
ReadLast ==
    /\ pc = "read" /\ fd \in Files
    /\ ReadCount = 0 \/ got + ReadCount >= stat
    /\ got' = got + ReadCount
    /\ Return([ret |-> 0, status |-> "200", length |-> got + ReadCount], live \ {"relPath", "file"})
    /\ UNCHANGED <<directory, asks, stat, missing, fault>>

\* Seeded fault: the buffer is not freed.
ReadFails_KeepBuffer ==
    /\ pc = "read"
    /\ fault' = (fault \/ fd # "dir")
    /\ Error(live \ {"relPath", "file"})
    /\ UNCHANGED <<directory, asks, stat, got, missing>>

\* read() fails: always on a directory, and on an I/O error.
ReadFails ==
    /\ pc = "read"
    /\ fault' = (fault \/ fd # "dir")
    /\ Error(live \ {"relPath", "file", "buffer"})
    /\ UNCHANGED <<directory, asks, stat, got, missing>>

-----------------------------------------------------------------------------
Handle ==
    \/ Match \/ StatRefused \/ StatMissing \/ StatFound \/ Open \/ OpenFails
    \/ Alloc \/ AllocFails \/ ReadMore \/ ReadLast \/ ReadFails

Next == Edit \/ Handle

\* System calls on files return, and none of them has to fail; the editor does as
\* it likes.
Spec == Init /\ [][Next]_vars /\ WF_vars(Handle /\ fault' = fault)

-----------------------------------------------------------------------------
(* Properties. *)

\* Every variable stays in its type; the file is open from open to close only.
TypeOK ==
    /\ node \in Nodes /\ size \in [Files -> 0..MaxSize] /\ changes \in 0..MaxChanges
    /\ asks \in Asks /\ pc \in {"match", "stat", "open", "alloc", "read", "done"}
    /\ stat \in 0..MaxSize /\ got \in 0..MaxSize /\ fd \in Nodes
    /\ live \subseteq {"relPath", "statPath", "file", "buffer"}
    /\ missing \in BOOLEAN /\ fault \in BOOLEAN
    /\ (fd # "none") = (pc \in {"alloc", "read"})
    /\ out.ret \in {-1, 0, 1} /\ out.length \in 0..MaxSize
    /\ out.status \in {"none", "200", "403", "404", "405"}

\* However the file changes between lstat, open and the reads, what is read
\* stays within the buffer sized by lstat, and what is served within max_bytes.
ServedWithinLimits ==
    /\ got <= stat
    /\ out.status = "200" => out.length <= stat /\ (MaxBytes # 0 => out.length <= MaxBytes)

\* If nobody edits and nothing fails, the answer is the one the directory calls
\* for: the whole file, or the error that names the reason.
QuietAnswer ==
    CASE ~Matches(asks.url)                           -> [Nothing EXCEPT !.ret = 1]
      [] Matches(asks.url) /\ ~asks.get               -> [Nothing EXCEPT !.status = "405"]
      [] Matches(asks.url) /\ asks.get /\ (Refused \/ node \notin Files)
                                                 -> [Nothing EXCEPT !.status = "404"]
      [] OTHER ->
           IF MaxBytes # 0 /\ size[node] > MaxBytes THEN [Nothing EXCEPT !.status = "403"]
           ELSE [ret |-> 0, status |-> "200", length |-> size[node]]
ExactWhenQuiet == pc = "done" /\ changes = 0 /\ ~fault => out = QuietAnswer

\* On every way out, early or late, the file is closed and no block is kept but
\* the payload handed to the caller (and the path posix_stat forgets on 404).
NothingHeld ==
    pc = "done" =>
        /\ fd = "none"
        /\ live \ {"statPath"} = IF out.ret = 0 /\ out.status = "200" /\ stat > 0
                                 THEN {"buffer"} ELSE {}
        /\ ("statPath" \in live) <=> missing

\* The connection is dropped without an answer (-1) only if a call failed or
\* the file was exchanged or deleted after lstat had seen it; the two passes over
\* the path agree, whatever it is made of.
ErrorsHaveACause == out.ret = -1 => fault \/ changes > 0

\* The walk along a path: how deep below the root its first n pieces lead.  A name counts
\* where it begins, and ".." only as a whole component.
Begins(path, i) == i = 1 \/ path[i - 1] = Slash
Ends(path, i) == i = Len(path) \/ path[i + 1] = Slash
Depth(path) ==
    LET walk[n \in 0..Len(path)] ==
            IF n = 0 THEN 0
            ELSE walk[n - 1] +
                 (IF path[n] = Slash \/ ~Begins(path, n) THEN 0
                  ELSE IF path[n] = Up /\ Ends(path, n) THEN -1 ELSE 1)
    IN  walk

\* Whatever the request path is made of, a file is only opened if the walk to it never leaves
\* the root.
OpensUnderRoot ==
    pc \in {"open", "alloc", "read"} =>
        LET path == RelPath(asks.url)
        IN  \A n \in 0..Len(path) : Depth(path)[n] >= 0

\* Serving a file ends, however often the file grows meanwhile.
HandlingEnds == <>(pc = "done")

-----------------------------------------------------------------------------
(* What the documentation says and the code does not do. *)

\* "the caller owns *@p real_path_out and must free() it": posix_stat keeps no path.
StatFreesItsPath == "statPath" \notin live

=============================================================================
