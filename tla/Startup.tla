------------------------------- MODULE Startup -------------------------------
(***************************************************************************)
(* main of src/src/main.c: several servers started in one directory make   *)
(* sure that the folders they serve exist, set up their tables, and bind   *)
(* the one port.  fs_ensure_dir looks first and creates then, in two       *)
(* system calls (src/src/filesystem/filesystem.c and posix_stat and        *)
(* posix_mkdir of src/ports/posix/fs_posix.c).                             *)
(***************************************************************************)
EXTENDS Integers

CONSTANTS
    Servers,     \* the processes
    Mounts,      \* how many folders each of them needs: public and docs
    MaxEvents    \* bound: interventions from outside

ASSUME StartupAssumption == Mounts \in Nat /\ MaxEvents \in Nat /\ Servers # {}

VARIABLES
    node,       \* what each folder's path names: "none", "dir" or "file"
    port,       \* the ports bound: the servers that hold it, one at most
    pc,         \* the system call each server is at
    mount,      \* the folder it is for
    removed,    \* somebody has removed a folder (history)
    events,     \* interventions so far
    disturbed   \* something failed or interfered from outside (history)

startupVars == <<node, port, pc, mount, removed, events, disturbed>>

Folders == 1..Mounts

StartupInit ==
    /\ node \in [Folders -> {"none", "dir", "file"}] /\ port = {}
    /\ pc = [s \in Servers |-> IF Mounts = 0 THEN "init" ELSE "stat"]
    /\ mount = [s \in Servers |-> 1]
    /\ removed = FALSE /\ events = 0
    /\ disturbed = \E m \in Folders : node[m] = "file"

Goto(s, label) == pc' = [pc EXCEPT ![s] = label]

\* On to the next folder, or past the last one.
FolderDone(s) ==
    /\ mount' = [mount EXCEPT ![s] = @ + 1]
    /\ Goto(s, IF mount[s] < Mounts THEN "stat" ELSE "init")

-----------------------------------------------------------------------------
(* fs_ensure_dir. *)

\* fs_stat of "./public/": a folder is as it should be; for a file the path with its slash is
\* ENOTDIR, which posix_stat reports like ENOENT, so both go on to be created.
StatDir(s) ==
    /\ pc[s] = "stat"
    /\ \/ node[mount[s]] = "dir" /\ FolderDone(s)
       \/ node[mount[s]] # "dir" /\ Goto(s, "mkdir") /\ UNCHANGED mount
    /\ UNCHANGED <<node, port, removed, events, disturbed>>

\* Seeded fault: the result for "." counts, which is always there.
MakeDir_FirstResult(s) ==
    /\ pc[s] = "mkdir" /\ Goto(s, "exited")
    /\ UNCHANGED <<node, port, mount, removed, events, disturbed>>

\* Seeded fault: EEXIST is taken for a folder that is already there.
MakeDir_ExistingIsFine(s) ==
    /\ pc[s] = "mkdir"
    /\ node' = [node EXCEPT ![mount[s]] = IF @ = "none" THEN "dir" ELSE @]
    /\ FolderDone(s)
    /\ UNCHANGED <<port, removed, events, disturbed>>

\* posix_mkdir, of "." and then of "./public" without the slash: the last result counts, and
\* EEXIST is -1, so a file is an error, and so is a folder somebody else made since; a file
\* that has gone since is not.
MakeDir(s) ==
    /\ pc[s] = "mkdir"
    /\ \/ /\ node[mount[s]] = "none"
          /\ node' = [node EXCEPT ![mount[s]] = "dir"]
          /\ FolderDone(s)
       \/ node[mount[s]] # "none" /\ Goto(s, "exited") /\ UNCHANGED <<node, mount>>
    /\ UNCHANGED <<port, removed, events, disturbed>>

-----------------------------------------------------------------------------
(* app_init and server_start up to its loop. *)

\* The tables of app_init are larger than what it puts into them, so nothing fails.
AppInit(s) ==
    /\ pc[s] = "init" /\ Goto(s, "bind")
    /\ UNCHANGED <<node, port, mount, removed, events, disturbed>>

\* Seeded fault: the port may be shared (SO_REUSEPORT).
Bind_Shared(s) ==
    /\ pc[s] = "bind" /\ port' = port \cup {s} /\ Goto(s, "listening")
    /\ UNCHANGED <<node, mount, removed, events, disturbed>>

\* bind and listen: the port is free, or the server exits.
Bind(s) ==
    /\ pc[s] = "bind"
    /\ \/ port = {} /\ port' = {s} /\ Goto(s, "listening")
       \/ port # {} /\ Goto(s, "exited") /\ UNCHANGED port
    /\ UNCHANGED <<node, mount, removed, events, disturbed>>

\* A system call on the way fails for a reason of its own, or there is no memory.
StartFails(s) ==
    /\ pc[s] \in {"stat", "mkdir", "bind"} /\ Goto(s, "exited")
    /\ disturbed' = TRUE
    /\ UNCHANGED <<node, port, mount, removed, events>>

-----------------------------------------------------------------------------
(* From outside. *)

\* A server is killed, wherever it is.
Kill(s) ==
    /\ events < MaxEvents /\ events' = events + 1
    /\ pc[s] # "exited" /\ Goto(s, "exited") /\ port' = port \ {s}
    /\ disturbed' = TRUE
    /\ UNCHANGED <<node, mount, removed>>

\* A server that is gone is started again.
Restart(s) ==
    /\ events < MaxEvents /\ events' = events + 1
    /\ pc[s] = "exited"
    /\ Goto(s, IF Mounts = 0 THEN "init" ELSE "stat") /\ mount' = [mount EXCEPT ![s] = 1]
    /\ disturbed' = TRUE
    /\ UNCHANGED <<node, port, removed>>

\* Somebody removes a folder or puts something there.
Tamper(m) ==
    /\ events < MaxEvents /\ events' = events + 1
    /\ node' \in {[node EXCEPT ![m] = n] : n \in {"none", "dir", "file"} \ {node[m]}}
    /\ removed' = (removed \/ node[m] = "dir")
    /\ disturbed' = TRUE
    /\ UNCHANGED <<port, pc, mount>>

ServerStep(s) == StatDir(s) \/ MakeDir(s) \/ AppInit(s) \/ Bind(s) \/ StartFails(s)

StartupNext ==
    \/ \E s \in Servers : ServerStep(s) \/ Kill(s) \/ Restart(s)
    \/ \E m \in Folders : Tamper(m)

StartupSpec == StartupInit /\ [][StartupNext]_startupVars

-----------------------------------------------------------------------------
(* Properties. *)

Labels == {"stat", "mkdir", "init", "bind", "listening", "exited"}

\* The servers are at their places; the port belongs to those that listen, to one at most.
StartupTypeOK ==
    /\ node \in [Folders -> {"none", "dir", "file"}]
    /\ pc \in [Servers -> Labels] /\ mount \in [Servers -> 1..(Mounts + 1)]
    /\ port = {s \in Servers : pc[s] = "listening"}
    /\ \A s, t \in port : s = t
    /\ removed \in BOOLEAN /\ events \in 0..MaxEvents /\ disturbed \in BOOLEAN

\* A server listens only when all its folders are there, whoever made them, and whatever was
\* killed and started again on the way; unless somebody removed one.
RootsExist ==
    (\E s \in Servers : pc[s] = "listening") /\ ~removed => \A m \in Folders : node[m] = "dir"

\* Servers that race for the folders throw each other out, but never all of them: if nothing
\* fails and nobody interferes, in the end somebody listens.
SomebodyServes ==
    (\A s \in Servers : pc[s] \in {"listening", "exited"}) /\ ~disturbed
        => \E s \in Servers : pc[s] = "listening"
=============================================================================
