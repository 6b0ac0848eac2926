--------------------------- MODULE Program_proofs ----------------------------
(***************************************************************************)
(* Proofs about Program: whatever the servers do to each other while they  *)
(* start, and whatever lines a head is made of, for any number of servers, *)
(* folders, interventions and headers.                                     *)
(***************************************************************************)
EXTENDS Program, TLAPS

\* A server that still looks for folders has one to look for; a later one has had them all.
Places ==
    \A s \in Servers :
        /\ pc[s] \in {"stat", "mkdir"} => mount[s] <= Mounts
        /\ pc[s] \in {"init", "bind", "listening"} => mount[s] = Mounts + 1

\* The folders a server has passed are there.
Made ==
    ~removed => \A s \in Servers : pc[s] # "exited" =>
                    \A m \in Folders : m < mount[s] => node[m] = "dir"

\* As long as nothing interferes, only servers make something, and that is folders ...
OnlyFolders == \A m \in Folders : node[m] # "file"

\* ... whoever will find its folder made by somebody else is not in front ...
Overtaken ==
    \A s \in Servers : pc[s] = "mkdir" /\ node[mount[s]] # "none"
                           => \E q \in Servers : mount[q] > mount[s]

\* ... and one of those in front is still there.
Ahead(q) == pc[q] # "exited" /\ \A s \in Servers : mount[s] <= mount[q]
SomeoneAhead == \E q \in Servers : Ahead(q)

Quiet == ~disturbed => OnlyFolders /\ Overtaken /\ SomeoneAhead

SInv == StartupTypeOK /\ Places /\ Made /\ Quiet

\* The head so far: all lines written, and room for the last one.
HeadSound ==
    /\ at \in {"status", "type", "extra"} => written = total /\ written + LastLine < HeadSize
    /\ at = "write" => written = total /\ written < HeadSize
    /\ at = "refused" => total + LastLine >= HeadSize

HInv == HeadTypeOK /\ HeadSound

IInv == SInv /\ HInv /\ (port = {} => at = "idle")

-----------------------------------------------------------------------------
(* Starting. *)

LEMMA StartupInitially == StartupInit => SInv
  <1> SUFFICES ASSUME StartupInit PROVE SInv
    OBVIOUS
  <1> USE StartupAssumption
  <1>1. StartupTypeOK
    <2>1. disturbed \in BOOLEAN
      BY DEF StartupInit
    <2>2. \A s \in Servers : pc[s] # "listening"
      BY DEF StartupInit
    <2>3. /\ node \in [Folders -> {"none", "dir", "file"}] /\ pc \in [Servers -> Labels]
          /\ mount \in [Servers -> 1..(Mounts + 1)]
          /\ events \in 0..MaxEvents
      BY DEF StartupInit, Labels
    <2>4. port = {s \in Servers : pc[s] = "listening"} /\ \A s, t \in port : s = t
      BY <2>2 DEF StartupInit
    <2>5. removed \in BOOLEAN
      BY DEF StartupInit
    <2> QED
      BY <2>1, <2>3, <2>4, <2>5 DEF StartupTypeOK
  <1>2. Places /\ Made
    BY DEF StartupInit, Places, Made, Folders
  <1>3. SomeoneAhead
    <2>1. PICK q : q \in Servers
      OBVIOUS
    <2> QED
      BY <2>1 DEF StartupInit, SomeoneAhead, Ahead
  <1>4. Quiet
    BY <1>3 DEF StartupInit, Quiet, OnlyFolders, Overtaken, Folders
  <1> QED
    BY <1>1, <1>2, <1>4 DEF SInv

\* One step of one server keeps the types and the places.
LEMMA ServerKeepsTypes ==
  ASSUME StartupTypeOK, Places, NEW s \in Servers, ServerStep(s) \/ Kill(s) \/ Restart(s)
  PROVE  StartupTypeOK' /\ Places'
  <1> USE StartupAssumption DEF StartupTypeOK, Places, Goto, Labels, Folders
  <1>1. CASE StatDir(s)
    BY <1>1 DEF StatDir, FolderDone
  <1>2. CASE MakeDir(s)
    <2>1. CASE node[mount[s]] = "none"
      <3>1. FolderDone(s) /\ node' = [node EXCEPT ![mount[s]] = "dir"]
            /\ UNCHANGED <<port, removed, events, disturbed>>
        BY <1>2, <2>1 DEF MakeDir
      <3>2. node' \in [Folders -> {"none", "dir", "file"}]
        BY <3>1
      <3>3. pc[s] = "mkdir" /\ mount[s] <= Mounts
        BY <1>2 DEF MakeDir
      <3> QED
        BY <3>1, <3>2, <3>3 DEF FolderDone
    <2>2. CASE node[mount[s]] # "none"
      BY <1>2, <2>2 DEF MakeDir
    <2> QED
      BY <2>1, <2>2
  <1>3. CASE AppInit(s)
    BY <1>3 DEF AppInit
  <1>4. CASE Bind(s)
    BY <1>4 DEF Bind
  <1>5. CASE StartFails(s)
    BY <1>5 DEF StartFails
  <1>6. CASE Kill(s)
    BY <1>6 DEF Kill
  <1>7. CASE Restart(s)
    BY <1>7 DEF Restart
  <1> QED
    BY <1>1, <1>2, <1>3, <1>4, <1>5, <1>6, <1>7 DEF ServerStep

\* A server that goes on leaves a folder behind it.
LEMMA ServerKeepsMade ==
  ASSUME StartupTypeOK, Places, Made, NEW s \in Servers, ServerStep(s) \/ Kill(s) \/ Restart(s)
  PROVE  Made'
  <1> USE StartupAssumption DEF StartupTypeOK, Places, Made, Goto, Labels, Folders
  <1>1. CASE StatDir(s)
    BY <1>1 DEF StatDir, FolderDone
  <1>2. CASE MakeDir(s)
    BY <1>2 DEF MakeDir, FolderDone
  <1>3. CASE AppInit(s)
    BY <1>3 DEF AppInit
  <1>4. CASE Bind(s)
    BY <1>4 DEF Bind
  <1>5. CASE StartFails(s)
    BY <1>5 DEF StartFails
  <1>6. CASE Kill(s)
    BY <1>6 DEF Kill
  <1>7. CASE Restart(s)
    BY <1>7 DEF Restart
  <1> QED
    BY <1>1, <1>2, <1>3, <1>4, <1>5, <1>6, <1>7 DEF ServerStep

\* Whoever is in front stays there, or is overtaken by the server that steps.
LEMMA FrontMoves ==
  ASSUME StartupTypeOK, Places, Quiet, ~disturbed, NEW s \in Servers, FolderDone(s)
  PROVE  SomeoneAhead'
  <1>1. PICK q \in Servers : Ahead(q)
    BY DEF Quiet, SomeoneAhead
  <1>2. /\ \A t \in Servers : mount[t] \in Nat
        /\ pc'[s] # "exited" /\ mount'[s] = mount[s] + 1
        /\ \A t \in Servers \ {s} : mount'[t] = mount[t] /\ pc'[t] = pc[t]
    BY StartupAssumption DEF StartupTypeOK, FolderDone, Goto
  <1>3. CASE mount'[s] > mount[q]
    <2>1. Ahead(s)'
      BY <1>1, <1>2, <1>3 DEF Ahead
    <2> QED
      BY <2>1 DEF SomeoneAhead
  <1>4. CASE mount'[s] <= mount[q]
    <2>1. Ahead(q)'
      BY <1>1, <1>2, <1>4 DEF Ahead
    <2> QED
      BY <2>1 DEF SomeoneAhead
  <1>5. mount'[s] > mount[q] \/ mount'[s] <= mount[q]
    BY <1>2
  <1> QED
    BY <1>3, <1>4, <1>5

\* If nothing interferes, nobody in front is thrown out.
LEMMA ServerKeepsQuiet ==
  ASSUME SInv, NEW s \in Servers, ServerStep(s)
  PROVE  Quiet'
  <1> SUFFICES ASSUME ~disturbed' PROVE OnlyFolders' /\ Overtaken' /\ SomeoneAhead'
    BY DEF Quiet
  <1>0. /\ StartupTypeOK /\ Places
        /\ \A t \in Servers : mount[t] \in Nat
    BY StartupAssumption DEF SInv, StartupTypeOK
  <1>1. CASE StatDir(s)
    <2>1. ~disturbed /\ OnlyFolders /\ Overtaken /\ SomeoneAhead
      BY <1>1 DEF StatDir, SInv, Quiet
    <2>2. OnlyFolders'
      BY <1>1, <2>1 DEF StatDir, OnlyFolders
    <2>3. node[mount[s]] \in {"none", "dir"}
      BY <1>0, <1>1, <2>1, StartupAssumption
      DEF StatDir, OnlyFolders, Places, Folders, StartupTypeOK
    <2>4. CASE node[mount[s]] = "none"
      <3>1. UNCHANGED mount /\ pc' = [pc EXCEPT ![s] = "mkdir"] /\ UNCHANGED node
        BY <1>1, <2>4 DEF StatDir, Goto
      <3>2. Overtaken'
        BY <3>1, <2>1, <2>4, <1>0 DEF Overtaken, StartupTypeOK
      <3>3. SomeoneAhead'
        BY <3>1, <2>1, <1>0 DEF SomeoneAhead, Ahead, StartupTypeOK
      <3> QED
        BY <2>2, <3>2, <3>3
    <2>5. CASE node[mount[s]] = "dir"
      <3>1. FolderDone(s) /\ UNCHANGED node
        BY <1>1, <2>5 DEF StatDir
      <3>2. SomeoneAhead'
        BY <3>1, <2>1, <1>0, FrontMoves DEF SInv
      <3>3. Overtaken'
        BY <3>1, <2>1, <1>0 DEF Overtaken, FolderDone, Goto, StartupTypeOK
      <3> QED
        BY <2>2, <3>2, <3>3
    <2> QED
      BY <2>3, <2>4, <2>5
  <1>2. CASE MakeDir(s)
    <2>1. ~disturbed /\ OnlyFolders /\ Overtaken /\ SomeoneAhead
      BY <1>2 DEF MakeDir, SInv, Quiet
    <2>2. OnlyFolders'
      BY <1>0, <1>2, <2>1 DEF MakeDir, OnlyFolders, StartupTypeOK
    <2>3. CASE node[mount[s]] = "none"
      <3>1. FolderDone(s) /\ node' = [node EXCEPT ![mount[s]] = "dir"]
        BY <1>2, <2>3 DEF MakeDir
      <3>2. SomeoneAhead'
        BY <3>1, <2>1, <1>0, FrontMoves DEF SInv
      <3>3. /\ mount'[s] = mount[s] + 1 /\ pc'[s] # "mkdir"
            /\ \A t \in Servers \ {s} : mount'[t] = mount[t] /\ pc'[t] = pc[t]
        BY <3>1, <1>0 DEF FolderDone, Goto, StartupTypeOK
      <3>4. ASSUME NEW t \in Servers, pc'[t] = "mkdir", node'[mount'[t]] # "none"
            PROVE  \E q \in Servers : mount'[q] > mount'[t]
        <4>1. t # s /\ mount'[t] = mount[t] /\ pc[t] = "mkdir"
          BY <3>3, <3>4
        <4>2. CASE mount[t] = mount[s]
          BY <4>1, <4>2, <3>3, <1>0
        <4>3. CASE mount[t] # mount[s]
          <5>1. node[mount[t]] # "none"
            BY <3>1, <3>4, <4>1, <4>3, <1>0 DEF Places, StartupTypeOK, Folders
          <5>2. PICK q \in Servers : mount[q] > mount[t]
            BY <5>1, <4>1, <2>1 DEF Overtaken
          <5>3. mount'[q] >= mount[q]
            BY <3>3, <1>0
          <5>4. mount'[q] \in Int
            BY <3>3, <1>0
          <5> QED
            BY <5>2, <5>3, <5>4, <4>1, <1>0
        <4> QED
          BY <4>2, <4>3
      <3> QED
        BY <2>2, <3>2, <3>4 DEF Overtaken
    <2>4. CASE node[mount[s]] # "none"
      <3>1. pc' = [pc EXCEPT ![s] = "exited"] /\ UNCHANGED <<node, mount>> /\ pc[s] = "mkdir"
        BY <1>2, <2>4 DEF MakeDir, Goto
      <3>2. PICK r \in Servers : mount[r] > mount[s]
        BY <3>1, <2>1, <2>4 DEF Overtaken
      <3>3. PICK q \in Servers : Ahead(q)
        BY <2>1 DEF SomeoneAhead
      <3>4. q # s
        BY <3>2, <3>3, <1>0 DEF Ahead
      <3>5. Ahead(q)'
        BY <3>1, <3>3, <3>4, <1>0 DEF Ahead, StartupTypeOK
      <3>6. Overtaken'
        BY <3>1, <2>1, <1>0 DEF Overtaken, StartupTypeOK
      <3> QED
        BY <2>2, <3>5, <3>6 DEF SomeoneAhead
    <2> QED
      BY <2>3, <2>4
  <1>3. CASE AppInit(s)
    <2>1. ~disturbed /\ OnlyFolders /\ Overtaken /\ SomeoneAhead
      BY <1>3 DEF AppInit, SInv, Quiet
    <2> QED
      BY <1>0, <1>3, <2>1
      DEF AppInit, Goto, OnlyFolders, Overtaken, SomeoneAhead, Ahead, StartupTypeOK
  <1>4. CASE Bind(s)
    <2>1. ~disturbed /\ OnlyFolders /\ Overtaken /\ SomeoneAhead
      BY <1>4 DEF Bind, SInv, Quiet
    <2>2. UNCHANGED <<node, mount>> /\ \A t \in Servers \ {s} : pc'[t] = pc[t]
      BY <1>0, <1>4 DEF Bind, Goto, StartupTypeOK
    <2>3. pc'[s] # "mkdir"
      BY <1>0, <1>4 DEF Bind, Goto, StartupTypeOK
    <2>4. OnlyFolders' /\ Overtaken'
      BY <2>1, <2>2, <2>3 DEF OnlyFolders, Overtaken
    <2>5. PICK h \in Servers : pc'[h] = "listening" /\ mount[h] = Mounts + 1
      <3>1. CASE port = {}
        BY <1>0, <1>4, <3>1 DEF Bind, Goto, StartupTypeOK, Places
      <3>2. CASE port # {}
        <4>1. PICK h : h \in port
          BY <3>2
        <4>2. h \in Servers /\ pc[h] = "listening" /\ pc[s] = "bind"
          BY <1>0, <1>4, <4>1 DEF StartupTypeOK, Bind
        <4> QED
          BY <4>2, <2>2, <1>0 DEF Places
      <3> QED
        BY <3>1, <3>2
    <2>6. Ahead(h)'
      BY <2>2, <2>5, <1>0, StartupAssumption DEF Ahead, StartupTypeOK
    <2> QED
      BY <2>4, <2>6 DEF SomeoneAhead
  <1>5. CASE StartFails(s)
    BY <1>5 DEF StartFails
  <1> QED
    BY <1>1, <1>2, <1>3, <1>4, <1>5 DEF ServerStep

LEMMA StartupStep == SInv /\ [StartupNext]_startupVars => SInv'
  <1> SUFFICES ASSUME SInv, [StartupNext]_startupVars PROVE SInv'
    OBVIOUS
  <1>1. ASSUME NEW s \in Servers, ServerStep(s)
        PROVE  SInv'
    BY <1>1, ServerKeepsTypes, ServerKeepsMade, ServerKeepsQuiet DEF SInv
  <1>2. ASSUME NEW s \in Servers, Kill(s) \/ Restart(s)
        PROVE  SInv'
    <2>1. Quiet'
      BY <1>2 DEF Quiet, Kill, Restart
    <2> QED
      BY <1>2, <2>1, ServerKeepsTypes, ServerKeepsMade DEF SInv
  <1>3. ASSUME NEW m \in Folders, Tamper(m)
        PROVE  SInv'
    <2>0. PICK n \in {"none", "dir", "file"} : node' = [node EXCEPT ![m] = n]
      BY <1>3 DEF Tamper
    <2>1. StartupTypeOK' /\ Places'
      <3>1. removed' \in BOOLEAN
        BY <1>3 DEF SInv, StartupTypeOK, Tamper
      <3>2. events' \in 0..MaxEvents
        BY <1>3, StartupAssumption DEF SInv, StartupTypeOK, Tamper
      <3> QED
        BY <1>3, <2>0, <3>1, <3>2 DEF SInv, StartupTypeOK, Places, Tamper
    <2>2. Made'
      BY <1>3 DEF SInv, StartupTypeOK, Made, Tamper
    <2>3. Quiet'
      BY <1>3 DEF Quiet, Tamper
    <2> QED
      BY <2>1, <2>2, <2>3 DEF SInv
  <1>4. CASE UNCHANGED startupVars
    BY <1>4 DEF SInv, startupVars, StartupTypeOK, Places, Made, Quiet, OnlyFolders, Overtaken,
                SomeoneAhead, Ahead, Labels, Folders
  <1> QED
    BY <1>1, <1>2, <1>3, <1>4 DEF StartupNext

-----------------------------------------------------------------------------
(* The head of a response. *)

LEMMA HeadInitially == HeadInit => HInv
  BY HeadAssumption DEF HeadInit, HInv, HeadTypeOK, HeadSound

LEMMA HeadStep == HInv /\ [HeadNext]_headVars => HInv'
  <1> SUFFICES ASSUME HInv, [HeadNext]_headVars PROVE HInv'
    OBVIOUS
  <1> USE HeadAssumption DEF HInv, HeadTypeOK, HeadSound
  <1>1. CASE Begin
    BY <1>1 DEF Begin
  <1>2. CASE StatusLine
    BY <1>2 DEF StatusLine, Line, Fits, headersLimit
  <1>3. CASE TypeLine
    BY <1>3 DEF TypeLine, Line, Fits, headersLimit
  <1>4. CASE ExtraLine
    BY <1>4 DEF ExtraLine, Line, Fits, headersLimit
  <1>5. CASE EndLine
    BY <1>5 DEF EndLine
  <1>6. CASE UNCHANGED headVars
    BY <1>6 DEF headVars
  <1> QED
    BY <1>1, <1>2, <1>3, <1>4, <1>5, <1>6 DEF HeadNext

-----------------------------------------------------------------------------
(* Both. *)

LEMMA Invariance == Spec => []IInv
  <1>1. Init => IInv
    BY StartupInitially, HeadInitially DEF Init, IInv, HeadInit
  <1>2. IInv /\ [Next]_vars => IInv'
    <2> SUFFICES ASSUME IInv, [Next]_vars PROVE IInv'
      OBVIOUS
    <2>1. CASE StartupNext /\ port' = port /\ UNCHANGED headVars
      BY <2>1, StartupStep, HeadStep DEF IInv, headVars
    <2>2. CASE StartupNext /\ port' # port /\ at' = "idle" /\ left' = 0 /\ written' = 0 /\ total' = 0
      <3>1. HInv'
        BY <2>2, HeadAssumption DEF HInv, HeadTypeOK, HeadSound
      <3> QED
        BY <2>2, <3>1, StartupStep DEF IInv
    <2>3. CASE port # {} /\ HeadNext /\ UNCHANGED startupVars
      BY <2>3, StartupStep, HeadStep DEF IInv, startupVars
    <2>4. CASE UNCHANGED vars
      BY <2>4, StartupStep, HeadStep DEF IInv, vars, startupVars, headVars
    <2> QED
      BY <2>1, <2>2, <2>3, <2>4 DEF Next
  <1> QED
    BY <1>1, <1>2, PTL DEF Spec

\* Every server is at its place, at most one has the port, and lengths stay numbers.
THEOREM TypeCorrect == Spec => []TypeOK
  <1>1. IInv => TypeOK
    BY DEF IInv, SInv, HInv, TypeOK
  <1> QED
    BY <1>1, Invariance, PTL

\* Nobody listens without its folders, however many servers make them at once and are killed
\* and started again on the way.
THEOREM RootsAreThere == Spec => []RootsExist
  <1>1. IInv => RootsExist
    <2> SUFFICES ASSUME IInv, ~removed, NEW s \in Servers, pc[s] = "listening", NEW m \in Folders
                 PROVE  node[m] = "dir"
      BY DEF RootsExist
    <2>1. mount[s] = Mounts + 1 /\ m < Mounts + 1
      BY StartupAssumption DEF IInv, SInv, Places, Folders
    <2> QED
      BY <2>1 DEF IInv, SInv, Made
  <1> QED
    BY <1>1, Invariance, PTL

\* Of any number of servers that race for the folders and the port, one ends up listening.
THEOREM OneServes == Spec => []SomebodyServes
  <1>1. IInv => SomebodyServes
    BY DEF IInv, SInv, Quiet, SomeoneAhead, Ahead, SomebodyServes
  <1> QED
    BY <1>1, Invariance, PTL

\* For every buffer size and every line, the head is sent whole or refused for its length.
THEOREM HeadsAreWhole == Spec => []HeadIsWhole
  <1>1. IInv => HeadIsWhole
    BY DEF IInv, HInv, HeadSound, HeadIsWhole
  <1> QED
    BY <1>1, Invariance, PTL
=============================================================================
