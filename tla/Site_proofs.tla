----------------------------- MODULE Site_proofs ------------------------------
(***************************************************************************)
(* Proofs about Site: for every search index, tree of files and set of     *)
(* sections, whatever is clicked, typed, answered or left in which order.  *)
(* A page is a part of the state of its own, so each part has its          *)
(* invariant, and a step is a step of one part or loads a page.            *)
(***************************************************************************)
EXTENDS Site, TLAPS, FiniteSetTheorems, SequenceTheorems, NaturalsInduction, WellFoundedInduction

-----------------------------------------------------------------------------
(* The example page. *)

PictureSound ==
    /\ picture \in {"loading", "good", "broken"}
    /\ told => picture # "loading"
    /\ PictureOrPlaceholder

LEMMA PictureStarts == PublicInit => PictureSound
  BY DEF PublicInit, PictureSound, PictureOrPlaceholder

LEMMA PictureStartsAgain == PublicLoad => PictureSound'
  BY DEF PublicLoad, PictureSound, PictureOrPlaceholder

LEMMA PictureKeeps ==
  ASSUME PictureSound, PublicNext \/ UNCHANGED publicVars
  PROVE  PictureSound'
  <1> USE DEF PictureSound, PictureOrPlaceholder
  <1>1. CASE PictureEnds
    BY <1>1 DEF PictureEnds
  <1>2. CASE RunScript
    BY <1>2 DEF RunScript, ShowPlaceholder, HidePlaceholder
  <1>3. CASE PictureEvent
    BY <1>3 DEF PictureEvent, ShowPlaceholder, HidePlaceholder
  <1>4. CASE UNCHANGED publicVars
    BY <1>4 DEF publicVars
  <1> QED
    BY <1>1, <1>2, <1>3, <1>4 DEF PublicNext

-----------------------------------------------------------------------------
(* The documentation page. *)

Answers == Statuses \cup {"", "sending", "failed"}

\* What is known of the theme and the place is known once the page is mounted.
DocsSound ==
    /\ saved \in {"dark", "light", "none"} /\ isDark \in BOOLEAN /\ hash \in Hashes
    /\ requests \in [Forms -> Nat]
    /\ status \in [Forms -> Answers] /\ response \in [Forms -> Answers]
    /\ DocsPageAgrees

LEMMA DocsStarts == DocsInit => DocsSound
  <1> SUFFICES ASSUME DocsInit PROVE DocsSound
    OBVIOUS
  <1>1. EchoSettles /\ PageFollowsBrowser
    BY DEF DocsInit, EchoSettles, PageFollowsBrowser
  <1> QED
    BY <1>1 DEF DocsInit, DocsSound, DocsPageAgrees, Hashes, Answers

LEMMA DocsStartsAgain ==
  ASSUME DocsSound, NEW h \in Hashes, DocsLoad(h)
  PROVE  DocsSound'
  <1>1. EchoSettles' /\ PageFollowsBrowser'
    BY DEF DocsLoad, EchoSettles, PageFollowsBrowser
  <1> QED
    BY <1>1 DEF DocsLoad, DocsSound, DocsPageAgrees, Hashes, Answers

\* A step that leaves the forms alone.
LEMMA FormsStay ==
  ASSUME DocsSound, UNCHANGED forms
  PROVE  /\ requests' \in [Forms -> Nat] /\ EchoSettles'
         /\ status' \in [Forms -> Answers] /\ response' \in [Forms -> Answers]
  BY DEF DocsSound, DocsPageAgrees, EchoSettles, forms

\* A step of the forms alone: one form settles or asks again.
LEMMA FormStep ==
  ASSUME DocsSound, UNCHANGED <<docs, theme, place, toasts>>, NEW f \in Forms, NEW n \in Nat,
         NEW s \in Answers, NEW text \in Answers,
         requests' = [requests EXCEPT ![f] = n],
         status' = [status EXCEPT ![f] = s], response' = [response EXCEPT ![f] = text],
         s = "sending" => n > 0 /\ text = "",
         s # "sending" => text = s
  PROVE  DocsSound'
  <1>1. UNCHANGED <<docs, saved, isDark, themeDark, hash, hashEvent, currentId>>
    BY DEF theme, place
  <1>2. PageFollowsBrowser'
    BY <1>1 DEF DocsSound, DocsPageAgrees, PageFollowsBrowser
  <1>3. /\ requests' \in [Forms -> Nat]
        /\ status' \in [Forms -> Answers] /\ response' \in [Forms -> Answers]
    BY DEF DocsSound
  <1>4. /\ requests'[f] = n /\ status'[f] = s /\ response'[f] = text
        /\ \A g \in Forms \ {f} :
              requests'[g] = requests[g] /\ status'[g] = status[g] /\ response'[g] = response[g]
    BY DEF DocsSound
  <1>5. EchoSettles'
    BY <1>4 DEF DocsSound, DocsPageAgrees, EchoSettles
  <1> QED
    BY <1>1, <1>2, <1>3, <1>5 DEF DocsSound, DocsPageAgrees

LEMMA DocsKeeps ==
  ASSUME DocsSound, DocsNext \/ UNCHANGED docsVars
  PROVE  DocsSound'
  <1> USE DEF theme, place
  <1>1. CASE SectionsArrive
    BY <1>1, FormsStay DEF SectionsArrive, InitialDark, DocsSound, DocsPageAgrees, PageFollowsBrowser
  <1>2. CASE ToggleTheme
    BY <1>2, FormsStay DEF ToggleTheme, DocsSound, DocsPageAgrees, PageFollowsBrowser
  <1>3. CASE Filter
    BY <1>3, FormsStay DEF Filter, DocsSound, DocsPageAgrees, PageFollowsBrowser
  <1>4. CASE ChooseSection
    <2>1. PICK s \in DocSections : currentId' = s /\ hash' = s /\ hashEvent' = (hashEvent \/ hash # s)
      BY <1>4 DEF ChooseSection, FilteredSections
    <2>2. SectionOf(s) = s /\ s \in Hashes
      BY DocsAssumption DEF SectionOf, Hashes
    <2> QED
      BY <1>4, <2>1, <2>2, FormsStay DEF ChooseSection, DocsSound, DocsPageAgrees, PageFollowsBrowser
  <1>5. CASE HashChanges
    BY <1>5, FormsStay DEF HashChanges, DocsSound, DocsPageAgrees, PageFollowsBrowser
  <1>6. CASE HashEvent
    BY <1>6, FormsStay DEF HashEvent, DocsSound, DocsPageAgrees, PageFollowsBrowser
  <1>7. CASE SendEcho
    <2>1. PICK f \in Forms : /\ requests' = [requests EXCEPT ![f] = @ + 1]
                             /\ status' = [status EXCEPT ![f] = "sending"]
                             /\ response' = [response EXCEPT ![f] = ""]
      BY <1>7 DEF SendEcho
    <2>2. requests[f] + 1 \in Nat /\ requests[f] + 1 > 0
      BY DEF DocsSound
    <2> QED
      BY <1>7, <2>1, <2>2, FormStep DEF SendEcho, Answers
  <1>8. CASE EchoAnswers
    <2>1. PICK f \in Forms, s \in Statuses :
             /\ requests[f] > 0 /\ requests' = [requests EXCEPT ![f] = @ - 1]
             /\ status' = [status EXCEPT ![f] = s] /\ response' = [response EXCEPT ![f] = s]
      BY <1>8 DEF EchoAnswers
    <2>2. requests[f] \in Nat
      BY DEF DocsSound
    <2>3. requests[f] - 1 \in Nat
      BY <2>1, <2>2
    <2>4. s # "sending"
      BY DocsAssumption
    <2> QED
      BY <1>8, <2>1, <2>3, <2>4, FormStep DEF EchoAnswers, Answers
  <1>9. CASE EchoFails
    <2>1. PICK f \in Forms :
             /\ requests[f] > 0 /\ requests' = [requests EXCEPT ![f] = @ - 1]
             /\ status' = [status EXCEPT ![f] = "failed"]
             /\ response' = [response EXCEPT ![f] = "failed"]
      BY <1>9 DEF EchoFails
    <2>2. requests[f] \in Nat
      BY DEF DocsSound
    <2>3. requests[f] - 1 \in Nat
      BY <2>1, <2>2
    <2> QED
      BY <1>9, <2>1, <2>3, FormStep DEF EchoFails, Answers
  <1>10. CASE Copy \/ ToastTimer \/ UNCHANGED docsVars
    BY <1>10, FormsStay DEF Copy, ToastTimer, docsVars, DocsSound, DocsPageAgrees, PageFollowsBrowser
  <1> QED
    BY <1>1, <1>2, <1>3, <1>4, <1>5, <1>6, <1>7, <1>8, <1>9, <1>10 DEF DocsNext

-----------------------------------------------------------------------------
(* The table of files. *)

TreeSound ==
    /\ shownRows \subseteq Tree /\ openFolders \subseteq Folders
    /\ IconsTellTheTruth

\* One path is the beginning of another exactly if it agrees with it as far as it goes.
LEMMA PrefixAgrees ==
  ASSUME NEW p \in Seq(Nat), NEW q \in Seq(Nat)
  PROVE  IsPrefix(p, q) <=> Len(p) <= Len(q) /\ \A i \in 1..Len(p) : p[i] = q[i]
  <1>1. Len(p) \in Nat /\ Len(q) \in Nat
    OBVIOUS
  <1>2. ASSUME Len(p) <= Len(q)
        PROVE  SubSeq(p, 1, Len(p)) = SubSeq(q, 1, Len(p)) <=> \A i \in 1..Len(p) : p[i] = q[i]
    <2>1. /\ Len(SubSeq(p, 1, Len(p))) = Len(p) /\ Len(SubSeq(q, 1, Len(p))) = Len(p)
          /\ SubSeq(p, 1, Len(p)) \in Seq(Nat) /\ SubSeq(q, 1, Len(p)) \in Seq(Nat)
          /\ \A i \in 1..Len(p) : SubSeq(p, 1, Len(p))[i] = p[i] /\ SubSeq(q, 1, Len(p))[i] = q[i]
      BY <1>1, <1>2
    <2> QED
      BY <2>1
  <1> QED
    BY <1>1, <1>2 DEF IsPrefix

\* A row right below another is one longer and agrees with it; so it is below no other.
LEMMA ParentIsFront ==
  ASSUME NEW f \in Tree, NEW r \in Tree
  PROVE  r \in Children(f) <=> Len(r) > 1 /\ Front(r) = f
  <1>1. f \in Seq(Nat) /\ r \in Seq(Nat) /\ Len(f) \in Nat \ {0} /\ Len(r) \in Nat \ {0}
    BY TreeAssumption
  <1>2. ASSUME Len(r) > 1
        PROVE  /\ Front(r) \in Seq(Nat) /\ Len(Front(r)) = Len(r) - 1
               /\ \A i \in 1..(Len(r) - 1) : Front(r)[i] = r[i]
    BY <1>1, <1>2 DEF Front
  <1>3. r \in Children(f) <=> Len(r) = Len(f) + 1 /\ \A i \in 1..Len(f) : f[i] = r[i]
    BY <1>1, PrefixAgrees DEF Children
  <1>4. ASSUME r \in Children(f) PROVE Len(r) > 1 /\ Front(r) = f
    <2>1. Len(r) = Len(f) + 1 /\ Len(r) > 1 /\ Len(r) - 1 = Len(f)
      BY <1>1, <1>3, <1>4
    <2>2. /\ Front(r) \in Seq(Nat) /\ Len(Front(r)) = Len(f)
          /\ \A i \in 1..Len(f) : Front(r)[i] = f[i]
      BY <1>2, <1>3, <1>4, <2>1
    <2> QED
      BY <1>1, <2>1, <2>2
  <1>5. ASSUME Len(r) > 1, Front(r) = f PROVE r \in Children(f)
    BY <1>1, <1>2, <1>3, <1>5
  <1> QED
    BY <1>4, <1>5

\* What is right below a row is below all the row is below, and below the row itself.
LEMMA BelowGoesOn ==
  ASSUME NEW f \in Tree, NEW g \in Tree, NEW r \in Children(g)
  PROVE  r \in Below(f) <=> g = f \/ g \in Below(f)
  <1>1. /\ f \in Seq(Nat) /\ g \in Seq(Nat) /\ r \in Seq(Nat) /\ r \in Tree
        /\ Len(f) \in Nat /\ Len(g) \in Nat /\ Len(r) = Len(g) + 1
    BY TreeAssumption DEF Children
  <1>2. \A i \in 1..Len(g) : g[i] = r[i]
    BY <1>1, PrefixAgrees DEF Children
  <1>3. ASSUME r \in Below(f) PROVE g = f \/ g \in Below(f)
    <2>1. r # f /\ Len(f) <= Len(r) /\ \A i \in 1..Len(f) : f[i] = r[i]
      BY <1>1, <1>3, PrefixAgrees DEF Below
    <2>2. Len(f) # Len(r)
      <3>1. ASSUME Len(f) = Len(r) PROVE f = r
        BY <1>1, <2>1, <3>1, SeqEqual
      <3> QED
        BY <2>1, <3>1
    <2>3. Len(f) <= Len(g)
      BY <1>1, <2>1, <2>2
    <2>4. \A i \in 1..Len(f) : f[i] = g[i]
      BY <1>1, <1>2, <2>1, <2>3
    <2>5. IsPrefix(f, g)
      BY <1>1, <2>3, <2>4, PrefixAgrees
    <2> QED
      BY <2>5 DEF Below
  <1>4. ASSUME g = f \/ g \in Below(f) PROVE r \in Below(f)
    <2>1. IsPrefix(f, g)
      BY <1>1, <1>4, PrefixAgrees DEF Below
    <2>2. Len(f) <= Len(g) /\ \A i \in 1..Len(f) : f[i] = g[i]
      BY <1>1, <2>1, PrefixAgrees
    <2>3. Len(f) <= Len(r) /\ \A i \in 1..Len(f) : f[i] = r[i]
      BY <1>1, <1>2, <2>2
    <2>4. IsPrefix(f, r) /\ r # f
      BY <1>1, <2>2, <2>3, PrefixAgrees
    <2> QED
      BY <1>1, <2>4 DEF Below
  <1> QED
    BY <1>3, <1>4

\* IconsTellTheTruth in terms of rows right below one another.
LEMMA IconsByChildren ==
  ASSUME NEW shown \in SUBSET Tree, NEW r \in shown, Len(r) > 1
  PROVE  Front(r) \in Tree /\ r \in Children(Front(r))
  <1>1. Front(r) \in Tree
    BY TreeAssumption
  <1> QED
    BY <1>1, ParentIsFront

\* A set of numbers has a smallest one.
LEMMA Least ==
  ASSUME NEW T, T \subseteq Nat, T # {}
  PROVE  \E x \in T : \A y \in T : x <= y
  <1>1. PICK x \in T : \A y \in T : ~(<<y, x>> \in OpToRel(<, Nat))
    BY NatLessThanWellFounded, WFMin
  <1>2. \A y \in T : ~(y < x)
    BY <1>1 DEF OpToRel
  <1> QED
    BY <1>2

\* A folder has a first child.
LEMMA FirstChildIsChild ==
  ASSUME NEW f \in Folders
  PROVE  FirstChild(f) \in Children(f)
  <1> DEFINE numbers == {r[Len(r)] : r \in Children(f)}
  <1>1. numbers \subseteq Nat
    <2>1. \A r \in Children(f) : r \in Seq(Nat) /\ Len(r) \in Nat \ {0}
      BY TreeAssumption DEF Children, Folders
    <2> QED
      BY <2>1
  <1>2. numbers # {}
    BY DEF Folders
  <1>3. PICK n \in numbers : \A m \in numbers : n <= m
    <2> HIDE DEF numbers
    <2> QED
      BY <1>1, <1>2, Least
  <1>4. \E r \in Children(f) : \A q \in Children(f) : r[Len(r)] <= q[Len(q)]
    BY <1>3
  <1> QED
    BY <1>4 DEF FirstChild

LEMMA TreeStarts == TreeInit => TreeSound
  <1>1. \A f \in Folders : Children(f) \subseteq Tree
    BY DEF Children
  <1> QED
    BY <1>1, TreeAssumption DEF TreeInit, TreeSound, IconsTellTheTruth, Folders

LEMMA TreeStartsAgain == TreeLoad => TreeSound'
  <1>1. \A f \in Folders : Children(f) \subseteq Tree
    BY DEF Children
  <1> QED
    BY <1>1, TreeAssumption DEF TreeLoad, TreeSound, IconsTellTheTruth, Folders

\* All that is below the folder goes, and what stays keeps its children or has none displayed.
LEMMA HideKeeps ==
  ASSUME TreeSound, NEW f \in Folders \cap shownRows, HideFolder(f)
  PROVE  TreeSound'
  <1>1. f \in Tree /\ shownRows \subseteq Tree /\ shownRows' \subseteq Tree /\ openFolders' \subseteq Folders
    BY DEF TreeSound, HideFolder
  <1>2. ASSUME NEW r \in shownRows', Len(r) > 1 PROVE Front(r) \in shownRows'
    <2>1. Front(r) \in Tree /\ r \in Children(Front(r)) /\ r \in shownRows /\ r \notin Below(f)
      BY <1>1, <1>2, IconsByChildren DEF HideFolder
    <2>2. Front(r) \in shownRows
      BY <1>2, <2>1 DEF TreeSound, IconsTellTheTruth
    <2> QED
      BY <1>1, <2>1, <2>2, BelowGoesOn DEF HideFolder
  <1>3. ASSUME NEW g \in Folders \cap shownRows'
        PROVE  IF g \in openFolders' THEN Children(g) \subseteq shownRows'
                                     ELSE Children(g) \cap shownRows' = {}
    <2>1. g \in Tree /\ g \in shownRows /\ g \notin Below(f)
      BY <1>1, <1>3 DEF HideFolder
    <2>2. CASE g = f
      <3>1. \A r \in Children(f) : r \in Below(f)
        BY <1>1, BelowGoesOn
      <3> QED
        BY <2>2, <3>1 DEF HideFolder
    <2>3. CASE g # f
      <3>1. \A r \in Children(g) : r \notin Below(f)
        BY <1>1, <2>1, <2>3, BelowGoesOn
      <3>2. IF g \in openFolders THEN Children(g) \subseteq shownRows
                                 ELSE Children(g) \cap shownRows = {}
        BY <1>3, <2>1 DEF TreeSound, IconsTellTheTruth
      <3> QED
        BY <2>3, <3>1, <3>2 DEF HideFolder
    <2> QED
      BY <2>2, <2>3
  <1> QED
    BY <1>1, <1>2, <1>3 DEF TreeSound, IconsTellTheTruth

\* A folder shown anew was closed, so of what is right below its children nothing is displayed.
LEMMA ShowKeeps ==
  ASSUME TreeSound, NEW f \in Folders \cap shownRows, FirstChild(f) \notin shownRows, ShowFolder(f)
  PROVE  TreeSound'
  <1>1. /\ f \in Tree /\ shownRows \subseteq Tree /\ Children(f) \subseteq Tree
        /\ shownRows' \subseteq Tree /\ openFolders' \subseteq Folders
    BY DEF TreeSound, ShowFolder, Children
  <1>2. Children(f) \cap shownRows = {}
    BY FirstChildIsChild DEF TreeSound, IconsTellTheTruth
  <1>3. f \notin Children(f)
    <2>1. Len(f) \in Nat
      BY <1>1, TreeAssumption
    <2> QED
      BY <2>1 DEF Children
  <1>4. ASSUME NEW r \in shownRows', Len(r) > 1 PROVE Front(r) \in shownRows'
    <2>1. CASE r \in shownRows
      BY <1>4, <2>1 DEF TreeSound, IconsTellTheTruth, ShowFolder
    <2>2. CASE r \in Children(f)
      BY <1>1, <2>2, ParentIsFront DEF ShowFolder
    <2> QED
      BY <2>1, <2>2 DEF ShowFolder
  <1>5. ASSUME NEW g \in Folders \cap shownRows'
        PROVE  IF g \in openFolders' THEN Children(g) \subseteq shownRows'
                                     ELSE Children(g) \cap shownRows' = {}
    <2>1. g \in Tree /\ Children(g) \subseteq Tree
      BY <1>1 DEF Children
    <2>2. g # f => Children(g) \cap Children(f) = {}
      BY <1>1, <2>1, ParentIsFront
    <2>3. CASE g = f
      BY <1>3, <2>3 DEF ShowFolder
    <2>4. CASE g \in Children(f)
      <3>1. \A r \in Children(g) : Len(r) > 1 /\ Front(r) = g
        BY <2>1, ParentIsFront
      <3>2. Children(g) \cap shownRows = {}
        BY <1>2, <2>4, <3>1 DEF TreeSound, IconsTellTheTruth
      <3> QED
        BY <1>3, <2>2, <2>4, <3>2 DEF ShowFolder
    <2>5. CASE g \in shownRows /\ g # f /\ g \notin Children(f)
      <3>1. IF g \in openFolders THEN Children(g) \subseteq shownRows
                                 ELSE Children(g) \cap shownRows = {}
        BY <1>5, <2>5 DEF TreeSound, IconsTellTheTruth
      <3> QED
        BY <2>2, <2>5, <3>1 DEF ShowFolder
    <2> QED
      BY <1>5, <2>3, <2>4, <2>5 DEF ShowFolder
  <1> QED
    BY <1>1, <1>4, <1>5 DEF TreeSound, IconsTellTheTruth

LEMMA LevelKeeps ==
  ASSUME TreeSound, ToggleLevel
  PROVE  TreeSound'
  <1>1. PICK level \in Levels :
           /\ shownRows' = {r \in Tree : Len(r) <= level}
           /\ openFolders' = {f \in Folders :
                  Len(f) < level \/ (Len(f) > level /\ f \in openFolders)}
    BY DEF ToggleLevel
  <1>2. level \in Nat /\ \A r \in Tree : Len(r) \in Nat
    BY TreeAssumption
  <1>3. ASSUME NEW r \in shownRows', Len(r) > 1 PROVE Front(r) \in shownRows'
    <2>1. Front(r) \in Tree /\ r \in Children(Front(r))
      BY <1>1, <1>3, IconsByChildren
    <2> QED
      BY <1>1, <1>2, <2>1 DEF Children
  <1>4. ASSUME NEW g \in Folders \cap shownRows'
        PROVE  IF g \in openFolders' THEN Children(g) \subseteq shownRows'
                                     ELSE Children(g) \cap shownRows' = {}
    <2>1. \A r \in Children(g) : r \in Tree /\ Len(r) = Len(g) + 1
      BY DEF Children
    <2>2. Len(g) \in Nat /\ Len(g) <= level /\ g \in Folders
      BY <1>1, <1>2
    <2> QED
      BY <1>1, <1>2, <2>1, <2>2
  <1> QED
    BY <1>1, <1>3, <1>4 DEF TreeSound, IconsTellTheTruth

LEMMA TreeKeeps ==
  ASSUME TreeSound, TreeNext \/ UNCHANGED treeVars
  PROVE  TreeSound'
  <1>1. CASE ToggleFolder
    BY <1>1, HideKeeps, ShowKeeps DEF ToggleFolder
  <1>2. CASE ToggleLevel
    BY <1>2, LevelKeeps
  <1>3. CASE UNCHANGED treeVars
    BY <1>3 DEF treeVars, TreeSound, IconsTellTheTruth
  <1> QED
    BY <1>1, <1>2, <1>3 DEF TreeNext

-----------------------------------------------------------------------------
(* The section that the session remembers.                                 *)

LEMMA SectionsCounted ==
  Cardinality(Sections) \in Nat \ {0} /\ Sections = 0..(Cardinality(Sections) - 1)
  <1>1. Cardinality(Sections) \in Nat
    BY IndexAssumption, FS_CardinalityType
  <1> QED
    BY <1>1, IndexAssumption

SectionSound ==
    /\ searchIndex \in 0..Cardinality(Sections) /\ cookie \in Sections \cup {-1}
    /\ page \in Pages
    /\ SectionIsRemembered

LEMMA SectionsStart == SearchInit /\ page = "public" => SectionSound
  BY SectionsCounted DEF SearchInit, SectionSound, SectionIsRemembered, ApiPages, Pages

\* Whatever page is opened: an API page selects what is remembered and remembers it.
LEMMA SectionsStartAgain ==
  ASSUME SectionSound, NEW p \in Pages, page' = p, SearchLoad(p \in ApiPages)
  PROVE  SectionSound'
  <1>1. SelectionId(cookie) \in Sections /\ 0 \in Sections
    BY SectionsCounted DEF SelectionId
  <1>2. CASE p \in ApiPages
    BY <1>1, <1>2, SectionsCounted
       DEF SearchLoad, SectionSound, SectionIsRemembered, RememberedSection
  <1>3. CASE p \notin ApiPages
    BY <1>1, <1>3, SectionsCounted DEF SearchLoad, SectionSound, SectionIsRemembered
  <1> QED
    BY <1>2, <1>3

\* A section is selected, or one beyond the last, which is reached from the last only.
LEMMA SelectKeeps ==
  ASSUME SectionSound, page \in ApiPages, page' = page, NEW id \in 0..Cardinality(Sections),
         id \in {searchIndex, searchIndex + 1} \/ id \in Sections,
         searchIndex' = id, Remember(id)
  PROVE  SectionSound'
  <1> DEFINE count == Cardinality(Sections)
  <1>1. count \in Nat \ {0} /\ Sections = 0..(count - 1)
    BY SectionsCounted
  <1> HIDE DEF count
  <1>2. searchIndex \in 0..count /\ cookie \in Sections \cup {-1} /\ id \in 0..count
    BY DEF SectionSound, count
  <1>3. cookie # -1 => cookie = IF searchIndex \in Sections THEN searchIndex ELSE count - 1
    BY DEF SectionSound, SectionIsRemembered, RememberedSection, count
  <1>4. cookie' = IF id \in Sections THEN id ELSE cookie
    BY DEF Remember
  <1>5. cookie' # -1 => cookie' = IF id \in Sections THEN id ELSE count - 1
    <2>1. CASE id \in Sections
      BY <1>4, <2>1
    <2>2. CASE id \notin Sections
      <3>1. id = count /\ (searchIndex = count \/ searchIndex = count - 1)
        BY <1>1, <1>2, <2>2
      <3> QED
        BY <1>1, <1>3, <1>4, <2>2, <3>1
    <2> QED
      BY <2>1, <2>2
  <1>6. cookie' \in Sections \cup {-1}
    BY <1>2, <1>4
  <1> QED
    BY <1>2, <1>5, <1>6 DEF SectionSound, SectionIsRemembered, RememberedSection, count

LEMMA SectionKeeps ==
  ASSUME SectionSound, page' = page, (page \in ApiPages /\ SearchNext) \/ UNCHANGED searchVars
  PROVE  SectionSound'
  <1> USE DEF selector
  <1>1. CASE UNCHANGED <<searchIndex, cookie>>
    BY <1>1 DEF SectionSound, SectionIsRemembered, RememberedSection
  <1>2. searchIndex \in 0..Cardinality(Sections) /\ Cardinality(Sections) \in Nat
    BY SectionsCounted DEF SectionSound
  <1>3. CASE page \in ApiPages /\ ItemClick
    <2>1. PICK id \in Sections : SelectItem(FocusOn(box, Select), id)
      BY <1>3 DEF ItemClick
    <2>2. id \in 0..Cardinality(Sections)
      BY SectionsCounted
    <2> QED
      BY <1>3, <2>1, <2>2, SelectKeeps DEF SelectItem
  <1>4. CASE page \in ApiPages /\ SelectDown
    <2>1. searchIndex + 1 \in 0..Cardinality(Sections)
      BY <1>2, <1>4 DEF SelectDown
    <2> QED
      BY <1>4, <2>1, SelectKeeps DEF SelectDown, SelectItem
  <1>5. CASE page \in ApiPages /\ SelectUp
    <2>1. searchIndex - 1 \in 0..Cardinality(Sections) /\ searchIndex - 1 \in Sections
      BY <1>2, <1>5, SectionsCounted DEF SelectUp
    <2> QED
      BY <1>5, <2>1, SelectKeeps DEF SelectUp, SelectItem
  <1>6. CASE page \in ApiPages /\ SelectDone
    BY <1>2, <1>6, SelectKeeps DEF SelectDone
  <1>7. CASE KeyTimer \/ LoadScript \/ LoadFails \/ Resize \/ UNCHANGED searchVars
    BY <1>1, <1>7 DEF KeyTimer, LoadScript, LoadFails, Resize, searchVars
  <1>8. CASE FieldStep
    BY <1>1, <1>8 DEF FieldStep, FieldFocus, FieldBlur, Input, KeyUp, FieldDown, FieldSelect, FieldEscape
  <1>9. CASE PointerEnter \/ PointerLeave \/ HideTimer \/ IconKey
    BY <1>1, <1>9 DEF PointerEnter, PointerLeave, HideTimer, IconKey
  <1>10. CASE RowStep
    BY <1>1, <1>10 DEF RowStep, RowDown, RowUp, RowUnfold, RowEscape, CloseButton
  <1> QED
    BY <1>3, <1>4, <1>5, <1>6, <1>7, <1>8, <1>9, <1>10 DEF SearchNext, SelectStep

-----------------------------------------------------------------------------
(* The result list.                                                        *)

Rows == Seq([name : Seq(Nat), members : Nat])

\* The rows displayed stand together, and unfolded rows are displayed rows with members.
ListSound(l) ==
    /\ l.rows \in Rows /\ l.shown \subseteq DOMAIN l.rows
    /\ l.open \subseteq {i \in l.shown : l.rows[i].members > 0}
    /\ \A i, k \in l.shown : i..k \subseteq l.shown
    /\ l = [rows |-> l.rows, shown |-> l.shown, open |-> l.open]

LEMMA Elements ==
  ASSUME NEW S, NEW q \in Seq(S)
  PROVE  \A i \in DOMAIN q : q[i] \in S
  OBVIOUS

\* What the search files hold.
LEMMA FileRows ==
  ASSUME NEW s \in Sections, NEW f \in DOMAIN Index[s]
  PROVE  /\ Index[s][f] \in Rows
         /\ \A i \in DOMAIN Index[s][f] :
               /\ Index[s][f][i].name \in Seq(Nat) /\ Index[s][f][i].members \in Nat
               /\ Index[s][f][i].name # <<>> /\ Index[s][f][i].name[1] = f
  <1>1. /\ Index[s][f] \in Rows
        /\ \A i \in DOMAIN Index[s][f] :
              Index[s][f][i].name # <<>> /\ Index[s][f][i].name[1] = f
    BY IndexAssumption DEF Rows
  <1>2. \A i \in DOMAIN Index[s][f] : Index[s][f][i] \in [name : Seq(Nat), members : Nat]
    BY <1>1, Elements DEF Rows
  <1> QED
    BY <1>1, <1>2

\* The rows that match a word stand together, as the names that begin alike do.
LEMMA MatchingTogether ==
  ASSUME NEW s \in Sections, NEW f \in DOMAIN Index[s], NEW word \in Seq(Nat)
  PROVE  /\ Index[s][f] \in Rows
         /\ \A i, k \in Matching(Index[s][f], word) : i..k \subseteq Matching(Index[s][f], word)
  <1> DEFINE rows == Index[s][f]
  <1>1. /\ rows \in Rows
        /\ \A i, k \in DOMAIN rows : \A j \in i..k, n \in 1..Len(rows[i].name) :
              IsPrefix(SubSeq(rows[i].name, 1, n), rows[k].name)
                 => IsPrefix(SubSeq(rows[i].name, 1, n), rows[j].name)
    BY IndexAssumption DEF Rows
  <1> HIDE DEF rows
  <1>2. ASSUME NEW i \in Matching(rows, word), NEW k \in Matching(rows, word), NEW j \in i..k
        PROVE  j \in Matching(rows, word)
    <2>1. i \in DOMAIN rows /\ k \in DOMAIN rows /\ j \in DOMAIN rows
      BY <1>1 DEF Rows, Matching
    <2>2. rows[i].name \in Seq(Nat) /\ rows[j].name \in Seq(Nat)
      BY <2>1, FileRows DEF rows
    <2>3. IsPrefix(word, rows[i].name) /\ IsPrefix(word, rows[k].name)
      BY DEF Matching
    <2>4. CASE word = <<>>
      <3>1. Len(word) = 0 /\ Len(rows[j].name) \in Nat
        BY <2>2, <2>4
      <3>2. IsPrefix(word, rows[j].name)
        <4>1. IsPrefix(word, rows[j].name) <=>
                 Len(word) <= Len(rows[j].name) /\ \A m \in 1..Len(word) : word[m] = rows[j].name[m]
          BY <2>2, PrefixAgrees
        <4>2. 1..Len(word) = {}
          BY <3>1
        <4> QED
          BY <3>1, <4>1, <4>2
      <3> QED
        BY <2>1, <3>2 DEF Matching
    <2>5. CASE word # <<>>
      <3>1. Len(word) \in 1..Len(rows[i].name)
        BY <2>2, <2>3, <2>5 DEF IsPrefix
      <3>2. SubSeq(rows[i].name, 1, Len(word)) = word
        BY <2>3 DEF IsPrefix
      <3>3. IsPrefix(SubSeq(rows[i].name, 1, Len(word)), rows[j].name)
        <4>1. IsPrefix(SubSeq(rows[i].name, 1, Len(word)), rows[k].name)
          BY <2>3, <3>2
        <4>2. \A n \in 1..Len(rows[i].name) :
                 IsPrefix(SubSeq(rows[i].name, 1, n), rows[k].name)
                    => IsPrefix(SubSeq(rows[i].name, 1, n), rows[j].name)
          BY <1>1, <2>1
        <4> QED
          BY <3>1, <4>1, <4>2
      <3> QED
        BY <2>1, <3>2, <3>3 DEF Matching
    <2> QED
      BY <2>4, <2>5
  <1> QED
    BY <1>1, <1>2 DEF rows

\* A word is looked up in a file of its section, which is that of its first letter if it has one.
LEMMA FileFound ==
  ASSUME NEW s \in Sections, NEW word \in Words
  PROVE  /\ FileOf(s, word) \in DOMAIN Index[s] \cup {0}
         /\ word # <<>> => IF word[1] \in DOMAIN Index[s] THEN FileOf(s, word) = word[1]
                                                         ELSE FileOf(s, word) = 0
  <1>1. DOMAIN Index[s] \subseteq Nat \ {0} /\ DOMAIN Index[s] # {}
    BY IndexAssumption
  <1>2. First(DOMAIN Index[s]) \in DOMAIN Index[s]
    <2>1. \E n \in DOMAIN Index[s] : \A m \in DOMAIN Index[s] : n <= m
      <3> DEFINE T == DOMAIN Index[s]
      <3>1. T \subseteq Nat /\ T # {}
        BY <1>1
      <3> HIDE DEF T
      <3>2. \E n \in T : \A m \in T : n <= m
        BY <3>1, Least
      <3> QED
        BY <3>2 DEF T
    <2> QED
      BY <1>1, <2>1 DEF First
  <1> QED
    BY <1>2 DEF FileOf

LEMMA BuiltSound ==
  ASSUME ListSound(list), NEW s \in Sections, NEW word \in Words
  PROVE  ListSound(Built(s, FileOf(s, word), word))
  <1> DEFINE f == FileOf(s, word)
  <1>1. f \in DOMAIN Index[s] \cup {0} /\ DOMAIN Index[s] \subseteq Nat \ {0} /\ word \in Seq(Nat)
    BY FileFound, IndexAssumption, WordsAssumption
  <1> HIDE DEF f
  <1>2. ASSUME f = 0 PROVE ListSound(Built(s, f, word))
    <2>1. Built(s, f, word) = [rows |-> list.rows, shown |-> {}, open |-> {}]
      BY <1>2 DEF Built
    <2> QED
      BY <2>1 DEF ListSound
  <1>3. ASSUME f # 0 PROVE ListSound(Built(s, f, word))
    <2>1. /\ Index[s][f] \in Rows
          /\ \A i, k \in Matching(Index[s][f], word) : i..k \subseteq Matching(Index[s][f], word)
      BY <1>1, <1>3, MatchingTogether
    <2> DEFINE rows == Index[s][f]
               shown == Matching(rows, word)
    <2>2. shown \subseteq DOMAIN rows
      BY DEF Matching
    <2>3. Built(s, f, word) = [rows |-> rows, shown |-> shown, open |-> {}]
      BY <1>3 DEF Built
    <2> HIDE DEF rows, shown
    <2>4. rows \in Rows /\ \A i, k \in shown : i..k \subseteq shown
      BY <2>1 DEF rows, shown
    <2> QED
      BY <2>2, <2>3, <2>4 DEF ListSound
  <1> QED
    BY <1>2, <1>3 DEF f

\* The rows built for a word are all names of the section that begin with it.
LEMMA BuiltComplete ==
  ASSUME NEW s \in Sections, NEW word \in Words, word # <<>>
  PROVE  LET l == Built(s, FileOf(s, word), word)
         IN  {l.rows[i].name : i \in l.shown} = Names(s, word)
  <1> DEFINE f == FileOf(s, word)
  <1>1. /\ word \in Seq(Nat)
        /\ IF word[1] \in DOMAIN Index[s] THEN f = word[1] ELSE f = 0
        /\ DOMAIN Index[s] \subseteq Nat \ {0}
    BY FileFound, IndexAssumption, WordsAssumption
  <1>2. ASSUME NEW n \in DOMAIN Index[s], NEW i \in DOMAIN Index[s][n],
               IsPrefix(word, Index[s][n][i].name)
        PROVE  n = word[1]
    <2>1. /\ Index[s][n][i].name \in Seq(Nat) /\ Index[s][n][i].name[1] = n
      BY FileRows
    <2>2. word[1] = Index[s][n][i].name[1]
      <3>1. \A m \in 1..Len(word) : word[m] = Index[s][n][i].name[m]
        BY <1>1, <1>2, <2>1, PrefixAgrees
      <3>2. 1 \in 1..Len(word)
        BY <1>1
      <3> QED
        BY <3>1, <3>2
    <2> QED
      BY <2>1, <2>2
  <1>3. ASSUME NEW m
        PROVE  m \in Names(s, word) <=>
                 \E n \in DOMAIN Index[s] : \E i \in DOMAIN Index[s][n] :
                    m = Index[s][n][i].name /\ IsPrefix(word, m)
    BY DEF Names, Range
  <1>4. CASE f = 0
    <2>1. Built(s, f, word).shown = {}
      BY <1>4 DEF Built
    <2>2. Names(s, word) = {}
      BY <1>1, <1>2, <1>3, <1>4
    <2> QED
      BY <2>1, <2>2
  <1>5. CASE f # 0
    <2>1. f = word[1] /\ f \in DOMAIN Index[s]
      BY <1>1, <1>5
    <2>2. Built(s, f, word).rows = Index[s][f] /\ Built(s, f, word).shown = Matching(Index[s][f], word)
      BY <1>5 DEF Built
    <2>3. ASSUME NEW m
          PROVE  m \in Names(s, word) <=>
                   \E i \in Matching(Index[s][f], word) : m = Index[s][f][i].name
      BY <1>2, <1>3, <2>1 DEF Matching
    <2> QED
      BY <2>2, <2>3
  <1> QED
    BY <1>4, <1>5

-----------------------------------------------------------------------------
(* The panel's methods. *)

Places == {Page, Field, Select} \cup OnScreen
Panels(places) ==
    [field : Words, focus : places, active : BOOLEAN, last : Words, open : BOOLEAN, icon : BOOLEAN]

\* The panel remembers a search without showing its answer.
Quiet(b) == b.last # <<>> /\ ~b.open

LEMMA Activated ==
  ASSUME NEW places, NEW b \in Panels(places), NEW on \in BOOLEAN
  PROVE  /\ Activate(b, on) \in Panels(places)
         /\ Activate(b, on).focus = b.focus /\ Activate(b, on).open = b.open
         /\ Quiet(Activate(b, on)) => Quiet(b)
         /\ ~on /\ ~b.open => Activate(b, on).last = <<>>
  BY WordsAssumption DEF Activate, Panels, Quiet

LEMMA Focused ==
  ASSUME NEW places, NEW b \in Panels(places), NEW element \in places
  PROVE  /\ FocusOn(b, element) \in Panels(places)
         /\ FocusOn(b, element).focus = element /\ FocusOn(b, element).open = b.open
         /\ Quiet(FocusOn(b, element)) => Quiet(b)
  <1> DEFINE left == IF b.focus = Field /\ element # Field THEN Activate(b, FALSE) ELSE b
             moved == [left EXCEPT !.focus = element]
  <1>1. left \in Panels(places) /\ left.open = b.open /\ (Quiet(left) => Quiet(b))
    BY Activated
  <1> HIDE DEF left
  <1>2. /\ moved \in Panels(places) /\ moved.open = b.open /\ moved.focus = element
        /\ Quiet(moved) => Quiet(b)
    BY <1>1 DEF Panels, Quiet
  <1> HIDE DEF moved
  <1>3. FocusOn(b, element) = IF element = Field THEN Activate(moved, TRUE) ELSE moved
    BY DEF FocusOn, moved, left
  <1>4. CASE element = Field
    <2>1. /\ Activate(moved, TRUE) \in Panels(places)
          /\ Activate(moved, TRUE).open = moved.open /\ Activate(moved, TRUE).focus = moved.focus
          /\ Quiet(Activate(moved, TRUE)) => Quiet(moved)
      BY <1>2, Activated
    <2> QED
      BY <1>2, <1>3, <1>4, <2>1
  <1>5. CASE element # Field
    BY <1>2, <1>3, <1>5
  <1> QED
    BY <1>4, <1>5

LEMMA Hidden ==
  ASSUME NEW places, Page \in places, NEW b \in Panels(places)
  PROVE  /\ Hide(b) \in Panels(places) /\ ~Hide(b).open /\ Hide(b).last = b.last
         /\ Hide(b).focus = IF InResults(b) THEN Page ELSE b.focus
  BY DEF Hide, Panels

LEMMA ResultsClosed ==
  ASSUME NEW places, Page \in places, NEW b \in Panels(places)
  PROVE  CloseResults(b) \in Panels(places) /\ CloseResults(b).last = <<>>
  <1>1. Hide(b) \in Panels(places) /\ ~Hide(b).open
    BY Hidden
  <1> HIDE DEF Hide
  <1> QED
    BY <1>1, Activated DEF CloseResults

LEMMA Displayed ==
  ASSUME NEW places, Page \in places, NEW b \in Panels(places)
  PROVE  /\ Display(b) \in Panels(places) /\ Display(b).open
         /\ Display(b).focus = IF InResults(b) THEN Page ELSE b.focus
  BY DEF Display, Panels

-----------------------------------------------------------------------------
(* The panel. *)

LoadsSound ==
    /\ {keyTimeout, hideTimeout, selectOpen} \subseteq BOOLEAN
    /\ loads \in Seq(Requests) /\ Len(loads) <= MaxLoads
    /\ asked \in Requests \cup {Nobody}

\* A search that is remembered and not displayed is the newest one, and its script is on its way.
QuietIsOnItsWay == Quiet(box) => asked = Nobody \/ asked \in Range(loads)

PanelSound ==
    /\ box \in Panels(Places) /\ ListSound(list) /\ LoadsSound
    /\ QuietIsOnItsWay /\ AnswersAreComplete

\* A link on the screen is one of the list, and no other element of the page.
LEMMA LinksOnScreen ==
  ASSUME ListSound(list)
  PROVE  /\ OnScreen = {p \in Nat \X Nat :
                          /\ p[1] \in list.shown /\ p[2] \in 0..list.rows[p[1]].members
                          /\ p[2] > 0 => p[1] \in list.open}
         /\ OnScreen \subseteq Links
         /\ \A p \in OnScreen : p[1] > 0 /\ p # Page /\ p # Field /\ p # Select
         /\ \A i \in list.shown : i \in Nat \ {0} /\ list.rows[i].members \in Nat
  <1>1. \A i \in list.shown : i \in Nat \ {0} /\ list.rows[i].members \in Nat /\ i \in DOMAIN list.rows
    <2>1. \A i \in DOMAIN list.rows : list.rows[i] \in [name : Seq(Nat), members : Nat]
      BY Elements DEF ListSound, Rows
    <2>2. DOMAIN list.rows \subseteq Nat \ {0}
      BY DEF ListSound, Rows
    <2> QED
      BY <2>1, <2>2 DEF ListSound
  <1>2. list.open \subseteq list.shown
    BY DEF ListSound
  <1>3. ASSUME NEW p
        PROVE  p \in OnScreen <=>
                 \/ \E i \in list.shown : p = <<i, 0>>
                 \/ \E i \in list.open : \E c \in 1..list.rows[i].members : p = <<i, c>>
    BY DEF OnScreen
  <1>4. ASSUME NEW p
        PROVE  p \in OnScreen <=> /\ p \in Nat \X Nat
                                  /\ p[1] \in list.shown /\ p[2] \in 0..list.rows[p[1]].members
                                  /\ p[2] > 0 => p[1] \in list.open
    BY <1>1, <1>2, <1>3
  <1>5. ASSUME NEW p \in OnScreen PROVE p \in Links
    BY <1>1, <1>2, <1>3 DEF Links
  <1>6. \A p \in OnScreen : p[1] > 0 /\ p # Page /\ p # Field /\ p # Select
    BY <1>1, <1>4 DEF Page, Field, Select
  <1> QED
    BY <1>1, <1>4, <1>5, <1>6

\* A step of the panel that neither searches nor touches the list.
LEMMA PanelStep ==
  ASSUME PanelSound, UNCHANGED <<loads, list, asked>>, box' \in Panels(Places),
         Quiet(box') => Quiet(box),
         {keyTimeout', hideTimeout', selectOpen'} \subseteq BOOLEAN
  PROVE  PanelSound'
  <1>1. OnScreen' = OnScreen
    BY DEF OnScreen
  <1>2. box' \in Panels(Places)'
    BY <1>1 DEF Panels, Places
  <1>3. LoadsSound'
    BY DEF PanelSound, LoadsSound
  <1>4. QuietIsOnItsWay'
    BY DEF PanelSound, QuietIsOnItsWay, Quiet
  <1>5. AnswersAreComplete'
    BY DEF PanelSound, AnswersAreComplete
  <1>6. ListSound(list)'
    BY DEF PanelSound, ListSound
  <1> QED
    BY <1>2, <1>3, <1>4, <1>5, <1>6 DEF PanelSound, Panels, Places

\* A search from a panel that remembers no more than the one before.
LEMMA SearchKeeps ==
  ASSUME PanelSound, NEW b \in Panels(Places), Quiet(b) => Quiet(box), NEW section, Search(b, section),
         {hideTimeout', selectOpen'} \subseteq BOOLEAN
  PROVE  PanelSound'
  <1> DEFINE request == [section |-> section, word |-> b.field]
             file == FileOf(section, b.field)
  <1>1. keyTimeout' = FALSE
    BY DEF Search
  <1>2. CASE section \notin Sections
    BY <1>1, <1>2, PanelStep DEF Search
  <1>3. CASE section \in Sections
    <2>1. request \in Requests /\ b.field \in Words /\ asked' = request
      BY <1>3 DEF Requests, Panels, Search
    <2>2. Page \in Places
      BY DEF Places
    <2>3. CASE file = 0 /\ box' = [Display(b) EXCEPT !.last = b.field]
               /\ list' = Built(section, file, b.field) /\ UNCHANGED loads
      <3>1. list' = [rows |-> list.rows, shown |-> {}, open |-> {}]
        BY <2>3 DEF Built
      <3>2. ListSound(list')
        BY <1>3, <2>1, <2>3, BuiltSound DEF PanelSound
      <3>3. OnScreen' = {}
        BY <3>1 DEF OnScreen
      <3>4. box'.focus \in {Page, Field, Select} /\ box'.open
        <4>1. Display(b) \in Panels(Places) /\ Display(b).open
              /\ Display(b).focus = IF InResults(b) THEN Page ELSE b.focus
          BY <2>2, Displayed
        <4>2. \A p \in OnScreen : p[1] > 0
          BY LinksOnScreen DEF PanelSound
        <4>3. b.focus \in {Page, Field, Select} \cup OnScreen
          BY DEF Panels, Places
        <4>4. Display(b).focus \in {Page, Field, Select}
          BY <4>1, <4>2, <4>3 DEF InResults
        <4> HIDE DEF Display
        <4> QED
          BY <2>3, <4>1, <4>4 DEF Panels
      <3>5. box' \in Panels(Places)'
        <4>1. Display(b) \in Panels(Places)
          BY <2>2, Displayed
        <4>2. Places' = {Page, Field, Select}
          BY <3>3 DEF Places
        <4>3. box' \in Panels({Page, Field, Select})
          BY <2>1, <2>3, <3>4, <4>1 DEF Panels
        <4> QED
          BY <4>2, <4>3 DEF Panels
      <3>6. LoadsSound' /\ QuietIsOnItsWay'
        BY <1>1, <2>1, <2>3, <3>4 DEF PanelSound, LoadsSound, QuietIsOnItsWay, Quiet
      <3>7. AnswersAreComplete'
        <4>1. b.field # <<>> => {list'.rows[i].name : i \in list'.shown} = Names(section, b.field)
          BY <1>3, <2>1, <2>3, BuiltComplete
        <4> QED
          BY <2>1, <4>1 DEF AnswersAreComplete
      <3>8. ListSound(list)'
        BY <3>2 DEF ListSound
      <3> QED
        BY <3>5, <3>6, <3>7, <3>8 DEF PanelSound
    <2>4. CASE /\ file # 0 /\ Len(loads) < MaxLoads
               /\ box' = [b EXCEPT !.last = b.field]
               /\ loads' = Append(loads, request) /\ UNCHANGED list
      <3>1. /\ loads' \in Seq(Requests) /\ Len(loads') = Len(loads) + 1 /\ asked' \in Range(loads')
        <4>1. loads \in Seq(Requests)
          BY DEF PanelSound, LoadsSound
        <4>2. loads'[Len(loads) + 1] = request /\ Len(loads) + 1 \in DOMAIN loads'
          BY <2>4, <4>1
        <4> HIDE DEF request
        <4> QED
          BY <2>1, <2>4, <4>1, <4>2 DEF Range
      <3>2. LoadsSound'
        <4>1. Len(loads) \in Nat /\ MaxLoads \in Nat
          BY WordsAssumption DEF PanelSound, LoadsSound
        <4>2. Len(loads') <= MaxLoads
          BY <2>4, <3>1, <4>1
        <4> QED
          BY <1>1, <2>1, <3>1, <4>2 DEF LoadsSound
      <3>3. box' \in Panels(Places)'
        <4>1. box' \in Panels(Places)
          BY <2>1, <2>4 DEF Panels
        <4>2. Places' = Places
          BY <2>4 DEF Places, OnScreen
        <4> QED
          BY <4>1, <4>2 DEF Panels
      <3>4. QuietIsOnItsWay' /\ AnswersAreComplete'
        BY <3>1 DEF QuietIsOnItsWay, AnswersAreComplete
      <3>5. ListSound(list)'
        BY <2>4 DEF PanelSound, ListSound
      <3> QED
        BY <3>2, <3>3, <3>4, <3>5 DEF PanelSound
    <2> QED
      BY <1>3, <2>3, <2>4 DEF Search
  <1> QED
    BY <1>2, <1>3

LEMMA Removing ==
  ASSUME NEW S, NEW q \in Seq(S), NEW k \in DOMAIN q
  PROVE  /\ RemoveAt(q, k) \in Seq(S) /\ Len(RemoveAt(q, k)) = Len(q) - 1
         /\ Range(RemoveAt(q, k)) \subseteq Range(q)
         /\ \A x \in Range(q) : x = q[k] \/ x \in Range(RemoveAt(q, k))
  <1> DEFINE a == SubSeq(q, 1, k - 1)
             b == SubSeq(q, k + 1, Len(q))
  <1>1. k \in 1..Len(q) /\ Len(q) \in Nat
    OBVIOUS
  <1>2. /\ a \in Seq(S) /\ Len(a) = k - 1 /\ \A i \in 1..(k - 1) : a[i] = q[i]
        /\ b \in Seq(S) /\ Len(b) = Len(q) - k /\ \A i \in 1..(Len(q) - k) : b[i] = q[i + k]
    BY <1>1
  <1> HIDE DEF a, b
  <1>3. /\ a \o b \in Seq(S) /\ Len(a \o b) = Len(q) - 1
        /\ \A i \in 1..(Len(q) - 1) : (a \o b)[i] = IF i < k THEN q[i] ELSE q[i + 1]
    <2>1. a \o b \in Seq(S) /\ Len(a \o b) = Len(a) + Len(b)
      BY <1>2, ConcatProperties
    <2>2. Len(a) + Len(b) = Len(q) - 1
      BY <1>1, <1>2
    <2>3. \A i \in 1..(Len(a) + Len(b)) :
             (a \o b)[i] = IF i <= Len(a) THEN a[i] ELSE b[i - Len(a)]
      BY <1>2, ConcatProperties
    <2>4. ASSUME NEW i \in 1..(Len(q) - 1)
          PROVE  (a \o b)[i] = IF i < k THEN q[i] ELSE q[i + 1]
      <3>1. CASE i < k
        <4>1. i \in 1..(k - 1) /\ i <= Len(a)
          BY <1>1, <1>2, <3>1
        <4> QED
          BY <1>2, <2>2, <2>3, <3>1, <4>1
      <3>2. CASE ~(i < k)
        <4>1. i - Len(a) \in 1..(Len(q) - k) /\ ~(i <= Len(a)) /\ (i - Len(a)) + k = i + 1
          BY <1>1, <1>2, <3>2
        <4> QED
          BY <1>2, <2>2, <2>3, <3>2, <4>1
      <3> QED
        BY <3>1, <3>2
    <2> QED
      BY <2>1, <2>2, <2>4
  <1>4. RemoveAt(q, k) = a \o b
    BY DEF RemoveAt, a, b
  <1> DEFINE r == a \o b
  <1> HIDE DEF r
  <1>5. DOMAIN r = 1..(Len(q) - 1) /\ DOMAIN q = 1..Len(q)
    BY <1>3 DEF r
  <1>6. ASSUME NEW i \in DOMAIN r PROVE r[i] \in Range(q)
    <2>1. i \in DOMAIN q /\ i + 1 \in DOMAIN q
      BY <1>1, <1>5
    <2>2. r[i] = q[i] \/ r[i] = q[i + 1]
      BY <1>3, <1>5 DEF r
    <2> QED
      BY <2>1, <2>2 DEF Range
  <1>7. ASSUME NEW i \in DOMAIN q, i # k PROVE q[i] \in Range(r)
    <2>1. CASE i < k
      <3>1. i \in 1..(Len(q) - 1)
        BY <1>1, <1>5, <2>1
      <3>2. i \in DOMAIN r /\ r[i] = q[i]
        BY <1>3, <1>5, <2>1, <3>1 DEF r
      <3> QED
        BY <3>2 DEF Range
    <2>2. CASE i > k
      <3>1. i - 1 \in DOMAIN r /\ r[i - 1] = q[i]
        BY <1>1, <1>3, <1>5, <2>2 DEF r
      <3> QED
        BY <3>1 DEF Range
    <2> QED
      BY <1>1, <1>5, <1>7, <2>1, <2>2
  <1>8. Range(r) \subseteq Range(q) /\ \A x \in Range(q) : x = q[k] \/ x \in Range(r)
    BY <1>6, <1>7 DEF Range
  <1> QED
    BY <1>3, <1>4, <1>8 DEF r

\* A script that arrives fills the list with its answer; only if it is the newest search's, and
\* no other script is on its way for that search, does the list answer the newest search.
LEMMA LoadScriptKeeps ==
  ASSUME PanelSound, LoadScript
  PROVE  PanelSound'
  <1>1. PICK k \in DOMAIN loads :
           /\ loads' = RemoveAt(loads, k)
           /\ list' = Built(loads[k].section, FileOf(loads[k].section, loads[k].word), loads[k].word)
           /\ box' = Display(box)
           /\ asked' = IF asked \in Range(loads) THEN asked ELSE Nobody
           /\ UNCHANGED <<selector, keyTimeout>>
    BY DEF LoadScript
  <1> DEFINE request == loads[k]
  <1>2. loads \in Seq(Requests) /\ request \in Requests /\ Len(loads) \in Nat /\ Len(loads) <= MaxLoads
    BY Elements DEF PanelSound, LoadsSound
  <1>3. request.section \in Sections /\ request.word \in Words
    BY <1>2 DEF Requests
  <1>4. /\ loads' \in Seq(Requests) /\ Len(loads') = Len(loads) - 1
        /\ \A x \in Range(loads) : x = request \/ x \in Range(loads')
    BY <1>1, <1>2, Removing
  <1>5. ListSound(list')
    BY <1>1, <1>3, BuiltSound DEF PanelSound
  <1>6. list'.shown \in SUBSET (DOMAIN list'.rows) /\ list'.open = {}
    BY <1>1, <1>5 DEF ListSound, Built
  <1>7. box' \in Panels({Page, Field, Select}) /\ box'.open
    <2>1. /\ Display(box) \in Panels(Places) /\ Display(box).open
          /\ Display(box).focus = IF InResults(box) THEN Page ELSE box.focus
      BY Displayed DEF PanelSound, Places
    <2>2. box.focus \in {Page, Field, Select} \cup OnScreen /\ \A p \in OnScreen : p[1] > 0
      BY LinksOnScreen DEF PanelSound, Panels, Places
    <2>3. Display(box).focus \in {Page, Field, Select}
      BY <2>1, <2>2 DEF InResults
    <2> HIDE DEF Display
    <2> QED
      BY <1>1, <2>1, <2>3 DEF Panels
  <1>8. box' \in Panels(Places)'
    BY <1>7 DEF Panels, Places
  <1>9. LoadsSound'
    <2>1. asked' \in Requests \cup {Nobody} /\ MaxLoads \in Nat
      BY <1>1, WordsAssumption DEF PanelSound, LoadsSound
    <2>2. UNCHANGED <<keyTimeout, hideTimeout, selectOpen>>
      BY <1>1 DEF selector
    <2>3. Len(loads') <= MaxLoads
      BY <1>2, <1>4, <2>1
    <2> QED
      BY <1>4, <2>1, <2>2, <2>3 DEF PanelSound, LoadsSound
  <1>10. QuietIsOnItsWay'
    BY <1>7 DEF QuietIsOnItsWay, Quiet
  <1>11. AnswersAreComplete'
    <2>1. SUFFICES ASSUME asked' # Nobody, asked'.word # <<>>, asked' \notin Range(loads')
                   PROVE  {list'.rows[i].name : i \in list'.shown} = Names(asked'.section, asked'.word)
      BY DEF AnswersAreComplete
    <2>2. asked' = request
      BY <1>1, <1>4, <2>1
    <2> QED
      BY <1>1, <1>3, <2>1, <2>2, BuiltComplete
  <1>12. ListSound(list)'
    BY <1>5 DEF ListSound
  <1> QED
    BY <1>8, <1>9, <1>10, <1>11, <1>12 DEF PanelSound

LEMMA LoadFailsKeeps ==
  ASSUME PanelSound, LoadFails
  PROVE  PanelSound'
  <1>1. PICK k \in DOMAIN loads :
           /\ loads' = RemoveAt(loads, k)
           /\ asked' = IF loads[k] = asked THEN Nobody ELSE asked
           /\ UNCHANGED <<selector, box, keyTimeout, list>>
    BY DEF LoadFails
  <1>2. loads \in Seq(Requests) /\ Len(loads) \in Nat /\ Len(loads) <= MaxLoads /\ MaxLoads \in Nat
    BY WordsAssumption DEF PanelSound, LoadsSound
  <1>3. /\ loads' \in Seq(Requests) /\ Len(loads') = Len(loads) - 1
        /\ \A x \in Range(loads) : x = loads[k] \/ x \in Range(loads')
        /\ Range(loads') \subseteq Range(loads)
    BY <1>1, <1>2, Removing
  <1>4. LoadsSound'
    <2>1. Len(loads') <= MaxLoads
      BY <1>2, <1>3
    <2>2. UNCHANGED <<keyTimeout, hideTimeout, selectOpen>>
      BY <1>1 DEF selector
    <2> QED
      BY <1>1, <1>3, <2>1, <2>2 DEF PanelSound, LoadsSound
  <1>5. QuietIsOnItsWay'
    BY <1>1, <1>3 DEF PanelSound, QuietIsOnItsWay, Quiet
  <1>6. AnswersAreComplete'
    <2>1. asked' # Nobody /\ asked' \notin Range(loads') => asked' = asked /\ asked \notin Range(loads)
      BY <1>1, <1>3
    <2> QED
      BY <1>1, <2>1 DEF PanelSound, AnswersAreComplete
  <1>7. ListSound(list)' /\ box' \in Panels(Places)'
    BY <1>1 DEF PanelSound, ListSound, Panels, Places, OnScreen
  <1> QED
    BY <1>4, <1>5, <1>6, <1>7 DEF PanelSound

\* The row that is folded or unfolded takes the focus, so no hidden link keeps it.
LEMMA RowUnfoldKeeps ==
  ASSUME PanelSound, RowUnfold
  PROVE  PanelSound'
  <1>1. PICK i \in list.shown, open \in BOOLEAN :
           /\ box.open /\ list.rows[i].members > 0
           /\ list' = [list EXCEPT !.open = IF open THEN @ \cup {i} ELSE @ \ {i}]
           /\ box' = FocusOn(box, <<i, 0>>)
    BY DEF RowUnfold
  <1>2. UNCHANGED <<selector, keyTimeout, loads, asked>>
    BY DEF RowUnfold
  <1>3. /\ list'.rows = list.rows /\ list'.shown = list.shown
        /\ list'.open \subseteq list.open \cup {i}
        /\ list' = [rows |-> list'.rows, shown |-> list'.shown, open |-> list'.open]
    BY <1>1 DEF PanelSound, ListSound
  <1>4. ListSound(list)'
    BY <1>1, <1>3 DEF PanelSound, ListSound
  <1>5. <<i, 0>> \in OnScreen /\ <<i, 0>> \in OnScreen'
    BY <1>3 DEF OnScreen
  <1>6. /\ FocusOn(box, <<i, 0>>) \in Panels(Places) /\ FocusOn(box, <<i, 0>>).focus = <<i, 0>>
        /\ FocusOn(box, <<i, 0>>).open = box.open
    BY <1>5, Focused DEF PanelSound, Places
  <1>7. box' \in Panels(Places)' /\ box'.open
    BY <1>1, <1>5, <1>6 DEF Panels, Places
  <1>8. LoadsSound' /\ QuietIsOnItsWay'
    BY <1>2, <1>7 DEF PanelSound, LoadsSound, QuietIsOnItsWay, Quiet, selector
  <1>9. AnswersAreComplete'
    BY <1>2, <1>3 DEF PanelSound, AnswersAreComplete
  <1> QED
    BY <1>4, <1>7, <1>8, <1>9 DEF PanelSound

-----------------------------------------------------------------------------
(* Where the arrow keys lead. *)

LEMMA NextRow ==
  ASSUME NEW shown \in SUBSET (Nat \ {0}), NEW i \in Nat
  PROVE  \/ NavNext(shown, i) = 0 /\ \A j \in shown : j < i
         \/ /\ NavNext(shown, i) \in shown /\ NavNext(shown, i) >= i
            /\ \A j \in shown : j >= i => NavNext(shown, i) <= j
  <1> DEFINE after == {j \in shown : j >= i}
  <1>1. NavNext(shown, i) = First(after)
    BY DEF NavNext
  <1>2. CASE after = {}
    <2>1. First(after) = 0
      BY <1>2 DEF First
    <2> QED
      BY <1>1, <1>2, <2>1
  <1>3. CASE after # {}
    <2>1. \E n \in after : \A m \in after : n <= m
      <3>1. after \subseteq Nat
        OBVIOUS
      <3> HIDE DEF after
      <3> QED
        BY <1>3, <3>1, Least
    <2>2. First(after) \in after /\ \A m \in after : First(after) <= m
      <3> HIDE DEF after
      <3> QED
        BY <1>3, <2>1 DEF First
    <2> QED
      BY <1>1, <2>2
  <1> QED
    BY <1>2, <1>3

LEMMA PreviousRow ==
  ASSUME NEW shown \in SUBSET (Nat \ {0}), NEW i \in Nat
  PROVE  \/ NavPrev(shown, i) = 0 /\ \A j \in shown : j > i
         \/ /\ NavPrev(shown, i) \in shown /\ NavPrev(shown, i) <= i
            /\ \A j \in shown : j <= i => j <= NavPrev(shown, i)
  <1> DEFINE before == {j \in shown : j <= i}
  <1>1. CASE before = {}
    BY <1>1 DEF NavPrev
  <1>2. CASE before # {}
    <2> DEFINE steps == {i - j : j \in before}
    <2>1. PICK n \in steps : \A m \in steps : n <= m
      <3>1. \A j \in before : i - j \in Nat
        OBVIOUS
      <3> HIDE DEF before
      <3>2. steps \subseteq Nat /\ steps # {}
        BY <1>2, <3>1
      <3> HIDE DEF steps
      <3> QED
        BY <3>2, Least
    <2>2. PICK j \in before : n = i - j
      OBVIOUS
    <2>3. \A k \in before : k <= j
      BY <2>1, <2>2
    <2>4. \E l \in before : \A k \in before : k <= l
      BY <2>3
    <2>5. NavPrev(shown, i) = CHOOSE l \in before : \A k \in before : k <= l
      BY <1>2 DEF NavPrev
    <2>6. NavPrev(shown, i) \in before /\ \A k \in before : k <= NavPrev(shown, i)
      <3> HIDE DEF before
      <3> QED
        BY <2>4, <2>5
    <2> QED
      BY <2>6
  <1> QED
    BY <1>1, <1>2

\* Down leads to the next link on the screen, or stays on the last one.
LEMMA DownIsNext ==
  ASSUME ListSound(list), NEW at \in OnScreen
  PROVE  LET to == NavDown(list.rows, list.shown, list.open, at) IN
         \/ /\ to \in OnScreen /\ Before(at, to)
            /\ ~\E p \in OnScreen : Before(at, p) /\ Before(p, to)
         \/ to = at /\ ~\E p \in OnScreen : Before(at, p)
  <1> DEFINE to == NavDown(list.rows, list.shown, list.open, at)
             i == at[1]
             c == at[2]
             members == list.rows[i].members
             row == NavNext(list.shown, i + 1)
  <1>1. /\ at \in Nat \X Nat /\ at = <<i, c>> /\ i \in list.shown /\ c \in 0..members
        /\ c > 0 => i \in list.open
        /\ members \in Nat /\ i \in Nat \ {0} /\ list.shown \subseteq Nat \ {0}
    BY LinksOnScreen
  <1>2. CASE c < members /\ (c > 0 \/ i \in list.open)
    <2>1. to = <<i, c + 1>>
      BY <1>2 DEF NavDown
    <2>2. to \in OnScreen
      BY <1>1, <1>2, <2>1, LinksOnScreen
    <2>3. Before(at, to)
      BY <1>1, <2>1 DEF Before
    <2>4. \A p \in OnScreen : p[1] \in Nat /\ p[2] \in Nat
      BY LinksOnScreen
    <2>5. ASSUME NEW p \in OnScreen, Before(at, p), Before(p, to) PROVE FALSE
      BY <1>1, <2>1, <2>4, <2>5 DEF Before
    <2> QED
      BY <2>2, <2>3, <2>5
  <1>3. CASE ~(c < members /\ (c > 0 \/ i \in list.open))
    <2>1. to = IF row = 0 THEN at ELSE <<row, 0>>
      BY <1>3 DEF NavDown
    <2>2. \/ row = 0 /\ \A j \in list.shown : j < i + 1
          \/ row \in list.shown /\ row >= i + 1 /\ \A j \in list.shown : j >= i + 1 => row <= j
      BY <1>1, NextRow
    <2> HIDE DEF row
    <2>3. \A p \in OnScreen :
             /\ p[1] \in list.shown /\ p[1] \in Nat /\ p[2] \in Nat /\ p[2] \in 0..list.rows[p[1]].members
             /\ p[2] > 0 => p[1] \in list.open
      BY LinksOnScreen
    <2>4. ASSUME NEW p \in OnScreen, Before(at, p) PROVE p[1] > i
      BY <1>1, <1>3, <2>3, <2>4 DEF Before
    <2>5. CASE row = 0
      BY <1>1, <2>1, <2>2, <2>3, <2>4, <2>5
    <2>6. CASE row # 0
      <3>1. to = <<row, 0>> /\ row \in Nat
        BY <1>1, <2>1, <2>2, <2>6
      <3>2. to \in OnScreen
        BY <2>2, <2>6, <3>1 DEF OnScreen
      <3>3. Before(at, to)
        BY <1>1, <2>2, <2>6, <3>1 DEF Before
      <3>4. ASSUME NEW p \in OnScreen, Before(at, p), Before(p, to) PROVE FALSE
        <4>1. p[1] > i /\ p[1] \in list.shown /\ p[1] \in Nat /\ p[2] \in Nat
          BY <2>3, <2>4, <3>4
        <4>2. row <= p[1]
          BY <1>1, <2>2, <2>6, <4>1
        <4> QED
          BY <3>1, <3>4, <4>1, <4>2 DEF Before
      <3> QED
        BY <3>2, <3>3, <3>4
    <2> QED
      BY <2>5, <2>6
  <1> QED
    BY <1>2, <1>3

\* Up leads to the link before, or to the search field from the first one.  The row above is
\* the one right above only because the rows on the screen stand together.
LEMMA UpIsPrevious ==
  ASSUME ListSound(list), NEW at \in OnScreen
  PROVE  LET to == NavUp(list.rows, list.shown, list.open, at) IN
         \/ /\ to \in OnScreen /\ Before(to, at)
            /\ ~\E p \in OnScreen : Before(to, p) /\ Before(p, at)
         \/ to[1] = 0 /\ ~\E p \in OnScreen : Before(p, at)
  <1> DEFINE to == NavUp(list.rows, list.shown, list.open, at)
             i == at[1]
             c == at[2]
             row == NavPrev(list.shown, i - 1)
  <1>1. /\ at \in Nat \X Nat /\ at = <<i, c>> /\ i \in list.shown /\ c \in 0..list.rows[i].members
        /\ c > 0 => i \in list.open
        /\ i \in Nat \ {0} /\ list.shown \subseteq Nat \ {0} /\ c \in Nat
    BY LinksOnScreen
  <1>2. \A p \in OnScreen :
             /\ p[1] \in list.shown /\ p[1] \in Nat /\ p[2] \in Nat /\ p[2] \in 0..list.rows[p[1]].members
             /\ p[2] > 0 => p[1] \in list.open
    BY LinksOnScreen
  <1>3. CASE c > 0
    <2>1. to = <<i, c - 1>>
      BY <1>3 DEF NavUp
    <2>2. to \in OnScreen
      <3>1. c - 1 \in 0..list.rows[i].members /\ c - 1 \in Nat
        BY <1>1, <1>3, LinksOnScreen
      <3> QED
        BY <1>1, <1>3, <2>1, <3>1, LinksOnScreen
    <2>3. Before(to, at)
      BY <1>1, <1>3, <2>1 DEF Before
    <2>4. ASSUME NEW p \in OnScreen, Before(to, p), Before(p, at) PROVE FALSE
      BY <1>1, <1>2, <1>3, <2>1, <2>4 DEF Before
    <2> QED
      BY <2>2, <2>3, <2>4
  <1>4. CASE c = 0
    <2>1. to = <<row, IF row \in list.open THEN list.rows[i - 1].members ELSE 0>>
      BY <1>4 DEF NavUp
    <2>2. i - 1 \in Nat
      BY <1>1
    <2>3. \/ row = 0 /\ \A j \in list.shown : j > i - 1
          \/ row \in list.shown /\ row <= i - 1 /\ \A j \in list.shown : j <= i - 1 => j <= row
      BY <1>1, <2>2, PreviousRow
    <2> HIDE DEF row
    <2>4. ASSUME NEW p \in OnScreen, Before(p, at) PROVE p[1] <= i - 1
      BY <1>1, <1>2, <1>4, <2>4 DEF Before
    <2>5. CASE row = 0
      <3>1. \A p \in OnScreen : p[1] > i - 1
        BY <1>2, <2>3, <2>5, <1>1
      <3>2. ~\E p \in OnScreen : Before(p, at)
        BY <1>1, <1>2, <2>4, <3>1
      <3> QED
        BY <2>1, <2>5, <3>2
    <2>6. CASE row # 0
      <3>1. row \in Nat \ {0} /\ row \in list.shown /\ row <= i - 1
        BY <1>1, <2>3, <2>6
      <3>2. row = i - 1
        <4>1. i - 1 \in row..i
          BY <1>1, <3>1
        <4>2. i - 1 \in list.shown
          BY <1>1, <3>1, <4>1 DEF ListSound
        <4> QED
          BY <1>1, <2>3, <2>6, <3>1, <4>2
      <3>3. list.rows[row].members \in Nat
        BY <3>1, LinksOnScreen
      <3>4. to \in OnScreen
        BY <2>1, <3>1, <3>2, <3>3, LinksOnScreen
      <3>5. Before(to, at)
        BY <1>1, <2>1, <3>1 DEF Before
      <3>6. ASSUME NEW p \in OnScreen, Before(to, p), Before(p, at) PROVE FALSE
        <4>1. p[1] <= i - 1 /\ p[1] \in Nat /\ p[2] \in Nat
          BY <1>2, <2>4, <3>6
        <4>2. p[1] = row /\ to[2] < p[2]
          BY <1>1, <2>1, <3>1, <3>2, <3>6, <4>1 DEF Before
        <4>3. CASE row \in list.open
          BY <1>2, <2>1, <3>2, <3>3, <4>1, <4>2, <4>3
        <4>4. CASE row \notin list.open
          BY <1>2, <2>1, <4>1, <4>2, <4>4
        <4> QED
          BY <4>3, <4>4
      <3> QED
        BY <3>4, <3>5, <3>6
    <2> QED
      BY <2>5, <2>6
  <1> QED
    BY <1>1, <1>3, <1>4

-----------------------------------------------------------------------------
(* The panel, step by step. *)

LEMMA Compared ==
  ASSUME NEW b \in Panels(Places), Quiet(b) => Quiet(box), Compare(b)
  PROVE  box' \in Panels(Places) /\ (Quiet(box') => Quiet(box)) /\ keyTimeout' \in BOOLEAN
  <1>1. CASE b.field # b.last /\ b.field = <<>>
    <2>1. Hide(b) \in Panels(Places)
      BY Hidden DEF Places
    <2> HIDE DEF Hide
    <2>2. box' = [Hide(b) EXCEPT !.last = <<>>] /\ keyTimeout' \in BOOLEAN
      BY <1>1 DEF Compare
    <2> QED
      BY <2>1, <2>2, WordsAssumption DEF Panels, Quiet
  <1>2. CASE ~(b.field # b.last /\ b.field = <<>>)
    BY <1>2 DEF Compare
  <1> QED
    BY <1>1, <1>2

\* The focus moves to an element of the page, and nothing else of the panel is touched.
LEMMA FocusKeeps ==
  ASSUME PanelSound, NEW element \in Places, box' = FocusOn(box, element),
         UNCHANGED <<loads, list, asked>>,
         {keyTimeout', hideTimeout', selectOpen'} \subseteq BOOLEAN
  PROVE  PanelSound'
  <1>1. FocusOn(box, element) \in Panels(Places) /\ (Quiet(FocusOn(box, element)) => Quiet(box))
    BY Focused DEF PanelSound
  <1> QED
    BY <1>1, PanelStep

LEMMA FieldKeeps ==
  ASSUME PanelSound, FieldStep
  PROVE  PanelSound'
  <1>1. /\ box \in Panels(Places) /\ {Page, Field, Select} \subseteq Places /\ OnScreen \subseteq Places
        /\ {keyTimeout, hideTimeout, selectOpen} \subseteq BOOLEAN
    BY DEF PanelSound, LoadsSound, Places
  <1> USE DEF selector
  <1>2. CASE FieldFocus
    BY <1>1, <1>2, FocusKeeps DEF FieldFocus
  <1>3. CASE FieldBlur
    BY <1>1, <1>3, FocusKeeps DEF FieldBlur
  <1>4. CASE Input
    <2>1. PICK word \in Words : box' = [box EXCEPT !.field = word]
      BY <1>4 DEF Input
    <2>2. box' \in Panels(Places) /\ (Quiet(box') => Quiet(box))
      BY <1>1, <2>1 DEF Panels, Quiet
    <2> QED
      BY <1>1, <1>4, <2>2, PanelStep DEF Input
  <1>5. CASE KeyUp
    <2>1. box' \in Panels(Places) /\ (Quiet(box') => Quiet(box)) /\ keyTimeout' \in BOOLEAN
      BY <1>1, <1>5, Compared DEF KeyUp
    <2> QED
      BY <1>1, <1>5, <2>1, PanelStep DEF KeyUp
  <1>6. CASE FieldDown
    <2> DEFINE row == NavNext(list.shown, 1)
               b == IF row # 0 /\ box.open THEN FocusOn(box, <<row, 0>>) ELSE box
    <2>1. row = 0 \/ row \in list.shown
      <3>1. list.shown \in SUBSET (Nat \ {0})
        BY LinksOnScreen DEF PanelSound
      <3> QED
        BY <3>1, NextRow
    <2>2. row # 0 => <<row, 0>> \in OnScreen
      BY <2>1 DEF OnScreen
    <2> HIDE DEF row
    <2>3. b \in Panels(Places) /\ (Quiet(b) => Quiet(box))
      BY <1>1, <2>2, Focused
    <2>4. Compare(b)
      BY <1>6 DEF FieldDown, row
    <2> HIDE DEF b
    <2>5. box' \in Panels(Places) /\ (Quiet(box') => Quiet(box)) /\ keyTimeout' \in BOOLEAN
      BY <2>3, <2>4, Compared
    <2> QED
      BY <1>1, <1>6, <2>5, PanelStep DEF FieldDown
  <1>7. CASE FieldSelect
    BY <1>1, <1>7, FocusKeeps DEF FieldSelect, Show
  <1>8. CASE FieldEscape
    <2> DEFINE b == Hide(FocusOn(box, Page))
               c == [b EXCEPT !.last = <<>>]
    <2>1. FocusOn(box, Page) \in Panels(Places)
      BY <1>1, Focused
    <2>2. b \in Panels(Places)
      BY <1>1, <2>1, Hidden
    <2> HIDE DEF b
    <2>3. c \in Panels(Places) /\ c.last = <<>>
      BY <2>2, WordsAssumption DEF Panels
    <2> HIDE DEF c
    <2>4. Activate(c, FALSE) \in Panels(Places) /\ (Quiet(Activate(c, FALSE)) => Quiet(c))
      BY <2>3, Activated
    <2>5. box' = Activate(c, FALSE)
      BY <1>8 DEF FieldEscape, b, c
    <2> QED
      BY <1>1, <1>8, <2>3, <2>4, <2>5, PanelStep DEF FieldEscape, Quiet
  <1> QED
    BY <1>2, <1>3, <1>4, <1>5, <1>6, <1>7, <1>8 DEF FieldStep

\* A section is selected from a panel that remembers no more than the one before.
LEMMA SelectItemKeeps ==
  ASSUME PanelSound, NEW b \in Panels(Places), Quiet(b) => Quiet(box), NEW id, SelectItem(b, id),
         {hideTimeout', selectOpen'} \subseteq BOOLEAN
  PROVE  PanelSound'
  <1>1. CASE Search(b, id)
    BY <1>1, SearchKeeps
  <1>2. CASE box' = b /\ UNCHANGED <<keyTimeout, loads, list, asked>>
    <2>1. keyTimeout \in BOOLEAN
      BY DEF PanelSound, LoadsSound
    <2> QED
      BY <1>2, <2>1, PanelStep
  <1> QED
    BY <1>1, <1>2 DEF SelectItem

LEMMA SelectStepKeeps ==
  ASSUME PanelSound, SelectStep
  PROVE  PanelSound'
  <1>1. /\ box \in Panels(Places) /\ {Page, Field, Select} \subseteq Places
        /\ {keyTimeout, hideTimeout, selectOpen} \subseteq BOOLEAN
    BY DEF PanelSound, LoadsSound, Places
  <1>2. CASE PointerEnter \/ PointerLeave
    <2>1. UNCHANGED <<box, loads, list, asked>>
          /\ {keyTimeout', hideTimeout', selectOpen'} \subseteq BOOLEAN
      BY <1>1, <1>2 DEF PointerEnter, PointerLeave, Show
    <2> QED
      BY <1>1, <2>1, PanelStep
  <1>3. CASE HideTimer
    <2>1. box' \in Panels(Places) /\ (Quiet(box') => Quiet(box))
      BY <1>1, <1>3 DEF HideTimer, CloseSelection, Panels, Quiet
    <2> QED
      BY <1>1, <1>3, <2>1, PanelStep DEF HideTimer
  <1>4. CASE IconKey
    <2>1. CASE UNCHANGED box /\ selectOpen' = FALSE /\ UNCHANGED hideTimeout
      BY <1>1, <1>4, <2>1, PanelStep DEF IconKey
    <2>2. CASE Show /\ box' = FocusOn(box, Select)
      BY <1>1, <1>4, <2>2, FocusKeeps DEF IconKey, Show
    <2> QED
      BY <1>4, <2>1, <2>2 DEF IconKey
  <1>5. FocusOn(box, Select) \in Panels(Places) /\ (Quiet(FocusOn(box, Select)) => Quiet(box))
    BY <1>1, Focused
  <1>6. FocusOn(box, Field) \in Panels(Places) /\ (Quiet(FocusOn(box, Field)) => Quiet(box))
    BY <1>1, Focused
  <1>7. CASE ItemClick
    <2>1. PICK id \in Sections : SelectItem(FocusOn(box, Select), id)
      BY <1>7 DEF ItemClick
    <2> QED
      BY <1>1, <1>5, <1>7, <2>1, SelectItemKeeps DEF ItemClick
  <1>8. CASE SelectDown
    BY <1>1, <1>8, SelectItemKeeps DEF SelectDown
  <1>9. CASE SelectUp
    BY <1>1, <1>9, SelectItemKeeps DEF SelectUp
  <1>10. CASE SelectDone
    <2>1. CASE Search(box, searchIndex) /\ UNCHANGED selectOpen
      BY <1>1, <1>10, <2>1, SearchKeeps DEF SelectDone
    <2>2. CASE Search(FocusOn(box, Field), searchIndex) /\ selectOpen' = FALSE
      BY <1>1, <1>6, <1>10, <2>2, SearchKeeps DEF SelectDone
    <2>3. CASE /\ box' = FocusOn(box, Field) /\ selectOpen' = FALSE
               /\ UNCHANGED <<keyTimeout, loads, list, asked>>
      BY <1>1, <1>10, <2>3, FocusKeeps DEF SelectDone
    <2> QED
      BY <1>10, <2>1, <2>2, <2>3 DEF SelectDone
  <1> QED
    BY <1>2, <1>3, <1>4, <1>7, <1>8, <1>9, <1>10 DEF SelectStep

\* A step of the arrow keys goes to a link on the screen or to the search field.
LEMMA DownFocus ==
  ASSUME PanelSound, InResults(box), RowDown
  PROVE  /\ box.focus \in OnScreen
         /\ NavDown(list.rows, list.shown, list.open, box.focus) \in OnScreen
         /\ box' = [box EXCEPT !.focus = NavDown(list.rows, list.shown, list.open, box.focus)]
  <1> DEFINE to == NavDown(list.rows, list.shown, list.open, box.focus)
  <1>1. ListSound(list) /\ box \in Panels(Places)
    BY DEF PanelSound
  <1>2. box.focus \in OnScreen
    BY <1>1 DEF InResults, Panels, Places, Page, Field, Select
  <1>3. to \in OnScreen
    BY <1>1, <1>2, DownIsNext
  <1>4. to # Field /\ box.focus # Field
    BY <1>1, <1>2, <1>3, LinksOnScreen
  <1>5. box' = FocusOn(box, to)
    BY DEF RowDown
  <1> HIDE DEF to
  <1>6. box' = [box EXCEPT !.focus = to]
    BY <1>4, <1>5 DEF FocusOn
  <1> QED
    BY <1>2, <1>3, <1>6 DEF to

LEMMA UpFocus ==
  ASSUME PanelSound, InResults(box), RowUp
  PROVE  LET to == NavUp(list.rows, list.shown, list.open, box.focus)
             element == IF to[1] = 0 THEN Field ELSE to
         IN  /\ box.focus \in OnScreen /\ element \in Places
             /\ box' = FocusOn(box, element) /\ box'.focus = element
  <1> DEFINE to == NavUp(list.rows, list.shown, list.open, box.focus)
             element == IF to[1] = 0 THEN Field ELSE to
  <1>1. ListSound(list) /\ box \in Panels(Places)
    BY DEF PanelSound
  <1>2. box.focus \in OnScreen
    BY <1>1 DEF InResults, Panels, Places, Page, Field, Select
  <1>3. to \in OnScreen \/ to[1] = 0
    BY <1>1, <1>2, UpIsPrevious
  <1>4. element \in Places
    BY <1>3 DEF Places
  <1>5. box' = FocusOn(box, element)
    BY DEF RowUp
  <1> HIDE DEF element
  <1>6. box'.focus = element
    BY <1>1, <1>4, <1>5, Focused
  <1> QED
    BY <1>2, <1>4, <1>5, <1>6 DEF element

LEMMA RowStepKeeps ==
  ASSUME PanelSound, RowStep
  PROVE  PanelSound'
  <1>1. /\ box \in Panels(Places) /\ {Page, Field, Select} \subseteq Places /\ OnScreen \subseteq Places
        /\ {keyTimeout, hideTimeout, selectOpen} \subseteq BOOLEAN
    BY DEF PanelSound, LoadsSound, Places
  <1> USE DEF selector
  <1>2. CASE RowDown
    <2>1. InResults(box) /\ UNCHANGED <<selector, keyTimeout, loads, list, asked>>
      BY <1>2 DEF RowDown
    <2>2. NavDown(list.rows, list.shown, list.open, box.focus) \in Places
      BY <1>1, <1>2, <2>1, DownFocus
    <2> QED
      BY <1>1, <1>2, <2>1, <2>2, FocusKeeps DEF RowDown
  <1>3. CASE RowUp
    <2>1. InResults(box) /\ UNCHANGED <<selector, keyTimeout, loads, list, asked>>
      BY <1>3 DEF RowUp
    <2>2. PICK element \in Places : box' = FocusOn(box, element)
      BY <1>3, <2>1, UpFocus
    <2> QED
      BY <1>1, <2>1, <2>2, FocusKeeps
  <1>4. CASE RowUnfold
    BY <1>4, RowUnfoldKeeps
  <1>5. CASE RowEscape
    <2> DEFINE b == CloseResults(box)
    <2>1. b \in Panels(Places) /\ b.last = <<>>
      BY <1>1, ResultsClosed
    <2> HIDE DEF b
    <2>2. FocusOn(b, Field) \in Panels(Places) /\ (Quiet(FocusOn(b, Field)) => Quiet(b))
      BY <1>1, <2>1, Focused
    <2>3. box' = FocusOn(b, Field)
      BY <1>5 DEF RowEscape, b
    <2> QED
      BY <1>1, <1>5, <2>1, <2>2, <2>3, PanelStep DEF RowEscape, Quiet
  <1>6. CASE CloseButton
    <2> DEFINE b == FocusOn(box, Page)
    <2>1. b \in Panels(Places)
      BY <1>1, Focused
    <2> HIDE DEF b
    <2>2. CloseResults(b) \in Panels(Places) /\ CloseResults(b).last = <<>>
      BY <1>1, <2>1, ResultsClosed
    <2>3. box' = CloseResults(b)
      BY <1>6 DEF CloseButton, b
    <2> QED
      BY <1>1, <1>6, <2>2, <2>3, PanelStep DEF CloseButton, Quiet
  <1> QED
    BY <1>2, <1>3, <1>4, <1>5, <1>6 DEF RowStep

LEMMA PanelKeeps ==
  ASSUME PanelSound, SearchNext \/ UNCHANGED searchVars
  PROVE  PanelSound'
  <1>1. /\ box \in Panels(Places) /\ {Page, Field, Select} \subseteq Places
        /\ {keyTimeout, hideTimeout, selectOpen} \subseteq BOOLEAN
    BY DEF PanelSound, LoadsSound, Places
  <1>2. CASE Resize
    <2> DEFINE b == [box EXCEPT !.field = <<>>, !.icon = FALSE,
                                !.focus = IF @ = Field THEN Page ELSE @]
    <2>1. b \in Panels(Places)
      BY <1>1, WordsAssumption DEF Panels
    <2> HIDE DEF b
    <2>2. CloseResults(b) \in Panels(Places) /\ CloseResults(b).last = <<>>
      BY <1>1, <2>1, ResultsClosed
    <2>3. box' = CloseResults(b)
      BY <1>2 DEF Resize, b
    <2> QED
      BY <1>1, <1>2, <2>2, <2>3, PanelStep DEF Resize, Quiet, selector
  <1>3. CASE KeyTimer
    BY <1>1, <1>3, SearchKeeps DEF KeyTimer, selector
  <1>4. CASE UNCHANGED searchVars
    BY <1>1, <1>4, PanelStep DEF searchVars
  <1> QED
    BY <1>2, <1>3, <1>4, FieldKeeps, SelectStepKeeps, RowStepKeeps, LoadScriptKeeps, LoadFailsKeeps
       DEF SearchNext

LEMMA NewList ==
  ASSUME NEW l, l = EmptyList
  PROVE  ListSound(l)
  BY DEF EmptyList, ListSound, Rows

LEMMA NoLoads == <<>> \in Seq(Requests) /\ Len(<<>>) <= MaxLoads
  <1>1. MaxLoads \in Nat
    BY WordsAssumption
  <1> QED
    BY <1>1

LEMMA PanelStarts == SearchInit => PanelSound
  <1> SUFFICES ASSUME SearchInit PROVE PanelSound
    OBVIOUS
  <1>1. ListSound(list)
    BY NewList DEF SearchInit
  <1>2. box \in Panels(Places) /\ box.last = <<>>
    BY WordsAssumption DEF SearchInit, Removed, Panels, Places
  <1>3. LoadsSound
    BY NoLoads DEF SearchInit, LoadsSound
  <1> QED
    BY <1>1, <1>2, <1>3 DEF SearchInit, PanelSound, QuietIsOnItsWay, Quiet, AnswersAreComplete

LEMMA PanelStartsAgain ==
  ASSUME NEW isApi, SearchLoad(isApi)
  PROVE  PanelSound'
  <1>1. ListSound(list')
    BY NewList DEF SearchLoad
  <1>2. box' \in Panels(Places)' /\ box'.last = <<>>
    BY WordsAssumption DEF SearchLoad, Removed, Panels, Places
  <1>3. LoadsSound'
    BY NoLoads DEF SearchLoad, LoadsSound
  <1>4. ListSound(list)'
    BY <1>1 DEF ListSound
  <1> QED
    BY <1>2, <1>3, <1>4 DEF SearchLoad, PanelSound, QuietIsOnItsWay, Quiet, AnswersAreComplete

LEMMA ArrowsStep == PanelSound => ArrowsFollowOrder
  <1> SUFFICES ASSUME PanelSound PROVE ArrowsFollowOrder
    OBVIOUS
  <1>1. ListSound(list)
    BY DEF PanelSound
  <1>2. ASSUME InResults(box), RowDown
        PROVE  \/ box'.focus \in OnScreen /\ Before(box.focus, box'.focus)
                  /\ ~\E p \in OnScreen : Before(box.focus, p) /\ Before(p, box'.focus)
               \/ box' = box /\ ~\E p \in OnScreen : Before(box.focus, p)
    <2> DEFINE to == NavDown(list.rows, list.shown, list.open, box.focus)
    <2>1. box.focus \in OnScreen /\ box' = [box EXCEPT !.focus = to]
      BY <1>2, DownFocus
    <2>2. \/ /\ to \in OnScreen /\ Before(box.focus, to)
             /\ ~\E p \in OnScreen : Before(box.focus, p) /\ Before(p, to)
          \/ to = box.focus /\ ~\E p \in OnScreen : Before(box.focus, p)
      BY <1>1, <2>1, DownIsNext
    <2> HIDE DEF to
    <2>3. box'.focus = to /\ (to = box.focus => box' = box)
      BY <2>1 DEF PanelSound, Panels
    <2> QED
      BY <2>2, <2>3
  <1>3. ASSUME InResults(box), RowUp
        PROVE  \/ box'.focus \in OnScreen /\ Before(box'.focus, box.focus)
                  /\ ~\E p \in OnScreen : Before(box'.focus, p) /\ Before(p, box.focus)
               \/ box'.focus = Field /\ ~\E p \in OnScreen : Before(p, box.focus)
    <2> DEFINE to == NavUp(list.rows, list.shown, list.open, box.focus)
    <2>1. box.focus \in OnScreen /\ box'.focus = IF to[1] = 0 THEN Field ELSE to
      BY <1>3, UpFocus
    <2>2. \/ /\ to \in OnScreen /\ Before(to, box.focus)
             /\ ~\E p \in OnScreen : Before(to, p) /\ Before(p, box.focus)
          \/ to[1] = 0 /\ ~\E p \in OnScreen : Before(p, box.focus)
      BY <1>1, <2>1, UpIsPrevious
    <2> HIDE DEF to
    <2>3. \A p \in OnScreen : p[1] # 0
      BY <1>1, LinksOnScreen
    <2> QED
      BY <2>1, <2>2, <2>3
  <1> QED
    BY <1>2, <1>3 DEF ArrowsFollowOrder

-----------------------------------------------------------------------------
(* The site. *)

IInv == PictureSound /\ DocsSound /\ TreeSound /\ PanelSound /\ SectionSound

LEMMA Typed == IInv => TypeOK
  <1> SUFFICES ASSUME IInv PROVE TypeOK
    OBVIOUS
  <1>1. OnScreen \subseteq Links
    BY LinksOnScreen DEF IInv, PanelSound
  <1>2. box \in PanelType
    BY <1>1 DEF IInv, PanelSound, Panels, Places, PanelType
  <1>3. Range(loads) \subseteq Requests /\ Len(loads) <= MaxLoads
    <2>1. loads \in Seq(Requests) /\ Len(loads) <= MaxLoads
      BY DEF IInv, PanelSound, LoadsSound
    <2> QED
      BY <2>1, Elements DEF Range
  <1>4. list.shown \subseteq DOMAIN list.rows /\ list.open \subseteq list.shown
    BY DEF IInv, PanelSound, ListSound
  <1>5. SearchTypeOK
    BY <1>2, <1>3, <1>4 DEF IInv, PanelSound, LoadsSound, SectionSound, SearchTypeOK
  <1> QED
    BY <1>5 DEF IInv, SectionSound, TreeSound, TypeOK

LEMMA InitSound == Init => IInv
  <1>1. TreeInit => TreeSound
    BY TreeStarts
  <1> QED
    BY <1>1, PictureStarts, DocsStarts, PanelStarts, SectionsStart DEF Init, IInv

LEMMA StepSound ==
  ASSUME IInv, [Next]_siteVars
  PROVE  IInv'
  <1>1. CASE \E p \in Pages : Open(p)
    <2>1. PICK p \in Pages : Open(p)
      BY <1>1
    <2>2. DocsSound'
      <3>1. PICK h \in Hashes : DocsLoad(h)
        BY <2>1 DEF Open, Hashes
      <3> QED
        BY <3>1, DocsStartsAgain DEF IInv
    <2>3. page' = p /\ PublicLoad /\ SearchLoad(p \in ApiPages) /\ TreeLoad
      BY <2>1 DEF Open
    <2> QED
      BY <2>2, <2>3, PictureStartsAgain, PanelStartsAgain, SectionsStartAgain, TreeStartsAgain
         DEF IInv
  <1>2. CASE /\ UNCHANGED page
             /\ PublicNext \/ UNCHANGED publicVars
             /\ DocsNext \/ UNCHANGED docsVars
             /\ TreeNext \/ UNCHANGED treeVars
             /\ (page \in ApiPages /\ SearchNext) \/ UNCHANGED searchVars
    BY <1>2, PictureKeeps, DocsKeeps, TreeKeeps, PanelKeeps, SectionKeeps DEF IInv
  <1> QED
    BY <1>1, <1>2 DEF Next, siteVars, ApiPages

LEMMA AlwaysSound == Spec => []IInv
  BY InitSound, StepSound, PTL DEF Spec

\* The panel, the list and the selector of sections have their types, and the focus is on an
\* element that exists, whatever is searched, folded or reloaded.
THEOREM TypeCorrect == Spec => []TypeOK
  BY AlwaysSound, Typed, PTL

\* Once the picture, its event and the script have come, in whatever order, the example page
\* shows either the picture or the placeholder, as the picture's fate demands.
THEOREM PictureSettles == Spec => []PictureOrPlaceholder
  <1>1. IInv => PictureOrPlaceholder
    BY DEF IInv, PictureSound
  <1> QED
    BY <1>1, AlwaysSound, PTL

\* The documentation page shows the theme it keeps and the section in the address, and a form
\* that waits for an answer says so, however answers and clicks interleave.
THEOREM DocsAgree == Spec => []DocsPageAgrees
  <1>1. IInv => DocsPageAgrees
    BY DEF IInv, DocsSound
  <1> QED
    BY <1>1, AlwaysSound, PTL

\* The answer to the newest search is the whole answer, whichever script arrives first.
THEOREM SearchIsComplete == Spec => []AnswersAreComplete
  <1>1. IInv => AnswersAreComplete
    BY DEF IInv, PanelSound
  <1> QED
    BY <1>1, AlwaysSound, PTL

\* A search that the panel remembers is displayed, on its way or lost by the network.
THEOREM SearchIsAnswered == Spec => []NoSearchSwallowed
  <1>1. IInv => NoSearchSwallowed
    <2>1. loads = <<>> => Range(loads) = {}
      BY DEF Range
    <2> QED
      BY <2>1 DEF IInv, PanelSound, QuietIsOnItsWay, Quiet, NoSearchSwallowed
  <1> QED
    BY <1>1, AlwaysSound, PTL

\* The session remembers the section that the selector shows, on every page that has one.
THEOREM SessionRemembers == Spec => []SectionIsRemembered
  <1>1. IInv => SectionIsRemembered
    BY DEF IInv, SectionSound
  <1> QED
    BY <1>1, AlwaysSound, PTL

\* An icon of the table of files tells whether what is right below its folder is displayed.
THEOREM IconsAreRight == Spec => []IconsTellTheTruth
  <1>1. IInv => IconsTellTheTruth
    BY DEF IInv, TreeSound
  <1> QED
    BY <1>1, AlwaysSound, PTL

\* The arrow keys go through the links of the result list in order and leave none out.
THEOREM ArrowsAreRight == Spec => ArrowKeysFollowOrder
  <1>1. IInv /\ [Next]_siteVars => [page = "api" => ArrowsFollowOrder]_searchVars
    BY ArrowsStep DEF IInv
  <1> QED
    BY <1>1, AlwaysSound, PTL DEF Spec, ArrowKeysFollowOrder

==============================================================================
