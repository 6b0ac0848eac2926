----------------------------- MODULE FolderTree -----------------------------
(***************************************************************************)
(* The folding table of files and folders in the API documentation:        *)
(* toggleFolder and toggleLevel of src/docs/doxygen/dynsections.js.  A row *)
(* is its path in the tree: row_0_1_ is <<0, 1>>.                          *)
(***************************************************************************)
EXTENDS Integers, Sequences, SequencesExt

CONSTANTS
    Tree,    \* the rows of the table
    Levels   \* the detail levels offered above it

ASSUME TreeAssumption ==
    /\ Tree \subseteq Seq(Nat) /\ <<>> \notin Tree /\ Levels \subseteq Nat \ {0}
    /\ \A r \in Tree : Len(r) > 1 => Front(r) \in Tree

VARIABLES
    shownRows,    \* the rows displayed
    openFolders   \* the folders whose icon and arrow say open

treeVars == <<shownRows, openFolders>>

Children(f) == {r \in Tree : Len(r) = Len(f) + 1 /\ IsPrefix(f, r)}
Below(f) == {r \in Tree : r # f /\ IsPrefix(f, r)}
Folders == {f \in Tree : Children(f) # {}}

\* The page comes with everything unfolded.
TreeInit == shownRows = Tree /\ openFolders = Folders
TreeLoad == shownRows' = Tree /\ openFolders' = Folders

\* Hiding takes all that is below the folder and closes no icon but its own.
HideFolder(f) ==
    /\ shownRows' = shownRows \ Below(f)
    /\ openFolders' = openFolders \ {f}

\* Seeded fault: the folders that appear keep their icons.
ShowFolder_KeepIcons(f) ==
    /\ shownRows' = shownRows \cup Children(f)
    /\ openFolders' = openFolders \cup {f}

\* Showing brings the rows right below the folder; the folders among them are closed.
ShowFolder(f) ==
    /\ shownRows' = shownRows \cup Children(f)
    /\ openFolders' = (openFolders \cup {f}) \ Children(f)

\* toggleFolder looks at the first child only.
FirstChild(f) == CHOOSE r \in Children(f) : \A q \in Children(f) : r[Len(r)] <= q[Len(q)]

ToggleFolder ==
    \E f \in Folders \cap shownRows :
        \/ FirstChild(f) \in shownRows /\ HideFolder(f)
        \/ FirstChild(f) \notin shownRows /\ ShowFolder(f)

\* toggleLevel: rows above the level open, those on it closed, the others hidden.
ToggleLevel ==
    \E level \in Levels :
        /\ shownRows' = {r \in Tree : Len(r) <= level}
        /\ openFolders' = {f \in Folders :
               Len(f) < level \/ (Len(f) > level /\ f \in openFolders)}

TreeNext == ToggleFolder \/ ToggleLevel

\* A row is displayed only below displayed folders, and the icon of a displayed folder says
\* open exactly if all that is right below it is displayed, whatever was folded before.
IconsTellTheTruth ==
    /\ \A r \in shownRows : Len(r) > 1 => Front(r) \in shownRows
    /\ \A f \in Folders \cap shownRows :
          IF f \in openFolders THEN Children(f) \subseteq shownRows
                               ELSE Children(f) \cap shownRows = {}
=============================================================================
