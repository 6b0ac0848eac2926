-------------------------------- MODULE Site --------------------------------
(***************************************************************************)
(* The pages the server ships, in one browser tab: the example page, the   *)
(* documentation page, the API documentation with its search panel, and    *)
(* its table of files.  To open a page is to leave the one that is there,  *)
(* with its timers and requests; only the storage of the browser stays.    *)
(***************************************************************************)
EXTENDS PublicPage, DocsPage, SearchBox, FolderTree

VARIABLE
    page    \* the page that is open

siteVars == <<page, publicVars, docsVars, searchVars, treeVars>>

Pages == {"public", "docs", "api", "files"}

\* The table of files belongs to the API documentation: its page has the search panel too.
ApiPages == {"api", "files"}

Init ==
    /\ page = "public" /\ PublicInit /\ DocsInit /\ SearchInit /\ TreeInit

\* A link, the button of the example page or the address bar.
Open(p) ==
    /\ page' = p
    /\ PublicLoad
    /\ \E h \in IF p = "docs" THEN Hashes ELSE {""} : DocsLoad(h)
    /\ SearchLoad(p \in ApiPages)
    /\ TreeLoad

Next ==
    \/ \E p \in Pages : Open(p)
    \/ page = "public" /\ PublicNext /\ UNCHANGED <<page, docsVars, searchVars, treeVars>>
    \/ page = "docs" /\ DocsNext /\ UNCHANGED <<page, publicVars, searchVars, treeVars>>
    \/ page = "api" /\ SearchNext /\ UNCHANGED <<page, publicVars, docsVars, treeVars>>
    \/ page = "files" /\ TreeNext /\ UNCHANGED <<page, publicVars, docsVars, searchVars>>

Spec == Init /\ [][Next]_siteVars

\* The panel, its timers and scripts, the list and the selector have their types.
TypeOK == page \in Pages /\ SearchTypeOK /\ openFolders \subseteq Folders /\ shownRows \subseteq Tree

\* The arrow keys, as steps of the site.
ArrowKeysFollowOrder == [][page = "api" => ArrowsFollowOrder]_searchVars

\* What the session remembers, while a page that shows it is open.
SectionIsRemembered == page \in ApiPages => RememberedSection
=============================================================================
