----------------------------- MODULE SearchBox ------------------------------
(***************************************************************************)
(* The search panel of the API documentation, docs/doxygen: the SearchBox  *)
(* class of search/search.js, its timers and the scripts it loads, with    *)
(* the session cookie of cookie.js and the redraw on resize of menu.js.    *)
(* The focus moves as a browser moves it: leaving or entering the search   *)
(* field runs its handlers at once, a hidden element cannot be focused,    *)
(* and an element that is hidden or rebuilt loses the focus.               *)
(***************************************************************************)
EXTENDS SearchIndex

CONSTANTS
    Words,      \* what the user may have typed; the empty word is in it
    MaxLoads    \* bound: search scripts on their way

ASSUME WordsAssumption == Words \subseteq Seq(Nat) /\ <<>> \in Words /\ MaxLoads \in Nat

VARIABLES
    box,          \* the panel: see PanelType
    searchIndex,  \* the section selected
    cookie,       \* the section's label in the session storage, as its number; -1 for none
    keyTimeout,   \* the timer of a search is running
    hideTimeout,  \* the timer that closes the section list is running
    selectOpen,   \* the section list is displayed
    loads,        \* the scripts requested and neither run nor failed, oldest first
    list,         \* the result list: the rows built, those displayed and those unfolded
    asked         \* the newest search, Nobody once no answer to it can stay (history)

searchVars == <<box, searchIndex, cookie, keyTimeout, hideTimeout, selectOpen, loads, list,
                asked>>
selector == <<searchIndex, cookie, hideTimeout, selectOpen>>

Nobody == [section |-> -1, word |-> <<>>]
EmptyList == [rows |-> <<>>, shown |-> {}, open |-> {}]

\* Where the focus is: a link of the result list is <<row, member>>.
Page == <<0, 0>>
Field == <<0, 1>>
Select == <<0, 2>>
Removed ==
    [field |-> <<>>, focus |-> Page, active |-> FALSE, last |-> <<>>, open |-> FALSE, icon |-> TRUE]
Links == {<<i, 0>> : i \in DOMAIN list.rows} \cup
         UNION {{<<i, c>> : c \in 1..list.rows[i].members} : i \in DOMAIN list.rows}

InResults(b) == b.focus[1] > 0

-----------------------------------------------------------------------------
(* The panel's own methods, as functions of its state: a handler is their  *)
(* composition.                                                            *)

\* Seeded fault: the last value is remembered when the panel is removed.
Activate_KeepLast(b, isActive) ==
    IF isActive \/ b.open THEN [b EXCEPT !.active = TRUE]
    ELSE [b EXCEPT !.active = FALSE, !.field = <<>>]

\* Activate: an open panel stays active; a closed one is removed with what it remembers.
Activate(b, isActive) ==
    IF isActive \/ b.open THEN [b EXCEPT !.active = TRUE]
    ELSE [b EXCEPT !.active = FALSE, !.last = <<>>, !.field = <<>>]

\* element.focus(), with the blur and focus handlers of the search field.
FocusOn(b, element) ==
    LET left  == IF b.focus = Field /\ element # Field THEN Activate(b, FALSE) ELSE b
        moved == [left EXCEPT !.focus = element]
    IN  IF element = Field THEN Activate(moved, TRUE) ELSE moved

\* The results window is not displayed any more.
Hide(b) == [b EXCEPT !.open = FALSE, !.focus = IF InResults(b) THEN Page ELSE @]

CloseResults(b) == Activate(Hide(b), FALSE)

CloseSelection(b) == [b EXCEPT !.focus = IF @ = Select THEN Page ELSE @]

-----------------------------------------------------------------------------
(* Searching. *)

\* Seeded fault: the rows are not filtered.
Built_Unfiltered(section, file, word) ==
    LET rows == IF file = 0 THEN list.rows ELSE Index[section][file]
    IN  [rows |-> rows, shown |-> IF file = 0 THEN {} ELSE DOMAIN rows, open |-> {}]

\* Seeded fault: the rows stay unfolded as they were for the search before.
Built_StayUnfolded(section, file, word) ==
    LET rows == IF file = 0 THEN list.rows ELSE Index[section][file]
    IN  [rows |-> rows, shown |-> IF file = 0 THEN {} ELSE Matching(rows, word), open |-> list.open]

\* createResults and SearchResults.Search: all rows of the file anew, folded, and those that
\* match displayed; without a file, the rows of the last one, none of them displayed.
Built(section, file, word) ==
    LET rows == IF file = 0 THEN list.rows ELSE Index[section][file]
    IN  [rows |-> rows, shown |-> IF file = 0 THEN {} ELSE Matching(rows, word), open |-> {}]

\* handleResults: the window is displayed, whatever happened since the search.
Display(b) == [b EXCEPT !.open = TRUE, !.focus = IF InResults(b) THEN Page ELSE @]

\* Search, from a panel b and a section: an index beyond the sections is a TypeError, after
\* the timer is forgotten.
Search(b, section) ==
    LET request == [section |-> section, word |-> b.field]
        file == FileOf(section, b.field)
    IN  /\ keyTimeout' = FALSE
        /\ \/ section \notin Sections /\ box' = b /\ UNCHANGED <<loads, list, asked>>
           \/ /\ section \in Sections /\ asked' = request
              /\ \/ /\ file = 0
                    /\ box' = [Display(b) EXCEPT !.last = b.field]
                    /\ list' = Built(section, file, b.field)
                    /\ UNCHANGED loads
                 \/ /\ file # 0 /\ Len(loads) < MaxLoads
                    /\ box' = [b EXCEPT !.last = b.field]
                    /\ loads' = Append(loads, request)
                    /\ UNCHANGED list

KeyTimer == keyTimeout /\ Search(box, searchIndex) /\ UNCHANGED selector

\* A script arrives and runs, its onload handler right after it.  Scripts may overtake each other.
LoadScript ==
    \E k \in DOMAIN loads :
        LET request == loads[k] IN
        /\ loads' = RemoveAt(loads, k)
        /\ list' = Built(request.section, FileOf(request.section, request.word), request.word)
        /\ box' = Display(box)
        /\ asked' = IF asked \in Range(loads) THEN asked ELSE Nobody
        /\ UNCHANGED <<selector, keyTimeout>>

\* A script cannot be loaded: no handler runs.
LoadFails ==
    \E k \in DOMAIN loads :
        /\ loads' = RemoveAt(loads, k)
        /\ asked' = IF loads[k] = asked THEN Nobody ELSE asked
        /\ UNCHANGED <<selector, box, keyTimeout, list>>

-----------------------------------------------------------------------------
(* The search field. *)

FieldFocus ==
    /\ box.focus # Field
    /\ box' = FocusOn(box, Field)
    /\ UNCHANGED <<selector, keyTimeout, loads, list, asked>>

\* A click elsewhere on the page.
FieldBlur ==
    /\ box.focus # Page
    /\ box' = FocusOn(box, Page)
    /\ UNCHANGED <<selector, keyTimeout, loads, list, asked>>

\* The text changes; its handler runs when the key goes up, if it does so in the field.
Input ==
    /\ box.focus = Field
    /\ \E word \in Words \ {box.field} : box' = [box EXCEPT !.field = word]
    /\ UNCHANGED <<selector, keyTimeout, loads, list, asked>>

\* The end of OnSearchFieldChange; the running timer has been killed at its beginning.
Compare(b) ==
    /\ keyTimeout' = (b.field # b.last /\ b.field # <<>>)
    /\ box' = IF b.field # b.last /\ b.field = <<>> THEN [Hide(b) EXCEPT !.last = <<>>] ELSE b

KeyUp ==
    /\ box.focus = Field /\ Compare(box)
    /\ UNCHANGED <<selector, loads, list, asked>>

\* Down or Enter: to the first result displayed.
FieldDown ==
    /\ box.focus = Field
    /\ LET row == NavNext(list.shown, 1)
       IN  Compare(IF row # 0 /\ box.open THEN FocusOn(box, <<row, 0>>) ELSE box)
    /\ UNCHANGED <<selector, loads, list, asked>>

\* OnSearchSelectShow.
Show == selectOpen' = TRUE /\ hideTimeout' = FALSE

\* Shift with Down or Enter: to the section list; the killed timer is not started again.
FieldSelect ==
    /\ box.focus = Field
    /\ Show /\ keyTimeout' = FALSE /\ box' = FocusOn(box, Select)
    /\ UNCHANGED <<searchIndex, cookie, loads, list, asked>>

\* Escape: out of the search field.
FieldEscape ==
    /\ box.focus = Field
    /\ keyTimeout' = FALSE
    /\ box' = Activate([Hide(FocusOn(box, Page)) EXCEPT !.last = <<>>], FALSE)
    /\ UNCHANGED <<selector, loads, list, asked>>

-----------------------------------------------------------------------------
(* The section list. *)

\* The mouse comes over the section icon or the list, as it does before it leaves or clicks.
PointerEnter ==
    /\ Show
    /\ UNCHANGED <<box, searchIndex, cookie, keyTimeout, loads, list, asked>>

\* OnSearchSelectHide.
PointerLeave ==
    /\ ~hideTimeout /\ hideTimeout' = TRUE
    /\ UNCHANGED <<box, searchIndex, cookie, selectOpen, keyTimeout, loads, list, asked>>

HideTimer ==
    /\ hideTimeout /\ hideTimeout' = FALSE /\ selectOpen' = FALSE /\ box' = CloseSelection(box)
    /\ UNCHANGED <<searchIndex, cookie, keyTimeout, loads, list, asked>>

\* Enter or Down on the section icon, which has the focus as any other element of the page.
IconKey ==
    /\ box.focus = Page /\ box.icon
    /\ \/ selectOpen /\ selectOpen' = FALSE /\ UNCHANGED <<box, hideTimeout>>
       \/ ~selectOpen /\ Show /\ box' = FocusOn(box, Select)
    /\ UNCHANGED <<searchIndex, cookie, keyTimeout, loads, list, asked>>

\* Seeded fault: the cookie is written only when an item is clicked.
Remember_Never(id) == UNCHANGED cookie

\* SelectItemSet: an index beyond the list marks nothing and writes nothing.
Remember(id) == cookie' = IF id \in Sections THEN id ELSE cookie

\* OnSelectItem, from a panel b.
SelectItem(b, id) ==
    /\ searchIndex' = id /\ Remember(id)
    /\ \/ b.field # <<>> /\ b.active /\ Search(b, id)
       \/ (b.field = <<>> \/ ~b.active) /\ box' = b /\ UNCHANGED <<keyTimeout, loads, list, asked>>

\* A click on an item of the list, which takes the focus first.
ItemClick ==
    /\ selectOpen /\ ~hideTimeout
    /\ \E id \in Sections : SelectItem(FocusOn(box, Select), id)
    /\ UNCHANGED <<hideTimeout, selectOpen>>

\* OnSearchSelectKey: Down counts one beyond the last section, Up stops at the first.
SelectDown ==
    /\ box.focus = Select /\ searchIndex < Cardinality(Sections)
    /\ SelectItem(box, searchIndex + 1)
    /\ UNCHANGED <<hideTimeout, selectOpen>>

SelectUp ==
    /\ box.focus = Select /\ searchIndex > 0
    /\ SelectItem(box, searchIndex - 1)
    /\ UNCHANGED <<hideTimeout, selectOpen>>

\* Enter or Escape: the item again, the list is closed and the search field takes the focus.
\* A TypeError of the search leaves the rest undone.
SelectDone ==
    /\ box.focus = Select
    /\ Remember(searchIndex) /\ UNCHANGED <<searchIndex, hideTimeout>>
    /\ LET searches == box.field # <<>> /\ box.active
           next     == FocusOn(box, Field)
       IN  \/ searches /\ searchIndex \notin Sections
              /\ Search(box, searchIndex) /\ UNCHANGED selectOpen
           \/ searches /\ searchIndex \in Sections
              /\ Search(next, searchIndex) /\ selectOpen' = FALSE
           \/ ~searches
              /\ box' = next /\ selectOpen' = FALSE /\ UNCHANGED <<keyTimeout, loads, list, asked>>

-----------------------------------------------------------------------------
(* The result list. *)

\* Nav and NavChild on Down.
RowDown ==
    /\ InResults(box)
    /\ box' = FocusOn(box, NavDown(list.rows, list.shown, list.open, box.focus))
    /\ UNCHANGED <<selector, keyTimeout, loads, list, asked>>

\* Nav and NavChild on Up; above the first result is the search field.
RowUp ==
    /\ InResults(box)
    /\ LET to == NavUp(list.rows, list.shown, list.open, box.focus)
       IN  box' = FocusOn(box, IF to[1] = 0 THEN Field ELSE to)
    /\ UNCHANGED <<selector, keyTimeout, loads, list, asked>>

\* Right and Left unfold and fold a row with several members, Enter and a click toggle it.
\* The members of a folded row are hidden, so none of them has the focus then.
RowUnfold ==
    /\ \E i \in list.shown, open \in BOOLEAN :
          /\ box.open /\ list.rows[i].members > 0
          /\ list' = [list EXCEPT !.open = IF open THEN @ \cup {i} ELSE @ \ {i}]
          /\ box' = FocusOn(box, <<i, 0>>)
    /\ UNCHANGED <<selector, keyTimeout, loads, asked>>

\* Escape in the results.
RowEscape ==
    /\ InResults(box)
    /\ box' = FocusOn(CloseResults(box), Field)
    /\ UNCHANGED <<selector, keyTimeout, loads, list, asked>>

\* CloseResultsWindow, from the close button or from a result that opens elsewhere: both are
\* links, which take the focus from the search field first.
CloseButton ==
    /\ box.open
    /\ box' = CloseResults(FocusOn(box, Page))
    /\ UNCHANGED <<selector, keyTimeout, loads, list, asked>>

-----------------------------------------------------------------------------
(* The page. *)

\* resetState: the width has changed, the search box is made anew, without the listener that
\* init_search gave its icon; the timers go on.
Resize ==
    /\ box' = CloseResults([box EXCEPT !.field = <<>>, !.icon = FALSE,
                                       !.focus = IF @ = Field THEN Page ELSE @])
    /\ UNCHANGED <<selector, keyTimeout, loads, list, asked>>

\* GetSelectionIdByName: the first item if there is no such name.
SelectionId(name) == IF name \in Sections THEN name ELSE 0

\* A page is loaded.  If it is one of the API, init_search selects the section the session
\* remembers and writes it again; otherwise nothing is left but what the session remembers.
SearchLoad(isApi) ==
    /\ box' = Removed
    /\ searchIndex' = IF isApi THEN SelectionId(cookie) ELSE 0
    /\ cookie' = IF isApi THEN SelectionId(cookie) ELSE cookie
    /\ keyTimeout' = FALSE /\ hideTimeout' = FALSE /\ selectOpen' = FALSE
    /\ loads' = <<>> /\ list' = EmptyList /\ asked' = Nobody

\* A browser session without an API page open.
SearchInit ==
    /\ box = Removed /\ searchIndex = 0 /\ cookie = -1
    /\ keyTimeout = FALSE /\ hideTimeout = FALSE /\ selectOpen = FALSE
    /\ loads = <<>> /\ list = EmptyList /\ asked = Nobody

FieldStep == FieldFocus \/ FieldBlur \/ Input \/ KeyUp \/ FieldDown \/ FieldSelect \/ FieldEscape
SelectStep ==
    \/ PointerEnter \/ PointerLeave \/ HideTimer \/ IconKey
    \/ ItemClick \/ SelectDown \/ SelectUp \/ SelectDone
RowStep == RowDown \/ RowUp \/ RowUnfold \/ RowEscape \/ CloseButton
SearchNext ==
    FieldStep \/ SelectStep \/ RowStep \/ Resize \/ KeyTimer \/ LoadScript \/ LoadFails

-----------------------------------------------------------------------------
(* Properties. *)

PanelType ==
    [field : Words, focus : {Page, Field, Select} \cup Links, active : BOOLEAN,
     last : Words, open : BOOLEAN, icon : BOOLEAN]

Requests == [section : Sections, word : Words]

\* The timers, the panel and the result list have their types; the focus is on a row that exists.
SearchTypeOK ==
    /\ box \in PanelType
    /\ searchIndex \in 0..Cardinality(Sections) /\ cookie \in Sections \cup {-1}
    /\ {keyTimeout, hideTimeout, selectOpen} \subseteq BOOLEAN
    /\ Len(loads) <= MaxLoads /\ Range(loads) \subseteq Requests
    /\ list.shown \subseteq DOMAIN list.rows /\ list.open \subseteq list.shown
    /\ asked \in Requests \cup {Nobody}

Names(section, word) ==
    {n \in UNION {{r.name : r \in Range(Index[section][l])} : l \in DOMAIN Index[section]} :
        IsPrefix(word, n)}

\* Once the script of the newest search has run, and no older one after it, the list displays
\* every name of the section searched that begins with the word, and no other.
AnswersAreComplete ==
    (asked # Nobody /\ asked.word # <<>> /\ asked \notin Range(loads))
        => {list.rows[i].name : i \in list.shown} = Names(asked.section, asked.word)

\* The panel remembers the last value to save a search for it.  It never remembers one whose
\* answer is neither displayed nor on its way, unless the script got lost: typing it again
\* would do nothing.
NoSearchSwallowed ==
    (box.last # <<>> /\ ~box.open /\ loads = <<>>) => asked = Nobody

\* The order in which the displayed links stand on the screen.
Before(p, q) == p[1] < q[1] \/ (p[1] = q[1] /\ p[2] < q[2])
OnScreen == {<<i, 0>> : i \in list.shown} \cup
            UNION {{<<i, c>> : c \in 1..list.rows[i].members} : i \in list.open}

\* The arrow keys move from link to link in the order of the screen and leave none out; above
\* the first one is the search field.
ArrowsFollowOrder ==
    /\ (InResults(box) /\ RowDown) =>
          \/ box'.focus \in OnScreen /\ Before(box.focus, box'.focus)
             /\ ~\E p \in OnScreen : Before(box.focus, p) /\ Before(p, box'.focus)
          \/ box' = box /\ ~\E p \in OnScreen : Before(box.focus, p)
    /\ (InResults(box) /\ RowUp) =>
          \/ box'.focus \in OnScreen /\ Before(box'.focus, box.focus)
             /\ ~\E p \in OnScreen : Before(box'.focus, p) /\ Before(p, box.focus)
          \/ box'.focus = Field /\ ~\E p \in OnScreen : Before(p, box.focus)

\* The session remembers the section selected, however it was selected; one beyond the last
\* is remembered as the last.
RememberedSection ==
    cookie # -1 => cookie = IF searchIndex \in Sections THEN searchIndex ELSE Cardinality(Sections) - 1
=============================================================================
