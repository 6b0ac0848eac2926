------------------------------ MODULE DocsPage ------------------------------
(***************************************************************************)
(* The documentation page, src/docs/index.js: its sections and their       *)
(* filter, the theme, the location hash, the two echo forms and the toasts.*)
(* The server answers at its own pace or not at all, so the answers to     *)
(* several clicks may come in any order.  What Vue renders from a ref is   *)
(* the ref.                                                                *)
(***************************************************************************)
EXTENDS Integers

CONSTANTS
    DocSections,   \* the ids of sections.json
    Queries,       \* what may be typed into the filter; "" is in it
    Texts,         \* Texts[section]: its title, subtitle and blocks, by the queries they contain
    Statuses,      \* the status codes the server may answer with
    MaxRequests,   \* bound: requests of one form under way
    MaxToasts      \* bound: toasts on the screen

\* Section ids are not empty (sections.json), and a status code is not the text shown meanwhile.
ASSUME DocsAssumption ==
    /\ "" \notin DocSections
    /\ "sending" \notin Statuses
    /\ MaxRequests \in Nat

VARIABLES
    saved,       \* localStorage "theme": "dark", "light" or "none"
    docs,        \* sections.json is "awaited", "ready" once it is read and the page mounted, "failed"
    isDark,      \* the ref of the theme
    themeDark,   \* data-theme of the document is dark
    query,       \* the filter
    hash,        \* location.hash without its #
    hashEvent,   \* a hashchange event is queued
    currentId,   \* the section marked in the list
    status,      \* of each form: "", "sending", a status code or "failed"
    response,    \* of each form: whose text is shown, "" for none
    requests,    \* of each form: the requests under way
    toasts       \* toasts on the screen

theme == <<saved, isDark, themeDark>>
place == <<query, hash, hashEvent, currentId>>
forms == <<status, response, requests>>
docsVars == <<docs, theme, place, forms, toasts>>

Forms == {"get", "post"}
Hashes == DocSections \cup {""}

SectionOf(h) == IF h = "" THEN "intro" ELSE h

\* The page is loaded, with a hash of its address; DocsInit is a browser that was never here.
DocsLoad(h) ==
    /\ docs' = "awaited" /\ isDark' = FALSE /\ themeDark' = FALSE /\ UNCHANGED saved
    /\ query' = "" /\ hash' = h /\ hashEvent' = FALSE /\ currentId' = ""
    /\ status' = [f \in Forms |-> ""] /\ response' = [f \in Forms |-> ""]
    /\ requests' = [f \in Forms |-> 0] /\ toasts' = 0

DocsInit ==
    /\ docs = "awaited" /\ isDark = FALSE /\ themeDark = FALSE /\ saved = "none"
    /\ query = "" /\ hash = "" /\ hashEvent = FALSE /\ currentId = ""
    /\ status = [f \in Forms |-> ""] /\ response = [f \in Forms |-> ""]
    /\ requests = [f \in Forms |-> 0] /\ toasts = 0

\* The saved theme, or else what the system prefers.
InitialDark(prefersDark) == IF saved = "none" THEN prefersDark ELSE saved = "dark"

\* The awaited fetch and its json: setup, mount and onMounted, or an import that fails.
SectionsArrive ==
    /\ docs = "awaited"
    /\ \/ /\ docs' = "ready" /\ currentId' = SectionOf(hash)
          /\ \E prefersDark \in BOOLEAN : isDark' = InitialDark(prefersDark)
          /\ themeDark' = isDark'
       \/ docs' = "failed" /\ UNCHANGED <<isDark, themeDark, currentId>>
    /\ UNCHANGED <<saved, query, hash, hashEvent, forms, toasts>>

ToggleTheme ==
    /\ docs = "ready"
    /\ isDark' = ~isDark /\ themeDark' = isDark'
    /\ saved' = IF isDark' THEN "dark" ELSE "light"
    /\ UNCHANGED <<docs, place, forms, toasts>>

-----------------------------------------------------------------------------
(* Finding and choosing a section. *)

Filter ==
    /\ docs = "ready"
    /\ query' \in Queries \ {query}
    /\ UNCHANGED <<docs, theme, hash, hashEvent, currentId, forms, toasts>>

\* The filter's idea of a block; sections.json calls its paragraphs "paragraph" and its forms
\* "echoGet" and "echoPost", so these are never found.
BlockMatches(block) ==
    \/ block.type \in {"p", "code", "list"} /\ query \in block.contains
    \/ block.type = "echo" /\ query = "echo"

FilteredSections ==
    {s \in DocSections :
        \/ query = ""
        \/ query \in Texts[s].title \/ query \in Texts[s].subtitle
        \/ \E block \in Texts[s].blocks : BlockMatches(block)}

\* A click marks the section at once; the browser then changes the hash and queues its event.
ChooseSection ==
    /\ docs = "ready"
    /\ \E s \in FilteredSections :
          currentId' = s /\ hash' = s /\ hashEvent' = (hashEvent \/ hash # s)
    /\ UNCHANGED <<docs, theme, query, forms, toasts>>

\* Back, forward or a new address: the hash changes, its event is queued.
HashChanges ==
    /\ hash' \in Hashes \ {hash} /\ hashEvent' = TRUE
    /\ UNCHANGED <<docs, theme, query, currentId, forms, toasts>>

\* The hashchange event; nobody listens before the page is mounted.
HashEvent ==
    /\ hashEvent /\ hashEvent' = FALSE
    /\ currentId' = IF docs = "ready" THEN SectionOf(hash) ELSE currentId
    /\ UNCHANGED <<docs, theme, query, hash, forms, toasts>>

-----------------------------------------------------------------------------
(* The echo forms and the toasts. *)

\* sendEchoGet and sendEchoPost up to their first await.
SendEcho ==
    /\ docs = "ready"
    /\ \E f \in Forms :
          /\ requests[f] < MaxRequests
          /\ requests' = [requests EXCEPT ![f] = @ + 1]
          /\ status' = [status EXCEPT ![f] = "sending"]
          /\ response' = [response EXCEPT ![f] = ""]
    /\ UNCHANGED <<docs, theme, place, toasts>>

\* Seeded fault: a request that fails leaves the status as it was.
EchoFails_Silent ==
    /\ \E f \in Forms :
          /\ requests[f] > 0 /\ requests' = [requests EXCEPT ![f] = @ - 1]
          /\ response' = [response EXCEPT ![f] = "failed"]
    /\ UNCHANGED <<docs, theme, place, toasts, status>>

\* The answer and its text are there; whatever answer came before is overwritten.
EchoAnswers ==
    /\ \E f \in Forms, s \in Statuses :
          /\ requests[f] > 0 /\ requests' = [requests EXCEPT ![f] = @ - 1]
          /\ status' = [status EXCEPT ![f] = s] /\ response' = [response EXCEPT ![f] = s]
    /\ UNCHANGED <<docs, theme, place, toasts>>

\* fetch or the reading of its text fails.
EchoFails ==
    /\ \E f \in Forms :
          /\ requests[f] > 0 /\ requests' = [requests EXCEPT ![f] = @ - 1]
          /\ status' = [status EXCEPT ![f] = "failed"]
          /\ response' = [response EXCEPT ![f] = "failed"]
    /\ UNCHANGED <<docs, theme, place, toasts>>

\* copy, with one toast whether the clipboard took the text or not; its timer removes it.
Copy ==
    /\ docs = "ready" /\ toasts < MaxToasts /\ toasts' = toasts + 1
    /\ UNCHANGED <<docs, theme, place, forms>>

ToastTimer ==
    /\ toasts > 0 /\ toasts' = toasts - 1
    /\ UNCHANGED <<docs, theme, place, forms>>

DocsNext ==
    \/ SectionsArrive \/ ToggleTheme \/ Filter \/ ChooseSection \/ HashChanges \/ HashEvent
    \/ SendEcho \/ EchoAnswers \/ EchoFails \/ Copy \/ ToastTimer

-----------------------------------------------------------------------------

\* The theme is the one chosen last, also on an earlier visit, and the marked section is the
\* one of the address once no hashchange event is queued.
PageFollowsBrowser ==
    docs = "ready" =>
        /\ themeDark = isDark
        /\ saved # "none" => isDark = (saved = "dark")
        /\ ~hashEvent => currentId = SectionOf(hash)

\* However answers and failures of several clicks follow each other: a form says "sending"
\* only while a request is under way, and status and text are always of the same answer.
EchoSettles ==
    \A f \in Forms :
        /\ status[f] = "sending" => requests[f] > 0
        /\ response[f] = IF status[f] = "sending" THEN "" ELSE status[f]

\* The page agrees with the browser's storage and address, and its forms with their answers.
DocsPageAgrees == PageFollowsBrowser /\ EchoSettles
=============================================================================
