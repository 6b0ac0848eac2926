----------------------------- MODULE PublicPage -----------------------------
(***************************************************************************)
(* The example page, src/public/index.js: its script may run before the    *)
(* picture has arrived, after it, or between the arrival and the load or   *)
(* error event that tells of it.                                           *)
(***************************************************************************)
VARIABLES
    picture,      \* the browser's image: "loading", "good" or "broken" (complete)
    told,         \* its load or error event has been delivered
    scriptRun,    \* index.js has run
    imageHidden,  \* cakeImage.hidden
    placeholder   \* cakePlaceholder is shown

publicVars == <<picture, told, scriptRun, imageHidden, placeholder>>

PublicInit ==
    /\ picture = "loading" /\ told = FALSE /\ scriptRun = FALSE
    /\ imageHidden = FALSE /\ placeholder = FALSE
PublicLoad ==
    /\ picture' = "loading" /\ told' = FALSE /\ scriptRun' = FALSE
    /\ imageHidden' = FALSE /\ placeholder' = FALSE

ShowPlaceholder == imageHidden' = TRUE /\ placeholder' = TRUE
HidePlaceholder == imageHidden' = FALSE /\ placeholder' = FALSE

\* The picture arrives or cannot be had; the event is queued.
PictureEnds ==
    /\ picture = "loading" /\ picture' \in {"good", "broken"}
    /\ UNCHANGED <<told, scriptRun, imageHidden, placeholder>>

\* Seeded fault: the script only listens, and a picture that was there before it is missed.
RunScript_OnlyListen ==
    /\ ~scriptRun /\ scriptRun' = TRUE /\ UNCHANGED <<imageHidden, placeholder, picture, told>>

\* index.js: listeners for both events, then a look at what is complete already.
RunScript ==
    /\ ~scriptRun /\ scriptRun' = TRUE
    /\ \/ picture = "loading" /\ UNCHANGED <<imageHidden, placeholder>>
       \/ picture = "good" /\ HidePlaceholder
       \/ picture = "broken" /\ ShowPlaceholder
    /\ UNCHANGED <<picture, told>>

\* The event; it reaches nobody before the script has run.
PictureEvent ==
    /\ picture # "loading" /\ ~told /\ told' = TRUE
    /\ \/ ~scriptRun /\ UNCHANGED <<imageHidden, placeholder>>
       \/ scriptRun /\ picture = "good" /\ HidePlaceholder
       \/ scriptRun /\ picture = "broken" /\ ShowPlaceholder
    /\ UNCHANGED <<picture, scriptRun>>

PublicNext == PictureEnds \/ RunScript \/ PictureEvent

\* However script, picture and event follow each other: once all have, either the picture or
\* the placeholder is shown, as the picture's fate demands.
PictureOrPlaceholder ==
    scriptRun /\ told => imageHidden = (picture = "broken") /\ placeholder = imageHidden
=============================================================================
