------------------------------- MODULE Program -------------------------------
(***************************************************************************)
(* What main does before the accept loop, and the one thing inside it that *)
(* HttpServer takes as a unit: servers start (Startup), and the one that   *)
(* listens puts together the heads of its responses (ResponseHead), in a   *)
(* buffer that is gone when it is killed.                                  *)
(***************************************************************************)
EXTENDS Startup, ResponseHead

vars == <<startupVars, headVars>>

Init == StartupInit /\ HeadInit

Next ==
    \/ StartupNext /\ port' = port /\ UNCHANGED headVars
    \/ StartupNext /\ port' # port /\ at' = "idle" /\ left' = 0 /\ written' = 0 /\ total' = 0
    \/ port # {} /\ HeadNext /\ UNCHANGED startupVars

Spec == Init /\ [][Next]_vars

\* Both parts have their types, and a head is put together only in a server that listens.
TypeOK == StartupTypeOK /\ HeadTypeOK /\ (port = {} => at = "idle")
=============================================================================
