-------------------------- MODULE MCRedirectRegistry --------------------------
(***************************************************************************)
(* RedirectRegistry on paths where one is a prefix of another, at a segment*)
(* boundary and inside a segment, and a table of up to three rules.        *)
(***************************************************************************)
EXTENDS RedirectRegistry

MCPaths ==
    {<<"/", "d">>, <<"/", "d", "x">>, <<"/", "d", "/", "x">>}

MCFroms == MCPaths \ {<<"/", "d", "x">>}

MCChars == {"/", "d", "x"}

MCTargets == {"to", "elsewhere"}

=============================================================================
