--------------------------- MODULE MCStaticRouter ---------------------------
(***************************************************************************)
(* StaticRouter with two files, so that the path can come to name another  *)
(* one, and a limit that one size exceeds.  The paths: none or no slash    *)
(* after the prefix, a file, a folder with and without a query, "..", in   *)
(* front, behind, after one to three slashes, in a query, and as a part of *)
(* a name.                                                                 *)
(***************************************************************************)
EXTENDS StaticRouter

MCFiles == {"old", "new"}

MCUrls ==
    {<<>>, <<Name>>, <<Slash, Name>>, <<Slash, Mark, Up>>, <<Slash, Name, Slash, Mark>>,
     <<Slash, Up, Slash, Name>>, <<Slash, Name, Slash, Up>>, <<Slash, Slash, Up>>,
     <<Slash, Slash, Slash, Up, Slash, Name>>, <<Slash, Name, Slash, Up, Slash, Up>>,
     <<Slash, Name, Up>>, <<Slash, Up, Name>>}

=============================================================================
