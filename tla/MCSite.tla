------------------------------- MODULE MCSite -------------------------------
(* Instance: two sections, one of them without the first letter; a row with *)
(* two members, names that begin with each other; three levels of folders.  *)
EXTENDS Site

row(name, members) == [name |-> name, members |-> members]

MCIndex ==
    0 :> (1 :> <<row(<<1>>, 2), row(<<1, 2>>, 0)>> @@ 2 :> <<row(<<2>>, 0)>>) @@
    1 :> (2 :> <<row(<<2>>, 0)>>)
MCWords == {<<>>, <<1>>, <<1, 2>>}

MCTree == {<<0>>, <<0, 0>>, <<0, 0, 0>>, <<0, 1>>, <<0, 1, 0>>, <<1>>}
MCLevels == 1..3

\* Each section's text says "web" somewhere; the one that says it in a paragraph is not found.
MCTexts ==
    [intro |-> [title |-> {}, subtitle |-> {},
                blocks |-> {[type |-> "paragraph", contains |-> {"web"}]}],
     api   |-> [title |-> {}, subtitle |-> {}, blocks |-> {[type |-> "list", contains |-> {"web"}]}]]
=============================================================================
