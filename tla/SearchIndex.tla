---------------------------- MODULE SearchIndex -----------------------------
(***************************************************************************)
(* The search data of the API documentation and the result list made from  *)
(* it: the SearchResults class and createResults of                        *)
(* src/docs/doxygen/search/search.js.  A letter is a number and a word a   *)
(* sequence of them; a row is an entry of searchData, its members are the  *)
(* links folded below it ("children" in the code).                         *)
(***************************************************************************)
EXTENDS Integers, Sequences, FiniteSets, SequencesExt

CONSTANTS
    Index    \* Index[section][letter]: the rows of that search file, in order

Sections == DOMAIN Index

\* Sections are numbered as indexSectionsWithContent is; a file holds the names that begin
\* with its letter; names with a common beginning stand together, as in every search/*_*.js.
ASSUME IndexAssumption ==
    /\ IsFiniteSet(Sections) /\ Sections = 0..(Cardinality(Sections) - 1) /\ Sections # {}
    /\ \A s \in Sections :
          /\ DOMAIN Index[s] \subseteq Nat \ {0} /\ DOMAIN Index[s] # {}
          /\ \A l \in DOMAIN Index[s] : LET rows == Index[s][l] IN
                /\ rows \in Seq([name : Seq(Nat), members : Nat])
                /\ \A i \in DOMAIN rows : rows[i].name # <<>> /\ rows[i].name[1] = l
                /\ \A i, k \in DOMAIN rows : \A j \in i..k, n \in 1..Len(rows[i].name) :
                      IsPrefix(SubSeq(rows[i].name, 1, n), rows[k].name)
                         => IsPrefix(SubSeq(rows[i].name, 1, n), rows[j].name)

\* The smallest element of a set of numbers, 0 when there is none.
First(set) == IF set = {} THEN 0 ELSE CHOOSE n \in set : \A m \in set : n <= m

\* indexSectionsWithContent[section].indexOf(letter): the empty letter is found at once, in
\* front of everything; 0 stands for -1.
FileOf(section, word) ==
    IF word = <<>> THEN First(DOMAIN Index[section])
    ELSE IF word[1] \in DOMAIN Index[section] THEN word[1] ELSE 0

\* The rows whose name begins with the word.
Matching(rows, word) == {i \in DOMAIN rows : IsPrefix(word, rows[i].name)}

\* NavNext and NavPrev: the next visible row from i on, the last one up to i; 0 for none.
NavNext(shown, i) == First({j \in shown : j >= i})
NavPrev(shown, i) ==
    LET before == {j \in shown : j <= i}
    IN  IF before = {} THEN 0 ELSE CHOOSE j \in before : \A k \in before : k <= j

\* Seeded fault: the members of the row above are passed over.
NavUp_SkipMembers(rows, shown, open, at) ==
    IF at[2] > 0 THEN <<at[1], at[2] - 1>> ELSE <<NavPrev(shown, at[1] - 1), 0>>

\* Nav and NavChild on Up.  A place is <<row, member>>, member 0 being the row's own link;
\* row 0 is the search field.  The members are looked up under the row right above, which is
\* the visible one since visible rows stand together.
NavUp(rows, shown, open, at) ==
    IF at[2] > 0 THEN <<at[1], at[2] - 1>>
    ELSE LET row == NavPrev(shown, at[1] - 1)
         IN  <<row, IF row \in open THEN rows[at[1] - 1].members ELSE 0>>

\* Nav and NavChild on Down: the first or the next member of an unfolded row, else the next
\* visible row, else nowhere.
NavDown(rows, shown, open, at) ==
    IF at[2] < rows[at[1]].members /\ (at[2] > 0 \/ at[1] \in open)
    THEN <<at[1], at[2] + 1>>
    ELSE LET row == NavNext(shown, at[1] + 1) IN IF row = 0 THEN at ELSE <<row, 0>>
=============================================================================
