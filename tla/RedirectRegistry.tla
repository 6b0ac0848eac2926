--------------------------- MODULE RedirectRegistry ---------------------------
(***************************************************************************)
(* redirect_add and redirect_lookup of src/src/router/redirect_registry.c, *)
(* the lookup one iteration of one of its two loops at a time.  Indices    *)
(* count from one; best = 0 stands for best_match_idx = -1.            *)
(***************************************************************************)
EXTENDS Integers, Sequences

CONSTANTS
    Chars,     \* the characters of paths
    Slash,     \* the one that separates segments
    Froms, Paths, Targets, Capacity   \* as in RedirectTable

ASSUME TableAssumption ==
    /\ Slash \in Chars
    /\ \A p \in Froms \cup Paths : p \in Seq(Chars)
    /\ Capacity \in Nat

VARIABLES
    rules, path, result,   \* as in RedirectTable
    loop,                  \* which loop redirect_lookup is in, or "idle"
    i,                     \* its loop variable
    best,                  \* best_match_idx
    bestLen,               \* best_match_len
    bestPrio               \* best_match_prio

vars == <<rules, path, result, loop, i, best, bestLen, bestPrio>>

Table == INSTANCE RedirectTable WITH asked <- loop # "idle"

Init ==
    /\ rules = << >> /\ path = << >> /\ result = Table!NotFound
    /\ loop = "idle" /\ i = 1 /\ best = 0 /\ bestLen = 0 /\ bestPrio = 0

-----------------------------------------------------------------------------
\* Seeded fault: only the last rule is compared.
Known_Last(r) == Len(rules) > 0 /\ rules[Len(rules)] = r

\* find_rule_index: a rule equal in every field.
Known(r) == \E j \in 1..Len(rules) : rules[j] = r

\* Seeded fault: the capacity is not tested.
redirect_add_NoCapacity(r) ==
    /\ loop = "idle"
    /\ ~(r.match = "EXACT" /\ r.append)
    /\ Len(r.from) > 0
    /\ ~Known(r)
    /\ rules' = Append(rules, r)
    /\ UNCHANGED <<path, result, loop, i, best, bestLen, bestPrio>>

\* What redirect_add refuses changes nothing.
redirect_add(r) ==
    /\ loop = "idle"
    /\ Len(rules) < Capacity
    /\ ~(r.match = "EXACT" /\ r.append)
    /\ Len(r.from) > 0
    /\ ~Known(r)
    /\ rules' = Append(rules, r)
    /\ UNCHANGED <<path, result, loop, i, best, bestLen, bestPrio>>

Return(value) ==
    /\ loop' = "idle" /\ result' = value
    /\ i' = 1 /\ best' = 0 /\ bestLen' = 0 /\ bestPrio' = 0

-----------------------------------------------------------------------------
Lookup(p) ==
    /\ loop = "idle"
    /\ path' = p /\ loop' = "exact" /\ i' = 1
    /\ UNCHANGED <<rules, result, best, bestLen, bestPrio>>

\* The first loop: an exact rule is the answer at once.
ExactHit ==
    /\ loop = "exact" /\ i <= Len(rules)
    /\ Table!IsExact(rules[i], path)
    /\ Return(Table!Found(i, path))
    /\ UNCHANGED <<rules, path>>

ExactMiss ==
    /\ loop = "exact" /\ i <= Len(rules)
    /\ ~Table!IsExact(rules[i], path)
    /\ i' = i + 1
    /\ UNCHANGED <<rules, path, result, loop, best, bestLen, bestPrio>>

ExactEnd ==
    /\ loop = "exact" /\ i > Len(rules)
    /\ loop' = "prefix" /\ i' = 1
    /\ best' = 0 /\ bestLen' = 0 /\ bestPrio' = 0
    /\ UNCHANGED <<rules, path, result>>

\* The second loop: keep the best prefix rule so far.
Beats(j) ==
    LET len == Len(rules[j].from) IN
    LET prio == Table!Priority(rules[j]) IN
    \/ len > bestLen
    \/ len = bestLen /\ prio > bestPrio
    \/ len = bestLen /\ prio = bestPrio /\ j > best

\* Seeded fault: best_match_len is not updated.
PrefixBetter_KeepLength ==
    /\ loop = "prefix" /\ i <= Len(rules)
    /\ Table!IsPrefix(rules[i], path) /\ Beats(i)
    /\ best' = i /\ bestPrio' = Table!Priority(rules[i])
    /\ i' = i + 1
    /\ UNCHANGED <<rules, path, result, loop, bestLen>>

PrefixBetter ==
    /\ loop = "prefix" /\ i <= Len(rules)
    /\ Table!IsPrefix(rules[i], path) /\ Beats(i)
    /\ best' = i /\ bestLen' = Len(rules[i].from) /\ bestPrio' = Table!Priority(rules[i])
    /\ i' = i + 1
    /\ UNCHANGED <<rules, path, result, loop>>

PrefixSkip ==
    /\ loop = "prefix" /\ i <= Len(rules)
    /\ ~(Table!IsPrefix(rules[i], path) /\ Beats(i))
    /\ i' = i + 1
    /\ UNCHANGED <<rules, path, result, loop, best, bestLen, bestPrio>>

\* After the loops: nothing, the rule's target, or a joined target, for which
\* there may be no memory.
PrefixEnd ==
    /\ loop = "prefix" /\ i > Len(rules)
    /\ \/ best = 0 /\ Return(Table!NotFound)
       \/ best > 0 /\ Return(Table!Found(best, path))
       \/ best > 0 /\ rules[best].append /\ Return(Table!NoMemory)
    /\ UNCHANGED <<rules, path>>

Step == ExactHit \/ ExactMiss \/ ExactEnd \/ PrefixBetter \/ PrefixSkip \/ PrefixEnd

Next ==
    \/ \E r \in Table!Rule : redirect_add(r)
    \/ \E p \in Paths : Lookup(p)
    \/ Step

Spec == Init /\ [][Next]_vars /\ WF_vars(Step)

-----------------------------------------------------------------------------
(* Properties. *)

\* Every variable stays in its type; the loops stay within the table.
TypeOK ==
    /\ rules \in Seq(Table!Rule) /\ Len(rules) <= Capacity
    /\ path \in Paths \cup {<< >>}
    /\ loop \in {"idle", "exact", "prefix"}
    /\ i \in 1..(Len(rules) + 1) /\ best \in 0..Len(rules)
    /\ bestLen \in Nat /\ bestPrio \in 0..2

\* The table never holds a rule that redirect_add must refuse, and holds none
\* twice, whatever the order of the calls.
RulesAreSane ==
    /\ \A j \in 1..Len(rules) : /\ Len(rules[j].from) > 0
                                /\ rules[j].match = "EXACT" => ~rules[j].append
    /\ \A j, k \in 1..Len(rules) : rules[j] = rules[k] => j = k

ExactHere    == Table!ExactRules(path)
SeenPrefixes == {k \in Table!PrefixRules(path) : k < i}

\* In the middle of the second loop, best is the preferred one of the rules seen,
\* and the two numbers beside it are still that rule's: the three never part.
BestSoFar ==
    loop = "prefix" =>
        /\ ExactHere = {}
        /\ best = 0 => SeenPrefixes = {}
        /\ best > 0 => /\ best \in SeenPrefixes
                       /\ bestLen = Len(rules[best].from)
                       /\ bestPrio = Table!Priority(rules[best])
                       /\ \A k \in SeenPrefixes \ {best} : Table!Preferred(best, k)

\* The two loops return what the one atomic lookup of RedirectTable may return:
\* the earliest exact rule, or else the longest, most specific, latest prefix rule.
ImplementsTable == Table!Spec

=============================================================================
