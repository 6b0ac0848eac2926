---------------------------- MODULE RedirectTable ----------------------------
(***************************************************************************)
(* What the redirect registry promises: a table of rules that only grows,  *)
(* and a lookup that is one step, whose answer is described by what the    *)
(* best rule is and not by how it is found.  RedirectRegistry implements   *)
(* it.                                                                     *)
(***************************************************************************)
EXTENDS Integers, Sequences

CONSTANTS
    Slash,     \* the character "/"
    Froms,     \* the paths rules are for, sequences of characters
    Paths,     \* the paths of requests
    Targets,   \* where a rule may redirect to
    Capacity   \* MAX_REDIRECTS

VARIABLES
    rules,     \* registry->rules, rule_count of them
    asked,     \* whether a lookup is under way
    path,      \* the path it is for
    result     \* what the last lookup returned

table == <<rules, asked, path, result>>

\* struct redirect_rule, with its redirect_type part of the target.  from_len
\* is Len(from).
MatchTypes == {"EXACT", "PREFIX", "SEGMENT_PREFIX"}
Rule == [from : Froms, to : Targets, match : MatchTypes, append : BOOLEAN]

StartsWith(p, prefix) ==
    Len(p) >= Len(prefix) /\ SubSeq(p, 1, Len(prefix)) = prefix

\* path_matches_segment_prefix: the prefix ends where a segment ends.
EndsSegment(p, prefix) ==
    Len(p) > Len(prefix) => p[Len(prefix) + 1] = Slash

IsExact(r, p) == r.match = "EXACT" /\ r.from = p

IsPrefix(r, p) ==
    \/ r.match = "PREFIX" /\ StartsWith(p, r.from)
    \/ r.match = "SEGMENT_PREFIX" /\ StartsWith(p, r.from) /\ EndsSegment(p, r.from)

Priority(r) == IF r.match = "SEGMENT_PREFIX" THEN 2 ELSE 1

\* The rule at j is to be preferred to the rule at k: the longer from, then the
\* segment prefix, then the later one.
Preferred(j, k) ==
    \/ Len(rules[j].from) > Len(rules[k].from)
    \/ /\ Len(rules[j].from) = Len(rules[k].from)
       /\ \/ Priority(rules[j]) > Priority(rules[k])
          \/ Priority(rules[j]) = Priority(rules[k]) /\ j > k

ExactRules(p)  == {j \in 1..Len(rules) : IsExact(rules[j], p)}
PrefixRules(p) == {j \in 1..Len(rules) : IsPrefix(rules[j], p)}

\* The rule a lookup of p must choose, if any: the exact rule added first, or
\* else the preferred of the prefix rules.
BestRules(p) ==
    IF ExactRules(p) # {} THEN {j \in ExactRules(p) : \A k \in ExactRules(p) : j <= k}
    ELSE {j \in PrefixRules(p) : \A k \in PrefixRules(p) \ {j} : Preferred(j, k)}

\* The tail of the path is joined to the target in a buffer of its own, which
\* the caller then owns; without it the target is the rule's own string.
Found(j, p) ==
    [ret |-> 0, rule |-> j, owned |-> rules[j].append,
     target |-> <<rules[j].to,
                  IF rules[j].append THEN SubSeq(p, Len(rules[j].from) + 1, Len(p))
                  ELSE << >> >>]
NotFound == [ret |-> 1, rule |-> 0, owned |-> FALSE, target |-> << >>]
NoMemory == [ret |-> -1, rule |-> 0, owned |-> FALSE, target |-> << >>]

Init == rules = << >> /\ asked = FALSE /\ path = << >> /\ result = NotFound

\* redirect_add: the table holds no rule twice, no empty from, no EXACT rule
\* with a tail, and never more than its capacity.
Add(r) ==
    /\ ~asked
    /\ Len(rules) < Capacity
    /\ ~(r.match = "EXACT" /\ r.append)
    /\ r.from # << >>
    /\ \A j \in 1..Len(rules) : rules[j] # r
    /\ rules' = Append(rules, r)
    /\ UNCHANGED <<asked, path, result>>

Ask(p) ==
    /\ ~asked
    /\ asked' = TRUE /\ path' = p
    /\ UNCHANGED <<rules, result>>

Answer ==
    /\ asked
    /\ asked' = FALSE
    /\ \/ \E j \in BestRules(path) :
            \/ result' = Found(j, path)
            \/ rules[j].append /\ result' = NoMemory
       \/ BestRules(path) = {} /\ result' = NotFound
    /\ UNCHANGED <<rules, path>>

Next == (\E r \in Rule : Add(r)) \/ (\E p \in Paths : Ask(p)) \/ Answer

Spec == Init /\ [][Next]_table

=============================================================================
