----------------------- MODULE RedirectRegistry_proofs -----------------------
(***************************************************************************)
(* Proofs about RedirectRegistry for tables of every capacity and every    *)
(* set of paths: the types, the sanity of the table, the invariant of the  *)
(* search loop, and that the two loops implement RedirectTable.            *)
(***************************************************************************)
EXTENDS RedirectRegistry, WellFoundedInduction, TLAPS

\* In the first loop no rule seen so far is the exact one.
ExactSoFar ==
    loop = "exact" => \A k \in 1..Len(rules) : k < i => ~Table!IsExact(rules[k], path)

\* While no rule is the best one, any prefix rule beats the length kept.
NoBest == best = 0 => bestLen = 0

IInv == TypeOK /\ RulesAreSane /\ ExactSoFar /\ NoBest /\ BestSoFar

-----------------------------------------------------------------------------
\* A rule of the table is a rule, and the length of its from is a number.
LEMMA RuleTypes ==
    ASSUME TypeOK, NEW k \in 1..Len(rules)
    PROVE  /\ rules[k] \in Table!Rule
           /\ Len(rules[k].from) \in Nat
           /\ Table!Priority(rules[k]) \in 1..2
  <1>1. rules[k] \in Table!Rule
    BY DEF TypeOK
  <1>2. rules[k].from \in Seq(Chars)
    BY <1>1, TableAssumption DEF Table!Rule
  <1> QED
    BY <1>1, <1>2 DEF Table!Priority

\* The counters of the loop are numbers within the table.
LEMMA Numbers ==
    ASSUME TypeOK
    PROVE  /\ Len(rules) \in Nat /\ i \in Nat /\ best \in Nat /\ i >= 1
           /\ bestLen \in Nat /\ bestPrio \in Nat /\ best <= Len(rules)
  BY DEF TypeOK

\* Preferred is transitive: what beats the best so far beats all it has beaten.
LEMMA PreferredTransitive ==
    ASSUME TypeOK, NEW j \in 1..Len(rules), NEW k \in 1..Len(rules), NEW m \in 1..Len(rules),
           Table!Preferred(j, k), Table!Preferred(k, m)
    PROVE  Table!Preferred(j, m)
  <1> DEFINE len(x) == Len(rules[x].from)
             prio(x) == Table!Priority(rules[x])
  <1>1. /\ len(j) \in Nat /\ len(k) \in Nat /\ len(m) \in Nat
        /\ prio(j) \in Nat /\ prio(k) \in Nat /\ prio(m) \in Nat
        /\ j \in Nat /\ k \in Nat /\ m \in Nat
    BY RuleTypes, Numbers
  <1>2. /\ len(j) > len(k) \/ (len(j) = len(k) /\ (prio(j) > prio(k) \/ (prio(j) = prio(k) /\ j > k)))
        /\ len(k) > len(m) \/ (len(k) = len(m) /\ (prio(k) > prio(m) \/ (prio(k) = prio(m) /\ k > m)))
    BY DEF Table!Preferred
  <1> HIDE DEF len, prio
  <1>3. len(j) > len(m) \/ (len(j) = len(m) /\ (prio(j) > prio(m) \/ (prio(j) = prio(m) /\ j > m)))
    BY <1>1, <1>2
  <1> QED
    BY <1>3 DEF Table!Preferred, len, prio

\* Of two rules of the table one is to be preferred: the last criterion, the
\* index, decides every tie.
LEMMA PreferredTotal ==
    ASSUME TypeOK, NEW j \in 1..Len(rules), NEW k \in 1..Len(rules), j # k
    PROVE  Table!Preferred(j, k) \/ Table!Preferred(k, j)
  BY RuleTypes, Numbers DEF Table!Preferred

\* No rule is to be preferred to one that is preferred to it.
LEMMA PreferredAsymmetric ==
    ASSUME TypeOK, NEW j \in 1..Len(rules), NEW k \in 1..Len(rules),
           Table!Preferred(j, k)
    PROVE  ~Table!Preferred(k, j)
  BY RuleTypes, Numbers DEF Table!Preferred

\* While best, bestLen and bestPrio belong together, the comparison of the code
\* is the preference of the specification.
LEMMA BeatsIsPreferred ==
    ASSUME TypeOK, NEW j \in 1..Len(rules), best > 0,
           bestLen = Len(rules[best].from), bestPrio = Table!Priority(rules[best])
    PROVE  Beats(j) <=> Table!Preferred(j, best)
  BY DEF Beats, Table!Preferred

LEMMA InitInv == Init => IInv
  BY TableAssumption
  DEF Init, IInv, TypeOK, RulesAreSane, ExactSoFar, NoBest, BestSoFar

\* Adding a rule keeps the table sane; no lookup is under way.
LEMMA AddInv ==
    ASSUME IInv, NEW r \in Table!Rule, redirect_add(r)
    PROVE  IInv'
  <1> USE DEF IInv
  <1>1. /\ rules \in Seq(Table!Rule) /\ Len(rules) \in Nat
        /\ rules' = Append(rules, r) /\ Len(rules') = Len(rules) + 1
        /\ rules'[Len(rules) + 1] = r
        /\ \A k \in 1..Len(rules) : rules'[k] = rules[k]
    BY DEF redirect_add, TypeOK
  <1>2. \A k \in 1..Len(rules') : k \in 1..Len(rules) \/ k = Len(rules) + 1
    BY <1>1
  <1>3. TypeOK'
    BY <1>1, TableAssumption DEF redirect_add, TypeOK
  <1>4. RulesAreSane'
    <2>1. ~Known(r) /\ Len(r.from) > 0 /\ (r.match = "EXACT" => ~r.append)
      BY DEF redirect_add
    <2>2. \A j \in 1..Len(rules') : /\ Len(rules'[j].from) > 0
                                    /\ rules'[j].match = "EXACT" => ~rules'[j].append
      BY <1>1, <1>2, <2>1 DEF RulesAreSane
    <2>3. \A j, k \in 1..Len(rules') : rules'[j] = rules'[k] => j = k
      BY <1>1, <1>2, <2>1 DEF RulesAreSane, Known
    <2> QED
      BY <2>2, <2>3 DEF RulesAreSane
  <1>5. ExactSoFar' /\ NoBest' /\ BestSoFar'
    BY DEF redirect_add, ExactSoFar, NoBest, BestSoFar
  <1> QED
    BY <1>3, <1>4, <1>5

\* Ending a lookup leaves the table alone and the counters at rest.
LEMMA ReturnInv ==
    ASSUME IInv, NEW value, Return(value), UNCHANGED <<rules, path>>
    PROVE  IInv'
  <1>1. Len(rules) \in Nat
    BY Numbers DEF IInv
  <1> QED
    BY <1>1 DEF IInv, Return, TypeOK, RulesAreSane, ExactSoFar, NoBest, BestSoFar

LEMMA LookupInv ==
    ASSUME IInv, NEW p \in Paths, Lookup(p)
    PROVE  IInv'
  <1>1. Len(rules) \in Nat
    BY Numbers DEF IInv
  <1>2. TypeOK' /\ RulesAreSane'
    BY <1>1 DEF IInv, Lookup, TypeOK, RulesAreSane
  <1>3. ExactSoFar' /\ NoBest' /\ BestSoFar'
    BY <1>1 DEF IInv, Lookup, ExactSoFar, NoBest, BestSoFar
  <1> QED
    BY <1>2, <1>3 DEF IInv

\* The first loop goes past a rule only if it is not the exact one.
LEMMA ExactMissInv ==
    ASSUME IInv, ExactMiss
    PROVE  IInv'
  <1>1. Len(rules) \in Nat /\ i \in Nat /\ i >= 1 /\ i <= Len(rules)
    BY Numbers DEF IInv, ExactMiss
  <1>2. TypeOK' /\ RulesAreSane' /\ NoBest' /\ BestSoFar'
    BY <1>1 DEF IInv, ExactMiss, TypeOK, RulesAreSane, NoBest, BestSoFar
  <1>3. ExactSoFar'
    <2> SUFFICES ASSUME NEW k \in 1..Len(rules), k < i + 1
                 PROVE  ~Table!IsExact(rules[k], path)
      BY DEF ExactSoFar, ExactMiss, Table!IsExact
    <2>1. k < i \/ k = i
      BY <1>1
    <2> QED
      BY <2>1 DEF IInv, ExactSoFar, ExactMiss
  <1> QED
    BY <1>2, <1>3 DEF IInv

\* The second loop starts only when the first has gone past every rule.
LEMMA ExactEndInv ==
    ASSUME IInv, ExactEnd
    PROVE  IInv'
  <1>1. Len(rules) \in Nat /\ i \in Nat /\ i > Len(rules)
    BY Numbers DEF IInv, ExactEnd
  <1>2. TypeOK' /\ RulesAreSane' /\ ExactSoFar' /\ NoBest'
    BY <1>1 DEF IInv, ExactEnd, TypeOK, RulesAreSane, ExactSoFar, NoBest
  <1>3. Table!ExactRules(path) = {}
    BY <1>1 DEF IInv, ExactSoFar, ExactEnd, Table!ExactRules
  <1>4. SeenPrefixes' = {}
    BY <1>1 DEF ExactEnd, SeenPrefixes, Table!PrefixRules
  <1>5. BestSoFar'
    BY <1>3, <1>4 DEF BestSoFar, ExactEnd, ExactHere, Table!ExactRules, Table!IsExact
  <1> QED
    BY <1>2, <1>5 DEF IInv

-----------------------------------------------------------------------------
\* The new best rule beats every prefix rule seen so far: it beats the old best
\* one, which had beaten the others.
LEMMA PrefixBetterInv ==
    ASSUME IInv, PrefixBetter
    PROVE  IInv'
  <1>1. /\ Len(rules) \in Nat /\ i \in Nat /\ i >= 1 /\ i <= Len(rules) /\ i \in 1..Len(rules)
        /\ rules' = rules /\ path' = path /\ i' = i + 1 /\ best' = i
        /\ loop = "prefix" /\ loop' = "prefix"
    BY Numbers DEF IInv, PrefixBetter
  <1>2. TypeOK' /\ RulesAreSane' /\ ExactSoFar' /\ NoBest'
    BY <1>1, RuleTypes DEF IInv, PrefixBetter, TypeOK, RulesAreSane, ExactSoFar, NoBest
  <1>3. i \in Table!PrefixRules(path)
    BY <1>1 DEF PrefixBetter, Table!PrefixRules
  <1>4. SeenPrefixes' = SeenPrefixes \cup {i}
    <2>1. \A k \in 1..Len(rules) : k < i + 1 <=> k < i \/ k = i
      BY <1>1
    <2> QED
      BY <1>1, <1>3, <2>1
      DEF SeenPrefixes, Table!PrefixRules, Table!IsPrefix, Table!StartsWith, Table!EndsSegment
  <1>5. ASSUME NEW k \in SeenPrefixes PROVE Table!Preferred(i, k)
    <2>1. best > 0 /\ best \in SeenPrefixes /\ best \in 1..Len(rules) /\ k \in 1..Len(rules)
      BY <1>1, <1>5, Numbers DEF IInv, BestSoFar, SeenPrefixes, Table!PrefixRules
    <2>2. Table!Preferred(i, best)
      BY <1>1, <2>1, BeatsIsPreferred DEF IInv, BestSoFar, PrefixBetter
    <2>3. k = best \/ Table!Preferred(best, k)
      BY <1>1, <1>5, <2>1 DEF IInv, BestSoFar
    <2> QED
      BY <1>1, <2>1, <2>2, <2>3, PreferredTransitive DEF IInv
  <1>6. BestSoFar'
    <2>1. ExactHere' = {}
      BY <1>1 DEF IInv, BestSoFar, ExactHere, Table!ExactRules, Table!IsExact
    <2>2. bestLen' = Len(rules'[best'].from) /\ bestPrio' = Table!Priority(rules'[best'])
      BY <1>1 DEF PrefixBetter, Table!Priority
    <2>3. \A k \in SeenPrefixes' \ {i} : Table!Preferred(i, k)
      BY <1>4, <1>5
    <2>4. i \in SeenPrefixes' /\ best' # 0
      BY <1>1, <1>4
    <2> QED
      BY <1>1, <2>1, <2>2, <2>3, <2>4 DEF BestSoFar, Table!Preferred, Table!Priority
  <1> QED
    BY <1>2, <1>6 DEF IInv

\* A prefix rule that does not beat the best one is beaten by it.
LEMMA PrefixSkipInv ==
    ASSUME IInv, PrefixSkip
    PROVE  IInv'
  <1>1. /\ Len(rules) \in Nat /\ i \in Nat /\ i >= 1 /\ i <= Len(rules) /\ i \in 1..Len(rules)
        /\ rules' = rules /\ path' = path /\ i' = i + 1
        /\ best' = best /\ bestLen' = bestLen /\ bestPrio' = bestPrio
        /\ loop = "prefix" /\ loop' = "prefix"
    BY Numbers DEF IInv, PrefixSkip
  <1>2. TypeOK' /\ RulesAreSane' /\ ExactSoFar' /\ NoBest'
    BY <1>1 DEF IInv, PrefixSkip, TypeOK, RulesAreSane, ExactSoFar, NoBest
  <1>3. \A k \in SeenPrefixes' : k \in SeenPrefixes \/ (k = i /\ Table!IsPrefix(rules[i], path))
    <2>1. \A k \in 1..Len(rules) : k < i + 1 => k < i \/ k = i
      BY <1>1
    <2> QED
      BY <1>1, <2>1
      DEF SeenPrefixes, Table!PrefixRules, Table!IsPrefix, Table!StartsWith, Table!EndsSegment
  <1>4. SeenPrefixes \subseteq SeenPrefixes'
    <2>1. \A k \in 1..Len(rules) : k < i => k < i + 1
      BY <1>1
    <2> QED
      BY <1>1, <2>1
      DEF SeenPrefixes, Table!PrefixRules, Table!IsPrefix, Table!StartsWith, Table!EndsSegment
  <1>5. ASSUME Table!IsPrefix(rules[i], path)
        PROVE  best > 0 /\ Table!Preferred(best, i)
    <2>1. ~Beats(i)
      BY <1>5 DEF PrefixSkip
    <2>2. Len(rules[i].from) > 0 /\ Len(rules[i].from) \in Nat
      BY <1>1, RuleTypes DEF IInv, RulesAreSane
    <2>3. best > 0
      BY <1>1, <2>1, <2>2, Numbers DEF IInv, NoBest, Beats
    <2>4. best \in 1..Len(rules) /\ best # i
      BY <1>1, <2>3, Numbers DEF IInv, BestSoFar, SeenPrefixes
    <2>5. ~Table!Preferred(i, best)
      BY <1>1, <2>1, <2>3, BeatsIsPreferred DEF IInv, BestSoFar
    <2> QED
      BY <1>1, <2>3, <2>4, <2>5, PreferredTotal DEF IInv
  <1>6. BestSoFar'
    <2>1. ExactHere' = {}
      BY <1>1 DEF IInv, BestSoFar, ExactHere, Table!ExactRules, Table!IsExact
    <2>2. best = 0 => SeenPrefixes' = {}
      BY <1>1, <1>3, <1>5, Numbers DEF IInv, BestSoFar
    <2>3. best > 0 => /\ best \in SeenPrefixes'
                      /\ bestLen = Len(rules[best].from)
                      /\ bestPrio = Table!Priority(rules[best])
      BY <1>1, <1>4 DEF IInv, BestSoFar
    <2>4. best > 0 => \A k \in SeenPrefixes' \ {best} : Table!Preferred(best, k)
      BY <1>1, <1>3, <1>5 DEF IInv, BestSoFar
    <2> QED
      BY <1>1, <2>1, <2>2, <2>3, <2>4 DEF BestSoFar, Table!Preferred, Table!Priority
  <1> QED
    BY <1>2, <1>6 DEF IInv

-----------------------------------------------------------------------------
LEMMA StepInv == IInv /\ [Next]_vars => IInv'
  <1> SUFFICES ASSUME IInv, [Next]_vars PROVE IInv'
    OBVIOUS
  <1>1. ASSUME NEW r \in Table!Rule, redirect_add(r) PROVE IInv'
    BY <1>1, AddInv
  <1>2. ASSUME NEW p \in Paths, Lookup(p) PROVE IInv'
    BY <1>2, LookupInv
  <1>3. CASE ExactHit
    BY <1>3, ReturnInv DEF ExactHit
  <1>4. CASE ExactMiss
    BY <1>4, ExactMissInv
  <1>5. CASE ExactEnd
    BY <1>5, ExactEndInv
  <1>6. CASE PrefixBetter
    BY <1>6, PrefixBetterInv
  <1>7. CASE PrefixSkip
    BY <1>7, PrefixSkipInv
  <1>8. CASE PrefixEnd
    BY <1>8, ReturnInv DEF PrefixEnd
  <1>9. CASE UNCHANGED vars
    BY <1>9
    DEF vars, IInv, TypeOK, RulesAreSane, ExactSoFar, NoBest, BestSoFar, ExactHere, SeenPrefixes,
        Table!ExactRules, Table!PrefixRules, Table!IsExact, Table!IsPrefix, Table!StartsWith,
        Table!EndsSegment, Table!Preferred, Table!Priority
  <1> QED
    BY <1>1, <1>2, <1>3, <1>4, <1>5, <1>6, <1>7, <1>8, <1>9 DEF Next, Step

\* The invariant of the registry holds in every behaviour.
THEOREM Invariance == Spec => []IInv
  BY InitInv, StepInv, PTL DEF Spec

\* Every variable keeps its type; the two loops stay within the table.
THEOREM TypeCorrect == Spec => []TypeOK
  <1>1. IInv => TypeOK
    BY DEF IInv
  <1> QED
    BY <1>1, Invariance, PTL

\* No sequence of calls puts into the table a rule that redirect_add must refuse,
\* or one rule twice.
THEOREM TableStaysSane == Spec => []RulesAreSane
  <1>1. IInv => RulesAreSane
    BY DEF IInv
  <1> QED
    BY <1>1, Invariance, PTL

\* The best rule so far is the preferred one of those seen, at every iteration of
\* the second loop of redirect_lookup.
THEOREM BestIsBest == Spec => []BestSoFar
  <1>1. IInv => BestSoFar
    BY DEF IInv
  <1> QED
    BY <1>1, Invariance, PTL

-----------------------------------------------------------------------------
(* The two loops implement the atomic lookup of RedirectTable.             *)

\* Adding a rule, and asking for a path, are steps of the table.
LEMMA AddMaps ==
    ASSUME IInv, NEW r \in Table!Rule, redirect_add(r)
    PROVE  Table!Add(r)
  <1>1. r.from # << >>
    BY DEF redirect_add
  <1> QED
    BY <1>1 DEF redirect_add, Known, Table!Add

LEMMA LookupMaps ==
    ASSUME NEW p \in Paths, Lookup(p)
    PROVE  Table!Ask(p)
  BY DEF Lookup, Table!Ask

\* The exact rule found first is the earliest one.
LEMMA ExactHitMaps ==
    ASSUME IInv, ExactHit
    PROVE  Table!Answer
  <1>1. Len(rules) \in Nat /\ i \in 1..Len(rules) /\ i \in Nat
    BY Numbers DEF IInv, ExactHit
  <1>2. i \in Table!ExactRules(path)
    BY <1>1 DEF ExactHit, Table!ExactRules
  <1>3. \A k \in Table!ExactRules(path) : i <= k
    <2> SUFFICES ASSUME NEW k \in Table!ExactRules(path), k < i PROVE FALSE
      BY <1>1 DEF Table!ExactRules
    <2> QED
      BY DEF IInv, ExactSoFar, ExactHit, Table!ExactRules
  <1>4. i \in Table!BestRules(path)
    BY <1>2, <1>3 DEF Table!BestRules
  <1> QED
    BY <1>4 DEF ExactHit, Return, Table!Answer

\* At the end of the second loop the best rule seen is the best rule there is.
LEMMA PrefixEndMaps ==
    ASSUME IInv, PrefixEnd
    PROVE  Table!Answer
  <1>1. Len(rules) \in Nat /\ i \in Nat /\ i > Len(rules) /\ best \in Nat
    BY Numbers DEF IInv, PrefixEnd
  <1>2. SeenPrefixes = Table!PrefixRules(path)
    BY <1>1 DEF SeenPrefixes, Table!PrefixRules
  <1>3. Table!ExactRules(path) = {}
    BY DEF IInv, BestSoFar, PrefixEnd, ExactHere
  <1>4. CASE best = 0
    <2>1. Table!BestRules(path) = {}
      BY <1>2, <1>3, <1>4 DEF IInv, BestSoFar, PrefixEnd, Table!BestRules
    <2> QED
      BY <2>1, <1>4 DEF PrefixEnd, Return, Table!Answer
  <1>5. CASE best > 0
    <2>1. best \in Table!BestRules(path)
      BY <1>2, <1>3, <1>5 DEF IInv, BestSoFar, PrefixEnd, Table!BestRules
    <2> QED
      BY <2>1, <1>5 DEF PrefixEnd, Return, Table!Answer
  <1> QED
    BY <1>1, <1>4, <1>5

\* The iterations between change nothing the table shows.
LEMMA LoopStutters ==
    ASSUME ExactMiss \/ ExactEnd \/ PrefixBetter \/ PrefixSkip \/ UNCHANGED vars
    PROVE  UNCHANGED Table!table
  BY DEF ExactMiss, ExactEnd, PrefixBetter, PrefixSkip, vars, Table!table

LEMMA StepMaps == IInv /\ [Next]_vars => [Table!Next]_(Table!table)
  <1> SUFFICES ASSUME IInv, [Next]_vars PROVE [Table!Next]_(Table!table)
    OBVIOUS
  <1>1. ASSUME NEW r \in Table!Rule, redirect_add(r) PROVE Table!Next
    BY <1>1, AddMaps DEF Table!Next
  <1>2. ASSUME NEW p \in Paths, Lookup(p) PROVE Table!Next
    BY <1>2, LookupMaps DEF Table!Next
  <1>3. CASE ExactHit
    BY <1>3, ExactHitMaps DEF Table!Next
  <1>4. CASE PrefixEnd
    BY <1>4, PrefixEndMaps DEF Table!Next
  <1>5. CASE ExactMiss \/ ExactEnd \/ PrefixBetter \/ PrefixSkip \/ UNCHANGED vars
    BY <1>5, LoopStutters
  <1> QED
    BY <1>1, <1>2, <1>3, <1>4, <1>5 DEF Next, Step

\* What the two loops of redirect_lookup return is what the one step of
\* RedirectTable may return, for every table and every path.
THEOREM RegistryImplementsTable == Spec => ImplementsTable
  <1>1. Init => Table!Init
    BY DEF Init, Table!Init
  <1> QED
    BY <1>1, Invariance, StepMaps, PTL DEF Spec, ImplementsTable, Table!Spec

-----------------------------------------------------------------------------
(* What the table answers, whatever rules are in it and in which order they     *)
(* were added.                                                                  *)

\* The rules that match a path.
Matching(p) == Table!ExactRules(p) \cup Table!PrefixRules(p)

\* There is one rule to choose as soon as one matches.
OneBest ==
    \A p \in Paths : IF Matching(p) = {} THEN Table!BestRules(p) = {}
                     ELSE \E j \in Matching(p) : Table!BestRules(p) = {j}

\* A set of numbers with a bound has a largest one.
LEMMA Largest ==
    ASSUME NEW bound \in Nat, NEW T, T \subseteq 0..bound, T # {}
    PROVE  \E x \in T : \A y \in T : y <= x
  <1> DEFINE rest == {bound - x : x \in T}
  <1>1. rest \subseteq Nat /\ rest # {}
    <2>1. \A x \in T : bound - x \in Nat /\ bound - x \in rest
      OBVIOUS
    <2> QED
      BY <2>1
  <1>2. PICK least \in rest : \A y \in rest : ~(<<y, least>> \in OpToRel(<, Nat))
    <2> HIDE DEF rest
    <2> QED
      BY <1>1, NatLessThanWellFounded, WFMin
  <1>3. \A y \in rest : ~(y < least)
    BY <1>1, <1>2 DEF OpToRel
  <1>4. PICK x \in T : least = bound - x
    BY <1>2
  <1>5. ASSUME NEW y \in T PROVE y <= x
    <2>1. ~(bound - y < bound - x)
      BY <1>3, <1>4
    <2>2. x \in 0..bound /\ y \in 0..bound
      OBVIOUS
    <2> QED
      BY <2>1, <2>2
  <1> QED
    BY <1>5

\* Of rules that match a path, one is to be preferred to all others.
LEMMA OnePreferred ==
    ASSUME TypeOK, NEW p \in Paths, Table!PrefixRules(p) # {}
    PROVE  \E j \in Table!PrefixRules(p) :
              \A k \in Table!PrefixRules(p) \ {j} : Table!Preferred(j, k)
  <1> DEFINE T == Table!PrefixRules(p)
             len(j) == Len(rules[j].from)
             prio(j) == Table!Priority(rules[j])
  <1>1. T \subseteq 1..Len(rules) /\ T # {} /\ Len(rules) \in Nat
    BY Numbers DEF Table!PrefixRules
  <1>2. Len(p) \in Nat
    BY TableAssumption
  <1>3. \A j \in T : len(j) \in 0..Len(p) /\ prio(j) \in 1..2
    <2> SUFFICES ASSUME NEW j \in T PROVE len(j) \in 0..Len(p) /\ prio(j) \in 1..2
      OBVIOUS
    <2>1. len(j) \in Nat /\ prio(j) \in 1..2
      BY <1>1, RuleTypes
    <2>2. len(j) <= Len(p)
      BY DEF Table!PrefixRules, Table!IsPrefix, Table!StartsWith
    <2> QED
      BY <1>2, <2>1, <2>2
  <1> HIDE DEF T, len, prio
  <1>4. PICK longest \in T : \A k \in T : len(k) <= len(longest)
    <2> DEFINE lens == {len(k) : k \in T}
    <2>1. lens \subseteq 0..Len(p) /\ lens # {}
      BY <1>1, <1>3
    <2> HIDE DEF lens
    <2>2. PICK x \in lens : \A y \in lens : y <= x
      BY <1>2, <2>1, Largest
    <2> QED
      BY <2>2 DEF lens
  <1> DEFINE Long == {k \in T : len(k) = len(longest)}
  <1>5. PICK first \in Long : \A k \in Long : prio(k) <= prio(first)
    BY <1>3
  <1> DEFINE Best == {k \in Long : prio(k) = prio(first)}
  <1>6. PICK j \in Best : \A k \in Best : k <= j
    <2>1. first \in Best /\ Best \subseteq T
      BY <1>5
    <2> HIDE DEF Best
    <2>2. Best \subseteq 0..Len(rules) /\ Best # {}
      BY <1>1, <2>1
    <2> QED
      BY <1>1, <2>2, Largest
  <1>7. ASSUME NEW k \in T \ {j}
        PROVE  \/ len(j) > len(k)
               \/ len(j) = len(k) /\ (prio(j) > prio(k) \/ (prio(j) = prio(k) /\ j > k))
    BY <1>1, <1>3, <1>4, <1>5, <1>6, <1>7
  <1> QED
    BY <1>6, <1>7 DEF Table!Preferred, T, len, prio

\* So the specification's choice is never empty-handed and never has a choice.
LEMMA OneBestHolds == TypeOK => OneBest
  <1> SUFFICES ASSUME TypeOK, NEW p \in Paths
               PROVE  IF Matching(p) = {} THEN Table!BestRules(p) = {}
                      ELSE \E j \in Matching(p) : Table!BestRules(p) = {j}
    BY DEF OneBest
  <1>1. /\ Table!ExactRules(p) \subseteq 1..Len(rules) /\ Table!PrefixRules(p) \subseteq 1..Len(rules)
        /\ Len(rules) \in Nat
    BY Numbers DEF Table!ExactRules, Table!PrefixRules
  <1>2. CASE Table!ExactRules(p) # {}
    <2> DEFINE rest == {Len(rules) - j : j \in Table!ExactRules(p)}
    <2>1. rest \subseteq 0..Len(rules) /\ rest # {}
      BY <1>1, <1>2
    <2> HIDE DEF rest
    <2>2. PICK x \in rest : \A y \in rest : y <= x
      BY <1>1, <2>1, Largest
    <2>3. PICK j \in Table!ExactRules(p) : x = Len(rules) - j
      BY <2>2 DEF rest
    <2>4. \A k \in Table!ExactRules(p) : j <= k
      <3> SUFFICES ASSUME NEW k \in Table!ExactRules(p) PROVE j <= k
        OBVIOUS
      <3>1. Len(rules) - k <= Len(rules) - j
        BY <2>2, <2>3 DEF rest
      <3> QED
        BY <1>1, <3>1
    <2>5. Table!BestRules(p) = {j}
      BY <1>1, <1>2, <2>4 DEF Table!BestRules
    <2> QED
      BY <1>2, <2>5 DEF Matching
  <1>3. CASE Table!ExactRules(p) = {} /\ Table!PrefixRules(p) # {}
    <2>1. PICK j \in Table!PrefixRules(p) :
            \A k \in Table!PrefixRules(p) \ {j} : Table!Preferred(j, k)
      BY <1>3, OnePreferred
    <2>2. ASSUME NEW k \in Table!PrefixRules(p) \ {j} PROVE ~Table!Preferred(k, j)
      BY <1>1, <2>1, PreferredAsymmetric
    <2>3. Table!BestRules(p) = {j}
      BY <1>3, <2>1, <2>2 DEF Table!BestRules
    <2> QED
      BY <1>3, <2>3 DEF Matching
  <1>4. CASE Table!ExactRules(p) = {} /\ Table!PrefixRules(p) = {}
    BY <1>4 DEF Matching, Table!BestRules
  <1> QED
    BY <1>2, <1>3, <1>4

\* Whatever rules are in the table, a lookup has exactly one rule to choose if some rule matches
\* its path, and none otherwise: ties on length and kind never leave the answer open.
THEOREM LookupIsDecided == Spec => []OneBest
  <1>1. IInv => OneBest
    BY OneBestHolds DEF IInv
  <1> QED
    BY <1>1, Invariance, PTL

\* A step changes the rule to choose for a path only by adding a rule that matches it, and then
\* to this rule; and no rule takes a path from an exact one.
OnlyTheNewRule ==
    \A p \in Paths :
        \/ Table!BestRules(p)' = Table!BestRules(p)
        \/ /\ Table!ExactRules(p) = {} /\ Len(rules) + 1 \in Matching(p)'
           /\ Table!BestRules(p)' = {Len(rules) + 1}

\* One more rule, which matches as a prefix, is chosen or changes nothing.
LEMMA NewPrefix ==
    ASSUME TypeOK, TypeOK', NEW r \in Table!Rule, rules' = Append(rules, r), NEW p \in Paths,
           NEW new, new = Len(rules) + 1, Table!ExactRules(p) = {}, Table!ExactRules(p)' = {},
           Table!PrefixRules(p)' = Table!PrefixRules(p) \cup {new}
    PROVE  Table!BestRules(p)' \in {Table!BestRules(p), {new}}
  <1> DEFINE T == Table!PrefixRules(p)
             len(j) == Len(rules[j].from)
             prio(j) == Table!Priority(rules[j])
             Beaten(j) == Len(r.from) > len(j)
                            \/ (Len(r.from) = len(j) /\ Table!Priority(r) >= prio(j))
  <1>1. T \subseteq 1..Len(rules) /\ Len(rules) \in Nat /\ rules \in Seq(Table!Rule)
    BY Numbers DEF Table!PrefixRules, TypeOK
  <1>2. rules'[new] = r /\ \A j \in T : rules'[j] = rules[j]
    BY <1>1
  <1>3. r.from \in Seq(Chars) /\ Len(r.from) \in Nat /\ Table!Priority(r) \in 1..2
    BY TableAssumption DEF Table!Rule, Table!Priority
  <1>4. \A j \in T : len(j) \in Nat /\ prio(j) \in 1..2 /\ j \in Nat /\ j < new
    BY <1>1, RuleTypes
  <1>5. \A j, k \in T : Table!Preferred(j, k)' <=> Table!Preferred(j, k)
    BY <1>2 DEF Table!Preferred, Table!Priority
  <1>6. \A j \in T : /\ Table!Preferred(new, j)' <=> Beaten(j)
                     /\ Table!Preferred(j, new)' <=> ~Beaten(j)
    <2> SUFFICES ASSUME NEW j \in T
                 PROVE  /\ Table!Preferred(new, j)' <=> Beaten(j)
                        /\ Table!Preferred(j, new)' <=> ~Beaten(j)
      OBVIOUS
    <2>1. /\ Table!Preferred(new, j)' <=>
                \/ Len(r.from) > len(j)
                \/ Len(r.from) = len(j) /\ (Table!Priority(r) > prio(j)
                                            \/ (Table!Priority(r) = prio(j) /\ new > j))
          /\ Table!Preferred(j, new)' <=>
                \/ len(j) > Len(r.from)
                \/ len(j) = Len(r.from) /\ (prio(j) > Table!Priority(r)
                                            \/ (prio(j) = Table!Priority(r) /\ j > new))
      BY <1>2 DEF Table!Preferred, Table!Priority
    <2> HIDE DEF len, prio
    <2>2. /\ len(j) \in Nat /\ prio(j) \in 1..2 /\ j \in Nat /\ new \in Nat /\ j < new
          /\ Len(r.from) \in Nat /\ Table!Priority(r) \in 1..2
      BY <1>1, <1>3, <1>4
    <2> QED
      BY <2>1, <2>2
  <1>7. new \notin T
    BY <1>1
  <1>8. /\ Table!BestRules(p) = {j \in T : \A k \in T \ {j} : Table!Preferred(j, k)}
        /\ Table!BestRules(p)' = {j \in T \cup {new} :
                                    \A k \in (T \cup {new}) \ {j} : Table!Preferred(j, k)'}
    BY DEF Table!BestRules
  <1>9. CASE \A j \in T : Beaten(j)
    <2> HIDE DEF T, Beaten
    <2>1. Table!BestRules(p)' = {new}
      BY <1>6, <1>7, <1>8, <1>9
    <2> QED
      BY <2>1
  <1>10. ASSUME NEW k \in T, ~Beaten(k) PROVE Table!BestRules(p)' = Table!BestRules(p)
    <2>1. \A j \in T : Table!Preferred(j, k) => ~Beaten(j)
      <3> SUFFICES ASSUME NEW j \in T, Table!Preferred(j, k) PROVE ~Beaten(j)
        OBVIOUS
      <3>1. len(j) > len(k) \/ (len(j) = len(k) /\ prio(j) >= prio(k))
        BY <1>4 DEF Table!Preferred
      <3> HIDE DEF len, prio
      <3> QED
        BY <1>3, <1>4, <1>10, <3>1
    <2> HIDE DEF T, Beaten
    <2>2. new \notin Table!BestRules(p)'
      BY <1>6, <1>7, <1>8, <1>10
    <2>3. ASSUME NEW j \in T PROVE j \in Table!BestRules(p)' <=> j \in Table!BestRules(p)
      <3>1. j \in Table!BestRules(p)' => j \in Table!BestRules(p)
        BY <1>5, <1>7, <1>8
      <3>2. ASSUME j \in Table!BestRules(p) PROVE ~Beaten(j)
        BY <1>8, <1>10, <2>1, <3>2
      <3>3. ASSUME j \in Table!BestRules(p) PROVE j \in Table!BestRules(p)'
        BY <1>5, <1>6, <1>7, <1>8, <3>2, <3>3
      <3> QED
        BY <3>1, <3>3
    <2> QED
      BY <1>8, <2>2, <2>3
  <1> QED
    BY <1>9, <1>10

LEMMA AddChanges ==
    ASSUME IInv, IInv', NEW r \in Table!Rule, redirect_add(r)
    PROVE  OnlyTheNewRule
  <1> SUFFICES ASSUME NEW p \in Paths
               PROVE  \/ Table!BestRules(p)' = Table!BestRules(p)
                      \/ /\ Table!ExactRules(p) = {} /\ Len(rules) + 1 \in Matching(p)'
                         /\ Table!BestRules(p)' = {Len(rules) + 1}
    BY DEF OnlyTheNewRule
  <1> DEFINE new == Len(rules) + 1
  <1>1. /\ rules \in Seq(Table!Rule) /\ Len(rules) \in Nat /\ rules' = Append(rules, r)
        /\ Len(rules') = new /\ rules'[new] = r /\ \A k \in 1..Len(rules) : rules'[k] = rules[k]
    BY DEF IInv, TypeOK, redirect_add
  <1>2. 1..Len(rules') = (1..Len(rules)) \cup {new} /\ new \notin 1..Len(rules)
    BY <1>1
  <1> HIDE DEF new
  <1>3. /\ Table!ExactRules(p)' = Table!ExactRules(p) \cup (IF Table!IsExact(r, p) THEN {new} ELSE {})
        /\ Table!PrefixRules(p)' = Table!PrefixRules(p) \cup (IF Table!IsPrefix(r, p) THEN {new} ELSE {})
    BY <1>1, <1>2 DEF Table!ExactRules, Table!PrefixRules, Table!IsExact, Table!IsPrefix, Table!StartsWith,
                      Table!EndsSegment
  <1>4. Table!ExactRules(p) \subseteq 1..Len(rules) /\ Table!PrefixRules(p) \subseteq 1..Len(rules)
    BY DEF Table!ExactRules, Table!PrefixRules
  <1>5. CASE Table!ExactRules(p) # {}
    <2>1. \A j \in Table!ExactRules(p) : j <= new /\ ~(new <= j)
      BY <1>1, <1>4 DEF new
    <2>2. Table!BestRules(p) = {j \in Table!ExactRules(p) : \A k \in Table!ExactRules(p) : j <= k}
      BY <1>5 DEF Table!BestRules
    <2>3. Table!BestRules(p)' = {j \in Table!ExactRules(p)' : \A k \in Table!ExactRules(p)' : j <= k}
      BY <1>3, <1>5 DEF Table!BestRules
    <2> QED
      BY <1>3, <1>5, <2>1, <2>2, <2>3
  <1>6. CASE Table!ExactRules(p) = {} /\ Table!IsExact(r, p)
    <2>1. Table!ExactRules(p)' = {new}
      BY <1>3, <1>6
    <2>2. Table!BestRules(p)' = {new}
      BY <2>1, <1>1 DEF Table!BestRules, new
    <2> QED
      BY <1>6, <2>1, <2>2 DEF Matching, new
  <1>7. CASE Table!ExactRules(p) = {} /\ ~Table!IsExact(r, p) /\ Table!IsPrefix(r, p)
    <2>1. Table!ExactRules(p)' = {} /\ Table!PrefixRules(p)' = Table!PrefixRules(p) \cup {new}
      BY <1>3, <1>7
    <2>2. Table!BestRules(p)' \in {Table!BestRules(p), {new}}
      BY <1>1, <1>7, <2>1, NewPrefix DEF IInv, new
    <2> QED
      BY <1>3, <1>7, <2>2 DEF Matching, new
  <1>8. CASE Table!ExactRules(p) = {} /\ ~Table!IsExact(r, p) /\ ~Table!IsPrefix(r, p)
    <2>1. \A j, k \in Table!PrefixRules(p) : Table!Preferred(j, k)' <=> Table!Preferred(j, k)
      BY <1>1, <1>4 DEF Table!Preferred, Table!Priority
    <2> QED
      BY <1>3, <1>8, <2>1 DEF Table!BestRules
  <1> QED
    BY <1>5, <1>6, <1>7, <1>8

\* Adding a rule changes the answer only for paths that it matches, only to itself, and never for
\* a path with an exact rule: no order of calls takes a path away from the rule that has it but
\* by a rule that is to be preferred.
THEOREM AnswersAreStable == Spec => [][OnlyTheNewRule]_vars
  <1>1. IInv /\ IInv' /\ [Next]_vars => [OnlyTheNewRule]_vars
    <2> SUFFICES ASSUME IInv, IInv', Next PROVE OnlyTheNewRule
      OBVIOUS
    <2>1. ASSUME NEW r \in Table!Rule, redirect_add(r) PROVE OnlyTheNewRule
      BY <2>1, AddChanges
    <2>2. ASSUME rules' = rules PROVE OnlyTheNewRule
      BY <2>2 DEF OnlyTheNewRule, Table!BestRules, Table!ExactRules, Table!PrefixRules, Table!Preferred
    <2> QED
      BY <2>1, <2>2
      DEF Next, Step, Lookup, ExactHit, ExactMiss, ExactEnd, PrefixBetter, PrefixSkip, PrefixEnd
  <1> QED
    BY <1>1, Invariance, PTL DEF Spec

-----------------------------------------------------------------------------
(* Both loops end.                                                              *)

\* The steps a lookup has still to do at most.
StepsLeft == IF loop = "idle" THEN 0
             ELSE IF loop = "exact" THEN 2 * Len(rules) + 3 - i ELSE Len(rules) + 2 - i

MostSteps == 2 * Capacity + 2

\* A lookup takes at most two passes over the table and two steps more: every step brings it
\* nearer to its end, nothing else happens meanwhile, and it has returned when none is left.
THEOREM LookupsEnd ==
    Spec => /\ [](StepsLeft \in 0..MostSteps /\ (StepsLeft = 0 <=> loop = "idle"))
            /\ [][IF loop = "idle" THEN ~Step ELSE Step /\ StepsLeft' < StepsLeft]_vars
  <1>1. IInv => StepsLeft \in 0..MostSteps /\ (StepsLeft = 0 <=> loop = "idle")
    <2> SUFFICES ASSUME IInv
                 PROVE  StepsLeft \in 0..MostSteps /\ (StepsLeft = 0 <=> loop = "idle")
      OBVIOUS
    <2>1. Len(rules) \in Nat /\ Len(rules) <= Capacity /\ Capacity \in Nat /\ i \in 1..(Len(rules) + 1)
      BY TableAssumption, Numbers DEF IInv, TypeOK
    <2>2. loop \in {"idle", "exact", "prefix"}
      BY DEF IInv, TypeOK
    <2> QED
      BY <2>1, <2>2 DEF StepsLeft, MostSteps
  <1>2. IInv /\ IInv' /\ [Next]_vars =>
          [IF loop = "idle" THEN ~Step ELSE Step /\ StepsLeft' < StepsLeft]_vars
    <2> SUFFICES ASSUME IInv, IInv', Next
                 PROVE  IF loop = "idle" THEN ~Step ELSE Step /\ StepsLeft' < StepsLeft
      OBVIOUS
    <2>1. /\ Len(rules) \in Nat /\ i \in 1..(Len(rules) + 1)
          /\ loop \in {"idle", "exact", "prefix"}
      BY Numbers DEF IInv, TypeOK
    <2>2. CASE loop = "idle"
      BY <2>2 DEF Step, ExactHit, ExactMiss, ExactEnd, PrefixBetter, PrefixSkip, PrefixEnd
    <2>3. CASE loop # "idle"
      <3>1. Step
        BY <2>3 DEF Next, redirect_add, Lookup
      <3>2. CASE ExactMiss \/ PrefixBetter \/ PrefixSkip
        BY <2>1, <2>3, <3>1, <3>2 DEF ExactMiss, PrefixBetter, PrefixSkip, StepsLeft
      <3>3. CASE ExactEnd
        BY <2>1, <2>3, <3>1, <3>3 DEF ExactEnd, StepsLeft
      <3>4. CASE ExactHit \/ PrefixEnd
        <4>1. loop' = "idle"
          BY <3>4 DEF ExactHit, PrefixEnd, Return
        <4> QED
          BY <2>1, <2>3, <3>1, <4>1 DEF StepsLeft
      <3> QED
        BY <2>3, <3>1, <3>2, <3>3, <3>4 DEF Step
    <2> QED
      BY <2>2, <2>3
  <1> QED
    BY <1>1, <1>2, Invariance, PTL DEF Spec

=============================================================================
