---------------------------- MODULE ProposalProofs ----------------------------
(***************************************************************************)
(* Proofs about plan, for every rule set, every event and every number of  *)
(* rules: the four properties of RulePlan, and that Proposal, the module   *)
(* the runs check, takes no other steps on its variables. Then, for every  *)
(* template, label and event, the two properties of Proposal about the     *)
(* rendering: LabelsNeverStopUpdate and StartupCatches.                    *)
(***************************************************************************)
EXTENDS Proposal, FiniteSetTheorems, SequenceTheorems, WellFoundedInduction, TLAPS

-----------------------------------------------------------------------------
(* The inductive invariant *)

(* What the loop of RuleSet.Matches knows before rule n: the matches are   *)
(* the covering rules of the best weight so far, and a covering rule that  *)
(* is not among them weighs less.                                          *)
Found(n) ==
    /\ \A m \in DOMAIN matches :
          /\ matches[m] \in 1 .. n - 1
          /\ Matching(rules[matches[m]], event) /\ Weight(rules[matches[m]]) = bestWeight
    /\ \A k \in 1 .. n - 1 :
          Matching(rules[k], event) =>
              Weight(rules[k]) < bestWeight \/ \E m \in DOMAIN matches : matches[m] = k
    /\ \A k, l \in DOMAIN matches : k < l => matches[k] < matches[l]
    /\ matches = <<>> => bestWeight = -1

MatchInv ==
    /\ rules \in Seq(RulePool) /\ event \in EventPool
    /\ bestWeight \in Int /\ matches \in Seq(Nat)
    /\ i \in Nat
    /\ IF pc = "match" THEN i \in 1 .. Len(rules) + 1 /\ Found(i) ELSE Found(Len(rules) + 1)

(* What any rule can send any event to.                                    *)
Usable  == {p \in RulePool \X EventPool : Matching(p[1], p[2]) /\ Complete(p[1], p[2])}
Targets == {TargetWith(p[1], p[2], b) : p \in Usable, b \in BOOLEAN}
Records == [key : Int \X Int, targets : Seq(Targets) \cup SUBSET Targets]

(* Where the first n - 1 matched rules send the event.                     *)
Sent(n) ==
    {Target(rules[matches[m]], event) :
        m \in {m \in 1 .. n - 1 : ValidateTag(rules[matches[m]], event)}}

(* q lists the targets of its key among ts, all of them and no others.     *)
Lists(q, ts) ==
    /\ q.targets \in Seq(Targets)
    /\ \A a \in DOMAIN q.targets :
          q.targets[a] \in ts /\ manifestRepositoryKey(q.targets[a]) = q.key
    /\ \A t \in ts : manifestRepositoryKey(t) = q.key =>
          \E a \in DOMAIN q.targets : q.targets[a] = t

(* q has one target for each directory that the targets of its key name.   *)
Merges(q, ts) ==
    /\ q.targets \subseteq ts
    /\ \A t \in q.targets : manifestRepositoryKey(t) = q.key
    /\ \A t, u \in q.targets : t.dir = u.dir => t = u
    /\ \A t \in ts : manifestRepositoryKey(t) = q.key =>
          \E u \in q.targets : u.dir = t.dir /\ u.env = t.env /\ u.block = t.block

(* Every target has a repository with its key.                             *)
Covers(rs, ts) ==
    \A t \in ts : \E k \in DOMAIN rs : rs[k].key = manifestRepositoryKey(t)

(* The loop over the matched rules: one repository per key.                *)
Grouping(rs, ts) ==
    /\ Covers(rs, ts)
    /\ \A k \in DOMAIN rs : Lists(rs[k], ts)
    /\ \A k, l \in DOMAIN rs : rs[k].key = rs[l].key => k = l

(* The loop over the repositories: those before n are merged.              *)
Normalizing(rs, n, ts) ==
    /\ Covers(rs, ts)
    /\ \A k, l \in DOMAIN rs : k < l => Before(rs[k].key, rs[l].key)
    /\ \A k \in DOMAIN rs : IF k < n THEN Merges(rs[k], ts) ELSE Lists(rs[k], ts)

PlanInv ==
    /\ MatchInv
    /\ repositories \in Seq(Records)
    /\ pc = "match" => repositories = <<>>
    /\ pc = "plan" => i \in 1 .. Len(matches) + 1 /\ Grouping(repositories, Sent(i))
    /\ pc = "normalize" =>
          i \in 1 .. Len(repositories) + 1 /\ Normalizing(repositories, i, Destinations(event))
    /\ Planned => Normalizing(repositories, Len(repositories) + 1, Destinations(event))
    /\ pc # "done" => err = "none"
    /\ err = "tag" => Applied(event) = {}

-----------------------------------------------------------------------------
(* The most specific rules *)

(* Literal segments are counted in a natural number.                       *)
LEMMA WeightType == ASSUME NEW r \in RulePool PROVE Weight(r) \in Nat
<1> DEFINE literals == {k \in DOMAIN r.segments : Literal(r.segments[k])}
<1>1. Len(r.segments) \in Nat /\ DOMAIN r.segments = 1 .. Len(r.segments)
    BY PlanConstants
<1>2. IsFiniteSet(1 .. Len(r.segments))
    BY <1>1, FS_Interval
<1>3. IsFiniteSet(literals)
    BY <1>1, <1>2, FS_Subset
<1> QED
    BY <1>3, FS_CardinalityType DEF Weight

(* Matches starts with no rule looked at.                                 *)
LEMMA InitMatch == Init => MatchInv
<1> SUFFICES ASSUME Init PROVE MatchInv
    OBVIOUS
<1>1. PICK n \in 0 .. MaxRules : rules \in [1 .. n -> RulePool]
    BY DEF Init
<1>2. rules \in Seq(RulePool)
    BY <1>1, PlanConstants
<1>3. Found(1)
    BY DEF Init, Found
<1> QED
    BY <1>2, <1>3 DEF Init, MatchInv

(* The three outcomes of the comparison of weights.                        *)
LEMMA MatchRuleFinds ==
    ASSUME MatchInv, MatchRule
    PROVE  MatchInv'
<1> DEFINE r == rules[i]
<1>1. /\ pc = "match" /\ pc' = "match" /\ i <= Len(rules)
      /\ i' = i + 1 /\ rules' = rules /\ event' = event
    BY DEF MatchRule
<1>2. /\ rules \in Seq(RulePool) /\ event \in EventPool /\ bestWeight \in Int
      /\ matches \in Seq(Nat) /\ i \in 1 .. Len(rules) + 1 /\ Found(i)
    BY <1>1 DEF MatchInv
<1>3. r \in RulePool /\ Weight(r) \in Nat /\ Len(rules) \in Nat
    BY <1>1, <1>2, WeightType
<1>4. CASE (~Matching(r, event) \/ Weight(r) < bestWeight) /\ UNCHANGED <<bestWeight, matches>>
    <2>1. Found(i)'
        BY <1>1, <1>2, <1>3, <1>4 DEF Found
    <2> QED
        BY <2>1, <1>1, <1>2, <1>3, <1>4 DEF MatchInv
<1>5. CASE /\ Matching(r, event) /\ Weight(r) = bestWeight
           /\ matches' = Append(matches, i) /\ bestWeight' = bestWeight
    <2>1. /\ Len(matches') = Len(matches) + 1 /\ DOMAIN matches' = 1 .. Len(matches) + 1
          /\ Len(matches) \in Nat /\ DOMAIN matches = 1 .. Len(matches)
          /\ matches'[Len(matches) + 1] = i
          /\ \A m \in DOMAIN matches : matches'[m] = matches[m] /\ matches[m] \in 1 .. i - 1
          /\ matches' # <<>>
        BY <1>1, <1>2, <1>5 DEF Found
    <2>2. \A m \in DOMAIN matches' :
             /\ matches'[m] \in 1 .. i
             /\ Matching(rules[matches'[m]], event) /\ Weight(rules[matches'[m]]) = bestWeight
        BY <2>1, <1>2, <1>5 DEF Found
    <2>3. \A k \in 1 .. i : Matching(rules[k], event) =>
             Weight(rules[k]) < bestWeight \/ \E m \in DOMAIN matches' : matches'[m] = k
        <3> SUFFICES ASSUME NEW k \in 1 .. i, Matching(rules[k], event),
                            ~(Weight(rules[k]) < bestWeight)
                     PROVE  \E m \in DOMAIN matches' : matches'[m] = k
            OBVIOUS
        <3>1. CASE k = i
            BY <3>1, <2>1
        <3>2. CASE k # i
            <4>1. \E m \in DOMAIN matches : matches[m] = k
                BY <3>2, <1>2 DEF Found
            <4> QED
                BY <4>1, <2>1
        <3> QED
            BY <3>1, <3>2
    <2>4. \A k, l \in DOMAIN matches' : k < l => matches'[k] < matches'[l]
        <3> SUFFICES ASSUME NEW k \in DOMAIN matches', NEW l \in DOMAIN matches', k < l
                     PROVE  matches'[k] < matches'[l]
            OBVIOUS
        <3>1. k \in DOMAIN matches
            BY <2>1
        <3>2. CASE l = Len(matches) + 1
            BY <3>1, <3>2, <2>1, <1>2
        <3>3. CASE l # Len(matches) + 1
            <4>1. l \in DOMAIN matches
                BY <3>3, <2>1
            <4>2. matches[k] < matches[l]
                BY <3>1, <4>1, <1>2 DEF Found
            <4> QED
                BY <3>1, <4>1, <4>2, <2>1
        <3> QED
            BY <3>2, <3>3
    <2>5. i' - 1 = i
        BY <1>1, <1>2
    <2>6. Found(i)'
        BY <2>1, <2>2, <2>3, <2>4, <2>5, <1>1, <1>5 DEF Found
    <2> QED
        BY <2>6, <1>1, <1>2, <1>3, <1>5 DEF MatchInv
<1>6. CASE /\ Matching(r, event) /\ Weight(r) > bestWeight
           /\ bestWeight' = Weight(r) /\ matches' = <<i>>
    <2>1. DOMAIN matches' = {1} /\ matches'[1] = i /\ matches' # <<>>
        BY <1>6
    <2>2. \A k \in 1 .. i - 1 : Matching(rules[k], event) => Weight(rules[k]) < Weight(r)
        <3> SUFFICES ASSUME NEW k \in 1 .. i - 1, Matching(rules[k], event)
                     PROVE  Weight(rules[k]) < Weight(r)
            OBVIOUS
        <3>1. rules[k] \in RulePool
            BY <1>1, <1>2, <1>3
        <3>2. Weight(rules[k]) \in Nat
            BY <3>1, WeightType
        <3> QED
            BY <3>2, <1>2, <1>3, <1>6 DEF Found
    <2>3. \A k \in 1 .. i : Matching(rules[k], event) =>
             Weight(rules[k]) < Weight(r) \/ \E m \in DOMAIN matches' : matches'[m] = k
        BY <2>1, <2>2, <1>2
    <2>4. Found(i)'
        BY <2>1, <2>3, <1>1, <1>2, <1>6 DEF Found
    <2> QED
        BY <2>4, <1>1, <1>2, <1>3, <1>6 DEF MatchInv
<1> QED
    BY <1>4, <1>5, <1>6 DEF MatchRule

(* The loop has run to its end: the matches are the reference's.           *)
LEMMA FoundIsBest ==
    ASSUME MatchInv, pc # "match"
    PROVE  /\ {matches[k] : k \in DOMAIN matches} = Best(event)
           /\ \A k, l \in DOMAIN matches : k < l => matches[k] < matches[l]
<1>1. /\ rules \in Seq(RulePool) /\ bestWeight \in Int /\ matches \in Seq(Nat)
      /\ Found(Len(rules) + 1)
    BY DEF MatchInv
<1>2. ASSUME NEW k \in DOMAIN rules PROVE Weight(rules[k]) \in Nat
    <2>1. rules[k] \in RulePool
        BY <1>1
    <2> QED
        BY <2>1, WeightType
<1>3. ASSUME NEW k \in DOMAIN matches PROVE matches[k] \in Best(event)
    <2>1. /\ matches[k] \in DOMAIN rules /\ Matching(rules[matches[k]], event)
          /\ Weight(rules[matches[k]]) = bestWeight
        BY <1>1 DEF Found
    <2>2. ASSUME NEW l \in DOMAIN rules, Matching(rules[l], event)
          PROVE  Weight(rules[l]) <= bestWeight
        <3>1. l \in 1 .. (Len(rules) + 1) - 1
            BY <1>1
        <3>2. Weight(rules[l]) < bestWeight \/ \E m \in DOMAIN matches : matches[m] = l
            BY <1>1, <2>2, <3>1 DEF Found
        <3>3. Weight(rules[l]) < bestWeight \/ Weight(rules[l]) = bestWeight
            BY <1>1, <3>2 DEF Found
        <3> QED
            BY <3>3, <1>1, <1>2
    <2> QED
        BY <2>1, <2>2 DEF Best
<1>4. ASSUME NEW k \in Best(event) PROVE \E m \in DOMAIN matches : matches[m] = k
    <2>1. k \in 1 .. Len(rules) /\ Matching(rules[k], event) /\ Weight(rules[k]) \in Nat
        BY <1>1, <1>2 DEF Best
    <2>2. CASE matches = <<>>
        BY <2>1, <2>2, <1>1 DEF Found
    <2>3. CASE matches # <<>>
        <3>1. 1 \in DOMAIN matches
            BY <1>1, <2>3
        <3>2. Weight(rules[matches[1]]) = bestWeight /\ matches[1] \in Best(event)
            BY <1>1, <1>3, <3>1 DEF Found
        <3>3. bestWeight <= Weight(rules[k])
            BY <3>2 DEF Best
        <3> QED
            BY <1>1, <2>1, <3>3 DEF Found
    <2> QED
        BY <2>2, <2>3
<1> QED
    BY <1>1, <1>3, <1>4 DEF Found

-----------------------------------------------------------------------------
(* Sorting *)

(* The keys of repositories are in a strict total order.                   *)
LEMMA BeforeOrders ==
    /\ \A a \in Int \X Int : ~Before(a, a)
    /\ \A a, b, c \in Int \X Int : Before(a, b) /\ Before(b, c) => Before(a, c)
    /\ \A a, b \in Int \X Int : a # b => Before(a, b) \/ Before(b, a)
BY DEF Before

(* If no key occurs twice, Sorted has the same repositories, in the order  *)
(* of their keys: the rank of a repository is the number of keys before    *)
(* its own, ranks differ, and there are as many as positions.              *)
LEMMA SortedSorts ==
    ASSUME repositories \in Seq(Records),
           \A k, l \in DOMAIN repositories : repositories[k].key = repositories[l].key => k = l
    PROVE  /\ Sorted \in Seq(Records) /\ DOMAIN Sorted = DOMAIN repositories
           /\ \A k \in DOMAIN Sorted : \E l \in DOMAIN repositories : Sorted[k] = repositories[l]
           /\ \A l \in DOMAIN repositories : \E k \in DOMAIN Sorted : Sorted[k] = repositories[l]
           /\ \A k, l \in DOMAIN Sorted : k < l => Before(Sorted[k].key, Sorted[l].key)
<1> DEFINE N == Len(repositories)
           key(l) == repositories[l].key
           below(q) == {m \in DOMAIN repositories : Before(repositories[m].key, q.key)}
           under(l) == {m \in 1 .. N : Before(key(m), key(l))}
           rank == [l \in 1 .. N |-> Cardinality(under(l)) + 1]
<1>1. N \in Nat /\ DOMAIN repositories = 1 .. N
    OBVIOUS
<1>2. \A l \in 1 .. N : repositories[l] \in Records /\ key(l) \in Int \X Int
    <2>1. \A q \in Records : q.key \in Int \X Int
        BY DEF Records
    <2> HIDE DEF N
    <2>2. ASSUME NEW l \in 1 .. N PROVE repositories[l] \in Records
        BY <1>1
    <2> QED
        BY <2>1, <2>2
<1>3. IsFiniteSet(1 .. N) /\ Cardinality(1 .. N) = N
    BY <1>1, FS_Interval
<1>4. ASSUME NEW l \in 1 .. N
      PROVE  /\ IsFiniteSet(under(l)) /\ Cardinality(under(l)) \in Nat
             /\ rank[l] \in 1 .. N
    <2>1. under(l) \in SUBSET ((1 .. N) \ {l})
        BY <1>2, BeforeOrders
    <2>2. IsFiniteSet((1 .. N) \ {l}) /\ Cardinality((1 .. N) \ {l}) = N - 1
        BY <1>3, FS_RemoveElement
    <2>3. IsFiniteSet(under(l)) /\ Cardinality(under(l)) <= N - 1
        BY ONLY <2>1, <2>2, FS_Subset
    <2>4. Cardinality(under(l)) \in Nat
        BY ONLY <2>3, FS_CardinalityType
    <2> QED
        BY <1>1, <2>3, <2>4
<1>5. ASSUME NEW k \in 1 .. N, NEW l \in 1 .. N, Before(key(k), key(l))
      PROVE  rank[k] < rank[l]
    <2>1. under(k) \in SUBSET under(l) /\ k \in under(l) /\ k \notin under(k)
        <3>1. \A m \in 1 .. N : Before(key(m), key(k)) => Before(key(m), key(l))
            BY <1>2, <1>5, BeforeOrders
        <3> QED
            BY <3>1, <1>2, <1>5, BeforeOrders
    <2>2. IsFiniteSet(under(l)) /\ Cardinality(under(l)) \in Nat /\ Cardinality(under(k)) \in Nat
        BY <1>4
    <2> HIDE DEF under
    <2>3. Cardinality(under(k)) <= Cardinality(under(l)) /\ Cardinality(under(k)) # Cardinality(under(l))
        BY <2>1, <2>2, FS_Subset
    <2> QED
        BY <2>2, <2>3
<1>6. \A k, l \in 1 .. N : rank[k] = rank[l] => k = l
    <2> SUFFICES ASSUME NEW k \in 1 .. N, NEW l \in 1 .. N, k # l PROVE rank[k] # rank[l]
        OBVIOUS
    <2>1. key(k) # key(l)
        BY <1>1
    <2>2. Before(key(k), key(l)) \/ Before(key(l), key(k))
        BY <2>1, <1>2, BeforeOrders
    <2> HIDE DEF rank, N
    <2>3. rank[k] \in 1 .. N /\ rank[l] \in 1 .. N
        BY <1>4
    <2> QED
        BY <2>2, <2>3, <1>5
<1>7. rank \in Injection(1 .. N, 1 .. N)
    <2>1. rank \in [1 .. N -> 1 .. N]
        BY <1>4
    <2> QED
        BY <2>1, <1>6 DEF Injection, IsInjective
<1>8. rank \in Surjection(1 .. N, 1 .. N)
    <2> HIDE DEF rank
    <2> QED
        BY <1>7, <1>3, FS_Injection
<1>9. \A k \in 1 .. N : \E l \in 1 .. N : rank[l] = k
    BY <1>8 DEF Surjection
<1>10. ASSUME NEW l \in 1 .. N PROVE Sorted[rank[l]] = repositories[l]
    <2> DEFINE At(q) == Cardinality(below(q)) = rank[l] - 1
    <2>1. \A m \in 1 .. N : below(repositories[m]) = under(m)
        BY <1>1
    <2>2. \A m \in 1 .. N : At(repositories[m]) <=> rank[m] = rank[l]
        <3> SUFFICES ASSUME NEW m \in 1 .. N PROVE At(repositories[m]) <=> rank[m] = rank[l]
            OBVIOUS
        <3>1. Cardinality(below(repositories[m])) = Cardinality(under(m))
            BY <2>1
        <3>2. rank[m] = Cardinality(under(m)) + 1
            OBVIOUS
        <3> HIDE DEF rank, under, below
        <3>3. Cardinality(under(m)) \in Nat /\ rank[l] \in Nat
            BY <1>1, <1>4
        <3> QED
            BY <3>1, <3>2, <3>3
    <2>3. \A m \in 1 .. N : At(repositories[m]) <=> m = l
        BY <2>2, <1>6
    <2>4. rank[l] \in DOMAIN repositories
        BY <1>1, <1>4
    <2>5. Sorted[rank[l]] = CHOOSE q \in {repositories[m] : m \in DOMAIN repositories} : At(q)
        BY <2>4 DEF Sorted
    <2>6. \A q \in {repositories[m] : m \in DOMAIN repositories} : At(q) <=> q = repositories[l]
        BY <2>3, <1>1
    <2> HIDE DEF At
    <2> QED
        BY <2>5, <2>6, <1>1
<1> DEFINE sorted == Sorted
<1>11. \A l \in 1 .. N : sorted[rank[l]] = repositories[l]
    BY <1>10
<1>12. DOMAIN sorted = 1 .. N
    BY <1>1 DEF Sorted
<1>13. ASSUME NEW k \in 1 .. N PROVE \E l \in 1 .. N : sorted[k] = repositories[l] /\ rank[l] = k
    BY <1>9, <1>11
<1>14. \A l \in 1 .. N : rank[l] \in 1 .. N
    BY <1>4
<1>15. sorted \in Seq(Records)
    <2>1. \A k \in 1 .. N : sorted[k] \in Records
        <3> HIDE DEF rank, sorted
        <3> QED
            BY <1>13, <1>2
    <2> DEFINE e(k) == CHOOSE q \in {repositories[l] : l \in DOMAIN repositories} :
                          Cardinality(below(q)) = k - 1
    <2>2. sorted = [k \in DOMAIN repositories |-> e(k)]
        BY DEF Sorted
    <2> HIDE DEF sorted, e
    <2>3. sorted \in [1 .. N -> Records]
        BY <2>1, <2>2, <1>1
    <2> QED
        BY <2>3, <1>1
<1>16. ASSUME NEW k \in 1 .. N, NEW l \in 1 .. N, k < l
       PROVE  Before(sorted[k].key, sorted[l].key)
    <2>1. PICK a \in 1 .. N : sorted[k] = repositories[a] /\ rank[a] = k
        BY <1>13
    <2>2. PICK b \in 1 .. N : sorted[l] = repositories[b] /\ rank[b] = l
        BY <1>13
    <2>3. key(a) # key(b)
        <3>1. a # b
            <4> HIDE DEF rank, sorted
            <4> QED
                BY <2>1, <2>2, <1>16
        <3> QED
            BY <3>1, <1>1
    <2>4. ~Before(key(b), key(a))
        <3>1. SUFFICES ASSUME Before(key(b), key(a)) PROVE FALSE
            OBVIOUS
        <3>2. rank[b] < rank[a]
            BY <3>1, <1>5
        <3> QED
            BY <3>2, <2>1, <2>2, <1>16
    <2>5. Before(key(a), key(b))
        BY <2>3, <2>4, <1>2, BeforeOrders
    <2> QED
        BY <2>1, <2>2, <2>5
<1> HIDE DEF rank, sorted
<1>17. sorted = Sorted
    BY DEF sorted
<1> QED
    BY <1>1, <1>11, <1>12, <1>13, <1>14, <1>15, <1>16, <1>17

-----------------------------------------------------------------------------
(* Grouping and merging *)

(* A set of positions has a first one: of the intervals that end in it,    *)
(* the smallest by inclusion, an order that is well-founded.               *)
LEMMA First ==
    ASSUME NEW S, S \subseteq Nat, S # {}
    PROVE  \E x \in S : \A y \in S : x <= y
<1> DEFINE ends == {1 .. x : x \in S}
<1>1. ends \subseteq FiniteSubsetsOf(Nat)
    <2> SUFFICES ASSUME NEW x \in S PROVE 1 .. x \in FiniteSubsetsOf(Nat)
        OBVIOUS
    <2>1. IsFiniteSet(1 .. x)
        BY FS_Interval
    <2> QED
        BY <2>1 DEF FiniteSubsetsOf
<1>2. PICK e \in ends : \A f \in ends : ~(<<f, e>> \in StrictSubsetOrdering(Nat))
    <2>1. IsWellFoundedOn(StrictSubsetOrdering(Nat), FiniteSubsetsOf(Nat))
        BY FS_StrictSubsetOrderingWellFounded
    <2>2. ends # {}
        OBVIOUS
    <2> HIDE DEF ends
    <2> QED
        BY <1>1, <2>1, <2>2, WFMin
<1>3. PICK x \in S : e = 1 .. x
    OBVIOUS
<1>4. ASSUME NEW y \in S, y < x PROVE FALSE
    <2>1. 1 .. y \in ends
        OBVIOUS
    <2>2. x \in 1 .. x /\ x \notin 1 .. y /\ 1 .. y \subseteq 1 .. x
        BY <1>4
    <2>3. <<1 .. y, e>> \in StrictSubsetOrdering(Nat)
        BY <2>2, <1>3 DEF StrictSubsetOrdering
    <2> QED
        BY <1>2, <2>1, <2>3
<1> QED
    BY <1>4

(* normalizeManifestTargets: without a conflict nothing is lost.           *)
LEMMA NormalizedMerges ==
    ASSUME NEW q, NEW ts, Lists(q, ts), ~Conflicting(q.targets)
    PROVE  LET merged == Normalized(q.targets)
           IN  /\ merged \subseteq ts /\ merged \subseteq Targets
               /\ \A t \in merged : manifestRepositoryKey(t) = q.key
               /\ \A t, u \in merged : t.dir = u.dir => t = u
               /\ \A t \in ts : manifestRepositoryKey(t) = q.key =>
                     \E u \in merged : u.dir = t.dir /\ u.env = t.env /\ u.block = t.block
<1> DEFINE s == q.targets
           firsts == {k \in DOMAIN s : \A l \in 1 .. k - 1 : s[l].dir # s[k].dir}
           merged == Normalized(s)
<1>1. s \in Seq(Targets) /\ Len(s) \in Nat /\ DOMAIN s = 1 .. Len(s)
    BY DEF Lists
<1>2. merged = {s[k] : k \in firsts} /\ firsts \subseteq DOMAIN s
    BY DEF Normalized
<1>3. merged \subseteq ts /\ merged \subseteq Targets /\ \A t \in merged : manifestRepositoryKey(t) = q.key
    <2> SUFFICES ASSUME NEW k \in DOMAIN s
                 PROVE  s[k] \in ts /\ s[k] \in Targets /\ manifestRepositoryKey(s[k]) = q.key
        BY <1>2
    <2> QED
        BY <1>1 DEF Lists
<1>4. ASSUME NEW t \in merged, NEW u \in merged, t.dir = u.dir PROVE t = u
    <2>1. PICK k \in firsts : t = s[k]
        BY <1>2
    <2>2. PICK l \in firsts : u = s[l]
        BY <1>2
    <2>3. k \in Nat /\ l \in Nat /\ k >= 1 /\ l >= 1
        BY <1>1
    <2>4. ~(k < l) /\ ~(l < k)
        BY <1>4, <2>1, <2>2, <2>3
    <2> QED
        BY <2>1, <2>2, <2>3, <2>4
<1>5. ASSUME NEW t \in ts, manifestRepositoryKey(t) = q.key
      PROVE  \E u \in merged : u.dir = t.dir /\ u.env = t.env /\ u.block = t.block
    <2>1. PICK a \in DOMAIN s : s[a] = t
        BY <1>5 DEF Lists
    <2> DEFINE same == {k \in DOMAIN s : s[k].dir = t.dir}
    <2>2. same \subseteq Nat /\ a \in same
        BY <2>1, <1>1
    <2>3. PICK k \in same : \A l \in same : k <= l
        BY <2>2, First
    <2>4. k \in firsts
        <3> SUFFICES ASSUME NEW l \in 1 .. k - 1, s[l].dir = s[k].dir PROVE FALSE
            BY <2>3
        <3>1. l \in DOMAIN s /\ l < k
            BY <1>1, <2>3
        <3>2. l \in same
            BY <3>1
        <3> QED
            BY <3>1, <3>2, <2>3, <1>1
    <2>5. s[k].env = s[a].env /\ s[k].block = s[a].block
        BY <2>1, <2>3 DEF Conflicting
    <2> QED
        BY <2>1, <2>3, <2>4, <2>5, <1>2
<1> HIDE DEF merged
<1>6. merged = Normalized(q.targets)
    BY DEF merged
<1> QED
    BY <1>3, <1>4, <1>5, <1>6

(* Every target has a key to sort by.                                     *)
LEMMA TargetKey == \A t \in Targets : manifestRepositoryKey(t) \in Int \X Int
<1> SUFFICES ASSUME NEW p \in Usable, NEW b \in BOOLEAN
             PROVE  manifestRepositoryKey(TargetWith(p[1], p[2], b)) \in Int \X Int
    BY DEF Targets
<1>1. manifestRepositoryKey(TargetWith(p[1], p[2], p[1].block)) \in Int \X Int
    BY PlanConstants DEF Usable
<1>2. manifestRepositoryKey(TargetWith(p[1], p[2], b))
        = manifestRepositoryKey(TargetWith(p[1], p[2], p[1].block))
    BY DEF manifestRepositoryKey, TargetWith
<1> QED
    BY <1>1, <1>2

(* One more target joins the list of its key or begins a new one.          *)
LEMMA GroupedGroups ==
    ASSUME repositories \in Seq(Records), NEW ts, Grouping(repositories, ts), NEW t \in Targets
    PROVE  Grouped(t) \in Seq(Records) /\ Grouping(Grouped(t), ts \cup {t})
<1> DEFINE key == manifestRepositoryKey(t)
           rs == repositories
           new == Grouped(t)
           all == ts \cup {t}
<1>1. key \in Int \X Int
    BY TargetKey
<1>2. rs \in Seq(Records) /\ Len(rs) \in Nat /\ DOMAIN rs = 1 .. Len(rs)
    OBVIOUS
<1>3. \A k \in DOMAIN rs : rs[k] \in Records /\ Lists(rs[k], ts)
    BY <1>2 DEF Grouping
<1>4. /\ Covers(rs, ts)
      /\ \A k, l \in DOMAIN rs : rs[k].key = rs[l].key => k = l
    BY DEF Grouping
<1> HIDE DEF key, rs
<1>5. CASE \E k \in DOMAIN rs : rs[k].key = key
    <2> DEFINE Add(q) == IF q.key = key THEN [q EXCEPT !.targets = Append(@, t)] ELSE q
    <2>1. new = [k \in DOMAIN rs |-> Add(rs[k])]
        BY <1>5 DEF Grouped, key, rs
    <2>2. ASSUME NEW k \in DOMAIN rs
          PROVE  Add(rs[k]) \in Records /\ Add(rs[k]).key = rs[k].key /\ Lists(Add(rs[k]), all)
        <3> DEFINE q == rs[k]
        <3>1. q \in Records /\ Lists(q, ts)
            BY <1>3
        <3> HIDE DEF q
        <3>2. CASE q.key # key
            <4>1. Add(q) = q
                BY <3>2
            <4>2. Lists(q, all)
                BY <3>1, <3>2 DEF Lists, key
            <4> QED
                BY <4>1, <4>2, <3>1 DEF q
        <3>3. CASE q.key = key
            <4> DEFINE longer == Append(q.targets, t)
            <4>1. q.targets \in Seq(Targets)
                BY <3>1 DEF Lists
            <4>2. /\ longer \in Seq(Targets) /\ Len(q.targets) \in Nat
                  /\ DOMAIN q.targets = 1 .. Len(q.targets)
                  /\ DOMAIN longer = 1 .. Len(q.targets) + 1
                  /\ longer[Len(q.targets) + 1] = t
                  /\ \A a \in DOMAIN q.targets : longer[a] = q.targets[a]
                BY <4>1, AppendProperties
            <4>3. Add(q) = [key |-> q.key, targets |-> longer]
                BY <3>1, <3>3 DEF Records
            <4> HIDE DEF longer, Add
            <4>4. Add(q) \in Records /\ Add(q).key = q.key /\ Add(q).targets = longer
                BY <4>2, <4>3, <3>1 DEF Records
            <4>5. \A a \in DOMAIN longer : longer[a] \in all /\ manifestRepositoryKey(longer[a]) = q.key
                <5> SUFFICES ASSUME NEW a \in DOMAIN longer
                             PROVE  longer[a] \in all /\ manifestRepositoryKey(longer[a]) = q.key
                    OBVIOUS
                <5>1. CASE a = Len(q.targets) + 1
                    BY <5>1, <4>2, <3>3 DEF key
                <5>2. CASE a # Len(q.targets) + 1
                    <6>1. a \in DOMAIN q.targets
                        BY <5>2, <4>2
                    <6> QED
                        BY <6>1, <4>2, <3>1 DEF Lists
                <5> QED
                    BY <5>1, <5>2
            <4>6. \A u \in all : manifestRepositoryKey(u) = q.key => \E a \in DOMAIN longer : longer[a] = u
                <5> SUFFICES ASSUME NEW u \in all, manifestRepositoryKey(u) = q.key
                             PROVE  \E a \in DOMAIN longer : longer[a] = u
                    OBVIOUS
                <5>1. CASE u = t
                    BY <5>1, <4>2
                <5>2. CASE u # t
                    <6>1. PICK a \in DOMAIN q.targets : q.targets[a] = u
                        BY <5>2, <3>1 DEF Lists
                    <6> QED
                        BY <6>1, <4>2
                <5> QED
                    BY <5>1, <5>2
            <4>7. Lists(Add(q), all)
                BY <4>2, <4>4, <4>5, <4>6 DEF Lists
            <4> QED
                BY <4>4, <4>7 DEF q
        <3> QED
            BY <3>2, <3>3
    <2> HIDE DEF Add
    <2>3. new \in Seq(Records) /\ DOMAIN new = DOMAIN rs
        BY <2>1, <2>2, <1>2
    <2>4. \A k \in DOMAIN new : new[k].key = rs[k].key /\ Lists(new[k], all)
        BY <2>1, <2>2
    <2> HIDE DEF new
    <2>5. Covers(new, all)
        BY <2>3, <2>4, <1>4, <1>5 DEF Covers, key
    <2>6. Grouping(new, all)
        BY <2>3, <2>4, <2>5, <1>4 DEF Grouping
    <2> QED
        BY <2>3, <2>6 DEF new
<1>6. CASE ~\E k \in DOMAIN rs : rs[k].key = key
    <2> DEFINE one == [key |-> key, targets |-> <<t>>]
    <2>1. new = Append(rs, one)
        BY <1>6 DEF Grouped, key, rs
    <2>2. one \in Records /\ one.key = key
        BY <1>1 DEF Records
    <2>3. Lists(one, all)
        <3>1. ASSUME NEW u \in ts PROVE manifestRepositoryKey(u) # key
            BY <1>4, <1>6 DEF Covers
        <3>2. one.targets = <<t>> /\ <<t>> \in Seq(Targets)
            OBVIOUS
        <3> QED
            BY <3>1, <3>2, <2>2 DEF Lists, key
    <2> HIDE DEF one
    <2>4. /\ Append(rs, one) \in Seq(Records) /\ DOMAIN Append(rs, one) = 1 .. Len(rs) + 1
          /\ Append(rs, one)[Len(rs) + 1] = one
          /\ \A k \in DOMAIN rs : Append(rs, one)[k] = rs[k]
        BY <1>2, <2>2, AppendProperties
    <2>5. /\ new \in Seq(Records) /\ DOMAIN new = 1 .. Len(rs) + 1 /\ new[Len(rs) + 1] = one
          /\ \A k \in DOMAIN rs : new[k] = rs[k]
        BY <2>1, <2>4
    <2> HIDE DEF new
    <2>6. \A k \in DOMAIN new : k \in DOMAIN rs \/ k = Len(rs) + 1
        BY <2>5, <1>2
    <2>7. Covers(new, all)
        <3> SUFFICES ASSUME NEW u \in all
                     PROVE  \E k \in DOMAIN new : new[k].key = manifestRepositoryKey(u)
            BY DEF Covers
        <3>1. CASE u = t
            BY <3>1, <2>2, <2>5, <1>2 DEF key
        <3>2. CASE u # t
            <4>1. PICK k \in DOMAIN rs : rs[k].key = manifestRepositoryKey(u)
                BY <3>2, <1>4 DEF Covers
            <4>2. k \in DOMAIN new /\ new[k] = rs[k]
                BY <2>5, <1>2
            <4> QED
                BY <4>1, <4>2
        <3> QED
            BY <3>1, <3>2
    <2>8. ASSUME NEW k \in DOMAIN rs PROVE Lists(rs[k], all)
        <3> DEFINE q == rs[k]
        <3>1. Lists(q, ts) /\ q.key # key
            BY <1>3, <1>6
        <3> HIDE DEF q
        <3> QED
            <4>1. Lists(q, all)
                BY <3>1 DEF Lists, key
            <4> QED
                BY <4>1 DEF q
    <2>9. \A k \in DOMAIN new : Lists(new[k], all)
        BY <2>3, <2>5, <2>6, <2>8
    <2>10. \A k, l \in DOMAIN new : new[k].key = new[l].key => k = l
        <3> SUFFICES ASSUME NEW k \in DOMAIN new, NEW l \in DOMAIN new, new[k].key = new[l].key
                     PROVE  k = l
            OBVIOUS
        <3>1. \A m \in DOMAIN rs : new[m].key = rs[m].key /\ rs[m].key # key
            BY <2>5, <1>6
        <3>2. new[Len(rs) + 1].key = key
            BY <2>2, <2>5
        <3> QED
            BY <3>1, <3>2, <2>6, <1>4
    <2>11. Grouping(new, all)
        BY <2>7, <2>9, <2>10 DEF Grouping
    <2> QED
        BY <2>5, <2>11 DEF new
<1> QED
    BY <1>5, <1>6

-----------------------------------------------------------------------------
(* The steps of plan *)

(* plan starts with nothing.                                              *)
LEMMA InitPlan == Init => PlanInv
<1> SUFFICES ASSUME Init PROVE PlanInv
    OBVIOUS
<1>1. MatchInv
    BY InitMatch
<1>2. repositories = <<>> /\ pc = "match" /\ err = "none"
    BY DEF Init
<1> QED
    BY <1>1, <1>2 DEF PlanInv, Planned

(* The loops after Matches leave its result alone.                         *)
LEMMA MatchesKept ==
    ASSUME MatchInv, pc # "match", pc' # "match", i' \in Nat,
           UNCHANGED <<rules, annotateFromLabels, event, bestWeight, matches>>
    PROVE  MatchInv' /\ Applied(event)' = Applied(event) /\ Destinations(event)' = Destinations(event)
<1>1. Found(Len(rules) + 1) /\ Found(Len(rules) + 1)' = Found(Len(rules) + 1)
    BY DEF MatchInv, Found
<1>2. Applied(event)' = Applied(event)
    BY DEF Applied, Best
<1>3. Destinations(event)' = Destinations(event)
    BY <1>2 DEF Destinations, Target
<1> QED
    BY <1>1, <1>2, <1>3 DEF MatchInv

(* A rule is compared with the best so far.                               *)
LEMMA MatchRulePlans == ASSUME PlanInv, MatchRule PROVE PlanInv'
<1>1. MatchInv'
    BY MatchRuleFinds DEF PlanInv
<1>2. /\ pc = "match" /\ pc' = "match" /\ repositories' = repositories /\ err' = err
    BY DEF MatchRule
<1> QED
    BY <1>1, <1>2 DEF PlanInv, Planned

(* Matches has looked at every rule.                                      *)
LEMMA MatchesReturnPlans == ASSUME PlanInv, MatchesReturn PROVE PlanInv'
<1>1. /\ pc = "match" /\ i > Len(rules) /\ i' = 1 /\ pc' # "match"
      /\ UNCHANGED <<rules, annotateFromLabels, event, bestWeight, matches, repositories>>
      /\ \/ pc' = "done" /\ err' = "ErrNoMatchingRule"
         \/ pc' = "plan" /\ err' = err
    BY DEF MatchesReturn, Fail
<1>2. MatchInv /\ repositories = <<>> /\ err = "none"
    BY <1>1 DEF PlanInv
<1>3. i = Len(rules) + 1 /\ Found(i)
    BY <1>1, <1>2 DEF MatchInv
<1>4. Found(Len(rules) + 1)'
    BY <1>1, <1>3 DEF Found
<1>5. MatchInv'
    BY <1>1, <1>2, <1>4 DEF MatchInv
<1>6. Grouping(<<>>, {})
    BY DEF Grouping, Covers
<1>7. Sent(i)' = {}
    BY <1>1 DEF Sent
<1>8. matches \in Seq(Nat) /\ 1 \in 1 .. Len(matches) + 1
    BY <1>2 DEF MatchInv
<1>9. repositories' = <<>> /\ <<>> \in Seq(Records)
    BY <1>1, <1>2
<1>10. pc' = "plan" => i' \in 1 .. Len(matches') + 1 /\ Grouping(repositories', Sent(i)')
    BY <1>1, <1>6, <1>7, <1>8, <1>9
<1> QED
    BY <1>1, <1>2, <1>5, <1>9, <1>10 DEF PlanInv, Planned

(* A rejected tag adds nothing, an accepted one its target.                *)
LEMMA PlanRulePlans == ASSUME PlanInv, PlanRule PROVE PlanInv'
<1> DEFINE r == rules[matches[i]]
           accepted == ValidateTag(r, event)
<1>1. /\ pc = "plan" /\ i <= Len(matches) /\ i' = i + 1
      /\ UNCHANGED <<rules, annotateFromLabels, event, bestWeight, matches>>
    BY DEF PlanRule, PlanRuleBody
<1>2. /\ MatchInv /\ repositories \in Seq(Records) /\ err = "none"
      /\ i \in 1 .. Len(matches) + 1 /\ Grouping(repositories, Sent(i))
    BY <1>1 DEF PlanInv
<1>3. rules \in Seq(RulePool) /\ event \in EventPool /\ matches \in Seq(Nat) /\ Found(Len(rules) + 1)
    BY <1>1, <1>2 DEF MatchInv
<1>4. i \in 1 .. Len(matches) /\ Len(matches) \in Nat /\ DOMAIN matches = 1 .. Len(matches)
    BY <1>1, <1>2, <1>3
<1>5. r \in RulePool /\ Matching(r, event)
    BY <1>3, <1>4 DEF Found
<1>6. /\ Sent(i)' = {Target(rules[matches[m]], event) :
                        m \in {m \in 1 .. i : ValidateTag(rules[matches[m]], event)}}
      /\ i' \in 1 .. Len(matches) + 1
    <2>1. i' - 1 = i /\ i' \in 1 .. Len(matches) + 1
        BY <1>1, <1>4
    <2> QED
        BY <2>1, <1>1 DEF Sent, Target
<1>7. 1 .. i = (1 .. i - 1) \cup {i}
    BY <1>4
<1>8. CASE ~accepted /\ pc' = pc /\ err' = err /\ repositories' = repositories
    <2>1. Sent(i)' = Sent(i)
        BY <1>6, <1>7, <1>8 DEF Sent
    <2>2. MatchInv'
        BY <1>1, <1>2, <1>4, <1>8, MatchesKept
    <2>3. i' \in 1 .. Len(matches') + 1 /\ Grouping(repositories', Sent(i)')
        BY <2>1, <1>1, <1>2, <1>6, <1>8
    <2> QED
        BY <2>2, <2>3, <1>1, <1>2, <1>8 DEF PlanInv, Planned
<1>9. CASE pc' = "done" /\ err' = "ErrIncompleteRule" /\ repositories' = repositories
    <2>1. MatchInv'
        BY <1>1, <1>2, <1>4, <1>9, MatchesKept
    <2> QED
        BY <2>1, <1>2, <1>9 DEF PlanInv, Planned
<1>10. CASE /\ accepted /\ Complete(r, event)
            /\ repositories' = Grouped(Target(r, event)) /\ pc' = pc /\ err' = err
    <2> DEFINE t == Target(r, event)
    <2>1. t \in Targets
        <3>1. <<r, event>> \in Usable
            BY <1>3, <1>5, <1>10 DEF Usable
        <3> DEFINE b == annotateFromLabels /\ r.block
        <3>2. t = TargetWith(<<r, event>>[1], <<r, event>>[2], b) /\ b \in BOOLEAN
            BY DEF Target
        <3>3. \A p \in Usable : \A c \in BOOLEAN : TargetWith(p[1], p[2], c) \in Targets
            BY DEF Targets
        <3> HIDE DEF b, t
        <3>4. TargetWith(<<r, event>>[1], <<r, event>>[2], b) \in Targets
            BY <3>1, <3>2, <3>3, Zenon
        <3> QED
            BY <3>2, <3>4, Zenon
    <2>2. Sent(i)' = Sent(i) \cup {t}
        <3>1. {m \in 1 .. i : ValidateTag(rules[matches[m]], event)}
                = {m \in 1 .. i - 1 : ValidateTag(rules[matches[m]], event)} \cup {i}
            BY <1>7, <1>10
        <3> QED
            BY <3>1, <1>6 DEF Sent
    <2>3. MatchInv'
        BY <1>1, <1>2, <1>4, <1>10, MatchesKept
    <2>4. repositories' \in Seq(Records) /\ Grouping(repositories', Sent(i)')
        <3> HIDE DEF t
        <3>1. Grouped(t) \in Seq(Records) /\ Grouping(Grouped(t), Sent(i) \cup {t})
            BY <2>1, <1>2, GroupedGroups
        <3>2. repositories' = Grouped(t)
            BY <1>10 DEF t
        <3> QED
            BY <3>1, <3>2, <2>2
    <2>5. i' \in 1 .. Len(matches') + 1
        BY <1>1, <1>6
    <2> QED
        BY <2>3, <2>4, <2>5, <1>1, <1>2, <1>10 DEF PlanInv, Planned
<1> QED
    BY <1>8, <1>9, <1>10 DEF PlanRule, PlanRuleBody, Fail

(* After the loop over the matches, all destinations were sent to.         *)
LEMMA SentIsAll ==
    ASSUME MatchInv, pc # "match"
    PROVE  Sent(Len(matches) + 1) = Destinations(event)
<1>1. matches \in Seq(Nat) /\ Len(matches) \in Nat /\ DOMAIN matches = 1 .. Len(matches)
    BY DEF MatchInv
<1>2. {matches[k] : k \in DOMAIN matches} = Best(event)
    BY FoundIsBest
<1>3. 1 .. (Len(matches) + 1) - 1 = DOMAIN matches
    BY <1>1
<1>4. ASSUME NEW t \in Sent(Len(matches) + 1) PROVE t \in Destinations(event)
    <2>1. PICK m \in DOMAIN matches :
             ValidateTag(rules[matches[m]], event) /\ t = Target(rules[matches[m]], event)
        BY <1>3 DEF Sent
    <2>2. matches[m] \in Applied(event)
        BY <2>1, <1>2 DEF Applied
    <2> QED
        BY <2>1, <2>2 DEF Destinations
<1>5. ASSUME NEW t \in Destinations(event) PROVE t \in Sent(Len(matches) + 1)
    <2>1. PICK k \in Applied(event) : t = Target(rules[k], event)
        BY DEF Destinations
    <2>2. PICK m \in DOMAIN matches : matches[m] = k
        BY <2>1, <1>2 DEF Applied
    <2> QED
        BY <2>1, <2>2, <1>3 DEF Sent, Applied
<1> QED
    BY <1>4, <1>5

(* The matched rules are grouped, and the repositories sorted.            *)
LEMMA MatchedEndPlans == ASSUME PlanInv, MatchedEnd PROVE PlanInv'
<1> DEFINE ts == Destinations(event)
<1>1. /\ pc = "plan" /\ i > Len(matches) /\ i' = 1
      /\ UNCHANGED <<rules, annotateFromLabels, event, bestWeight, matches>>
    BY DEF MatchedEnd
<1>2. /\ MatchInv /\ repositories \in Seq(Records) /\ err = "none"
      /\ i \in 1 .. Len(matches) + 1 /\ Grouping(repositories, Sent(i))
    BY <1>1 DEF PlanInv
<1>3. i = Len(matches) + 1
    BY <1>1, <1>2 DEF MatchInv
<1>4. Grouping(repositories, ts)
    BY <1>1, <1>2, <1>3, SentIsAll
<1>5. CASE repositories = <<>> /\ pc' = "done" /\ err' = "tag" /\ repositories' = repositories
    <2>1. MatchInv' /\ Applied(event)' = Applied(event)
        BY <1>1, <1>2, <1>5, MatchesKept
    <2>2. ts = {}
        BY <1>4, <1>5 DEF Grouping, Covers
    <2>3. Applied(event) = {}
        BY <2>2 DEF Destinations
    <2> QED
        BY <2>1, <2>3, <1>2, <1>5 DEF PlanInv, Planned
<1>6. CASE pc' = "normalize" /\ err' = err /\ repositories' = Sorted
    <2>1. MatchInv' /\ Destinations(event)' = ts
        BY <1>1, <1>2, <1>6, MatchesKept
    <2> DEFINE rs == repositories
               new == Sorted
    <2>2. /\ new \in Seq(Records) /\ DOMAIN new = DOMAIN rs
          /\ \A k \in DOMAIN new : \E l \in DOMAIN rs : new[k] = rs[l]
          /\ \A l \in DOMAIN rs : \E k \in DOMAIN new : new[k] = rs[l]
          /\ \A k, l \in DOMAIN new : k < l => Before(new[k].key, new[l].key)
        BY <1>2, <1>4, SortedSorts DEF Grouping
    <2> HIDE DEF ts, new
    <2>3. Covers(new, ts)
        <3> SUFFICES ASSUME NEW t \in ts
                     PROVE  \E k \in DOMAIN new : new[k].key = manifestRepositoryKey(t)
            BY DEF Covers
        <3>1. PICK l \in DOMAIN rs : rs[l].key = manifestRepositoryKey(t)
            BY <1>4 DEF Grouping, Covers
        <3>2. PICK k \in DOMAIN new : new[k] = rs[l]
            BY <2>2
        <3> QED
            BY <3>1, <3>2
    <2>4. \A k \in DOMAIN new : Lists(new[k], ts)
        BY <2>2, <1>4 DEF Grouping
    <2>5. Len(new) \in Nat /\ DOMAIN new = 1 .. Len(new)
        BY <2>2
    <2>6. Normalizing(new, 1, ts)
        BY <2>2, <2>3, <2>4, <2>5 DEF Normalizing
    <2>7. repositories' = new
        BY <1>6 DEF new
    <2>8. repositories' \in Seq(Records) /\ i' \in 1 .. Len(repositories') + 1
        BY <2>2, <2>5, <2>7, <1>1
    <2>9. Normalizing(repositories', i', Destinations(event)')
        BY <2>1, <2>6, <2>7, <1>1
    <2> QED
        BY <2>1, <2>8, <2>9, <1>2, <1>6 DEF PlanInv, Planned
<1> QED
    BY <1>5, <1>6 DEF MatchedEnd, Fail

(* The targets of one repository are merged, or conflict.                 *)
LEMMA NormalizeRepositoryPlans == ASSUME PlanInv, NormalizeRepository PROVE PlanInv'
<1> DEFINE ts == Destinations(event)
           q == repositories[i]
           rs == repositories
<1>1. /\ pc = "normalize" /\ i <= Len(repositories) /\ i' = i + 1
      /\ UNCHANGED <<rules, annotateFromLabels, event, bestWeight, matches>>
    BY DEF NormalizeRepository
<1>2. /\ MatchInv /\ rs \in Seq(Records) /\ err = "none"
      /\ i \in 1 .. Len(rs) + 1 /\ Normalizing(rs, i, ts)
    BY <1>1 DEF PlanInv
<1>3. Len(rs) \in Nat /\ DOMAIN rs = 1 .. Len(rs) /\ i \in DOMAIN rs
    BY <1>1, <1>2
<1>4. CASE pc' = "done" /\ err' \in {"ErrIncompleteRule", "branch"} /\ repositories' = rs
    <2>1. MatchInv'
        BY <1>1, <1>2, <1>3, <1>4, MatchesKept
    <2> QED
        BY <2>1, <1>2, <1>4 DEF PlanInv, Planned
<1>5. CASE /\ ~Conflicting(q.targets) /\ pc' = pc /\ err' = err
           /\ repositories' = [repositories EXCEPT ![i].targets = Normalized(q.targets)]
    <2> DEFINE merged == Normalized(q.targets)
               one == [q EXCEPT !.targets = merged]
    <2>1. MatchInv' /\ Destinations(event)' = ts
        BY <1>1, <1>2, <1>3, <1>5, MatchesKept
    <2>2. q \in Records /\ Lists(q, ts)
        <3>1. ~(i < i)
            BY <1>3
        <3> QED
            BY <3>1, <1>2, <1>3 DEF Normalizing
    <2>3. /\ merged \subseteq ts /\ merged \subseteq Targets
          /\ \A t \in merged : manifestRepositoryKey(t) = q.key
          /\ \A t, u \in merged : t.dir = u.dir => t = u
          /\ \A t \in ts : manifestRepositoryKey(t) = q.key =>
                \E u \in merged : u.dir = t.dir /\ u.env = t.env /\ u.block = t.block
        BY <2>2, <1>5, NormalizedMerges
    <2> HIDE DEF merged, ts, rs
    <2>4. repositories' = [rs EXCEPT ![i] = one]
        BY <1>5 DEF merged, rs
    <2> HIDE DEF q
    <2>5. one.key = q.key /\ one.targets = merged /\ one \in Records
        <3>1. q = [key |-> q.key, targets |-> q.targets] /\ q.key \in Int \X Int
            BY <2>2 DEF Records
        <3>2. one = [key |-> q.key, targets |-> merged]
            BY <3>1
        <3>3. merged \in Seq(Targets) \cup SUBSET Targets
            BY <2>3
        <3> HIDE DEF one
        <3> QED
            BY <3>1, <3>2, <3>3 DEF Records
    <2>6. Merges(one, ts)
        BY <2>3, <2>5 DEF Merges
    <2> HIDE DEF one
    <2> DEFINE new == repositories'
    <2>7. /\ new \in Seq(Records) /\ DOMAIN new = DOMAIN rs /\ Len(new) = Len(rs) /\ new[i] = one
          /\ \A k \in DOMAIN rs : k # i => new[k] = rs[k]
        BY <2>4, <2>5, <1>2, <1>3
    <2>8. \A k \in DOMAIN rs : new[k].key = rs[k].key
        BY <2>5, <2>7 DEF q, rs
    <2> HIDE DEF new
    <2>9. Covers(new, ts)
        BY <2>7, <2>8, <1>2 DEF Covers, Normalizing
    <2>10. \A k, l \in DOMAIN new : k < l => Before(new[k].key, new[l].key)
        BY <2>7, <2>8, <1>2 DEF Normalizing
    <2>11. ASSUME NEW k \in DOMAIN new PROVE IF k < i + 1 THEN Merges(new[k], ts) ELSE Lists(new[k], ts)
        <3>1. CASE k = i
            BY <3>1, <2>6, <2>7, <1>3
        <3>2. CASE k # i
            <4>1. k \in DOMAIN rs /\ new[k] = rs[k] /\ (k < i + 1 <=> k < i)
                BY <3>2, <2>7, <1>3
            <4>2. IF k < i THEN Merges(rs[k], ts) ELSE Lists(rs[k], ts)
                BY <4>1, <1>2 DEF Normalizing
            <4> QED
                BY <4>1, <4>2
        <3> QED
            BY <3>1, <3>2
    <2>12. Normalizing(new, i + 1, ts)
        BY <2>9, <2>10, <2>11 DEF Normalizing
    <2>13. /\ repositories' \in Seq(Records) /\ i' \in 1 .. Len(repositories') + 1
           /\ Normalizing(repositories', i', Destinations(event)')
        BY <2>1, <2>7, <2>12, <1>1, <1>3 DEF new
    <2> QED
        BY <2>1, <2>13, <1>1, <1>2, <1>5 DEF PlanInv, Planned
<1> QED
    BY <1>4, <1>5 DEF NormalizeRepository, Fail

(* Every repository is normalised.                                        *)
LEMMA PlanReturnPlans == ASSUME PlanInv, PlanReturn PROVE PlanInv'
<1> DEFINE ts == Destinations(event)
<1>1. /\ pc = "normalize" /\ i > Len(repositories) /\ pc' = "done"
      /\ UNCHANGED <<rules, annotateFromLabels, event, i, bestWeight, matches, repositories, err>>
    BY DEF PlanReturn
<1>2. /\ MatchInv /\ repositories \in Seq(Records) /\ err = "none"
      /\ i \in 1 .. Len(repositories) + 1 /\ Normalizing(repositories, i, ts)
    BY <1>1 DEF PlanInv
<1>3. i = Len(repositories) + 1
    BY <1>1, <1>2
<1>4. MatchInv' /\ Destinations(event)' = ts
    BY <1>1, <1>2, MatchesKept DEF MatchInv
<1>5. Normalizing(repositories', Len(repositories') + 1, Destinations(event)')
    BY <1>1, <1>2, <1>3, <1>4
<1> QED
    BY <1>1, <1>2, <1>4, <1>5 DEF PlanInv, Planned

(* Every step keeps the invariant.                                        *)
LEMMA NextPlans == PlanInv /\ [Next]_vars => PlanInv'
<1> SUFFICES ASSUME PlanInv, [Next]_vars PROVE PlanInv'
    OBVIOUS
<1>1. CASE UNCHANGED vars
    <2>1. Found(i)' = Found(i) /\ Found(Len(rules) + 1)' = Found(Len(rules) + 1)
        BY <1>1 DEF vars, Found
    <2>2. MatchInv'
        BY <2>1, <1>1 DEF vars, PlanInv, MatchInv
    <2>3. /\ Sent(i)' = Sent(i) /\ Applied(event)' = Applied(event)
          /\ Destinations(event)' = Destinations(event)
        BY <1>1 DEF vars, Sent, Destinations, Target, Applied, Best
    <2> QED
        BY <2>2, <2>3, <1>1 DEF vars, PlanInv, Planned
<1> QED
    BY <1>1, MatchRulePlans, MatchesReturnPlans, PlanRulePlans, MatchedEndPlans,
       NormalizeRepositoryPlans, PlanReturnPlans DEF Next

-----------------------------------------------------------------------------
(* The theorems *)

(* Proposal adds the steps of startup and rendering to plan, and none of   *)
(* them touches the variables of plan.                                     *)
THEOREM ProposalPlans == ProposalSpec => Spec
<1>1. ProposalInit => Init
    BY DEF ProposalInit
<1>2. [ProposalNext]_allVars => [Next]_vars
    BY DEF ProposalNext, allVars, LoadFile, provideMessageRenderer, Decode, Plan, PlanEnds,
           RenderRepository, AllRendered
<1> QED
    BY <1>1, <1>2, PTL DEF ProposalSpec, Spec

(* The invariant in every state.                                          *)
LEMMA PlanInvariant == Spec => []PlanInv
BY InitPlan, NextPlans, PTL DEF Spec

(* RuleSet.Matches returns the covering rules with the most literal        *)
(* segments, all of them and in declaration order, wherever in the file    *)
(* less specific rules stand.                                              *)
THEOREM SpecificRulesWin == ProposalSpec => []MostSpecificWin
<1>1. PlanInv => MostSpecificWin
    BY FoundIsBest DEF PlanInv, MostSpecificWin
<1> QED
    BY <1>1, ProposalPlans, PlanInvariant, PTL

(* plan goes on only while every rule that accepts the tag is complete.    *)
CompleteInv ==
    /\ pc = "plan" =>
          \A m \in 1 .. i - 1 :
              ValidateTag(rules[matches[m]], event) => Complete(rules[matches[m]], event)
    /\ pc = "normalize" \/ Planned => \A k \in Applied(event) : Complete(rules[k], event)

(* Every step of plan keeps that.                                          *)
LEMMA NextComplete == PlanInv /\ CompleteInv /\ [Next]_vars => CompleteInv'
<1> SUFFICES ASSUME PlanInv, CompleteInv, [Next]_vars PROVE CompleteInv'
    OBVIOUS
<1>1. rules' = rules /\ annotateFromLabels' = annotateFromLabels /\ event' = event
    BY DEF Next, vars, MatchRule, MatchesReturn, PlanRule, PlanRuleBody, MatchedEnd,
           NormalizeRepository, PlanReturn
<1>2. Applied(event)' = Applied(event)
    BY <1>1 DEF Applied, Best
<1> DEFINE all == \A k \in Applied(event) : Complete(rules[k], event)
           fine(m) == ValidateTag(rules[matches[m]], event) => Complete(rules[matches[m]], event)
<1>3. ASSUME pc' # "plan", pc' = "normalize" \/ Planned' => all PROVE CompleteInv'
    BY <1>1, <1>2, <1>3 DEF CompleteInv
<1>4. CASE MatchRule
    <2>1. pc = "match" /\ pc' = pc
        BY <1>4 DEF MatchRule
    <2> QED
        BY <2>1, <1>3 DEF Planned
<1>5. CASE MatchesReturn
    <2>1. /\ i' = 1 /\ matches' = matches
          /\ pc' = "plan" \/ (pc' = "done" /\ err' = "ErrNoMatchingRule")
        BY <1>5 DEF MatchesReturn, Fail
    <2>2. 1 .. i' - 1 = {}
        BY <2>1
    <2> QED
        BY <2>1, <2>2 DEF CompleteInv, Planned
<1>6. CASE PlanRule
    <2>1. /\ pc = "plan" /\ i' = i + 1 /\ matches' = matches /\ err = "none" /\ i \in Nat
          /\ \/ pc' = "done" /\ err' = "ErrIncompleteRule"
             \/ pc' = "plan" /\ fine(i)
        BY <1>6 DEF PlanRule, PlanRuleBody, Fail, PlanInv, MatchInv
    <2>2. \A m \in 1 .. i - 1 : fine(m)
        BY <2>1 DEF CompleteInv
    <2>3. CASE pc' = "plan" /\ fine(i)
        <3> HIDE DEF fine
        <3>1. \A m \in 1 .. i' - 1 : m \in 1 .. i - 1 \/ m = i
            BY <2>1
        <3>2. \A m \in 1 .. i' - 1 : fine(m)
            BY <3>1, <2>2, <2>3
        <3> QED
            BY <3>2, <2>1, <2>3, <1>1 DEF CompleteInv, Planned, fine
    <2>4. CASE pc' = "done" /\ err' = "ErrIncompleteRule"
        BY <2>4, <1>3 DEF Planned
    <2> QED
        BY <2>1, <2>3, <2>4
<1>7. CASE MatchedEnd
    <2>1. /\ MatchInv /\ matches \in Seq(Nat) /\ pc = "plan" /\ i > Len(matches)
          /\ i \in 1 .. Len(matches) + 1
        BY <1>7 DEF MatchedEnd, PlanInv, MatchInv
    <2>2. ASSUME NEW k \in Applied(event) PROVE Complete(rules[k], event)
        <3>1. PICK m \in DOMAIN matches : matches[m] = k
            BY <2>1, FoundIsBest DEF Applied
        <3>2. m \in 1 .. i - 1
            BY <2>1, <3>1
        <3> QED
            BY <2>1, <3>1, <3>2 DEF CompleteInv, Applied
    <2>3. pc' = "done" \/ pc' = "normalize"
        BY <1>7 DEF MatchedEnd, Fail
    <2> QED
        BY <2>2, <2>3, <1>3
<1>8. CASE NormalizeRepository \/ PlanReturn
    <2>1. pc = "normalize" /\ (pc' = "normalize" \/ pc' = "done")
        BY <1>8 DEF NormalizeRepository, PlanReturn, Fail
    <2> QED
        BY <2>1, <1>3 DEF CompleteInv
<1>9. CASE UNCHANGED vars
    BY <1>9 DEF vars, CompleteInv, Planned, Applied, Best
<1> QED
    BY <1>4, <1>5, <1>6, <1>7, <1>8, <1>9 DEF Next

(* It holds in every state of plan.                                        *)
LEMMA CompleteInvariant == Spec => []CompleteInv
<1>1. Init => CompleteInv
    BY DEF Init, CompleteInv, Planned
<1> QED
    BY <1>1, NextComplete, PlanInvariant, PTL DEF Spec

(* plan neither loses nor invents a target: what it returns is what the    *)
(* accepted rules say, all of which are complete, and it gives a tag up    *)
(* only if every most specific rule rejects it.                            *)
THEOREM PlansEverything == ProposalSpec => []PlanComplete
<1>1. PlanInv /\ CompleteInv => PlanComplete
    <2> SUFFICES ASSUME PlanInv, CompleteInv PROVE PlanComplete
        OBVIOUS
    <2> DEFINE ts == Destinations(event)
               rs == repositories
               line(t) == <<manifestRepositoryKey(t), t.dir, t.env, t.block>>
               lines == UNION {{<<q.key, t.dir, t.env, t.block>> : t \in q.targets} :
                                  q \in {rs[k] : k \in DOMAIN rs}}
    <2>1. err = "tag" => Applied(event) = {}
        BY DEF PlanInv
    <2>2. ASSUME Planned PROVE lines = {line(t) : t \in ts}
        <3>1. rs \in Seq(Records) /\ Normalizing(rs, Len(rs) + 1, ts)
            BY <2>2 DEF PlanInv
        <3>2. ASSUME NEW k \in DOMAIN rs PROVE Merges(rs[k], ts)
            <4>1. k < Len(rs) + 1
                BY <3>1
            <4> QED
                BY <4>1, <3>1 DEF Normalizing
        <3> HIDE DEF ts, rs
        <3>3. ASSUME NEW x \in lines PROVE x \in {line(t) : t \in ts}
            <4>1. PICK k \in DOMAIN rs : x \in {<<rs[k].key, t.dir, t.env, t.block>> : t \in rs[k].targets}
                OBVIOUS
            <4>2. PICK t \in rs[k].targets : x = <<rs[k].key, t.dir, t.env, t.block>>
                BY <4>1
            <4>3. t \in ts /\ manifestRepositoryKey(t) = rs[k].key
                BY <3>2 DEF Merges
            <4> QED
                BY <4>2, <4>3
        <3>4. ASSUME NEW t \in ts PROVE line(t) \in lines
            <4>1. PICK k \in DOMAIN rs : rs[k].key = manifestRepositoryKey(t)
                BY <3>1 DEF Normalizing, Covers
            <4>2. PICK u \in rs[k].targets : u.dir = t.dir /\ u.env = t.env /\ u.block = t.block
                BY <3>2, <4>1 DEF Merges
            <4>3. line(t) = <<rs[k].key, u.dir, u.env, u.block>>
                BY <4>1, <4>2
            <4> QED
                BY <4>3
        <3> QED
            BY <3>3, <3>4
    <2>3. Planned => \A k \in Applied(event) : Complete(rules[k], event)
        BY DEF CompleteInv
    <2> QED
        BY <2>1, <2>2, <2>3 DEF PlanComplete
<1> QED
    BY <1>1, ProposalPlans, PlanInvariant, CompleteInvariant, PTL

(* One entry of the plan per repository whatever the case of its name, one *)
(* target per directory, in an order that does not depend on that of the   *)
(* rules.                                                                  *)
THEOREM RepositoriesPlannedOnce == ProposalSpec => []OnePlanPerRepository
<1>1. PlanInv => OnePlanPerRepository
    <2> SUFFICES ASSUME PlanInv, Planned PROVE OnePlanPerRepository
        BY DEF OnePlanPerRepository
    <2>1. repositories \in Seq(Records) /\ Normalizing(repositories, Len(repositories) + 1, Destinations(event))
        BY DEF PlanInv
    <2>2. ASSUME NEW k \in DOMAIN repositories PROVE Merges(repositories[k], Destinations(event))
        <3>1. k < Len(repositories) + 1
            BY <2>1
        <3> QED
            BY <3>1, <2>1 DEF Normalizing
    <2> QED
        BY <2>1, <2>2 DEF OnePlanPerRepository, Normalizing, Merges
<1> QED
    BY <1>1, ProposalPlans, PlanInvariant, PTL

(* Branches of different pushes differ: every form of what the branch hash *)
(* is computed from names the host, the image and the tag.                 *)
THEOREM BranchesNameEvents == ProposalSpec => []BranchNamesEvent
<1>1. ASSUME NEW e \in EventPool, NEW f \in EventPool, NEW key, NEW ts, NEW us,
             Identity(e, key, ts) = Identity(f, key, us)
      PROVE  e = f
    <2> DEFINE single(g, t) == <<g.host, g.repository, t.name, t.dir, t.env, g.tag>>
               several(g, vs) == <<g.host, g.repository, key, g.tag, {<<t.dir, t.env>> : t \in vs}>>
    <2>1. ASSUME NEW g, NEW vs
          PROVE  \/ \E t : Identity(g, key, vs) = single(g, t)
                 \/ Identity(g, key, vs) = several(g, vs)
        BY DEF Identity
    <2>2. ASSUME NEW g, NEW h, NEW t, NEW vs PROVE single(g, t) # several(h, vs)
        OBVIOUS
    <2>3. e.host = f.host /\ e.repository = f.repository /\ e.tag = f.tag
        <3>1. CASE \E t : Identity(e, key, ts) = single(e, t)
            <4>1. PICK t : Identity(e, key, ts) = single(e, t)
                BY <3>1
            <4>2. PICK u : Identity(f, key, us) = single(f, u)
                BY <4>1, <2>1, <2>2, <1>1
            <4>3. single(e, t) = single(f, u)
                BY <4>1, <4>2, <1>1
            <4> QED
                BY <4>3
        <3>2. CASE Identity(e, key, ts) = several(e, ts)
            <4>1. Identity(f, key, us) = several(f, us)
                BY <3>2, <2>1, <2>2, <1>1
            <4>2. several(e, ts) = several(f, us)
                BY <4>1, <3>2, <1>1
            <4> QED
                BY <4>2
        <3> QED
            BY <3>1, <3>2, <2>1
    <2> QED
        BY <2>3, PlanConstants
<1>2. PlanInv => BranchNamesEvent
    BY <1>1 DEF PlanInv, MatchInv, BranchNamesEvent
<1> QED
    BY <1>2, ProposalPlans, PlanInvariant, PTL

-----------------------------------------------------------------------------
(* Sums.  SumFunction is a recursive function over the subsets of its      *)
(* domain; these lemmas say that there is one and what it adds up.         *)

Chosen(T) == CHOOSE k \in T : TRUE

(* f adds up w over the sets of S: each is a member more than another.     *)
Adds(f, w, S) ==
    /\ f \in [S -> Int]
    /\ \A T \in S :
          f[T] = IF T = {} THEN 0 ELSE w[Chosen(T)] + f[T \ {Chosen(T)}]

(* A set that is not empty has one member less without its first.          *)
LEMMA WithoutFirst ==
    ASSUME NEW T, IsFiniteSet(T), T # {}
    PROVE  /\ Chosen(T) \in T /\ IsFiniteSet(T \ {Chosen(T)})
           /\ Cardinality(T) \in Nat /\ Cardinality(T \ {Chosen(T)}) = Cardinality(T) - 1
           /\ Cardinality(T) # 0
<1>1. Chosen(T) \in T
    BY DEF Chosen
<1> QED
    BY <1>1, FS_RemoveElement, FS_CardinalityType, FS_EmptySet

(* The sums of all sets up to a size can be extended by one member.        *)
LEMMA AddsOn ==
    ASSUME NEW D, IsFiniteSet(D), NEW w \in [D -> Int], NEW n \in Nat,
           NEW g, Adds(g, w, {T \in SUBSET D : Cardinality(T) <= n})
    PROVE  \E f : Adds(f, w, {T \in SUBSET D : Cardinality(T) <= n + 1})
<1> DEFINE S == {T \in SUBSET D : Cardinality(T) <= n}
           R == {T \in SUBSET D : Cardinality(T) <= n + 1}
           f == [T \in R |-> IF T = {} THEN 0 ELSE w[Chosen(T)] + g[T \ {Chosen(T)}]]
<1>1. ASSUME NEW T \in R, T # {}
      PROVE  Chosen(T) \in D /\ T \ {Chosen(T)} \in S /\ T \ {Chosen(T)} \in R
    <2>1. IsFiniteSet(T)
        BY FS_Subset
    <2>2. /\ Chosen(T) \in T /\ Cardinality(T) \in Nat
          /\ Cardinality(T \ {Chosen(T)}) = Cardinality(T) - 1
        BY <1>1, <2>1, WithoutFirst
    <2>3. Cardinality(T) <= n + 1
        OBVIOUS
    <2>4. Cardinality(T \ {Chosen(T)}) <= n /\ Cardinality(T \ {Chosen(T)}) <= n + 1
        BY ONLY n \in Nat, <2>2, <2>3
    <2> QED
        BY <2>2, <2>4
<1>2. g \in [S -> Int] /\ \A T \in S : g[T] = IF T = {} THEN 0 ELSE w[Chosen(T)] + g[T \ {Chosen(T)}]
    BY DEF Adds
<1>3. \A T \in S : T \in R
    <2> SUFFICES ASSUME NEW T \in S PROVE T \in R
        OBVIOUS
    <2>1. IsFiniteSet(T) /\ Cardinality(T) <= n
        BY FS_Subset
    <2>2. Cardinality(T) \in Nat
        BY <2>1, FS_CardinalityType
    <2> QED
        BY <2>1, <2>2
<1> HIDE DEF S, R
<1>4. \A T \in R : f[T] = IF T = {} THEN 0 ELSE w[Chosen(T)] + g[T \ {Chosen(T)}]
    OBVIOUS
<1>5. f \in [R -> Int]
    BY <1>1, <1>2
<1> HIDE DEF f
<1>6. \A T \in S : f[T] = g[T]
    BY <1>2, <1>3, <1>4
<1>7. \A T \in R : f[T] = IF T = {} THEN 0 ELSE w[Chosen(T)] + f[T \ {Chosen(T)}]
    BY <1>1, <1>4, <1>6
<1>8. Adds(f, w, R)
    BY <1>5, <1>7 DEF Adds
<1> QED
    BY <1>8 DEF R

(* What holds of the empty set, and of a set if it holds without its       *)
(* chosen member, holds of all subsets of a finite set.                    *)
LEMMA AllSubsets ==
    ASSUME NEW D, IsFiniteSet(D), NEW G, {} \in G,
           \A T \in SUBSET D : T # {} /\ T \ {Chosen(T)} \in G => T \in G
    PROVE  \A T \in SUBSET D : T \in G
<1> DEFINE bad == {T \in SUBSET D : T \notin G}
           sizes == {Cardinality(T) : T \in bad}
<1> SUFFICES ASSUME bad # {} PROVE FALSE
    OBVIOUS
<1>1. sizes \subseteq Nat /\ sizes # {}
    <2> SUFFICES ASSUME NEW T \in SUBSET D PROVE Cardinality(T) \in Nat
        OBVIOUS
    <2> QED
        BY FS_Subset, FS_CardinalityType
<1>2. PICK n \in sizes : \A m \in sizes : n <= m
    <2> HIDE DEF sizes
    <2> QED
        BY <1>1, First
<1>3. PICK T \in bad : n = Cardinality(T)
    OBVIOUS
<1>4. T # {} /\ IsFiniteSet(T)
    BY FS_Subset
<1>5. /\ Chosen(T) \in T /\ Cardinality(T) \in Nat
      /\ Cardinality(T \ {Chosen(T)}) = Cardinality(T) - 1
    BY <1>4, WithoutFirst
<1>6. T \ {Chosen(T)} \notin G
    BY <1>4
<1>7. Cardinality(T \ {Chosen(T)}) \in sizes
    BY <1>6
<1>8. n <= Cardinality(T \ {Chosen(T)})
    BY <1>2, <1>7
<1> QED
    BY ONLY <1>3, <1>5, <1>8

(* Every function with a finite domain has its sums.                       *)
LEMMA SumsExist ==
    ASSUME NEW D, IsFiniteSet(D), NEW w \in [D -> Int]
    PROVE  \E f : Adds(f, w, SUBSET D)
<1> DEFINE upto(n) == {T \in SUBSET D : Cardinality(T) <= n}
           bad == {n \in Nat : ~\E f : Adds(f, w, upto(n))}
<1>1. bad = {}
    <2> SUFFICES ASSUME bad # {} PROVE FALSE
        OBVIOUS
    <2>1. PICK n \in bad : \A m \in bad : n <= m
        BY First
    <2>2. n # 0
        <3> DEFINE f == [T \in upto(0) |-> 0]
        <3>1. ASSUME NEW T \in upto(0) PROVE T = {}
            <4>1. IsFiniteSet(T)
                BY FS_Subset
            <4>2. Cardinality(T) <= 0
                OBVIOUS
            <4>3. Cardinality(T) = 0
                BY <4>1, <4>2, FS_CardinalityType
            <4> QED
                BY <4>1, <4>3, FS_EmptySet
        <3>2. Adds(f, w, upto(0))
            BY <3>1 DEF Adds
        <3> QED
            BY <3>2
    <2>3. n - 1 \in Nat /\ n - 1 \notin bad
        <3>1. n \in Nat
            OBVIOUS
        <3>2. n - 1 \in Nat /\ ~(n <= n - 1)
            BY ONLY <2>2, <3>1
        <3> HIDE DEF bad
        <3> QED
            BY <2>1, <3>2
    <2>4. PICK g : Adds(g, w, upto(n - 1))
        BY <2>3
    <2>5. \E f : Adds(f, w, upto((n - 1) + 1))
        BY <2>3, <2>4, AddsOn
    <2>6. (n - 1) + 1 = n
        BY <2>1
    <2> HIDE DEF upto
    <2> QED
        BY <2>1, <2>5, <2>6
<1>2. Cardinality(D) \in Nat
    BY FS_CardinalityType
<1>3. PICK f : Adds(f, w, upto(Cardinality(D)))
    BY <1>1, <1>2
<1>4. upto(Cardinality(D)) = SUBSET D
    <2> SUFFICES ASSUME NEW T \in SUBSET D PROVE Cardinality(T) <= Cardinality(D)
        OBVIOUS
    <2> QED
        BY FS_Subset
<1> QED
    BY <1>3, <1>4

(* SumFunction is such a sum.                                              *)
LEMMA SumAdds ==
    ASSUME NEW D, IsFiniteSet(D), NEW w \in [D -> Int]
    PROVE  \E f : Adds(f, w, SUBSET D) /\ SumFunction(w) = f[D]
<1> DEFINE iter == CHOOSE f : f = [T \in SUBSET D |->
                       IF T = {} THEN 0 ELSE w[Chosen(T)] + f[T \ {Chosen(T)}]]
<1>1. PICK f : Adds(f, w, SUBSET D)
    BY SumsExist
<1>2. f = [T \in SUBSET D |-> IF T = {} THEN 0 ELSE w[Chosen(T)] + f[T \ {Chosen(T)}]]
    BY <1>1 DEF Adds
<1>3. iter = [T \in SUBSET D |-> IF T = {} THEN 0 ELSE w[Chosen(T)] + iter[T \ {Chosen(T)}]]
    BY <1>2
<1>4. SumFunction(w) = iter[D]
    BY DEF SumFunction, SumFunctionOnSet, FoldFunctionOnSet, MapThenFoldSet, Chosen
<1> HIDE DEF iter
<1> DEFINE G == {T \in SUBSET D : iter[T] = f[T]}
<1>5. {} \in G
    BY <1>2, <1>3
<1>6. ASSUME NEW T \in SUBSET D, T # {}, T \ {Chosen(T)} \in G PROVE T \in G
    BY <1>2, <1>3, <1>6
<1>7. \A T \in SUBSET D : T \in G
    <2> HIDE DEF G
    <2> QED
        BY <1>5, <1>6, AllSubsets
<1> QED
    BY <1>1, <1>4, <1>7

(* Sums are integers.                                                      *)
LEMMA SumType ==
    ASSUME NEW D, IsFiniteSet(D), NEW w \in [D -> Int] PROVE SumFunction(w) \in Int
<1>1. PICK f : Adds(f, w, SUBSET D) /\ SumFunction(w) = f[D]
    BY SumAdds
<1> QED
    BY <1>1 DEF Adds

(* What the labels of an image can add to the default body: a title of 512 *)
(* characters that are all escaped, three URLs of 2048 bytes, tokens and   *)
(* a handle, and the text around them.                                     *)
LabelRunes == 21575

(* If only the members of U grow, and none by more than LabelRunes, the    *)
(* sum grows by no more than that for each of them.                        *)
LEMMA SumGrows ==
    ASSUME NEW D, IsFiniteSet(D), NEW w \in [D -> Int], NEW v \in [D -> Int], NEW U \in SUBSET D,
           \A k \in D : v[k] <= w[k] + (IF k \in U THEN LabelRunes ELSE 0)
    PROVE  SumFunction(v) <= SumFunction(w) + LabelRunes * Cardinality(U)
<1>1. PICK f : Adds(f, w, SUBSET D) /\ SumFunction(w) = f[D]
    BY SumAdds
<1>2. PICK g : Adds(g, v, SUBSET D) /\ SumFunction(v) = g[D]
    BY SumAdds
<1> DEFINE more(T) == Cardinality(T \cap U)
           G == {T \in SUBSET D : g[T] <= f[T] + LabelRunes * more(T)}
<1>3. \A T \in SUBSET D : IsFiniteSet(T \cap U) /\ more(T) \in Nat
    BY FS_Subset, FS_CardinalityType
<1>4. f[{}] = 0 /\ g[{}] = 0 /\ more({}) = 0
    <2>1. {} \cap U = {}
        OBVIOUS
    <2> QED
        BY <1>1, <1>2, <2>1, FS_EmptySet DEF Adds
<1>5. {} \in G
    BY <1>4 DEF LabelRunes
<1>6. ASSUME NEW T \in SUBSET D, T # {}, T \ {Chosen(T)} \in G PROVE T \in G
    <2> DEFINE c == Chosen(T)
               R == T \ {c}
    <2>1. c \in T /\ c \in D /\ R \in SUBSET D
        BY <1>6, FS_Subset, WithoutFirst
    <2>2. f[T] = w[c] + f[R] /\ g[T] = v[c] + g[R] /\ f[R] \in Int /\ g[R] \in Int
        BY <1>1, <1>2, <1>6, <2>1 DEF Adds
    <2>3. w[c] \in Int /\ v[c] \in Int /\ v[c] <= w[c] + (IF c \in U THEN LabelRunes ELSE 0)
        BY <2>1
    <2>4. more(T) = more(R) + (IF c \in U THEN 1 ELSE 0) /\ more(R) \in Nat /\ more(T) \in Nat
        <3>1. CASE c \in U
            <4>1. c \in T \cap U /\ R \cap U = (T \cap U) \ {c}
                BY <2>1, <3>1
            <4>2. Cardinality((T \cap U) \ {c}) = Cardinality(T \cap U) - 1
                BY <1>3, <4>1, FS_RemoveElement
            <4> QED
                BY <1>3, <2>1, <3>1, <4>1, <4>2
        <3>2. CASE c \notin U
            <4>1. R \cap U = T \cap U
                BY <3>2
            <4> QED
                BY <1>3, <2>1, <3>2, <4>1
        <3> QED
            BY <3>1, <3>2
    <2>5. g[R] <= f[R] + LabelRunes * more(R)
        BY <1>6
    <2> HIDE DEF c, R, more
    <2>6. g[T] <= f[T] + LabelRunes * more(T)
        BY ONLY <2>2, <2>3, <2>4, <2>5 DEF LabelRunes
    <2> QED
        BY <2>6
<1>7. \A T \in SUBSET D : T \in G
    <2> HIDE DEF G
    <2> QED
        BY <1>5, <1>6, AllSubsets
<1>8. D \in G /\ D \cap U = U
    BY <1>7
<1> QED
    BY <1>1, <1>2, <1>8

-----------------------------------------------------------------------------
(* Texts *)

Texts == [runes : Int, meta : Int, breaks : BOOLEAN, control : BOOLEAN, blank : BOOLEAN]

(* A text is what it is known by.                                          *)
LEMMA TextFields ==
    ASSUME NEW t \in Texts
    PROVE  t.runes \in Int /\ t.meta \in Int /\ t.breaks \in BOOLEAN /\ t.control \in BOOLEAN
           /\ t.blank \in BOOLEAN
BY DEF Texts

(* A text of n characters, in one line or several.                         *)
LEMMA PlainText ==
    ASSUME NEW n \in Int, NEW m \in Int
    PROVE  /\ Text(n, m) \in Texts /\ Text(n, m).runes = n /\ Text(n, m).meta = m
           /\ ~Text(n, m).breaks /\ ~Text(n, m).control /\ (Text(n, m).blank <=> n = 0)
           /\ Lines(n) \in Texts /\ Lines(n).runes = n
           /\ Lines(n).breaks /\ ~Lines(n).control /\ (Lines(n).blank <=> n = 0)
<1> DEFINE t == [runes |-> n, meta |-> m, breaks |-> FALSE, control |-> FALSE, blank |-> n = 0]
           u == [runes |-> n, meta |-> 0, breaks |-> TRUE, control |-> FALSE, blank |-> n = 0]
<1>1. Text(n, m) = t
    BY DEF Text
<1>2. Lines(n) = u
    BY DEF Lines
<1>3. t \in Texts /\ t.runes = n /\ t.meta = m
    BY DEF Texts
<1>4. ~t.breaks /\ ~t.control /\ (t.blank <=> n = 0)
    OBVIOUS
<1>5. u \in Texts /\ u.runes = n
    BY DEF Texts
<1>6. u.breaks /\ ~u.control /\ (u.blank <=> n = 0)
    OBVIOUS
<1> HIDE DEF t, u
<1> QED
    BY <1>1, <1>2, <1>3, <1>4, <1>5, <1>6

(* A list or a set of texts.                                               *)
LEMMA JoinAllText ==
    ASSUME NEW ts, IsFiniteSet(DOMAIN ts), \A k \in DOMAIN ts : ts[k] \in Texts
    PROVE  /\ JoinAll(ts) \in Texts
           /\ JoinAll(ts).runes = SumFunction([k \in DOMAIN ts |-> ts[k].runes])
           /\ (JoinAll(ts).breaks <=> \E k \in DOMAIN ts : ts[k].breaks)
           /\ (JoinAll(ts).control <=> \E k \in DOMAIN ts : ts[k].control)
           /\ (JoinAll(ts).blank <=> \A k \in DOMAIN ts : ts[k].blank)
<1> DEFINE rs == [k \in DOMAIN ts |-> ts[k].runes]
           ms == [k \in DOMAIN ts |-> ts[k].meta]
<1>1. rs \in [DOMAIN ts -> Int] /\ ms \in [DOMAIN ts -> Int]
    BY DEF Texts
<1> HIDE DEF rs, ms
<1>2. SumFunction(rs) \in Int /\ SumFunction(ms) \in Int
    BY <1>1, SumType
<1>3. JoinAll(ts) = [runes |-> SumFunction(rs), meta |-> SumFunction(ms),
                     breaks |-> \E k \in DOMAIN ts : ts[k].breaks,
                     control |-> \E k \in DOMAIN ts : ts[k].control,
                     blank |-> \A k \in DOMAIN ts : ts[k].blank]
    BY DEF JoinAll, rs, ms
<1> QED
    BY <1>2, <1>3 DEF Texts, rs

(* Two positions are finitely many.                                        *)
LEMMA TwoFinite == IsFiniteSet({1, 2})
<1>1. {1, 2} = 1 .. 2
    OBVIOUS
<1> DEFINE two == 2
<1>2. two \in Int
    OBVIOUS
<1> HIDE DEF two
<1>3. IsFiniteSet(1 .. two)
    BY <1>2, FS_Interval
<1>4. {1, 2} = 1 .. two
    BY <1>1 DEF two
<1> QED
    BY <1>3, <1>4, Zenon

(* The sum of two numbers.                                                 *)
LEMMA SumOfTwo ==
    ASSUME NEW w \in [{1, 2} -> Int] PROVE SumFunction(w) = w[1] + w[2]
<1>1. IsFiniteSet({1, 2})
    BY TwoFinite
<1>2. PICK f : Adds(f, w, SUBSET {1, 2}) /\ SumFunction(w) = f[{1, 2}]
    BY <1>1, SumAdds
<1>3. f[{}] = 0
    BY <1>2 DEF Adds
<1>4. f[{1}] = w[1] /\ f[{2}] = w[2]
    <2> SUFFICES ASSUME NEW x \in {1, 2} PROVE f[{x}] = w[x]
        OBVIOUS
    <2>1. Chosen({x}) = x /\ {x} \ {x} = {} /\ {x} # {} /\ {x} \in SUBSET {1, 2}
        BY DEF Chosen
    <2>2. f[{x}] = w[x] + f[{}] /\ w[x] \in Int
        BY <1>2, <2>1 DEF Adds
    <2> QED
        BY <1>3, <2>2
<1>5. Chosen({1, 2}) \in {1, 2}
    BY DEF Chosen
<1>6. f[{1, 2}] = w[Chosen({1, 2})] + f[{1, 2} \ {Chosen({1, 2})}]
    BY <1>2 DEF Adds
<1>7. {1, 2} \ {1} = {2} /\ {1, 2} \ {2} = {1}
    OBVIOUS
<1>8. w[1] \in Int /\ w[2] \in Int
    OBVIOUS
<1>9. f[{1, 2}] = w[1] + w[2]
    <2>1. CASE Chosen({1, 2}) = 1
        BY <1>4, <1>6, <1>7, <1>8, <2>1
    <2>2. CASE Chosen({1, 2}) = 2
        <3>1. f[{1, 2}] = w[2] + f[{1}]
            BY <1>6, <1>7, <2>2
        <3> QED
            BY ONLY <1>4, <1>8, <3>1
    <2> QED
        BY <1>5, <2>1, <2>2
<1> QED
    BY <1>2, <1>9

(* One text after the other.                                               *)
LEMMA JoinText ==
    ASSUME NEW a \in Texts, NEW b \in Texts
    PROVE  /\ a ++ b \in Texts /\ (a ++ b).runes = a.runes + b.runes
           /\ ((a ++ b).breaks <=> a.breaks \/ b.breaks)
           /\ ((a ++ b).control <=> a.control \/ b.control)
           /\ ((a ++ b).blank <=> a.blank /\ b.blank)
<1> DEFINE ts == <<a, b>>
           rs == [k \in DOMAIN ts |-> ts[k].runes]
<1>1. DOMAIN ts = {1, 2} /\ ts[1] = a /\ ts[2] = b
    OBVIOUS
<1>2. IsFiniteSet({1, 2})
    BY TwoFinite
<1>3. a ++ b = JoinAll(ts)
    BY DEF ++
<1> HIDE DEF ts
<1>4. rs \in [{1, 2} -> Int] /\ rs[1] = a.runes /\ rs[2] = b.runes
    BY <1>1, TextFields
<1>5. /\ JoinAll(ts) \in Texts
      /\ JoinAll(ts).runes = SumFunction(rs)
      /\ (JoinAll(ts).breaks <=> \E k \in DOMAIN ts : ts[k].breaks)
      /\ (JoinAll(ts).control <=> \E k \in DOMAIN ts : ts[k].control)
      /\ (JoinAll(ts).blank <=> \A k \in DOMAIN ts : ts[k].blank)
    BY <1>1, <1>2, JoinAllText
<1> HIDE DEF rs
<1>6. SumFunction(rs) = rs[1] + rs[2]
    BY <1>4, SumOfTwo
<1> QED
    BY <1>1, <1>3, <1>4, <1>5, <1>6

(* Four texts.                                                             *)
LEMMA JoinFour ==
    ASSUME NEW a \in Texts, NEW b \in Texts, NEW c \in Texts, NEW d \in Texts
    PROVE  LET t == a ++ b ++ c ++ d
           IN  /\ t \in Texts /\ t.runes = a.runes + b.runes + c.runes + d.runes
               /\ (t.breaks <=> a.breaks \/ b.breaks \/ c.breaks \/ d.breaks)
               /\ (t.control <=> a.control \/ b.control \/ c.control \/ d.control)
               /\ (t.blank <=> a.blank /\ b.blank /\ c.blank /\ d.blank)
<1> DEFINE s == a ++ b
           t == s ++ c
           u == t ++ d
<1>1. /\ s \in Texts /\ s.runes = a.runes + b.runes /\ (s.breaks <=> a.breaks \/ b.breaks)
      /\ (s.control <=> a.control \/ b.control) /\ (s.blank <=> a.blank /\ b.blank)
    BY JoinText
<1> HIDE DEF s
<1>2. /\ t \in Texts /\ t.runes = s.runes + c.runes /\ (t.breaks <=> s.breaks \/ c.breaks)
      /\ (t.control <=> s.control \/ c.control) /\ (t.blank <=> s.blank /\ c.blank)
    BY <1>1, JoinText
<1> HIDE DEF t
<1>3. /\ u \in Texts /\ u.runes = t.runes + d.runes /\ (u.breaks <=> t.breaks \/ d.breaks)
      /\ (u.control <=> t.control \/ d.control) /\ (u.blank <=> t.blank /\ d.blank)
    BY <1>2, JoinText
<1> HIDE DEF u
<1>4. /\ u \in Texts /\ u.runes = a.runes + b.runes + c.runes + d.runes
      /\ (u.breaks <=> a.breaks \/ b.breaks \/ c.breaks \/ d.breaks)
      /\ (u.control <=> a.control \/ b.control \/ c.control \/ d.control)
      /\ (u.blank <=> a.blank /\ b.blank /\ c.blank /\ d.blank)
    BY <1>1, <1>2, <1>3
<1>5. u = a ++ b ++ c ++ d
    BY DEF u, t, s
<1> QED
    BY <1>4, <1>5

(* Six texts.                                                              *)
LEMMA JoinSix ==
    ASSUME NEW a \in Texts, NEW b \in Texts, NEW c \in Texts, NEW d \in Texts,
           NEW e \in Texts, NEW f \in Texts
    PROVE  LET t == a ++ b ++ c ++ d ++ e ++ f
           IN  /\ t \in Texts /\ t.runes = a.runes + b.runes + c.runes + d.runes + e.runes + f.runes
               /\ (t.breaks <=> a.breaks \/ b.breaks \/ c.breaks \/ d.breaks \/ e.breaks \/ f.breaks)
               /\ (t.control <=> a.control \/ b.control \/ c.control \/ d.control
                                   \/ e.control \/ f.control)
               /\ (t.blank <=> a.blank /\ b.blank /\ c.blank /\ d.blank /\ e.blank /\ f.blank)
<1> DEFINE s == a ++ b ++ c ++ d
           t == s ++ e
           u == t ++ f
<1>1. /\ s \in Texts /\ s.runes = a.runes + b.runes + c.runes + d.runes
      /\ (s.breaks <=> a.breaks \/ b.breaks \/ c.breaks \/ d.breaks)
      /\ (s.control <=> a.control \/ b.control \/ c.control \/ d.control)
      /\ (s.blank <=> a.blank /\ b.blank /\ c.blank /\ d.blank)
    BY JoinFour
<1> HIDE DEF s
<1>2. /\ t \in Texts /\ t.runes = s.runes + e.runes /\ (t.breaks <=> s.breaks \/ e.breaks)
      /\ (t.control <=> s.control \/ e.control) /\ (t.blank <=> s.blank /\ e.blank)
    BY <1>1, JoinText
<1> HIDE DEF t
<1>3. /\ u \in Texts /\ u.runes = t.runes + f.runes /\ (u.breaks <=> t.breaks \/ f.breaks)
      /\ (u.control <=> t.control \/ f.control) /\ (u.blank <=> t.blank /\ f.blank)
    BY <1>2, JoinText
<1> HIDE DEF u
<1>4. /\ u \in Texts /\ u.runes = a.runes + b.runes + c.runes + d.runes + e.runes + f.runes
      /\ (u.breaks <=> a.breaks \/ b.breaks \/ c.breaks \/ d.breaks \/ e.breaks \/ f.breaks)
      /\ (u.control <=> a.control \/ b.control \/ c.control \/ d.control \/ e.control \/ f.control)
      /\ (u.blank <=> a.blank /\ b.blank /\ c.blank /\ d.blank /\ e.blank /\ f.blank)
    BY <1>1, <1>2, <1>3
<1>5. u = a ++ b ++ c ++ d ++ e ++ f
    BY DEF u, t, s
<1> QED
    BY <1>4, <1>5

-----------------------------------------------------------------------------
(* Labels and the default body *)

Printable == {t \in Texts : ~t.breaks /\ ~t.control}
UpTo(n)   == {t \in Printable : t.runes <= n}

(* What NewImageLabels promises, whatever the raw labels are.              *)
Sanitized(l) ==
    /\ l.Source \in UpTo(6144) /\ l.BuildURL \in UpTo(6144)
    /\ l.Revision \in UpTo(256) /\ l.Created \in UpTo(256) /\ l.PRNumber \in UpTo(256)
    /\ l.BuildRunID \in UpTo(256) /\ l.BuildRef \in UpTo(256) /\ l.BuildEvent \in UpTo(256)
    /\ l.PRAuthor \in UpTo(39)
    /\ l.PRTitle \in UpTo(512) /\ l.PRTitle.meta <= 512
    /\ l.ImageURI \in Printable /\ l.ImageSize \in Printable

(* An image without labels, with the URI and the size of l.                *)
Unlabelled(n, l) ==
    /\ Sanitized(n) /\ n.ImageURI = l.ImageURI /\ n.ImageSize = l.ImageSize
    /\ \A t \in {n.Source, n.BuildURL, n.Revision, n.Created, n.PRNumber, n.BuildRunID, n.BuildRef,
                 n.BuildEvent, n.PRAuthor, n.PRTitle} : t.runes = 0

(* Empty is a text.                                                        *)
LEMMA EmptyText == Empty \in Printable /\ Empty.runes = 0 /\ Empty.meta = 0
BY PlainText DEF Empty, Printable

(* A text of a label is printable.                                         *)
LEMMA RawText ==
    ASSUME NEW l, IsLabel(l) PROVE l.text \in Printable
BY DEF IsLabel, OneLine, IsText, Printable, Texts

(* A value that is kept is within its limit.                               *)
LEMMA KeptText ==
    ASSUME NEW l, IsLabel(l), NEW forms, NEW limit \in Nat
    PROVE  /\ Kept(l, forms, limit) \in Printable
           /\ forms \subseteq {"number", "handle", "token"} => Kept(l, forms, limit) \in UpTo(limit)
           /\ forms = {"url"} => Kept(l, forms, limit) \in UpTo(3 * limit)
<1>1. l.text \in Printable /\ l.text.runes \in Int /\ l.size \in Nat
    BY RawText DEF IsLabel, Printable, Texts
<1>2. CASE ~(l.form \in forms /\ l.size <= limit)
    BY <1>2, EmptyText DEF Kept, UpTo
<1>3. CASE l.form \in forms /\ l.size <= limit
    <2>1. Kept(l, forms, limit) = l.text
        BY <1>3 DEF Kept
    <2>2. ASSUME forms \subseteq {"number", "handle", "token"} PROVE l.text.runes <= limit
        <3>1. l.text.runes <= l.size
            BY <1>3, <2>2 DEF IsLabel
        <3> QED
            BY <1>1, <1>3, <3>1
    <2>3. ASSUME forms = {"url"} PROVE l.text.runes <= 3 * limit
        <3>1. l.text.runes <= 3 * l.size
            BY <1>3, <2>3 DEF IsLabel
        <3> QED
            BY <1>1, <1>3, <3>1
    <2> QED
        BY <1>1, <2>1, <2>2, <2>3 DEF UpTo
<1> QED
    BY <1>2, <1>3

(* A truncated text.                                                       *)
LEMMA TitleText ==
    ASSUME NEW l, IsLabel(l)
    PROVE  sanitizeLabelText(l) \in UpTo(512) /\ sanitizeLabelText(l).meta <= 512
<1> DEFINE n == AtMost(l.text.runes, maxLabelTextLength)
           m == AtMost(l.text.meta, maxLabelTextLength)
<1>1. l.text.runes \in Int /\ l.text.meta \in Int
    BY RawText DEF Printable, Texts
<1>2. n \in Int /\ m \in Int /\ n <= 512 /\ m <= 512
    BY <1>1 DEF AtMost, maxLabelTextLength
<1>3. sanitizeLabelText(l) = Text(n, m)
    BY DEF sanitizeLabelText
<1> HIDE DEF n, m
<1>4. Text(n, m) \in Texts /\ Text(n, m).runes = n /\ Text(n, m).meta = m
      /\ ~Text(n, m).breaks /\ ~Text(n, m).control
    BY <1>2, PlainText
<1> QED
    BY <1>2, <1>3, <1>4 DEF UpTo, Printable

(* Every label has a sanitizer that bounds it.                             *)
LEMMA LabelsSanitized ==
    ASSUME NEW raw, \A key \in LabelKeys : IsLabel(raw[key])
    PROVE  Sanitized(NewImageLabels(raw))
<1> DEFINE l == NewImageLabels(raw)
<1>1. \A key \in LabelKeys : IsLabel(raw[key]) /\ raw[key].text \in Printable
    BY RawText
<1>2. l.Source \in UpTo(6144) /\ l.BuildURL \in UpTo(6144)
    <2>1. ASSUME NEW x, IsLabel(x) PROVE sanitizeLabelURL(x) \in UpTo(6144)
        <3>1. maxLabelURLLength \in Nat /\ 3 * maxLabelURLLength = 6144
            BY DEF maxLabelURLLength
        <3> QED
            BY <2>1, <3>1, KeptText DEF sanitizeLabelURL
    <2> QED
        BY <1>1, <2>1 DEF NewImageLabels, LabelKeys
<1>3. /\ l.Revision \in UpTo(256) /\ l.Created \in UpTo(256) /\ l.PRNumber \in UpTo(256)
      /\ l.BuildRunID \in UpTo(256) /\ l.BuildRef \in UpTo(256) /\ l.BuildEvent \in UpTo(256)
    <2>1. ASSUME NEW x, IsLabel(x)
          PROVE  sanitizeLabelToken(x) \in UpTo(256) /\ sanitizeLabelNumber(x) \in UpTo(256)
        <3>1. maxLabelTokenLength \in Nat /\ maxLabelTokenLength = 256
            BY DEF maxLabelTokenLength
        <3> QED
            BY <2>1, <3>1, KeptText DEF sanitizeLabelToken, sanitizeLabelNumber
    <2> QED
        BY <1>1, <2>1 DEF NewImageLabels, LabelKeys
<1>4. l.PRAuthor \in UpTo(39)
    <2>1. ASSUME NEW x, IsLabel(x) PROVE sanitizeLabelHandle(x) \in UpTo(39)
        <3>1. maxLabelHandleLength \in Nat /\ maxLabelHandleLength = 39
            BY DEF maxLabelHandleLength
        <3> QED
            BY <2>1, <3>1, KeptText DEF sanitizeLabelHandle
    <2> QED
        BY <1>1, <2>1 DEF NewImageLabels, LabelKeys
<1>5. l.PRTitle \in UpTo(512) /\ l.PRTitle.meta <= 512
    BY <1>1, TitleText DEF NewImageLabels, LabelKeys
<1>6. l.ImageURI \in Printable /\ l.ImageSize \in Printable
    BY <1>1 DEF NewImageLabels, LabelKeys
<1> HIDE DEF l
<1>7. Sanitized(l)
    BY <1>2, <1>3, <1>4, <1>5, <1>6 DEF Sanitized
<1> QED
    BY <1>7 DEF l

(* An image without labels has the URI and the size of the one with them.  *)
LEMMA NoLabelsUnlabelled ==
    ASSUME NEW raw, \A key \in LabelKeys : IsLabel(raw[key]),
           NEW none, none = [key \in LabelKeys |->
                                IF key \in {"uri", "size"} THEN raw[key]
                                ELSE [form |-> "other", size |-> 0, text |-> Empty]]
    PROVE  Unlabelled(NewImageLabels(none), NewImageLabels(raw))
<1> DEFINE nil == [form |-> "other", size |-> 0, text |-> Empty]
           n == NewImageLabels(none)
           l == NewImageLabels(raw)
<1>1. nil.form = "other" /\ nil.size = 0 /\ nil.text = Empty
    OBVIOUS
<1>2. IsLabel(nil)
    <2>1. IsText(Empty) /\ ~Empty.breaks /\ ~Empty.control
        <3>1. Empty = [runes |-> 0, meta |-> 0, breaks |-> FALSE, control |-> FALSE, blank |-> TRUE]
            BY DEF Empty, Text
        <3> QED
            BY <3>1 DEF IsText
    <2> QED
        BY <1>1, <2>1 DEF IsLabel, OneLine
<1> HIDE DEF nil
<1>3. \A key \in LabelKeys : none[key] = (IF key \in {"uri", "size"} THEN raw[key] ELSE nil)
    BY DEF nil
<1>4. Sanitized(n)
    BY <1>2, <1>3, LabelsSanitized
<1>5. /\ \A key \in {"source", "revision", "created", "pr.number", "pr.author", "pr.title", "build.url",
                     "build.run_id", "build.ref", "build.event"} : none[key] = nil
      /\ none["uri"] = raw["uri"] /\ none["size"] = raw["size"]
    BY <1>3 DEF LabelKeys
<1>6. ASSUME NEW forms \in SUBSET {"number", "handle", "token", "url"}, NEW limit
      PROVE  Kept(nil, forms, limit).runes = 0
    BY <1>1, EmptyText DEF Kept
<1>7. sanitizeLabelText(nil).runes = 0
    <2>1. nil.text.runes = 0 /\ nil.text.meta = 0
        BY <1>1, EmptyText
    <2>2. sanitizeLabelText(nil) = Text(0, 0)
        BY <2>1 DEF sanitizeLabelText, AtMost, maxLabelTextLength
    <2> QED
        BY <2>2, EmptyText DEF Empty
<1>8. /\ sanitizeLabelURL(nil).runes = 0 /\ sanitizeLabelToken(nil).runes = 0
      /\ sanitizeLabelNumber(nil).runes = 0 /\ sanitizeLabelHandle(nil).runes = 0
    BY <1>6 DEF sanitizeLabelURL, sanitizeLabelToken, sanitizeLabelNumber, sanitizeLabelHandle
<1>9. n.ImageURI = l.ImageURI /\ n.ImageSize = l.ImageSize
    BY <1>5 DEF NewImageLabels
<1>10. /\ n.Source.runes = 0 /\ n.BuildURL.runes = 0 /\ n.Revision.runes = 0 /\ n.Created.runes = 0
       /\ n.PRNumber.runes = 0 /\ n.BuildRunID.runes = 0 /\ n.BuildRef.runes = 0
       /\ n.BuildEvent.runes = 0 /\ n.PRAuthor.runes = 0 /\ n.PRTitle.runes = 0
    BY <1>5, <1>7, <1>8 DEF NewImageLabels
<1> HIDE DEF n, l
<1>11. Unlabelled(n, l)
    BY <1>4, <1>9, <1>10 DEF Unlabelled
<1> QED
    BY <1>11 DEF n, l

(* A text that is written under a condition.                               *)
LEMMA WhenText ==
    ASSUME NEW c \in BOOLEAN, NEW t \in Texts, ~t.control
    PROVE  When(c, t) \in Texts /\ ~When(c, t).control
           /\ When(c, t).runes = IF c THEN t.runes ELSE 0
<1>1. Empty \in Texts /\ ~Empty.control /\ Empty.runes = 0
    BY EmptyText DEF Printable
<1> QED
    BY <1>1 DEF When

(* A line of the default body that shows one label, if there is one.       *)
LEMMA LineText ==
    ASSUME NEW n \in Int, NEW t \in Printable
    PROVE  LET line == When(Has(t), Lines(n) ++ t)
           IN  /\ line \in Texts /\ ~line.control
               /\ line.runes = IF t.runes > 0 THEN n + t.runes ELSE 0
<1> DEFINE u == Lines(n) ++ t
           c == Has(t)
<1>1. Lines(n) \in Texts /\ Lines(n).runes = n /\ ~Lines(n).control
    BY PlainText
<1>2. t \in Texts /\ ~t.control /\ t.runes \in Int
    BY DEF Printable, Texts
<1>3. u \in Texts /\ u.runes = n + t.runes /\ ~u.control
    BY <1>1, <1>2, JoinText
<1>4. c \in BOOLEAN /\ (c <=> t.runes > 0)
    BY DEF Has
<1> HIDE DEF u, c
<1>5. When(c, u) \in Texts /\ ~When(c, u).control /\ When(c, u).runes = IF c THEN u.runes ELSE 0
    BY <1>3, <1>4, WhenText
<1>6. /\ When(c, u) \in Texts /\ ~When(c, u).control
      /\ When(c, u).runes = IF t.runes > 0 THEN n + t.runes ELSE 0
    BY <1>3, <1>4, <1>5
<1> QED
    BY <1>6 DEF u, c

(* What the changes of a body have at least and at most.                   *)
LEMMA ChangesText ==
    ASSUME NEW l, Sanitized(l)
    PROVE  LET t    == writeChanges(l)
               size == l.ImageSize.runes
           IN  /\ t \in Texts /\ ~t.control
               /\ t.runes <= 7080 + (IF size > 0 THEN 22 + size ELSE 0)
               /\ l.Source.runes = 0 /\ l.BuildRef.runes = 0 /\ l.PRAuthor.runes = 0
                    /\ l.BuildEvent.runes = 0
                  => t.runes = IF size > 0 THEN 52 + size ELSE 0
<1> DEFINE commit  == Has(l.Source) /\ Has(l.Revision)
           content == commit \/ Has(l.BuildRef) \/ Has(l.PRAuthor) \/ Has(l.BuildEvent) \/ Has(l.ImageSize)
           short   == shortRevision(l.Revision)
           line    == Lines(32) ++ short ++ l.Source ++ l.Revision
           c       == When(commit, line)
           d       == When(Has(l.BuildRef), Lines(20) ++ l.BuildRef)
           e       == When(Has(l.PRAuthor), Lines(19) ++ l.PRAuthor)
           f       == When(Has(l.BuildEvent), Lines(21) ++ l.BuildEvent)
           g       == When(Has(l.ImageSize), Lines(22) ++ l.ImageSize)
           head    == Lines(30)
           all     == head ++ c ++ d ++ e ++ f ++ g
           t       == When(content, all)
<1>1. t = writeChanges(l)
    BY DEF writeChanges
<1>2. /\ l.Source \in UpTo(6144) /\ l.Revision \in UpTo(256) /\ l.BuildRef \in UpTo(256)
      /\ l.PRAuthor \in UpTo(39) /\ l.BuildEvent \in UpTo(256) /\ l.ImageSize \in Printable
    BY DEF Sanitized
<1>3. /\ l.Source \in Texts /\ ~l.Source.control /\ l.Source.runes \in Int /\ l.Source.runes <= 6144
      /\ l.Revision \in Texts /\ ~l.Revision.control /\ l.Revision.runes \in Int /\ l.Revision.runes <= 256
      /\ l.BuildRef \in Printable /\ l.BuildRef.runes \in Int /\ l.BuildRef.runes <= 256
      /\ l.PRAuthor \in Printable /\ l.PRAuthor.runes \in Int /\ l.PRAuthor.runes <= 39
      /\ l.BuildEvent \in Printable /\ l.BuildEvent.runes \in Int /\ l.BuildEvent.runes <= 256
      /\ l.ImageSize.runes \in Int
    BY <1>2, TextFields DEF UpTo, Printable
<1>4. /\ commit \in BOOLEAN /\ (commit => l.Source.runes > 0)
      /\ content \in BOOLEAN
      /\ (content <=> commit \/ l.BuildRef.runes > 0 \/ l.PRAuthor.runes > 0 \/ l.BuildEvent.runes > 0
                        \/ l.ImageSize.runes > 0)
    BY DEF Has
<1>5. short \in Texts /\ ~short.control /\ short.runes \in Int /\ short.runes <= 7
    <2> DEFINE k == AtMost(l.Revision.runes, 7)
    <2>1. k \in Int /\ k <= 7
        BY <1>3 DEF AtMost
    <2>2. short = Text(k, 0)
        BY DEF shortRevision
    <2> HIDE DEF k, short
    <2> QED
        BY <2>1, <2>2, PlainText
<1>6. head \in Texts /\ head.runes = 30 /\ ~head.control
    BY PlainText
<1>7. Lines(32) \in Texts /\ Lines(32).runes = 32 /\ ~Lines(32).control
    BY PlainText
<1> HIDE DEF commit, content, short, head
<1>8. line \in Texts /\ ~line.control /\ line.runes = 32 + short.runes + l.Source.runes + l.Revision.runes
    BY <1>3, <1>5, <1>7, JoinFour
<1> HIDE DEF line
<1>9. c \in Texts /\ ~c.control /\ c.runes = IF commit THEN line.runes ELSE 0
    BY <1>4, <1>8, WhenText
<1>10. d \in Texts /\ ~d.control /\ d.runes = IF l.BuildRef.runes > 0 THEN 20 + l.BuildRef.runes ELSE 0
    BY <1>3, LineText
<1>11. e \in Texts /\ ~e.control /\ e.runes = IF l.PRAuthor.runes > 0 THEN 19 + l.PRAuthor.runes ELSE 0
    BY <1>3, LineText
<1>12. f \in Texts /\ ~f.control /\ f.runes = IF l.BuildEvent.runes > 0 THEN 21 + l.BuildEvent.runes ELSE 0
    BY <1>3, LineText
<1>13. g \in Texts /\ ~g.control /\ g.runes = IF l.ImageSize.runes > 0 THEN 22 + l.ImageSize.runes ELSE 0
    BY <1>2, LineText
<1> HIDE DEF c, d, e, f, g
<1>14. /\ all \in Texts /\ ~all.control
       /\ all.runes = head.runes + c.runes + d.runes + e.runes + f.runes + g.runes
    <2>1. /\ head \in Texts /\ c \in Texts /\ d \in Texts /\ e \in Texts /\ f \in Texts /\ g \in Texts
          /\ ~(head.control \/ c.control \/ d.control \/ e.control \/ f.control \/ g.control)
        BY <1>6, <1>9, <1>10, <1>11, <1>12, <1>13
    <2>2. /\ all \in Texts
          /\ all.runes = head.runes + c.runes + d.runes + e.runes + f.runes + g.runes
          /\ (all.control <=> head.control \/ c.control \/ d.control \/ e.control \/ f.control \/ g.control)
        BY ONLY <2>1, JoinSix
    <2> QED
        BY <2>1, <2>2
<1> HIDE DEF all
<1>15. t \in Texts /\ ~t.control /\ t.runes = IF content THEN all.runes ELSE 0
    BY <1>4, <1>14, WhenText
<1> HIDE DEF t
<1>16. t.runes <= 7080 + (IF l.ImageSize.runes > 0 THEN 22 + l.ImageSize.runes ELSE 0)
    <2>1. c.runes \in Int /\ c.runes <= 6439
        BY ONLY <1>3, <1>5, <1>8, <1>9
    <2>2. d.runes \in Int /\ d.runes <= 276 /\ e.runes \in Int /\ e.runes <= 58
          /\ f.runes \in Int /\ f.runes <= 277
        BY ONLY <1>3, <1>10, <1>11, <1>12
    <2>3. g.runes \in Int /\ g.runes >= 0
        BY ONLY <1>3, <1>13
    <2>4. t.runes \in Int /\ t.runes <= 7080 + g.runes
        BY ONLY <2>1, <2>2, <2>3, <1>6, <1>14, <1>15
    <2> QED
        BY ONLY <1>13, <2>4
<1>17. ASSUME l.Source.runes = 0, l.BuildRef.runes = 0, l.PRAuthor.runes = 0, l.BuildEvent.runes = 0
       PROVE  t.runes = IF l.ImageSize.runes > 0 THEN 52 + l.ImageSize.runes ELSE 0
    BY ONLY <1>17, <1>3, <1>4, <1>6, <1>9, <1>10, <1>11, <1>12, <1>13, <1>14, <1>15
<1> QED
    BY <1>1, <1>15, <1>16, <1>17

(* The links: none without labels.                                         *)
LEMMA LinksText ==
    ASSUME NEW l, Sanitized(l)
    PROVE  LET t == writeLinks(l)
           IN  /\ t \in Texts /\ ~t.control /\ t.runes <= 12852
               /\ l.Source.runes = 0 /\ l.BuildURL.runes = 0 => t.runes = 0
<1> DEFINE source == Has(l.PRNumber) /\ Has(l.Source)
           build  == Has(l.BuildURL) /\ Has(l.BuildRunID)
           b      == Text(23, 0) ++ l.PRNumber ++ l.Source ++ l.PRNumber
           d      == Text(13, 0) ++ l.BuildURL
           p      == When(source, b)
           q      == When(source /\ build, Text(3, 0))
           r      == When(build, d)
           head   == Lines(13)
           all    == head ++ p ++ q ++ r
           t      == When(source \/ build, all)
<1>1. t = writeLinks(l)
    BY DEF writeLinks
<1>2. /\ l.Source \in UpTo(6144) /\ l.BuildURL \in UpTo(6144) /\ l.PRNumber \in UpTo(256)
      /\ l.BuildRunID \in UpTo(256)
    BY DEF Sanitized
<1>3. /\ l.Source \in Texts /\ ~l.Source.control /\ l.Source.runes \in Int /\ l.Source.runes <= 6144
      /\ l.BuildURL \in Texts /\ ~l.BuildURL.control /\ l.BuildURL.runes \in Int /\ l.BuildURL.runes <= 6144
      /\ l.PRNumber \in Texts /\ ~l.PRNumber.control /\ l.PRNumber.runes \in Int /\ l.PRNumber.runes <= 256
    BY <1>2, TextFields DEF UpTo, Printable
<1>4. /\ source \in BOOLEAN /\ (source => l.Source.runes > 0)
      /\ build \in BOOLEAN /\ (build => l.BuildURL.runes > 0)
    BY DEF Has
<1>5. /\ head \in Texts /\ head.runes = 13 /\ ~head.control
      /\ Text(23, 0) \in Texts /\ Text(23, 0).runes = 23 /\ ~Text(23, 0).control
      /\ Text(13, 0) \in Texts /\ Text(13, 0).runes = 13 /\ ~Text(13, 0).control
      /\ Text(3, 0) \in Texts /\ Text(3, 0).runes = 3 /\ ~Text(3, 0).control
    BY PlainText
<1> HIDE DEF source, build, head
<1>6. b \in Texts /\ ~b.control /\ b.runes = 23 + l.PRNumber.runes + l.Source.runes + l.PRNumber.runes
    BY <1>3, <1>5, JoinFour
<1>7. d \in Texts /\ ~d.control /\ d.runes = 13 + l.BuildURL.runes
    BY <1>3, <1>5, JoinText
<1> HIDE DEF b, d
<1>8. p \in Texts /\ ~p.control /\ p.runes = IF source THEN b.runes ELSE 0
    BY <1>4, <1>6, WhenText
<1>9. q \in Texts /\ ~q.control /\ q.runes = IF source /\ build THEN 3 ELSE 0
    <2> DEFINE both == source /\ build
    <2>1. both \in BOOLEAN
        OBVIOUS
    <2> HIDE DEF both
    <2>2. When(both, Text(3, 0)) \in Texts /\ ~When(both, Text(3, 0)).control
          /\ When(both, Text(3, 0)).runes = IF both THEN Text(3, 0).runes ELSE 0
        BY <1>5, <2>1, WhenText
    <2> QED
        BY <1>5, <2>2 DEF both
<1>10. r \in Texts /\ ~r.control /\ r.runes = IF build THEN d.runes ELSE 0
    BY <1>4, <1>7, WhenText
<1> HIDE DEF p, q, r
<1>11. all \in Texts /\ ~all.control /\ all.runes = head.runes + p.runes + q.runes + r.runes
    BY <1>5, <1>8, <1>9, <1>10, JoinFour
<1> HIDE DEF all
<1>12. t \in Texts /\ ~t.control /\ t.runes = IF source \/ build THEN all.runes ELSE 0
    <2> DEFINE one == source \/ build
    <2>1. one \in BOOLEAN
        OBVIOUS
    <2> HIDE DEF one
    <2>2. When(one, all) \in Texts /\ ~When(one, all).control
          /\ When(one, all).runes = IF one THEN all.runes ELSE 0
        BY <1>11, <2>1, WhenText
    <2> QED
        BY <2>2 DEF one
<1> HIDE DEF t
<1>13. t.runes <= 12852
    BY ONLY <1>3, <1>5, <1>6, <1>7, <1>8, <1>9, <1>10, <1>11, <1>12
<1>14. l.Source.runes = 0 /\ l.BuildURL.runes = 0 => t.runes = 0
    BY ONLY <1>4, <1>12
<1> QED
    BY <1>1, <1>12, <1>13, <1>14

(* The table of labels, which shows the URI too.                           *)
LEMMA TableText ==
    ASSUME NEW l, Sanitized(l)
    PROVE  LET t   == writeLabels(l)
               uri == l.ImageURI.runes
           IN  /\ t \in Texts /\ ~t.control
               /\ t.runes <= 598 + (IF uri > 0 THEN 8 + uri ELSE 0)
               /\ l.Created.runes = 0 /\ l.Revision.runes = 0
                  => t.runes = IF uri > 0 THEN 73 + uri ELSE 0
<1> DEFINE some == Has(l.ImageURI) \/ Has(l.Revision) \/ Has(l.Created)
           c    == When(Has(l.ImageURI), Lines(8) ++ l.ImageURI)
           d    == When(Has(l.Created), Lines(10) ++ l.Created)
           e    == When(Has(l.Revision), Lines(11) ++ l.Revision)
           head == Lines(65)
           all  == head ++ c ++ d ++ e
           t    == When(some, all)
<1>1. t = writeLabels(l)
    BY DEF writeLabels
<1>2. l.ImageURI \in Printable /\ l.Revision \in UpTo(256) /\ l.Created \in UpTo(256)
    BY DEF Sanitized
<1>3. /\ l.ImageURI.runes \in Int
      /\ l.Revision \in Printable /\ l.Revision.runes \in Int /\ l.Revision.runes <= 256
      /\ l.Created \in Printable /\ l.Created.runes \in Int /\ l.Created.runes <= 256
    BY <1>2, TextFields DEF UpTo, Printable
<1>4. /\ some \in BOOLEAN
      /\ (some <=> l.ImageURI.runes > 0 \/ l.Revision.runes > 0 \/ l.Created.runes > 0)
    BY DEF Has
<1>5. head \in Texts /\ head.runes = 65 /\ ~head.control
    BY PlainText
<1>6. c \in Texts /\ ~c.control /\ c.runes = IF l.ImageURI.runes > 0 THEN 8 + l.ImageURI.runes ELSE 0
    BY <1>2, LineText
<1>7. d \in Texts /\ ~d.control /\ d.runes = IF l.Created.runes > 0 THEN 10 + l.Created.runes ELSE 0
    BY <1>3, LineText
<1>8. e \in Texts /\ ~e.control /\ e.runes = IF l.Revision.runes > 0 THEN 11 + l.Revision.runes ELSE 0
    BY <1>3, LineText
<1> HIDE DEF some, head, c, d, e
<1>9. all \in Texts /\ ~all.control /\ all.runes = head.runes + c.runes + d.runes + e.runes
    <2>1. /\ head \in Texts /\ c \in Texts /\ d \in Texts /\ e \in Texts
          /\ ~(head.control \/ c.control \/ d.control \/ e.control)
        BY <1>5, <1>6, <1>7, <1>8
    <2>2. /\ all \in Texts /\ all.runes = head.runes + c.runes + d.runes + e.runes
          /\ (all.control <=> head.control \/ c.control \/ d.control \/ e.control)
        BY ONLY <2>1, JoinFour
    <2> QED
        BY <2>1, <2>2
<1> HIDE DEF all
<1>10. t \in Texts /\ ~t.control /\ t.runes = IF some THEN all.runes ELSE 0
    BY <1>4, <1>9, WhenText
<1> HIDE DEF t
<1>11. t.runes <= 598 + (IF l.ImageURI.runes > 0 THEN 8 + l.ImageURI.runes ELSE 0)
    <2>1. d.runes \in Int /\ d.runes <= 266 /\ e.runes \in Int /\ e.runes <= 267
        BY ONLY <1>3, <1>7, <1>8
    <2>2. c.runes \in Int /\ c.runes >= 0
        BY ONLY <1>3, <1>6
    <2>3. t.runes \in Int /\ t.runes <= 598 + c.runes
        BY ONLY <2>1, <2>2, <1>5, <1>9, <1>10
    <2> QED
        BY ONLY <1>6, <2>3
<1>12. ASSUME l.Created.runes = 0, l.Revision.runes = 0
       PROVE  t.runes = IF l.ImageURI.runes > 0 THEN 73 + l.ImageURI.runes ELSE 0
    BY ONLY <1>12, <1>3, <1>4, <1>5, <1>6, <1>7, <1>8, <1>9, <1>10
<1> QED
    BY <1>1, <1>10, <1>11, <1>12

(* The heading of a body.                                                  *)
LEMMA HeadingText ==
    ASSUME NEW l, Sanitized(l)
    PROVE  LET t == IF Has(l.PRTitle) THEN Lines(21) ++ escapeMarkdown(l.PRTitle) ELSE Lines(19)
           IN  /\ t \in Texts /\ ~t.control /\ t.breaks /\ ~t.blank /\ t.runes <= 1045
               /\ l.PRTitle.runes = 0 => t.runes = 19
<1> DEFINE e == escapeMarkdown(l.PRTitle)
           u == Lines(21) ++ e
<1>1. /\ l.PRTitle \in Texts /\ ~l.PRTitle.control /\ l.PRTitle.runes \in Int /\ l.PRTitle.runes <= 512
      /\ l.PRTitle.meta \in Int /\ l.PRTitle.meta <= 512
    BY TextFields DEF Sanitized, UpTo, Printable
<1>2. e \in Texts /\ ~e.control /\ e.runes = l.PRTitle.runes + l.PRTitle.meta
    BY <1>1 DEF escapeMarkdown, Texts
<1>3. /\ Lines(21) \in Texts /\ Lines(21).runes = 21 /\ Lines(21).breaks /\ ~Lines(21).control /\ ~Lines(21).blank
      /\ Lines(19) \in Texts /\ Lines(19).runes = 19 /\ Lines(19).breaks /\ ~Lines(19).control /\ ~Lines(19).blank
    BY PlainText
<1> HIDE DEF e
<1>4. /\ u \in Texts /\ u.runes = 21 + e.runes /\ ~u.control /\ u.breaks /\ ~u.blank
    BY <1>2, <1>3, JoinText
<1> HIDE DEF u
<1>5. u.runes <= 1045
    BY <1>1, <1>2, <1>4
<1>6. CASE Has(l.PRTitle)
    BY <1>1, <1>4, <1>5, <1>6 DEF Has, u, e
<1>7. CASE ~Has(l.PRTitle)
    BY <1>3, <1>7
<1> QED
    BY <1>6, <1>7

(* The default body is some text of several lines, and labels make it no   *)
(* longer than their limits allow.                                         *)
LEMMA BodyText ==
    ASSUME NEW l, Sanitized(l)
    PROVE  LET t == FormatPullRequestBody(l)
           IN  t \in Texts /\ ~t.control /\ t.breaks /\ ~t.blank
<1> DEFINE a == IF Has(l.PRTitle) THEN Lines(21) ++ escapeMarkdown(l.PRTitle) ELSE Lines(19)
           b == writeChanges(l)
           c == writeLinks(l)
           d == writeLabels(l)
<1>1. a \in Texts /\ ~a.control /\ a.breaks /\ ~a.blank
    BY HeadingText
<1>2. b \in Texts /\ ~b.control
    BY ChangesText
<1>3. c \in Texts /\ ~c.control
    BY LinksText
<1>4. d \in Texts /\ ~d.control
    BY TableText
<1>5. FormatPullRequestBody(l) = a ++ b ++ c ++ d
    BY DEF FormatPullRequestBody
<1> HIDE DEF a, b, c, d
<1>6. /\ a ++ b ++ c ++ d \in Texts
      /\ ((a ++ b ++ c ++ d).breaks <=> a.breaks \/ b.breaks \/ c.breaks \/ d.breaks)
      /\ ((a ++ b ++ c ++ d).control <=> a.control \/ b.control \/ c.control \/ d.control)
      /\ ((a ++ b ++ c ++ d).blank <=> a.blank /\ b.blank /\ c.blank /\ d.blank)
    BY <1>1, <1>2, <1>3, <1>4, JoinFour
<1> QED
    BY <1>1, <1>2, <1>3, <1>4, <1>5, <1>6

(* Its length is the sum of its four parts.                                *)
LEMMA BodyLength ==
    ASSUME NEW l, Sanitized(l)
    PROVE  \E a \in Int :
             /\ FormatPullRequestBody(l).runes =
                  a + writeChanges(l).runes + writeLinks(l).runes + writeLabels(l).runes
             /\ a <= 1045 /\ (l.PRTitle.runes = 0 => a = 19)
<1> DEFINE a == IF Has(l.PRTitle) THEN Lines(21) ++ escapeMarkdown(l.PRTitle) ELSE Lines(19)
           b == writeChanges(l)
           c == writeLinks(l)
           d == writeLabels(l)
<1>1. a \in Texts /\ a.runes <= 1045 /\ (l.PRTitle.runes = 0 => a.runes = 19)
    BY HeadingText
<1>2. b \in Texts /\ c \in Texts /\ d \in Texts
    BY ChangesText, LinksText, TableText
<1>3. FormatPullRequestBody(l) = a ++ b ++ c ++ d
    BY DEF FormatPullRequestBody
<1> HIDE DEF a, b, c, d
<1>4. (a ++ b ++ c ++ d).runes = a.runes + b.runes + c.runes + d.runes
    BY <1>1, <1>2, JoinFour
<1>5. FormatPullRequestBody(l).runes = a.runes + b.runes + c.runes + d.runes /\ a.runes \in Int
    BY <1>1, <1>3, <1>4, TextFields
<1> QED
    BY <1>1, <1>5 DEF b, c, d

(* What labels add to the default body.                                    *)
LEMMA LabelsAdd ==
    ASSUME NEW l, NEW n, Sanitized(l), Unlabelled(n, l)
    PROVE  FormatPullRequestBody(l).runes <= FormatPullRequestBody(n).runes + LabelRunes
<1> DEFINE size == l.ImageSize.runes
           uri  == l.ImageURI.runes
<1>1. /\ Sanitized(n) /\ n.ImageSize.runes = size /\ n.ImageURI.runes = uri
      /\ n.Source.runes = 0 /\ n.BuildRef.runes = 0 /\ n.PRAuthor.runes = 0 /\ n.BuildEvent.runes = 0
      /\ n.BuildURL.runes = 0 /\ n.Created.runes = 0 /\ n.Revision.runes = 0 /\ n.PRTitle.runes = 0
    BY DEF Unlabelled
<1>2. size \in Int /\ uri \in Int
    BY TextFields DEF Sanitized, Printable
<1>3. PICK a \in Int :
        /\ FormatPullRequestBody(l).runes =
             a + writeChanges(l).runes + writeLinks(l).runes + writeLabels(l).runes
        /\ a <= 1045
    BY BodyLength
<1>4. FormatPullRequestBody(n).runes =
        19 + writeChanges(n).runes + writeLinks(n).runes + writeLabels(n).runes
    BY <1>1, BodyLength
<1>5. /\ writeChanges(l) \in Texts /\ writeLinks(l) \in Texts /\ writeLabels(l) \in Texts
      /\ writeChanges(l).runes <= 7080 + (IF size > 0 THEN 22 + size ELSE 0)
      /\ writeLinks(l).runes <= 12852
      /\ writeLabels(l).runes <= 598 + (IF uri > 0 THEN 8 + uri ELSE 0)
    BY ChangesText, LinksText, TableText
<1>6. /\ writeChanges(n).runes = IF size > 0 THEN 52 + size ELSE 0
      /\ writeLinks(n).runes = 0
      /\ writeLabels(n).runes = IF uri > 0 THEN 73 + uri ELSE 0
    BY <1>1, ChangesText, LinksText, TableText
<1>7. writeChanges(l).runes \in Int /\ writeLinks(l).runes \in Int /\ writeLabels(l).runes \in Int
    BY <1>5, TextFields
<1> HIDE DEF size, uri
<1>8. /\ writeChanges(n).runes \in Int /\ writeChanges(l).runes <= 7080 + writeChanges(n).runes
      /\ writeLabels(n).runes \in Int /\ writeLabels(l).runes <= 598 + writeLabels(n).runes
    BY ONLY <1>2, <1>5, <1>6, <1>7
<1> QED
    BY ONLY <1>3, <1>4, <1>5, <1>6, <1>7, <1>8 DEF LabelRunes

-----------------------------------------------------------------------------
(* Templates *)

Fields == allowedMessageTemplateFields
IsData(data) == DOMAIN data = Fields /\ \A f \in Fields : data[f] \in Texts

(* A node that startup accepts and that does not fail.                     *)
Executable(n) ==
    \/ n.k = "text" /\ n.text \in Texts
    \/ n.k = "field" /\ n.name \in Fields
    \/ n.k = "dot"

(* {{.}} shows what any field holds, and something in any case.            *)
LEMMA EveryFieldText ==
    ASSUME NEW data, IsData(data)
    PROVE  LET t == EveryField(data)
           IN  /\ t \in Texts /\ ~t.blank
               /\ (t.breaks <=> \E f \in Fields : data[f].breaks)
               /\ (t.control <=> \E f \in Fields : data[f].control)
               /\ t.runes = 7 + data["Environment"].runes + data["ImageName"].runes
                    + data["ImageRepository"].runes + data["Image"].runes + data["ImageTag"].runes
                    + data["DefaultBody"].runes
<1> DEFINE head == Text(7, 0)
           a == data["Environment"]
           b == data["ImageName"]
           c == data["ImageRepository"]
           d == data["Image"]
           e == data["ImageTag"]
           f == data["DefaultBody"]
           s == head ++ a ++ b ++ c ++ d ++ e
           t == s ++ f
<1>1. head \in Texts /\ head.runes = 7 /\ ~head.breaks /\ ~head.control /\ ~head.blank
    BY PlainText
<1>2. /\ a \in Texts /\ b \in Texts /\ c \in Texts /\ d \in Texts /\ e \in Texts /\ f \in Texts
      /\ ((\E g \in Fields : data[g].breaks) <=>
             a.breaks \/ b.breaks \/ c.breaks \/ d.breaks \/ e.breaks \/ f.breaks)
      /\ ((\E g \in Fields : data[g].control) <=>
             a.control \/ b.control \/ c.control \/ d.control \/ e.control \/ f.control)
    BY DEF IsData, Fields, allowedMessageTemplateFields
<1>3. EveryField(data) = t
    BY DEF EveryField
<1> HIDE DEF head, a, b, c, d, e, f
<1>4. /\ s \in Texts /\ s.runes = head.runes + a.runes + b.runes + c.runes + d.runes + e.runes
      /\ (s.breaks <=> head.breaks \/ a.breaks \/ b.breaks \/ c.breaks \/ d.breaks \/ e.breaks)
      /\ (s.control <=> head.control \/ a.control \/ b.control \/ c.control \/ d.control \/ e.control)
      /\ (s.blank <=> head.blank /\ a.blank /\ b.blank /\ c.blank /\ d.blank /\ e.blank)
    <2>1. head \in Texts /\ a \in Texts /\ b \in Texts /\ c \in Texts /\ d \in Texts /\ e \in Texts
        BY <1>1, <1>2
    <2> QED
        BY ONLY <2>1, JoinSix
<1> HIDE DEF s
<1>5. /\ t \in Texts /\ t.runes = s.runes + f.runes /\ (t.breaks <=> s.breaks \/ f.breaks)
      /\ (t.control <=> s.control \/ f.control) /\ (t.blank <=> s.blank /\ f.blank)
    BY ONLY <1>2, <1>4, JoinText
<1> HIDE DEF t
<1>6. /\ t \in Texts /\ ~t.blank
      /\ (t.breaks <=> \E g \in Fields : data[g].breaks)
      /\ (t.control <=> \E g \in Fields : data[g].control)
    BY ONLY <1>1, <1>2, <1>4, <1>5
<1>7. t.runes = 7 + a.runes + b.runes + c.runes + d.runes + e.runes + f.runes
    BY ONLY <1>1, <1>4, <1>5
<1> QED
    BY <1>3, <1>6, <1>7 DEF a, b, c, d, e, f

(* What a node prints.                                                     *)
LEMMA NodeIsText ==
    ASSUME NEW data, IsData(data), NEW n, Executable(n)
    PROVE  /\ NodeText(n, data) \in Texts
           /\ n.k = "text"  => NodeText(n, data) = n.text
           /\ n.k = "field" => n.name \in Fields /\ NodeText(n, data) = data[n.name]
           /\ n.k = "dot"   => NodeText(n, data) = EveryField(data)
<1>1. EveryField(data) \in Texts
    BY EveryFieldText
<1>2. CASE n.k = "text" /\ n.text \in Texts
    BY <1>2 DEF NodeText
<1>3. CASE n.k = "field" /\ n.name \in Fields
    BY <1>3 DEF NodeText, IsData
<1>4. CASE n.k = "dot"
    BY <1>1, <1>4 DEF NodeText
<1> QED
    BY <1>2, <1>3, <1>4 DEF Executable

(* What a template prints: the nodes are finitely many texts.              *)
LEMMA TemplateText ==
    ASSUME NEW data, IsData(data), NEW t, IsTemplate(t), \A k \in DOMAIN t.nodes : Executable(t.nodes[k])
    PROVE  LET u == executeMessageTemplate(t, data)
           IN  /\ u \in Texts /\ IsFiniteSet(DOMAIN t.nodes)
               /\ \A k \in DOMAIN t.nodes : NodeText(t.nodes[k], data) \in Texts
               /\ u.runes = SumFunction([k \in DOMAIN t.nodes |-> NodeText(t.nodes[k], data).runes])
               /\ (u.breaks <=> \E k \in DOMAIN t.nodes : NodeText(t.nodes[k], data).breaks)
               /\ (u.control <=> \E k \in DOMAIN t.nodes : NodeText(t.nodes[k], data).control)
               /\ (u.blank <=> \A k \in DOMAIN t.nodes : NodeText(t.nodes[k], data).blank)
<1> DEFINE D == DOMAIN t.nodes
           text(k) == NodeText(t.nodes[k], data)
           ts == [k \in D |-> text(k)]
<1>1. IsFiniteSet(D)
    <2>1. Len(t.nodes) \in Nat /\ D = 1 .. Len(t.nodes)
        BY DEF IsTemplate
    <2> QED
        BY <2>1, FS_Interval
<1>2. \A k \in D : text(k) \in Texts
    BY NodeIsText
<1>3. executeMessageTemplate(t, data) = JoinAll(ts)
    BY DEF executeMessageTemplate
<1> HIDE DEF D, text
<1>4. DOMAIN ts = D /\ \A k \in D : ts[k] = text(k)
    OBVIOUS
<1>5. [k \in DOMAIN ts |-> ts[k].runes] = [k \in D |-> text(k).runes]
    BY <1>4
<1> HIDE DEF ts
<1>6. /\ JoinAll(ts) \in Texts
      /\ JoinAll(ts).runes = SumFunction([k \in DOMAIN ts |-> ts[k].runes])
      /\ (JoinAll(ts).breaks <=> \E k \in DOMAIN ts : ts[k].breaks)
      /\ (JoinAll(ts).control <=> \E k \in DOMAIN ts : ts[k].control)
      /\ (JoinAll(ts).blank <=> \A k \in DOMAIN ts : ts[k].blank)
    BY <1>1, <1>2, <1>4, JoinAllText
<1>7. /\ JoinAll(ts).runes = SumFunction([k \in D |-> text(k).runes])
      /\ (JoinAll(ts).breaks <=> \E k \in D : text(k).breaks)
      /\ (JoinAll(ts).control <=> \E k \in D : text(k).control)
      /\ (JoinAll(ts).blank <=> \A k \in D : text(k).blank)
    BY <1>4, <1>5, <1>6
<1> QED
    BY <1>1, <1>2, <1>3, <1>6, <1>7 DEF D, text

(* The data of a body: what it escapes gets longer, and nothing else.      *)
LEMMA BodyDataText ==
    ASSUME NEW data, IsData(data)
    PROVE  LET b == BodyData(data)
           IN  /\ IsData(b) /\ b["DefaultBody"] = data["DefaultBody"]
               /\ \A f \in Fields :
                     /\ (b[f].breaks <=> data[f].breaks) /\ (b[f].control <=> data[f].control)
                     /\ (b[f].blank <=> data[f].blank)
<1> DEFINE b == BodyData(data)
<1>1. "DefaultBody" \in Fields
    BY DEF Fields, allowedMessageTemplateFields
<1>2. /\ DOMAIN b = Fields
      /\ \A f \in Fields : b[f] = IF f = "DefaultBody" THEN data[f] ELSE escapeMarkdown(data[f])
    BY DEF BodyData, IsData
<1>3. ASSUME NEW t \in Texts
      PROVE  /\ escapeMarkdown(t) \in Texts /\ escapeMarkdown(t).breaks = t.breaks
             /\ escapeMarkdown(t).control = t.control /\ escapeMarkdown(t).blank = t.blank
    BY DEF escapeMarkdown, Texts
<1> HIDE DEF b
<1>4. /\ IsData(b) /\ b["DefaultBody"] = data["DefaultBody"]
      /\ \A f \in Fields :
            /\ (b[f].breaks <=> data[f].breaks) /\ (b[f].control <=> data[f].control)
            /\ (b[f].blank <=> data[f].blank)
    BY <1>1, <1>2, <1>3 DEF IsData
<1> QED
    BY <1>4 DEF b

(* The data of the trial: only the default body has line breaks.           *)
LEMMA TrialText ==
    /\ IsData(trialData)
    /\ \A f \in Fields : ~trialData[f].control /\ (trialData[f].breaks <=> f = "DefaultBody")
<1> DEFINE a == Text(10, 0)
           b == Text(16, 0)
           c == Text(21, 0)
           d == Text(42, 0)
           e == Text(7, 0)
           f == Lines(16)
<1>1. /\ a \in Texts /\ ~a.breaks /\ ~a.control /\ b \in Texts /\ ~b.breaks /\ ~b.control
      /\ c \in Texts /\ ~c.breaks /\ ~c.control /\ d \in Texts /\ ~d.breaks /\ ~d.control
      /\ e \in Texts /\ ~e.breaks /\ ~e.control /\ f \in Texts /\ f.breaks /\ ~f.control
    BY PlainText
<1>2. trialData = Data(a, b, c, d, e, f)
    BY DEF trialData
<1> HIDE DEF a, b, c, d, e, f
<1>3. /\ IsData(trialData) /\ trialData["Environment"] = a /\ trialData["ImageName"] = b
      /\ trialData["ImageRepository"] = c /\ trialData["Image"] = d /\ trialData["ImageTag"] = e
      /\ trialData["DefaultBody"] = f
    BY <1>1, <1>2 DEF Data, IsData, Fields, allowedMessageTemplateFields
<1> QED
    BY <1>1, <1>3 DEF Fields, allowedMessageTemplateFields

Parts == {"title", "body", "commit"}
Accepted(ts) == DOMAIN ts = Parts /\ (\A part \in Parts : IsTemplate(ts[part])) /\ NewMessageRenderer(ts)

(* A node that prints something when no field is blank.                    *)
Shows(n) == n.k = "text" => ~n.text.blank

(* A node that prints one line when no field but the default body has      *)
(* line breaks.                                                            *)
InLine(n) ==
    /\ n.k = "text" => ~n.text.breaks /\ ~n.text.control
    /\ n.k # "dot"
    /\ n.k = "field" => n.name # "DefaultBody"

(* What startup checks of every node.                                      *)
LEMMA AcceptedNodes ==
    ASSUME NEW ts, Accepted(ts), NEW part \in Parts
    PROVE  \A k \in DOMAIN ts[part].nodes :
              Executable(ts[part].nodes[k]) /\ ts[part].nodes[k].k # "failing"
<1> SUFFICES ASSUME NEW k \in DOMAIN ts[part].nodes
             PROVE  Executable(ts[part].nodes[k]) /\ ts[part].nodes[k].k # "failing"
    OBVIOUS
<1> DEFINE n == ts[part].nodes[k]
<1>1. n.k # "failing"
    BY DEF Accepted, NewMessageRenderer, Renders
<1>2. parseMessageTemplate(ts[part])
    BY DEF Accepted, NewMessageRenderer
<1>3. n.k \in {"text", "dot", "failing"} \/ (n.k = "field" /\ n.name \in Fields)
    <2>1. \/ ts[part].nodes[k].k \in {"text", "dot", "failing"}
          \/ ts[part].nodes[k].k = "field" /\ ts[part].nodes[k].name \in allowedMessageTemplateFields
        BY <1>2, Zenon DEF parseMessageTemplate
    <2> QED
        BY ONLY <2>1 DEF Fields
<1>4. n.k = "text" => n.text \in Texts
    <2>1. n.k = "text" => IsText(n.text)
        BY DEF Accepted, IsTemplate
    <2> QED
        BY <2>1 DEF IsText, Texts
<1> QED
    BY <1>1, <1>3, <1>4 DEF Executable

(* What the trial shows of a template for a single line.                   *)
LEMMA TrialLine ==
    ASSUME NEW t, IsTemplate(t), \A k \in DOMAIN t.nodes : Executable(t.nodes[k]), NEW limit,
           validateSingleLine(executeMessageTemplate(t, trialData), limit)
    PROVE  /\ \A k \in DOMAIN t.nodes : InLine(t.nodes[k])
           /\ \E k \in DOMAIN t.nodes : Shows(t.nodes[k])
<1> DEFINE u == executeMessageTemplate(t, trialData)
           text(k) == NodeText(t.nodes[k], trialData)
<1>1. ~u.blank /\ ~u.breaks /\ ~u.control
    BY DEF validateSingleLine
<1>2. /\ \A k \in DOMAIN t.nodes : ~text(k).breaks /\ ~text(k).control
      /\ \E k \in DOMAIN t.nodes : ~text(k).blank
    BY <1>1, TrialText, TemplateText
<1>3. ASSUME NEW k \in DOMAIN t.nodes PROVE InLine(t.nodes[k])
    <2>1. EveryField(trialData).breaks
        <3>1. "DefaultBody" \in Fields
            BY DEF Fields, allowedMessageTemplateFields
        <3> QED
            BY <3>1, TrialText, EveryFieldText
    <2>2. /\ t.nodes[k].k = "text" => text(k) = t.nodes[k].text
          /\ t.nodes[k].k = "field" => t.nodes[k].name \in Fields /\ text(k) = trialData[t.nodes[k].name]
          /\ t.nodes[k].k = "dot" => text(k) = EveryField(trialData)
        BY TrialText, NodeIsText
    <2> QED
        BY <1>2, <2>1, <2>2, TrialText DEF InLine
<1>4. \E k \in DOMAIN t.nodes : Shows(t.nodes[k])
    <2>1. PICK k \in DOMAIN t.nodes : ~text(k).blank
        BY <1>2
    <2>2. t.nodes[k].k = "text" => text(k) = t.nodes[k].text
        BY TrialText, NodeIsText
    <2> QED
        BY <2>1, <2>2 DEF Shows
<1> QED
    BY <1>3, <1>4

(* And of a body.                                                          *)
LEMMA TrialBody ==
    ASSUME NEW t, IsTemplate(t), \A k \in DOMAIN t.nodes : Executable(t.nodes[k]),
           validateBody(executeMessageTemplate(t, BodyData(trialData)))
    PROVE  /\ \A k \in DOMAIN t.nodes : t.nodes[k].k = "text" => ~t.nodes[k].text.control
           /\ \E k \in DOMAIN t.nodes : Shows(t.nodes[k])
<1> DEFINE data == BodyData(trialData)
           u == executeMessageTemplate(t, data)
           text(k) == NodeText(t.nodes[k], data)
<1>1. ~u.blank /\ ~u.control
    BY DEF validateBody
<1>2. IsData(data)
    BY TrialText, BodyDataText
<1> HIDE DEF data
<1>3. /\ \A k \in DOMAIN t.nodes : ~text(k).control
      /\ \E k \in DOMAIN t.nodes : ~text(k).blank
    BY <1>1, <1>2, TemplateText
<1>4. \A k \in DOMAIN t.nodes : t.nodes[k].k = "text" => text(k) = t.nodes[k].text
    BY <1>2, NodeIsText
<1> QED
    BY <1>3, <1>4 DEF Shows

(* Data no check of the renderer can object to but for its length.         *)
GoodData(data) ==
    /\ IsData(data)
    /\ \A f \in Fields :
          ~data[f].control /\ ~data[f].blank /\ (f # "DefaultBody" => ~data[f].breaks)

(* A title or a commit message that the trial accepts is one line.         *)
LEMMA LineRenders ==
    ASSUME NEW t, IsTemplate(t), \A k \in DOMAIN t.nodes : Executable(t.nodes[k]),
           NEW limit, validateSingleLine(executeMessageTemplate(t, trialData), limit),
           NEW data, GoodData(data), executeMessageTemplate(t, data).runes <= limit
    PROVE  validateSingleLine(executeMessageTemplate(t, data), limit)
<1> DEFINE u == executeMessageTemplate(t, data)
           text(k) == NodeText(t.nodes[k], data)
<1>1. /\ \A k \in DOMAIN t.nodes : InLine(t.nodes[k])
      /\ \E k \in DOMAIN t.nodes : Shows(t.nodes[k])
    BY TrialLine
<1>2. IsData(data)
    BY DEF GoodData
<1>3. /\ (u.breaks <=> \E k \in DOMAIN t.nodes : text(k).breaks)
      /\ (u.control <=> \E k \in DOMAIN t.nodes : text(k).control)
      /\ (u.blank <=> \A k \in DOMAIN t.nodes : text(k).blank)
    BY <1>2, TemplateText
<1>4. ASSUME NEW k \in DOMAIN t.nodes
      PROVE  ~text(k).breaks /\ ~text(k).control /\ (Shows(t.nodes[k]) => ~text(k).blank)
    <2>1. /\ t.nodes[k].k = "text" => text(k) = t.nodes[k].text
          /\ t.nodes[k].k = "field" => t.nodes[k].name \in Fields /\ text(k) = data[t.nodes[k].name]
        BY <1>2, NodeIsText
    <2>2. t.nodes[k].k \in {"text", "field"} /\ InLine(t.nodes[k])
        BY <1>1 DEF Executable, InLine
    <2> QED
        BY <2>1, <2>2 DEF GoodData, InLine, Shows
<1> QED
    BY <1>1, <1>3, <1>4 DEF validateSingleLine

(* So is a body that the trial accepts, in several lines.                  *)
LEMMA BodyRenders ==
    ASSUME NEW t, IsTemplate(t), \A k \in DOMAIN t.nodes : Executable(t.nodes[k]),
           validateBody(executeMessageTemplate(t, BodyData(trialData))),
           NEW raw, GoodData(raw),
           executeMessageTemplate(t, BodyData(raw)).runes <= maxPullRequestBodyRunes
    PROVE  validateBody(executeMessageTemplate(t, BodyData(raw)))
<1> DEFINE data == BodyData(raw)
           u == executeMessageTemplate(t, data)
           text(k) == NodeText(t.nodes[k], data)
<1>1. /\ \A k \in DOMAIN t.nodes : t.nodes[k].k = "text" => ~t.nodes[k].text.control
      /\ \E k \in DOMAIN t.nodes : Shows(t.nodes[k])
    BY TrialBody
<1>2. IsData(data) /\ \A f \in Fields : ~data[f].control /\ ~data[f].blank
    BY BodyDataText DEF GoodData
<1> HIDE DEF data
<1>3. /\ (u.control <=> \E k \in DOMAIN t.nodes : text(k).control)
      /\ (u.blank <=> \A k \in DOMAIN t.nodes : text(k).blank)
    BY <1>2, TemplateText
<1>4. ASSUME NEW k \in DOMAIN t.nodes
      PROVE  ~text(k).control /\ (Shows(t.nodes[k]) => ~text(k).blank)
    <2>1. /\ t.nodes[k].k = "text" => text(k) = t.nodes[k].text
          /\ t.nodes[k].k = "field" => t.nodes[k].name \in Fields /\ text(k) = data[t.nodes[k].name]
          /\ t.nodes[k].k = "dot" => text(k) = EveryField(data)
        BY <1>2, NodeIsText
    <2>2. t.nodes[k].k \in {"text", "field", "dot"}
        BY DEF Executable
    <2>3. ~EveryField(data).control /\ ~EveryField(data).blank
        BY <1>2, EveryFieldText
    <2> QED
        BY <1>1, <1>2, <2>1, <2>2, <2>3 DEF Shows
<1>5. u.runes <= maxPullRequestBodyRunes
    BY DEF data
<1> QED
    BY <1>1, <1>3, <1>4, <1>5 DEF validateBody, data

(* Templates that startup accepts render all good data that fits.          *)
LEMMA AcceptedRenders ==
    ASSUME NEW ts, Accepted(ts), NEW data, GoodData(data),
           executeMessageTemplate(ts.title, data).runes <= maxPullRequestTitleRunes,
           executeMessageTemplate(ts.commit, data).runes <= maxCommitMessageRunes,
           executeMessageTemplate(ts.body, BodyData(data)).runes <= maxPullRequestBodyRunes
    PROVE  Renders(ts, data)
<1>1. \A part \in Parts : \A k \in DOMAIN ts[part].nodes :
        Executable(ts[part].nodes[k]) /\ ts[part].nodes[k].k # "failing"
    BY AcceptedNodes
<1>2. IsTemplate(ts.title) /\ IsTemplate(ts.commit) /\ IsTemplate(ts.body) /\ DOMAIN ts = Parts
    BY DEF Accepted, Parts
<1>3. /\ validateSingleLine(executeMessageTemplate(ts.title, trialData), maxPullRequestTitleRunes)
      /\ validateSingleLine(executeMessageTemplate(ts.commit, trialData), maxCommitMessageRunes)
      /\ validateBody(executeMessageTemplate(ts.body, BodyData(trialData)))
    BY DEF Accepted, NewMessageRenderer, Renders
<1>4. /\ \A k \in DOMAIN ts.title.nodes : Executable(ts.title.nodes[k])
      /\ \A k \in DOMAIN ts.commit.nodes : Executable(ts.commit.nodes[k])
      /\ \A k \in DOMAIN ts.body.nodes : Executable(ts.body.nodes[k])
    BY <1>1 DEF Parts
<1>5. validateSingleLine(executeMessageTemplate(ts.title, data), maxPullRequestTitleRunes)
    BY <1>2, <1>3, <1>4, LineRenders
<1>6. validateSingleLine(executeMessageTemplate(ts.commit, data), maxCommitMessageRunes)
    BY <1>2, <1>3, <1>4, LineRenders
<1>7. validateBody(executeMessageTemplate(ts.body, BodyData(data)))
    BY <1>2, <1>3, <1>4, BodyRenders
<1> QED
    BY <1>1, <1>2, <1>5, <1>6, <1>7 DEF Renders

(* Data that differ in the default body only.                              *)
SameButBody(data, none) ==
    /\ IsData(data) /\ IsData(none)
    /\ \A f \in Fields \ {"DefaultBody"} : data[f] = none[f]
    /\ ~data["DefaultBody"].control /\ ~data["DefaultBody"].blank
    /\ data["DefaultBody"].runes <= none["DefaultBody"].runes + LabelRunes

(* A title or a commit message does not show the default body.             *)
LEMMA LineSame ==
    ASSUME NEW t, \A k \in DOMAIN t.nodes : Executable(t.nodes[k]) /\ InLine(t.nodes[k]),
           NEW data, NEW none, SameButBody(data, none)
    PROVE  executeMessageTemplate(t, data) = executeMessageTemplate(t, none)
<1>1. ASSUME NEW k \in DOMAIN t.nodes PROVE NodeText(t.nodes[k], data) = NodeText(t.nodes[k], none)
    <2>1. IsData(data) /\ IsData(none)
        BY DEF SameButBody
    <2>2. /\ t.nodes[k].k = "text" => NodeText(t.nodes[k], data) = t.nodes[k].text
          /\ t.nodes[k].k = "field" => t.nodes[k].name \in Fields
                                         /\ NodeText(t.nodes[k], data) = data[t.nodes[k].name]
        BY <2>1, NodeIsText
    <2>3. /\ t.nodes[k].k = "text" => NodeText(t.nodes[k], none) = t.nodes[k].text
          /\ t.nodes[k].k = "field" => NodeText(t.nodes[k], none) = none[t.nodes[k].name]
        BY <2>1, NodeIsText
    <2>4. t.nodes[k].k \in {"text", "field"} /\ InLine(t.nodes[k])
        BY DEF Executable, InLine
    <2> QED
        BY <2>2, <2>3, <2>4 DEF InLine, SameButBody
<1>2. [k \in DOMAIN t.nodes |-> NodeText(t.nodes[k], data)]
        = [k \in DOMAIN t.nodes |-> NodeText(t.nodes[k], none)]
    BY <1>1
<1> QED
    BY <1>2, Zenon DEF executeMessageTemplate

(* Escaping keeps such data alike.                                         *)
LEMMA EscapedSame ==
    ASSUME NEW data, NEW none, SameButBody(data, none)
    PROVE  SameButBody(BodyData(data), BodyData(none))
<1>1. IsData(data) /\ IsData(none)
    BY DEF SameButBody
<1>2. /\ IsData(BodyData(data)) /\ BodyData(data)["DefaultBody"] = data["DefaultBody"]
      /\ IsData(BodyData(none)) /\ BodyData(none)["DefaultBody"] = none["DefaultBody"]
    BY <1>1, BodyDataText
<1>3. \A f \in Fields \ {"DefaultBody"} : BodyData(data)[f] = BodyData(none)[f]
    BY <1>1 DEF BodyData, SameButBody, IsData
<1> QED
    BY <1>2, <1>3 DEF SameButBody

(* A node of a body that shows the default body.                           *)
Using(t) ==
    {k \in DOMAIN t.nodes :
        t.nodes[k].k = "dot" \/ (t.nodes[k].k = "field" /\ t.nodes[k].name = "DefaultBody")}

(* What the labels do to one node of a body: it stays printable, is not    *)
(* emptied, and only one that shows the default body gets longer.          *)
LEMMA NodeGrows ==
    ASSUME NEW t, NEW k \in DOMAIN t.nodes, Executable(t.nodes[k]),
           NEW data, NEW none, SameButBody(data, none)
    PROVE  LET u == NodeText(t.nodes[k], data)
               v == NodeText(t.nodes[k], none)
           IN  /\ ~v.control => ~u.control
               /\ ~v.blank => ~u.blank
               /\ u.runes <= v.runes + (IF k \in Using(t) THEN LabelRunes ELSE 0)
<1> DEFINE n == t.nodes[k]
           u == NodeText(n, data)
           v == NodeText(n, none)
<1>1. IsData(data) /\ IsData(none)
    BY DEF SameButBody
<1>2. /\ u \in Texts /\ v \in Texts
      /\ n.k = "text"  => u = n.text
      /\ n.k = "field" => n.name \in Fields /\ u = data[n.name]
      /\ n.k = "dot"   => u = EveryField(data)
    BY <1>1, NodeIsText
<1>3. /\ n.k = "text"  => v = n.text
      /\ n.k = "field" => v = none[n.name]
      /\ n.k = "dot"   => v = EveryField(none)
    BY <1>1, NodeIsText
<1>4. u.runes \in Int /\ v.runes \in Int
    BY <1>2, TextFields
<1>5. k \in Using(t) <=> n.k = "dot" \/ (n.k = "field" /\ n.name = "DefaultBody")
    BY DEF Using
<1>6. n.k \in {"text", "field", "dot"}
    BY DEF Executable
<1> HIDE DEF u, v, n
<1>7. CASE n.k = "dot"
    <2> DEFINE a == data["DefaultBody"]
               b == none["DefaultBody"]
               rest == 7 + data["Environment"].runes + data["ImageName"].runes
                    + data["ImageRepository"].runes + data["Image"].runes + data["ImageTag"].runes
    <2>1. \A f \in {"Environment", "ImageName", "ImageRepository", "Image", "ImageTag"} :
            f \in Fields /\ data[f] = none[f] /\ data[f] \in Texts /\ data[f].runes \in Int
        BY <1>1, TextFields DEF SameButBody, IsData, Fields, allowedMessageTemplateFields
    <2>2. "DefaultBody" \in Fields
        BY DEF Fields, allowedMessageTemplateFields
    <2>3. a \in Texts /\ b \in Texts /\ a.runes \in Int /\ b.runes \in Int
        BY <1>1, <2>2, TextFields DEF IsData
    <2>4. /\ ~u.blank /\ (u.control <=> \E f \in Fields : data[f].control)
          /\ u.runes = rest + a.runes
        BY <1>1, <1>2, <1>7, EveryFieldText
    <2>5. /\ (v.control <=> \E f \in Fields : none[f].control)
          /\ v.runes = rest + b.runes
        BY <1>1, <1>3, <1>7, <2>1, EveryFieldText
    <2>6. rest \in Int
        BY <2>1
    <2> HIDE DEF rest
    <2>7. u.runes <= v.runes + LabelRunes
        <3>1. a.runes <= b.runes + LabelRunes
            BY DEF SameButBody
        <3> QED
            BY ONLY <3>1, <2>3, <2>4, <2>5, <2>6 DEF LabelRunes
    <2>8. ~v.control => ~u.control
        BY <2>4, <2>5 DEF SameButBody
    <2> QED
        BY <1>5, <1>7, <2>4, <2>7, <2>8 DEF u, v, n
<1>8. CASE n.k = "field" /\ n.name = "DefaultBody"
    <2>1. u = data["DefaultBody"] /\ v = none["DefaultBody"]
        BY <1>2, <1>3, <1>8
    <2> QED
        BY <1>5, <1>8, <2>1 DEF SameButBody, u, v, n
<1>9. CASE n.k = "text" \/ (n.k = "field" /\ n.name # "DefaultBody")
    <2>1. u = v
        BY <1>2, <1>3, <1>9 DEF SameButBody
    <2>2. k \notin Using(t)
        BY <1>5, <1>9
    <2>3. u.runes <= v.runes + 0
        BY <1>4, <2>1
    <2> QED
        BY <2>1, <2>2, <2>3 DEF u, v, n
<1> QED
    BY <1>6, <1>7, <1>8, <1>9

(* What labels add to a body that shows the default body twice leaves it   *)
(* within its limit.                                                       *)
LEMMA BodyStays ==
    ASSUME NEW t, IsTemplate(t), \A k \in DOMAIN t.nodes : Executable(t.nodes[k]), Uses(t) <= 2,
           NEW data, NEW none, SameButBody(data, none),
           validateBody(executeMessageTemplate(t, none)),
           executeMessageTemplate(t, none).runes <= maxUnlabelledRunes
    PROVE  validateBody(executeMessageTemplate(t, data))
<1> DEFINE D == DOMAIN t.nodes
           U == Using(t)
           a(k) == NodeText(t.nodes[k], data)
           b(k) == NodeText(t.nodes[k], none)
           w == [k \in D |-> a(k).runes]
           v == [k \in D |-> b(k).runes]
           x == executeMessageTemplate(t, data)
           y == executeMessageTemplate(t, none)
<1>1. IsData(data) /\ IsData(none)
    BY DEF SameButBody
<1>2. /\ IsFiniteSet(D) /\ x \in Texts /\ x.runes = SumFunction(w) /\ \A k \in D : a(k) \in Texts
      /\ (x.control <=> \E k \in D : a(k).control)
      /\ (x.blank <=> \A k \in D : a(k).blank)
    BY <1>1, TemplateText
<1>3. /\ y \in Texts /\ y.runes = SumFunction(v) /\ \A k \in D : b(k) \in Texts
      /\ (y.control <=> \E k \in D : b(k).control)
      /\ (y.blank <=> \A k \in D : b(k).blank)
    BY <1>1, TemplateText
<1>4. \A k \in D : /\ ~b(k).control => ~a(k).control
                   /\ ~b(k).blank => ~a(k).blank
                   /\ a(k).runes <= b(k).runes + (IF k \in U THEN LabelRunes ELSE 0)
    BY NodeGrows
<1>5. U \in SUBSET D /\ Uses(t) = Cardinality(U)
    BY DEF Using, Uses
<1>6. ~y.blank /\ ~y.control /\ y.runes <= 22000 /\ y.runes \in Int /\ x.runes \in Int
    BY <1>2, <1>3, TextFields DEF validateBody, maxUnlabelledRunes
<1> HIDE DEF D, U, a, b, x, y
<1>7. w \in [D -> Int] /\ v \in [D -> Int] /\ \A k \in D : w[k] <= v[k] + (IF k \in U THEN LabelRunes ELSE 0)
    BY <1>2, <1>3, <1>4, TextFields
<1> HIDE DEF w, v
<1>8. SumFunction(w) <= SumFunction(v) + LabelRunes * Cardinality(U)
    BY <1>2, <1>5, <1>7, SumGrows
<1>9. Cardinality(U) \in Nat /\ Cardinality(U) <= 2
    BY <1>2, <1>5, FS_Subset, FS_CardinalityType
<1>10. x.runes <= 65536
    <2> DEFINE c == Cardinality(U)
               s == SumFunction(v)
    <2>1. c \in {0, 1, 2} /\ s \in Int /\ s <= 22000 /\ x.runes <= s + LabelRunes * c
        BY <1>2, <1>3, <1>6, <1>8, <1>9
    <2> HIDE DEF c, s
    <2> QED
        BY ONLY <2>1, <1>6 DEF LabelRunes
<1>11. ~x.blank /\ ~x.control
    BY <1>2, <1>3, <1>4, <1>6
<1> QED
    BY <1>10, <1>11 DEF x, validateBody, maxPullRequestBodyRunes

(* Labels stop no update that the image without them would have got.       *)
LEMMA LabelledRenders ==
    ASSUME NEW ts, Accepted(ts), NEW data, NEW none, SameButBody(data, none),
           Uses(ts.body) <= 2,
           executeMessageTemplate(ts.body, BodyData(none)).runes <= maxUnlabelledRunes,
           Renders(ts, none)
    PROVE  Renders(ts, data)
<1>1. \A part \in Parts : \A k \in DOMAIN ts[part].nodes :
        Executable(ts[part].nodes[k]) /\ ts[part].nodes[k].k # "failing"
    BY AcceptedNodes
<1>2. IsTemplate(ts.title) /\ IsTemplate(ts.commit) /\ IsTemplate(ts.body) /\ DOMAIN ts = Parts
    BY DEF Accepted, Parts
<1>3. /\ validateSingleLine(executeMessageTemplate(ts.title, trialData), maxPullRequestTitleRunes)
      /\ validateSingleLine(executeMessageTemplate(ts.commit, trialData), maxCommitMessageRunes)
    BY DEF Accepted, NewMessageRenderer, Renders
<1>4. /\ validateSingleLine(executeMessageTemplate(ts.title, none), maxPullRequestTitleRunes)
      /\ validateSingleLine(executeMessageTemplate(ts.commit, none), maxCommitMessageRunes)
      /\ validateBody(executeMessageTemplate(ts.body, BodyData(none)))
    BY DEF Renders
<1>5. /\ \A k \in DOMAIN ts.title.nodes : Executable(ts.title.nodes[k])
      /\ \A k \in DOMAIN ts.commit.nodes : Executable(ts.commit.nodes[k])
      /\ \A k \in DOMAIN ts.body.nodes : Executable(ts.body.nodes[k])
    BY <1>1 DEF Parts
<1>6. /\ \A k \in DOMAIN ts.title.nodes : InLine(ts.title.nodes[k])
      /\ \A k \in DOMAIN ts.commit.nodes : InLine(ts.commit.nodes[k])
    BY <1>2, <1>3, <1>5, TrialLine
<1>7. /\ executeMessageTemplate(ts.title, data) = executeMessageTemplate(ts.title, none)
      /\ executeMessageTemplate(ts.commit, data) = executeMessageTemplate(ts.commit, none)
    BY <1>5, <1>6, LineSame
<1>8. validateBody(executeMessageTemplate(ts.body, BodyData(data)))
    <2>1. SameButBody(BodyData(data), BodyData(none))
        BY EscapedSame
    <2> QED
        BY <1>2, <1>4, <1>5, <2>1, BodyStays
<1> QED
    BY <1>1, <1>2, <1>4, <1>7, <1>8 DEF Renders

-----------------------------------------------------------------------------
(* The data of an event *)

(* Texts that are joined by characters between them.                       *)
LEMMA JoinedText ==
    ASSUME NEW n \in Int, NEW ts, IsFiniteSet(DOMAIN ts), \A k \in DOMAIN ts : ts[k] \in Texts
    PROVE  LET u == Joined(n, JoinAll(ts))
           IN  /\ u \in Texts
               /\ (u.breaks <=> \E k \in DOMAIN ts : ts[k].breaks)
               /\ (u.control <=> \E k \in DOMAIN ts : ts[k].control)
               /\ (u.blank <=> n = 1 /\ \A k \in DOMAIN ts : ts[k].blank)
<1> DEFINE a == Text(n - 1, 0)
           b == JoinAll(ts)
           c == a ++ b
<1>1. a \in Texts /\ ~a.breaks /\ ~a.control /\ (a.blank <=> n = 1)
    <2> DEFINE m == n - 1
    <2>1. m \in Int /\ (m = 0 <=> n = 1)
        OBVIOUS
    <2> HIDE DEF m
    <2>2. Text(m, 0) \in Texts /\ ~Text(m, 0).breaks /\ ~Text(m, 0).control /\ (Text(m, 0).blank <=> m = 0)
        BY <2>1, PlainText
    <2> QED
        BY <2>1, <2>2 DEF m
<1>2. /\ b \in Texts
      /\ (b.breaks <=> \E k \in DOMAIN ts : ts[k].breaks)
      /\ (b.control <=> \E k \in DOMAIN ts : ts[k].control)
      /\ (b.blank <=> \A k \in DOMAIN ts : ts[k].blank)
    BY JoinAllText
<1>3. Joined(n, JoinAll(ts)) = c
    BY DEF Joined
<1> HIDE DEF a, b
<1>4. /\ c \in Texts /\ (c.breaks <=> a.breaks \/ b.breaks) /\ (c.control <=> a.control \/ b.control)
      /\ (c.blank <=> a.blank /\ b.blank)
    BY <1>1, <1>2, JoinText
<1> HIDE DEF c
<1> QED
    BY <1>1, <1>2, <1>3, <1>4

(* A text by the name it is the text of.                                   *)
Named(s) == OneLine(Chars[s]) /\ (Chars[s].blank <=> s = NoName)

(* A path of printable names is printable and not blank.                   *)
LEMMA PathText ==
    ASSUME NEW p \in Seq(STRING), p # <<>>, p # <<NoName>>, \A k \in DOMAIN p : Named(p[k])
    PROVE  Path(p) \in Printable /\ ~Path(p).blank
<1> DEFINE ts == [k \in DOMAIN p |-> Chars[p[k]]]
<1>1. Len(p) \in Nat /\ DOMAIN p = 1 .. Len(p)
    OBVIOUS
<1>2. IsFiniteSet(DOMAIN p)
    BY <1>1, FS_Interval
<1>3. DOMAIN ts = DOMAIN p /\ \A k \in DOMAIN p : ts[k] = Chars[p[k]]
    OBVIOUS
<1>4. \A k \in DOMAIN p : Chars[p[k]] \in Texts /\ ~Chars[p[k]].breaks /\ ~Chars[p[k]].control
                            /\ (Chars[p[k]].blank <=> p[k] = NoName)
    BY DEF Named, OneLine, IsText, Texts
<1>5. Path(p) = Joined(Len(p), JoinAll(ts))
    BY DEF Path
<1> HIDE DEF ts
<1>6. /\ Path(p) \in Texts
      /\ (Path(p).breaks <=> \E k \in DOMAIN ts : ts[k].breaks)
      /\ (Path(p).control <=> \E k \in DOMAIN ts : ts[k].control)
      /\ (Path(p).blank <=> Len(p) = 1 /\ \A k \in DOMAIN ts : ts[k].blank)
    BY <1>1, <1>2, <1>3, <1>4, <1>5, JoinedText
<1>7. ~Path(p).blank
    <2> SUFFICES ASSUME Len(p) = 1, \A k \in DOMAIN p : p[k] = NoName PROVE FALSE
        BY <1>3, <1>4, <1>6
    <2>1. p = <<NoName>>
        BY <1>1
    <2> QED
        BY <2>1
<1> QED
    BY <1>3, <1>4, <1>6, <1>7 DEF Printable

(* The fields of an event that Decode lets through.                        *)
LEMMA EventText ==
    ASSUME event \in EventPool, event.host # NoName, event.repository # <<>>, event.tag # <<>>
    PROVE  \A t \in {Path(imageName(event.repository)), Path(event.repository),
                     Chars[event.host] ++ Text(1, 0) ++ Path(event.repository), Path(event.tag)} :
              t \in Printable /\ ~t.blank
<1> DEFINE r == event.repository
           h == Chars[event.host]
           one == Text(1, 0)
           p == Path(r)
           a == h ++ one
<1>1. /\ r \in Seq(STRING) /\ event.tag \in Seq(STRING) /\ event.tag # <<NoName>>
      /\ Named(event.host) /\ \A s \in Range(r) \cup Range(event.tag) : Named(s)
      /\ NoName \notin Range(r)
    BY ProposalConstants DEF Named
<1>2. /\ \A k \in DOMAIN r : Named(r[k]) /\ r[k] # NoName
      /\ \A k \in DOMAIN event.tag : Named(event.tag[k])
    BY <1>1 DEF Range
<1>3. Path(event.tag) \in Printable /\ ~Path(event.tag).blank
    BY <1>1, <1>2, PathText
<1>4. p \in Printable /\ ~p.blank
    <2>1. r # <<NoName>>
        BY <1>2
    <2> QED
        BY <1>1, <1>2, <2>1, PathText
<1>5. Path(imageName(r)) \in Printable /\ ~Path(imageName(r)).blank
    <2>1. CASE ~(Len(r) > 1)
        BY <1>4, <2>1 DEF imageName
    <2>2. CASE Len(r) > 1
        <3> DEFINE q == Tail(r)
        <3>1. q \in Seq(STRING) /\ q # <<>> /\ Len(q) = Len(r) - 1 /\ \A k \in 1 .. Len(q) : q[k] = r[k + 1]
            <4>1. r \in Seq(STRING) /\ r # <<>> /\ Len(r) \in Nat
                BY <1>1
            <4> HIDE DEF r
            <4>2. q \in Seq(STRING) /\ Len(q) = Len(r) - 1 /\ \A k \in 1 .. Len(q) : q[k] = r[k + 1]
                BY <4>1, HeadTailProperties
            <4> HIDE DEF q
            <4>3. q # <<>>
                BY <2>2, <4>1, <4>2
            <4> QED
                BY <4>2, <4>3, Zenon
        <3>2. DOMAIN q = 1 .. Len(q) /\ Len(q) \in Nat /\ DOMAIN r = 1 .. Len(r) /\ Len(r) \in Nat
            BY <1>1, <3>1
        <3>3. imageName(r) = q
            BY <2>2 DEF imageName
        <3> HIDE DEF q
        <3>4. \A k \in DOMAIN q : q[k] = r[k + 1] /\ k + 1 \in DOMAIN r
            BY <3>1, <3>2
        <3>5. \A k \in DOMAIN q : Named(q[k]) /\ q[k] # NoName
            BY <1>2, <3>4
        <3>6. q # <<NoName>>
            BY <3>5
        <3> QED
            BY <3>1, <3>3, <3>5, <3>6, PathText
    <2> QED
        BY <2>1, <2>2
<1>6. h \in Texts /\ ~h.breaks /\ ~h.control /\ ~h.blank
    BY <1>1 DEF Named, OneLine, IsText, Texts
<1>7. one \in Texts /\ ~one.breaks /\ ~one.control
    BY PlainText
<1>8. p \in Texts /\ ~p.breaks /\ ~p.control
    BY <1>4 DEF Printable
<1> HIDE DEF h, one, p
<1>9. a \in Texts /\ ~a.breaks /\ ~a.control /\ ~a.blank
    BY <1>6, <1>7, JoinText
<1> HIDE DEF a
<1>10. a ++ p \in Printable /\ ~(a ++ p).blank
    BY <1>8, <1>9, JoinText DEF Printable
<1> QED
    BY <1>3, <1>4, <1>5, <1>10 DEF a, h, one, p

(* The environments of a planned repository.                               *)
LEMMA EnvironmentText ==
    ASSUME rules \in Seq(RulePool), \A k \in DOMAIN rules : toModel(rules[k]),
           NEW q, q.targets \subseteq Destinations(event)
    PROVE  Environment(q) \in Texts /\ ~Environment(q).blank
<1> DEFINE envs == {t.env : t \in q.targets}
           D == DOMAIN rules
           T == {rules[k].env : k \in D}
           f == [k \in D |-> rules[k].env]
           ts == [x \in envs |-> Chars[x]]
<1>1. Len(rules) \in Nat /\ D = 1 .. Len(rules) /\ \A k \in D : rules[k] \in RulePool
    OBVIOUS
<1>2. IsFiniteSet(T)
    <2>1. IsFiniteSet(D)
        BY <1>1, FS_Interval
    <2>2. f \in Surjection(D, T)
        BY DEF Surjection
    <2> QED
        BY <2>1, <2>2, FS_Surjection
<1>3. ASSUME NEW x \in envs PROVE x \in T
    <2>1. PICK t \in q.targets : x = t.env
        OBVIOUS
    <2>2. PICK k \in Applied(event) : t = Target(rules[k], event)
        BY <2>1 DEF Destinations
    <2>3. k \in D
        BY DEF Applied, Best
    <2>4. t.env = rules[k].env
        BY <2>2 DEF Target, TargetWith
    <2> QED
        BY <2>1, <2>3, <2>4
<1>4. IsFiniteSet(envs) /\ Cardinality(envs) \in Nat
    <2>1. envs \in SUBSET T
        BY <1>3
    <2> QED
        BY <1>2, <2>1, FS_Subset, FS_CardinalityType
<1>5. ASSUME NEW x \in envs PROVE Chars[x] \in Texts /\ ~Chars[x].blank
    <2>1. PICK k \in D : x = rules[k].env
        BY <1>3
    <2>2. rules[k].env # NoName
        BY DEF toModel
    <2>3. IsText(Chars[x]) /\ (Chars[x].blank => x = NoName)
        BY <1>1, <2>1, ProposalConstants
    <2> QED
        BY <2>1, <2>2, <2>3 DEF IsText, Texts
<1>6. Environment(q) = Joined(Cardinality(envs), JoinAll(ts))
    BY DEF Environment
<1>7. DOMAIN ts = envs /\ \A x \in envs : ts[x] = Chars[x]
    OBVIOUS
<1> HIDE DEF envs, ts
<1>8. /\ Environment(q) \in Texts
      /\ (Environment(q).blank <=> Cardinality(envs) = 1 /\ \A x \in DOMAIN ts : ts[x].blank)
    BY <1>4, <1>5, <1>6, <1>7, JoinedText
<1>9. ~Environment(q).blank
    <2> SUFFICES ASSUME Cardinality(envs) = 1, \A x \in envs : Chars[x].blank PROVE FALSE
        BY <1>7, <1>8
    <2>1. PICK x : envs = {x}
        BY <1>4, FS_Singleton
    <2> QED
        BY <1>5, <2>1
<1> QED
    BY <1>8, <1>9

-----------------------------------------------------------------------------
(* What startup and Decode let through *)

ReadyEvent == event.host # NoName /\ event.repository # <<>> /\ event.tag # <<>>

(* The state in which repository j is rendered.                            *)
Rendering ==
    /\ ParseFile /\ NewMessageRenderer(templates) /\ ReadyEvent
    /\ Planned

(* What the process knows after each step, and why an event ended.         *)
ProposalInv ==
    /\ setup \in Setups /\ j \in Nat \ {0}
    /\ step # "end" => outcome = "none"
    /\ step \in {"templates", "decode", "plan", "render"} => ParseFile
    /\ step \in {"decode", "plan", "render"} => NewMessageRenderer(templates)
    /\ step \in {"plan", "render"} => ReadyEvent
    /\ step = "render" => Rendering
    /\ outcome = "unrendered" =>
          /\ Rendering /\ j <= Len(repositories)
          /\ ~Renders(templates, DataOf(repositories[j], NewImageLabels(setup.labels)))
    /\ outcome = "unplanned" => ParseFile

(* A plan that fails for a rule found a rule that cannot send the event    *)
(* anywhere, or two rules that disagree about one directory.               *)
IncompleteInv ==
    err = "ErrIncompleteRule" =>
        \/ \E k \in Applied(event) : ~Complete(rules[k], event)
        \/ \E t, u \in Destinations(event) :
              /\ manifestRepositoryKey(t) = manifestRepositoryKey(u) /\ t.dir = u.dir
              /\ t.env # u.env \/ t.block # u.block

(* Every step of plan keeps that.                                          *)
LEMMA NextIncomplete == PlanInv /\ IncompleteInv /\ [Next]_vars => IncompleteInv'
<1> SUFFICES ASSUME PlanInv, IncompleteInv, [Next]_vars PROVE IncompleteInv'
    OBVIOUS
<1>1. rules' = rules /\ annotateFromLabels' = annotateFromLabels /\ event' = event
    BY DEF Next, vars, MatchRule, MatchesReturn, PlanRule, PlanRuleBody, MatchedEnd,
           NormalizeRepository, PlanReturn
<1>2. /\ Applied(event)' = Applied(event) /\ Destinations(event)' = Destinations(event)
    BY <1>1 DEF Applied, Best, Destinations, Target
<1> DEFINE wrong == \/ \E k \in Applied(event) : ~Complete(rules[k], event)
                    \/ \E t, u \in Destinations(event) :
                          /\ manifestRepositoryKey(t) = manifestRepositoryKey(u) /\ t.dir = u.dir
                          /\ t.env # u.env \/ t.block # u.block
<1>3. IncompleteInv' <=> (err' = "ErrIncompleteRule" => wrong)
    BY <1>1, <1>2 DEF IncompleteInv
<1>4. IncompleteInv <=> (err = "ErrIncompleteRule" => wrong)
    BY DEF IncompleteInv
<1>5. ASSUME PlanRule, err' = "ErrIncompleteRule" PROVE wrong
    <2> DEFINE k == matches[i]
    <2>1. /\ MatchInv /\ pc = "plan" /\ i <= Len(matches) /\ i \in 1 .. Len(matches) + 1 /\ err = "none"
          /\ matches \in Seq(Nat)
        BY <1>5 DEF PlanRule, PlanRuleBody, PlanInv, MatchInv
    <2>2. ValidateTag(rules[k], event) /\ ~Complete(rules[k], event)
        BY <1>5, <2>1 DEF PlanRule, PlanRuleBody
    <2>3. i \in DOMAIN matches
        BY <2>1
    <2>4. k \in Best(event)
        BY <2>1, <2>3, FoundIsBest
    <2> QED
        BY <2>2, <2>4 DEF Applied
<1>6. ASSUME NormalizeRepository, err' = "ErrIncompleteRule" PROVE wrong
    <2> DEFINE q == repositories[i]
    <2>1. /\ repositories \in Seq(Records) /\ i \in 1 .. Len(repositories) /\ err = "none"
          /\ Normalizing(repositories, i, Destinations(event))
        BY <1>6 DEF NormalizeRepository, PlanInv
    <2>2. Conflicting(q.targets)
        BY <1>6, <2>1 DEF NormalizeRepository, Fail
    <2>3. Lists(q, Destinations(event))
        BY <2>1 DEF Normalizing
    <2> HIDE DEF q
    <2>4. PICK a, b \in DOMAIN q.targets :
             /\ q.targets[a].dir = q.targets[b].dir
             /\ q.targets[a].env # q.targets[b].env \/ q.targets[a].block # q.targets[b].block
        BY <2>2 DEF Conflicting
    <2>5. /\ q.targets[a] \in Destinations(event) /\ manifestRepositoryKey(q.targets[a]) = q.key
          /\ q.targets[b] \in Destinations(event) /\ manifestRepositoryKey(q.targets[b]) = q.key
        BY <2>3 DEF Lists
    <2> QED
        BY <2>4, <2>5
<1>7. ASSUME MatchRule \/ MatchesReturn \/ MatchedEnd \/ PlanReturn \/ UNCHANGED vars
      PROVE  err' = err \/ err' # "ErrIncompleteRule"
    BY <1>7 DEF MatchRule, MatchesReturn, MatchedEnd, PlanReturn, Fail, vars
<1> HIDE DEF wrong
<1> QED
    BY <1>3, <1>4, <1>5, <1>6, <1>7 DEF Next

(* A branch that git refuses has the names of the event to blame, or an    *)
(* environment that is the only one of its repository.                     *)
RefusedInv ==
    err = "branch" =>
        \/ BadEvent(event)
        \/ \E t \in Destinations(event) :
              /\ t.env \in BadNames
              /\ \A u \in Destinations(event) :
                    manifestRepositoryKey(u) = manifestRepositoryKey(t) => u.env = t.env

(* Every step of plan keeps that.                                          *)
LEMMA NextRefused == PlanInv /\ RefusedInv /\ [Next]_vars => RefusedInv'
<1> SUFFICES ASSUME PlanInv, RefusedInv, [Next]_vars PROVE RefusedInv'
    OBVIOUS
<1>1. rules' = rules /\ annotateFromLabels' = annotateFromLabels /\ event' = event
    BY DEF Next, vars, MatchRule, MatchesReturn, PlanRule, PlanRuleBody, MatchedEnd,
           NormalizeRepository, PlanReturn
<1>2. Destinations(event)' = Destinations(event)
    BY <1>1 DEF Applied, Best, Destinations, Target
<1> DEFINE ts == Destinations(event)
           wrong == \/ BadEvent(event)
                    \/ \E t \in ts : /\ t.env \in BadNames
                                     /\ \A u \in ts : manifestRepositoryKey(u) = manifestRepositoryKey(t)
                                                        => u.env = t.env
<1>3. RefusedInv' <=> (err' = "branch" => wrong)
    BY <1>1, <1>2 DEF RefusedInv
<1>4. RefusedInv <=> (err = "branch" => wrong)
    BY DEF RefusedInv
<1>5. ASSUME NormalizeRepository, err' = "branch" PROVE wrong
    <2> DEFINE q == repositories[i]
               merged == Normalized(q.targets)
    <2>1. /\ repositories \in Seq(Records) /\ i \in 1 .. Len(repositories) /\ err = "none"
          /\ Normalizing(repositories, i, ts)
        BY <1>5 DEF NormalizeRepository, PlanInv
    <2>2. ~Conflicting(q.targets) /\ BadBranch(event, merged)
        BY <1>5, <2>1 DEF NormalizeRepository, Fail
    <2>3. q \in Records /\ Lists(q, ts)
        BY <2>1 DEF Normalizing
    <2>4. /\ merged \subseteq ts /\ \A t \in merged : manifestRepositoryKey(t) = q.key
          /\ \A t \in ts : manifestRepositoryKey(t) = q.key => \E u \in merged : u.env = t.env
        BY <2>2, <2>3, NormalizedMerges
    <2> HIDE DEF q, merged, ts
    <2>5. CASE \E x \in BadNames : {t.env : t \in merged} = {x}
        <3>1. PICK x \in BadNames : {t.env : t \in merged} = {x}
            BY <2>5
        <3>2. PICK t \in merged : t.env = x
            BY <3>1
        <3>3. \A u \in merged : u.env = x
            BY <3>1
        <3>4. \A u \in ts : manifestRepositoryKey(u) = manifestRepositoryKey(t) => u.env = t.env
            BY <2>4, <3>2, <3>3
        <3> QED
            BY <2>4, <3>1, <3>2, <3>4
    <2> QED
        BY <2>2, <2>5 DEF BadBranch
<1>6. ASSUME MatchRule \/ MatchesReturn \/ PlanRule \/ MatchedEnd \/ PlanReturn \/ UNCHANGED vars
      PROVE  err' = err \/ err' # "branch"
    BY <1>6 DEF MatchRule, MatchesReturn, PlanRule, PlanRuleBody, MatchedEnd, PlanReturn, Fail, vars
<1> HIDE DEF wrong
<1> QED
    BY <1>3, <1>4, <1>5, <1>6 DEF Next

(* Two lists, one after the other.                                         *)
LEMMA ConcatHolds ==
    ASSUME NEW s \in Seq(STRING), NEW t \in Seq(STRING)
    PROVE  /\ s \o t \in Seq(STRING)
           /\ \A k \in DOMAIN s : \E m \in DOMAIN (s \o t) : (s \o t)[m] = s[k]
           /\ \A k \in DOMAIN t : \E m \in DOMAIN (s \o t) : (s \o t)[m] = t[k]
<1> DEFINE all == s \o t
<1>1. /\ all \in Seq(STRING) /\ Len(all) = Len(s) + Len(t)
      /\ \A k \in 1 .. Len(s) : all[k] = s[k]
      /\ \A k \in 1 .. Len(t) : all[Len(s) + k] = t[k]
    BY ConcatProperties
<1>2. /\ Len(s) \in Nat /\ Len(t) \in Nat /\ DOMAIN s = 1 .. Len(s) /\ DOMAIN t = 1 .. Len(t)
    OBVIOUS
<1> HIDE DEF all
<1>3. DOMAIN all = 1 .. Len(all)
    BY <1>1
<1>4. ASSUME NEW k \in DOMAIN s PROVE k \in DOMAIN all /\ all[k] = s[k]
    BY <1>1, <1>2, <1>3
<1>5. ASSUME NEW k \in DOMAIN t PROVE Len(s) + k \in DOMAIN all /\ all[Len(s) + k] = t[k]
    BY <1>1, <1>2, <1>3
<1> QED
    BY <1>1, <1>4, <1>5 DEF all

(* A rule without captures that startup accepts is complete for any event. *)
LEMMA PlainComplete ==
    ASSUME NEW r \in RulePool, NEW e, compileRule(r), ~Capturing(r)
    PROVE  Complete(r, e)
<1> DEFINE parts == r.segments \o r.tagPieces \o r.url
<1>1. r.segments \in Seq(STRING) /\ r.tagPieces \in Seq(STRING) /\ r.url \in Seq(STRING)
    BY PlanConstants, ProposalConstants
<1>2. NoName \notin Range(r.url)
    BY ProposalConstants
<1>3. \A k \in DOMAIN parts : ~Variable(parts[k])
    BY DEF Capturing
<1> DEFINE two == r.segments \o r.tagPieces
<1>4. DOMAIN r.segments = 1 .. Len(r.segments) /\ DOMAIN r.tagPieces = 1 .. Len(r.tagPieces)
    BY <1>1
<1>5. /\ two \in Seq(STRING)
      /\ \A k \in DOMAIN r.segments : \E m \in DOMAIN two : two[m] = r.segments[k]
      /\ \A k \in DOMAIN r.tagPieces : \E m \in DOMAIN two : two[m] = r.tagPieces[k]
    BY <1>1, ConcatHolds
<1> HIDE DEF two
<1>6. /\ \A k \in DOMAIN two : \E m \in DOMAIN (two \o r.url) : (two \o r.url)[m] = two[k]
      /\ \A k \in DOMAIN r.url : \E m \in DOMAIN (two \o r.url) : (two \o r.url)[m] = r.url[k]
    BY <1>1, <1>5, ConcatHolds
<1>7. parts = two \o r.url
    BY DEF two
<1> HIDE DEF parts
<1>8. \A k \in DOMAIN two : ~Variable(two[k])
    BY <1>3, <1>6, <1>7
<1>9. \A k \in DOMAIN r.segments : ~Variable(r.segments[k])
    BY <1>5, <1>8
<1>10. \A k \in DOMAIN r.tagPieces : ~Variable(r.tagPieces[k])
    BY <1>5, <1>8
<1>11. \A k \in DOMAIN r.url : ~Variable(r.url[k])
    BY <1>3, <1>6, <1>7
<1>12. ~MissingPiece(r, e)
    BY <1>4, <1>10 DEF MissingPiece
<1>13. Captured(r, e) = {}
    BY <1>4, <1>9, <1>10 DEF Captured, Positions, Variable
<1>14. ~Unresolved(r, e)
    BY <1>11 DEF Unresolved
<1>15. Expanded(r, e) = r.url
    <2> DEFINE full == [k \in DOMAIN r.url |-> IF Variable(r.url[k]) THEN Capture(r, e, r.url[k]) ELSE r.url[k]]
    <2>1. full = [k \in DOMAIN r.url |-> r.url[k]]
        BY <1>11
    <2>2. full = r.url
        BY <1>1, <2>1
    <2>3. \A k \in DOMAIN full : full[k] # NoName
        BY <1>2, <2>2 DEF Range
    <2>4. Expanded(r, e) = full
        BY <2>3 DEF Expanded
    <2> QED
        BY <2>2, <2>4
<1>16. parseManifestURL(r.site, r.url)
    BY DEF compileRule
<1> QED
    BY <1>12, <1>13, <1>14, <1>15, <1>16 DEF Complete

(* The invariant of Proposal holds when the process starts.                *)
LEMMA InitProposal == ProposalInit => ProposalInv
BY DEF ProposalInit, ProposalInv

(* What a step that leaves the inputs alone keeps.                         *)
LEMMA InputsKept ==
    ASSUME rules' = rules, event' = event, setup' = setup
    PROVE  /\ ParseFile' = ParseFile /\ ReadyEvent' = ReadyEvent /\ templates' = templates
           /\ NewMessageRenderer(templates)' = NewMessageRenderer(templates)
<1>1. templates' = templates
    BY DEF templates
<1> QED
    BY <1>1 DEF ParseFile, ReadyEvent

(* Nor does a step that leaves everything else alone change what is        *)
(* rendered.                                                               *)
LEMMA RenderingKept ==
    ASSUME rules' = rules, event' = event, setup' = setup, j' = j, repositories' = repositories,
           pc' = pc, err' = err
    PROVE  /\ Rendering' = Rendering
           /\ Renders(templates, DataOf(repositories[j], NewImageLabels(setup.labels)))'
                = Renders(templates, DataOf(repositories[j], NewImageLabels(setup.labels)))
<1>1. /\ ParseFile' = ParseFile /\ ReadyEvent' = ReadyEvent /\ templates' = templates
      /\ NewMessageRenderer(templates)' = NewMessageRenderer(templates)
    BY InputsKept
<1>2. DataOf(repositories[j], NewImageLabels(setup.labels))'
        = DataOf(repositories[j], NewImageLabels(setup.labels))
    BY DEF DataOf
<1> QED
    BY <1>1, <1>2 DEF Rendering, Planned

(* Every step keeps the invariant.                                         *)
LEMMA NextProposal == ProposalInv /\ [ProposalNext]_allVars => ProposalInv'
<1> SUFFICES ASSUME ProposalInv, [ProposalNext]_allVars PROVE ProposalInv'
    OBVIOUS
<1> DEFINE fails == ~Renders(templates, DataOf(repositories[j], NewImageLabels(setup.labels)))
<1>1. rules' = rules /\ event' = event /\ setup' = setup
    BY DEF ProposalNext, allVars, own, vars, LoadFile, provideMessageRenderer, Decode, Plan, PlanEnds,
           RenderRepository, AllRendered, End, Go, Next, MatchRule, MatchesReturn, PlanRule,
           PlanRuleBody, MatchedEnd, NormalizeRepository, PlanReturn
<1>2. /\ ParseFile' = ParseFile /\ ReadyEvent' = ReadyEvent /\ templates' = templates
      /\ NewMessageRenderer(templates)' = NewMessageRenderer(templates)
    BY <1>1, InputsKept
<1>3. setup' \in Setups /\ j' \in Nat \ {0}
    BY <1>1 DEF ProposalInv, ProposalNext, allVars, own, LoadFile, provideMessageRenderer, Decode, Plan,
                PlanEnds, RenderRepository, AllRendered, End, Go
<1>4. CASE LoadFile
    BY <1>2, <1>3, <1>4 DEF LoadFile, Go, End, ProposalInv
<1>5. CASE provideMessageRenderer
    BY <1>2, <1>3, <1>5 DEF provideMessageRenderer, Go, End, ProposalInv
<1>6. CASE Decode
    BY <1>2, <1>3, <1>6 DEF Decode, Ignored, ReadyEvent, Go, End, ProposalInv
<1>7. CASE Plan
    BY <1>2, <1>3, <1>7 DEF Plan, own, ProposalInv
<1>8. CASE PlanEnds
    BY <1>2, <1>3, <1>8 DEF PlanEnds, Planned, Rendering, Go, End, vars, ProposalInv
<1>9. CASE RenderRepository
    <2>1. step = "render" /\ j <= Len(repositories) /\ UNCHANGED vars
        BY <1>9 DEF RenderRepository
    <2>2. Rendering /\ outcome = "none"
        BY <2>1 DEF ProposalInv
    <2>3. Rendering'
        BY <1>2, <2>1, <2>2 DEF Rendering, Planned, vars
    <2>4. CASE ~fails /\ UNCHANGED <<setup, step, outcome>>
        BY <1>2, <1>3, <2>1, <2>2, <2>3, <2>4 DEF ProposalInv
    <2>5. CASE fails /\ End("unrendered")
        <3>1. fails' = fails /\ j' = j /\ repositories' = repositories /\ step' = "end" /\ outcome' = "unrendered"
            BY <2>1, <2>5, RenderingKept DEF End, vars
        <3> QED
            BY <1>2, <1>3, <2>1, <2>3, <2>5, <3>1 DEF ProposalInv
    <2> QED
        BY <1>9, <2>4, <2>5 DEF RenderRepository
<1>10. CASE AllRendered
    BY <1>2, <1>3, <1>10 DEF AllRendered, End, ProposalInv
<1>11. CASE UNCHANGED allVars
    BY <1>2, <1>3, <1>11, RenderingKept DEF allVars, vars, own, ProposalInv
<1> QED
    BY <1>4, <1>5, <1>6, <1>7, <1>8, <1>9, <1>10, <1>11 DEF ProposalNext

(* The templates of the process, configured or not, are templates.         *)
LEMMA TemplatesAccepted ==
    ASSUME setup \in Setups, NewMessageRenderer(templates) PROVE Accepted(templates)
<1>1. DOMAIN defaultTemplates = Parts
    BY DEF defaultTemplates, Parts
<1>2. ASSUME NEW part \in Parts PROVE IsTemplate(defaultTemplates[part])
    <2>1. \A n \in Nat : IsText(Text(n, 0))
        BY DEF IsText, Text
    <2> DEFINE a == [k |-> "text", text |-> Text(32, 0)]
               b == [k |-> "text", text |-> Text(34, 0)]
               f(name) == [k |-> "field", name |-> name]
    <2>2. /\ IsText(Text(32, 0)) /\ IsText(Text(34, 0)) /\ a.text = Text(32, 0) /\ b.text = Text(34, 0)
          /\ \A name : f(name).k # "text"
        BY <2>1
    <2>3. /\ defaultTemplates["title"].nodes = <<a, f("Environment"), f("ImageName")>>
          /\ defaultTemplates["body"].nodes = <<f("DefaultBody")>>
          /\ defaultTemplates["commit"].nodes = <<b, f("Environment"), f("ImageRepository")>>
        BY DEF defaultTemplates, Template, Plain, Field
    <2> HIDE DEF a, b, f
    <2>4. part = "title" \/ part = "body" \/ part = "commit"
        BY DEF Parts
    <2> QED
        BY <2>2, <2>3, <2>4 DEF IsTemplate
<1>3. DOMAIN templates = Parts
    BY <1>1 DEF templates
<1>4. ASSUME NEW part \in Parts PROVE IsTemplate(templates[part])
    <2>1. templates[part] = IF setup.root = "mapping" /\ part \in DOMAIN setup.messages
                            THEN setup.messages[part] ELSE defaultTemplates[part]
        BY <1>1 DEF templates
    <2>2. part \in DOMAIN setup.messages => IsTemplate(setup.messages[part])
        BY ProposalConstants
    <2> QED
        BY <1>2, <2>1, <2>2
<1> QED
    BY <1>3, <1>4 DEF Accepted

(* The data of a planned repository: names are printable and not blank, an *)
(* environment is not blank, and the default body is the one of the labels.*)
LEMMA DataOfText ==
    ASSUME PlanInv, ParseFile, ReadyEvent, NEW q, q.targets \subseteq Destinations(event),
           NEW l, Sanitized(l)
    PROVE  LET data == DataOf(q, l)
           IN  /\ IsData(data)
               /\ \A f \in Fields \ {"Environment", "DefaultBody"} : data[f] \in Printable /\ ~data[f].blank
               /\ data["Environment"] = Environment(q) /\ ~data["Environment"].blank
               /\ data["DefaultBody"] = FormatPullRequestBody(l)
               /\ ~data["DefaultBody"].control /\ ~data["DefaultBody"].blank
<1> DEFINE a == Environment(q)
           b == Path(imageName(event.repository))
           c == Path(event.repository)
           d == Chars[event.host] ++ Text(1, 0) ++ Path(event.repository)
           e == Path(event.tag)
           f == FormatPullRequestBody(l)
           data == DataOf(q, l)
<1>1. rules \in Seq(RulePool) /\ event \in EventPool
    BY DEF PlanInv, MatchInv
<1>2. a \in Texts /\ ~a.blank
    BY <1>1, EnvironmentText DEF ParseFile
<1>3. \A t \in {b, c, d, e} : t \in Printable /\ ~t.blank
    BY <1>1, EventText DEF ReadyEvent
<1>4. f \in Texts /\ ~f.control /\ ~f.blank
    BY BodyText
<1>5. data = Data(a, b, c, d, e, f)
    BY DEF DataOf
<1> HIDE DEF a, b, c, d, e, f, data
<1>6. /\ DOMAIN data = Fields /\ data["Environment"] = a /\ data["ImageName"] = b
      /\ data["ImageRepository"] = c /\ data["Image"] = d /\ data["ImageTag"] = e
      /\ data["DefaultBody"] = f
    BY <1>5 DEF Data, Fields, allowedMessageTemplateFields
<1>7. b \in Texts /\ c \in Texts /\ d \in Texts /\ e \in Texts
    BY <1>3 DEF Printable
<1>8. IsData(data)
    BY <1>2, <1>4, <1>6, <1>7 DEF IsData, Fields, allowedMessageTemplateFields
<1>9. \A g \in Fields \ {"Environment", "DefaultBody"} : data[g] \in Printable /\ ~data[g].blank
    BY <1>3, <1>6 DEF Fields, allowedMessageTemplateFields
<1>10. /\ data["Environment"] = a /\ ~data["Environment"].blank /\ data["DefaultBody"] = f
       /\ ~data["DefaultBody"].control /\ ~data["DefaultBody"].blank
    BY <1>2, <1>4, <1>6
<1> QED
    BY <1>8, <1>9, <1>10 DEF a, f, data

(* What an event that was not rendered was rendered from.                  *)
LEMMA UnrenderedPlan ==
    ASSUME PlanInv, ProposalInv, outcome = "unrendered"
    PROVE  /\ Accepted(templates) /\ ParseFile /\ ReadyEvent
           /\ repositories[j].targets \subseteq Destinations(event)
           /\ \A key \in LabelKeys : IsLabel(setup.labels[key])
           /\ ~Renders(templates, DataOf(repositories[j], NewImageLabels(setup.labels)))
<1>1. /\ Rendering /\ j <= Len(repositories) /\ j \in Nat \ {0} /\ setup \in Setups
      /\ ~Renders(templates, DataOf(repositories[j], NewImageLabels(setup.labels)))
    BY DEF ProposalInv
<1>2. Accepted(templates) /\ ParseFile /\ ReadyEvent /\ Planned
    BY <1>1, TemplatesAccepted DEF Rendering
<1>3. repositories \in Seq(Records) /\ Normalizing(repositories, Len(repositories) + 1, Destinations(event))
    BY <1>2 DEF PlanInv
<1>4. j \in DOMAIN repositories /\ j < Len(repositories) + 1
    BY <1>1, <1>3
<1>5. Merges(repositories[j], Destinations(event))
    BY <1>3, <1>4 DEF Normalizing
<1>6. \A key \in LabelKeys : IsLabel(setup.labels[key])
    BY <1>1, ProposalConstants
<1> QED
    BY <1>1, <1>2, <1>5, <1>6 DEF Merges

(* The invariant of Proposal in every state.                               *)
LEMMA ProposalInvariant == ProposalSpec => [](PlanInv /\ ProposalInv /\ IncompleteInv /\ RefusedInv)
<1>1. ProposalInit => PlanInv /\ ProposalInv /\ IncompleteInv /\ RefusedInv
    BY InitPlan, InitProposal DEF ProposalInit, Init, IncompleteInv, RefusedInv
<1>2. [ProposalNext]_allVars => [Next]_vars
    BY DEF ProposalNext, allVars, LoadFile, provideMessageRenderer, Decode, Plan, PlanEnds,
           RenderRepository, AllRendered
<1>3. PlanInv /\ ProposalInv /\ IncompleteInv /\ RefusedInv /\ [ProposalNext]_allVars
        => (PlanInv /\ ProposalInv /\ IncompleteInv /\ RefusedInv)'
    BY <1>2, NextPlans, NextProposal, NextIncomplete, NextRefused
<1> QED
    BY <1>1, <1>3, PTL DEF ProposalSpec

(* Labels never stop an update: whatever raw labels the image carries, if  *)
(* its event cannot be rendered it could not be rendered without labels    *)
(* either, as long as the body shows the default body at most twice and is *)
(* within 22000 characters without labels.                                 *)
THEOREM LabelsHarmless == ProposalSpec => []LabelsNeverStopUpdate
<1>1. PlanInv /\ ProposalInv => LabelsNeverStopUpdate
    <2> DEFINE q == repositories[j]
               l == NewImageLabels(setup.labels)
               n == NoLabels
               data == DataOf(q, l)
               none == DataOf(q, n)
    <2> SUFFICES ASSUME PlanInv, ProposalInv, outcome = "unrendered", Uses(templates.body) <= 2,
                        executeMessageTemplate(templates.body, BodyData(none)).runes <= maxUnlabelledRunes,
                        Renders(templates, none)
                 PROVE  FALSE
        BY DEF LabelsNeverStopUpdate
    <2>1. /\ Accepted(templates) /\ ParseFile /\ ReadyEvent /\ q.targets \subseteq Destinations(event)
          /\ \A key \in LabelKeys : IsLabel(setup.labels[key])
          /\ ~Renders(templates, data)
        BY UnrenderedPlan
    <2>2. Sanitized(l)
        BY <2>1, LabelsSanitized
    <2>3. Unlabelled(n, l)
        BY <2>1, NoLabelsUnlabelled DEF NoLabels, NoLabel
    <2>4. Sanitized(n)
        BY <2>3 DEF Unlabelled
    <2>5. FormatPullRequestBody(l).runes <= FormatPullRequestBody(n).runes + LabelRunes
        BY <2>2, <2>3, LabelsAdd
    <2> HIDE DEF l, n
    <2>6. SameButBody(data, none)
        <3>1. \A f \in Fields \ {"DefaultBody"} : data[f] = none[f]
            BY DEF DataOf, Data, Fields, allowedMessageTemplateFields
        <3>2. /\ IsData(data) /\ data["DefaultBody"] = FormatPullRequestBody(l)
              /\ ~data["DefaultBody"].control /\ ~data["DefaultBody"].blank
            BY <2>1, <2>2, DataOfText
        <3>3. IsData(none) /\ none["DefaultBody"] = FormatPullRequestBody(n)
            BY <2>1, <2>4, DataOfText
        <3> HIDE DEF data, none
        <3> QED
            BY <2>5, <3>1, <3>2, <3>3 DEF SameButBody
    <2> HIDE DEF data
    <2>7. Renders(templates, data)
        BY <2>1, <2>6, LabelledRenders
    <2> QED
        BY <2>1, <2>7
<1> QED
    BY <1>1, ProposalInvariant, PTL

(* What startup lets through and no event can do with: a message that      *)
(* cannot be rendered is too long or has an environment that is not one    *)
(* printable line, a plan fails for a rule only if some rule captures or   *)
(* two rules disagree, and a branch is refused only for the names of the   *)
(* event or for an environment that is alone in its repository.            *)
THEOREM StartupSuffices == ProposalSpec => []StartupCatches
<1>1. ASSUME PlanInv, ProposalInv, outcome = "unrendered"
      PROVE  LET data == DataOf(repositories[j], NewImageLabels(setup.labels))
             IN  data.Environment.breaks \/ data.Environment.control \/ TooLong(data)
    <2> DEFINE q == repositories[j]
               l == NewImageLabels(setup.labels)
               data == DataOf(q, l)
    <2> SUFFICES ASSUME ~data["Environment"].breaks, ~data["Environment"].control, ~TooLong(data)
                 PROVE  FALSE
        OBVIOUS
    <2>1. /\ Accepted(templates) /\ ParseFile /\ ReadyEvent /\ q.targets \subseteq Destinations(event)
          /\ \A key \in LabelKeys : IsLabel(setup.labels[key])
          /\ ~Renders(templates, data)
        BY <1>1, UnrenderedPlan
    <2>2. Sanitized(l)
        BY <2>1, LabelsSanitized
    <2> HIDE DEF l
    <2>3. /\ IsData(data) /\ ~data["Environment"].blank
          /\ \A f \in Fields \ {"Environment", "DefaultBody"} : data[f] \in Printable /\ ~data[f].blank
          /\ ~data["DefaultBody"].control /\ ~data["DefaultBody"].blank
        BY <1>1, <2>1, <2>2, DataOfText
    <2> HIDE DEF data
    <2>4. GoodData(data)
        BY <2>3 DEF GoodData, Printable
    <2>5. IsTemplate(templates.title) /\ IsTemplate(templates.commit) /\ IsTemplate(templates.body)
        BY <2>1 DEF Accepted, Parts
    <2>6. /\ executeMessageTemplate(templates.title, data).runes <= maxPullRequestTitleRunes
          /\ executeMessageTemplate(templates.commit, data).runes <= maxCommitMessageRunes
          /\ executeMessageTemplate(templates.body, BodyData(data)).runes <= maxPullRequestBodyRunes
        <3>1. \A part \in Parts : \A k \in DOMAIN templates[part].nodes : Executable(templates[part].nodes[k])
            BY <2>1, AcceptedNodes
        <3>2. IsData(BodyData(data))
            BY <2>3, BodyDataText
        <3>3. executeMessageTemplate(templates.title, data) \in Texts
            BY <2>3, <2>5, <3>1, TemplateText DEF Parts
        <3>4. executeMessageTemplate(templates.commit, data) \in Texts
            BY <2>3, <2>5, <3>1, TemplateText DEF Parts
        <3>5. executeMessageTemplate(templates.body, BodyData(data)) \in Texts
            BY <3>2, <2>5, <3>1, TemplateText DEF Parts
        <3> QED
            BY <3>3, <3>4, <3>5, TextFields
               DEF TooLong, maxPullRequestTitleRunes, maxCommitMessageRunes, maxPullRequestBodyRunes
    <2>7. Renders(templates, data)
        BY <2>1, <2>4, <2>6, AcceptedRenders
    <2> QED
        BY <2>1, <2>7
<1>2. ASSUME PlanInv, ProposalInv, IncompleteInv, outcome = "unplanned", err = "ErrIncompleteRule",
             ~\E k \in Applied(event) : Capturing(rules[k])
      PROVE  \E k, l \in Applied(event) :
                /\ Repository(k) = Repository(l) /\ Directory(k) = Directory(l)
                /\ \/ rules[k].env # rules[l].env
                   \/ annotateFromLabels /\ rules[k].block # rules[l].block
    <2>1. ParseFile /\ rules \in Seq(RulePool)
        BY <1>2 DEF ProposalInv, PlanInv, MatchInv
    <2>2. ASSUME NEW k \in Applied(event) PROVE Complete(rules[k], event)
        <3>1. k \in DOMAIN rules
            BY DEF Applied, Best
        <3>2. rules[k] \in RulePool /\ compileRule(rules[k])
            BY <2>1, <3>1 DEF ParseFile
        <3> QED
            BY <1>2, <3>2, PlainComplete
    <2>3. PICK t \in Destinations(event), u \in Destinations(event) :
             /\ manifestRepositoryKey(t) = manifestRepositoryKey(u) /\ t.dir = u.dir
             /\ t.env # u.env \/ t.block # u.block
        BY <1>2, <2>2 DEF IncompleteInv
    <2>4. PICK k \in Applied(event) : t = Target(rules[k], event)
        BY <2>3 DEF Destinations
    <2>5. PICK l \in Applied(event) : u = Target(rules[l], event)
        BY <2>3 DEF Destinations
    <2>6. /\ t.env = rules[k].env /\ t.block = (annotateFromLabels /\ rules[k].block)
          /\ u.env = rules[l].env /\ u.block = (annotateFromLabels /\ rules[l].block)
        BY <2>4, <2>5 DEF Target, TargetWith
    <2>7. /\ Repository(k) = Repository(l) /\ Directory(k) = Directory(l)
        BY <2>3, <2>4, <2>5 DEF Repository, Directory
    <2>8. \/ rules[k].env # rules[l].env
          \/ annotateFromLabels /\ rules[k].block # rules[l].block
        <3>1. CASE t.env # u.env
            BY <3>1, <2>6
        <3>2. CASE t.block # u.block
            BY <3>2, <2>6
        <3> QED
            BY <3>1, <3>2, <2>3
    <2> QED
        BY <2>7, <2>8
<1>3. ASSUME RefusedInv, err = "branch", ~BadEvent(event)
      PROVE  \E k \in Applied(event) :
                /\ rules[k].env \in BadNames
                /\ \A l \in Applied(event) : Repository(l) = Repository(k) => rules[l].env = rules[k].env
    <2>1. \A k \in Applied(event) : Target(rules[k], event).env = rules[k].env
        BY DEF Target, TargetWith
    <2>2. PICK t \in Destinations(event) :
             /\ t.env \in BadNames
             /\ \A u \in Destinations(event) :
                   manifestRepositoryKey(u) = manifestRepositoryKey(t) => u.env = t.env
        BY <1>3 DEF RefusedInv
    <2>3. PICK k \in Applied(event) : t = Target(rules[k], event)
        BY <2>2 DEF Destinations
    <2>4. ASSUME NEW l \in Applied(event), Repository(l) = Repository(k) PROVE rules[l].env = rules[k].env
        <3>1. Target(rules[l], event) \in Destinations(event)
            BY DEF Destinations
        <3> QED
            BY <2>1, <2>2, <2>3, <2>4, <3>1 DEF Repository
    <2> QED
        BY <2>1, <2>2, <2>3, <2>4
<1>4. PlanInv /\ ProposalInv /\ IncompleteInv /\ RefusedInv => StartupCatches
    BY <1>1, <1>2, <1>3 DEF StartupCatches
<1> QED
    BY <1>4, ProposalInvariant, PTL

=============================================================================
