------------------------------ MODULE RulePlan ------------------------------
(***************************************************************************)
(* Service.plan: from the configured rules and a pushed image to the       *)
(* manifest repositories to update, their targets and their branches.      *)
(* One step per rule of RuleSet.Matches, one per matched rule and one per  *)
(* repository of plan, one for the end of each loop.                       *)
(*                                                                         *)
(* A path or a tag is the sequence of its segments or dot separated        *)
(* pieces.  Fold ranks names by their lower-cased form; the rank is the    *)
(* order in which plan sorts the repositories.                             *)
(***************************************************************************)
EXTENDS Integers, Sequences, FiniteSets

CONSTANTS
    RulePool,   \* rules as the configuration file declares them
    EventPool,  \* events: records [host, repository, tag]
    MaxRules,   \* bound: the number of rules in the configuration
    Variables,  \* capture names
    Unsafe,     \* segments that are . or .., or hold a wildcard or a backslash
    Fold,       \* Fold[s]: the rank of the lower-cased name s
    BadNames    \* names git refuses in a branch name

VARIABLES
    rules, event,  \* the input
    annotateFromLabels,  \* the setting of the process; off by default
    pc,            \* match, plan, normalize, done
    i,             \* the rule, the match or the repository the loop is at
    bestWeight,
    matches,       \* indexes of rules
    repositories,  \* eventPlan.repositories: records [key, targets]
    tagError,      \* firstTagError is set
    err

vars == <<rules, annotateFromLabels, event, pc, i, bestWeight, matches, repositories, tagError, err>>

-----------------------------------------------------------------------------
(* One rule and one event *)

NoName == ""
Variable(p) == p \in Variables
Literal(p)  == ~Variable(p) /\ p # "*"

Matching(r, e) ==
    /\ r.host = e.host
    /\ Len(r.segments) = Len(e.repository)
    /\ \A k \in DOMAIN r.segments : Literal(r.segments[k]) => r.segments[k] = e.repository[k]
Weight(r) == Cardinality({k \in DOMAIN r.segments : Literal(r.segments[k])})

(* An absent allow pattern accepts every tag.                              *)
ValidateTag(r, e) == (r.allow = {} \/ e.tag \in r.allow) /\ e.tag \notin r.deny

(* The captures: the last use of a name wins, pieces of the tag after      *)
(* segments of the repository.                                             *)
Positions(r, e, v) ==
    {k \in 1 .. Len(r.segments) : r.segments[k] = v} \cup
    {Len(r.segments) + k : k \in {k \in 1 .. Len(r.tagPieces) : r.tagPieces[k] = v}}
Captured(r, e) == {v \in Variables : Positions(r, e, v) # {}}
Capture(r, e, v) ==
    (e.repository \o e.tag)[CHOOSE k \in Positions(r, e, v) : \A l \in Positions(r, e, v) : l <= k]
MissingPiece(r, e) ==
    \E k \in 1 .. Len(r.tagPieces) : Variable(r.tagPieces[k]) /\ k > Len(e.tag)

(* expandVariables on the manifest URL, then splitPath, which drops empty  *)
(* segments.                                                               *)
Unresolved(r, e) == \E k \in DOMAIN r.url : Variable(r.url[k]) /\ r.url[k] \notin Captured(r, e)
Expanded(r, e) ==
    LET full == [k \in DOMAIN r.url |->
                    IF Variable(r.url[k]) THEN Capture(r, e, r.url[k]) ELSE r.url[k]]
        NonEmpty(s) == s # NoName
    IN  IF \A k \in DOMAIN full : NonEmpty(full[k]) THEN full ELSE SelectSeq(full, NonEmpty)

(* The path below owner and repository, in which only ** is a wildcard.    *)
validateManifestPath(p) ==
    /\ \A k \in DOMAIN p : p[k] \in Unsafe => p[k] = "**"
    /\ \A k, l \in DOMAIN p : p[k] = "**" /\ p[l] = "**" => k = l
parseManifestURL(site, p) ==
    site = "github" /\ Len(p) >= 2 /\ validateManifestPath(SubSeq(p, 3, Len(p)))

(* Location succeeds.                                                      *)
Complete(r, e) ==
    /\ ~MissingPiece(r, e)
    /\ \A v \in Captured(r, e) : Capture(r, e, v) \notin Unsafe
    /\ ~Unresolved(r, e)
    /\ parseManifestURL(r.site, Expanded(r, e))

(* manifestTarget: where the rule sends the event, and whether it has the  *)
(* block written: a rule may opt out, and annotation must be switched on.  *)
TargetWith(r, e, block) ==
    LET p == Expanded(r, e)
    IN  [name |-> <<p[1], p[2]>>, dir |-> SubSeq(p, 3, Len(p)), env |-> r.env, block |-> block]
Target(r, e) == TargetWith(r, e, annotateFromLabels /\ r.block)

manifestRepositoryKey(t) == <<Fold[t.name[1]], Fold[t.name[2]]>>
Before(k, l) == k[1] < l[1] \/ (k[1] = l[1] /\ k[2] < l[2])

(* Patterns and events are lists of names and records with the fields the  *)
(* program reads, and every owner and repository name has a place in the   *)
(* order of lower-cased names.                                             *)
ASSUME PlanConstants ==
    /\ MaxRules \in Nat
    /\ \A r \in RulePool : r.segments \in Seq(STRING)
    /\ \A e \in EventPool :
          e = [host |-> e.host, repository |-> e.repository, tag |-> e.tag]
    /\ \A r \in RulePool, e \in EventPool :
          Matching(r, e) /\ Complete(r, e) => manifestRepositoryKey(TargetWith(r, e, r.block)) \in Int \X Int

-----------------------------------------------------------------------------
(* The targets of one repository *)

Conflicting(ts) ==
    \E a, b \in DOMAIN ts :
        ts[a].dir = ts[b].dir /\ (ts[a].env # ts[b].env \/ ts[a].block # ts[b].block)

(* normalizeManifestTargets keeps one target per directory, the first one; *)
(* their order is then that of the directories, so a set says as much.     *)
Normalized(ts) == {ts[k] : k \in {k \in DOMAIN ts : \A l \in 1 .. k - 1 : ts[l].dir # ts[k].dir}}

(* Mutant of Identity: the registry host is left out of the hash.          *)
IdentityWithoutHost(e, key, ts) ==
    <<e.repository, key, e.tag, {<<t.dir, t.env>> : t \in ts}>>

(* What the hash of the branch name is computed from.  The two forms have  *)
(* different numbers of fields.                                            *)
Identity(e, key, ts) ==
    IF Cardinality(ts) = 1
    THEN LET t == CHOOSE t \in ts : TRUE
         IN  <<e.host, e.repository, t.name, t.dir, t.env, e.tag>>
    ELSE <<e.host, e.repository, key, e.tag, {<<t.dir, t.env>> : t \in ts}>>

(* validateBranch: the name is built from the last segments of the image   *)
(* repository (imageName), the environment unless there are several, and   *)
(* the tag, in which git refuses two dots in a row.                        *)
BadEvent(e) ==
    LET namespace == IF Len(e.repository) > 1 THEN 1 ELSE 0
    IN  \/ \E k \in 2 .. Len(e.tag) - 1 : e.tag[k] = NoName
        \/ \E k \in namespace + 1 .. Len(e.repository) : e.repository[k] \in BadNames
BadBranch(e, ts) == BadEvent(e) \/ \E x \in BadNames : {t.env : t \in ts} = {x}

-----------------------------------------------------------------------------
Init ==
    /\ rules \in UNION {[1 .. n -> RulePool] : n \in 0 .. MaxRules}
    /\ annotateFromLabels \in BOOLEAN
    /\ event \in EventPool
    /\ pc = "match"
    /\ i = 1
    /\ bestWeight = -1
    /\ matches = <<>>
    /\ repositories = <<>>
    /\ tagError = FALSE
    /\ err = "none"

Fail(e) == pc' = "done" /\ err' = e

(* Mutant of MatchRule: a more specific rule joins its fallbacks.          *)
FallbacksKept ==
    /\ pc = "match" /\ i <= Len(rules)
    /\ i' = i + 1
    /\ \/ /\ ~Matching(rules[i], event) \/ Weight(rules[i]) < bestWeight
          /\ UNCHANGED <<bestWeight, matches>>
       \/ /\ Matching(rules[i], event) /\ Weight(rules[i]) >= bestWeight
          /\ bestWeight' = Weight(rules[i])
          /\ matches' = Append(matches, i)
    /\ UNCHANGED <<rules, annotateFromLabels, event, pc, repositories, tagError, err>>

(* The loop of RuleSet.Matches.                                            *)
MatchRule ==
    LET r == rules[i]
    IN  /\ pc = "match" /\ i <= Len(rules)
        /\ i' = i + 1
        /\ \/ /\ ~Matching(r, event) \/ Weight(r) < bestWeight
              /\ UNCHANGED <<bestWeight, matches>>
           \/ /\ Matching(r, event) /\ Weight(r) = bestWeight
              /\ matches' = Append(matches, i)
              /\ UNCHANGED bestWeight
           \/ /\ Matching(r, event) /\ Weight(r) > bestWeight
              /\ bestWeight' = Weight(r)
              /\ matches' = <<i>>
        /\ UNCHANGED <<rules, annotateFromLabels, event, pc, repositories, tagError, err>>

MatchesReturn ==
    /\ pc = "match" /\ i > Len(rules)
    /\ i' = 1
    /\ \/ matches = <<>> /\ Fail("ErrNoMatchingRule")
       \/ matches # <<>> /\ pc' = "plan" /\ UNCHANGED err
    /\ UNCHANGED <<rules, annotateFromLabels, event, bestWeight, matches, repositories, tagError>>

(* The target joins the repository with its key, or a new one.             *)
Grouped(t) ==
    LET key == manifestRepositoryKey(t)
        Add(q) == IF q.key = key THEN [q EXCEPT !.targets = Append(@, t)] ELSE q
    IN  IF \E k \in DOMAIN repositories : repositories[k].key = key
        THEN [k \in DOMAIN repositories |-> Add(repositories[k])]
        ELSE Append(repositories, [key |-> key, targets |-> <<t>>])

(* PlanRule, but for what a rejected tag does.                             *)
PlanRuleBody(rejected) ==
    LET r == rules[matches[i]]
    IN  /\ pc = "plan" /\ i <= Len(matches)
        /\ i' = i + 1
        /\ \/ ~ValidateTag(r, event) /\ rejected /\ UNCHANGED repositories
           \/ /\ ValidateTag(r, event) /\ ~Complete(r, event)
              /\ Fail("ErrIncompleteRule")
              /\ UNCHANGED <<repositories, tagError>>
           \/ /\ ValidateTag(r, event) /\ Complete(r, event)
              /\ repositories' = Grouped(Target(r, event))
              /\ UNCHANGED <<pc, tagError, err>>
        /\ UNCHANGED <<rules, annotateFromLabels, event, bestWeight, matches>>

(* Mutant of PlanRule: one rejected tag rejects the event.                 *)
RejectedTagEnds == PlanRuleBody(Fail("tag") /\ tagError' = TRUE)

(* The loop over the matched rules: a rejected tag only skips the rule, an *)
(* incomplete rule ends the whole plan.                                    *)
PlanRule == PlanRuleBody(tagError' = TRUE /\ UNCHANGED <<pc, err>>)

(* Mutant of Sorted: the repositories stay in the order of the rules.      *)
Unsorted == repositories

(* The repositories sorted by key.                                         *)
Sorted ==
    [k \in DOMAIN repositories |->
        CHOOSE q \in {repositories[l] : l \in DOMAIN repositories} :
            Cardinality({l \in DOMAIN repositories : Before(repositories[l].key, q.key)}) = k - 1]

(* Every tag was rejected, or the repositories are sorted.                 *)
MatchedEnd ==
    /\ pc = "plan" /\ i > Len(matches)
    /\ i' = 1
    /\ \/ repositories = <<>> /\ Fail("tag") /\ UNCHANGED repositories
       \/ /\ repositories # <<>>
          /\ pc' = "normalize" /\ UNCHANGED err
          /\ repositories' = Sorted
    /\ UNCHANGED <<rules, annotateFromLabels, event, bestWeight, matches, tagError>>

(* The targets and the branch of one repository: a conflict or a name git  *)
(* refuses ends the whole plan.                                            *)
NormalizeRepository ==
    LET ts == repositories[i].targets
    IN  /\ pc = "normalize" /\ i <= Len(repositories)
        /\ i' = i + 1
        /\ \/ /\ Conflicting(ts)
              /\ Fail("ErrIncompleteRule") /\ UNCHANGED repositories
           \/ /\ ~Conflicting(ts) /\ BadBranch(event, Normalized(ts))
              /\ Fail("branch") /\ UNCHANGED repositories
           \/ /\ ~Conflicting(ts) /\ ~BadBranch(event, Normalized(ts))
              /\ repositories' = [repositories EXCEPT ![i].targets = Normalized(ts)]
              /\ UNCHANGED <<pc, err>>
        /\ UNCHANGED <<rules, annotateFromLabels, event, bestWeight, matches, tagError>>

PlanReturn ==
    /\ pc = "normalize" /\ i > Len(repositories)
    /\ pc' = "done"
    /\ UNCHANGED <<rules, annotateFromLabels, event, i, bestWeight, matches, repositories, tagError, err>>

Next == MatchRule \/ MatchesReturn \/ PlanRule \/ MatchedEnd \/ NormalizeRepository \/ PlanReturn
Spec == Init /\ [][Next]_vars

-----------------------------------------------------------------------------
(* Properties *)

Planned == pc = "done" /\ err = "none"

(* The reference: the rules that cover an event and than which no covering *)
(* rule has more literal segments, those of them that accept its tag, and  *)
(* where they send it.                                                     *)
Best(e) ==
    LET covering == {k \in DOMAIN rules : Matching(rules[k], e)}
    IN  {k \in covering : \A l \in covering : Weight(rules[l]) <= Weight(rules[k])}
Applied(e) == {k \in Best(e) : ValidateTag(rules[k], e)}
Destinations(e) == {Target(rules[k], e) : k \in Applied(e)}

(* Every variable has its type, and a plan that stopped early has an error.*)
TypeOK ==
    /\ pc \in {"match", "plan", "normalize", "done"}
    /\ i \in 1 .. MaxRules + 1
    /\ bestWeight \in Int /\ bestWeight >= -1
    /\ matches \in Seq(DOMAIN rules)
    /\ tagError \in BOOLEAN
    /\ err \in {"none", "ErrNoMatchingRule", "ErrIncompleteRule", "tag", "branch"}
    /\ err # "none" => pc = "done"
    /\ err = "tag" => tagError

(* The single pass over the rules finds exactly the most specific ones, in *)
(* declaration order, wherever the fallbacks stand.                        *)
MostSpecificWin ==
    pc # "match" =>
        /\ {matches[k] : k \in DOMAIN matches} = Best(event)
        /\ \A k, l \in DOMAIN matches : k < l => matches[k] < matches[l]

(* The plan sends the event where the applied rules say and nowhere else:  *)
(* a tag one rule rejects does not reject a tied rule, grouping and        *)
(* deduplication leave no target of an accepted rule behind, and no rule   *)
(* is left out because the event does not complete it.                     *)
PlanComplete ==
    /\ Planned => \A k \in Applied(event) : Complete(rules[k], event)
    /\ Planned =>
        UNION {{<<q.key, t.dir, t.env, t.block>> : t \in q.targets} :
                  q \in {repositories[k] : k \in DOMAIN repositories}}
          = {<<manifestRepositoryKey(t), t.dir, t.env, t.block>> : t \in Destinations(event)}
    /\ err = "tag" => Applied(event) = {}

(* One pull request per repository: the case of an owner or repository     *)
(* name never splits a repository in two, no directory is edited twice,    *)
(* and the order is the same for every delivery.                           *)
OnePlanPerRepository ==
    Planned =>
        /\ \A k, l \in DOMAIN repositories :
              k < l => Before(repositories[k].key, repositories[l].key)
        /\ \A k \in DOMAIN repositories :
              /\ \A t \in repositories[k].targets :
                    manifestRepositoryKey(t) = repositories[k].key
              /\ \A t, u \in repositories[k].targets : t.dir = u.dir => t = u

(* A branch belongs to one push: another image or tag that the same rules  *)
(* send to the same repository never gets the same branch, so its pull     *)
(* request cannot be mistaken for this one's.                              *)
BranchNamesEvent ==
    Planned => \A k \in DOMAIN repositories, f \in EventPool \ {event} :
        LET q      == repositories[k]
            others == {t \in Destinations(f) : manifestRepositoryKey(t) = q.key}
        IN  (\A l \in Applied(f) : Complete(rules[l], f)) /\ others # {}
              => Identity(event, q.key, q.targets) # Identity(f, q.key, others)

=============================================================================
