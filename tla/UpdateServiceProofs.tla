------------------------- MODULE UpdateServiceProofs -------------------------
(***************************************************************************)
(* Proofs about UpdateService, for every set of workers, events, rules,    *)
(* repositories and directories.                                           *)
(***************************************************************************)
EXTENDS UpdateService, TLAPS

-----------------------------------------------------------------------------
(* Type correctness *)

(* The directories an update changes are directories.                      *)
LEMMA ChangedType ==
    ASSUME NEW r \in Repos, NEW e \in Events, NEW tr \in Tree
    PROVE  /\ Selected(r, e, tr) \subseteq Dirs
           /\ Changed(r, e, tr) \subseteq Dirs
<1>1. \A t \in TargetsOf[r][e] : t \in Target
    BY ConstantTypes
<1>2. \A t \in TargetsOf[r][e] : Resolve(t, tr) \subseteq Dirs
    BY <1>1 DEF Resolve, Target
<1> QED
    BY <1>2 DEF Selected, Changed

(* An event names an image and a tag.                                      *)
LEMMA EventType ==
    ASSUME NEW e \in Events
    PROVE  e.image \in Images /\ e.tag \in Tags
BY ConstantTypes

(* Merging a pull request leaves a tree.                                   *)
LEMMA MergedType ==
    ASSUME NEW tr \in Tree, NEW c \in Commit
    PROVE  Merged(tr, c) \in Tree
<1>1. c.event.image \in Images /\ c.event.tag \in Tags
    BY EventType DEF Commit
<1>2. ASSUME NEW d \in Dirs, tr[d] \notin {Absent, Invalid}
      PROVE  [tr[d] EXCEPT ![c.event.image] = c.event.tag] \in Manifest
    <2>1. tr[d] \in [Images -> Tags \cup {Unmanaged}]
        BY <1>2 DEF Tree, Manifest
    <2> QED
        BY <1>1, <2>1 DEF Manifest
<1> QED
    BY <1>2 DEF Merged, Tree

(* A busy worker is at a repository of its plan.                           *)
LEMMA RepoType ==
    ASSUME LocalTypes, NEW w \in Workers, pc[w] \notin {"idle", "return"}
    PROVE  /\ event[w] \in Events
           /\ index[w] \in 1 .. Len(Plan[event[w]])
           /\ Repo(w) \in Repos
           /\ BranchOf[Repo(w)][event[w]] \in Branches
<1>1. event[w] \in Events /\ index[w] \in 1 .. Len(Plan[event[w]])
    BY DEF LocalTypes
<1>2. Plan[event[w]] \in Seq(Repos)
    BY <1>1, ConstantTypes
<1>3. Repo(w) \in Repos
    BY <1>1, <1>2 DEF Repo
<1> QED
    BY <1>1, <1>3, ConstantTypes

(* A step within applyRepository keeps the local types.                    *)
LEMMA GotoType ==
    ASSUME LocalTypes, NEW w \in Workers, NEW l \in Label,
           pc[w] \notin {"idle", "return"}, l \notin {"idle", "return"},
           l \in HasTree => tree[w] \in Tree,
           Goto(w, l)
    PROVE  LocalTypes'
BY RepoType DEF LocalTypes, Goto

(* So does its end, which may be the end of the walk.                      *)
LEMMA FinishType ==
    ASSUME LocalTypes, NEW w \in Workers, NEW b \in BOOLEAN,
           pc[w] \notin {"idle", "return"},
           Finish(w, b)
    PROVE  LocalTypes'
<1> USE DEF LocalTypes
<1>1. /\ event[w] \in Events /\ index[w] \in 1 .. Len(Plan[event[w]])
      /\ Len(Plan[event[w]]) \in Nat
    BY RepoType, ConstantTypes
<1>2. /\ pc' = [pc EXCEPT ![w] = IF index[w] = Len(Plan[event[w]]) THEN "return" ELSE "find"]
      /\ index' = [index EXCEPT ![w] = @ + 1]
      /\ tree' = [tree EXCEPT ![w] = NoTree]
      /\ retry' = [retry EXCEPT ![w] = @ \/ b]
      /\ event' = event
    BY DEF Finish
<1>3. /\ pc' \in [Workers -> Label]
      /\ index' \in [Workers -> Nat]
      /\ tree' \in [Workers -> Tree \cup {NoTree}]
    BY <1>1, <1>2 DEF Label
<1>4. retry' \in [Workers -> BOOLEAN]
    BY <1>2
<1>5. ASSUME NEW v \in Workers
      PROVE  /\ pc'[v] # "idle" => event'[v] \in Events
             /\ pc'[v] \notin {"idle", "return"} => index'[v] \in 1 .. Len(Plan[event'[v]])
             /\ pc'[v] \in HasTree => tree'[v] \in Tree
    <2>1. CASE v = w
        BY <2>1, <1>1, <1>2 DEF HasTree
    <2>2. CASE v # w
        BY <2>2, <1>2
    <2> QED
        BY <2>1, <2>2
<1> QED
    BY <1>2, <1>3, <1>4, <1>5

(* So does a return or the death of a process.                             *)
LEMMA ResetType ==
    ASSUME LocalTypes, NEW ws \in SUBSET Workers, Reset(ws)
    PROVE  LocalTypes'
BY DEF LocalTypes, Reset, Label, HasTree

(* The initial state is typed, the branches of the previous release too.   *)
LEMMA InitType == Init => TypeOK
<1> SUFFICES ASSUME Init PROVE TypeOK
    OBVIOUS
<1> USE DEF Init
<1>1. base \in [Repos -> Tree]
    BY ConstantTypes
<1>2. ASSUME NEW r \in Repos, NEW b \in Branches, LegacyAt[r][b] # NoEvent
      PROVE  [event |-> LegacyAt[r][b], fork |-> base[r],
              dirs |-> Changed(r, LegacyAt[r][b], base[r])] \in Commit
    <2>1. LegacyAt[r][b] \in Events /\ base[r] \in Tree
        BY <1>1, <1>2, ConstantTypes
    <2> QED
        BY <2>1, ChangedType DEF Commit
<1>3. branch \in [Repos -> [Branches -> Commit \cup {NoCommit}]]
    BY <1>2
<1>4. pr \in [Repos -> [Branches -> PRState]]
    BY DEF PRState
<1>5. \A r \in Repos, b \in Branches : pr[r][b] # "none" => branch[r][b] # NoCommit
    BY <1>2, SpecialValues
<1>6. LocalTypes
    BY DEF LocalTypes, Label, HasTree
<1>7. HistoryTypes
    BY DEF HistoryTypes
<1> QED
    BY <1>1, <1>3, <1>4, <1>5, <1>6, <1>7 DEF TypeOK, GitHubTypes

(* An accepted push leaves a commit with the tree of the checkout.         *)
LEMMA PushType ==
    ASSUME TypeOK, NEW w \in Workers, Push(w)
    PROVE  GitHubTypes'
<1> DEFINE b == BranchOf[Repo(w)][event[w]]
           c == [event |-> event[w], fork |-> tree[w],
                 dirs |-> Changed(Repo(w), event[w], tree[w])]
<1>1. pc[w] = "push" /\ LocalTypes /\ GitHubTypes
    BY DEF Push, TypeOK
<1>2. Repo(w) \in Repos /\ event[w] \in Events /\ b \in Branches
    BY <1>1, RepoType
<1>3. tree[w] \in Tree
    BY <1>1 DEF LocalTypes, HasTree
<1>4. c \in Commit
    BY <1>2, <1>3, ChangedType DEF Commit
<1>5. base' = base /\ pr' = pr
    BY DEF Push
<1>6. branch' = branch \/ branch' = [branch EXCEPT ![Repo(w)][b] = c]
    BY DEF Push
<1>7. CASE branch' = branch
    BY <1>1, <1>5, <1>7 DEF GitHubTypes
<1>8. CASE branch' = [branch EXCEPT ![Repo(w)][b] = c]
    <2>1. c # NoCommit
        BY <1>4, SpecialValues
    <2>2. branch' \in [Repos -> [Branches -> Commit \cup {NoCommit}]]
        BY <1>1, <1>2, <1>4, <1>8 DEF GitHubTypes
    <2>3. \A r \in Repos, x \in Branches : branch[r][x] # NoCommit => branch'[r][x] # NoCommit
        BY <1>1, <1>2, <1>8, <2>1 DEF GitHubTypes
    <2> QED
        BY <1>1, <1>5, <2>2, <2>3 DEF GitHubTypes
<1> QED
    BY <1>6, <1>7, <1>8

(* A pull request is only opened from an existing branch.                  *)
LEMMA CreateType ==
    ASSUME TypeOK, NEW w \in Workers, CreatePullRequest(w)
    PROVE  GitHubTypes' /\ HistoryTypes'
<1> DEFINE b == BranchOf[Repo(w)][event[w]]
<1>1. pc[w] = "create" /\ LocalTypes /\ GitHubTypes /\ HistoryTypes
    BY DEF CreatePullRequest, TypeOK
<1>2. Repo(w) \in Repos /\ event[w] \in Events /\ b \in Branches
    BY <1>1, RepoType
<1>3. base' = base /\ branch' = branch /\ moot' = moot /\ settled' = settled
    BY DEF CreatePullRequest
<1>4. CASE pr' = pr /\ opened' = opened
    BY <1>1, <1>3, <1>4 DEF GitHubTypes, HistoryTypes
<1>5. CASE /\ branch[Repo(w)][b] # NoCommit
           /\ pr' = [pr EXCEPT ![Repo(w)][b] = "open"]
           /\ opened' = [opened EXCEPT ![Repo(w)][event[w]] = TRUE]
    <2>1. pr' \in [Repos -> [Branches -> PRState]]
        BY <1>1, <1>2, <1>5 DEF GitHubTypes, PRState
    <2>2. \A r \in Repos, x \in Branches : pr'[r][x] # "none" => branch'[r][x] # NoCommit
        BY <1>1, <1>2, <1>3, <1>5 DEF GitHubTypes
    <2>3. opened' \in [Repos -> [Events -> BOOLEAN]]
        BY <1>1, <1>2, <1>5 DEF HistoryTypes
    <2> QED
        BY <1>1, <1>3, <2>1, <2>2, <2>3 DEF GitHubTypes, HistoryTypes
<1> QED
    BY <1>4, <1>5 DEF CreatePullRequest, CanOpen

(* A checkout gives the worker the tree of the base branch.                *)
LEMMA CheckoutType ==
    ASSUME TypeOK, NEW w \in Workers, Checkout(w)
    PROVE  LocalTypes' /\ HistoryTypes'
<1>1. pc[w] = "checkout" /\ LocalTypes /\ GitHubTypes /\ HistoryTypes
    BY DEF Checkout, TypeOK
<1>2. Repo(w) \in Repos /\ event[w] \in Events /\ index[w] \in 1 .. Len(Plan[event[w]])
    BY <1>1, RepoType
<1>3. CASE Finish(w, TRUE) /\ UNCHANGED history
    <2>1. LocalTypes'
        BY <1>1, <1>3, FinishType
    <2> QED
        BY <1>1, <1>3, <2>1 DEF HistoryTypes, history
<1>4. CASE /\ tree' = [tree EXCEPT ![w] = base[Repo(w)]]
           /\ pc' = [pc EXCEPT ![w] = "resolve"]
           /\ moot' = [moot EXCEPT ![Repo(w)][event[w]] =
                           @ \/ Moot(Repo(w), event[w], base[Repo(w)])]
           /\ UNCHANGED <<event, index, retry, opened, settled>>
    <2>1. base[Repo(w)] \in Tree
        BY <1>1, <1>2 DEF GitHubTypes
    <2>2. LocalTypes'
        BY <1>1, <1>2, <1>4, <2>1 DEF LocalTypes, Label, HasTree
    <2>3. moot' \in [Repos -> [Events -> BOOLEAN]]
        BY <1>1, <1>2, <1>4 DEF HistoryTypes
    <2> QED
        BY <1>1, <1>4, <2>2, <2>3 DEF HistoryTypes
<1> QED
    BY <1>3, <1>4 DEF Checkout

(* Merging, declining, deleting and editing keep the types.                *)
LEMMA PeopleType ==
    ASSUME TypeOK, People
    PROVE  TypeOK'
<1>1. GitHubTypes /\ LocalTypes /\ HistoryTypes
    BY DEF TypeOK
<1>2. GitHubTypes'
    <2>1. ASSUME NEW r \in Repos, NEW b \in Branches, Merge(r, b)
          PROVE  GitHubTypes'
        <3>1. branch[r][b] \in Commit /\ base[r] \in Tree
            BY <1>1, <2>1 DEF GitHubTypes, Merge
        <3>2. Merged(base[r], branch[r][b]) \in Tree
            BY <3>1, MergedType
        <3> QED
            BY <1>1, <2>1, <3>2 DEF GitHubTypes, Merge, PRState
    <2>2. ASSUME NEW r \in Repos, NEW b \in Branches, Decline(r, b)
          PROVE  GitHubTypes'
        BY <1>1, <2>2 DEF GitHubTypes, Decline, PRState
    <2>3. ASSUME NEW r \in Repos, NEW b \in Branches, DeleteBranch(r, b)
          PROVE  GitHubTypes'
        BY <1>1, <2>3 DEF GitHubTypes, DeleteBranch, PRState
    <2>4. ASSUME NEW x \in BaseEdits, EditBase(x[1], x[2], x[3])
          PROVE  GitHubTypes'
        <3>1. x[1] \in Repos /\ x[2] \in Dirs /\ x[3] \in Manifest
            BY ConstantTypes
        <3> QED
            BY <1>1, <2>4, <3>1 DEF GitHubTypes, EditBase, Tree
    <2> QED
        BY <2>1, <2>2, <2>3, <2>4 DEF People
<1>3. UNCHANGED <<local, history>>
    BY DEF People, Merge, Decline, DeleteBranch, EditBase
<1> QED
    BY <1>1, <1>2, <1>3 DEF TypeOK, LocalTypes, HistoryTypes, local, history

(* Every step of a worker keeps the types.                                 *)
LEMMA StepType ==
    ASSUME TypeOK, NEW w \in Workers, Step(w)
    PROVE  TypeOK'
<1>1. GitHubTypes /\ LocalTypes /\ HistoryTypes
    BY DEF TypeOK
<1>2. ASSUME EnsureNoOpenPullRequest(w) PROVE TypeOK'
    <2>1. /\ pc[w] \in {"find", "findLegacy", "recheck", "recheckLegacy"}
          /\ UNCHANGED <<github, history>>
        BY <1>2 DEF EnsureNoOpenPullRequest
    <2>2. /\ AfterProbe(w) \in {"findLegacy", "recheckLegacy", "checkout", "create"}
          /\ AfterProbe(w) \in HasTree => pc[w] \in HasTree
        BY <2>1 DEF AfterProbe, HasTree
    <2>3. LocalTypes'
        <3>1. CASE \E x \in BOOLEAN : Finish(w, x)
            BY <1>1, <2>1, <3>1, FinishType
        <3>2. CASE Goto(w, AfterProbe(w))
            <4>1. AfterProbe(w) \in HasTree => tree[w] \in Tree
                BY <1>1, <2>2 DEF LocalTypes
            <4> QED
                BY <1>1, <2>1, <2>2, <3>2, <4>1, GotoType DEF Label
        <3> QED
            BY <1>2, <3>1, <3>2 DEF EnsureNoOpenPullRequest
    <2> QED
        BY <1>1, <2>1, <2>3 DEF TypeOK, GitHubTypes, HistoryTypes, github, history
<1>3. ASSUME Checkout(w) PROVE TypeOK'
    BY <1>1, <1>3, CheckoutType DEF TypeOK, GitHubTypes, Checkout, github
<1>4. ASSUME NEW from \in {"resolve", "patch", "commit"}, NEW to \in {"patch", "commit", "push"},
             pc[w] = from,
             (\E x \in BOOLEAN : Finish(w, x)) \/ Goto(w, to),
             UNCHANGED <<github, history>>
      PROVE  TypeOK'
    <2>1. tree[w] \in Tree
        BY <1>1, <1>4 DEF LocalTypes, HasTree
    <2>2. LocalTypes'
        BY <1>1, <1>4, <2>1, FinishType, GotoType DEF Label
    <2> QED
        BY <1>1, <1>4, <2>2 DEF TypeOK, GitHubTypes, HistoryTypes, github, history
<1>5. ASSUME ResolveManifestTargets(w) PROVE TypeOK'
    BY <1>4, <1>5 DEF ResolveManifestTargets
<1>6. ASSUME PatchManifests(w) PROVE TypeOK'
    BY <1>4, <1>6 DEF PatchManifests
<1>7. ASSUME CommitChanges(w) PROVE TypeOK'
    BY <1>4, <1>7 DEF CommitChanges
<1>8. ASSUME Push(w) PROVE TypeOK'
    <2>1. /\ pc[w] = "push" /\ tree[w] \in Tree
          /\ Finish(w, TRUE) \/ Goto(w, "create") \/ Goto(w, "recheck")
          /\ UNCHANGED history
        BY <1>1, <1>8 DEF Push, LocalTypes, HasTree
    <2>2. LocalTypes'
        BY <1>1, <2>1, FinishType, GotoType DEF Label
    <2>3. GitHubTypes'
        BY <1>8, PushType
    <2> QED
        BY <1>1, <2>1, <2>2, <2>3 DEF TypeOK, HistoryTypes, history
<1>9. ASSUME CreatePullRequest(w) PROVE TypeOK'
    <2>1. pc[w] = "create" /\ \E x \in BOOLEAN : Finish(w, x)
        BY <1>9 DEF CreatePullRequest
    <2>2. LocalTypes'
        BY <1>1, <2>1, FinishType
    <2> QED
        BY <1>9, <2>2, CreateType DEF TypeOK
<1>10. ASSUME Return(w) PROVE TypeOK'
    <2>1. pc[w] = "return" /\ Reset({w}) /\ UNCHANGED <<github, opened, moot>>
        BY <1>10 DEF Return
    <2>2. LocalTypes'
        BY <1>1, <2>1, ResetType
    <2>3. event[w] \in Events
        BY <1>1, <2>1 DEF LocalTypes
    <2>4. HistoryTypes'
        BY <1>1, <1>10, <2>1, <2>3 DEF HistoryTypes, Return
    <2> QED
        BY <1>1, <2>1, <2>2, <2>4 DEF TypeOK, GitHubTypes, github
<1> QED
    BY <1>2, <1>3, <1>5, <1>6, <1>7, <1>8, <1>9, <1>10 DEF Step

(* Handle starts at the first repository of a non-empty plan.              *)
LEMMA HandleType ==
    ASSUME TypeOK, NEW w \in Workers, NEW e \in Events, Handle(w, e)
    PROVE  TypeOK'
<1>1. GitHubTypes /\ LocalTypes /\ HistoryTypes
    BY DEF TypeOK
<1>2. Plan[e] \in Seq(Repos)
    BY ConstantTypes
<1>3. Plan[e] # <<>> => 1 \in 1 .. Len(Plan[e])
    BY <1>2
<1>4. LocalTypes'
    BY <1>1, <1>3 DEF LocalTypes, Handle, Label, HasTree
<1> QED
    BY <1>1, <1>4 DEF TypeOK, GitHubTypes, HistoryTypes, Handle, github, history

(* Every step of the system keeps the types.                               *)
LEMMA NextType == TypeOK /\ [Next]_vars => TypeOK'
<1> SUFFICES ASSUME TypeOK, [Next]_vars PROVE TypeOK'
    OBVIOUS
<1>1. ASSUME NEW ws \in SUBSET Workers, Crash(ws) PROVE TypeOK'
    <2>1. GitHubTypes /\ LocalTypes /\ HistoryTypes
        BY DEF TypeOK
    <2>2. LocalTypes'
        BY <1>1, <2>1, ResetType DEF Crash
    <2> QED
        BY <1>1, <2>1, <2>2 DEF TypeOK, GitHubTypes, HistoryTypes, Crash, github, history
<1>2. CASE UNCHANGED vars
    BY <1>2 DEF TypeOK, GitHubTypes, LocalTypes, HistoryTypes, vars
<1> QED
    BY <1>1, <1>2, HandleType, StepType, PeopleType DEF Next

(* Type correctness of the use case: whatever order the remote calls of    *)
(* the workers, their failures and the edits of people come in, a worker   *)
(* past Checkout has a tree and a position in its plan, and every pull     *)
(* request has a branch.                                                   *)
THEOREM TypeCorrect == Spec => []TypeOK
<1>1. Init => TypeOK
    BY InitType
<1>2. TypeOK /\ [Next]_vars => TypeOK'
    BY NextType
<1> QED
    BY <1>1, <1>2, PTL DEF Spec

-----------------------------------------------------------------------------
(* A pull request under review *)

(* Only a push to a new branch and a branch deletion touch a branch.       *)
LEMMA OpenKept ==
    ASSUME TypeOK, [Next]_vars, NEW r \in Repos, NEW b \in Branches, pr[r][b] = "open"
    PROVE  branch'[r][b] = branch[r][b]
<1>1. GitHubTypes /\ LocalTypes /\ branch[r][b] # NoCommit
    BY DEF TypeOK, GitHubTypes
<1>2. ASSUME NEW w \in Workers, Push(w) PROVE branch'[r][b] = branch[r][b]
    <2>1. CASE branch' = branch
        BY <2>1
    <2>2. CASE /\ PushAccepted(w)
               /\ branch' = [branch EXCEPT ![Repo(w)][BranchOf[Repo(w)][event[w]]] =
                      [event |-> event[w], fork |-> tree[w],
                       dirs |-> Changed(Repo(w), event[w], tree[w])]]
        <3>1. ~(r = Repo(w) /\ b = BranchOf[Repo(w)][event[w]])
            BY <1>1, <2>2 DEF PushAccepted
        <3> QED
            BY <1>1, <2>2, <3>1 DEF GitHubTypes
    <2> QED
        BY <1>2, <2>1, <2>2 DEF Push
<1>3. ASSUME NEW w \in Workers, Step(w) PROVE branch'[r][b] = branch[r][b]
    BY <1>2, <1>3 DEF Step, EnsureNoOpenPullRequest, Checkout, ResolveManifestTargets,
       PatchManifests, CommitChanges, CreatePullRequest, Return, github
<1>4. ASSUME NEW q \in Repos, NEW a \in Branches, DeleteBranch(q, a)
      PROVE  branch'[r][b] = branch[r][b]
    <2>1. ~(q = r /\ a = b)
        BY <1>4 DEF DeleteBranch
    <2> QED
        BY <1>1, <1>4, <2>1 DEF DeleteBranch, GitHubTypes
<1>5. CASE People
    BY <1>4, <1>5 DEF People, Merge, Decline, EditBase
<1>6. CASE UNCHANGED vars
    BY <1>6 DEF vars
<1>7. ASSUME NEW w \in Workers, NEW e \in Events, Handle(w, e) PROVE branch' = branch
    BY <1>7 DEF Handle, github
<1>8. ASSUME NEW ws \in SUBSET Workers, Crash(ws) PROVE branch' = branch
    BY <1>8 DEF Crash, github
<1> QED
    BY <1>3, <1>5, <1>6, <1>7, <1>8 DEF Next

(* What is being reviewed never changes under the reviewer: no redelivery, *)
(* concurrent worker or branch cleanup rewrites or removes the branch of   *)
(* an open pull request, whatever the rules and the number of workers.     *)
THEOREM ReviewStable == Spec => OpenPullRequestStable
<1>1. TypeOK /\ [Next]_vars =>
          [\A r \in Repos, b \in Branches :
               pr[r][b] = "open" => branch'[r][b] = branch[r][b]]_vars
    BY OpenKept
<1> QED
    BY <1>1, TypeCorrect, PTL DEF Spec, OpenPullRequestStable

-----------------------------------------------------------------------------
(* No update is lost.                                                      *)
(*                                                                         *)
(* Two facts about the world are assumed: legacy branch names identify     *)
(* their event as hashed ones do, and nobody deletes a branch that has no  *)
(* pull request yet.  Without either an update can be lost.                *)

LegacyDistinct ==
    \A r \in Repos : \A e, f \in Events : LegacyName[r][e] = LegacyName[r][f] => e = f

(* The repository needs nothing more from the event.                       *)
Served(r, e) == opened[r][e] \/ moot[r][e] \/ <<r, e>> \in Unacceptable

(* A branch carries a name of its event.                                   *)
BranchesNamed ==
    \A r \in Repos, b \in Branches : branch[r][b] # NoCommit =>
        b = BranchOf[r][branch[r][b].event] \/ b = LegacyName[r][branch[r][b].event]

(* A pull request counts as opened for the event of its branch.            *)
PullRequestsCounted ==
    \A r \in Repos, b \in Branches : pr[r][b] # "none" => opened[r][branch[r][b].event]

(* A worker that holds a checkout with nothing to do has noted it.         *)
MootNoted ==
    \A w \in Workers : pc[w] \in HasTree /\ Moot(Repo(w), event[w], tree[w])
                          => moot[Repo(w)][event[w]]

(* Past a push the branch is there, or its pull request was.               *)
Pushed ==
    \A w \in Workers : pc[w] \in {"recheck", "recheckLegacy", "create"} =>
        \/ branch[Repo(w)][BranchOf[Repo(w)][event[w]]] # NoCommit
        \/ opened[Repo(w)][event[w]]

(* Without a retryable failure so far, the repositories behind the worker  *)
(* are served, and at the end all of them are behind it.                   *)
WalkServes ==
    \A w \in Workers : pc[w] # "idle" /\ ~retry[w] /\ Renders(event[w]) =>
        /\ \A k \in 1 .. Len(Plan[event[w]]) :
               k < index[w] => Served(Plan[event[w]][k], event[w])
        /\ pc[w] = "return" => Len(Plan[event[w]]) < index[w]

Inv == /\ TypeOK /\ BranchesNamed /\ PullRequestsCounted /\ MootNoted /\ Pushed
       /\ WalkServes /\ NoLostUpdate

(* History only grows.                                                     *)
Kept == \A r \in Repos, e \in Events :
            (opened[r][e] => opened'[r][e]) /\ (moot[r][e] => moot'[r][e])

(* A hashed branch belongs to one event.                                   *)
LEMMA HashedOwner ==
    ASSUME GitHubTypes, BranchesNamed, NEW r \in Repos, NEW e \in Events,
           branch[r][BranchOf[r][e]] # NoCommit
    PROVE  branch[r][BranchOf[r][e]].event = e
<1>1. BranchOf[r][e] \in Branches
    BY ConstantTypes
<1>2. branch[r][BranchOf[r][e]].event \in Events
    BY <1>1 DEF GitHubTypes, Commit
<1> QED
    BY <1>1, <1>2, BranchIdentity DEF BranchesNamed

(* So does a legacy branch, under the assumption.                          *)
LEMMA LegacyOwner ==
    ASSUME LegacyDistinct, GitHubTypes, BranchesNamed, NEW r \in Repos, NEW e \in Events,
           branch[r][LegacyName[r][e]] # NoCommit
    PROVE  branch[r][LegacyName[r][e]].event = e
<1>1. LegacyName[r][e] \in Branches
    BY ConstantTypes
<1>2. branch[r][LegacyName[r][e]].event \in Events
    BY <1>1 DEF GitHubTypes, Commit
<1> QED
    BY <1>1, <1>2, BranchIdentity DEF BranchesNamed, LegacyDistinct

(* Handle went through the loop body for w's repository and left it        *)
(* without a retryable error: the repository is served.                    *)
LEMMA FinishServes ==
    ASSUME Inv, NEW w \in Workers, NEW x \in BOOLEAN, pc[w] \notin {"idle", "return"},
           NEW r \in Repos, r = Repo(w), NEW e \in Events, e = event[w],
           Finish(w, x), Kept, ~x => Served(r, e)'
    PROVE  WalkServes'
<1> SUFFICES ASSUME NEW v \in Workers,
                    (pc[v] # "idle" /\ ~retry[v] /\ Renders(event[v]))'
             PROVE  (/\ \A k \in 1 .. Len(Plan[event[v]]) :
                           k < index[v] => Served(Plan[event[v]][k], event[v])
                     /\ pc[v] = "return" => Len(Plan[event[v]]) < index[v])'
    BY DEF WalkServes
<1>1. LocalTypes /\ WalkServes
    BY DEF Inv, TypeOK
<1>2. /\ event[w] \in Events /\ index[w] \in 1 .. Len(Plan[event[w]])
      /\ Plan[event[w]] \in Seq(Repos)
    BY <1>1, RepoType, ConstantTypes
<1>3. /\ pc' = [pc EXCEPT ![w] = IF index[w] = Len(Plan[event[w]]) THEN "return" ELSE "find"]
      /\ index' = [index EXCEPT ![w] = @ + 1]
      /\ event' = event
    BY DEF Finish
<1>4. retry'[v] = IF v = w THEN retry[w] \/ x ELSE retry[v]
    BY <1>1 DEF Finish, LocalTypes
<1>5. pc[v] # "idle" /\ event[v] \in Events /\ Plan[event[v]] \in Seq(Repos)
    <2>1. pc[v] # "idle"
        BY <1>1, <1>3 DEF LocalTypes
    <2> QED
        BY <1>1, <2>1, ConstantTypes DEF LocalTypes
<1>6. ~retry[v]
    BY <1>4
<1>7. ASSUME NEW k \in 1 .. Len(Plan[event[v]]), k < index[v]
      PROVE  Served(Plan[event[v]][k], event[v])'
    <2>1. Served(Plan[event[v]][k], event[v])
        BY <1>1, <1>3, <1>5, <1>6, <1>7 DEF WalkServes
    <2>2. Plan[event[v]][k] \in Repos
        BY <1>5
    <2> QED
        BY <1>5, <1>3, <2>1, <2>2 DEF Served, Kept
<1>8. CASE v = w
    <2>1. Served(r, e)'
        BY <1>4, <1>8
    <2>2. index'[w] = index[w] + 1 /\ index[w] \in Nat /\ Len(Plan[event[w]]) \in Nat
        BY <1>1, <1>2, <1>3 DEF LocalTypes
    <2>3. \A k \in 1 .. Len(Plan[event[w]]) : k < index'[w] => k < index[w] \/ k = index[w]
        BY <2>2
    <2>4. \A k \in 1 .. Len(Plan[event[w]]) :
              k = index[w] => Served(Plan[event[w]][k], event[w])'
        BY <2>1, <1>3, <1>2 DEF Repo, Served
    <2>5. pc'[w] = "return" => Len(Plan[event[w]]) < index'[w]
        BY <1>1, <1>2, <1>3, <2>2 DEF LocalTypes
    <2> QED
        BY <1>3, <1>7, <1>8, <2>3, <2>4, <2>5
<1>9. CASE v # w
    <2>1. pc'[v] = pc[v] /\ index'[v] = index[v]
        BY <1>1, <1>3, <1>9 DEF LocalTypes
    <2> QED
        BY <1>1, <1>3, <1>5, <1>6, <1>7, <2>1 DEF WalkServes
<1> QED
    BY <1>8, <1>9

(* No branch disappears.                                                   *)
BranchesKept ==
    \A r \in Repos, b \in Branches : branch[r][b] # NoCommit => branch'[r][b] # NoCommit

(* The other parts of the invariant across the end of the loop body.       *)
LEMMA FinishKeeps ==
    ASSUME Inv, NEW w \in Workers, NEW x \in BOOLEAN, pc[w] \notin {"idle", "return"},
           Finish(w, x), Kept, BranchesKept
    PROVE  MootNoted' /\ Pushed'
<1>1. LocalTypes /\ MootNoted /\ Pushed
    BY DEF Inv, TypeOK
<1>2. pc'[w] \in {"return", "find"} /\ event' = event
    BY <1>1 DEF Finish, LocalTypes
<1>3. ASSUME NEW v \in Workers, v # w
      PROVE  pc'[v] = pc[v] /\ tree'[v] = tree[v] /\ Repo(v)' = Repo(v)
    BY <1>1, <1>3 DEF Finish, LocalTypes, Repo
<1>4. ASSUME NEW v \in Workers, pc[v] \in HasTree
      PROVE  /\ Repo(v) \in Repos /\ event[v] \in Events
             /\ BranchOf[Repo(v)][event[v]] \in Branches
    BY <1>1, <1>4, RepoType DEF HasTree
<1>5. MootNoted'
    BY <1>1, <1>2, <1>3, <1>4 DEF MootNoted, Kept, HasTree
<1>6. Pushed'
    BY <1>1, <1>2, <1>3, <1>4 DEF Pushed, Kept, BranchesKept, HasTree
<1> QED
    BY <1>5, <1>6

(* The walk across a step that moves no worker to another repository.      *)
LEMMA StayServes ==
    ASSUME Inv, Kept,
           \A v \in Workers : pc'[v] # "idle" =>
               /\ pc[v] # "idle" /\ (pc'[v] = "return" => pc[v] = "return")
               /\ event'[v] = event[v] /\ index'[v] = index[v] /\ retry'[v] = retry[v]
    PROVE  WalkServes'
<1> SUFFICES ASSUME NEW v \in Workers,
                    (pc[v] # "idle" /\ ~retry[v] /\ Renders(event[v]))'
             PROVE  (/\ \A k \in 1 .. Len(Plan[event[v]]) :
                           k < index[v] => Served(Plan[event[v]][k], event[v])
                     /\ pc[v] = "return" => Len(Plan[event[v]]) < index[v])'
    BY DEF WalkServes
<1>1. LocalTypes /\ WalkServes
    BY DEF Inv, TypeOK
<1>2. event'[v] = event[v] /\ index'[v] = index[v] /\ (pc'[v] = "return" => pc[v] = "return")
    OBVIOUS
<1>3. pc[v] # "idle" /\ ~retry[v] /\ Renders(event[v])
    BY <1>2 DEF Renders
<1>4. event[v] \in Events /\ Plan[event[v]] \in Seq(Repos)
    BY <1>1, <1>3, ConstantTypes DEF LocalTypes
<1>5. ASSUME NEW k \in 1 .. Len(Plan[event[v]]), k < index[v]
      PROVE  Served(Plan[event[v]][k], event[v])'
    <2>1. Served(Plan[event[v]][k], event[v])
        BY <1>1, <1>3, <1>5 DEF WalkServes
    <2>2. Plan[event[v]][k] \in Repos
        BY <1>4
    <2> QED
        BY <1>2, <1>4, <2>1, <2>2 DEF Served, Kept
<1> QED
    BY <1>1, <1>2, <1>3, <1>5 DEF WalkServes

(* The parts of the invariant across a step within the loop body.          *)
LEMMA GotoKeeps ==
    ASSUME Inv, NEW w \in Workers, NEW l \in Label, pc[w] \notin {"idle", "return"},
           l \notin {"idle", "return"}, Goto(w, l), Kept, BranchesKept,
           l \in HasTree => pc[w] \in HasTree,
           l \in {"recheck", "recheckLegacy", "create"} =>
               \/ pc[w] \in {"recheck", "recheckLegacy", "create"}
               \/ branch'[Repo(w)][BranchOf[Repo(w)][event[w]]] # NoCommit
    PROVE  MootNoted' /\ Pushed' /\ WalkServes'
<1>1. LocalTypes /\ MootNoted /\ Pushed /\ WalkServes
    BY DEF Inv, TypeOK
<1>2. event' = event /\ index' = index /\ tree' = tree /\ retry' = retry
    BY DEF Goto
<1>3. pc'[w] = l /\ \A v \in Workers : v # w => pc'[v] = pc[v]
    BY <1>1 DEF Goto, LocalTypes
<1>4. \A v \in Workers : Repo(v)' = Repo(v)
    BY <1>2 DEF Repo
<1>5. ASSUME NEW v \in Workers, pc[v] \notin {"idle", "return"}
      PROVE  /\ Repo(v) \in Repos /\ event[v] \in Events
             /\ BranchOf[Repo(v)][event[v]] \in Branches
    BY <1>1, <1>5, RepoType
<1>6. MootNoted'
    BY <1>1, <1>2, <1>3, <1>4, <1>5 DEF MootNoted, Kept, HasTree
<1>7. Pushed'
    <2> SUFFICES ASSUME NEW v \in Workers, pc'[v] \in {"recheck", "recheckLegacy", "create"}
                 PROVE  \/ branch'[Repo(v)][BranchOf[Repo(v)][event[v]]] # NoCommit
                        \/ opened'[Repo(v)][event[v]]
        BY <1>2, <1>4 DEF Pushed
    <2>1. pc[v] \notin {"idle", "return"}
        BY <1>3
    <2>2. CASE pc[v] \in {"recheck", "recheckLegacy", "create"}
        BY <1>1, <1>5, <2>1, <2>2 DEF Pushed, Kept, BranchesKept
    <2>3. CASE pc[v] \notin {"recheck", "recheckLegacy", "create"}
        BY <1>3, <2>3
    <2> QED
        BY <2>2, <2>3
<1>8. WalkServes'
    BY <1>2, <1>3, StayServes
<1> QED
    BY <1>6, <1>7, <1>8

(* The parts of the invariant when no worker moves or some are reset.      *)
LEMMA ResetKeeps ==
    ASSUME Inv, NEW ws \in SUBSET Workers, Reset(ws) \/ UNCHANGED local, Kept,
           \A v \in Workers : pc[v] \in {"recheck", "recheckLegacy", "create"} =>
               \/ branch'[Repo(v)][BranchOf[Repo(v)][event[v]]] # NoCommit
               \/ opened'[Repo(v)][event[v]]
    PROVE  MootNoted' /\ Pushed' /\ WalkServes'
<1>1. LocalTypes /\ MootNoted /\ Pushed /\ WalkServes
    BY DEF Inv, TypeOK
<1>2. ASSUME NEW v \in Workers, pc'[v] # "idle"
      PROVE  /\ pc'[v] = pc[v] /\ event'[v] = event[v] /\ index'[v] = index[v]
             /\ tree'[v] = tree[v] /\ retry'[v] = retry[v] /\ Repo(v)' = Repo(v)
    BY <1>2 DEF Reset, local, Repo
<1>3. ASSUME NEW v \in Workers, pc[v] \notin {"idle", "return"}
      PROVE  Repo(v) \in Repos /\ event[v] \in Events
    BY <1>1, <1>3, RepoType
<1>4. MootNoted'
    BY <1>1, <1>2, <1>3 DEF MootNoted, Kept, HasTree
<1>5. Pushed'
    BY <1>2 DEF Pushed
<1>6. WalkServes'
    BY <1>2, StayServes
<1> QED
    BY <1>4, <1>5, <1>6

(* What was settled stays settled.                                         *)
LEMMA SettledKept == ASSUME Inv, Kept, settled' = settled PROVE NoLostUpdate'
<1>1. NoLostUpdate /\ settled \subseteq Events
    BY DEF Inv, TypeOK, HistoryTypes
<1> SUFFICES ASSUME NEW e \in settled, Renders(e), NEW k \in 1 .. Len(Plan[e])
             PROVE  Served(Plan[e][k], e)'
    BY DEF NoLostUpdate, Renders, Served
<1>2. Served(Plan[e][k], e)
    BY <1>1 DEF NoLostUpdate, Served
<1>3. Plan[e][k] \in Repos /\ e \in Events
    BY <1>1, ConstantTypes
<1> QED
    BY <1>2, <1>3 DEF Served, Kept

(* The invariant across the end of the loop body.                          *)
LEMMA FinishInv ==
    ASSUME Inv, TypeOK', NEW w \in Workers, NEW x \in BOOLEAN,
           pc[w] \notin {"idle", "return"}, Finish(w, x), Kept, BranchesKept,
           BranchesNamed', PullRequestsCounted', settled' = settled,
           NEW r \in Repos, r = Repo(w), NEW e \in Events, e = event[w],
           ~x => Served(r, e)'
    PROVE  Inv'
<1>1. WalkServes'
    BY FinishServes
<1>2. MootNoted' /\ Pushed'
    BY FinishKeeps
<1> QED
    BY <1>1, <1>2, SettledKept DEF Inv

(* The invariant across a step within the loop body.                       *)
LEMMA GotoInv ==
    ASSUME Inv, TypeOK', NEW w \in Workers, NEW l \in Label,
           pc[w] \notin {"idle", "return"}, l \notin {"idle", "return"},
           Goto(w, l), Kept, BranchesKept,
           l \in HasTree => pc[w] \in HasTree,
           l \in {"recheck", "recheckLegacy", "create"} =>
               \/ pc[w] \in {"recheck", "recheckLegacy", "create"}
               \/ branch'[Repo(w)][BranchOf[Repo(w)][event[w]]] # NoCommit,
           BranchesNamed', PullRequestsCounted', settled' = settled
    PROVE  Inv'
<1>1. MootNoted' /\ Pushed' /\ WalkServes'
    BY GotoKeeps
<1> QED
    BY <1>1, SettledKept DEF Inv

(* A local step leaves GitHub and the history alone.                       *)
LEMMA QuietKeeps ==
    ASSUME Inv, UNCHANGED <<github, history>>
    PROVE  /\ Kept /\ BranchesKept /\ BranchesNamed' /\ PullRequestsCounted'
           /\ settled' = settled /\ \A r, e : Served(r, e)' <=> Served(r, e)
    BY DEF Inv, github, history, Kept, BranchesKept, BranchesNamed, PullRequestsCounted, Served

(* A pull request found on a branch of the event was opened for it.        *)
LEMMA FoundMeansOpened ==
    ASSUME LegacyDistinct, Inv, NEW r \in Repos, NEW e \in Events,
           NEW b \in {BranchOf[r][e], LegacyName[r][e]}, pr[r][b] # "none"
    PROVE  opened[r][e]
<1>1. b \in Branches
    BY ConstantTypes
<1>2. GitHubTypes /\ BranchesNamed /\ PullRequestsCounted
    BY DEF Inv, TypeOK
<1>3. branch[r][b] # NoCommit
    BY <1>1, <1>2 DEF GitHubTypes
<1>4. branch[r][b].event = e
    BY <1>2, <1>3, HashedOwner, LegacyOwner
<1> QED
    BY <1>1, <1>2, <1>4 DEF PullRequestsCounted

(* A found pull request ends the repository: it was opened for the event.  *)
LEMMA ProbeInv ==
    ASSUME LegacyDistinct, Inv, TypeOK', NEW w \in Workers, EnsureNoOpenPullRequest(w)
    PROVE  Inv'
<1>1. pc[w] \in {"find", "findLegacy", "recheck", "recheckLegacy"} /\ UNCHANGED <<github, history>>
    BY DEF EnsureNoOpenPullRequest
<1>2. LocalTypes /\ Repo(w) \in Repos /\ event[w] \in Events
    BY <1>1, RepoType DEF Inv, TypeOK
<1>3. CASE Finish(w, TRUE)
    BY <1>1, <1>2, <1>3, QuietKeeps, FinishInv
<1>4. CASE pr[Repo(w)][Probed(w)] = "open" /\ Finish(w, FALSE)
    <2>1. opened[Repo(w)][event[w]]
        BY <1>2, <1>4, FoundMeansOpened DEF Probed
    <2>2. Served(Repo(w), event[w])
        BY <2>1 DEF Served
    <2> QED
        BY <1>1, <1>2, <1>4, <2>2, QuietKeeps, FinishInv
<1>5. CASE Goto(w, AfterProbe(w))
    <2>1. /\ AfterProbe(w) \in Label \ {"idle", "return"}
          /\ AfterProbe(w) \in HasTree => pc[w] \in {"recheck", "recheckLegacy"}
        BY <1>1 DEF AfterProbe, Label, HasTree
    <2> QED
        BY <1>1, <1>5, <2>1, QuietKeeps, GotoInv DEF HasTree
<1> QED
    BY <1>3, <1>4, <1>5 DEF EnsureNoOpenPullRequest

(* A checkout that leaves nothing to do is noted.                          *)
LEMMA CheckoutInv ==
    ASSUME Inv, TypeOK', NEW w \in Workers, Checkout(w)
    PROVE  Inv'
<1>1. pc[w] = "checkout" /\ UNCHANGED github
    BY DEF Checkout
<1>2. LocalTypes /\ HistoryTypes /\ MootNoted /\ Pushed /\ Repo(w) \in Repos /\ event[w] \in Events
    BY <1>1, RepoType DEF Inv, TypeOK
<1>3. CASE Finish(w, TRUE) /\ UNCHANGED history
    BY <1>1, <1>2, <1>3, QuietKeeps, FinishInv
<1>4. CASE /\ tree' = [tree EXCEPT ![w] = base[Repo(w)]]
           /\ pc' = [pc EXCEPT ![w] = "resolve"]
           /\ moot' = [moot EXCEPT ![Repo(w)][event[w]] =
                           @ \/ Moot(Repo(w), event[w], base[Repo(w)])]
           /\ UNCHANGED <<event, index, retry, opened, settled>>
    <2>1. Kept
        BY <1>2, <1>4 DEF Kept, HistoryTypes
    <2>2. BranchesNamed' /\ PullRequestsCounted'
        BY <1>1, <1>4 DEF Inv, BranchesNamed, PullRequestsCounted, github
    <2>3. \A v \in Workers : pc'[v] = IF v = w THEN "resolve" ELSE pc[v]
        BY <1>2, <1>4 DEF LocalTypes
    <2>4. \A v \in Workers : Repo(v)' = Repo(v)
        BY <1>4 DEF Repo
    <2>5. WalkServes'
        BY <1>1, <1>4, <2>1, <2>3, StayServes
    <2>6. Pushed'
        BY <1>1, <1>2, <1>4, <2>3, <2>4 DEF Pushed, github
    <2>7. MootNoted'
        <3> SUFFICES ASSUME NEW v \in Workers, pc'[v] \in HasTree,
                            Moot(Repo(v), event[v], tree'[v])
                     PROVE  moot'[Repo(v)][event[v]]
            BY <1>4, <2>4 DEF MootNoted
        <3>1. CASE v = w
            <4>1. tree'[w] = base[Repo(w)]
                BY <1>2, <1>4 DEF LocalTypes
            <4>2. Moot(Repo(w), event[w], base[Repo(w)])
                BY <3>1, <4>1
            <4> QED
                BY <1>2, <1>4, <3>1, <4>2 DEF HistoryTypes
        <3>2. CASE v # w
            <4>1. tree'[v] = tree[v] /\ pc'[v] = pc[v]
                BY <1>2, <1>4, <3>2 DEF LocalTypes
            <4>2. moot[Repo(v)][event[v]]
                BY <1>2, <4>1 DEF MootNoted
            <4>3. Repo(v) \in Repos /\ event[v] \in Events
                BY <1>2, <4>1, RepoType DEF HasTree
            <4> QED
                BY <2>1, <4>2, <4>3 DEF Kept
        <3> QED
            BY <3>1, <3>2
    <2> QED
        BY <1>4, <2>1, <2>2, <2>5, <2>6, <2>7, SettledKept DEF Inv
<1> QED
    BY <1>3, <1>4 DEF Checkout

(* A terminal error or ErrNoDifference comes with a checkout noted moot.   *)
LEMMA GivesUpServed ==
    ASSUME Inv, NEW w \in Workers, pc[w] \in HasTree, Moot(Repo(w), event[w], tree[w])
    PROVE  Served(Repo(w), event[w])
    BY DEF Inv, MootNoted, Served

(* Terminal resolve errors come from the noted checkout.                   *)
LEMMA ResolveInv ==
    ASSUME Inv, TypeOK', NEW w \in Workers, ResolveManifestTargets(w)
    PROVE  Inv'
<1>1. pc[w] = "resolve" /\ UNCHANGED <<github, history>>
    BY DEF ResolveManifestTargets
<1>2. LocalTypes /\ Repo(w) \in Repos /\ event[w] \in Events
    BY <1>1, RepoType DEF Inv, TypeOK
<1>3. CASE Finish(w, TRUE)
    BY <1>1, <1>2, <1>3, QuietKeeps, FinishInv
<1>4. CASE /\ \/ NothingMatches(Repo(w), event[w], tree[w])
              \/ Conflicting(Repo(w), event[w], tree[w])
           /\ Finish(w, FALSE)
    <2>1. Served(Repo(w), event[w])
        BY <1>1, <1>4, GivesUpServed DEF Moot, HasTree
    <2> QED
        BY <1>1, <1>2, <1>4, <2>1, QuietKeeps, FinishInv
<1>5. CASE Goto(w, "patch")
    BY <1>1, <1>5, QuietKeeps, GotoInv DEF Label, HasTree
<1> QED
    BY <1>3, <1>4, <1>5 DEF ResolveManifestTargets

(* So do unpatchable manifests and ErrNoDifference.                        *)
LEMMA PatchInv ==
    ASSUME Inv, TypeOK', NEW w \in Workers, PatchManifests(w)
    PROVE  Inv'
<1>1. pc[w] = "patch" /\ UNCHANGED <<github, history>>
    BY DEF PatchManifests
<1>2. LocalTypes /\ Repo(w) \in Repos /\ event[w] \in Events
    BY <1>1, RepoType DEF Inv, TypeOK
<1>3. CASE Finish(w, TRUE)
    BY <1>1, <1>2, <1>3, QuietKeeps, FinishInv
<1>4. CASE Unpatchable(Repo(w), event[w], tree[w]) # {} /\ Finish(w, FALSE)
    <2>1. Served(Repo(w), event[w])
        BY <1>1, <1>4, GivesUpServed DEF Moot, HasTree
    <2> QED
        BY <1>1, <1>2, <1>4, <2>1, QuietKeeps, FinishInv
<1>5. CASE /\ Unpatchable(Repo(w), event[w], tree[w]) = {}
           /\ Changed(Repo(w), event[w], tree[w]) = {}
           /\ Finish(w, FALSE)
    <2>1. \A d \in Selected(Repo(w), event[w], tree[w]) : tree[w][d][event[w].image] = event[w].tag
        BY <1>5 DEF Unpatchable, Changed
    <2>2. Served(Repo(w), event[w])
        BY <1>1, <2>1, GivesUpServed DEF Moot, HasTree
    <2> QED
        BY <1>1, <1>2, <1>5, <2>2, QuietKeeps, FinishInv
<1>6. CASE Goto(w, "commit")
    BY <1>1, <1>6, QuietKeeps, GotoInv DEF Label, HasTree
<1> QED
    BY <1>3, <1>4, <1>5, <1>6 DEF PatchManifests

(* A failed commit is retried, a commit changes nothing outside.           *)
LEMMA CommitInv ==
    ASSUME Inv, TypeOK', NEW w \in Workers, CommitChanges(w)
    PROVE  Inv'
<1>1. pc[w] = "commit" /\ UNCHANGED <<github, history>>
    BY DEF CommitChanges
<1>2. LocalTypes /\ Repo(w) \in Repos /\ event[w] \in Events
    BY <1>1, RepoType DEF Inv, TypeOK
<1>3. CASE Finish(w, TRUE)
    BY <1>1, <1>2, <1>3, QuietKeeps, FinishInv
<1>4. CASE Goto(w, "push")
    BY <1>1, <1>4, QuietKeeps, GotoInv DEF Label, HasTree
<1> QED
    BY <1>3, <1>4 DEF CommitChanges

(* After a push, accepted or rejected, the branch is there.                *)
LEMMA PushInv ==
    ASSUME Inv, TypeOK', NEW w \in Workers, Push(w)
    PROVE  Inv'
<1> DEFINE b == BranchOf[Repo(w)][event[w]]
           c == [event |-> event[w], fork |-> tree[w],
                 dirs |-> Changed(Repo(w), event[w], tree[w])]
<1>1. pc[w] = "push" /\ UNCHANGED <<base, pr, opened, moot, settled>>
    BY DEF Push, history
<1>2. /\ LocalTypes /\ GitHubTypes /\ BranchesNamed /\ PullRequestsCounted
      /\ Repo(w) \in Repos /\ event[w] \in Events /\ b \in Branches
    BY <1>1, RepoType DEF Inv, TypeOK
<1>3. CASE UNCHANGED branch /\ Finish(w, TRUE)
    BY <1>1, <1>2, <1>3, QuietKeeps, FinishInv DEF github, history
<1>4. CASE UNCHANGED branch /\ ~PushAccepted(w) /\ Goto(w, "recheck")
    <2>1. branch'[Repo(w)][BranchOf[Repo(w)][event[w]]] # NoCommit
        BY <1>4 DEF PushAccepted
    <2> QED
        BY <1>1, <1>4, <2>1, QuietKeeps, GotoInv DEF Label, HasTree, github, history
<1>5. CASE /\ PushAccepted(w)
           /\ Goto(w, "create") \/ Finish(w, TRUE)
           /\ branch' = [branch EXCEPT ![Repo(w)][b] = c]
    <2>1. c \in Commit
        <3>1. tree[w] \in Tree
            BY <1>1, <1>2 DEF LocalTypes, HasTree
        <3> QED
            BY <1>2, <3>1, ChangedType DEF Commit
    <2>2. c # NoCommit
        BY <2>1, SpecialValues
    <2>3. \A r \in Repos, a \in Branches :
              branch'[r][a] = IF r = Repo(w) /\ a = b THEN c ELSE branch[r][a]
        BY <1>2, <1>5 DEF GitHubTypes
    <2>4. BranchesKept
        BY <2>2, <2>3 DEF BranchesKept
    <2>5. Kept
        BY <1>1 DEF Kept
    <2>6. BranchesNamed'
        BY <1>2, <2>3 DEF BranchesNamed
    <2>7. pr[Repo(w)][b] = "none"
        BY <1>2, <1>5 DEF PushAccepted, GitHubTypes
    <2>8. PullRequestsCounted'
        BY <1>1, <1>2, <2>3, <2>7 DEF PullRequestsCounted
    <2>9. branch'[Repo(w)][BranchOf[Repo(w)][event[w]]] # NoCommit
        BY <1>2, <2>2, <2>3
    <2>10. CASE Finish(w, TRUE)
        BY <1>1, <1>2, <2>4, <2>5, <2>6, <2>8, <2>10, FinishInv
    <2>11. CASE Goto(w, "create")
        BY <1>1, <2>4, <2>5, <2>6, <2>8, <2>9, <2>11, GotoInv DEF Label, HasTree
    <2> QED
        BY <1>5, <2>10, <2>11
<1> QED
    BY <1>3, <1>4, <1>5 DEF Push

(* A refused pull request had its chance, or was unacceptable as such.     *)
LEMMA CreateInv ==
    ASSUME LegacyDistinct, Inv, TypeOK', NEW w \in Workers, CreatePullRequest(w)
    PROVE  Inv'
<1> DEFINE b == BranchOf[Repo(w)][event[w]]
<1>1. pc[w] = "create" /\ UNCHANGED <<base, branch, moot, settled>>
    BY DEF CreatePullRequest
<1>2. /\ LocalTypes /\ GitHubTypes /\ HistoryTypes /\ BranchesNamed /\ PullRequestsCounted /\ Pushed
      /\ Repo(w) \in Repos /\ event[w] \in Events /\ b \in Branches
    BY <1>1, RepoType DEF Inv, TypeOK
<1>3. CASE UNCHANGED <<pr, opened>> /\ Finish(w, TRUE)
    BY <1>1, <1>2, <1>3, QuietKeeps, FinishInv DEF github, history
<1>4. CASE UNCHANGED <<pr, opened>> /\ CanRefuse(Repo(w), event[w]) /\ Finish(w, FALSE)
    <2>1. Served(Repo(w), event[w])
        <3>1. CASE branch[Repo(w)][b] = NoCommit
            BY <1>1, <1>2, <3>1 DEF Pushed, Served
        <3>2. CASE pr[Repo(w)][b] \in {"open", "merged"}
            BY <1>2, <3>2, FoundMeansOpened DEF Served
        <3>3. CASE <<Repo(w), event[w]>> \in Unacceptable
            BY <3>3 DEF Served
        <3> QED
            BY <1>4, <3>1, <3>2, <3>3 DEF CanRefuse, CanOpen
    <2> QED
        BY <1>1, <1>2, <1>4, <2>1, QuietKeeps, FinishInv DEF github, history
<1>5. ASSUME NEW lost \in BOOLEAN, CanOpen(Repo(w), event[w]), Finish(w, lost),
             pr' = [pr EXCEPT ![Repo(w)][b] = "open"],
             opened' = [opened EXCEPT ![Repo(w)][event[w]] = TRUE]
      PROVE  Inv'
    <2>1. \A r \in Repos, e \in Events :
              opened'[r][e] = IF r = Repo(w) /\ e = event[w] THEN TRUE ELSE opened[r][e]
        BY <1>2, <1>5 DEF HistoryTypes
    <2>2. \A r \in Repos, a \in Branches :
              pr'[r][a] = IF r = Repo(w) /\ a = b THEN "open" ELSE pr[r][a]
        BY <1>2, <1>5 DEF GitHubTypes
    <2>3. Kept /\ BranchesKept /\ BranchesNamed'
        <3>1. Kept
            BY <1>1, <2>1 DEF Kept
        <3>2. BranchesKept /\ BranchesNamed'
            BY <1>1, <1>2 DEF BranchesKept, BranchesNamed
        <3> QED
            BY <3>1, <3>2
    <2>4. branch[Repo(w)][b].event = event[w]
        BY <1>2, <1>5, HashedOwner DEF CanOpen
    <2>5. ASSUME NEW r \in Repos, NEW a \in Branches, pr'[r][a] # "none"
          PROVE  opened'[r][branch[r][a].event]
        <3>1. CASE r = Repo(w) /\ a = b
            BY <1>2, <2>1, <2>4, <3>1
        <3>2. CASE ~(r = Repo(w) /\ a = b)
            <4>1. pr[r][a] # "none"
                BY <2>2, <2>5, <3>2
            <4>2. branch[r][a].event \in Events
                BY <1>2, <4>1 DEF GitHubTypes, Commit
            <4> QED
                BY <1>2, <2>1, <4>1, <4>2 DEF PullRequestsCounted
        <3> QED
            BY <3>1, <3>2
    <2>6. PullRequestsCounted'
        BY <1>1, <2>5 DEF PullRequestsCounted
    <2>7. opened'[Repo(w)][event[w]]
        BY <1>2, <2>1
    <2>8. PICK r \in Repos, e \in Events : r = Repo(w) /\ e = event[w]
        BY <1>2
    <2>9. Served(r, e)'
        BY <2>7, <2>8 DEF Served
    <2> QED
        BY <1>1, <1>5, <2>3, <2>6, <2>8, <2>9, FinishInv
<1> QED
    BY <1>3, <1>4, <1>5 DEF CreatePullRequest

(* Handle settles the event only when the whole walk was served.           *)
LEMMA ReturnInv ==
    ASSUME Inv, TypeOK', NEW w \in Workers, Return(w)
    PROVE  Inv'
<1>1. pc[w] = "return" /\ Reset({w}) /\ UNCHANGED <<base, branch, pr, opened, moot>>
    BY DEF Return, github
<1>2. /\ LocalTypes /\ HistoryTypes /\ BranchesNamed /\ PullRequestsCounted /\ Pushed
      /\ WalkServes /\ NoLostUpdate
    BY DEF Inv, TypeOK
<1>3. Kept /\ BranchesNamed' /\ PullRequestsCounted'
    BY <1>1, <1>2 DEF Kept, BranchesNamed, PullRequestsCounted
<1>4. MootNoted' /\ Pushed' /\ WalkServes'
    <2>1. \A v \in Workers : pc[v] \in {"recheck", "recheckLegacy", "create"} =>
               \/ branch'[Repo(v)][BranchOf[Repo(v)][event[v]]] # NoCommit
               \/ opened'[Repo(v)][event[v]]
        BY <1>1, <1>2 DEF Pushed
    <2> QED
        BY <1>1, <1>3, <2>1, ResetKeeps
<1>5. NoLostUpdate'
    <2> SUFFICES ASSUME NEW e \in settled', Renders(e), NEW k \in 1 .. Len(Plan[e])
                 PROVE  Served(Plan[e][k], e)
        BY <1>1 DEF NoLostUpdate, Renders, Served
    <2>1. CASE e \in settled
        BY <1>2, <2>1 DEF NoLostUpdate, Served
    <2>2. CASE e \notin settled
        <3>1. e = event[w] /\ ~retry[w]
            BY <2>2 DEF Return
        <3>2. event[w] \in Events /\ Plan[event[w]] \in Seq(Repos) /\ index[w] \in Nat
            BY <1>1, <1>2, ConstantTypes DEF LocalTypes
        <3>3. Len(Plan[event[w]]) < index[w]
            BY <1>1, <1>2, <3>1 DEF WalkServes
        <3>4. k \in 1 .. Len(Plan[event[w]]) /\ k < index[w]
            BY <3>1, <3>2, <3>3
        <3> QED
            BY <1>1, <1>2, <3>1, <3>4 DEF WalkServes
    <2> QED
        BY <2>1, <2>2
<1> QED
    BY <1>3, <1>4, <1>5 DEF Inv

(* A new walk has nothing behind it yet.                                   *)
LEMMA HandleInv ==
    ASSUME Inv, TypeOK', NEW w \in Workers, NEW e \in Events, Handle(w, e)
    PROVE  Inv'
<1>1. pc[w] = "idle" /\ UNCHANGED <<tree, retry, github, history>>
    BY DEF Handle
<1>2. LocalTypes /\ MootNoted /\ Pushed /\ WalkServes /\ Plan[e] \in Seq(Repos)
    BY ConstantTypes DEF Inv, TypeOK
<1>3. /\ event'[w] = e /\ index'[w] = 1 /\ pc'[w] \in {"find", "return"}
      /\ pc'[w] = "return" => Plan[e] = <<>> \/ ~Renders(e)
    BY <1>2 DEF Handle, LocalTypes
<1>4. ASSUME NEW v \in Workers, v # w
      PROVE  /\ pc'[v] = pc[v] /\ event'[v] = event[v] /\ index'[v] = index[v]
             /\ tree'[v] = tree[v] /\ retry'[v] = retry[v] /\ Repo(v)' = Repo(v)
    BY <1>1, <1>2, <1>4 DEF Handle, LocalTypes, Repo
<1>5. MootNoted'
    BY <1>1, <1>2, <1>3, <1>4 DEF MootNoted, HasTree, history
<1>6. Pushed'
    BY <1>1, <1>2, <1>3, <1>4 DEF Pushed, history, github
<1>7. WalkServes'
    <2> SUFFICES ASSUME NEW v \in Workers,
                        (pc[v] # "idle" /\ ~retry[v] /\ Renders(event[v]))'
                 PROVE  (/\ \A k \in 1 .. Len(Plan[event[v]]) :
                               k < index[v] => Served(Plan[event[v]][k], event[v])
                         /\ pc[v] = "return" => Len(Plan[event[v]]) < index[v])'
        BY DEF WalkServes
    <2>1. CASE v = w
        <3>1. Renders(e)
            BY <1>3, <2>1 DEF Renders
        <3>2. pc'[w] = "return" => Len(Plan[e]) < 1
            BY <1>2, <1>3, <3>1
        <3>3. \A k \in 1 .. Len(Plan[e]) : ~(k < 1)
            BY <1>2
        <3> QED
            BY <1>3, <2>1, <3>2, <3>3
    <2>2. CASE v # w
        <3>1. Renders(event[v]) /\ pc[v] # "idle" /\ ~retry[v]
            BY <1>4, <2>2 DEF Renders
        <3> QED
            BY <1>1, <1>2, <1>4, <2>2, <3>1 DEF WalkServes, Served, history
    <2> QED
        BY <2>1, <2>2
<1> QED
    BY <1>1, <1>5, <1>6, <1>7, QuietKeeps, SettledKept DEF Inv

(* People only take away branches that have, or had, a pull request.       *)
LEMMA PeopleInv ==
    ASSUME LegacyDistinct, ~BranchCleanup, Inv, TypeOK', People
    PROVE  Inv'
<1> DEFINE Harmless ==
        \A q \in Repos, a \in Branches :
                /\ pr'[q][a] # "none" => pr[q][a] # "none"
                /\ \/ branch'[q][a] = branch[q][a]
                   \/ branch'[q][a] = NoCommit /\ pr[q][a] # "none" /\ pr'[q][a] = "none"
<1>1. /\ LocalTypes /\ GitHubTypes /\ BranchesNamed /\ PullRequestsCounted /\ Pushed
    BY DEF Inv, TypeOK
<1>2. UNCHANGED <<local, history>>
    BY DEF People, Merge, Decline, DeleteBranch, EditBase
<1>3. Kept /\ settled' = settled /\ opened' = opened
    BY <1>2 DEF Kept, history
<1>4. Harmless
    <2>1. ASSUME NEW r \in Repos, NEW b \in Branches, Merge(r, b) \/ Decline(r, b)
          PROVE  Harmless
        <3>1. branch' = branch /\ pr[r][b] = "open"
            BY <2>1 DEF Merge, Decline
        <3>2. pr' = [pr EXCEPT ![r][b] = "merged"] \/ pr' = [pr EXCEPT ![r][b] = "closed"]
            BY <2>1 DEF Merge, Decline
        <3>3. \A q \in Repos, a \in Branches : (q = r /\ a = b) \/ pr'[q][a] = pr[q][a]
            BY <1>1, <3>2 DEF GitHubTypes
        <3> QED
            BY <3>1, <3>3
    <2>2. ASSUME NEW r \in Repos, NEW b \in Branches, DeleteBranch(r, b)
          PROVE  Harmless
        <3>1. pr[r][b] # "none"
            BY <2>2 DEF DeleteBranch
        <3>2. \A q \in Repos, a \in Branches :
                  /\ branch'[q][a] = IF q = r /\ a = b THEN NoCommit ELSE branch[q][a]
                  /\ pr'[q][a] = IF q = r /\ a = b THEN "none" ELSE pr[q][a]
            BY <1>1, <2>2 DEF DeleteBranch, GitHubTypes
        <3> QED
            BY <3>1, <3>2
    <2>3. ASSUME NEW x \in BaseEdits, EditBase(x[1], x[2], x[3])
          PROVE  Harmless
        BY <2>3 DEF EditBase
    <2> QED
        BY <2>1, <2>2, <2>3 DEF People
<1>5. BranchesNamed'
    BY <1>1, <1>4 DEF BranchesNamed
<1>6. PullRequestsCounted'
    BY <1>1, <1>3, <1>4 DEF PullRequestsCounted
<1>7. ASSUME NEW v \in Workers, pc[v] \in {"recheck", "recheckLegacy", "create"}
      PROVE  \/ branch'[Repo(v)][BranchOf[Repo(v)][event[v]]] # NoCommit
             \/ opened'[Repo(v)][event[v]]
    <2>1. /\ Repo(v) \in Repos /\ event[v] \in Events
          /\ BranchOf[Repo(v)][event[v]] \in Branches
        BY <1>1, <1>7, RepoType
    <2>2. CASE pr[Repo(v)][BranchOf[Repo(v)][event[v]]] # "none"
        BY <1>3, <2>1, <2>2, FoundMeansOpened
    <2>3. CASE pr[Repo(v)][BranchOf[Repo(v)][event[v]]] = "none"
        BY <1>1, <1>3, <1>4, <1>7, <2>1, <2>3 DEF Pushed
    <2> QED
        BY <2>2, <2>3
<1>8. MootNoted' /\ Pushed' /\ WalkServes'
    BY <1>2, <1>3, <1>7, ResetKeeps
<1> QED
    BY <1>3, <1>5, <1>6, <1>8, SettledKept DEF Inv

(* A crash forgets the walks and nothing else.                             *)
LEMMA CrashInv ==
    ASSUME Inv, TypeOK', NEW ws \in SUBSET Workers, Crash(ws)
    PROVE  Inv'
<1>1. Reset(ws) /\ UNCHANGED <<github, history>>
    BY DEF Crash
<1>2. MootNoted' /\ Pushed' /\ WalkServes'
    <2>1. \A v \in Workers : pc[v] \in {"recheck", "recheckLegacy", "create"} =>
               \/ branch'[Repo(v)][BranchOf[Repo(v)][event[v]]] # NoCommit
               \/ opened'[Repo(v)][event[v]]
        BY <1>1 DEF Inv, Pushed, github, history
    <2> QED
        BY <1>1, <2>1, QuietKeeps, ResetKeeps
<1> QED
    BY <1>1, <1>2, QuietKeeps, SettledKept DEF Inv

(* The invariant holds in the initial state.                               *)
LEMMA InitInv == Init => Inv
<1> SUFFICES ASSUME Init PROVE Inv
    OBVIOUS
<1>1. TypeOK /\ \A w \in Workers : pc[w] = "idle"
    BY InitType DEF Init
<1>2. ASSUME NEW r \in Repos, NEW b \in Branches, branch[r][b] # NoCommit
      PROVE  /\ LegacyAt[r][b] \in Events
             /\ branch[r][b].event = LegacyAt[r][b]
    <2>1. branch[r][b] = LET e == LegacyAt[r][b] IN
                    IF e = NoEvent THEN NoCommit
                    ELSE [event |-> e, fork |-> base[r], dirs |-> Changed(r, e, base[r])]
        BY DEF Init
    <2> QED
        BY <1>2, <2>1, ConstantTypes
<1>3. BranchesNamed
    BY <1>2, LegacyPlausible, SpecialValues DEF BranchesNamed
<1>4. ASSUME NEW r \in Repos, NEW b \in Branches, pr[r][b] # "none"
      PROVE  opened[r][branch[r][b].event]
    <2>1. branch[r][b] # NoCommit
        BY <1>1, <1>4 DEF TypeOK, GitHubTypes
    <2> QED
        BY <1>2, <2>1 DEF Init
<1>5. PullRequestsCounted
    BY <1>4 DEF PullRequestsCounted
<1>6. MootNoted /\ Pushed /\ WalkServes
    BY <1>1 DEF MootNoted, Pushed, WalkServes, HasTree
<1>7. NoLostUpdate
    BY DEF Init, NoLostUpdate
<1> QED
    BY <1>1, <1>3, <1>5, <1>6, <1>7 DEF Inv

(* Every step preserves the invariant.                                     *)
LEMMA NextInv ==
    ASSUME LegacyDistinct, ~BranchCleanup, Inv, [Next]_vars
    PROVE  Inv'
<1>1. TypeOK'
    BY NextType DEF Inv
<1>2. ASSUME NEW w \in Workers, Step(w) PROVE Inv'
    BY <1>1, <1>2, ProbeInv, CheckoutInv, ResolveInv, PatchInv, CommitInv, PushInv, CreateInv,
       ReturnInv DEF Step
<1>3. CASE UNCHANGED vars
    BY <1>1, <1>3 DEF vars, Inv, BranchesNamed, PullRequestsCounted, MootNoted, Pushed, WalkServes,
                      NoLostUpdate, Served, Repo, Renders
<1> QED
    BY <1>1, <1>2, <1>3, HandleInv, CrashInv, PeopleInv DEF Next

(* No update is lost, for every set of workers, events, rules and          *)
(* repositories and every interleaving of lookups, pushes, pull requests,  *)
(* failures, lost responses and crashes: an event that Handle settled got  *)
(* its pull request in every repository of its plan, unless the base of    *)
(* that repository left nothing to do or GitHub refuses the pull request   *)
(* as such.                                                                *)
THEOREM NoUpdateLost ==
    ASSUME LegacyDistinct, ~BranchCleanup
    PROVE  Spec => []NoLostUpdate
<1>1. Init => Inv
    BY InitInv
<1>2. Inv /\ [Next]_vars => Inv'
    BY NextInv
<1>3. Inv => NoLostUpdate
    BY DEF Inv
<1> QED
    BY <1>1, <1>2, <1>3, PTL DEF Spec

-----------------------------------------------------------------------------
(* What a worker proposes, and when *)

(* The pull request of the previous release for e is still open.           *)
LegacyOpen(r, e) ==
    pr[r][LegacyName[r][e]] = "open" /\ branch[r][LegacyName[r][e]].event = e

(* A worker that asks GitHub for anything has messages for every           *)
(* repository of its plan; it commits a tree it could patch everywhere;    *)
(* past the first lookups no legacy pull request of its update is open.    *)
RendersBefore ==
    \A w \in Workers : pc[w] \notin {"idle", "return"} => Renders(event[w])
CommitsWhole ==
    \A w \in Workers : pc[w] \in {"commit", "push"} =>
        Unpatchable(Repo(w), event[w], tree[w]) = {}
LegacySettled ==
    \A w \in Workers :
        pc[w] \notin {"idle", "return", "find", "findLegacy"} /\ HasLegacy(Repo(w), event[w])
            => ~LegacyOpen(Repo(w), event[w])

(* What one step does to a worker that is busy afterwards: nothing, the    *)
(* start of a walk or of its next repository, or a step within             *)
(* applyRepository that passed the checks made there.                      *)
Stays(w) ==
    /\ pc'[w] = pc[w] /\ event'[w] = event[w] /\ index'[w] = index[w] /\ tree'[w] = tree[w]
Starts(w) ==
    /\ pc'[w] = "find"
    /\ Renders(event'[w]) \/ (pc[w] \notin {"idle", "return"} /\ event'[w] = event[w])
Advances(w) ==
    /\ pc[w] \notin {"idle", "return"} /\ event'[w] = event[w] /\ index'[w] = index[w]
    /\ pc'[w] = "commit" => /\ tree'[w] = tree[w]
                            /\ Unpatchable(Repo(w), event[w], tree[w]) = {}
    /\ pc'[w] = "push" => pc[w] = "commit" /\ tree'[w] = tree[w]
    /\ pc[w] \in {"find", "findLegacy"} /\ pc'[w] # "findLegacy" =>
         \/ ~HasLegacy(Repo(w), event[w])
         \/ pr[Repo(w)][LegacyName[Repo(w)][event[w]]] # "open"

(* The end of a repository is the start of the next one, if any.           *)
LEMMA FinishMoves ==
    ASSUME LocalTypes, NEW w \in Workers, NEW x \in BOOLEAN, pc[w] \notin {"idle", "return"},
           Finish(w, x), NEW v \in Workers, pc'[v] \notin {"idle", "return"}
    PROVE  Stays(v) \/ Starts(v)
<1>1. CASE v = w
    BY <1>1 DEF Finish, LocalTypes, Starts
<1>2. CASE v # w
    BY <1>2 DEF Finish, LocalTypes, Stays
<1> QED
    BY <1>1, <1>2

(* A step to another label concerns one worker and leaves it its place.    *)
LEMMA GotoMoves ==
    ASSUME LocalTypes, NEW w \in Workers, NEW l, Goto(w, l), NEW v \in Workers
    PROVE  /\ v # w => Stays(v)
           /\ v = w => /\ pc'[w] = l /\ event'[w] = event[w] /\ index'[w] = index[w]
                       /\ tree'[w] = tree[w]
BY DEF Goto, LocalTypes, Stays

(* A reset leaves the other workers alone.                                 *)
LEMMA ResetMoves ==
    ASSUME LocalTypes, NEW ws \in SUBSET Workers, Reset(ws),
           NEW v \in Workers, pc'[v] \notin {"idle", "return"}
    PROVE  Stays(v)
<1>1. pc'[v] = IF v \in ws THEN "idle" ELSE pc[v]
    BY DEF Reset
<1>2. v \notin ws
    BY <1>1
<1> QED
    BY <1>2 DEF Reset, Stays

(* A lookup passes the first lookups only when the legacy pull request,    *)
(* if there can be one, is not open.                                       *)
LEMMA ProbeMoves ==
    ASSUME LocalTypes, NEW w \in Workers, EnsureNoOpenPullRequest(w),
           NEW v \in Workers, pc'[v] \notin {"idle", "return"}
    PROVE  Stays(v) \/ Starts(v) \/ Advances(v)
<1>1. pc[w] \in {"find", "findLegacy", "recheck", "recheckLegacy"}
    BY DEF EnsureNoOpenPullRequest
<1>2. CASE \E x \in BOOLEAN : Finish(w, x)
    BY <1>1, <1>2, FinishMoves
<1>3. CASE pr[Repo(w)][Probed(w)] # "open" /\ Goto(w, AfterProbe(w))
    <2>1. CASE v # w
        BY <1>3, <2>1, GotoMoves
    <2>2. CASE v = w
        <3>1. pc'[w] = AfterProbe(w) /\ event'[w] = event[w] /\ index'[w] = index[w]
            BY <1>3, <2>2, GotoMoves
        <3>2. AfterProbe(w) \in {"findLegacy", "recheckLegacy", "checkout", "create"}
            BY DEF AfterProbe
        <3>3. ASSUME pc[w] \in {"find", "findLegacy"}, AfterProbe(w) # "findLegacy"
              PROVE  \/ ~HasLegacy(Repo(w), event[w])
                     \/ pr[Repo(w)][LegacyName[Repo(w)][event[w]]] # "open"
            <4>1. CASE pc[w] = "find"
                BY <3>3, <4>1 DEF AfterProbe
            <4>2. CASE pc[w] = "findLegacy"
                BY <1>3, <4>2 DEF Probed
            <4> QED
                BY <3>3, <4>1, <4>2
        <3> QED
            BY <1>1, <2>2, <3>1, <3>2, <3>3 DEF Advances
    <2> QED
        BY <2>1, <2>2
<1> QED
    BY <1>2, <1>3 DEF EnsureNoOpenPullRequest

(* The steps between a checkout and a pull request.                        *)
LEMMA WorkMoves ==
    ASSUME LocalTypes, NEW w \in Workers,
           \/ Checkout(w) \/ ResolveManifestTargets(w) \/ PatchManifests(w)
           \/ CommitChanges(w) \/ Push(w) \/ CreatePullRequest(w),
           NEW v \in Workers, pc'[v] \notin {"idle", "return"}
    PROVE  Stays(v) \/ Starts(v) \/ Advances(v)
<1>1. pc[w] \in {"checkout", "resolve", "patch", "commit", "push", "create"}
    BY DEF Checkout, ResolveManifestTargets, PatchManifests, CommitChanges, Push,
           CreatePullRequest
<1>2. CASE \E x \in BOOLEAN : Finish(w, x)
    BY <1>1, <1>2, FinishMoves
<1>3. CASE /\ pc[w] = "checkout"
           /\ tree' = [tree EXCEPT ![w] = base[Repo(w)]]
           /\ pc' = [pc EXCEPT ![w] = "resolve"]
           /\ UNCHANGED <<event, index>>
    <2>1. CASE v = w
        <3>1. pc'[w] = "resolve" /\ event'[w] = event[w] /\ index'[w] = index[w]
            BY <1>3 DEF LocalTypes
        <3> QED
            BY <1>3, <2>1, <3>1 DEF Advances
    <2>2. CASE v # w
        BY <1>3, <2>2 DEF LocalTypes, Stays
    <2> QED
        BY <2>1, <2>2
<1>4. ASSUME NEW l \in {"patch", "commit", "push", "create", "recheck"}, Goto(w, l),
             pc[w] \in {"resolve", "patch", "commit", "push"},
             l = "commit" => Unpatchable(Repo(w), event[w], tree[w]) = {},
             l = "push" => pc[w] = "commit"
      PROVE  Stays(v) \/ Advances(v)
    <2>1. CASE v # w
        BY <1>4, <2>1, GotoMoves
    <2>2. CASE v = w
        <3>1. /\ pc'[w] = l /\ event'[w] = event[w] /\ index'[w] = index[w]
              /\ tree'[w] = tree[w]
            BY <1>4, GotoMoves
        <3> QED
            BY <1>4, <2>2, <3>1 DEF Advances
    <2> QED
        BY <2>1, <2>2
<1>5. CASE Checkout(w)
    BY <1>2, <1>3, <1>5 DEF Checkout
<1>6. CASE ResolveManifestTargets(w)
    BY <1>2, <1>4, <1>6 DEF ResolveManifestTargets
<1>7. CASE PatchManifests(w)
    BY <1>2, <1>4, <1>7 DEF PatchManifests
<1>8. CASE CommitChanges(w)
    BY <1>2, <1>4, <1>8 DEF CommitChanges
<1>9. CASE Push(w)
    BY <1>2, <1>4, <1>9 DEF Push
<1>10. CASE CreatePullRequest(w)
    BY <1>2, <1>10 DEF CreatePullRequest
<1> QED
    BY <1>5, <1>6, <1>7, <1>8, <1>9, <1>10

(* Every step of the system, as each worker sees it.                       *)
LEMMA Moves ==
    ASSUME LocalTypes, [Next]_vars, NEW v \in Workers, pc'[v] \notin {"idle", "return"}
    PROVE  Stays(v) \/ Starts(v) \/ Advances(v)
<1>1. ASSUME NEW w \in Workers, NEW e \in Events, Handle(w, e)
      PROVE  Stays(v) \/ Starts(v)
    <2>1. CASE v = w
        BY <1>1, <2>1 DEF Handle, LocalTypes, Starts
    <2>2. CASE v # w
        BY <1>1, <2>2 DEF Handle, LocalTypes, Stays
    <2> QED
        BY <2>1, <2>2
<1>2. ASSUME NEW w \in Workers, Step(w)
      PROVE  Stays(v) \/ Starts(v) \/ Advances(v)
    <2>1. CASE Return(w)
        BY <2>1, ResetMoves DEF Return
    <2> QED
        BY <1>2, <2>1, ProbeMoves, WorkMoves DEF Step
<1>3. ASSUME NEW ws \in SUBSET Workers, Crash(ws) PROVE Stays(v)
    BY <1>3, ResetMoves DEF Crash
<1>4. CASE People
    BY <1>4 DEF People, Merge, Decline, DeleteBranch, EditBase, local, Stays
<1>5. CASE UNCHANGED vars
    BY <1>5 DEF vars, Stays
<1> QED
    BY <1>1, <1>2, <1>3, <1>4, <1>5 DEF Next

(* A branch gets a commit only from a worker that pushes to its own        *)
(* hashed name.                                                            *)
LEMMA BranchMoves ==
    ASSUME TypeOK, [Next]_vars, NEW r \in Repos, NEW b \in Branches,
           branch'[r][b] # branch[r][b], branch'[r][b] # NoCommit
    PROVE  \E w \in Workers :
               /\ pc[w] = "push" /\ r = Repo(w) /\ b = BranchOf[r][event[w]]
               /\ branch'[r][b] = [event |-> event[w], fork |-> tree[w],
                                   dirs |-> Changed(r, event[w], tree[w])]
<1>1. GitHubTypes /\ LocalTypes
    BY DEF TypeOK
<1>2. ASSUME NEW w \in Workers, Push(w)
      PROVE  /\ pc[w] = "push" /\ r = Repo(w) /\ b = BranchOf[r][event[w]]
             /\ branch'[r][b] = [event |-> event[w], fork |-> tree[w],
                                 dirs |-> Changed(r, event[w], tree[w])]
    <2> DEFINE c == [event |-> event[w], fork |-> tree[w],
                     dirs |-> Changed(Repo(w), event[w], tree[w])]
               a == BranchOf[Repo(w)][event[w]]
    <2>1. pc[w] = "push"
        BY <1>2 DEF Push
    <2>2. Repo(w) \in Repos /\ a \in Branches
        BY <1>1, <2>1, RepoType
    <2>3. branch' = [branch EXCEPT ![Repo(w)][a] = c]
        BY <1>2 DEF Push
    <2> HIDE DEF c, a
    <2>4. r = Repo(w) /\ b = a
        BY <1>1, <2>2, <2>3 DEF GitHubTypes
    <2>5. branch'[r][b] = c
        BY <1>1, <2>2, <2>3, <2>4 DEF GitHubTypes
    <2> QED
        BY <2>1, <2>4, <2>5 DEF c, a
<1>3. ASSUME NEW w \in Workers, Step(w) PROVE Push(w)
    BY <1>3 DEF Step, EnsureNoOpenPullRequest, Checkout, ResolveManifestTargets,
       PatchManifests, CommitChanges, CreatePullRequest, Return, github
<1>4. ASSUME NEW q \in Repos, NEW a \in Branches, DeleteBranch(q, a) PROVE FALSE
    BY <1>1, <1>4 DEF DeleteBranch, GitHubTypes
<1>5. CASE People
    BY <1>4, <1>5 DEF People, Merge, Decline, EditBase
<1>6. CASE UNCHANGED vars
    BY <1>6 DEF vars
<1>7. ASSUME NEW w \in Workers, NEW e \in Events, Handle(w, e) PROVE FALSE
    BY <1>7 DEF Handle, github
<1>8. ASSUME NEW ws \in SUBSET Workers, Crash(ws) PROVE FALSE
    BY <1>8 DEF Crash, github
<1> QED
    BY <1>2, <1>3, <1>5, <1>6, <1>7, <1>8 DEF Next

(* A pull request is opened only by a worker, from its own hashed name.    *)
LEMMA OpenMoves ==
    ASSUME TypeOK, [Next]_vars, NEW r \in Repos, NEW b \in Branches,
           pr'[r][b] = "open", pr[r][b] # "open"
    PROVE  \E w \in Workers : pc[w] = "create" /\ r = Repo(w) /\ b = BranchOf[r][event[w]]
<1>1. GitHubTypes /\ LocalTypes
    BY DEF TypeOK
<1>2. ASSUME NEW w \in Workers, CreatePullRequest(w)
      PROVE  pc[w] = "create" /\ r = Repo(w) /\ b = BranchOf[r][event[w]]
    <2> DEFINE a == BranchOf[Repo(w)][event[w]]
    <2>1. pc[w] = "create"
        BY <1>2 DEF CreatePullRequest
    <2>2. Repo(w) \in Repos /\ a \in Branches
        BY <1>1, <2>1, RepoType
    <2>3. pr' = [pr EXCEPT ![Repo(w)][a] = "open"]
        BY <1>2 DEF CreatePullRequest
    <2> HIDE DEF a
    <2>4. r = Repo(w) /\ b = a
        BY <1>1, <2>2, <2>3 DEF GitHubTypes
    <2> QED
        BY <2>1, <2>4 DEF a
<1>3. ASSUME NEW w \in Workers, Step(w) PROVE CreatePullRequest(w)
    BY <1>3 DEF Step, EnsureNoOpenPullRequest, Checkout, ResolveManifestTargets,
       PatchManifests, CommitChanges, Push, Return, github
<1>4. ASSUME NEW q \in Repos, NEW a \in Branches,
             Merge(q, a) \/ Decline(q, a) \/ DeleteBranch(q, a)
      PROVE  FALSE
    <2>1. PICK x \in {"merged", "closed", "none"} : pr' = [pr EXCEPT ![q][a] = x]
        BY <1>4 DEF Merge, Decline, DeleteBranch
    <2> QED
        BY <1>1, <2>1 DEF GitHubTypes
<1>5. CASE People
    BY <1>4, <1>5 DEF People, EditBase
<1>6. CASE UNCHANGED vars
    BY <1>6 DEF vars
<1>7. ASSUME NEW w \in Workers, NEW e \in Events, Handle(w, e) PROVE FALSE
    BY <1>7 DEF Handle, github
<1>8. ASSUME NEW ws \in SUBSET Workers, Crash(ws) PROVE FALSE
    BY <1>8 DEF Crash, github
<1> QED
    BY <1>2, <1>3, <1>5, <1>6, <1>7, <1>8 DEF Next

(* Nothing happens to the branches of the previous release, except that    *)
(* their pull requests are merged, declined and deleted.                   *)
LEMMA LegacyOnlyCloses ==
    ASSUME TypeOK, [Next]_vars, NEW r \in Repos, NEW e \in Events, LegacyOpen(r, e)'
    PROVE  LegacyOpen(r, e)
<1> DEFINE l == LegacyName[r][e]
<1>1. l \in Branches /\ GitHubTypes /\ LocalTypes
    BY ConstantTypes DEF TypeOK
<1>2. ASSUME NEW w \in Workers, pc[w] \notin {"idle", "return"}, r = Repo(w)
      PROVE  l # BranchOf[r][event[w]]
    <2>1. event[w] \in Events
        BY <1>1, <1>2, RepoType
    <2> QED
        BY <2>1, BranchIdentity
<1>3. pr'[r][l] = "open" /\ branch'[r][l].event = e
    BY DEF LegacyOpen
<1> HIDE DEF l
<1>4. pr[r][l] = "open"
    <2> SUFFICES ASSUME pr[r][l] # "open" PROVE FALSE
        OBVIOUS
    <2>1. \E w \in Workers : pc[w] = "create" /\ r = Repo(w) /\ l = BranchOf[r][event[w]]
        BY <1>1, <1>3, OpenMoves
    <2> QED
        BY <1>2, <2>1
<1>5. branch'[r][l] = branch[r][l]
    BY <1>1, <1>4, OpenKept
<1> QED
    BY <1>3, <1>4, <1>5 DEF LegacyOpen, l

-----------------------------------------------------------------------------
(* All or nothing *)

RenderInv == TypeOK /\ RendersBefore /\ NothingPartlyApplied

(* No hashed branch exists before the workers push one.                    *)
LEMMA InitHashed ==
    ASSUME Init, NEW r \in Repos, NEW e \in Events
    PROVE  /\ BranchOf[r][e] \in Branches
           /\ branch[r][BranchOf[r][e]] = NoCommit /\ pr[r][BranchOf[r][e]] = "none"
<1> DEFINE b == BranchOf[r][e]
<1>1. b \in Branches
    BY ConstantTypes
<1>2. LegacyAt[r][b] = NoEvent
    <2> SUFFICES ASSUME LegacyAt[r][b] # NoEvent PROVE FALSE
        OBVIOUS
    <2>1. LegacyAt[r][b] \in Events /\ b = LegacyName[r][LegacyAt[r][b]]
        BY <1>1, ConstantTypes, LegacyPlausible
    <2> QED
        BY <2>1, BranchIdentity
<1> QED
    BY <1>1, <1>2 DEF Init

(* An event whose messages do not render for one of its repositories never *)
(* gets a branch in any of them, whatever the order of deliveries, workers *)
(* and failures: rendering comes before the first remote call.             *)
THEOREM AllOrNothing == Spec => []NothingPartlyApplied
<1>1. Init => RenderInv
    <2> SUFFICES ASSUME Init PROVE RenderInv
        OBVIOUS
    <2>1. RendersBefore
        BY DEF Init, RendersBefore
    <2>2. NothingPartlyApplied
        BY InitHashed DEF NothingPartlyApplied
    <2> QED
        BY <2>1, <2>2, InitType DEF RenderInv
<1>2. RenderInv /\ [Next]_vars => RenderInv'
    <2> SUFFICES ASSUME RenderInv, [Next]_vars PROVE RenderInv'
        OBVIOUS
    <2>1. TypeOK /\ LocalTypes /\ GitHubTypes /\ TypeOK'
        BY NextType DEF RenderInv, TypeOK
    <2>2. RendersBefore'
        <3> SUFFICES ASSUME NEW w \in Workers, pc'[w] \notin {"idle", "return"}
                     PROVE  Renders(event'[w])
            BY DEF RendersBefore, Renders
        <3>1. Stays(w) \/ Starts(w) \/ Advances(w)
            BY <2>1, Moves
        <3>2. CASE Renders(event'[w])
            BY <3>2
        <3>3. CASE pc[w] \notin {"idle", "return"} /\ event'[w] = event[w]
            BY <3>3 DEF RenderInv, RendersBefore
        <3> QED
            BY <3>1, <3>2, <3>3 DEF Stays, Starts, Advances
    <2>3. NothingPartlyApplied'
        <3> SUFFICES ASSUME NEW e \in Events, NEW r \in Repos, ~Renders(e),
                            branch'[r][BranchOf[r][e]] # NoCommit
                     PROVE  FALSE
            BY DEF NothingPartlyApplied, Renders
        <3>1. BranchOf[r][e] \in Branches /\ branch[r][BranchOf[r][e]] = NoCommit
            BY ConstantTypes DEF RenderInv, NothingPartlyApplied
        <3>2. PICK w \in Workers : /\ pc[w] = "push" /\ r = Repo(w)
                                   /\ BranchOf[r][e] = BranchOf[r][event[w]]
            BY <2>1, <3>1, BranchMoves
        <3>3. event[w] \in Events
            BY <2>1, <3>2, RepoType
        <3>4. e = event[w]
            BY <3>2, <3>3, BranchIdentity
        <3> QED
            BY <3>2, <3>4 DEF RenderInv, RendersBefore
    <2> QED
        BY <2>1, <2>2, <2>3 DEF RenderInv
<1>3. RenderInv => NothingPartlyApplied
    BY DEF RenderInv
<1> QED
    BY <1>1, <1>2, <1>3, PTL DEF Spec

-----------------------------------------------------------------------------
(* Whole repositories *)

(* The branches the previous release left behind were whole too.           *)
LegacyWhole ==
    \A r \in Repos, b \in Branches :
        LegacyAt[r][b] # NoEvent => Unpatchable(r, LegacyAt[r][b], InitialBase[r]) = {}

(* A commit c of repository r updates all that the rules select.           *)
WholeIn(r, c) ==
    \A d \in Selected(r, c.event, c.fork) :
        /\ Manages(c.fork[d], c.event.image)
        /\ Merged(c.fork, c)[d][c.event.image] = c.event.tag

WholeInv == TypeOK /\ CommitsWhole /\ WholeRepository

(* The commit of a tree that could be patched everywhere is whole.         *)
LEMMA PatchedIsWhole ==
    ASSUME NEW r \in Repos, NEW e \in Events, NEW tr \in Tree, Unpatchable(r, e, tr) = {},
           NEW c, c = [event |-> e, fork |-> tr, dirs |-> Changed(r, e, tr)]
    PROVE  WholeIn(r, c)
<1>1. c.event = e /\ c.fork = tr /\ c.dirs = Changed(r, e, tr)
    OBVIOUS
<1> SUFFICES ASSUME NEW d \in Selected(r, e, tr)
             PROVE  Manages(tr[d], e.image) /\ Merged(tr, c)[d][e.image] = e.tag
    BY <1>1 DEF WholeIn
<1>2. d \in Dirs /\ e.image \in Images /\ e.tag \in Tags
    BY ChangedType, EventType
<1>3. Manages(tr[d], e.image)
    BY DEF Unpatchable
<1>4. tr[d] \in [Images -> Tags \cup {Unmanaged}] /\ tr[d] \notin {Absent, Invalid}
    BY <1>2, <1>3 DEF Manages, Tree, Manifest
<1>5. Merged(tr, c)[d] = IF d \in Changed(r, e, tr)
                         THEN [tr[d] EXCEPT ![e.image] = e.tag] ELSE tr[d]
    BY <1>1, <1>2, <1>4 DEF Merged
<1>6. d \notin Changed(r, e, tr) => tr[d][e.image] = e.tag
    BY <1>3 DEF Changed
<1> QED
    BY <1>2, <1>3, <1>4, <1>5, <1>6

(* Every branch proposes a whole update of its repository, for every set   *)
(* of rules and every interleaving of checkouts, edits of the base and     *)
(* pushes, provided the previous release left whole branches.              *)
THEOREM BranchesAreWhole ==
    ASSUME LegacyWhole
    PROVE  Spec => []WholeRepository
<1>1. Init => WholeInv
    <2> SUFFICES ASSUME Init PROVE WholeInv
        OBVIOUS
    <2>1. CommitsWhole
        BY DEF Init, CommitsWhole
    <2>2. ASSUME NEW r \in Repos, NEW b \in Branches, branch[r][b] # NoCommit
          PROVE  WholeIn(r, branch[r][b])
        <3>1. branch[r][b] = LET e == LegacyAt[r][b] IN
                    IF e = NoEvent THEN NoCommit
                    ELSE [event |-> e, fork |-> base[r], dirs |-> Changed(r, e, base[r])]
            BY DEF Init
        <3>2. /\ LegacyAt[r][b] \in Events /\ base[r] \in Tree
              /\ Unpatchable(r, LegacyAt[r][b], base[r]) = {}
            <4>1. base = InitialBase
                BY DEF Init
            <4>2. LegacyAt[r][b] # NoEvent
                BY <2>2, <3>1
            <4>3. LegacyAt[r][b] \in Events /\ base[r] \in Tree
                BY <4>1, <4>2, ConstantTypes
            <4>4. Unpatchable(r, LegacyAt[r][b], InitialBase[r]) = {}
                BY <4>2 DEF LegacyWhole
            <4> QED
                BY <4>1, <4>3, <4>4
        <3> QED
            BY <2>2, <3>1, <3>2, PatchedIsWhole
    <2>3. WholeRepository
        BY <2>2 DEF WholeRepository, WholeIn
    <2> QED
        BY <2>1, <2>3, InitType DEF WholeInv
<1>2. WholeInv /\ [Next]_vars => WholeInv'
    <2> SUFFICES ASSUME WholeInv, [Next]_vars PROVE WholeInv'
        OBVIOUS
    <2>1. TypeOK /\ LocalTypes /\ TypeOK'
        BY NextType DEF WholeInv, TypeOK
    <2>2. CommitsWhole'
        <3> SUFFICES ASSUME NEW w \in Workers, pc'[w] \in {"commit", "push"}
                     PROVE  Unpatchable(Repo(w)', event'[w], tree'[w]) = {}
            BY DEF CommitsWhole, Unpatchable, Selected
        <3>1. Stays(w) \/ Advances(w)
            BY <2>1, Moves DEF Starts
        <3>2. Repo(w)' = Repo(w) /\ event'[w] = event[w] /\ tree'[w] = tree[w]
            BY <3>1 DEF Stays, Advances, Repo
        <3>3. Unpatchable(Repo(w), event[w], tree[w]) = {}
            BY <3>1 DEF Stays, Advances, WholeInv, CommitsWhole
        <3> QED
            BY <3>2, <3>3
    <2>3. ASSUME NEW r \in Repos, NEW b \in Branches, branch'[r][b] # NoCommit
          PROVE  WholeIn(r, branch'[r][b])
        <3>1. CASE branch'[r][b] = branch[r][b]
            BY <2>3, <3>1 DEF WholeInv, WholeRepository, WholeIn
        <3>2. CASE branch'[r][b] # branch[r][b]
            <4>1. PICK w \in Workers :
                      /\ pc[w] = "push" /\ r = Repo(w)
                      /\ branch'[r][b] = [event |-> event[w], fork |-> tree[w],
                                          dirs |-> Changed(r, event[w], tree[w])]
                BY <2>1, <2>3, <3>2, BranchMoves
            <4>2. event[w] \in Events /\ tree[w] \in Tree
                BY <2>1, <4>1, RepoType DEF LocalTypes, HasTree
            <4>3. Unpatchable(r, event[w], tree[w]) = {}
                BY <4>1 DEF WholeInv, CommitsWhole
            <4> QED
                BY <4>1, <4>2, <4>3, PatchedIsWhole
        <3> QED
            BY <3>1, <3>2
    <2>4. WholeRepository'
        BY <2>3 DEF WholeRepository, WholeIn
    <2> QED
        BY <2>1, <2>2, <2>4 DEF WholeInv
<1>3. WholeInv => WholeRepository
    BY DEF WholeInv
<1> QED
    BY <1>1, <1>2, <1>3, PTL DEF Spec

-----------------------------------------------------------------------------
(* One pull request per update *)

OnceInv == TypeOK /\ LegacySettled /\ OneOpenPullRequest

(* An update that the previous release proposed under the unhashed name is *)
(* not proposed again while that pull request is open: it cannot be        *)
(* reopened or replaced between the lookup and the pull request, whatever  *)
(* the other workers and the people do in between.                         *)
THEOREM ProposedOnce == Spec => []OneOpenPullRequest
<1>1. Init => OnceInv
    <2> SUFFICES ASSUME Init PROVE OnceInv
        OBVIOUS
    <2>1. LegacySettled
        BY DEF Init, LegacySettled
    <2>2. OneOpenPullRequest
        BY InitHashed DEF OneOpenPullRequest
    <2> QED
        BY <2>1, <2>2, InitType DEF OnceInv
<1>2. OnceInv /\ [Next]_vars => OnceInv'
    <2> SUFFICES ASSUME OnceInv, [Next]_vars PROVE OnceInv'
        OBVIOUS
    <2>1. TypeOK /\ LocalTypes /\ TypeOK'
        BY NextType DEF OnceInv, TypeOK
    <2>2. LegacySettled'
        <3> SUFFICES ASSUME NEW w \in Workers,
                            pc'[w] \notin {"idle", "return", "find", "findLegacy"},
                            HasLegacy(Repo(w), event[w])', LegacyOpen(Repo(w), event[w])'
                     PROVE  FALSE
            BY DEF LegacySettled
        <3>1. Stays(w) \/ Advances(w)
            BY <2>1, Moves DEF Starts
        <3>2. /\ pc[w] \notin {"idle", "return"} /\ event'[w] = event[w]
              /\ Repo(w)' = Repo(w)
            BY <3>1 DEF Stays, Advances, Repo
        <3>3. PICK r \in Repos, e \in Events : r = Repo(w) /\ e = event[w]
            BY <2>1, <3>2, RepoType
        <3>4. HasLegacy(r, e) /\ LegacyOpen(r, e)'
            BY <3>2, <3>3 DEF HasLegacy, LegacyOpen
        <3>5. LegacyOpen(r, e)
            BY <2>1, <3>4, LegacyOnlyCloses
        <3>6. CASE pc[w] \in {"find", "findLegacy"}
            BY <3>1, <3>3, <3>4, <3>5, <3>6 DEF Stays, Advances, LegacyOpen
        <3>7. CASE pc[w] \notin {"find", "findLegacy"}
            BY <3>2, <3>3, <3>4, <3>5, <3>7 DEF OnceInv, LegacySettled
        <3> QED
            BY <3>6, <3>7
    <2>3. OneOpenPullRequest'
        <3> SUFFICES ASSUME NEW r \in Repos, NEW e \in Events, LegacyOpen(r, e)',
                            HasLegacy(r, e), pr'[r][BranchOf[r][e]] = "open"
                     PROVE  FALSE
            BY DEF OneOpenPullRequest, LegacyOpen, HasLegacy
        <3>1. LegacyOpen(r, e) /\ BranchOf[r][e] \in Branches
            BY <2>1, LegacyOnlyCloses, ConstantTypes
        <3>2. pr[r][BranchOf[r][e]] # "open"
            BY <3>1 DEF OnceInv, OneOpenPullRequest, LegacyOpen
        <3>3. PICK w \in Workers : /\ pc[w] = "create" /\ r = Repo(w)
                                   /\ BranchOf[r][e] = BranchOf[r][event[w]]
            BY <2>1, <3>1, <3>2, OpenMoves
        <3>4. event[w] \in Events
            BY <2>1, <3>3, RepoType
        <3>5. e = event[w]
            BY <3>3, <3>4, BranchIdentity
        <3> QED
            BY <3>1, <3>3, <3>5 DEF OnceInv, LegacySettled
    <2> QED
        BY <2>1, <2>2, <2>3 DEF OnceInv
<1>3. OnceInv => OneOpenPullRequest
    BY DEF OnceInv
<1> QED
    BY <1>1, <1>2, <1>3, PTL DEF Spec

=============================================================================
