---------------------------- MODULE UpdateService ----------------------------
(***************************************************************************)
(* The use case of image-updater: updater.Service.Handle, run concurrently *)
(* by several workers, against the GitHub repositories it updates through  *)
(* the git host adapter.                                                   *)
(*                                                                         *)
(* A worker walks the manifest repositories of its event one by one.  Each *)
(* remote call (look up a pull request, clone, push, open a pull request)  *)
(* is one atomic step that may succeed, fail before GitHub acted, or be    *)
(* applied by GitHub and still be reported as a failure.  Between the      *)
(* calls of a worker the other workers and the people who own the          *)
(* repositories act.                                                       *)
(***************************************************************************)
EXTENDS Naturals, Sequences

CONSTANTS
    Workers,       \* goroutines that run Handle
    Events,        \* pushed images: records [image, tag]
    Images, Tags,  \* image references and tags
    Repos,         \* manifest repositories
    Dirs,          \* directories of a manifest repository
    Envs,          \* environments named by the rules
    Branches,      \* git branch names
    Plan,          \* Plan[e]: the repositories of event e in key order, <<>>
                   \*   when plan() reports an error
    TargetsOf,     \* TargetsOf[r][e]: the manifest targets of e in r
    BranchOf,      \* BranchOf[r][e]: the hashed branch name
    LegacyName,    \* LegacyName[r][e]: the name used before the hash
    Unrenderable,  \* <<r, e>> whose messages do not render
    Unacceptable,  \* <<r, e>> whose pull request GitHub rejects as invalid
    InitialBase,   \* InitialBase[r]: the base branch when the system starts
    LegacyAt,      \* LegacyAt[r][b]: the event whose pull request the
                   \*   previous release left open on b, or NoEvent
    BaseEdits,     \* <<r, d, m>>: edits people make to a base branch
    BranchCleanup, \* TRUE when branches without pull request may be deleted
    Absent, Invalid, Unmanaged, NoTree, NoCommit, NoEvent

-----------------------------------------------------------------------------
(* Types *)

(* A directory has no kustomization.yaml, an unreadable one, or one whose  *)
(* images block gives each image a tag or does not mention it.             *)
Manifest == {Absent, Invalid} \cup [Images -> Tags \cup {Unmanaged}]
Tree     == [Dirs -> Manifest]
Target   == [dirs : SUBSET Dirs, recursive : BOOLEAN, env : Envs, block : BOOLEAN]
(* A pushed branch: the event, the base it was cut from and the            *)
(* directories its only commit changes.                                    *)
Commit   == [event : Events, fork : Tree, dirs : SUBSET Dirs]
PRState  == {"none", "open", "merged", "closed"}
Label    == {"idle", "find", "findLegacy", "checkout", "resolve", "patch", "commit",
             "push", "recheck", "recheckLegacy", "create", "return"}
HasTree  == {"resolve", "patch", "commit", "push", "recheck", "recheckLegacy", "create"}

ASSUME ConstantTypes ==
    /\ Events \subseteq [image : Images, tag : Tags]
    /\ Plan \in [Events -> Seq(Repos)]
    /\ TargetsOf \in [Repos -> [Events -> SUBSET Target]]
    /\ BranchOf \in [Repos -> [Events -> Branches]]
    /\ LegacyName \in [Repos -> [Events -> Branches]]
    /\ Unrenderable \subseteq Repos \X Events
    /\ Unacceptable \subseteq Repos \X Events
    /\ InitialBase \in [Repos -> Tree]
    /\ LegacyAt \in [Repos -> [Branches -> Events \cup {NoEvent}]]
    /\ BaseEdits \subseteq Repos \X Dirs \X Manifest
    /\ BranchCleanup \in BOOLEAN

ASSUME SpecialValues ==
    /\ NoEvent \notin Events
    /\ NoTree \notin Tree
    /\ NoCommit \notin Commit
    /\ Absent \notin [Images -> Tags \cup {Unmanaged}]
    /\ Invalid \notin [Images -> Tags \cup {Unmanaged}]
    /\ Unmanaged \notin Tags

(* SHA-256 over the full identity of an update: two events never share a   *)
(* hashed branch name, and no hashed name equals a legacy name.            *)
ASSUME BranchIdentity ==
    \A r \in Repos : \A e, f \in Events :
        /\ BranchOf[r][e] = BranchOf[r][f] => e = f
        /\ BranchOf[r][e] # LegacyName[r][f]

(* The previous release only left branches under its own names.            *)
ASSUME LegacyPlausible ==
    \A r \in Repos, b \in Branches :
        LegacyAt[r][b] # NoEvent => b = LegacyName[r][LegacyAt[r][b]]

-----------------------------------------------------------------------------
VARIABLES
    (* GitHub *)
    base,     \* base[r]: the tree of the base branch
    branch,   \* branch[r][b]: the commit of update branch b, or NoCommit
    pr,       \* pr[r][b]: the latest pull request opened from b
    (* the local state of each Handle call *)
    pc, event, index, tree, retry,
    (* history, read by the properties only *)
    opened,   \* opened[r][e]: a pull request for e was opened in r
    moot,     \* moot[r][e]: a checkout of r was seen that leaves e nothing to do
    settled   \* events for which Handle returned a nil or a terminal error

github  == <<base, branch, pr>>
local   == <<pc, event, index, tree, retry>>
history == <<opened, moot, settled>>
vars    == <<base, branch, pr, pc, event, index, tree, retry, opened, moot, settled>>

-----------------------------------------------------------------------------
(* What the directories of a checkout mean for an update *)

(* Patcher.Resolve: a literal path stands for itself whether it exists or  *)
(* not, a ** pattern for the directories that hold a kustomization.yaml.   *)
Resolve(t, tr) == IF t.recursive THEN {d \in t.dirs : tr[d] # Absent} ELSE t.dirs

Selected(r, e, tr) == UNION {Resolve(t, tr) : t \in TargetsOf[r][e]}

NothingMatches(r, e, tr) == \E t \in TargetsOf[r][e] : Resolve(t, tr) = {}

(* normalizeManifestTargets: one directory selected twice with different   *)
(* settings.                                                               *)
Conflicting(r, e, tr) ==
    \E t, u \in TargetsOf[r][e] :
        /\ Resolve(t, tr) \cap Resolve(u, tr) # {}
        /\ t.env # u.env \/ t.block # u.block

Manages(m, i) == m \notin {Absent, Invalid} /\ m[i] # Unmanaged

(* Mutant of Changed: only one manifest is patched.                        *)
ChangedOnce(r, e, tr) ==
    LET ds == {d \in Selected(r, e, tr) : Manages(tr[d], e.image) /\ tr[d][e.image] # e.tag}
    IN  IF ds = {} THEN {} ELSE {CHOOSE d \in ds : TRUE}

(* The directories Patch cannot edit, and the ones it rewrites.            *)
Unpatchable(r, e, tr) == {d \in Selected(r, e, tr) : ~Manages(tr[d], e.image)}
Changed(r, e, tr) ==
    {d \in Selected(r, e, tr) : Manages(tr[d], e.image) /\ tr[d][e.image] # e.tag}

(* A base branch in which the event has nothing to update, or nothing the  *)
(* rules and the manifests allow it to update.                             *)
Moot(r, e, tr) ==
    \/ NothingMatches(r, e, tr)
    \/ Conflicting(r, e, tr)
    \/ Unpatchable(r, e, tr) # {}
    \/ \A d \in Selected(r, e, tr) : tr[d][e.image] = e.tag

(* legacyRepositoryBranchName is empty unless there is exactly one target. *)
HasLegacy(r, e) ==
    /\ \E t \in TargetsOf[r][e] : TargetsOf[r][e] = {t}
    /\ LegacyName[r][e] # BranchOf[r][e]

-----------------------------------------------------------------------------
Init ==
    /\ base = InitialBase
    /\ branch = [r \in Repos |-> [b \in Branches |->
                    LET e == LegacyAt[r][b] IN
                    IF e = NoEvent THEN NoCommit
                    ELSE [event |-> e, fork |-> base[r], dirs |-> Changed(r, e, base[r])]]]
    /\ pr = [r \in Repos |-> [b \in Branches |->
                IF LegacyAt[r][b] = NoEvent THEN "none" ELSE "open"]]
    /\ pc = [w \in Workers |-> "idle"]
    /\ event = [w \in Workers |-> NoEvent]
    /\ index = [w \in Workers |-> 0]
    /\ tree = [w \in Workers |-> NoTree]
    /\ retry = [w \in Workers |-> FALSE]
    /\ opened = [r \in Repos |-> [e \in Events |-> \E b \in Branches : LegacyAt[r][b] = e]]
    /\ moot = [r \in Repos |-> [e \in Events |-> FALSE]]
    /\ settled = {}

-----------------------------------------------------------------------------
(* The steps of a worker *)

Repo(w) == Plan[event[w]][index[w]]

Goto(w, l) ==
    /\ pc' = [pc EXCEPT ![w] = l]
    /\ UNCHANGED <<event, index, tree, retry>>

(* Mutants: the last error wins; the walk goes one repository too far.     *)
LastErrorWins(w, retryable) ==
    /\ retry' = [retry EXCEPT ![w] = retryable]
    /\ tree' = [tree EXCEPT ![w] = NoTree]
    /\ index' = [index EXCEPT ![w] = @ + 1]
    /\ pc' = [pc EXCEPT ![w] = IF index[w] = Len(Plan[event[w]]) THEN "return" ELSE "find"]
    /\ UNCHANGED event
FinishOffByOne(w, retryable) ==
    /\ retry' = [retry EXCEPT ![w] = @ \/ retryable]
    /\ tree' = [tree EXCEPT ![w] = NoTree]
    /\ index' = [index EXCEPT ![w] = @ + 1]
    /\ pc' = [pc EXCEPT ![w] = IF index[w] > Len(Plan[event[w]]) THEN "return" ELSE "find"]
    /\ UNCHANGED event

(* applyRepository returned: the checkout is closed, the error joined with *)
(* the earlier ones, and apply continues with the next repository.         *)
Finish(w, retryable) ==
    /\ retry' = [retry EXCEPT ![w] = @ \/ retryable]
    /\ tree' = [tree EXCEPT ![w] = NoTree]
    /\ index' = [index EXCEPT ![w] = @ + 1]
    /\ pc' = [pc EXCEPT ![w] = IF index[w] = Len(Plan[event[w]]) THEN "return" ELSE "find"]
    /\ UNCHANGED event

(* The workers ws forget everything: Handle returned, or their process     *)
(* died.                                                                   *)
Reset(ws) ==
    /\ pc' = [w \in Workers |-> IF w \in ws THEN "idle" ELSE pc[w]]
    /\ event' = [w \in Workers |-> IF w \in ws THEN NoEvent ELSE event[w]]
    /\ index' = [w \in Workers |-> IF w \in ws THEN 0 ELSE index[w]]
    /\ tree' = [w \in Workers |-> IF w \in ws THEN NoTree ELSE tree[w]]
    /\ retry' = [w \in Workers |-> IF w \in ws THEN FALSE ELSE retry[w]]

Renders(e) == \A k \in 1 .. Len(Plan[e]) : <<Plan[e][k], e>> \notin Unrenderable

(* Mutant: the messages of a repository are rendered when it is reached.   *)
HandleRendersLate(w, e) ==
    /\ pc[w] = "idle"
    /\ event' = [event EXCEPT ![w] = e]
    /\ index' = [index EXCEPT ![w] = 1]
    /\ pc' = [pc EXCEPT ![w] = IF Plan[e] # <<>> THEN "find" ELSE "return"]
    /\ UNCHANGED <<tree, retry, github, history>>

(* plan() fails, or the messages of every repository are rendered before   *)
(* the first remote call; a failure of either is terminal.                 *)
Handle(w, e) ==
    /\ pc[w] = "idle"
    /\ event' = [event EXCEPT ![w] = e]
    /\ index' = [index EXCEPT ![w] = 1]
    /\ pc' = [pc EXCEPT ![w] = IF Plan[e] # <<>> /\ Renders(e) THEN "find" ELSE "return"]
    /\ UNCHANGED <<tree, retry, github, history>>

(* The branch looked up next.                                              *)
Probed(w) ==
    IF pc[w] \in {"find", "recheck"} THEN BranchOf[Repo(w)][event[w]]
                                     ELSE LegacyName[Repo(w)][event[w]]

(* Mutant: the branches of the previous release are forgotten.             *)
LegacyForgotten(w) == IF pc[w] = "find" THEN "checkout" ELSE "create"

(* Where ensureNoOpenPullRequest goes when that branch has no open pull    *)
(* request.                                                                *)
AfterProbe(w) ==
    LET first == pc[w] \in {"find", "findLegacy"}
    IN  IF pc[w] \in {"find", "recheck"} /\ HasLegacy(Repo(w), event[w])
        THEN IF first THEN "findLegacy" ELSE "recheckLegacy"
        ELSE IF first THEN "checkout" ELSE "create"

EnsureNoOpenPullRequest(w) ==
    /\ pc[w] \in {"find", "findLegacy", "recheck", "recheckLegacy"}
    /\ \/ Finish(w, TRUE)                                        \* the lookup failed
       \/ pr[Repo(w)][Probed(w)] = "open" /\ Finish(w, FALSE)    \* ErrDuplicatePullRequest
       \/ pr[Repo(w)][Probed(w)] # "open" /\ Goto(w, AfterProbe(w))
    /\ UNCHANGED <<github, history>>

Checkout(w) ==
    /\ pc[w] = "checkout"
    /\ \/ Finish(w, TRUE) /\ UNCHANGED history
       \/ /\ tree' = [tree EXCEPT ![w] = base[Repo(w)]]
          /\ pc' = [pc EXCEPT ![w] = "resolve"]
          /\ moot' = [moot EXCEPT ![Repo(w)][event[w]] =
                          @ \/ Moot(Repo(w), event[w], base[Repo(w)])]
          /\ UNCHANGED <<event, index, retry, opened, settled>>
    /\ UNCHANGED github

(* resolveManifestTargets: every pattern must match and no directory may   *)
(* be selected with two settings; only I/O failures are retried.           *)
ResolveManifestTargets(w) ==
    LET bad == \/ NothingMatches(Repo(w), event[w], tree[w])
               \/ Conflicting(Repo(w), event[w], tree[w])
    IN  /\ pc[w] = "resolve"
        /\ \/ Finish(w, TRUE)
           \/ bad /\ Finish(w, FALSE)
           \/ ~bad /\ Goto(w, "patch")
        /\ UNCHANGED <<github, history>>

(* CreateBranch and the patch loop in the working copy.  An unpatchable    *)
(* directory abandons the checkout, whatever was patched before it.        *)
PatchManifests(w) ==
    LET bad     == Unpatchable(Repo(w), event[w], tree[w]) # {}
        changed == Changed(Repo(w), event[w], tree[w]) # {}
    IN  /\ pc[w] = "patch"
        /\ \/ Finish(w, TRUE)
           \/ bad /\ Finish(w, FALSE)
           \/ ~bad /\ ~changed /\ Finish(w, FALSE)               \* ErrNoDifference
           \/ ~bad /\ changed /\ Goto(w, "commit")
        /\ UNCHANGED <<github, history>>

(* A manifest changed, so Commit finds a difference; only git can fail.    *)
CommitChanges(w) ==
    /\ pc[w] = "commit"
    /\ Finish(w, TRUE) \/ Goto(w, "push")
    /\ UNCHANGED <<github, history>>

(* Mutants: the push forces; a rejected push is taken for a duplicate; a   *)
(* rejected push starts the repository over.                               *)
PushForces(w) == TRUE
PushBody(w, rejected) ==
    LET b == BranchOf[Repo(w)][event[w]]
    IN  /\ pc[w] = "push"
        /\ \/ Finish(w, TRUE) /\ UNCHANGED branch
           \/ /\ branch[Repo(w)][b] = NoCommit
              /\ branch' = [branch EXCEPT ![Repo(w)][b] =
                     [event |-> event[w], fork |-> tree[w],
                      dirs |-> Changed(Repo(w), event[w], tree[w])]]
              /\ Goto(w, "create") \/ Finish(w, TRUE)
           \/ branch[Repo(w)][b] # NoCommit /\ rejected /\ UNCHANGED branch
        /\ UNCHANGED <<base, pr, history>>
RejectedIsDuplicate(w) == PushBody(w, Finish(w, FALSE))
RejectedStartsOver(w)  == PushBody(w, Goto(w, "find"))

(* The push never forces: a branch that exists on the remote rejects it.   *)
PushAccepted(w) == branch[Repo(w)][BranchOf[Repo(w)][event[w]]] = NoCommit

Push(w) ==
    LET b == BranchOf[Repo(w)][event[w]]
    IN  /\ pc[w] = "push"
        /\ \/ Finish(w, TRUE) /\ UNCHANGED branch
           \/ /\ PushAccepted(w)
              /\ branch' = [branch EXCEPT ![Repo(w)][b] =
                     [event |-> event[w], fork |-> tree[w],
                      dirs |-> Changed(Repo(w), event[w], tree[w])]]
              /\ \/ Goto(w, "create")
                 \/ Finish(w, TRUE)                              \* the response is lost
           \/ ~PushAccepted(w) /\ Goto(w, "recheck") /\ UNCHANGED branch
        /\ UNCHANGED <<base, pr, history>>

(* GitHub opens one pull request per head, from an existing branch whose   *)
(* commits the base may lack.                                              *)
CanOpen(r, e) ==
    /\ branch[r][BranchOf[r][e]] # NoCommit
    /\ pr[r][BranchOf[r][e]] # "open"
    /\ <<r, e>> \notin Unacceptable
CanRefuse(r, e) == ~CanOpen(r, e) \/ pr[r][BranchOf[r][e]] = "merged"

CreatePullRequest(w) ==
    /\ pc[w] = "create"
    /\ \/ Finish(w, TRUE) /\ UNCHANGED <<pr, opened>>
       \/ CanRefuse(Repo(w), event[w]) /\ Finish(w, FALSE)       \* ErrInvalidPullRequest
            /\ UNCHANGED <<pr, opened>>
       \/ /\ CanOpen(Repo(w), event[w])
          /\ pr' = [pr EXCEPT ![Repo(w)][BranchOf[Repo(w)][event[w]]] = "open"]
          /\ opened' = [opened EXCEPT ![Repo(w)][event[w]] = TRUE]
          /\ \E lost \in BOOLEAN : Finish(w, lost)
    /\ UNCHANGED <<base, branch, moot, settled>>

(* Handle returns the joined errors; the caller acknowledges the event     *)
(* unless one of them is retryable.                                        *)
Return(w) ==
    /\ pc[w] = "return"
    /\ settled' = IF retry[w] THEN settled ELSE settled \cup {event[w]}
    /\ Reset({w})
    /\ UNCHANGED <<github, opened, moot>>

(* A process dies with all its workers; their disposable checkouts are     *)
(* never looked at again.                                                  *)
Crash(ws) ==
    /\ \E w \in ws : pc[w] # "idle"
    /\ Reset(ws)
    /\ UNCHANGED <<github, history>>

Step(w) ==
    \/ EnsureNoOpenPullRequest(w) \/ Checkout(w) \/ ResolveManifestTargets(w)
    \/ PatchManifests(w) \/ CommitChanges(w) \/ Push(w) \/ CreatePullRequest(w)
    \/ Return(w)

-----------------------------------------------------------------------------
(* The owners of the manifest repositories *)

Merged(tr, c) ==
    [d \in Dirs |-> IF d \in c.dirs /\ tr[d] \notin {Absent, Invalid}
                    THEN [tr[d] EXCEPT ![c.event.image] = c.event.tag] ELSE tr[d]]

Merge(r, b) ==
    /\ pr[r][b] = "open"
    /\ base' = [base EXCEPT ![r] = Merged(@, branch[r][b])]
    /\ pr' = [pr EXCEPT ![r][b] = "merged"]
    /\ UNCHANGED <<branch, local, history>>

Decline(r, b) ==
    /\ pr[r][b] = "open"
    /\ pr' = [pr EXCEPT ![r][b] = "closed"]
    /\ UNCHANGED <<base, branch, local, history>>

DeleteBranch(r, b) ==
    /\ branch[r][b] # NoCommit
    /\ pr[r][b] # "open"
    /\ pr[r][b] = "none" => BranchCleanup
    /\ branch' = [branch EXCEPT ![r][b] = NoCommit]
    /\ pr' = [pr EXCEPT ![r][b] = "none"]
    /\ UNCHANGED <<base, local, history>>

EditBase(r, d, m) ==
    /\ base[r][d] # m
    /\ base' = [base EXCEPT ![r][d] = m]
    /\ UNCHANGED <<branch, pr, local, history>>

People ==
    \/ \E r \in Repos, b \in Branches : Merge(r, b) \/ Decline(r, b) \/ DeleteBranch(r, b)
    \/ \E x \in BaseEdits : EditBase(x[1], x[2], x[3])

Next ==
    \/ \E w \in Workers, e \in Events : Handle(w, e)
    \/ \E w \in Workers : Step(w)
    \/ \E ws \in SUBSET Workers : Crash(ws)
    \/ People

Spec     == Init /\ [][Next]_vars
FairSpec == Spec /\ \A w \in Workers : WF_vars(Step(w))

-----------------------------------------------------------------------------
(* Properties *)

GitHubTypes ==
    /\ base \in [Repos -> Tree]
    /\ branch \in [Repos -> [Branches -> Commit \cup {NoCommit}]]
    /\ pr \in [Repos -> [Branches -> PRState]]
    /\ \A r \in Repos, b \in Branches : pr[r][b] # "none" => branch[r][b] # NoCommit

LocalTypes ==
    /\ pc \in [Workers -> Label]
    /\ event \in [Workers -> Events \cup {NoEvent}]
    /\ index \in [Workers -> Nat]
    /\ tree \in [Workers -> Tree \cup {NoTree}]
    /\ retry \in [Workers -> BOOLEAN]
    /\ \A w \in Workers :
         /\ pc[w] # "idle" => event[w] \in Events
         /\ pc[w] \notin {"idle", "return"} => index[w] \in 1 .. Len(Plan[event[w]])
         /\ pc[w] \in HasTree => tree[w] \in Tree

HistoryTypes ==
    /\ opened \in [Repos -> [Events -> BOOLEAN]]
    /\ moot \in [Repos -> [Events -> BOOLEAN]]
    /\ settled \subseteq Events

(* Every variable keeps its type; a pull request has a branch; a worker    *)
(* that runs Handle has an event and a position in its plan, and past      *)
(* Checkout a tree.                                                        *)
TypeOK == GitHubTypes /\ LocalTypes /\ HistoryTypes

(* What Handle's return value promises: once it returned nil or a terminal *)
(* error (the queue message is deleted then), every repository of the plan *)
(* got a pull request for the event, or its base was seen to leave nothing *)
(* to do, or GitHub refuses the pull request as such.  In particular no    *)
(* crash, lost response or concurrent attempt between the push and the     *)
(* pull request makes the update disappear.                                *)
NoLostUpdate ==
    \A e \in settled : Renders(e) =>
        \A k \in 1 .. Len(Plan[e]) :
            LET r == Plan[e][k]
            IN  opened[r][e] \/ moot[r][e] \/ <<r, e>> \in Unacceptable

(* The branch under an open pull request is never rewritten: a redelivered *)
(* event or a concurrent worker cannot change what is being reviewed.      *)
OpenPullRequestStable ==
    [][\A r \in Repos, b \in Branches :
           pr[r][b] = "open" => branch'[r][b] = branch[r][b]]_vars

(* A pushed branch is a whole update of its repository: in the tree it     *)
(* proposes, every directory the rules select carries the pushed tag.      *)
WholeRepository ==
    \A r \in Repos, b \in Branches : branch[r][b] # NoCommit =>
        LET c == branch[r][b]
        IN  \A d \in Selected(r, c.event, c.fork) :
                /\ Manages(c.fork[d], c.event.image)
                /\ Merged(c.fork, c)[d][c.event.image] = c.event.tag

(* An event whose messages cannot be rendered for one repository leaves no *)
(* trace in any of them.                                                   *)
NothingPartlyApplied ==
    \A e \in Events, r \in Repos : ~Renders(e) => branch[r][BranchOf[r][e]] = NoCommit

(* An update whose pull request the previous release left open under the   *)
(* unhashed name is not proposed a second time under the hashed one.       *)
OneOpenPullRequest ==
    \A r \in Repos, e \in Events :
        LET l == LegacyName[r][e]
        IN  pr[r][l] = "open" /\ branch[r][l].event = e /\ HasLegacy(r, e)
                => pr[r][BranchOf[r][e]] # "open"

(* Every Handle call returns: no outcome of a call leaves the loop over    *)
(* the repositories spinning or stuck.                                     *)
HandleReturns == \A w \in Workers : pc[w] # "idle" ~> pc[w] = "idle"

=============================================================================
