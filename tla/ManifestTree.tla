---------------------------- MODULE ManifestTree ----------------------------
(***************************************************************************)
(* Service.resolveManifestTargets with kustomize.Patcher.Resolve: from the *)
(* configured directory patterns of one repository to the directories of   *)
(* its checkout that are updated.  A pattern is fixed, or has one **, for  *)
(* which the tree is walked from the fixed prefix on.  One step per path   *)
(* component that rejectSymlinkPath inspects and one per file or directory *)
(* that the walk visits.                                                   *)
(*                                                                         *)
(* A path is the sequence of its segments.  The checkout is private to the *)
(* event, so the tree does not change.                                     *)
(***************************************************************************)
EXTENDS Naturals, Sequences, SequencesExt

CONSTANTS
    Paths,       \* the paths considered, closed under prefixes
    TreePool,    \* trees: functions from Paths to Kinds
    SourcePool,  \* what a plan asks for: sequences of [pattern, settings]
    FileName, GitDir

Kinds == {"absent", "dir", "file", "link"}

(* In a checkout, only directories have something below them.              *)
ASSUME CheckoutTrees ==
    /\ <<>> \in Paths
    /\ \A p \in Paths : p \in Seq(STRING) /\ \A k \in 0 .. Len(p) : SubSeq(p, 1, k) \in Paths
    /\ \A t \in TreePool :
          /\ t \in [Paths -> Kinds] /\ t[<<>>] = "dir"
          /\ \A p \in Paths : t[p] # "absent" =>
                \A k \in 0 .. Len(p) - 1 : t[SubSeq(p, 1, k)] = "dir"
(* validateManifestPath (rule.go:453) refuses a segment "." or ".." and    *)
(* splitPath drops empty ones, so that no pattern is absolute or leads out *)
(* of the checkout, which is why rejectSymlinkPath never refuses one.      *)
ASSUME PlannedSources ==
    /\ SourcePool \subseteq Seq([pattern : Seq(STRING), settings : STRING])
    /\ \A s \in SourcePool : \A k \in DOMAIN s : \A l \in DOMAIN s[k].pattern :
          s[k].pattern[l] \notin {"", ".", ".."}
ASSUME Names == FileName \in STRING /\ GitDir \in STRING \ {""}

VARIABLES
    tree, sources,  \* the input
    i,         \* the source being resolved
    pc,        \* inspect: rejectSymlinkPath; walk; done
    at,        \* how many components were inspected
    todo,      \* the paths the walk has yet to visit
    matches,   \* the directories found for the source
    resolved,  \* the targets so far: records [dir, settings]
    err

vars == <<tree, sources, i, pc, at, todo, matches, resolved, err>>

-----------------------------------------------------------------------------
(* Patterns *)

Recursive(p) == \E k \in DOMAIN p : p[k] = "**"
Wildcard(p)  == CHOOSE k \in DOMAIN p : p[k] = "**"
FixedPart(p) == IF Recursive(p) THEN SubSeq(p, 1, Wildcard(p) - 1) ELSE p

(* Mutant of matchesRecursiveManifestPath: prefix and suffix may overlap.  *)
Overlapping(pattern, candidate) ==
    LET w      == Wildcard(pattern)
        suffix == Len(pattern) - w
    IN  /\ Len(candidate) >= w - 1 /\ Len(candidate) >= suffix
        /\ \A k \in 1 .. w - 1 : pattern[k] = candidate[k]
        /\ \A k \in 0 .. suffix - 1 : pattern[Len(pattern) - k] = candidate[Len(candidate) - k]

matchesRecursiveManifestPath(pattern, candidate) ==
    LET w      == Wildcard(pattern)
        suffix == Len(pattern) - w
    IN  /\ Len(candidate) >= Len(pattern) - 1
        /\ \A k \in 1 .. w - 1 : pattern[k] = candidate[k]
        /\ \A k \in 0 .. suffix - 1 : pattern[Len(pattern) - k] = candidate[Len(candidate) - k]

-----------------------------------------------------------------------------
Init ==
    /\ tree \in TreePool
    /\ sources \in SourcePool
    /\ i = 1
    /\ pc = "inspect"
    /\ at = 0
    /\ todo = {}
    /\ matches = {}
    /\ resolved = {}
    /\ err = "none"

pattern == sources[i].pattern
Parent(p) == SubSeq(p, 1, Len(p) - 1)
KindOf(p) == IF p \in Paths THEN tree[p] ELSE "absent"

Fail(e) == pc' = "done" /\ err' = e /\ UNCHANGED <<i, at, todo, matches, resolved>>

(* The directories of a source join the targets, and the next source is    *)
(* resolved.                                                               *)
Resolved(dirs) ==
    /\ resolved' = resolved \cup {[dir |-> d, settings |-> sources[i].settings] : d \in dirs}
    /\ i' = i + 1
    /\ pc' = "inspect" /\ at' = 0 /\ todo' = {} /\ matches' = {}
    /\ UNCHANGED err

(* The fixed part was inspected: a fixed pattern is returned as it is,     *)
(* whether it exists or not, a recursive one walks from there.             *)
Inspected ==
    LET root == FixedPart(pattern)
    IN  \/ ~Recursive(pattern) /\ Resolved({pattern})
        \/ /\ Recursive(pattern) /\ KindOf(root) = "absent"
           /\ Fail("ErrManifestNotFound")
        \/ /\ Recursive(pattern) /\ KindOf(root) # "absent"
           /\ pc' = "walk" /\ todo' = {root}
           /\ UNCHANGED <<i, at, matches, resolved, err>>

(* Mutant of Inspect: only the last component is looked at.                *)
LastOnly ==
    LET fixed == FixedPart(pattern)
    IN  /\ pc = "inspect" /\ i <= Len(sources)
        /\ \/ fixed # <<>> /\ KindOf(fixed) = "link" /\ Fail("ErrInvalidManifest")
           \/ (fixed = <<>> \/ KindOf(fixed) # "link") /\ Inspected
        /\ UNCHANGED <<tree, sources>>

(* The loop of rejectSymlinkPath.  Below a file, Lstat fails with an error *)
(* that does not mean "does not exist".                                    *)
Inspect ==
    LET fixed == FixedPart(pattern)
        next  == SubSeq(fixed, 1, at + 1)
    IN  /\ pc = "inspect" /\ i <= Len(sources)
        /\ \/ at = Len(fixed) /\ Inspected
           \/ at < Len(fixed) /\ KindOf(Parent(next)) = "file" /\ Fail("other")
           \/ /\ at < Len(fixed) /\ KindOf(Parent(next)) # "file" /\ KindOf(next) = "absent"
              /\ Inspected
           \/ at < Len(fixed) /\ KindOf(next) = "link" /\ Fail("ErrInvalidManifest")
           \/ /\ at < Len(fixed) /\ KindOf(next) \in {"dir", "file"}
              /\ at' = at + 1
              /\ UNCHANGED <<i, pc, todo, matches, resolved, err>>
        /\ UNCHANGED <<tree, sources>>

Children(p) == {q \in Paths : q # <<>> /\ Parent(q) = p /\ tree[q] # "absent"}

(* The function given to WalkDir, for one path.  A symlink is not          *)
(* followed, whatever its name is.                                         *)
Visit(p) ==
    LET name == IF p = <<>> THEN "" ELSE Last(p)
    IN  /\ pc = "walk" /\ p \in todo
        /\ \/ /\ tree[p] = "dir"
              /\ todo' = (todo \ {p}) \cup (IF name = GitDir THEN {} ELSE Children(p))
              /\ UNCHANGED matches
           \/ /\ tree[p] # "dir"
              /\ todo' = todo \ {p}
              /\ \/ /\ name = FileName /\ tree[p] = "file"
                    /\ matchesRecursiveManifestPath(pattern, Parent(p))
                    /\ matches' = matches \cup {Parent(p)}
                 \/ /\ ~(/\ name = FileName /\ tree[p] = "file"
                         /\ matchesRecursiveManifestPath(pattern, Parent(p)))
                    /\ UNCHANGED matches
        /\ UNCHANGED <<tree, sources, i, pc, at, resolved, err>>

WalkEnd ==
    /\ pc = "walk" /\ todo = {}
    /\ \/ matches = {} /\ Fail("ErrManifestNotFound")
       \/ matches # {} /\ Resolved(matches)
    /\ UNCHANGED <<tree, sources>>

(* The context ends during the walk.                                       *)
Interrupt ==
    /\ pc = "walk" /\ todo # {}
    /\ Fail("canceled")
    /\ UNCHANGED <<tree, sources>>

(* normalizeManifestTargets: a directory reached twice is updated once, if *)
(* its settings agree.                                                     *)
Conflict == \E t, u \in resolved : t.dir = u.dir /\ t.settings # u.settings

Normalize ==
    /\ pc = "inspect" /\ i > Len(sources)
    /\ \/ Conflict /\ Fail("ErrIncompleteRule")
       \/ ~Conflict /\ pc' = "done" /\ UNCHANGED <<i, at, todo, matches, resolved, err>>
    /\ UNCHANGED <<tree, sources>>

Next ==
    \/ Inspect \/ WalkEnd \/ Interrupt \/ Normalize
    \/ \E p \in todo : Visit(p)
Spec == Init /\ [][Next]_vars

-----------------------------------------------------------------------------
(* Properties *)

(* The reference: the directories with a regular kustomization.yaml that   *)
(* the pattern describes, ** standing for any number of segments.  From    *)
(* the fixed part on, a .git is not entered.                               *)
Fits(p, d) ==
    \E n \in Len(FixedPart(p)) .. Len(d) :
        d = FixedPart(p) \o SubSeq(d, Wildcard(p), n) \o SubSeq(p, Wildcard(p) + 1, Len(p))
Reached(p) ==
    IF ~Recursive(p) THEN {p}
    ELSE {d \in Paths : /\ Fits(p, d) /\ KindOf(Append(d, FileName)) = "file"
                        /\ \A k \in DOMAIN d : k >= Len(FixedPart(p)) => d[k] # GitDir}

(* Nothing on the way to the fixed part is a symlink, or a file with       *)
(* something expected below it.                                            *)
Steps(d) == {SubSeq(d, 1, k) : k \in 1 .. Len(d)}
Passable(p) ==
    LET fixed == FixedPart(p)
    IN  /\ \A q \in Steps(fixed) : KindOf(q) # "link"
        /\ \A q \in Steps(fixed) \ {fixed} : KindOf(q) # "file"

(* Whatever the tree looks like, the directories updated are exactly those *)
(* the patterns describe: none is missed by the pruned walk, none is added *)
(* by a suffix that overlaps the prefix, and two patterns that meet in a   *)
(* directory are one target or a conflict.                                 *)
ExactlyMatching ==
    LET wanted == UNION {{[dir |-> d, settings |-> s.settings] : d \in Reached(s.pattern)} :
                            s \in Range(sources)}
        found  == \A s \in Range(sources) : Passable(s.pattern) /\ Reached(s.pattern) # {}
        clash  == \E t, u \in wanted : t.dir = u.dir /\ t.settings # u.settings
    IN  pc = "done" /\ err # "canceled" =>
            /\ err = "none" <=> found /\ ~clash
            /\ err = "ErrIncompleteRule" <=> found /\ clash
            /\ err = "none" => resolved = wanted

(* No target is reached through a symlink, so that what Patch writes stays *)
(* in the checkout.                                                        *)
NothingOutside ==
    \A t \in resolved : \A q \in Steps(t.dir) : KindOf(q) # "link"

=============================================================================
