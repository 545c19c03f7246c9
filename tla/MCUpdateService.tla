--------------------------- MODULE MCUpdateService ---------------------------
(* Small instances of UpdateService.                                       *)
EXTENDS UpdateService, FiniteSets, TLC

CONSTANTS w1, w2, r1, r2, d1, d2, d3

Event(i, t) == [image |-> i, tag |-> t]
OneTarget(ds, rec) == {[dirs |-> ds, recursive |-> rec, env |-> "dev", block |-> FALSE]}
Hashed(e)      == [kind |-> "hash", of |-> e.image, tag |-> e.tag]
Legacy(tail, e) == [kind |-> "legacy", of |-> tail, tag |-> e.tag]
(* imageName drops the first path segment: the tail of both images is api. *)
MCBranches   == {Hashed(e) : e \in Events} \cup {Legacy("api", e) : e \in Events}
MCBranchOf   == [r \in Repos |-> [e \in Events |-> Hashed(e)]]
MCLegacyName == [r \in Repos |-> [e \in Events |-> Legacy("api", e)]]
NoLegacy     == [r \in Repos |-> [b \in MCBranches |-> NoEvent]]
ImagesAt(t)  == [i \in Images |-> t]

v1 == Event("shop/api", "v1")
v2 == Event("shop/api", "v2")
p1 == Event("pay/api", "v1")
p2 == Event("pay/api", "v2")

(* race: two workers handle one event.  Its repository has two directories *)
(* under a ** pattern; while the update is under way the second appears,   *)
(* readable or not, and the first stops managing the image.                *)
RaceEvents  == {v1}
RacePlan    == [e \in RaceEvents |-> <<r1>>]
RaceTargets == [r \in {r1} |-> [e \in RaceEvents |-> OneTarget({d1, d2}, TRUE)]]
RaceBase    == [r \in {r1} |-> (d1 :> ImagesAt("v0") @@ d2 :> Absent)]
RaceEdits   == {<<r1, d2, ImagesAt("v0")>>, <<r1, d2, Invalid>>,
                <<r1, d1, ImagesAt(Unmanaged)>>}

(* plan: one worker and two repositories.  v1 updates both: in r1 through  *)
(* two ** patterns and a literal path, which conflict once d2 exists; its  *)
(* pull request is unacceptable in r2.  The messages of v2 do not render   *)
(* for r2, and p1 has no plan.  The previous release left a pull request   *)
(* of p2 open.                                                             *)
PlanEvents  == {v1, v2, p1, p2}
PlanPlan    == (v1 :> <<r1, r2>> @@ v2 :> <<r1, r2>> @@ p1 :> <<>> @@ p2 :> <<r2>>)
PlanLegacy  == [r \in {r1, r2} |-> [b \in MCBranches |->
                    IF r = r2 /\ b = Legacy("api", p2) THEN p2 ELSE NoEvent]]
Overlapping == OneTarget({d1, d2}, TRUE) \cup OneTarget({d1}, FALSE) \cup
               {[dirs |-> {d2, d3}, recursive |-> TRUE, env |-> "prod", block |-> FALSE]}
PlanTargets == [r \in {r1, r2} |-> [e \in PlanEvents |->
                    IF r = r1 THEN Overlapping ELSE OneTarget({d1}, FALSE)]]
PlanBase    == [r \in {r1, r2} |->
                    (d1 :> ImagesAt("v0") @@ d2 :> Absent @@ d3 :> ImagesAt("v0"))]
PlanEdits   == {<<r1, d2, ImagesAt("v0")>>}
PlanBadText == {<<r2, v2>>}
PlanRefused == {<<r2, v1>>}

(* collision: the previous release left the pull request of p1 open; v1    *)
(* has the same image tail, environment and tag.                           *)
TwinEvents  == {v1, p1}
TwinPlan    == [e \in TwinEvents |-> <<r1>>]
TwinBase    == [r \in {r1} |-> (d1 :> ImagesAt("v0"))]
TwinTargets == [r \in {r1} |-> [e \in TwinEvents |-> OneTarget({d1}, FALSE)]]
TwinLegacy  == [r \in {r1} |-> [b \in MCBranches |->
                    IF b = Legacy("api", p1) THEN p1 ELSE NoEvent]]

=============================================================================
