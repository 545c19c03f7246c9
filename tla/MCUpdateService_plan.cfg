CONSTANTS
    w1 = w1  w2 = w2  r1 = r1  r2 = r2  d1 = d1  d2 = d2  d3 = d3
    Absent = Absent  Invalid = Invalid  Unmanaged = Unmanaged
    NoTree = NoTree  NoCommit = NoCommit  NoEvent = NoEvent
    Workers = {w1}
    Repos = {r1, r2}
    Dirs = {d1, d2, d3}
    Images = {"shop/api", "pay/api"}
    Tags = {"v0", "v1", "v2"}
    Envs = {"dev", "prod"}
    Events <- PlanEvents
    Branches <- MCBranches
    Plan <- PlanPlan
    TargetsOf <- PlanTargets
    BranchOf <- MCBranchOf
    LegacyName <- MCLegacyName
    LegacyAt <- PlanLegacy
    Unrenderable <- PlanBadText
    Unacceptable <- PlanRefused
    InitialBase <- PlanBase
    BaseEdits <- PlanEdits
    BranchCleanup = FALSE
SPECIFICATION Spec
INVARIANTS TypeOK NoLostUpdate WholeRepository NothingPartlyApplied OneOpenPullRequest
