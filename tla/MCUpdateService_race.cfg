CONSTANTS
    w1 = w1  w2 = w2  r1 = r1  r2 = r2  d1 = d1  d2 = d2  d3 = d3
    Absent = Absent  Invalid = Invalid  Unmanaged = Unmanaged
    NoTree = NoTree  NoCommit = NoCommit  NoEvent = NoEvent
    Workers = {w1, w2}
    Repos = {r1}
    Dirs = {d1, d2}
    Images = {"shop/api"}
    Tags = {"v0", "v1"}
    Envs = {"dev"}
    Events <- RaceEvents
    Branches <- MCBranches
    Plan <- RacePlan
    TargetsOf <- RaceTargets
    BranchOf <- MCBranchOf
    LegacyName <- MCLegacyName
    LegacyAt <- NoLegacy
    Unrenderable = {}
    Unacceptable = {}
    InitialBase <- RaceBase
    BaseEdits <- RaceEdits
    BranchCleanup = FALSE
SPECIFICATION FairSpec
INVARIANT NoLostUpdate
PROPERTIES OpenPullRequestStable HandleReturns
