CONSTANTS
    w1 = w1  w2 = w2  r1 = r1  r2 = r2  d1 = d1  d2 = d2  d3 = d3
    Absent = Absent  Invalid = Invalid  Unmanaged = Unmanaged
    NoTree = NoTree  NoCommit = NoCommit  NoEvent = NoEvent
    Workers = {w1}
    Repos = {r1}
    Dirs = {d1}
    Images = {"shop/api", "pay/api"}
    Tags = {"v0", "v1"}
    Envs = {"dev"}
    Events <- TwinEvents
    Branches <- MCBranches
    Plan <- TwinPlan
    TargetsOf <- TwinTargets
    BranchOf <- MCBranchOf
    LegacyName <- MCLegacyName
    LegacyAt <- TwinLegacy
    Unrenderable = {}
    Unacceptable = {}
    InitialBase <- TwinBase
    BaseEdits = {}
    BranchCleanup = FALSE
SPECIFICATION Spec
INVARIANT NoLostUpdate
