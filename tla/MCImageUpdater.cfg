CONSTANTS
    r1 = r1  d1 = d1 
    Nobody = Nobody  Absent = Absent  Invalid = Invalid  Unmanaged = Unmanaged
    NoTree = NoTree  NoCommit = NoCommit  NoEvent = NoEvent
    Instances = {i1}
    Messages = {m1, m2}
    Decodable = {m1}
    MaxMessages = 2
    Concurrency = 2
    EventOf <- MCEventOf
    Events <- MCEvents
    Images = {"shop/api"}
    Tags = {"v0", "v1"}
    Repos = {r1}
    Dirs = {d1}
    Envs = {"dev"}
    Branches <- MCBranches
    Plan <- MCPlan
    TargetsOf <- MCTargetsOf
    BranchOf <- MCBranchOf
    LegacyName <- MCLegacyName
    LegacyAt <- MCLegacyAt
    Unrenderable = {}
    Unacceptable = {}
    InitialBase <- MCBase
    BaseEdits = {}
    BranchCleanup = FALSE
SPECIFICATION FairSpec
INVARIANT DeletedMeansUpdated
PROPERTIES EveryEventConcluded ShutdownCompletes
