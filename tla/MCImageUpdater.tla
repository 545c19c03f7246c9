--------------------------- MODULE MCImageUpdater ---------------------------
(* Small instances of ImageUpdater: one repository, one directory.         *)
EXTENDS ImageUpdater, TLC

CONSTANTS r1, d1

v1 == [image |-> "shop/api", tag |-> "v1"]
MCEvents     == {v1}
MCEventOf    == [m \in Decodable |-> v1]
MCBranches   == {"hashed", "legacy"}
MCPlan       == [e \in Events |-> <<r1>>]
MCTargetsOf  == [r \in Repos |-> [e \in Events |->
                    {[dirs |-> {d1}, recursive |-> FALSE, env |-> "dev", block |-> FALSE],
                     [dirs |-> {d1}, recursive |-> TRUE, env |-> "dev", block |-> FALSE]}]]
MCBranchOf   == [r \in Repos |-> [e \in Events |-> "hashed"]]
MCLegacyName == [r \in Repos |-> [e \in Events |-> "legacy"]]
MCLegacyAt   == [r \in Repos |-> [b \in Branches |-> NoEvent]]
MCBase       == [r \in Repos |-> [d \in Dirs |-> [i \in Images |-> "v0"]]]
=============================================================================
