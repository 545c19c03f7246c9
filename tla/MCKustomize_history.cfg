CONSTANTS
    Files <- MCFiles
    Updates <- MCUpdates
    MaxPatches = 3
SPECIFICATION Spec
CHECK_DEADLOCK FALSE
INVARIANTS EditsMatch RestUntouched RedeliveryIsNoop IdentifierKept BlockMerged
