CONSTANTS
    Files <- FlowFiles
    Updates <- MCUpdates
    MaxPatches = 1
SPECIFICATION Spec
CHECK_DEADLOCK FALSE
INVARIANT EditsMatch
