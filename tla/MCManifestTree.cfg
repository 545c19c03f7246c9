CONSTANTS
    Paths <- MCPaths
    TreePool <- MCTrees
    SourcePool <- MCSources
    FileName = "K"
    GitDir = ".git"
SPECIFICATION Spec
CHECK_DEADLOCK FALSE
INVARIANTS ExactlyMatching NothingOutside
