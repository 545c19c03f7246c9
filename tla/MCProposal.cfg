CONSTANTS
    RulePool <- MCRules
    EventPool <- MCEvents
    MaxRules = 3
    Variables <- MCVariables
    Unsafe <- MCUnsafe
    Fold <- MCFold
    BadNames = {"ref", ".."}
    Setups <- MCSetups
    PlainSetup <- MCPlain
    MaxVaried = 2
    Chars <- MCChars
SPECIFICATION ProposalSpec
CHECK_DEADLOCK FALSE
INVARIANTS MostSpecificWin PlanComplete OnePlanPerRepository BranchNamesEvent LabelsNeverStopUpdate StartupCatches
