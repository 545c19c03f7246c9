CONSTANTS
    Apps = {a1, a2}
    ReportCancel = {a2}
    Arguments = {"none", "help", "version", "invalid"}
    Environments <- MCEnvironments
SPECIFICATION ProcSpec
CHECK_DEADLOCK FALSE
INVARIANTS NilMeansDrained FailureReported SignalIsClean AsConfigured
PROPERTY ShutdownBounded
