CONSTANTS
    Second = 8
    Lease = 40
    MaxCall = 8
    Lifetime = 110
    Margin = 2
    Delay = 1
    Jitter = 2

SPECIFICATION BeatSpec
CHECK_DEADLOCK FALSE
INVARIANTS LeaseKept RenewalAccepted
PROPERTY RetryInTime
