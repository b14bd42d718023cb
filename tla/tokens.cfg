CONSTANTS
    Interval = 20
    Overlap = 2
    Poll = 4
    Patience = 1
    MaxRotations = 3
    MaxFaults = 1
    MaxFlips = 1
    None = None
SPECIFICATION Spec
INVARIANTS BearerAccepted RefusedAtMost SettlesOnCurrent
CHECK_DEADLOCK FALSE
