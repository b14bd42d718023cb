SPECIFICATION Spec
CONSTANTS
    MaxLogins = 2
    MaxRenewals = 1
    MaxRotations = 1
    MaxLogouts = 1
    MaxFaults = 1
    MaxLines = 2
    None = None
INVARIANTS OnlySignedIn AgreeWhenQuiet LogoutIsFinal
CHECK_DEADLOCK FALSE
