SPECIFICATION Spec
CONSTANTS
    Timeout = 30
    MaxAttempts = 5
    FirstBackoff = 1
    MaxBackoff = 30
    MaxCrashes = 1
INVARIANTS
    TypeOK
    CleanStartCompletes
PROPERTIES
    QuickFailuresAreRetried
    StaysServing
