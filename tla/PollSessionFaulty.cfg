\* One receiver whose commits may fail and whose current row may be deleted.
SPECIFICATION Spec
CONSTANTS
    Receivers = {r1}
    Srefs = {a, b}
    KnownAtStart = {}
    None = None
    MinWatch = 2
    OfflineAfter = 1
    PollInterval = 1
    Retention = 3
    MaxTime = 5
    MaxRows = 3
    CommitMayFail = TRUE
    TrackedMayBeDeleted = TRUE
SYMMETRY Interchangeable
INVARIANT ConfirmedLongEnough
PROPERTY EndIsFinal
PROPERTY RestartSettlesSessions
