\* A poll whose commit fails keeps an id that another receiver's row then gets.
SPECIFICATION Spec
CONSTANTS
    Receivers = {r1, r2}
    Srefs = {a}
    KnownAtStart = {a}
    None = None
    MinWatch = 2
    OfflineAfter = 1
    PollInterval = 1
    Retention = 4
    MaxTime = 4
    MaxRows = 2
    CommitMayFail = TRUE
    TrackedMayBeDeleted = FALSE
SYMMETRY Interchangeable
INVARIANT ConfirmedLongEnough
