\* One receiver, two channels: every way one box's sessions can go.
SPECIFICATION Spec
CONSTANTS
    Receivers = {r1}
    Srefs = {a, b}
    KnownAtStart = {}
    None = None
    MinWatch = 2
    OfflineAfter = 1
    PollInterval = 1
    Retention = 4
    MaxTime = 6
    MaxRows = 3
    CommitMayFail = FALSE
    TrackedMayBeDeleted = FALSE
SYMMETRY Interchangeable
INVARIANT OpenConfirmedIsTracked
INVARIANT NoOverlap
INVARIANT WatchedIsRecorded
PROPERTY LogIsKept
