\* One box that is put to standby and woken again on the same channel.
SPECIFICATION Spec
CONSTANTS
    Receivers = {r1}
    Srefs = {a}
    KnownAtStart = {a}
    None = None
    MinWatch = 2
    OfflineAfter = 8
    PollInterval = 1
    Retention = 4
    MaxTime = 8
    MaxRows = 3
    CommitMayFail = FALSE
    TrackedMayBeDeleted = FALSE
SYMMETRY Interchangeable
INVARIANT WatchedIsAlwaysRecorded
