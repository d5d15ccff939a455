SPECIFICATION FairSpec
CONSTANTS
    Users = {1}
    MaxUser = 1
    Events = {1, 2}
    None = None
    Visible <- SeesAll
    BatchSize = 1
    Kinds = {"worker", "watcher", "daily"}
    HasWindow = TRUE
    DailyInWindow = TRUE
    MaxPrefs = 0
    MaxRestarts = 0
    MidPass = FALSE
    LikedChange = FALSE
    EventsVanish = FALSE
    AdminUnlikes = FALSE
    HalfRequests = FALSE
INVARIANT JudgementSurvives
INVARIANT ExplicitHasLike
PROPERTY NoneDropped
PROPERTY QueuedGetsScored
PROPERTY RuleGetsUpgraded
PROPERTY StaleGetsRerated
