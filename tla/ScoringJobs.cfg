SPECIFICATION Spec
CONSTANTS
    Users = {1}
    MaxUser = 1
    Events = {1}
    None = None
    Visible <- SeesAll
    BatchSize = 1
    Kinds = {"window", "debounced", "page", "bootstrap"}
    HasWindow = TRUE
    DailyInWindow = FALSE
    MaxPrefs = 2
    MaxRestarts = 1
    MidPass = TRUE
    LikedChange = TRUE
    EventsVanish = TRUE
    AdminUnlikes = TRUE
    HalfRequests = TRUE
INVARIANT FreshIsCurrent
PROPERTY LlmScoreOnlyLostToFailure
