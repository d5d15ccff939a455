SPECIFICATION Spec
CONSTANTS
    Users = {1}
    MaxUser = 1
    Events = {1, 2}
    None = None
    Visible <- SeesAll
    BatchSize = 1
    Kinds = {"worker"}
    HasWindow = TRUE
    DailyInWindow = FALSE
    MaxPrefs = 1
    MaxRestarts = 0
    MidPass = TRUE
    LikedChange = FALSE
    EventsVanish = FALSE
    AdminUnlikes = FALSE
    HalfRequests = FALSE
INVARIANT JudgementSurvives
