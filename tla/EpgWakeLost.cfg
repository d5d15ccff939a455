SPECIFICATION Spec
CONSTANTS
    r1 = r1
    Receivers = {r1}
    Switched = {r1}
    None = None
    Losses = TRUE
    UserMidCheck = FALSE
    MaxCrashes = 0
PROPERTY NeverCutInUse
