SPECIFICATION FairSpec
CONSTANTS
    r1 = r1
    r2 = r2
    Receivers = {r1, r2}
    Switched = {r1}
    None = None
    Losses = FALSE
    UserMidCheck = FALSE
    MaxCrashes = 1
INVARIANT OneTour
INVARIANT NoneLeftOn
PROPERTY NeverCutInUse
PROPERTY NeverZapInUse
PROPERTY HandedBack
