SPECIFICATION FairSpec
CONSTANTS
    r1 = r1
    Receivers = {r1}
    Switched = {}
    None = None
    Losses = FALSE
    UserMidCheck = FALSE
    MaxCrashes = 0
PROPERTY EachHandedBack
