SPECIFICATION FairSpec
CONSTANTS
    Boxes = {1, 2}
    Channels = {1, 2}
    Lineup <- SharedChannel
    Jobs = {"hourly", "night"}
    Depths = {4}
    Important = {1, 2}
    Threshold = 85
    CoverHalves = 2
    MaxDays = 30
    MaxRestarts = 1
    Raisers = {1}
INVARIANT SweptMeansData
PROPERTY ForecastKept
PROPERTY SweptDaily
