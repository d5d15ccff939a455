SPECIFICATION Spec
CONSTANTS
    None = None
    t1 = t1
    Starts = {1, 2}
    Durations = {1, 2}
    Titles = {t1}
    Genres = {}
    Descs = {}
    MinEvents = 1
    Retention = 1
    MaxTime = 5
    MaxId = 4
    Tidy = TRUE
    MidFetch = TRUE
    Likes = FALSE
    Rates = FALSE
    MidRating = FALSE
PROPERTY StartedStays
