SPECIFICATION Spec
CONSTANTS
    None = None
    t1 = t1
    g1 = g1
    d1 = d1
    Starts = {1, 2}
    Durations = {2}
    Titles = {t1}
    Genres = {g1}
    Descs = {d1}
    MinEvents = 1
    Retention = 0
    MaxTime = 3
    MaxId = 3
    Tidy = TRUE
    MidFetch = FALSE
    Likes = TRUE
    Rates = TRUE
    MidRating = FALSE
INVARIANT FutureIsUnified
INVARIANT ScoreMatchesCompared
PROPERTY StartedStays
