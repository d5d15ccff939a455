SPECIFICATION Spec
CONSTANTS
    None = None
    t1 = t1
    t2 = t2
    Starts = {1}
    Durations = {1, 2}
    Titles = {t1, t2}
    Genres = {}
    Descs = {}
    MinEvents = 1
    Retention = 1
    MaxTime = 3
    MaxId = 4
    Tidy = TRUE
    MidFetch = FALSE
    Likes = FALSE
    Rates = TRUE
    MidRating = TRUE
INVARIANT ScoreMatchesCompared
