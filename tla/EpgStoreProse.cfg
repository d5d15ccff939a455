SPECIFICATION Spec
CONSTANTS
    None = None
    t1 = t1
    d1 = d1
    Starts = {1}
    Durations = {1, 2}
    Titles = {t1}
    Genres = {}
    Descs = {d1}
    MinEvents = 1
    Retention = 1
    MaxTime = 3
    MaxId = 4
    Tidy = TRUE
    MidFetch = FALSE
    Likes = FALSE
    Rates = TRUE
    MidRating = FALSE
INVARIANT ScoreMatchesPrompt
