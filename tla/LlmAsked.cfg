SPECIFICATION FairSpec
CONSTANTS
    s1 = s1
    t1 = t1
    t2 = t2
    en = en
    k1 = k1
    None = None
    Callers = {s1, t1, t2}
    Scorers = {s1}
    Translators = {t1, t2}
    LastEvent = 4
    BatchSize = 3
    HalveMismatch = 2
    HalveOverflow = 1
    Langs = {en}
    Keys = {k1}
    Curated <- NoneCurated
INVARIANT SemaphoreKept
INVARIANT UsageOfResult
INVARIANT EachEventOnce
INVARIANT NobodyElsesScore
INVARIANT OneTaskPerLanguage
PROPERTY AskersEnd
