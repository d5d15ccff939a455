\* A browser action claims what somebody else tunes to afterwards.
SPECIFICATION Spec
CONSTANTS
    r1 = r1
    Receivers = {r1}
    Seeds = {r1}
    None = None
    c1 = c1
    c2 = c2
    Channels = {c1, c2}
    u1 = u1
    u2 = u2
    Users = {u1, u2}
    first = u1
    DefaultUser <- FirstSitsThere
    Wakeable = {r1}
    q1 = q1
    q2 = q2
    Requests = {q1}
    MinWatch = 1
    ActiveTTL = 1
    Overlapping = FALSE
    BootsAsleep = FALSE
    Losses = FALSE
SYMMETRY Interchangeable
PROPERTY InfraredIsNobodys
