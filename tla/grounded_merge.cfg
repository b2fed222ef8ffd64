CONSTANTS
    Tasks = {t1, t2}
    Protected = {t1, t2}
    SpecOnly = {t1}
    Actors = {u1}
    Admins = {u1}
    Prs = {p1}
    Ops = {o1, o2}
    NoPr = NoPr
    NoOp = NoOp
    Outside = Outside
    MaxAttempts = 2
    MaxHead = 2
    MaxRevision = 2
SPECIFICATION FairSpec
INVARIANT ReservationsOwned
PROPERTIES MergedWithConsent MergeFollowed
CHECK_DEADLOCK FALSE
