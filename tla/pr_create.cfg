CONSTANTS
    Tasks = {t1}
    Ops = {o1}
    Callers = {c1, c2}
    Prs = {p1, p2}
    NoPr = NoPr
    NoOp = NoOp
    Merging = Merging
    MaxEdits = 2
SPECIFICATION FairSpec
INVARIANT OnePullRequest
PROPERTY CreationEnds
CHECK_DEADLOCK FALSE
