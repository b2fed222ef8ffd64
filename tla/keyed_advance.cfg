CONSTANTS
    Tasks = {t1}
    Callers = {c1, c2}
    Keys = {k1, k2}
    Attempts = {r1, r2}
    NoKey = NoKey
    NoTool = NoTool
    NoClaim = NoClaim
    Def <- ThreeStages
    Asked <- AskedStages
    Elsewhere <- OtherStatuses
    MaxVersion = 2
SPECIFICATION Spec
SYMMETRY Symmetry
INVARIANTS MoveRemembered ToldTruth OncePerKey HotDuplicatesMoveOnce
CHECK_DEADLOCK FALSE
