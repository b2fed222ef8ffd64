CONSTANTS
    Followers = {t1}
    BuiltIn <- Standard
    Offered <- MCOffered
    Templates <- MCTemplates
    Legacy <- MCLegacy
    MaxRows = 2
    Tasks = {t1, t2, t3}
    Items = {i1, i2, i3}
    MaxSize = 2
    CountCap = 1
    BytesCap = 1
    x = x
    y = y
    Refs = {x, y}
    NoRef = NoRef
    Batches <- SmallBatches
    Requests = {r1, r2}
    None = None
    Users = {u1, u2}
    Invites = {n1, n2}
    NoUser = NoUser
    NoInvite = NoInvite
    MaxDeaths = 1
SPECIFICATION MCSpec
INVARIANTS AttemptBindsCurrent CyclesAreRaced CapsHold FilesMatchRows ImportComplete FlagsAgree FlipMissedByOverlap LeaversHoldNothing
PROPERTIES EditStrandsNobody OnlyLateWritesStray
SYMMETRY Symmetry
CHECK_DEADLOCK FALSE
