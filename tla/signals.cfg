CONSTANTS
    Agents = {a1, a2}
    People = {h1}
    Admin = h1
    Slots = {s1, s2}
    Calls = {c1}
    Nobody = Nobody
    Inbox = {h1}
    Handlers <- AllHandlers
    Edges <- GatedEdges
    MaxWrites = 3
SPECIFICATION LifeSpec
SYMMETRY Symmetry
INVARIANTS LateAskNotHanded ReviewersAsked
CHECK_DEADLOCK FALSE
