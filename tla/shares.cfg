CONSTANTS
    Users = {u1, u2}
    Invites = {n1}
    NoUser = NoUser
    NoInvite = NoInvite
    MaxDeaths = 0
SPECIFICATION Spec
INVARIANT SharedIsNotSolo
CHECK_DEADLOCK FALSE
