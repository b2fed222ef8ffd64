SPECIFICATION ReviewSpec
CONSTANTS
  a1 = a1
  a2 = a2
  h1 = h1
  t1 = t1
  t2 = t2
  r1 = r1
  r2 = r2
  NoActor = NoActor
  NoRequest = NoRequest
  Gone = Gone
  Tasks = {t1, t2}
  Actors = {a1, h1}
  Agents = {a1}
  Admins = {h1}
  Requests = {r1, r2}
  Mode = "REQUIRES_DISTINCT_REVIEWER"
  Def <- DefaultWorkflow
  Creator <- MCCreator
  BlockedBy <- T2First
  Ops = {"claim", "start", "release", "finish", "review", "adminReassign", "issueClosed"}
  MaxVersion = 3
SYMMETRY RequestSymmetry
PROPERTIES ReassignKeepsSingleClaim StartedUnblocked
CHECK_DEADLOCK FALSE
