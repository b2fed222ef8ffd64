SPECIFICATION ReviewSpec
CONSTANTS
  a1 = a1
  a2 = a2
  h1 = h1
  t1 = t1
  t2 = t2
  r1 = r1
  r2 = r2
  NoActor = NoActor
  NoRequest = NoRequest
  Gone = Gone
  Tasks = {t1}
  Actors = {a1, a2, h1}
  Agents = {a1, a2}
  Admins = {h1}
  Requests = {r1, r2}
  Mode = "REQUIRES_DISTINCT_REVIEWER"
  Def <- DefaultWorkflow
  Creator <- MCCreator
  BlockedBy <- NoBlockers
  Ops = {"merge", "githubMerge", "finish", "autoMerge", "reviewClaim", "reviewRelease", "adminReassign", "changesRequested", "externalMerge", "crash"}
  MaxVersion = 2
SYMMETRY RequestSymmetry
INVARIANTS ReservedSnapshotHolds
PROPERTIES MergeGateStands StepsAtomic
CHECK_DEADLOCK FALSE
