SPECIFICATION Spec
CONSTANTS
  a1 = a1
  a2 = a2
  h1 = h1
  t1 = t1
  t2 = t2
  r1 = r1
  r2 = r2
  NoActor = NoActor
  NoRequest = NoRequest
  Gone = Gone
  Tasks = {t1}
  Actors = {a1, a2, h1}
  Agents = {a1, a2}
  Admins = {h1}
  Requests = {r1, r2}
  Mode = "REQUIRES_DISTINCT_REVIEWER"
  Def <- DefaultWorkflow
  Creator <- MCCreator
  BlockedBy <- NoBlockers
  Ops = {"claim", "start", "reviewClaim", "release", "reviewRelease", "abandon", "adminRelease", "adminReassign", "review", "finish", "creatorAbandon", "patch", "transition", "prMerged", "issueClosed", "changesRequested", "externalMerge"}
  MaxVersion = 3
SYMMETRY RequestSymmetry
INVARIANTS VersionIdentifiesStatus TerminalUnclaimed OffBoardUnclaimed DistinctHolders
PROPERTIES TerminalIsFinal HandlersAtomic ApprovedByDistinct ClaimKept
CHECK_DEADLOCK FALSE
