SPECIFICATION FairSpec
CONSTANTS
  a1 = a1
  a2 = a2
  h1 = h1
  t1 = t1
  t2 = t2
  r1 = r1
  r2 = r2
  NoActor = NoActor
  NoRequest = NoRequest
  Gone = Gone
  Tasks = {t1}
  Actors = {a1, h1}
  Agents = {a1}
  Admins = {h1}
  Requests = {r1, r2}
  Mode = "AUTONOMOUS"
  Def <- StagedWorkflow
  Creator <- MCCreator
  BlockedBy <- NoBlockers
  Ops = {"claim", "finish", "autoMerge", "advance", "transition", "crash", "patchResult", "prMerged"}
  MaxVersion = 4
PROPERTIES ResultKept ReservationEnds
CHECK_DEADLOCK FALSE
