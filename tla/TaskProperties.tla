-------------------------- MODULE TaskProperties --------------------------
(***************************************************************************)
(* What must hold of the life of a task, whatever requests, webhooks and   *)
(* crashes interleave. The type invariant is TypeOK of TaskLifecycle.      *)
(***************************************************************************)
EXTENDS TaskLifecycle

\* The step is one of request r, which is running.
StepOf(r) == req[r] # Idle /\ req'[r] # req[r]

Webhook(r) == req[r] # Idle /\ req[r].op \in WebhookOps

StatusChanges(t) == row'[t].status # row[t].status

-----------------------------------------------------------------------------
(* Separation of roles.                                                    *)

\* Under the distinct-reviewer rule no actor ever holds the work claim and the
\* review lock of one task, although /claim, /start, /review/claim and
\* admin-reassign each take one of them after reading the other.
DistinctHolders ==
    DistinctReviewer =>
        \A t \in Tasks : row[t].work # NoActor => row[t].work # row[t].review

\* At the moment a request takes a task out of review into a terminal status,
\* the row (not the snapshot the gate saw) has a review lock held by another
\* actor than the work claimant, and the request is not the claimant's own.
\* Exempt are an administrator's forced transition and the GitHub webhooks.
ApprovedByDistinct ==
    [][\A t \in Tasks, r \in Requests :
          /\ DistinctReviewer /\ StepOf(r) /\ req[r].task = t
          /\ ~Webhook(r) /\ req[r].op # "forced"
          /\ StatusChanges(t)
          /\ IsReview(Def, row[t].status) /\ IsTerminal(Def, row'[t].status)
          => /\ row[t].review \notin {NoActor, row[t].work}
             /\ req[r].actor # row[t].work]_vars

\* A claim leaves its holder only by the holder's own request, by an
\* administrator who read that same holder, with a terminal status, or, for a
\* review lock, when the task leaves review. In particular a release that was
\* overtaken by a reassignment never frees the new holder's claim.
MayLose(t, c, r) ==
    \/ req[r].actor = row[t][c]
    \/ /\ req[r].op \in {"adminRelease", "adminReassign"}
       /\ req[r].snap[c] = row[t][c]
    \/ IsTerminal(Def, row'[t].status)
    \/ c = "review" /\ IsReview(Def, row[t].status) /\ StatusChanges(t)

ClaimKept ==
    [][\A t \in Tasks, c \in Claims :
          row[t][c] # NoActor /\ row'[t][c] # row[t][c]
          => \E r \in Requests :
                StepOf(r) /\ req[r].task = t /\ MayLose(t, c, r)]_vars

\* An administrator's reassignment never gives an agent a second active claim,
\* whatever happened to the agent's other tasks since the handler's read.
ReassignKeepsSingleClaim ==
    [][\A r \in Requests, t \in Tasks, c \in Claims :
          /\ StepOf(r) /\ req[r].op = "adminReassign" /\ req[r].task = t
          /\ row'[t][c] # row[t][c] /\ row'[t][c] \in Agents
          => \A u \in Tasks \ {t} :
                /\ row[u].work = row'[t][c] => IsTerminal(Def, row[u].status)
                /\ row[u].review = row'[t][c] => ~IsReview(Def, row[u].status)]_vars

-----------------------------------------------------------------------------
(* The status.                                                             *)

\* Work begins on a task only while every task it waits for is finished or
\* abandoned. The handlers look at the blockers before the row lock, which is
\* enough as long as a finished blocker stays finished (TerminalIsFinal) and
\* neither a PATCH nor the webhook of a merged pull request brings an abandoned
\* one back in between.
StartedUnblocked ==
    [][\A t \in Tasks :
          row[t].status = Def.initial /\ row[t].work = NoActor /\ row'[t].work # NoActor
          => \A b \in BlockedBy[t] :
                IsTerminal(Def, row[b].status) \/ row[b].status = Abandoned]_vars

\* A status version names one status: a request that finds the version it read
\* finds the status it read, so a round trip back to the same status is never
\* taken for no change (the ABA hazard of a compare-and-swap on the status).
VersionIdentifiesStatus ==
    \A r \in Requests :
        req[r] # Idle =>
            LET s == req[r].snap  now == row[req[r].task] IN
            /\ s.version <= now.version
            /\ s.version = now.version => s.status = now.status

\* A finished task is reopened only along an edge its workflow has for that: a
\* release, an abandonment or a webhook that was decided earlier never does it.
TerminalIsFinal ==
    [][\A t \in Tasks :
          /\ IsTerminal(Def, row[t].status) /\ ~IsTerminal(Def, row'[t].status)
          => HasEdge(Def, row[t].status, row'[t].status)]_vars

NoClaims(t) == row[t].work = NoActor /\ row[t].review = NoActor

\* A finished task has no work claim and no review lock: a claim left on it
\* becomes active again with the next workflow the task gets.
TerminalUnclaimed ==
    \A t \in Tasks : IsTerminal(Def, row[t].status) => NoClaims(t)

\* A backlog or abandoned task has no claim, although claiming and demoting,
\* discarding or abandoning run against each other.
OffBoardUnclaimed ==
    \A t \in Tasks : row[t].status \in {Backlog, Abandoned} => NoClaims(t)

-----------------------------------------------------------------------------
(* The merge.                                                              *)

Merging(r, t) == req[r] # Idle /\ req[r].task = t /\ row[t].lock = r

\* When a handler that still holds its reservation has GitHub merge, the
\* self-merge rule and the approval it checked before are true of the row as
\* it is then. (A webhook may have moved the task on meanwhile.)
MergeGateStands ==
    [][\A t \in Tasks, r \in Requests :
          /\ Merging(r, t) /\ pull'[t] # pull[t] /\ StepOf(r)
          => /\ SelfMergeGate(t, req[r].actor)
             /\ IsReview(Def, row[t].status) => ApprovalGate(t, req[r].actor)]_vars

\* From the reservation to the write that records the merge the row is what
\* the handler read, or a webhook took it further: nothing else can make the
\* write of a finished merge lose while the lease lasts.
ReservedSnapshotHolds ==
    \A t \in Tasks, r \in Requests :
        Merging(r, t) /\ req[r].pc \in {"call", "record"}
        => Unchanged(t, req[r].snap) \/ row[t].version > req[r].snap.version

\* The write of a handler that holds the live reservation, against a row that
\* is still what it read, lands.
OwnReservationAllows ==
    [][\A t \in Tasks, r \in Requests :
          /\ Merging(r, t) /\ StepOf(r) /\ Unchanged(t, req[r].snap)
          /\ req[r].pc \in {"write", "record"}
          => row'[t] # row[t]]_vars

\* Completing a merge on a row another writer took to the target keeps the
\* result that writer, or a PATCH, stored.
ResultKept ==
    [][\A r \in Requests :
          StepOf(r) /\ req[r].pc = "retry" /\ row[req[r].task].result # NoRequest
          => row'[req[r].task].result = row[req[r].task].result]_vars

-----------------------------------------------------------------------------
(* The abstraction.                                                        *)

\* What the board shows of a row: no versions, reservations or results.
OnBoard(rw) == [status |-> rw.status, work |-> rw.work, review |-> rw.review]

BoardTask == [t \in Tasks |-> OnBoard(row[t])]
BoardMerged == [t \in Tasks |-> pull[t] # "open"]

Board == INSTANCE TaskBoard WITH
            task <- BoardTask,
            merged <- BoardMerged,
            Forcers <- IF "transition" \in Ops THEN Admins ELSE {},
            Reports <- Ops \cap WebhookOps

\* Every handler takes effect in one step, on the task as it is at that step:
\* what other requests, webhooks, crashes and lapsed leases do between its
\* read and its write never lets it do what it could not do at once.
HandlersAtomic == Board!Spec

\* The same from any first state, for runs that begin in review.
StepsAtomic == [][Board!Next]_(Board!vars)

-----------------------------------------------------------------------------
(* Progress.                                                               *)

\* A reservation never outlives its lease, so a crashed merge or one with an
\* unknown outcome keeps claim writers out for a while only.
ReservationEnds == \A t \in Tasks : row[t].lock # NoRequest ~> row[t].lock = NoRequest
=============================================================================
