--------------------------- MODULE TaskLifecycle ---------------------------
(***************************************************************************)
(* The life of a task row under concurrent requests: claims, review locks, *)
(* status changes, the merge reservation, the GitHub merge and the GitHub  *)
(* webhooks (backend/src/routes/tasks.ts with services/task-status-cas.ts, *)
(* task-merge-reservation.ts, github-merge.ts and github-webhook.ts).      *)
(*                                                                         *)
(* A request is a READ step, in which the handler reads the row and takes  *)
(* every decision, followed by one conditional write. Between the two any  *)
(* other request may run: the write carries what it still has to hold in   *)
(* its WHERE. A write under the grounding route lock re-reads, re-validates*)
(* and writes in one transaction that holds the row lock, so it is a       *)
(* single step as well. A request that is refused at its read changes      *)
(* nothing and is not shown.                                               *)
(***************************************************************************)
EXTENDS Naturals, FiniteSets, Workflow

CONSTANTS
    Tasks,
    Actors,       \* users and agent tokens with access to the project
    Agents,       \* the agent tokens among them
    Admins,       \* the users that administer the project
    Requests,     \* slots for requests that run at the same time
    NoActor,      \* null in a claim column
    NoRequest,    \* null: no live reservation, no stored result
    Gone,         \* a party that is no running request (any more)
    Mode,         \* the governance mode of the project
    Def,          \* the effective workflow definition of the tasks
    Creator,      \* [Tasks -> Actors], who filed the task
    BlockedBy,    \* [Tasks -> SUBSET Tasks], the dependencies
    Ops,          \* the operations clients issue in this instance
    MaxVersion    \* bound: no request starts at this status version or later

Modes == {"REQUIRES_DISTINCT_REVIEWER", "AWAITS_CONFIRMATION", "AUTONOMOUS"}

ASSUME ActorsAssumption ==
    /\ Agents \subseteq Actors /\ Admins \subseteq Actors \ Agents
    /\ NoActor \notin Actors
ASSUME RequestsAssumption ==
    NoRequest \notin Requests /\ Gone \notin Requests /\ NoRequest # Gone
ASSUME ProjectAssumption ==
    /\ Mode \in Modes /\ WellFormed(Def)
    /\ Creator \in [Tasks -> Actors] /\ BlockedBy \in [Tasks -> SUBSET Tasks]
    /\ MaxVersion \in Nat

VARIABLES
    row,      \* the task rows
    pull,     \* the pull request of each task, as GitHub knows it
    req       \* the running requests

vars == <<row, pull, req>>

Holder == Actors \cup {NoActor}
Party == Requests \cup {NoRequest, Gone}

\* A row keeps the columns a guard or a write looks at. lock is the request
\* that holds a LIVE merge reservation: a lapsed one reads as none. result is
\* who stored the result text, sha whether the merge commit is recorded.
Row == [status : Statuses(Def), version : Nat, work : Holder, review : Holder,
        lock : Party, result : Party, sha : BOOLEAN]

Snap == [status : Statuses(Def), version : Nat, work : Holder, review : Holder]

Claims == {"work", "review"}

WebhookOps == {"prMerged", "changesRequested", "issueClosed"}

OpNames == {"claim", "reviewClaim", "release", "reviewRelease", "abandon",
            "adminRelease", "adminReassign", "creatorAbandon", "demote",
            "unabandon", "status", "forced", "merge"} \cup WebhookOps

Idle == [pc |-> "idle"]

\* pc       the next step of the request
\* snap     the columns its write compares with the row
\* to       the status it writes
\* clear    the claims it drops;  aim  the actor a reassignment names
\* route    the kind of handler that merges the pull request before it writes
\* sha      what it does to the recorded merge commit
\* result   whether it stores a result;  tries  lost webhook writes so far
Busy == [pc : {"write", "reserve", "call", "record", "reread", "retry",
               "reread2", "release"},
         op : OpNames, actor : Holder, task : Tasks, snap : Snap,
         to : Statuses(Def), clear : SUBSET Claims, aim : Holder,
         route : {"none", "finish", "merge", "github"},
         sha : {"keep", "set", "null"}, result : BOOLEAN, tries : 0 .. 2]

TypeOK ==
    /\ row \in [Tasks -> Row]
    /\ pull \in [Tasks -> {"open", "merged", "delivered"}]
    /\ req \in [Requests -> Busy \cup {Idle}]

Init ==
    /\ row \in [Tasks -> [status : {Def.initial, Backlog}, version : {0},
                          work : {NoActor}, review : {NoActor},
                          lock : {NoRequest}, result : {NoRequest},
                          sha : {FALSE}]]
    /\ pull = [t \in Tasks |-> "open"]
    /\ req = [r \in Requests |-> Idle]

-----------------------------------------------------------------------------
(* Gates.                                                                  *)

DistinctReviewer == Mode = "REQUIRES_DISTINCT_REVIEWER"

\* May a review (or, from a merge route, merge) a task that work holds?
DistinctFrom(work, a) == DistinctReviewer => work # a

ReviewerGate(t, a) == DistinctFrom(row[t].work, a)
SelfMergeGate(t, a) == DistinctFrom(row[t].work, a)
WorkClaimGate(t, a) == DistinctFrom(row[t].review, a)

\* May a approve the task out of review?
ApprovalGate(t, a) ==
    /\ ReviewerGate(t, a)
    /\ DistinctReviewer => /\ row[t].review # NoActor
                           /\ row[t].review # row[t].work

\* Mutant of ActiveClaims: review locks are not counted.
WorkClaims(a) == {t \in Tasks : row[t].work = a /\ ~IsTerminal(Def, row[t].status)}

\* The other tasks on which agent a holds an active claim.
ActiveClaims(a) ==
    {t \in Tasks : \/ row[t].work = a /\ ~IsTerminal(Def, row[t].status)
                   \/ row[t].review = a /\ IsReview(Def, row[t].status)}

FreeAgent(a, t) == a \in Agents => ActiveClaims(a) \subseteq {t}

\* Mutant of UnresolvedBlockers: a blocker in review counts as resolved.
UnstartedBlockers(t) == {b \in BlockedBy[t] : row[b].status = Def.initial}

UnresolvedBlockers(t) ==
    {b \in BlockedBy[t] : ~IsTerminal(Def, row[b].status)
                          /\ row[b].status # Abandoned}

\* Mutant of Unclaimed: the work claim is not looked at.
Unreviewed(t) == row[t].review = NoActor

Unclaimed(t) == row[t].work = NoActor /\ row[t].review = NoActor

-----------------------------------------------------------------------------
(* What the writes compare and change.                                     *)

Seen(t) == [status |-> row[t].status, version |-> row[t].version,
            work |-> row[t].work, review |-> row[t].review]

\* The claim columns a write does not compare are not kept.
SeenStatus(t) == [Seen(t) EXCEPT !.work = NoActor, !.review = NoActor]

\* Mutants of SameStatusVersion and of Unchanged: the write matches by id, or
\* compares the claims alone.
SameId(t, snap) == t \in Tasks

SameStatusVersion(t, snap) ==
    row[t].status = snap.status /\ row[t].version = snap.version

\* Mutant of NoLiveReservation: the write does not look at the reservation.
Unfenced(t) == TRUE

NoLiveReservation(t) == row[t].lock = NoRequest

\* The compare-and-swap of every status write: the row looks as it was read
\* and carries no live reservation but the writer's own.
Unchanged(t, snap) == Seen(t) = snap
ReservationAllows(t, own) == row[t].lock \in {NoRequest} \cup own

Drop(rw, clear) ==
    [rw EXCEPT !.work = IF "work" \in clear THEN NoActor ELSE @,
               !.review = IF "review" \in clear THEN NoActor ELSE @]

\* Mutant of SetStatus: the version does not move with the status.
SetStatusOnly(rw, s) == [rw EXCEPT !.status = s]

SetStatus(rw, s) == [rw EXCEPT !.status = s, !.version = @ + 1]

Store(rw, r, flag) == IF flag THEN [rw EXCEPT !.result = r] ELSE rw

\* Mutant of TerminalClear: the review lock is left.
TerminalClearWork(s) == IF IsTerminal(Def, s) THEN {"work"} ELSE {}

TerminalClear(s) == IF IsTerminal(Def, s) THEN Claims ELSE {}

-----------------------------------------------------------------------------
(* Steps of a request.                                                     *)

\* A request whose read found everything it needs.
New(op, a, t) ==
    [pc |-> "write", op |-> op, actor |-> a, task |-> t,
     snap |-> SeenStatus(t), to |-> row[t].status, clear |-> {},
     aim |-> NoActor, route |-> "none", sha |-> "keep", result |-> FALSE,
     tries |-> 0]

Begin(r, q) ==
    /\ req[r] = Idle /\ row[q.task].version < MaxVersion
    /\ req' = [req EXCEPT ![r] = q]
    /\ UNCHANGED <<row, pull>>

At(r, op, pc) == req[r] # Idle /\ req[r].pc = pc /\ req[r].op = op

End(r) == req' = [req EXCEPT ![r] = Idle]
Goto(r, pc) == req' = [req EXCEPT ![r].pc = pc]

\* A conditional write that matches the row or matches nothing.
WriteIf(r, cond, new) ==
    /\ row' = IF cond THEN [row EXCEPT ![req[r].task] = new] ELSE row
    /\ End(r)
    /\ UNCHANGED pull

-----------------------------------------------------------------------------
(* Taking a claim.                                                         *)

MayTakeWork(t, a) ==
    /\ row[t].status = Def.initial /\ row[t].work = NoActor
    /\ WorkClaimGate(t, a)
    /\ UnresolvedBlockers(t) = {}
    /\ HasEdge(Def, Def.initial, StartTarget(Def))

NewClaim(a, t) == [New("claim", a, t) EXCEPT !.to = StartTarget(Def)]

ClaimRead(r, a, t) ==
    /\ "claim" \in Ops
    /\ MayTakeWork(t, a)
    /\ Begin(r, NewClaim(a, t))

StartWorkRead(r, a, t) ==
    /\ "start" \in Ops
    /\ FreeAgent(a, t)
    /\ MayTakeWork(t, a)
    /\ Begin(r, NewClaim(a, t))

ClaimWrite(r) ==
    LET q == req[r]  t == q.task IN
    /\ At(r, "claim", "write")
    /\ WriteIf(r, /\ SameStatusVersion(t, q.snap) /\ row[t].work = NoActor
                  /\ WorkClaimGate(t, q.actor) /\ NoLiveReservation(t),
               [SetStatus(row[t], q.to) EXCEPT !.work = q.actor])

MayTakeReview(t, a) ==
    /\ IsReview(Def, row[t].status)
    /\ ReviewerGate(t, a)
    /\ row[t].review = NoActor

ReviewClaimRead(r, a, t) ==
    /\ "reviewClaim" \in Ops
    /\ MayTakeReview(t, a)
    /\ Begin(r, New("reviewClaim", a, t))

StartReviewRead(r, a, t) ==
    /\ "start" \in Ops
    /\ FreeAgent(a, t)
    /\ MayTakeReview(t, a)
    /\ Begin(r, New("reviewClaim", a, t))

\* Mutant of ReviewClaimWrite: the gate is not asked again under the row lock.
ReviewClaimUngated(r) ==
    LET q == req[r]  t == q.task IN
    /\ At(r, "reviewClaim", "write")
    /\ WriteIf(r, /\ row[t].status = q.snap.status /\ row[t].review = NoActor
                  /\ NoLiveReservation(t),
               [row[t] EXCEPT !.review = q.actor])

ReviewClaimWrite(r) ==
    LET q == req[r]  t == q.task IN
    /\ At(r, "reviewClaim", "write")
    /\ WriteIf(r, /\ row[t].status = q.snap.status /\ row[t].review = NoActor
                  /\ ReviewerGate(t, q.actor) /\ NoLiveReservation(t),
               [row[t] EXCEPT !.review = q.actor])

-----------------------------------------------------------------------------
(* Giving a claim up.                                                      *)

ReleaseRead(r, a, t) ==
    /\ "release" \in Ops
    /\ row[t].work = a
    /\ ~IsReview(Def, row[t].status)
    /\ Begin(r, [New("release", a, t) EXCEPT !.to = Def.initial])

ReleaseWrite(r) ==
    LET q == req[r]  t == q.task IN
    /\ At(r, "release", "write")
    /\ WriteIf(r, /\ row[t].work = q.actor /\ SameStatusVersion(t, q.snap)
                  /\ NoLiveReservation(t),
               Drop(SetStatus(row[t], q.to), {"work"}))

ReviewReleaseRead(r, a, t) ==
    /\ "reviewRelease" \in Ops
    /\ row[t].review = a
    /\ Begin(r, New("reviewRelease", a, t))

ReviewReleaseWrite(r) ==
    LET q == req[r]  t == q.task IN
    /\ At(r, "reviewRelease", "write")
    /\ WriteIf(r, row[t].review = q.actor /\ NoLiveReservation(t),
               Drop(row[t], {"review"}))

Held(t, a) == {c \in Claims : row[t][c] = a}

AbandonRead(r, a, t) ==
    /\ "abandon" \in Ops
    /\ Held(t, a) # {}
    /\ Held(t, a) = {"work"} => ~IsReview(Def, row[t].status)
    /\ Begin(r, [New("abandon", a, t) EXCEPT
                    !.clear = Held(t, a),
                    !.to = IF "work" \in Held(t, a) /\ IsWork(Def, row[t].status)
                           THEN Def.initial ELSE @])

AbandonWrite(r) ==
    LET q == req[r]  t == q.task
        back == IF "work" \in q.clear /\ IsWork(Def, q.snap.status)
                THEN SetStatus(row[t], q.to) ELSE row[t]
    IN
    /\ At(r, "abandon", "write")
    /\ WriteIf(r, /\ \A c \in q.clear : row[t][c] = q.actor
                  /\ "work" \in q.clear => SameStatusVersion(t, q.snap)
                  /\ NoLiveReservation(t),
               Drop(back, q.clear))

-----------------------------------------------------------------------------
(* Administration of claims.                                               *)

\* The two claims are released by two updates of one transaction, each pinned
\* to the holder the handler read; a claim nobody held is left alone.
AdminReleaseRead(r, a, t) ==
    /\ "adminRelease" \in Ops /\ a \in Admins
    /\ \E flags \in (SUBSET Claims) \ {{}} :
          LET held == {c \in flags : row[t][c] # NoActor} IN
          /\ held # {}
          /\ Begin(r, [New("adminRelease", a, t) EXCEPT
                          !.clear = held, !.snap = Seen(t)])

\* Mutant of AdminReleaseWrite: not pinned to the holder that was read.
AdminReleaseUnpinned(r) ==
    LET q == req[r]  t == q.task IN
    /\ At(r, "adminRelease", "write")
    /\ WriteIf(r, NoLiveReservation(t), Drop(row[t], q.clear))

AdminReleaseWrite(r) ==
    LET q == req[r]  t == q.task IN
    /\ At(r, "adminRelease", "write")
    /\ WriteIf(r, NoLiveReservation(t),
               Drop(row[t], {c \in q.clear : row[t][c] = q.snap[c]}))

\* Would giving claim c to actor b join both roles in one actor?
ReassignKeepsDistinct(t, c, b) ==
    IF c = "work" THEN WorkClaimGate(t, b) ELSE ReviewerGate(t, b)

AdminReassignRead(r, a, t) ==
    /\ "adminReassign" \in Ops /\ a \in Admins
    /\ \E c \in Claims, b \in Actors :
          /\ row[t][c] \notin {NoActor, b}
          /\ ReassignKeepsDistinct(t, c, b)
          /\ Begin(r, [New("adminReassign", a, t) EXCEPT
                          !.clear = {c}, !.aim = b, !.snap = Seen(t)])

AdminReassignWrite(r) ==
    LET q == req[r]  t == q.task IN
    /\ At(r, "adminReassign", "write")
    /\ \E c \in q.clear :
          WriteIf(r, /\ ReassignKeepsDistinct(t, c, q.aim)
                     /\ FreeAgent(q.aim, t)
                     /\ row[t][c] = q.snap[c] /\ NoLiveReservation(t),
                  [row[t] EXCEPT ![c] = q.aim])

-----------------------------------------------------------------------------
(* Moves outside the workflow. Each is written under the row lock and only *)
(* while the row is unclaimed and at the version the handler read.         *)

OffBoardWrite(r, op, from) ==
    LET q == req[r]  t == q.task IN
    /\ At(r, op, "write")
    /\ WriteIf(r, /\ row[t].status \in from /\ row[t].version = q.snap.version
                  /\ Unclaimed(t) /\ NoLiveReservation(t),
               SetStatus(row[t], q.to))

CreatorAbandonRead(r, a, t) ==
    /\ "creatorAbandon" \in Ops /\ a \in Agents /\ a = Creator[t]
    /\ row[t].status \in {"open", Backlog} /\ Unclaimed(t)
    /\ Begin(r, [New("creatorAbandon", a, t) EXCEPT !.to = Abandoned])

CreatorAbandonWrite(r) == OffBoardWrite(r, "creatorAbandon", {"open", Backlog})

DemoteRead(r, a, t) ==
    /\ "patch" \in Ops /\ a \notin Agents
    /\ row[t].status = "open" /\ Unclaimed(t)
    /\ Begin(r, [New("demote", a, t) EXCEPT !.to = Backlog])

DemoteWrite(r) == OffBoardWrite(r, "demote", {"open"})

UnabandonRead(r, a, t) ==
    /\ "patch" \in Ops /\ a \in Admins
    /\ row[t].status = Abandoned
    /\ Begin(r, [New("unabandon", a, t) EXCEPT !.to = Def.initial])

UnabandonWrite(r) == OffBoardWrite(r, "unabandon", {Abandoned})

-----------------------------------------------------------------------------
(* Status writes by compare-and-swap.                                      *)

\* a moves t to s and drops the claims in clear.
StatusRequest(a, t, s, clear) ==
    [New("status", a, t) EXCEPT !.snap = Seen(t), !.to = s, !.clear = clear]

\* Promotion and discard of a backlog task, and a PATCH that repeats the
\* status the task has.
PatchBacklogRead(r, a, t) ==
    /\ "patch" \in Ops /\ a \notin Agents
    /\ row[t].status = Backlog
    /\ \E s \in {"open", Abandoned} : Begin(r, StatusRequest(a, t, s, {}))

PatchEchoRead(r, a, t) ==
    /\ "patch" \in Ops /\ a \notin Agents
    /\ Begin(r, StatusRequest(a, t, row[t].status, {}))

\* A terminal status drops both claims, leaving review drops the review lock.
ClearOnMove(from, to) ==
    IF IsTerminal(Def, to) THEN Claims
    ELSE IF IsReview(Def, from) /\ to # from THEN {"review"} ELSE {}

Approves(from, to) == IsReview(Def, from) /\ IsTerminal(Def, to)

\* Any other edge of the workflow, by PATCH (people) or by the transition
\* route, which an administrator may also force past the approval gate.
PatchEdgeRead(r, a, t) ==
    /\ "patch" \in Ops /\ a \notin Agents
    /\ \E s \in States(Def) \ {row[t].status} :
          /\ HasEdge(Def, row[t].status, s)
          /\ Approves(row[t].status, s) => ApprovalGate(t, a)
          /\ Begin(r, StatusRequest(a, t, s, ClearOnMove(row[t].status, s)))

TransitionRead(r, a, t) ==
    /\ "transition" \in Ops
    /\ \E s \in States(Def), force \in BOOLEAN :
          /\ force => a \in Admins
          /\ HasEdge(Def, row[t].status, s)
          /\ Approves(row[t].status, s) /\ ~force => ApprovalGate(t, a)
          /\ Begin(r, [StatusRequest(a, t, s, ClearOnMove(row[t].status, s))
                       EXCEPT !.op = IF force THEN "forced" ELSE @])

\* The verdict of a reviewer: approve, or send back to work.
Verdicts(t) ==
    {TerminalTarget(Def, row[t].status),
     IF ChangesTarget(Def, row[t].status) # NoTarget
     THEN ChangesTarget(Def, row[t].status) ELSE row[t].status}

ReviewRead(r, a, t) ==
    /\ "review" \in Ops
    /\ IsReview(Def, row[t].status)
    /\ ApprovalGate(t, a)
    /\ row[t].review \in {NoActor, a}
    /\ \E s \in Verdicts(t) :
          Begin(r, StatusRequest(a, t, s, {"review"} \cup TerminalClear(s)))

AdvanceRead(r, a, t) ==
    /\ "advance" \in Ops
    /\ row[t].work = a
    /\ IsWork(Def, row[t].status) /\ ~IsReview(Def, row[t].status)
    /\ \E s \in AdvanceTargets(Def, row[t].status) :
          Begin(r, StatusRequest(a, t, s, {}))

StatusWrite(r) ==
    LET q == req[r]  t == q.task IN
    /\ req[r] # Idle /\ q.pc = "write" /\ q.op \in {"status", "forced"}
    /\ row' = IF Unchanged(t, q.snap) /\ NoLiveReservation(t)
              THEN [row EXCEPT ![t] =
                      Store(Drop(SetStatus(row[t], q.to), q.clear), r, q.result)]
              ELSE row
    /\ IF row[t].lock = r THEN Goto(r, "release") ELSE End(r)
    /\ UNCHANGED pull

-----------------------------------------------------------------------------
(* task_finish.                                                            *)

\* Every verdict of finish asks for the edge; with autoMerge the merge of the
\* pull request comes before the status write.
FinishRequest(a, t, s, clear, result, auto) ==
    [StatusRequest(a, t, s, clear) EXCEPT
        !.result = result,
        !.op = IF auto THEN "merge" ELSE @,
        !.pc = IF auto THEN "reserve" ELSE @,
        !.route = IF auto THEN "finish" ELSE @]

MayAutoMerge(t, a) == "autoMerge" \in Ops /\ SelfMergeGate(t, a)

FinishReviewRead(r, a, t) ==
    LET from == row[t].status IN
    /\ "finish" \in Ops
    /\ row[t].review = a /\ IsReview(Def, from)
    /\ \E s \in Verdicts(t), result, auto \in BOOLEAN :
          /\ HasEdge(Def, from, s)
          /\ IsTerminal(Def, s) => ApprovalGate(t, a)
          /\ auto => IsTerminal(Def, s) /\ MayAutoMerge(t, a)
          /\ Begin(r, FinishRequest(a, t, s, {"review"} \cup TerminalClear(s),
                                    result, auto))

\* Without a distinct reviewer the work holder may give the verdict itself.
SelfApproveRead(r, a, t) ==
    LET from == row[t].status IN
    /\ "finish" \in Ops /\ ~DistinctReviewer
    /\ row[t].work = a /\ row[t].review = NoActor /\ IsReview(Def, from)
    /\ \E s \in Verdicts(t), result, auto \in BOOLEAN :
          /\ HasEdge(Def, from, s)
          /\ auto => IsTerminal(Def, s) /\ MayAutoMerge(t, a)
          /\ Begin(r, FinishRequest(a, t, s, {"review"} \cup TerminalClear(s),
                                    result, auto))

\* Finishing work. A terminal target drops the work claim only.
FinishWorkRead(r, a, t) ==
    LET from == row[t].status IN
    /\ "finish" \in Ops
    /\ row[t].work = a /\ row[t].review # a
    /\ IsWork(Def, from) /\ ~IsReview(Def, from)
    /\ \E result, auto \in BOOLEAN :
          LET s == IF auto THEN TerminalTarget(Def, from)
                           ELSE FinishTarget(Def, from)
          IN
          /\ HasEdge(Def, from, s)
          /\ auto => Mode = "AUTONOMOUS" /\ MayAutoMerge(t, a)
          /\ Begin(r, FinishRequest(a, t, s, TerminalClear(s) \ {"review"},
                                    result, auto))

\* The status of a task whose merge is recorded although it is still in a work
\* state is repaired without another merge and without a reservation.
FinishRecoveryRead(r, a, t) ==
    LET from == row[t].status IN
    /\ {"finish", "autoMerge"} \subseteq Ops
    /\ row[t].work = a /\ row[t].review # a
    /\ IsWork(Def, from) /\ ~IsReview(Def, from)
    /\ row[t].sha /\ pull[t] # "open"
    /\ \E result \in BOOLEAN :
          Begin(r, [StatusRequest(a, t, TerminalTarget(Def, from), Claims)
                    EXCEPT !.op = "merge", !.pc = "record",
                           !.route = "finish", !.result = result])

-----------------------------------------------------------------------------
(* The merge routes and the merge itself.                                  *)

MayMerge(t, a) ==
    /\ IsReview(Def, row[t].status) \/ IsTerminal(Def, row[t].status)
    /\ SelfMergeGate(t, a)
    /\ IsReview(Def, row[t].status) => ApprovalGate(t, a)

MergeRequest(a, t, s, route) ==
    [StatusRequest(a, t, s, Claims) EXCEPT
        !.op = "merge", !.pc = "reserve", !.route = route]

MergeRead(r, a, t) ==
    /\ "merge" \in Ops
    /\ MayMerge(t, a)
    /\ Begin(r, MergeRequest(a, t, IF IsTerminal(Def, row[t].status)
                                   THEN row[t].status
                                   ELSE TerminalTarget(Def, row[t].status),
                             "merge"))

\* The GitHub route is for agents, always targets the first terminal state and
\* does not record the merge commit.
GithubMergeRead(r, a, t) ==
    /\ "githubMerge" \in Ops /\ a \in Agents
    /\ MayMerge(t, a)
    /\ Begin(r, MergeRequest(a, t, FirstTerminal(Def), "github"))

\* The last step before GitHub: the gates' snapshot must still be the row.
Reserve(r) ==
    LET q == req[r]  t == q.task IN
    /\ At(r, "merge", "reserve")
    /\ IF Unchanged(t, q.snap) /\ NoLiveReservation(t)
       THEN row' = [row EXCEPT ![t].lock = r] /\ Goto(r, "call")
       ELSE UNCHANGED row /\ End(r)
    /\ UNCHANGED pull

GithubMerges(r) ==
    LET t == req[r].task IN
    /\ At(r, "merge", "call")
    /\ pull[t] = "open"
    /\ pull' = [pull EXCEPT ![t] = "merged"]
    /\ req' = [req EXCEPT ![r].pc = "record",
                          ![r].sha = IF req[r].route = "github" THEN @ ELSE "set"]
    /\ UNCHANGED row

\* "Already merged" is a success without a merge commit: a finish then does
\* not tell its status write about the merge.
GithubAlreadyMerged(r) ==
    /\ At(r, "merge", "call")
    /\ pull[req[r].task] # "open"
    /\ req' = IF req[r].route = "finish"
              THEN [req EXCEPT ![r].pc = "write", ![r].op = "status"]
              ELSE [req EXCEPT ![r].pc = "record",
                        ![r].sha = IF req[r].route = "merge" THEN "null" ELSE @]
    /\ UNCHANGED <<row, pull>>

\* A 4xx merges nothing.
GithubRefuses(r) ==
    /\ At(r, "merge", "call")
    /\ Goto(r, "release")
    /\ UNCHANGED <<row, pull>>

\* The merged pull request fails the prMerged check of a finish.
GithubCheckFails(r) ==
    LET t == req[r].task IN
    /\ At(r, "merge", "call") /\ req[r].route = "finish"
    /\ pull' = [pull EXCEPT ![t] = IF @ = "open" THEN "merged" ELSE @]
    /\ Goto(r, "release")
    /\ UNCHANGED row

\* A timeout or a 5xx: the merge may have landed or may land later, and the
\* reservation is left to its lease.
Orphan(r) == [row EXCEPT ![req[r].task].lock = IF @ = r THEN Gone ELSE @]

GithubUnknown(r) ==
    LET t == req[r].task IN
    /\ At(r, "merge", "call")
    /\ pull' \in {pull, [pull EXCEPT ![t] = IF @ = "open" THEN "merged" ELSE @]}
    /\ row' = Orphan(r)
    /\ End(r)

Release(r) ==
    LET t == req[r].task IN
    /\ req[r] # Idle /\ req[r].pc = "release"
    /\ row' = [row EXCEPT ![t].lock = IF @ = r THEN NoRequest ELSE @]
    /\ End(r)
    /\ UNCHANGED pull

-----------------------------------------------------------------------------
(* The status write after a merge. A merge cannot be undone, so a lost     *)
(* write completes on the fresh row when that is in the target already.    *)

\* The write also ends the reservation it was allowed by.
Recorded(r) ==
    LET q == req[r] IN
    Store([Drop(SetStatus(row[q.task], q.to), q.clear) EXCEPT
              !.lock = NoRequest,
              !.sha = IF q.sha = "keep" THEN @ ELSE q.sha = "set"], r, q.result)

MergedWrite(r, cond, onLoss) ==
    /\ IF cond /\ Unchanged(req[r].task, req[r].snap)
               /\ ReservationAllows(req[r].task, {r})
       THEN row' = [row EXCEPT ![req[r].task] = Recorded(r)] /\ End(r)
       ELSE UNCHANGED row /\ Goto(r, onLoss)
    /\ UNCHANGED pull

RecordWrite(r) ==
    /\ At(r, "merge", "record")
    /\ MergedWrite(r, TRUE, "reread")

\* Take the fresh row as the snapshot, and keep a result it already has.
Reread(r) ==
    LET q == req[r]  t == q.task IN
    /\ At(r, "merge", "reread")
    /\ IF row[t].status = q.to
       THEN req' = [req EXCEPT ![r].pc = "retry", ![r].snap = Seen(t),
                               ![r].result = @ /\ row[t].result = NoRequest]
       ELSE Goto(r, "release")
    /\ UNCHANGED <<row, pull>>

\* Mutant of RetryWrite: no guard on the stored result.
RetryOverwrites(r) ==
    /\ At(r, "merge", "retry")
    /\ MergedWrite(r, TRUE, "release")

\* A result is written only while the row has none.
RetryWrite(r) ==
    LET q == req[r]  t == q.task IN
    /\ At(r, "merge", "retry")
    /\ MergedWrite(r, q.result => row[t].result = NoRequest,
                   IF q.result THEN "reread2" ELSE "release")

\* The result may be what lost the retry: once more, without it.
RereadResult(r) ==
    LET q == req[r]  t == q.task IN
    /\ At(r, "merge", "reread2")
    /\ IF row[t].status = q.to /\ row[t].result # NoRequest
       THEN req' = [req EXCEPT ![r].pc = "retry", ![r].snap = Seen(t),
                               ![r].result = FALSE]
       ELSE Goto(r, "release")
    /\ UNCHANGED <<row, pull>>

-----------------------------------------------------------------------------
(* GitHub webhooks.                                                        *)

\* Where an event moves a task that is in status s; NoTarget leaves it.
MergedTarget(s) ==
    IF IsTerminal(Def, s) \/ s = Backlog THEN NoTarget
    ELSE IF Mode = "AUTONOMOUS" THEN FirstTerminal(Def)
    ELSE IF IsReview(Def, s) THEN NoTarget
    ELSE IF ReachableReview(Def, s) # NoTarget THEN ReachableReview(Def, s)
    ELSE FirstStateOf(Def, ReviewStates(Def))

WebhookTarget(op, s) ==
    CASE op = "prMerged" -> MergedTarget(s)
      [] op = "changesRequested" ->
            IF IsReview(Def, s) THEN ChangesTarget(Def, s) ELSE NoTarget
      [] op = "issueClosed" ->
            IF IsTerminal(Def, s) \/ s = Backlog THEN NoTarget
            ELSE FirstTerminal(Def)

Moves(op, t) == WebhookTarget(op, row[t].status) \notin {NoTarget, row[t].status}

WebhookNext(q, op, t) ==
    LET to == WebhookTarget(op, row[t].status) IN
    [q EXCEPT !.op = op, !.snap = SeenStatus(t), !.to = to,
              !.clear = TerminalClear(to)]

\* The merge of a pull request is delivered at most once.
WebhookRead(r, op, t) ==
    /\ op \in Ops /\ op \in WebhookOps
    /\ req[r] = Idle /\ row[t].version < MaxVersion
    /\ ~IsTerminal(Def, row[t].status) /\ row[t].status # Backlog
    /\ Moves(op, t)
    /\ op = "prMerged" => pull[t] = "merged"
    /\ pull' = IF op = "prMerged" THEN [pull EXCEPT ![t] = "delivered"] ELSE pull
    /\ req' = [req EXCEPT ![r] = WebhookNext(New(op, NoActor, t), op, t)]
    /\ UNCHANGED row

\* Compares status and version only, and no reservation holds it back. A lost
\* write is decided again on the fresh row, three writes in all.
WebhookWrite(r) ==
    LET q == req[r]  t == q.task IN
    /\ req[r] # Idle /\ q.op \in WebhookOps
    /\ IF SameStatusVersion(t, q.snap)
       THEN row' = [row EXCEPT ![t] = Drop(SetStatus(row[t], q.to), q.clear)]
            /\ End(r)
       ELSE /\ UNCHANGED row
            /\ IF q.tries < 2 /\ Moves(q.op, t)
               THEN req' = [req EXCEPT ![r] =
                        WebhookNext([q EXCEPT !.tries = @ + 1], q.op, t)]
               ELSE End(r)
    /\ UNCHANGED pull

-----------------------------------------------------------------------------
(* The environment.                                                        *)

\* A process that dies, or a handler that throws: its reservation outlives it.
Crash(r) ==
    /\ "crash" \in Ops
    /\ req[r] # Idle
    /\ row' = Orphan(r)
    /\ End(r)
    /\ UNCHANGED pull

\* Mutant of Lapse: a reservation has no lease.
NeverLapses(t) == FALSE

\* The lease of a reservation ends.
Lapse(t) ==
    /\ row[t].lock # NoRequest
    /\ row' = [row EXCEPT ![t].lock = NoRequest]
    /\ UNCHANGED <<pull, req>>

\* The pull request is merged on GitHub by someone else.
ExternalMerge(t) ==
    /\ "externalMerge" \in Ops
    /\ pull[t] = "open"
    /\ pull' = [pull EXCEPT ![t] = "merged"]
    /\ UNCHANGED <<row, req>>

\* A PATCH of the result alone is an unconditional update by id.
PatchResult(t) ==
    /\ "patchResult" \in Ops
    /\ \E by \in {NoRequest, Gone} : row' = [row EXCEPT ![t].result = by]
    /\ UNCHANGED <<pull, req>>

-----------------------------------------------------------------------------
ClaimReads(r, a, t) ==
    \/ ClaimRead(r, a, t) \/ StartWorkRead(r, a, t)
    \/ ReviewClaimRead(r, a, t) \/ StartReviewRead(r, a, t)
    \/ ReleaseRead(r, a, t) \/ ReviewReleaseRead(r, a, t)
    \/ AbandonRead(r, a, t)
    \/ AdminReleaseRead(r, a, t) \/ AdminReassignRead(r, a, t)

StatusReads(r, a, t) ==
    \/ CreatorAbandonRead(r, a, t) \/ DemoteRead(r, a, t)
    \/ UnabandonRead(r, a, t)
    \/ PatchBacklogRead(r, a, t) \/ PatchEchoRead(r, a, t)
    \/ PatchEdgeRead(r, a, t) \/ TransitionRead(r, a, t)
    \/ ReviewRead(r, a, t) \/ AdvanceRead(r, a, t)
    \/ FinishReviewRead(r, a, t) \/ SelfApproveRead(r, a, t)
    \/ FinishWorkRead(r, a, t) \/ FinishRecoveryRead(r, a, t)
    \/ MergeRead(r, a, t) \/ GithubMergeRead(r, a, t)

Writes(r) ==
    \/ ClaimWrite(r) \/ ReviewClaimWrite(r) \/ ReleaseWrite(r)
    \/ ReviewReleaseWrite(r) \/ AbandonWrite(r)
    \/ AdminReleaseWrite(r) \/ AdminReassignWrite(r)
    \/ CreatorAbandonWrite(r) \/ DemoteWrite(r) \/ UnabandonWrite(r)
    \/ StatusWrite(r) \/ WebhookWrite(r)

MergeSteps(r) ==
    \/ Reserve(r) \/ GithubMerges(r) \/ GithubAlreadyMerged(r)
    \/ GithubRefuses(r) \/ GithubCheckFails(r) \/ GithubUnknown(r)
    \/ RecordWrite(r) \/ Reread(r) \/ RetryWrite(r) \/ RereadResult(r)
    \/ Release(r)

FreeSlots == {r \in Requests : req[r] = Idle}

Next ==
    \/ \E r \in FreeSlots, a \in Actors, t \in Tasks :
          ClaimReads(r, a, t) \/ StatusReads(r, a, t)
    \/ \E r \in Requests, op \in WebhookOps, t \in Tasks : WebhookRead(r, op, t)
    \/ \E r \in Requests : Writes(r) \/ MergeSteps(r) \/ Crash(r)
    \/ \E t \in Tasks : Lapse(t) \/ ExternalMerge(t) \/ PatchResult(t)

Spec == Init /\ [][Next]_vars

\* A running request goes on, and a lease ends.
Fairness ==
    /\ \A r \in Requests : WF_vars(Writes(r) \/ MergeSteps(r))
    /\ \A t \in Tasks : WF_vars(Lapse(t))

FairSpec == Spec /\ Fairness
=============================================================================
