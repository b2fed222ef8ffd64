----------------------------- MODULE TaskBoard -----------------------------
(***************************************************************************)
(* What the handlers promise together: a board on which every operation is *)
(* atomic. There are no requests, snapshots, versions or reservations; an  *)
(* operation looks at the task as it is and changes it in the same step.   *)
(* TaskLifecycle, where a handler reads, decides, calls GitHub and writes  *)
(* later, implements this: whatever ran in between, the write has the      *)
(* effect the operation would have had if it had run in one step.          *)
(*                                                                         *)
(* Promised for every operation: who may do it, from which status, to      *)
(* which, and which claims it takes or drops. Left open: what only refuses *)
(* more (blockers, the single active claim of an agent, preconditions).    *)
(***************************************************************************)
EXTENDS Workflow

CONSTANTS
    Tasks, Actors, Agents, Admins, NoActor, Mode, Def, Creator,
    Forcers,   \* the administrators who force transitions
    Reports    \* the kinds of events GitHub reports

VARIABLES
    task,     \* [Tasks -> Columns]
    merged    \* [Tasks -> BOOLEAN], whether the pull request is merged

vars == <<task, merged>>

Columns == [status : Statuses(Def), work : Actors \cup {NoActor},
            review : Actors \cup {NoActor}]

Both == {"work", "review"}

Init ==
    /\ task \in [Tasks -> [status : {Def.initial, Backlog}, work : {NoActor},
                           review : {NoActor}]]
    /\ merged = [t \in Tasks |-> FALSE]

-----------------------------------------------------------------------------
(* Columns of one task.                                                    *)

Distinct == Mode = "REQUIRES_DISTINCT_REVIEWER"

\* The other role than the one a is about to take or to use.
NotHolder(holder, a) == Distinct => holder # a

MayApprove(c, a) ==
    /\ NotHolder(c.work, a)
    /\ Distinct => c.review # NoActor /\ c.review # c.work

Free(c) == c.work = NoActor /\ c.review = NoActor

Without(c, claims) ==
    [c EXCEPT !.work = IF "work" \in claims THEN NoActor ELSE @,
              !.review = IF "review" \in claims THEN NoActor ELSE @]

To(c, s, claims) == Without([c EXCEPT !.status = s], claims)

EndClaims(s) == IF IsTerminal(Def, s) THEN Both ELSE {}

InWork(c) == IsWork(Def, c.status) /\ ~IsReview(Def, c.status)

Set(t, c) == task' = [task EXCEPT ![t] = c] /\ UNCHANGED merged

-----------------------------------------------------------------------------
(* Claims.                                                                 *)

Claim(a, t) ==
    /\ task[t].status = Def.initial /\ task[t].work = NoActor
    /\ NotHolder(task[t].review, a)
    /\ Set(t, [task[t] EXCEPT !.status = StartTarget(Def), !.work = a])

TakeReview(a, t) ==
    /\ IsReview(Def, task[t].status) /\ task[t].review = NoActor
    /\ NotHolder(task[t].work, a)
    /\ Set(t, [task[t] EXCEPT !.review = a])

Release(a, t) ==
    /\ task[t].work = a /\ ~IsReview(Def, task[t].status)
    /\ Set(t, To(task[t], Def.initial, {"work"}))

\* Work in review is given up together with the review lock or not at all.
GiveUp(a, t) ==
    \E claims \in (SUBSET Both) \ {{}} :
        /\ \A c \in claims : task[t][c] = a
        /\ claims = {"work"} => ~IsReview(Def, task[t].status)
        /\ Set(t, To(task[t], IF "work" \in claims /\ IsWork(Def, task[t].status)
                              THEN Def.initial ELSE task[t].status, claims))

AdminRelease(a, t) ==
    /\ a \in Admins
    /\ \E claims \in SUBSET Both : Set(t, Without(task[t], claims))

Reassign(a, t) ==
    /\ a \in Admins
    /\ \E c \in Both, b \in Actors :
          /\ task[t][c] \notin {NoActor, b}
          /\ NotHolder(IF c = "work" THEN task[t].review ELSE task[t].work, b)
          /\ Set(t, [task[t] EXCEPT ![c] = b])

-----------------------------------------------------------------------------
(* The status.                                                             *)

\* Off the board and back.
CreatorAbandon(a, t) ==
    /\ a \in Agents /\ a = Creator[t]
    /\ task[t].status \in {"open", Backlog} /\ Free(task[t])
    /\ Set(t, [task[t] EXCEPT !.status = Abandoned])

Demote(a, t) ==
    /\ a \notin Agents /\ task[t].status = "open" /\ Free(task[t])
    /\ Set(t, [task[t] EXCEPT !.status = Backlog])

Restore(a, t) ==
    /\ a \in Admins /\ task[t].status = Abandoned /\ Free(task[t])
    /\ Set(t, [task[t] EXCEPT !.status = Def.initial])

Triage(a, t) ==
    /\ a \notin Agents /\ task[t].status = Backlog
    /\ \E s \in {"open", Abandoned} : Set(t, [task[t] EXCEPT !.status = s])

MoveClaims(c, s) ==
    IF IsReview(Def, c.status) /\ s # c.status THEN {"review"} \cup EndClaims(s)
                                               ELSE EndClaims(s)

\* Along an edge. An approval may be forced.
Follow(a, t) ==
    LET c == task[t] IN
    \E s \in States(Def) :
        /\ HasEdge(Def, c.status, s)
        /\ IsReview(Def, c.status) /\ IsTerminal(Def, s)
              => MayApprove(c, a) \/ a \in Forcers
        /\ Set(t, To(c, s, MoveClaims(c, s)))

\* The verdict on a task in review: it ends, or goes back to work.
Judge(a, t) ==
    LET c == task[t] IN
    /\ IsReview(Def, c.status) /\ MayApprove(c, a) /\ c.review \in {NoActor, a}
    /\ \E s \in {TerminalTarget(Def, c.status), ChangesTarget(Def, c.status),
                 c.status} \ {NoTarget} :
          Set(t, To(c, s, {"review"} \cup EndClaims(s)))

Advance(a, t) ==
    /\ task[t].work = a /\ InWork(task[t])
    /\ \E s \in AdvanceTargets(Def, task[t].status) :
          Set(t, [task[t] EXCEPT !.status = s])

\* The end of work, possibly the end of the task; the review lock stays.
Finish(a, t) ==
    LET c == task[t] IN
    /\ c.work = a /\ c.review # a /\ InWork(c)
    /\ \E s \in {FinishTarget(Def, c.status), TerminalTarget(Def, c.status)} :
          /\ HasEdge(Def, c.status, s)
          /\ s # FinishTarget(Def, c.status) => Mode = "AUTONOMOUS"
          /\ Set(t, To(c, s, EndClaims(s) \ {"review"}))

-----------------------------------------------------------------------------
(* The merge.                                                              *)

PullMerged(t) ==
    /\ ~merged[t]
    /\ merged' = [merged EXCEPT ![t] = TRUE]
    /\ UNCHANGED task

\* A merge route ends a task in review, as an approval would.
EndMerged(a, t) ==
    LET c == task[t] IN
    /\ merged[t] /\ IsReview(Def, c.status) /\ MayApprove(c, a)
    /\ \E s \in {TerminalTarget(Def, c.status), FirstTerminal(Def)} :
          Set(t, To(c, s, Both))

\* The holder of merged work that was left in a work status ends it.
Repair(a, t) ==
    LET c == task[t] IN
    /\ merged[t] /\ c.work = a /\ c.review # a /\ InWork(c)
    /\ Set(t, To(c, TerminalTarget(Def, c.status), Both))

\* A merge that arrives at a finished task drops claims that are left on it.
Settle(t) ==
    /\ merged[t] /\ IsTerminal(Def, task[t].status)
    /\ \E s \in {task[t].status, FirstTerminal(Def)}, claims \in SUBSET Both :
          Set(t, To(task[t], s, claims))

\* What GitHub reports moves a task without asking anybody: the merge of its
\* pull request, a review that asks for changes, the close of its issue.
ReportTarget(t, report, s) ==
    LET c == task[t] IN
    \/ /\ report = "prMerged" /\ merged[t]
       /\ IF Mode = "AUTONOMOUS" THEN s = FirstTerminal(Def)
          ELSE ~IsReview(Def, c.status) /\ s \in ReviewStates(Def)
    \/ report = "changesRequested" /\ IsReview(Def, c.status)
       /\ s = ChangesTarget(Def, c.status)
    \/ report = "issueClosed" /\ s = FirstTerminal(Def)

Event(t) ==
    /\ ~IsTerminal(Def, task[t].status) /\ task[t].status # Backlog
    /\ \E report \in Reports, s \in States(Def) :
          /\ ReportTarget(t, report, s)
          /\ Set(t, To(task[t], s, EndClaims(s)))

-----------------------------------------------------------------------------
Operation(a, t) ==
    \/ Claim(a, t) \/ TakeReview(a, t) \/ Release(a, t) \/ GiveUp(a, t)
    \/ AdminRelease(a, t) \/ Reassign(a, t)
    \/ CreatorAbandon(a, t) \/ Demote(a, t) \/ Restore(a, t) \/ Triage(a, t)
    \/ Follow(a, t) \/ Judge(a, t) \/ Advance(a, t) \/ Finish(a, t)
    \/ EndMerged(a, t) \/ Repair(a, t)

\* A step of the board is one that shows.
Next ==
    /\ vars' # vars
    /\ \/ \E a \in Actors, t \in Tasks : Operation(a, t)
       \/ \E t \in Tasks : PullMerged(t) \/ Settle(t) \/ Event(t)

Spec == Init /\ [][Next]_vars
=============================================================================
