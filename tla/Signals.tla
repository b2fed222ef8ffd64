------------------------------- MODULE Signals -------------------------------
(***************************************************************************)
(* Signals to agents and people (backend/src/services/signal.ts, its four  *)
(* emitters, notification-webhook.ts) and their consumption by             *)
(* POST /tasks/pickup and POST /agent/signals/:id/ack.                     *)
(*                                                                         *)
(* A handler moves the task first.  After that write has committed it      *)
(* acknowledges what became pointless and then, without waiting, starts    *)
(* the emissions: one row per recipient, one after the other.  Other       *)
(* requests run between any two of these steps.                            *)
(*                                                                         *)
(* The races of the status writes themselves are the subject of            *)
(* TaskLifecycle; here a write is one step and one task is enough.         *)
(***************************************************************************)
EXTENDS Naturals, Sequences, FiniteSets, SequencesExt

CONSTANTS
    Agents,    \* agents with a token that may claim and review
    People,    \* members of the team who may review
    Admin,     \* the person who forces transitions and demotes
    Slots,     \* requests that run at the same time
    Calls,     \* pickups that run at the same time
    Nobody,    \* no actor
    Handlers,  \* the handlers that write the task in this instance, and "crash"
    Inbox,     \* actors that poll the inbox in this instance, besides pickups
    Edges,     \* edges of the workflow whose rules an administrator may force
    MaxWrites  \* bound: writes to the task in this instance

Actors == Agents \cup People
Statuses == {"backlog", "open", "work", "review", "done"}
Asks == {"review_needed", "task_available"}
Outcomes == {"changes_requested", "task_approved", "task_force_transitioned",
             "self_merge_notice"}

ASSUME ActorsAssumption == Agents \cap People = {} /\ Admin \in People /\ Nobody \notin Actors
ASSUME EdgesAssumption == Edges \subseteq {"open", "work", "review"} \X Statuses
ASSUME BoundAssumption == MaxWrites \in Nat \ {0}

VARIABLES
    task,     \* the row: status, holder of the work claim, holder of the review lock
    req,      \* per slot: what its handler has still to do after the write
    signals,  \* the rows of the signals table in the order of creation
    pick,     \* per call: the running pickup
    writes,   \* history: number of the last write of the task
    due,      \* history: whom the last move to review, or by force, concerns
    broken    \* history: writes whose emission was cut off, or left out by a webhook

history == <<writes, due, broken>>
vars == <<task, req, signals, pick, history>>

\* An emission still to come; the recipients of a forced transition are read
\* from the task when it starts.
Emission == [type : Asks \cup Outcomes, write : 1 .. MaxWrites, to : SUBSET Actors,
             resolved : BOOLEAN]

\* read: acknowledged by the recipient; swept: the write whose handler
\* acknowledged it for the recipient; handed: answers it was part of; late: the
\* task was finished when the row was created.
Signal == [type : Asks \cup Outcomes, write : 1 .. MaxWrites, to : Actors,
           read : BOOLEAN, swept : 0 .. MaxWrites, handed : Nat, late : BOOLEAN]

NoPick == [pc |-> "idle", agent |-> Nobody, sig |-> 0]

TypeOK ==
    /\ task \in [status : Statuses, work : Actors \cup {Nobody},
                 review : Actors \cup {Nobody}]
    /\ req \in [Slots -> [ack : 0 .. MaxWrites, out : SUBSET Emission]]
    /\ signals \in Seq(Signal)
    /\ pick \in [Calls -> [pc : {"idle", "find", "ack"}, agent : Agents \cup {Nobody},
                           sig : 0 .. Len(signals)]]
    /\ writes \in 0 .. MaxWrites
    /\ due \in [{"review_needed", "task_force_transitioned"} ->
                   [write : 0 .. MaxWrites, to : SUBSET Actors]]
    /\ broken \subseteq 1 .. MaxWrites

-----------------------------------------------------------------------------
(* Emissions.                                                              *)

Emit(type, to) == [type |-> type, write |-> writes + 1, to |-> to, resolved |-> TRUE]

\* findEligibleReviewers: everybody but the holder of the work claim.
Reviewers(worker) == Actors \ {worker}

Review(worker) == Emit("review_needed", Reviewers(worker))
Available == Emit("task_available", Agents)

\* The claimant the handler read, if there is one.
Assignee(type) == Emit(type, {task.work} \ {Nobody})

\* emitForceTransitionedSignal reads the task again.
Forced == [Emit("task_force_transitioned", {}) EXCEPT !.resolved = FALSE]

\* Every human member but the one who merged.
MergeNotice(merger) == Emit("self_merge_notice", People \ {merger})

Quiet(s) == req[s].ack = 0 /\ req[s].out = {}

Blank ==
    /\ signals = <<>>
    /\ pick = [c \in Calls |-> NoPick]
    /\ writes = 1
    /\ due = [x \in {"review_needed", "task_force_transitioned"} |->
                [write |-> 0, to |-> {}]]
    /\ broken = {}

\* The creation of the task has committed and is announced by its handler.
Init ==
    /\ task = [status |-> "open", work |-> Nobody, review |-> Nobody]
    /\ \E s \in Slots :
          req = [x \in Slots |->
                    [ack |-> 0,
                     out |-> IF x = s
                             THEN {[type |-> "task_available", write |-> 1,
                                    to |-> Agents, resolved |-> TRUE]} ELSE {}]]
    /\ Blank

\* A task that an agent has started, all signals about it read long ago.
InitWork ==
    /\ \E a \in Agents : task = [status |-> "work", work |-> a, review |-> Nobody]
    /\ req = [s \in Slots |-> [ack |-> 0, out |-> {}]]
    /\ Blank

\* The write of a handler and what it leaves to do.  Only requests that answer
\* while the row is as they read it get here.
WriteRow(s, row, ack, out) ==
    /\ Quiet(s) /\ writes < MaxWrites
    /\ task' = row
    /\ req' = [req EXCEPT ![s] = [ack |-> IF ack THEN writes + 1 ELSE 0, out |-> out]]
    /\ writes' = writes + 1
    /\ due' =
          [due EXCEPT
             !["review_needed"] =
                IF row.status = "review" /\ task.status # "review"
                THEN [write |-> writes + 1, to |-> Actors \ {task.work}] ELSE @,
             !["task_force_transitioned"] =
                IF Forced \in out
                THEN [write |-> writes + 1,
                      to |-> {task.work, task.review} \ {Nobody, Admin}] ELSE @]
    /\ UNCHANGED <<signals, pick>>

Write(s, row, ack, out) == WriteRow(s, row, ack, out) /\ UNCHANGED broken

Finished == [task EXCEPT !.status = "done", !.work = Nobody, !.review = Nobody]

-----------------------------------------------------------------------------
(* The handlers.                                                           *)

Start(s, a) ==
    /\ "start" \in Handlers /\ task.status = "open" /\ task.work = Nobody
    /\ Write(s, [task EXCEPT !.status = "work", !.work = a], FALSE, {})

LockReview(s, a) ==
    /\ "lock" \in Handlers /\ task.status = "review"
    /\ task.review = Nobody /\ task.work # a
    /\ Write(s, [task EXCEPT !.review = a], FALSE, {})

Finish(s) ==
    /\ "finish" \in Handlers /\ task.status = "work" /\ task.work # Nobody
    /\ Write(s, [task EXCEPT !.status = "review"], FALSE, {Review(task.work)})

Approve(s) ==
    /\ "approve" \in Handlers /\ task.status = "review"
    /\ Write(s, Finished, TRUE, {Assignee("task_approved")})

\* Without confirmation the merge of an agent's own work is announced.
Merge(s, a) ==
    /\ "merge" \in Handlers /\ task.status = "review"
    /\ Write(s, Finished, TRUE, {MergeNotice(a)})

RequestChanges(s) ==
    /\ "changes" \in Handlers /\ task.status = "review"
    /\ Write(s, [task EXCEPT !.status = "work", !.review = Nobody], FALSE,
             {Assignee("changes_requested")})

\* A transition to open keeps the claim; a release drops it and says nothing.
Reopen(s) ==
    /\ "reopen" \in Handlers /\ task.status = "work"
    /\ Write(s, [task EXCEPT !.status = "open"], FALSE, {Available})

Release(s) ==
    /\ "release" \in Handlers /\ task.status = "work"
    /\ Write(s, [task EXCEPT !.status = "open", !.work = Nobody], FALSE, {})

\* PATCH by a person: out of the pool of claimable tasks, and into it.
Demote(s) ==
    /\ "demote" \in Handlers /\ task.status = "open" /\ task.work = Nobody
    /\ Write(s, [task EXCEPT !.status = "backlog"], TRUE, {})

Promote(s) ==
    /\ "promote" \in Handlers /\ task.status = "backlog"
    /\ Write(s, [task EXCEPT !.status = "open"], FALSE, {})

\* Force past failed rules: the claims a finished task loses are gone and the
\* review lock is dropped with the review.
ForceTransition(s, to) ==
    /\ "force" \in Handlers /\ <<task.status, to>> \in Edges
    /\ LET row == IF to = "done" THEN Finished
                  ELSE IF task.status = "review" /\ to # "review"
                  THEN [task EXCEPT !.status = to, !.review = Nobody]
                  ELSE [task EXCEPT !.status = to] IN
       Write(s, row, to = "done",
             {Forced}
             \cup (IF to = "review" /\ task.status # "review"
                   THEN {Review(task.work)} ELSE {})
             \cup (IF to = "open" /\ task.status # "open" THEN {Available} ELSE {}))

\* GitHub: the merge of a pull request hands the task to review, a closed issue
\* finishes it, a review that asks for changes returns it.  No signals.
WebhookMerged(s) ==
    /\ "webhook" \in Handlers /\ task.status \in {"open", "work"}
    /\ WriteRow(s, [task EXCEPT !.status = "review"], FALSE, {})
    /\ broken' = broken \cup {writes + 1}

WebhookClosed(s) ==
    /\ "webhook" \in Handlers /\ task.status \in {"open", "work", "review"}
    /\ Write(s, Finished, TRUE, {})

WebhookChanges(s) ==
    /\ "webhook" \in Handlers /\ task.status = "review"
    /\ Write(s, [task EXCEPT !.status = "work"], FALSE, {})

-----------------------------------------------------------------------------
(* After the write.                                                        *)

\* acknowledgeSignalsForTask: everything unread, of every type.
Sweep(s) ==
    /\ req[s].ack # 0
    /\ signals' = [i \in DOMAIN signals |->
                     IF signals[i].read \/ signals[i].swept # 0 THEN signals[i]
                     ELSE [signals[i] EXCEPT !.swept = req[s].ack]]
    /\ req' = [req EXCEPT ![s].ack = 0]
    /\ UNCHANGED <<task, pick, history>>

\* The sweep is awaited, the emissions after it are not.
Ready(s) == req[s].ack = 0

\* The claimant and the reviewer of the row as it is now, but for the one who
\* forced the transition.
Resolve(s, e) ==
    /\ Ready(s) /\ e \in req[s].out /\ ~e.resolved
    /\ LET to == {task.work, task.review} \ {Nobody, Admin} IN
       req' = [req EXCEPT ![s].out =
                  (@ \ {e}) \cup {[e EXCEPT !.resolved = TRUE, !.to = to]}]
    /\ UNCHANGED <<task, signals, pick, history>>

\* Mutant of Left: the emission ends with its first recipient.
LeftNone(e, a) == {}

\* What remains of an emission when a recipient has its row.
Left(e, a) == IF e.to = {a} THEN {} ELSE {[e EXCEPT !.to = @ \ {a}]}

\* createSignal for one recipient.
Create(s, e, a) ==
    /\ Ready(s) /\ e \in req[s].out /\ e.resolved /\ a \in e.to
    /\ signals' = Append(signals, [type |-> e.type, write |-> e.write, to |-> a,
                                   read |-> FALSE, swept |-> 0, handed |-> 0,
                                   late |-> task.status = "done"])
    /\ req' = [req EXCEPT ![s].out = (@ \ {e}) \cup Left(e, a)]
    /\ UNCHANGED <<task, pick, history>>

EmitDone(s, e) ==
    /\ Ready(s) /\ e \in req[s].out /\ e.resolved /\ e.to = {}
    /\ req' = [req EXCEPT ![s].out = @ \ {e}]
    /\ UNCHANGED <<task, signals, pick, history>>

\* A failed insert ends an emission that nobody awaits; only the one of a forced
\* transition goes on with the next recipient.
EmitFails(s, e) ==
    /\ Ready(s) /\ e \in req[s].out
    /\ \/ req' = [req EXCEPT ![s].out = @ \ {e}]
       \/ /\ e.type = "task_force_transitioned"
          /\ \E a \in e.to : req' = [req EXCEPT ![s].out = (@ \ {e}) \cup Left(e, a)]
    /\ broken' = broken \cup {e.write}
    /\ UNCHANGED <<task, signals, pick, writes, due>>

\* The one backend process ends: nothing of what was under way is resumed.
Crash ==
    /\ "crash" \in Handlers
    /\ (\E s \in Slots : ~Quiet(s)) \/ \E c \in Calls : pick[c] # NoPick
    /\ broken' = broken \cup {e.write : e \in UNION {req[s].out : s \in Slots}}
    /\ req' = [s \in Slots |-> [ack |-> 0, out |-> {}]]
    /\ pick' = [c \in Calls |-> NoPick]
    /\ UNCHANGED <<task, signals, writes, due>>

-----------------------------------------------------------------------------
(* The recipients.                                                         *)

Unread(i) == ~signals[i].read /\ signals[i].swept = 0

\* Mutant of Serves: every unread signal is served.
ServesAll(i, a) == Unread(i) /\ signals[i].to = a

\* What the pickup feed of an agent selects from: an ask about a finished task
\* is not served although it may still be unread.
Serves(i, a) ==
    /\ Unread(i) /\ signals[i].to = a
    /\ signals[i].type \in Asks => task.status # "done"

\* findActiveAgentClaim: an agent with a claim gets nothing.
Free(a) ==
    /\ task.work = a => task.status = "done"
    /\ task.review = a => task.status # "review"

Pickup(c, a) ==
    /\ pick[c] = NoPick /\ Free(a)
    /\ pick' = [pick EXCEPT ![c] = [pc |-> "find", agent |-> a, sig |-> 0]]
    /\ UNCHANGED <<task, req, signals, history>>

\* findFirst by creation.  Without a signal the answer is a task or idle.
Find(c) ==
    /\ pick[c].pc = "find"
    /\ LET feed == {i \in DOMAIN signals : Serves(i, pick[c].agent)} IN
       pick' = [pick EXCEPT ![c] =
                   IF feed = {} THEN NoPick
                   ELSE [@ EXCEPT !.pc = "ack",
                                  !.sig = CHOOSE i \in feed : \A j \in feed : i <= j]]
    /\ UNCHANGED <<task, req, signals, history>>

\* The update names the signal by its id only; the signal is the answer.
Answer(c) ==
    /\ pick[c].pc = "ack"
    /\ signals' = [signals EXCEPT ![pick[c].sig].read = TRUE,
                                  ![pick[c].sig].handed = @ + 1]
    /\ pick' = [pick EXCEPT ![c] = NoPick]
    /\ UNCHANGED <<task, req, history>>

\* People, and agents that poll the inbox, acknowledge what they have read.
Acknowledge(a) ==
    /\ a \in Inbox
    /\ \E i \in DOMAIN signals :
          /\ Unread(i) /\ signals[i].to = a
          /\ signals' = [signals EXCEPT ![i].read = TRUE]
    /\ UNCHANGED <<task, req, pick, history>>

-----------------------------------------------------------------------------
Handle(s) ==
    \/ \E a \in Agents : Start(s, a)
    \/ \E a \in Actors : LockReview(s, a) \/ Merge(s, a)
    \/ Finish(s) \/ Approve(s) \/ RequestChanges(s)
    \/ Reopen(s) \/ Release(s) \/ Demote(s) \/ Promote(s)
    \/ \E to \in Statuses : ForceTransition(s, to)
    \/ WebhookMerged(s) \/ WebhookClosed(s) \/ WebhookChanges(s)

After(s) ==
    \/ Sweep(s)
    \/ \E e \in req[s].out :
          Resolve(s, e) \/ EmitDone(s, e) \/ \E a \in e.to : Create(s, e, a)

Next ==
    \/ \E s \in Slots : Handle(s) \/ After(s) \/ \E e \in req[s].out : EmitFails(s, e)
    \/ Crash
    \/ \E c \in Calls : Find(c) \/ Answer(c) \/ \E a \in Agents : Pickup(c, a)
    \/ \E a \in Actors : Acknowledge(a)

Spec == Init /\ [][Next]_vars

\* From the creation of the task, or from later in its life.
LifeSpec == (Init \/ InitWork) /\ [][Next]_vars

-----------------------------------------------------------------------------
(* What signals are for.                                                   *)

\* The signals a write owes under a type exist or are still being created,
\* unless the emission was cut off.
Announced(type) ==
    due[type].write \notin broken =>
        \A a \in due[type].to :
            \/ \E i \in DOMAIN signals :
                  /\ signals[i].type = type /\ signals[i].to = a
                  /\ signals[i].write = due[type].write
            \/ \E s \in Slots : \E e \in req[s].out :
                  /\ e.type = type /\ e.write = due[type].write
                  /\ e.resolved => a \in e.to

\* Whoever moves a task to review, but for the webhook of a merge, all reviewers
\* but the worker are asked, whatever other requests do while the rows are
\* written.
ReviewersAsked == Announced("review_needed")

\* An ask that was written after the task had finished, by an emission that was
\* slower than the handler that finished it, is handed out by no pickup, which
\* asks for the state of the task.  (The list of GET /agent/signals does not, and
\* shows such an ask until it is acknowledged.)
LateAskNotHanded ==
    \A i \in DOMAIN signals :
        signals[i].type \in Asks /\ signals[i].late => signals[i].handed = 0

=============================================================================
