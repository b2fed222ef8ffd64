------------------------------ MODULE TaskGraph ------------------------------
(***************************************************************************)
(* The dependencies between the tasks of one project                       *)
(* (backend/src/routes/tasks.ts): adding and removing one, creating a task *)
(* with some, and deleting a task.                                         *)
(*                                                                         *)
(* Whether a dependency closes a cycle is decided by a walk that asks the  *)
(* database one query per task, and the row is written after it; no        *)
(* transaction covers the two.  Other requests run in between.             *)
(***************************************************************************)
EXTENDS FiniteSets

CONSTANTS
    Tasks,     \* ids of tasks; a task exists from its creation to its deletion
    Requests,  \* slots for requests that run at the same time
    NoTask     \* a slot that names no task

VARIABLES
    exists,    \* the rows of the task table
    blockedBy, \* the relation: <<t, b>> when t waits for b
    req,       \* the running requests
    raced      \* history: a dependency was written after another one had been
               \* written during its own check

vars == <<exists, blockedBy, req, raced>>

Idle == [pc |-> "idle", task |-> NoTask, blockers |-> {}, queue |-> {},
         visited |-> {}, overtaken |-> FALSE]

TypeOK ==
    /\ exists \subseteq Tasks
    /\ blockedBy \subseteq exists \X exists
    /\ req \in [Requests ->
                  [pc : {"idle", "walk", "insert", "create"}, task : Tasks \cup {NoTask},
                   blockers : SUBSET Tasks, queue : SUBSET Tasks,
                   visited : SUBSET Tasks, overtaken : BOOLEAN]]
    /\ raced \in BOOLEAN

Init ==
    /\ exists \in SUBSET Tasks
    /\ blockedBy = {}
    /\ req = [r \in Requests |-> Idle]
    /\ raced = FALSE

Reply(r) == req' = [req EXCEPT ![r] = Idle]

\* The request of r writes edges; whoever is deciding about others is overtaken.
Write(r, edges) ==
    /\ blockedBy' = blockedBy \cup edges
    /\ raced' = (raced \/ req[r].overtaken)
    /\ req' = [q \in Requests |->
                 IF q = r THEN Idle
                 ELSE IF req[q] = Idle \/ edges = {} THEN req[q]
                 ELSE [req[q] EXCEPT !.overtaken = TRUE]]

-----------------------------------------------------------------------------
(* POST /tasks/:id/dependencies                                            *)

\* What the handler refuses before the walk: the task itself, a dependency
\* that is there already.  The start of the walk asks nothing yet.
Allowed(t, b) == b # t /\ <<t, b>> \notin blockedBy

Post(r, t, b) ==
    /\ req[r] = Idle /\ t \in exists /\ b \in exists
    /\ Allowed(t, b)
    /\ req' = [req EXCEPT ![r] = [Idle EXCEPT !.pc = "walk", !.task = t,
                                              !.blockers = {b}, !.queue = {t}]]
    /\ UNCHANGED <<exists, blockedBy, raced>>

\* Mutant of Downstream: the walk follows the blockers of a task.
Upstream(t) == {d \in exists : <<t, d>> \in blockedBy}

\* The tasks that wait for t, in one query.
Downstream(t) == {d \in exists : <<d, t>> \in blockedBy}

\* One turn of wouldCreateCycle.  The queue is kept as a set: the order in which
\* the tasks are taken does not change what the walk finds.
Walk(r) ==
    /\ req[r].pc = "walk"
    /\ \E t \in req[r].queue :
          IF t \in req[r].blockers
          THEN Reply(r)                                        \* 400: a cycle
          ELSE LET seen == req[r].visited \cup {t}
                   rest == (req[r].queue \cup Downstream(t)) \ seen
               IN req' = [req EXCEPT ![r].queue = rest, ![r].visited = seen,
                                     ![r].pc = IF rest = {} THEN "insert" ELSE "walk"]
    /\ UNCHANGED <<exists, blockedBy, raced>>

\* The update fails when either row has gone.
Insert(r) ==
    LET t == req[r].task  bs == req[r].blockers IN
    /\ req[r].pc = "insert"
    /\ IF {t} \cup bs \subseteq exists THEN Write(r, {t} \X bs)
       ELSE Reply(r) /\ UNCHANGED <<blockedBy, raced>>
    /\ UNCHANGED exists

-----------------------------------------------------------------------------
(* DELETE /tasks/:id/dependencies/:blockerTaskId, POST /projects/:id/tasks  *)
(* with dependsOn, DELETE /tasks/:id                                       *)

Disconnect(t, b) ==
    /\ <<t, b>> \in blockedBy
    /\ blockedBy' = blockedBy \ {<<t, b>>}
    /\ UNCHANGED <<exists, req, raced>>

\* All of dependsOn is there.
CreateRead(r, bs) ==
    /\ req[r] = Idle /\ bs \subseteq exists
    /\ req' = [req EXCEPT ![r] = [Idle EXCEPT !.pc = "create", !.blockers = bs]]
    /\ UNCHANGED <<exists, blockedBy, raced>>

\* The ids a running request holds.
Known(r) == {req[r].task} \cup req[r].blockers \cup req[r].queue \cup req[r].visited

\* A new row with its dependencies; it is not written when one of them has gone.
CreateWrite(r, t) ==
    LET bs == req[r].blockers IN
    /\ req[r].pc = "create" /\ t \notin exists
    /\ \A q \in Requests : t \notin Known(q)      \* a new id
    /\ IF bs \subseteq exists
       THEN exists' = exists \cup {t} /\ Write(r, {t} \X bs)
       ELSE Reply(r) /\ UNCHANGED <<exists, blockedBy, raced>>

\* The row goes with its dependencies.
DeleteTask(t) ==
    /\ t \in exists
    /\ exists' = exists \ {t}
    /\ blockedBy' = {e \in blockedBy : e[1] # t /\ e[2] # t}
    /\ UNCHANGED <<req, raced>>

Next ==
    \/ \E r \in Requests :
          \/ \E t, b \in Tasks : Post(r, t, b)
          \/ Walk(r) \/ Insert(r)
          \/ \E bs \in SUBSET Tasks : CreateRead(r, bs)
          \/ \E t \in Tasks : CreateWrite(r, t)
    \/ \E t, b \in Tasks : Disconnect(t, b)
    \/ \E t \in Tasks : DeleteTask(t)

Spec == Init /\ [][Next]_vars

-----------------------------------------------------------------------------
(* Properties                                                              *)

\* A cycle is a set of tasks of which each waits for another one of the set.
Cyclic == \E S \in (SUBSET exists) \ {{}} :
             \A t \in S : \E b \in S : <<t, b>> \in blockedBy

\* Tasks come to wait for each other in a ring only when two requests decided
\* at the same time: as long as no dependency was written over a check that
\* was overtaken by another one, the walk keeps the relation free of cycles,
\* whatever is removed, created and deleted while it goes on
\* (wouldCreateCycle and the update after it).
CyclesAreRaced == ~raced => ~Cyclic
=============================================================================
