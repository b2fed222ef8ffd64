----------------------------- MODULE WorkflowEdit -----------------------------
(***************************************************************************)
(* The workflows of one project and the tasks that follow them             *)
(* (backend/src/routes/workflows.ts, services/workflow-stranding.ts,       *)
(* services/grounding-context-mutation.ts).                                *)
(*                                                                         *)
(* An edit is one serializable transaction that locks the project: it      *)
(* selects the tasks whose workflow it changes, is refused when a merge    *)
(* holds one of them or when it would leave a task in a state that its     *)
(* new workflow lacks, and moves no task.  A request that moves or creates *)
(* a task reads the workflow first and writes later: it does not read it   *)
(* again under that lock, which only a task enrolled with Grounding takes. *)
(* What Grounding itself decides is read and written under the lock.       *)
(***************************************************************************)
EXTENDS Naturals, FiniteSets

CONSTANTS
    Tasks,      \* tasks of the project
    BuiltIn,    \* the definition of a project without a default row
    Offered,    \* the definitions people save
    Templates,  \* those among them that are templates
    Legacy,     \* definitions stored before today's checks (retired shapes)
    MaxRows     \* bound: workflow rows, numbered in the order of creation

VARIABLES
    rows,       \* per number: the workflow row, or NoRow
    task,       \* per task: its status and the row it is pinned to
    writer,     \* per task: a request that has decided and not yet written
    attempt,    \* per task: the workflow its active grounding attempt names
    reserved,   \* the enrolled tasks that a merge holds
    enrolled    \* the tasks that Grounding guards

vars == <<rows, task, writer, attempt, reserved, enrolled>>

\* A definition: its entry state, its open and its terminal states.  Transitions
\* are left open: an open state may lead to any other.
Row == [def : Offered \cup Legacy \cup {BuiltIn}, default : BOOLEAN]
NoDef == [initial |-> "none", work |-> {}, final |-> {}]
NoRow == [def |-> NoDef, default |-> FALSE]
Unpinned == 0
Rows == 1 .. MaxRows

Reserved == {"backlog", "abandoned"}
States(def) == def.work \cup def.final

NotCreated == [status |-> "none", pin |-> Unpinned]
NoWriter == [to |-> "none", pin |-> Unpinned, def |-> NoDef]
NoAttempt == [row |-> Unpinned, def |-> NoDef]

\* What workflowDefinitionSchema accepts.
Accepted(def) ==
    /\ def.initial = "open" /\ "open" \in def.work
    /\ def.final # {} /\ States(def) \cap Reserved = {}

\* What an instance has to satisfy.  Each shape a definition was ever saved in
\* has its initial state among its states; "none" is no state but the absence of
\* a task here.
DefinitionsAssumption ==
    /\ Templates \subseteq Offered
    /\ \A d \in Offered \cup {BuiltIn} : Accepted(d)
    /\ \A d \in Legacy : d.initial \in States(d)
    /\ \A d \in Offered \cup Legacy \cup {BuiltIn} : "none" \notin States(d)
    /\ MaxRows \in Nat \ {0}

\* A stored definition as everybody reads it: without backlog, and entered at
\* "open", which it gets when it has no such state.
Sanitized(def) ==
    IF "backlog" \notin States(def) \cup {def.initial} THEN def
    ELSE LET entered == def.initial = "backlog" IN
         [initial |-> IF entered THEN "open" ELSE def.initial,
          work |-> (def.work \cup (IF entered THEN {"open"} \ def.final ELSE {}))
                      \ {"backlog"},
          final |-> def.final \ {"backlog"}]

\* The default row that readers take: the oldest one.
FirstDefault(rs) ==
    LET D == {w \in Rows : rs[w].default} IN
    IF D = {} THEN Unpinned ELSE CHOOSE w \in D : \A v \in D : w <= v

\* followedDefinition of a row, or of none.
DefinitionOf(rs, w) == IF w = Unpinned THEN BuiltIn ELSE Sanitized(rs[w].def)

\* The row a task follows: the one it is pinned to, else the project default.
Follows(rs, pin) == IF pin # Unpinned THEN pin ELSE FirstDefault(rs)
Followed(t) == DefinitionOf(rows, Follows(rows, task[t].pin))

\* The workflow as a receipt names it: the row, and the definition as stored.
Named(rs, pin) ==
    LET w == Follows(rs, pin) IN
    [row |-> w, def |-> IF w = Unpinned THEN BuiltIn ELSE rs[w].def]

TypeOK ==
    /\ rows \in [Rows -> Row \cup {NoRow}]
    /\ \A t \in Tasks : /\ task[t].pin \in Rows \cup {Unpinned}
                        /\ task[t].pin # Unpinned => rows[task[t].pin] # NoRow
    /\ reserved \subseteq enrolled /\ enrolled \subseteq Tasks
    /\ \A t \in Tasks \ enrolled : attempt[t] = NoAttempt
    /\ \A t \in enrolled : task[t] = NotCreated => writer[t] = NoWriter

\* Rows stored before today's checks may be malformed, or several may be the
\* default one.
Init ==
    /\ rows \in [Rows -> Row \cup {NoRow}]
    /\ rows[MaxRows] # NoRow => \A w \in Rows : rows[w] # NoRow
    /\ task = [t \in Tasks |-> NotCreated]
    /\ writer = [t \in Tasks |-> NoWriter]
    /\ attempt = [t \in Tasks |-> NoAttempt]
    /\ reserved = {}
    /\ enrolled \in SUBSET Tasks

-----------------------------------------------------------------------------
(* Edits of workflows                                                      *)

\* Tasks of the groups in an open state of the definition they follow that the
\* one they will follow lacks.  Finished tasks and tasks that are outside their
\* workflow already do not count.
Stranded(groups) ==
    {t \in Tasks : \E g \in groups :
        /\ task[t].pin \in g.pins
        /\ task[t].status \in g.before.work \ (States(g.after) \cup Reserved)}

With(pins) == {t \in Tasks : task[t] # NotCreated /\ task[t].pin \in pins}

\* mutateGroundingContext around one edit: `selected` are the tasks that it
\* locks, `groups` those whose followed definition changes.
Edit(selected, groups, changed, newRows, unpin) ==
    /\ selected \cap reserved = {}              \* grounding_finalization_pending
    /\ Stranded(groups) = {}                    \* 409 stranded_tasks
    /\ rows' = newRows
    /\ task' = [t \in Tasks |-> IF task[t].pin = unpin /\ unpin # Unpinned
                                THEN [task[t] EXCEPT !.pin = Unpinned] ELSE task[t]]
    /\ attempt' = [t \in Tasks |-> IF changed /\ t \in selected THEN NoAttempt
                                   ELSE attempt[t]]
    /\ UNCHANGED <<writer, reserved, enrolled>>

Group(pins, before, after) == [pins |-> pins, before |-> before, after |-> after]

\* A new row is younger than the rows there are.
NewRow(w) == /\ \A v \in Rows : v >= w => rows[v] = NoRow
             /\ w # 1 => rows[w - 1] # NoRow

\* POST /projects/:id/workflow/customize: the built-in definition becomes a row.
Customize(w) ==
    /\ FirstDefault(rows) = Unpinned /\ NewRow(w)
    /\ Edit(With({Unpinned}), {}, TRUE,
            [rows EXCEPT ![w] = [def |-> BuiltIn, default |-> TRUE]], Unpinned)

\* POST /projects/:id/workflow/apply-template/:slug
ApplyTemplate(def, w) ==
    LET d == FirstDefault(rows)
        pins == {Unpinned, d}
        changed == d = Unpinned \/ rows[d].def # def
    IN /\ IF d = Unpinned THEN NewRow(w) ELSE w = d
       /\ Edit(IF changed THEN With(pins) ELSE {},
               IF changed THEN {Group(pins, DefinitionOf(rows, d), def)} ELSE {},
               changed,
               [rows EXCEPT ![w] = [def |-> def, default |-> TRUE]], Unpinned)

\* The rows when w is no longer a default.
Demoted(w) == [rows EXCEPT ![w].default = FALSE]

\* Mutant of ResetTo: a reset is judged by the built-in definition.
ResetToBuiltIn(w) == BuiltIn

\* What unpinned tasks follow once w is no default row.
ResetTo(w) == DefinitionOf(rows, FirstDefault(Demoted(w)))

\* DELETE /projects/:id/workflow: its tasks lose their pin.
Reset ==
    LET d == FirstDefault(rows) IN
    /\ d # Unpinned
    /\ Edit(With({Unpinned, d}),
            {Group({Unpinned, d}, DefinitionOf(rows, d), ResetTo(d))},
            TRUE, [rows EXCEPT ![d] = NoRow], d)

\* Every other row loses the flag.
SoleDefault(w, row) ==
    [v \in Rows |-> IF v = w THEN row ELSE [rows[v] EXCEPT !.default = FALSE]]

\* POST /projects/:id/workflows
CreateRow(w, def, default) ==
    /\ NewRow(w)
    /\ IF default
       THEN Edit(With({Unpinned}),
                 {Group({Unpinned}, DefinitionOf(rows, FirstDefault(rows)), def)},
                 TRUE, SoleDefault(w, [def |-> def, default |-> TRUE]), Unpinned)
       ELSE Edit({}, {}, FALSE,
                 [rows EXCEPT ![w] = [def |-> def, default |-> FALSE]], Unpinned)

\* followerGroupsOfUpdate: the tasks pinned to w, and the unpinned ones when w is,
\* becomes or stops being the default row that readers take.
UpdateGroups(w, def, default) ==
    LET d == FirstDefault(rows)
        before == Sanitized(rows[w].def)
        after == IF def = rows[w].def THEN before ELSE def
    IN (IF def # rows[w].def THEN {Group({w}, before, after)} ELSE {})
       \cup (IF default /\ (d # w \/ def # rows[w].def)
             THEN {Group({Unpinned}, DefinitionOf(rows, d), after)} ELSE {})
       \cup (IF ~default /\ d = w THEN {Group({Unpinned}, before, ResetTo(w))} ELSE {})

\* Mutant of UpdateSelected: unpinned tasks are left out.
UpdateSelectedPinned(w, def, default) == IF def # rows[w].def THEN With({w}) ELSE {}

\* The tasks whose context the update changes, as the handler selects them.
UpdateSelected(w, def, default) ==
    (IF def # rows[w].def THEN With({w}) ELSE {})
    \cup (IF \/ default # rows[w].default
             \/ def # rows[w].def /\ rows[w].default THEN With({Unpinned}) ELSE {})

\* PUT /workflows/:id: keeps, sets or clears the default flag, and keeps or
\* replaces the definition.  A flag that the request leaves out clears no other.
UpdateRow(w, def, default, flagSent) ==
    LET row == [def |-> def, default |-> default]
        groups == IF flagSent \/ (default /\ FirstDefault(rows) = w)
                  THEN UpdateGroups(w, def, default)
                  ELSE {g \in UpdateGroups(w, def, default) : g.pins = {w}}
    IN /\ rows[w] # NoRow
       /\ ~flagSent => default = rows[w].default
       /\ Edit(UpdateSelected(w, def, default), groups,
               def # rows[w].def \/ default # rows[w].default,
               IF flagSent /\ default THEN SoleDefault(w, row) ELSE [rows EXCEPT ![w] = row],
               Unpinned)

Edits ==
    \E w \in Rows :
       \/ Customize(w)
       \/ \E def \in Templates : ApplyTemplate(def, w)
       \/ \E def \in Offered, default \in BOOLEAN : CreateRow(w, def, default)
       \/ \E def \in Offered \cup {rows[w].def}, default, flagSent \in BOOLEAN :
             UpdateRow(w, def, default, flagSent)

-----------------------------------------------------------------------------
(* Requests that write a status                                            *)

\* Where a task may go by the definition a request has read.  A task that stands
\* outside it may be given up and goes back to the entry state, as one does that
\* is reopened.
Targets(status, def) ==
    IF status \in def.work THEN (States(def) \cup Reserved) \ {status}
    ELSE IF status = "backlog" THEN ({"open"} \cap States(def)) \cup {"abandoned"}
    ELSE IF status \in def.final THEN {}
    ELSE {def.initial}

\* The moves that stay with the routes when Grounding guards the task: /start and
\* /claim leave the entry state, /release returns to it from wherever an edit has
\* left the task, a creator gives up, an admin reopens.
RouteTargets(status, def) ==
    (IF status \in {"open", "backlog"} THEN {"abandoned"} ELSE {})
    \cup (IF status = def.initial THEN States(def) \ {status}
          ELSE IF status = "backlog" THEN {} ELSE {def.initial})

\* What a new task may be pinned to.
Pins == {Unpinned} \cup {w \in Rows : rows[w] # NoRow}

\* Mutant of NewDefinition: a new task is checked against the project default.
NewDefinitionUnpinned(pin) == DefinitionOf(rows, FirstDefault(rows))

\* The definition whose states a new task may be given.
NewDefinition(pin) == DefinitionOf(rows, Follows(rows, pin))

\* A request reads the workflow, before any lock, ...
Decide(t) ==
    /\ writer[t] = NoWriter /\ task[t] # NotCreated
    /\ \E to \in RouteTargets(task[t].status, Followed(t))
                \cup (IF t \in enrolled THEN {} ELSE Targets(task[t].status, Followed(t))) :
          writer' = [writer EXCEPT ![t] = [to |-> to, pin |-> task[t].pin,
                                           def |-> Followed(t)]]
    /\ UNCHANGED <<rows, task, attempt, reserved, enrolled>>

\* ... or one that creates it, pinned or not, ...
DecideNew(t, pin) ==
    /\ t \notin enrolled /\ writer[t] = NoWriter /\ task[t] = NotCreated
    /\ pin \in Pins
    /\ \E to \in States(NewDefinition(pin)) \cup {"backlog"} :
          writer' = [writer EXCEPT ![t] = [to |-> to, pin |-> pin,
                                           def |-> NewDefinition(pin)]]
    /\ UNCHANGED <<rows, task, attempt, reserved, enrolled>>

\* What a decided request writes.  An edit leaves the version of the row alone, so
\* a move succeeds, and ends the attempt, unless a merge holds the task; a new
\* task may name a row that has gone.
Written(t) ==
    IF task[t] = NotCreated
    THEN IF writer[t].pin \in Pins THEN [status |-> writer[t].to, pin |-> writer[t].pin]
         ELSE NotCreated
    ELSE IF t \in reserved THEN task[t] ELSE [task[t] EXCEPT !.status = writer[t].to]

\* ... and writes later.
Land(t) ==
    /\ writer[t] # NoWriter
    /\ writer' = [writer EXCEPT ![t] = NoWriter]
    /\ task' = [task EXCEPT ![t] = Written(t)]
    /\ attempt' = [attempt EXCEPT ![t] = IF t \in reserved THEN @ ELSE NoAttempt]
    /\ UNCHANGED <<rows, reserved, enrolled>>

\* Grounding reads a workflow only when it is the sole default row, or pinned.
Unambiguous(pin) ==
    pin # Unpinned \/ \A v, w \in Rows : rows[v].default /\ rows[w].default => v = w

\* Under the lock of the project a task is created (never finished) or moved by
\* Grounding: that ends its attempt, and whoever has decided to move it from the
\* state it had loses the comparison of the versions.
CreateEnrolled(t, pin) ==
    /\ t \in enrolled /\ task[t] = NotCreated
    /\ pin \in Pins /\ Unambiguous(pin)
    /\ \E s \in NewDefinition(pin).work \cup {"backlog"} :
          task' = [task EXCEPT ![t] = [status |-> s, pin |-> pin]]
    /\ UNCHANGED <<rows, writer, attempt, reserved, enrolled>>

MoveEnrolled(t) ==
    /\ t \in enrolled \ reserved /\ task[t] # NotCreated /\ Unambiguous(task[t].pin)
    /\ \E to \in Targets(task[t].status, Followed(t)) :
          task' = [task EXCEPT ![t].status = to]
    /\ writer' = [writer EXCEPT ![t] = NoWriter]
    /\ attempt' = [attempt EXCEPT ![t] = NoAttempt]
    /\ UNCHANGED <<rows, reserved, enrolled>>

\* An attempt is issued for the workflow as it stands; a merge reserves the task
\* with its attempt and ends in a terminal state, or is given up.
Issue(t) ==
    /\ t \in enrolled \ reserved /\ Unambiguous(task[t].pin)
    /\ task[t].status \in Followed(t).work
    /\ attempt' = [attempt EXCEPT ![t] = Named(rows, task[t].pin)]
    /\ UNCHANGED <<rows, task, writer, reserved, enrolled>>

Reserve(t) ==
    /\ t \in enrolled \ reserved /\ attempt[t] # NoAttempt
    /\ reserved' = reserved \cup {t}
    /\ UNCHANGED <<rows, task, writer, attempt, enrolled>>

EndMerge(t) ==
    /\ t \in reserved
    /\ \/ /\ \E to \in Followed(t).final : task' = [task EXCEPT ![t].status = to]
          /\ writer' = [writer EXCEPT ![t] = NoWriter]
       \/ UNCHANGED <<task, writer>>
    /\ reserved' = reserved \ {t}
    /\ attempt' = [attempt EXCEPT ![t] = NoAttempt]
    /\ UNCHANGED <<rows, enrolled>>

Next ==
    \/ Edits \/ Reset
    \/ \E t \in Tasks :
          \/ Decide(t) \/ Land(t) \/ MoveEnrolled(t)
          \/ Issue(t) \/ Reserve(t) \/ EndMerge(t)
          \/ \E pin \in Rows \cup {Unpinned} : DecideNew(t, pin) \/ CreateEnrolled(t, pin)

Spec == Init /\ [][Next]_vars

-----------------------------------------------------------------------------
(* Properties                                                              *)

OnBoard(status, def) == status \in States(def) \cup Reserved

\* No edit - a template, a reset, a new default, an update that promotes,
\* demotes or redefines a row, with one default row or several - takes the state
\* of an unfinished task away: every task in an open state of the workflow it
\* follows finds that state in the workflow it follows afterwards.
EditStrandsNobody ==
    [][\A t \in Tasks :
          task'[t].status = task[t].status /\ task[t].status \in Followed(t).work
             => OnBoard(task[t].status, Followed(t)')]_vars

\* A task, enrolled or not, comes to stand outside its workflow only through a
\* request that read an earlier workflow and now writes what it decided by it: no
\* move that Grounding decides, no merge and no creation under the lock strays.
OnlyLateWritesStray ==
    [][\A t \in Tasks :
          task'[t].status # task[t].status /\ ~OnBoard(task'[t].status, Followed(t)')
             => /\ writer[t] # NoWriter /\ writer[t].to = task'[t].status
                /\ writer[t].def # Followed(t)']_vars

\* What an active attempt proves was asked of the workflow that the task still
\* follows: no edit changes the row or the definition under an attempt without
\* ending it, and while a merge holds the task there is no such edit at all.
AttemptBindsCurrent ==
    /\ \A t \in enrolled : attempt[t] # NoAttempt => attempt[t] = Named(rows, task[t].pin)
    /\ \A t \in reserved : attempt[t] # NoAttempt
=============================================================================
