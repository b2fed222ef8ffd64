------------------------------ MODULE Workflow ------------------------------
(***************************************************************************)
(* The workflow definition of a task and the questions the handlers ask of *)
(* it (backend/src/services/default-workflow.ts).                          *)
(*                                                                         *)
(* A definition is a record                                                *)
(*   states      the state names in declaration order                      *)
(*   terminal    the names whose terminal flag is set                      *)
(*   initial     the initial state                                         *)
(*   edges       the transitions, in declaration order, as [from, to]      *)
(* The labels, the required role and the preconditions of a transition are *)
(* not kept: a handler that evaluates them may refuse, which the models    *)
(* show as a request that is never accepted.                               *)
(***************************************************************************)
EXTENDS Naturals, Sequences

\* The value of "?? undefined" lookups; no state carries this name.
NoTarget == "no target"

\* The two statuses that live outside every definition.
Backlog == "backlog"
Abandoned == "abandoned"

States(def) == {def.states[i] : i \in DOMAIN def.states}
Statuses(def) == States(def) \cup {Backlog, Abandoned}

\* What workflowDefinitionSchema accepts, as far as the models use it.
WellFormed(def) ==
    /\ def.states \in Seq(STRING)
    /\ def.edges \in Seq([from : STRING, to : STRING])
    /\ \A i, j \in DOMAIN def.states : def.states[i] = def.states[j] => i = j
    /\ \A i \in DOMAIN def.edges :
           def.edges[i].from \in States(def) /\ def.edges[i].to \in States(def)
    /\ States(def) \cap {Backlog, Abandoned, NoTarget} = {}
    /\ def.initial = "open" /\ def.initial \in States(def)
    /\ def.terminal # {} /\ def.terminal \subseteq States(def)
    /\ def.initial \notin def.terminal

DefaultWorkflow ==
    [states   |-> <<"open", "in_progress", "review", "done">>,
     terminal |-> {"done"},
     initial  |-> "open",
     edges    |-> << [from |-> "open",        to |-> "in_progress"],
                     [from |-> "in_progress", to |-> "review"],
                     [from |-> "in_progress", to |-> "done"],
                     [from |-> "in_progress", to |-> "open"],
                     [from |-> "review",      to |-> "done"],
                     [from |-> "review",      to |-> "in_progress"] >>]

-----------------------------------------------------------------------------
(* Classification of a state.                                              *)

HasEdge(def, from, to) ==
    \E i \in DOMAIN def.edges : def.edges[i] = [from |-> from, to |-> to]

IsInitial(def, s) == s = def.initial
IsTerminal(def, s) == s \in def.terminal

\* A state that can be approved out of and is not entered directly by a start.
IsReview(def, s) ==
    /\ ~IsInitial(def, s) /\ ~IsTerminal(def, s)
    /\ \E e \in def.terminal : HasEdge(def, s, e)
    /\ ~HasEdge(def, def.initial, s)

\* Every status that is neither initial nor terminal, known or not.
IsWork(def, s) == ~IsInitial(def, s) /\ ~IsTerminal(def, s)

-----------------------------------------------------------------------------
(* Targets. Every lookup takes the first match in declaration order.       *)

FirstIndex(idx) == CHOOSE i \in idx : \A j \in idx : i <= j

EdgesFrom(def, s) == {i \in DOMAIN def.edges : def.edges[i].from = s}

FirstEdgeTo(def, idx) ==
    IF idx = {} THEN NoTarget ELSE def.edges[FirstIndex(idx)].to

FirstStateOf(def, set) ==
    LET idx == {i \in DOMAIN def.states : def.states[i] \in set}
    IN  IF idx = {} THEN NoTarget ELSE def.states[FirstIndex(idx)]

\* The status a start moves the task to.
StartTarget(def) == FirstEdgeTo(def, EdgesFrom(def, def.initial))

\* Where an approval goes: the first edge into a terminal state, else the
\* first terminal state.
FirstTerminal(def) == FirstStateOf(def, def.terminal)

ApproveTarget(def, s) ==
    FirstEdgeTo(def, {i \in EdgesFrom(def, s) : IsTerminal(def, def.edges[i].to)})

TerminalTarget(def, s) ==
    IF ApproveTarget(def, s) # NoTarget THEN ApproveTarget(def, s)
                                        ELSE FirstTerminal(def)

\* Where a change request goes; NoTarget lets the caller choose the fallback.
ChangesTarget(def, s) ==
    FirstEdgeTo(def, {i \in EdgesFrom(def, s) :
                         /\ ~IsTerminal(def, def.edges[i].to)
                         /\ ~IsReview(def, def.edges[i].to)})

ReviewStates(def) == {s \in States(def) : IsReview(def, s)}

ReachableReview(def, s) ==
    FirstStateOf(def, {v \in ReviewStates(def) : HasEdge(def, s, v)})

\* The first review state of the workflow, else its first terminal state.
ExpectedFinish(def) ==
    IF ReviewStates(def) # {} THEN FirstStateOf(def, ReviewStates(def))
                              ELSE FirstTerminal(def)

\* Where a work finish goes.
FinishTarget(def, s) ==
    IF ReachableReview(def, s) # NoTarget THEN ReachableReview(def, s)
                                          ELSE ExpectedFinish(def)

-----------------------------------------------------------------------------
(* Advancing between work stages.                                          *)

IsForward(def, from, to) ==
    \E i, j \in DOMAIN def.states :
        i < j /\ def.states[i] = from /\ def.states[j] = to

IsFinishOnly(def, s) == IsTerminal(def, s) \/ IsReview(def, s)

AdvanceTargets(def, from) ==
    {to \in States(def) :
        /\ HasEdge(def, from, to) /\ IsForward(def, from, to)
        /\ IsWork(def, to) /\ ~IsFinishOnly(def, to)}

=============================================================================
