------------------------------ MODULE MCProject ------------------------------
(* An instance of Project for TLC.  One run checks the parts one after the    *)
(* other: `part` says which one moves.                                        *)
EXTENDS Project, TLC

CONSTANTS x, y            \* references

\* Ids of rows and slots of requests are interchangeable.
Symmetry == Permutations(Items) \cup Permutations(Requests)

VARIABLE part

-----------------------------------------------------------------------------
(* Definitions of workflows, and batches.                                     *)

Standard == [initial |-> "open", work |-> {"open", "review"}, final |-> {"done"}]
WithQa == [initial |-> "open", work |-> {"open", "qa"}, final |-> {"done"}]
Shipped == [initial |-> "open", work |-> {"open", "done"}, final |-> {"review"}]
Backlogged == [initial |-> "backlog", work |-> {"backlog", "qa"}, final |-> {"done"}]

MCOffered == {WithQa, Shipped}
MCTemplates == {WithQa}
MCLegacy == {Backlogged}

\* Copies in one batch, items without a reference, a retry of the same batch
\* and a batch that shares references with another one.
SmallBatches == {<<x, x, y>>, <<x, NoRef, NoRef>>, <<y>>, <<NoRef, y, x>>}

-----------------------------------------------------------------------------

workflowVars == <<wrows, wtask, writer, attempt, reserved, enrolled>>
graphVars == <<exists, blockedBy, greq, raced>>
fileVars == <<ftask, frows, files, freq, disturbed>>
intakeVars == <<selected, irows, deleted, ireq>>
allVars == <<part, vars, workflowVars, graphVars, fileVars, intakeVars>>

\* Joining with the governance, and leaving with the claims, meet in the members
\* only: the shares are checked without claims, and with one mode.
Parts == {"workflows", "graph", "files", "intake", "joins", "leaves"}

MCInit == /\ part \in Parts
          /\ Init /\ Workflows!Init /\ Graph!Init /\ Files!Init /\ Intake!Init
          \* a part that does not move starts in one way
          /\ part # "workflows" =>
                enrolled = {} /\ \A w \in DOMAIN wrows : wrows[w] = Workflows!NoRow
          /\ part # "graph" => exists = {}
          /\ part # "intake" => selected = FALSE
          /\ part # "joins" => project = OfMode("AWAITS_CONFIRMATION")

MCNext ==
    /\ UNCHANGED part
    /\ \/ /\ part = "workflows" /\ Workflows!Next
          /\ UNCHANGED <<vars, graphVars, fileVars, intakeVars>>
       \/ /\ part = "graph" /\ Graph!Next
          /\ UNCHANGED <<vars, workflowVars, fileVars, intakeVars>>
       \/ /\ part = "files" /\ Files!Next
          /\ UNCHANGED <<vars, workflowVars, graphVars, intakeVars>>
       \/ /\ part = "intake" /\ Intake!Next
          /\ UNCHANGED <<vars, workflowVars, graphVars, fileVars>>
       \/ /\ part = "joins" /\ UNCHANGED <<task, admitted>> /\ Next
          /\ UNCHANGED <<workflowVars, graphVars, fileVars, intakeVars>>
       \/ /\ part = "leaves" /\ UNCHANGED project /\ Next
          /\ UNCHANGED <<workflowVars, graphVars, fileVars, intakeVars>>

MCSpec == MCInit /\ [][MCNext]_allVars
=============================================================================
