------------------------------- MODULE Project -------------------------------
(***************************************************************************)
(* What belongs to a project beside the life of its tasks: its shares, its *)
(* workflows, the dependencies of its tasks, what is attached to one, and  *)
(* imports.  The parts share no state in the models; this module gives     *)
(* each its own variables, so that they can be spoken of together.         *)
(***************************************************************************)
EXTENDS Shares

CONSTANTS
    Followers, BuiltIn, Offered, Templates, Legacy, MaxRows, \* WorkflowEdit
    Tasks,                                                   \* TaskGraph
    Items, MaxSize, CountCap, BytesCap,                       \* TaskFiles
    Refs, NoRef, Batches,                                    \* TaskIntake
    Requests,   \* slots of the last three
    None        \* no task, no row

VARIABLES
    wrows, wtask, writer, attempt, reserved, enrolled, \* the state of WorkflowEdit
    exists, blockedBy, greq, raced,                    \* the state of TaskGraph
    ftask, frows, files, freq, disturbed,              \* the state of TaskFiles
    selected, irows, deleted, ireq                     \* the state of TaskIntake

Workflows == INSTANCE WorkflowEdit WITH Tasks <- Followers, rows <- wrows, task <- wtask
Graph == INSTANCE TaskGraph WITH NoTask <- None, req <- greq
Files == INSTANCE TaskFiles WITH task <- ftask, rows <- frows, req <- freq
Intake == INSTANCE TaskIntake WITH rows <- irows, req <- ireq

ASSUME WorkflowsAssumption == Workflows!DefinitionsAssumption
ASSUME FilesAssumption == Files!DefinitionsAssumption
ASSUME IntakeAssumption == Intake!DefinitionsAssumption

\* What the parts promise.
EditStrandsNobody == Workflows!EditStrandsNobody
OnlyLateWritesStray == Workflows!OnlyLateWritesStray
AttemptBindsCurrent == Workflows!AttemptBindsCurrent
CyclesAreRaced == Graph!CyclesAreRaced
CapsHold == Files!CapsHold
FilesMatchRows == Files!FilesMatchRows
ImportComplete == Intake!ImportComplete
=============================================================================
