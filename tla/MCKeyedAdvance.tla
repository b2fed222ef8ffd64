--------------------------- MODULE MCKeyedAdvance ---------------------------
(* Instances of KeyedAdvance for TLC.                                      *)
EXTENDS KeyedAdvance, TLC

\* Three work stages in a row, so that a move can be made twice.
ThreeStages ==
    [states   |-> <<"open", "build", "test", "stage", "review", "done">>,
     terminal |-> {"done"},
     initial  |-> "open",
     edges    |-> << [from |-> "open",   to |-> "build"],
                     [from |-> "build",  to |-> "test"],
                     [from |-> "test",   to |-> "stage"],
                     [from |-> "stage",  to |-> "review"],
                     [from |-> "review", to |-> "done"] >>]

\* Named or left to the workflow; back to the first stage or off the work.
AskedStages == {NoTarget, "stage"}
OtherStatuses == {"build", "review"}

Symmetry == Permutations(Attempts) \cup Permutations(Keys) \cup Permutations(Callers)
=============================================================================
