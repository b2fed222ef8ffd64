-------------------------- MODULE MCTaskLifecycle --------------------------
(* Instances of TaskProperties for TLC.                                    *)
EXTENDS TaskProperties, TLC

CONSTANTS a1, a2, h1, t1, t2, r1, r2

MCCreator == [t \in Tasks |-> a1]
NoBlockers == [t \in Tasks |-> {}]

T2First == [t \in Tasks |-> IF t = t2 THEN {t1} ELSE {}]

\* The requests do the same things.
RequestSymmetry == Permutations(Requests)

\* Two work stages, two terminal states and a way back from one of them.
StagedWorkflow ==
    [states   |-> <<"open", "in_progress", "testing", "review", "done", "dropped">>,
     terminal |-> {"done", "dropped"},
     initial  |-> "open",
     edges    |-> << [from |-> "open",        to |-> "in_progress"],
                     [from |-> "in_progress", to |-> "testing"],
                     [from |-> "in_progress", to |-> "dropped"],
                     [from |-> "testing",     to |-> "review"],
                     [from |-> "review",      to |-> "in_progress"],
                     [from |-> "review",      to |-> "done"],
                     [from |-> "dropped",     to |-> "open"] >>]

\* A run that begins later in a task's life: a1 has finished its work, the task
\* waits for a review or has a reviewer. Status versions count from there.
InReview ==
    /\ row \in [Tasks -> [status : {"review"}, version : {0}, work : {a1},
                          review : {NoActor, a2}, lock : {NoRequest},
                          result : {NoRequest}, sha : {FALSE}]]
    /\ pull = [t \in Tasks |-> "open"]
    /\ req = [r \in Requests |-> Idle]

ReviewSpec == InReview /\ [][Next]_vars

=============================================================================
