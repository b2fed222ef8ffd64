------------------------------ MODULE MCSignals ------------------------------
(* Instances of Signals for TLC.                                           *)
EXTENDS Signals, TLC

\* The life of a task between agents and the administrator.
RouteHandlers == {"start", "lock", "finish", "approve", "merge", "changes",
                  "reopen", "release", "force", "crash"}
AllHandlers == RouteHandlers \cup {"demote", "promote", "webhook"}

\* A custom workflow with rules on its edges.
GatedEdges == {<<"work", "review">>, <<"work", "open">>, <<"review", "work">>,
               <<"review", "done">>}

Symmetry == Permutations(Slots) \cup Permutations(Calls) \cup Permutations(Agents)
=============================================================================
