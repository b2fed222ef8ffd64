------------------------------ MODULE TaskIntake ------------------------------
(***************************************************************************)
(* Import of a batch of tasks into one project: the route of               *)
(* backend/src/routes/tasks.ts, and the one of grounding-creation.ts that  *)
(* answers instead when the grounding creation policy selects the project. *)
(* A request that creates one task is a batch of one.                      *)
(*                                                                         *)
(* An item may carry the reference of the ticket it comes from, and a      *)
(* project has one task for a reference.  Items are written one by one, no *)
(* transaction covers the batch: two imports may overlap, one may be cut   *)
(* off after any item and sent again.                                      *)
(***************************************************************************)
EXTENDS Naturals, FiniteSets, Sequences

CONSTANTS
    Refs,     \* external references
    NoRef,    \* an item without one
    Batches,  \* what clients send: sequences of Refs and NoRef
    Requests  \* import requests; a retry is a request with the same batch

VARIABLES
    selected, \* the policy selects the project (set when the process starts)
    rows,     \* the tasks: the reference and the item each was made from
    deleted,  \* history: references of tasks that people deleted
    req       \* per request: how far it is, and what it will answer

vars == <<selected, rows, deleted, req>>

Positions == Nat \ {0}
New == [pc |-> "new", batch |-> <<>>, todo |-> {}, created |-> {}, skipped |-> 0,
        errors |-> {}]

\* What an instance has to satisfy.
DefinitionsAssumption ==
    NoRef \notin Refs /\ \A b \in Batches : b \in Seq(Refs \cup {NoRef})

\* A task remembers who made it; an entry of the answer, what it stands for.
Row == [ref : Refs \cup {NoRef}, by : Requests, item : Positions]
Entry == [index : Positions, item : Positions]

TypeOK ==
    /\ selected \in BOOLEAN
    /\ rows \subseteq Row /\ deleted \subseteq Refs
    /\ \A r \in Requests :
          /\ req[r].pc \in {"new", "run", "answered", "cut"}
          /\ req[r].batch \in Batches \cup {<<>>}
          /\ req[r].todo \subseteq DOMAIN req[r].batch
          /\ req[r].created \subseteq Entry /\ req[r].errors \subseteq Entry
          /\ req[r].skipped \in Nat

Init ==
    /\ selected \in BOOLEAN
    /\ rows = {} /\ deleted = {}
    /\ req = [r \in Requests |-> New]

\* Mutant of Kept: items without a reference are taken for copies of each other.
KeptOnePerRef(b) == {i \in DOMAIN b : \A j \in 1 .. i - 1 : b[j] # b[i]}

\* The items that are not a copy, by reference, of an earlier one.
Kept(b) == {i \in DOMAIN b : b[i] = NoRef \/ \A j \in 1 .. i - 1 : b[j] # b[i]}

\* Copies are skipped before anything is written.
Begin(r, b) ==
    /\ req[r].pc = "new"
    /\ req' = [req EXCEPT ![r] = [New EXCEPT !.pc = "run", !.batch = b, !.todo = Kept(b),
                                             !.skipped = Len(b) - Cardinality(Kept(b))]]
    /\ UNCHANGED <<selected, rows, deleted>>

\* The unique index on (project, reference), or the lookup under the lock.
Taken(r, ref) == \E row \in rows : row.ref = ref /\ ref # NoRef

\* Which item the answer says it speaks of: the route of tasks.ts counts the
\* items it kept, the one of grounding-creation.ts the items it was sent.
Told(r, i) ==
    [index |-> IF selected THEN i ELSE Cardinality({j \in Kept(req[r].batch) : j <= i}),
     item  |-> i]

\* The next item: skipped when its reference is taken, else written, unless that
\* fails; a failure is noted and the loop goes on.
Item(r) ==
    \E i \in req[r].todo :
       LET ref == req[r].batch[i]
           next == [req EXCEPT ![r].todo = @ \ {i}]
       IN /\ req[r].pc = "run" /\ \A j \in req[r].todo : i <= j
          /\ \/ /\ Taken(r, ref)
                /\ req' = [next EXCEPT ![r].skipped = @ + 1]
                /\ UNCHANGED rows
             \/ /\ ~Taken(r, ref)
                /\ rows' = rows \cup {[ref |-> ref, by |-> r, item |-> i]}
                /\ req' = [next EXCEPT ![r].created = @ \cup {Told(r, i)}]
             \/ /\ req' = [next EXCEPT ![r].errors = @ \cup {Told(r, i)}]
                /\ UNCHANGED rows
          /\ UNCHANGED <<selected, deleted>>

Answer(r) ==
    /\ req[r].pc = "run" /\ req[r].todo = {}
    /\ req' = [req EXCEPT ![r].pc = "answered"]
    /\ UNCHANGED <<selected, rows, deleted>>

\* The process dies, or the answer is lost; what is written stays.
CutOff(r) ==
    /\ req[r].pc = "run"
    /\ req' = [req EXCEPT ![r].pc = "cut"]
    /\ UNCHANGED <<selected, rows, deleted>>

\* Somebody deletes a task.
DeleteTask(row) ==
    /\ row \in rows
    /\ rows' = rows \ {row}
    /\ deleted' = deleted \cup ({row.ref} \ {NoRef})
    /\ UNCHANGED <<selected, req>>

Next ==
    \/ \E r \in Requests :
          (\E b \in Batches : Begin(r, b)) \/ Item(r) \/ Answer(r) \/ CutOff(r)
    \/ \E row \in rows : DeleteTask(row)

Spec == Init /\ [][Next]_vars

-----------------------------------------------------------------------------
(* Properties                                                              *)

TasksOf(ref) == {row \in rows : row.ref = ref}

\* However imports overlap, are cut off and sent again: a reference never has
\* two tasks, an answer accounts for each item of the batch once, and when it
\* reports no error the import is complete - each reference has its task
\* unless somebody deleted it, each item without one was written by this very
\* request.
ImportComplete ==
    /\ \A ref \in Refs : Cardinality(TasksOf(ref)) <= 1
    /\ \A r \in Requests : req[r].pc = "answered" =>
          /\ Cardinality(req[r].created) + req[r].skipped + Cardinality(req[r].errors)
                = Len(req[r].batch)
          /\ req[r].errors = {} => \A i \in DOMAIN req[r].batch :
                LET ref == req[r].batch[i] IN
                IF ref = NoRef THEN \E e \in req[r].created : e.item = i
                ELSE TasksOf(ref) # {} \/ ref \in deleted

=============================================================================
