---------------------------- MODULE KeyedAdvance ----------------------------
(***************************************************************************)
(* A retried /advance under an Idempotency-Key (backend/src/routes/tasks.ts*)
(* with services/idempotency.ts): the stored responses, the task rows and  *)
(* the attempts that run between them.                                     *)
(*                                                                         *)
(* The handler reads the task FIRST, then looks the key up, decides on the *)
(* row it read, writes by compare-and-swap and stores a successful answer  *)
(* last. An attempt under the same key may come in at every one of these   *)
(* points: the client whose request timed out does not know which.         *)
(***************************************************************************)
EXTENDS Naturals, FiniteSets, Workflow

CONSTANTS
    Tasks,        \* the tasks of one project
    Callers,      \* the users and agent tokens that advance tasks
    Keys,         \* the values of the Idempotency-Key header
    Attempts,     \* slots for requests that run at the same time
    NoKey,        \* a request without the header
    NoTool,       \* no stored response
    NoClaim,      \* null in the claim column
    Def,          \* the effective workflow definition of the tasks
    Asked,        \* bound: the stages callers name in this instance
    Elsewhere,    \* bound: the statuses other routes write in this instance
    MaxVersion    \* bound: nothing starts at this status version or later

VARIABLES
    row,      \* the task rows
    tool,     \* the stored response of each key (toolInvocation)
    req,      \* the running attempts
    gaveUp,   \* the keys no client sends any more
    made,     \* history: the moves written under each key
    told,     \* history: the successes answered under a key
    overlap,  \* history: the keys under which two attempts ran at once
    lost      \* history: the keys of which a successful answer was not stored

history == <<made, told, overlap, lost>>
vars == <<row, tool, req, gaveUp, history>>

Row == [status : Statuses(Def), version : Nat, work : Callers \cup {NoClaim}]

\* NoTarget: the caller leaves the choice of the stage to the workflow.
Requested == States(Def) \cup {NoTarget}

\* What is hashed: the task, the requested stage and the caller.
PayloadType == [task : Tasks, to : Requested, caller : Callers]

Idle == [pc |-> "idle"]

\* The stage is chosen after the key was looked up; only a keyed attempt stores.
At(pcs, keys, tos) == [pc : pcs, key : keys, payload : PayloadType, snap : Row,
                       to : tos]

Busy == At({"lookup"}, Keys \cup {NoKey}, {NoTarget})
   \cup At({"write"}, Keys \cup {NoKey}, States(Def))
   \cup At({"store"}, Keys, States(Def))

Move == [payload : PayloadType, to : States(Def), read : Nat, at : Nat]
Answer == [payload : PayloadType, to : States(Def)]

ASSUME NullsAssumption ==
    /\ NoKey \notin Keys /\ NoClaim \notin Callers
    /\ NoTool \notin Answer
ASSUME DefAssumption == WellFormed(Def)
ASSUME BoundAssumption ==
    /\ Asked \subseteq States(Def) \cup {NoTarget}
    /\ Elsewhere \subseteq Statuses(Def)
    /\ MaxVersion \in Nat

TypeOK ==
    /\ row \in [Tasks -> Row]
    /\ tool \in [Keys -> Answer \cup {NoTool}]
    /\ req \in [Attempts -> Busy \cup {Idle}]
    /\ gaveUp \subseteq Keys
    /\ made \in [Keys -> SUBSET Move]
    /\ told \in [Keys -> SUBSET Answer]
    /\ overlap \subseteq Keys /\ lost \subseteq Keys

\* Tasks somebody works on, at the first work stage.
Init ==
    /\ row \in [Tasks -> [status : {StartTarget(Def)} \cap States(Def),
                          version : {0}, work : Callers]]
    /\ tool = [k \in Keys |-> NoTool]
    /\ req = [r \in Attempts |-> Idle]
    /\ gaveUp = {}
    /\ made = [k \in Keys |-> {}]
    /\ told = [k \in Keys |-> {}]
    /\ overlap = {} /\ lost = {}

-----------------------------------------------------------------------------
(* Attempts.                                                               *)

Under(k) == {r \in Attempts : req[r] # Idle /\ req[r].key = k}

End(r) == req' = [req EXCEPT ![r] = Idle]

Tell(q, to) ==
    told' = IF q.key = NoKey THEN told
            ELSE [told EXCEPT ![q.key] = @ \cup {[payload |-> q.payload, to |-> to]}]

\* Caller c asks to advance t under key k; the row is read.
ReadTask(r, c, k, t) ==
    /\ req[r] = Idle /\ row[t].version < MaxVersion
    /\ k \notin gaveUp
    /\ \E to \in Asked :
          req' = [req EXCEPT ![r] =
                    [pc |-> "lookup", key |-> k, snap |-> row[t], to |-> NoTarget,
                     payload |-> [task |-> t, to |-> to, caller |-> c]]]
    /\ overlap' = IF k \in Keys /\ Under(k) # {} THEN overlap \cup {k} ELSE overlap
    /\ UNCHANGED <<row, tool, gaveUp, made, told, lost>>

\* Mutant of Hashed: the caller is not part of the payload.
HashedAnyCaller(p) == [task |-> p.task, to |-> p.to]

Hashed(p) == p

Stored(q) == q.key # NoKey /\ tool[q.key] # NoTool

\* The key was answered before: the same payload gets the stored answer,
\* another one a conflict.
Replay(r) ==
    LET q == req[r] IN
    /\ req[r] # Idle /\ q.pc = "lookup" /\ Stored(q)
    /\ IF Hashed(tool[q.key].payload) = Hashed(q.payload)
       THEN Tell(q, tool[q.key].to) ELSE told' = told
    /\ End(r)
    /\ UNCHANGED <<row, tool, gaveUp, made, overlap, lost>>

\* The stages an advance from the row that was read may reach.
Choices(q) ==
    IF q.snap.work = q.payload.caller /\ IsWork(Def, q.snap.status)
       /\ ~IsReview(Def, q.snap.status)
    THEN AdvanceTargets(Def, q.snap.status) ELSE {}

Resolve(q) ==
    IF q.payload.to \in Choices(q) THEN q.payload.to
    ELSE IF q.payload.to = NoTarget /\ \E s \in Choices(q) : Choices(q) = {s}
         THEN CHOOSE s \in Choices(q) : TRUE
         ELSE NoTarget

Refuses(q) == Resolve(q) = NoTarget

\* A key without an answer, or no key: the handler runs.
Execute(r) ==
    LET q == req[r] IN
    /\ req[r] # Idle /\ q.pc = "lookup" /\ ~Stored(q) /\ ~Refuses(q)
    /\ req' = [req EXCEPT ![r] = [q EXCEPT !.pc = "write", !.to = Resolve(q)]]
    /\ UNCHANGED <<row, tool, gaveUp, history>>

\* Mutant of Unchanged: the claim alone is compared.
SameWork(q) == row[q.payload.task].work = q.snap.work

Unchanged(q) == row[q.payload.task] = q.snap

\* Mutant of AfterWrite: the answer is not stored.
AfterWriteForgets(q) == Idle

AfterWrite(q) == IF q.key = NoKey THEN Idle ELSE [q EXCEPT !.pc = "store"]

Write(r) ==
    LET q == req[r]  t == q.payload.task IN
    /\ req[r] # Idle /\ q.pc = "write" /\ Unchanged(q)
    /\ row' = [row EXCEPT ![t].status = q.to, ![t].version = @ + 1]
    /\ req' = [req EXCEPT ![r] = AfterWrite(q)]
    /\ made' = IF q.key = NoKey THEN made
               ELSE [made EXCEPT ![q.key] = @ \cup
                        {[payload |-> q.payload, to |-> q.to,
                          read |-> q.snap.version, at |-> row[t].version]}]
    /\ UNCHANGED <<tool, gaveUp, told, overlap, lost>>

\* Whoever stores second keeps the first response and answers its own.
Store(r) ==
    LET q == req[r] IN
    /\ req[r] # Idle /\ q.pc = "store"
    /\ tool' = IF Stored(q) THEN tool
               ELSE [tool EXCEPT ![q.key] = [payload |-> q.payload, to |-> q.to]]
    /\ Tell(q, q.to)
    /\ End(r)
    /\ UNCHANGED <<row, gaveUp, made, overlap, lost>>

\* An attempt that ends without a success: refused by the claim check, the
\* edges, a gate or the compare-and-swap (whose review lock and merge
\* reservation are not shown), an insert that fails, the end of the process.
\* What was written stays written; only successes are stored, so its answer is
\* lost.
Fail(r) ==
    /\ req[r] # Idle
    /\ lost' = IF req[r].pc = "store" THEN lost \cup {req[r].key} ELSE lost
    /\ End(r)
    /\ UNCHANGED <<row, tool, gaveUp, made, told, overlap>>

-----------------------------------------------------------------------------
(* Around them.                                                            *)

\* Another route moves a task or hands its claim over.
OtherWrite(t) ==
    /\ row[t].version < MaxVersion
    /\ \/ \E s \in Elsewhere :
             row' = [row EXCEPT ![t].status = s, ![t].version = @ + 1]
       \/ \E c \in Callers \cup {NoClaim} : row' = [row EXCEPT ![t].work = c]
    /\ UNCHANGED <<tool, req, gaveUp, history>>

\* No client retries under k any more. The retention is chosen to exceed this.
GiveUp(k) ==
    /\ gaveUp' = gaveUp \cup {k}
    /\ UNCHANGED <<row, tool, req, history>>

\* Mutant of Expired: responses are swept while clients still retry.
ExpiredEarly(k) == tool[k] # NoTool

Expired(k) == k \in gaveUp /\ Under(k) = {}

Sweep(k) ==
    /\ Expired(k)
    /\ tool' = [tool EXCEPT ![k] = NoTool]
    /\ UNCHANGED <<row, req, gaveUp, history>>

Next ==
    \/ \E r \in Attempts, c \in Callers, k \in Keys \cup {NoKey}, t \in Tasks :
          ReadTask(r, c, k, t)
    \/ \E r \in Attempts :
          Replay(r) \/ Execute(r) \/ Write(r) \/ Store(r) \/ Fail(r)
    \/ \E t \in Tasks : OtherWrite(t)
    \/ \E k \in Keys : GiveUp(k) \/ Sweep(k)

Spec == Init /\ [][Next]_vars

-----------------------------------------------------------------------------
(* What a caller may rely on.                                              *)

\* A retry whose earlier attempt did move the task finds the stored answer,
\* unless that attempt is between its write and its store right now or died
\* there. This is the whole window in which withIdempotency executes twice.
MoveRemembered ==
    \A k \in Keys \ gaveUp :
        made[k] # {} =>
            \/ tool[k] # NoTool \/ k \in lost
            \/ \E r \in Under(k) : req[r].pc = "store"

\* Whoever is told of a success under a key asked for that very move, and it
\* was made: a refused attempt is never replayed as a success, and the answer
\* of another caller, task or stage is not handed out.
ToldTruth ==
    \A k \in Keys : \A a \in told[k] :
        \E m \in made[k] : m.payload = a.payload /\ m.to = a.to

\* Attempts that follow each other, none of which lost its answer, move the
\* task once per key.
OncePerKey ==
    \A k \in Keys \ (overlap \cup lost) :
        \A m1, m2 \in made[k] : m1 = m2

\* Of the attempts that read the same row, under one key or several, only one
\* moves the task: the compare-and-swap closes what the store leaves open.
HotDuplicatesMoveOnce ==
    \A k1, k2 \in Keys : \A m1 \in made[k1], m2 \in made[k2] :
        m1.payload.task = m2.payload.task /\ m1.read = m2.read
        => k1 = k2 /\ m1 = m2
=============================================================================
