------------------------------ MODULE PrCreate ------------------------------
(***************************************************************************)
(* Creation of a pull request for a task (backend/src/services/            *)
(* grounding-github-create.ts, its provider, and the repository fence).    *)
(*                                                                         *)
(* GitHub has no idempotency key, so the service makes its own: the        *)
(* operation is reserved, then claimed for one POST, and the pull request  *)
(* carries a marker with the operation's id by which a retry finds it.     *)
(* Several invocations for one operation may run at once and stop at every *)
(* point between two transactions.                                         *)
(***************************************************************************)
EXTENDS Naturals, FiniteSets

CONSTANTS
    Tasks,    \* tasks of one repository
    Ops,      \* creations: a task, an Idempotency-Key and a request
    Callers,  \* slots for invocations that run at the same time
    Prs,      \* the numbers GitHub gives to pull requests
    NoPr,     \* no pull request
    NoOp,     \* no operation
    Merging,  \* the fence owner when the repository is fenced for a merge
    MaxEdits  \* bound: descriptions people edit in this instance

VARIABLES
    op,       \* the create operations
    fence,    \* the owner of the repository fence
    link,     \* per task: the pull request in its row
    subject,  \* per task: the pull request its active grounding attempt names
    run,      \* the running invocations
    posts,    \* POST requests on their way
    marker,   \* per pull request: the operation its description names now
    made,     \* per pull request: the operation whose POST created it
    edits     \* the descriptions edited so far

db == <<op, fence, link, subject>>
github == <<posts, marker, made, edits>>
vars == <<db, run, github>>

\* "unused" before the first request under the key.
States == {"unused", "reserved", "dispatched", "completed"}
Op == [state : States, task : Tasks, observed : Prs \cup {NoPr}, conflict : BOOLEAN]

Idle == [pc |-> "idle", op |-> NoOp, proof |-> NoPr]
Run == {Idle} \cup [pc : {"claim", "post", "read"}, op : Ops, proof : {NoPr}]
              \cup [pc : {"remember", "bind"}, op : Ops, proof : Prs]

\* No attempt is active, or it names no pull request.
NoAttempt == [active |-> FALSE, pr |-> NoPr]

ASSUME NullsAssumption ==
    /\ NoPr \notin Prs /\ NoOp \notin Ops /\ Merging \notin Ops \cup {NoOp}
ASSUME BoundAssumption == MaxEdits \in Nat

TypeOK ==
    /\ op \in [Ops -> Op]
    /\ fence \in Ops \cup {NoOp, Merging}
    /\ link \in [Tasks -> Prs \cup {NoPr}]
    /\ subject \in [Tasks -> [active : BOOLEAN, pr : Prs \cup {NoPr}]]
    /\ run \in [Callers -> Run]
    /\ posts \subseteq Ops
    /\ marker \in [Prs -> Ops \cup {NoOp}] /\ made \in [Prs -> Ops \cup {NoOp}]
    /\ edits \in 0 .. MaxEdits

Init ==
    /\ op \in [Ops -> [state : {"unused"}, task : Tasks, observed : {NoPr},
                       conflict : {FALSE}]]
    /\ fence = NoOp
    /\ link = [t \in Tasks |-> NoPr]
    /\ subject = [t \in Tasks |-> NoAttempt]
    /\ run = [c \in Callers |-> Idle]
    /\ posts = {}
    /\ marker = [p \in Prs |-> NoOp] /\ made = [p \in Prs |-> NoOp]
    /\ edits = 0

Go(c, pc) == run' = [run EXCEPT ![c].pc = pc]

Stop(c) == run' = [run EXCEPT ![c] = Idle]

-----------------------------------------------------------------------------
(* createOrResume, one transaction after the other.                        *)

\* The operation, its fence and the reservation of the task come together.
Reserve(c, o) ==
    /\ run[c] = Idle /\ op[o].state = "unused" /\ fence = NoOp
    /\ op' = [op EXCEPT ![o].state = "reserved"]
    /\ fence' = o
    /\ run' = [run EXCEPT ![c] = [Idle EXCEPT !.pc = "claim", !.op = o]]
    /\ UNCHANGED <<link, subject, github>>

\* Mutant of Resumable: a creation that was posted is taken for one under way.
ResumableUnposted(o) == op[o].state \in {"reserved", "completed"}

Resumable(o) == op[o].state # "unused"

\* A retry under the key finds the operation; a recorded conflict ends it.
Resume(c, o) ==
    /\ run[c] = Idle /\ Resumable(o) /\ ~op[o].conflict
    /\ op[o].state = "completed" \/ fence = o
    /\ run' = [run EXCEPT ![c] = [Idle EXCEPT !.pc = "claim", !.op = o]]
    /\ UNCHANGED <<db, github>>

\* Mutant of Posts: an operation without an answer is posted again.
PostsUntilObserved(o) == op[o].state # "completed" /\ op[o].observed = NoPr

\* Only the invocation that finds the operation reserved may post.
Posts(o) == op[o].state = "reserved"

Claim(c) ==
    LET o == run[c].op IN
    /\ run[c].pc = "claim"
    /\ IF op[o].conflict THEN Stop(c) /\ UNCHANGED <<op, posts>>
       ELSE IF Posts(o)
       THEN /\ op' = [op EXCEPT ![o].state = "dispatched"]
            /\ posts' = posts \cup {o}
            /\ Go(c, "post")
       ELSE Go(c, "read") /\ UNCHANGED <<op, posts>>
    /\ UNCHANGED <<fence, link, subject, marker, made, edits>>

\* The answer to the POST names the pull request that it made.
Answered(c) ==
    /\ run[c].pc = "post"
    /\ \E p \in Prs :
          /\ made[p] = run[c].op /\ marker[p] = run[c].op
          /\ run' = [run EXCEPT ![c].pc = "remember", ![c].proof = p]
    /\ UNCHANGED <<db, github>>

Marked(o) == {p \in Prs : marker[p] = o}

\* A complete listing with exactly one pull request that carries the marker is
\* a proof; anything else is "pending".
Read(c) ==
    /\ run[c].pc = "read"
    /\ IF Cardinality(Marked(run[c].op)) = 1
       THEN \E p \in Marked(run[c].op) :
               run' = [run EXCEPT ![c].pc = "remember", ![c].proof = p]
       ELSE Stop(c)
    /\ UNCHANGED <<db, github>>

Contradicts(o, p) == op[o].observed \notin {NoPr, p}

Conflict(o) == op' = [op EXCEPT ![o].conflict = TRUE]

\* What was seen is stored on its own, before the task is touched.
Remember(c) ==
    LET o == run[c].op  p == run[c].proof IN
    /\ run[c].pc = "remember"
    /\ IF op[o].conflict THEN Stop(c) /\ op' = op
       ELSE IF Contradicts(o, p) THEN Conflict(o) /\ Stop(c)
       ELSE IF op[o].state = "completed" THEN Stop(c) /\ op' = op
       ELSE /\ op' = [op EXCEPT ![o].observed = p]
            /\ Go(c, "bind")
    /\ UNCHANGED <<fence, link, subject, github>>

\* The task gets the pull request and the context of its attempt is superseded.
Bound(o) ==
    /\ link' = [link EXCEPT ![op[o].task] = op[o].observed]
    /\ subject' = [subject EXCEPT ![op[o].task] = NoAttempt]

Freed == NoOp

Bind(c) ==
    LET o == run[c].op  p == run[c].proof IN
    /\ run[c].pc = "bind"
    /\ \/ op[o].conflict /\ UNCHANGED <<op, link, subject, fence>>
       \/ /\ ~op[o].conflict /\ Contradicts(o, p)
          /\ Conflict(o) /\ UNCHANGED <<link, subject, fence>>
       \/ /\ ~op[o].conflict /\ ~Contradicts(o, p) /\ op[o].state = "completed"
          /\ UNCHANGED <<op, link, subject, fence>>
       \/ /\ ~op[o].conflict /\ ~Contradicts(o, p) /\ op[o].state = "dispatched"
          /\ fence = o
          /\ Bound(o)
          /\ op' = [op EXCEPT ![o].state = "completed"]
          /\ fence' = Freed
    /\ Stop(c)
    /\ UNCHANGED github

\* An invocation ends without an answer: a read that fails, a timeout, an
\* authority that was revoked, a commit that fails, the end of the process.
Fail(c) ==
    /\ run[c] # Idle
    /\ Stop(c)
    /\ UNCHANGED <<db, github>>

-----------------------------------------------------------------------------
(* GitHub and the rest of the service.                                     *)

\* GitHub gives out numbers in some order; one per pull request.
PostArrives(o, p) ==
    /\ o \in posts /\ made[p] = NoOp /\ marker[p] = NoOp
    /\ posts' = posts \ {o}
    /\ made' = [made EXCEPT ![p] = o] /\ marker' = [marker EXCEPT ![p] = o]
    /\ UNCHANGED <<db, run, edits>>

\* The request is lost, or GitHub refuses it: another one is open for the branch.
PostLost(o) ==
    /\ o \in posts
    /\ posts' = posts \ {o}
    /\ UNCHANGED <<db, run, marker, made, edits>>

\* Somebody edits a description: the marker is deleted, or copied into another
\* pull request of the same branch.
Edit(p, o) ==
    /\ edits < MaxEdits
    /\ o = NoOp => marker[p] # NoOp
    /\ o # NoOp => marker[p] = NoOp /\ Marked(o) # {}
    /\ marker' = [marker EXCEPT ![p] = o]
    /\ edits' = edits + 1
    /\ UNCHANGED <<db, run, posts, made>>

\* Other writers of the task and its attempts are stopped by the triggers.
Unfenced == fence = NoOp

Relink(t, p) ==
    /\ Unfenced /\ link[t] # p
    /\ link' = [link EXCEPT ![t] = p]
    /\ subject' = [subject EXCEPT ![t] = NoAttempt]
    /\ UNCHANGED <<op, fence, run, github>>

Issue(t) ==
    /\ Unfenced
    /\ subject' = [subject EXCEPT ![t] = [active |-> TRUE, pr |-> link[t]]]
    /\ UNCHANGED <<op, fence, link, run, github>>

MergeBegins ==
    /\ fence = NoOp /\ fence' = Merging
    /\ UNCHANGED <<op, link, subject, run, github>>

MergeEnds ==
    /\ fence = Merging /\ fence' = NoOp
    /\ UNCHANGED <<op, link, subject, run, github>>

Step(c) == Claim(c) \/ Answered(c) \/ Read(c) \/ Remember(c) \/ Bind(c)

Next ==
    \/ \E c \in Callers : Step(c) \/ Fail(c)
    \/ \E c \in Callers, o \in Ops : Reserve(c, o) \/ Resume(c, o)
    \/ \E o \in Ops : PostLost(o) \/ \E p \in Prs : PostArrives(o, p)
    \/ \E p \in Prs, o \in Ops \cup {NoOp} : Edit(p, o)
    \/ \E t \in Tasks : Issue(t) \/ \E p \in Prs \cup {NoPr} : Relink(t, p)
    \/ MergeBegins \/ MergeEnds

Spec == Init /\ [][Next]_vars

\* The client of each operation retries until it has an answer, and not every
\* retry is cut off; the POST has a timeout.
FairSpec ==
    /\ Spec
    /\ \A c \in Callers : WF_vars(run[c].pc = "post" /\ (Answered(c) \/ Fail(c)))
    /\ \A o \in Ops :
          /\ SF_vars(\E c \in Callers : Resume(c, o))
          /\ SF_vars(\E c \in Callers : run[c].op = o /\ Claim(c))
          /\ SF_vars(\E c \in Callers : run[c].op = o /\ Read(c))
          /\ SF_vars(\E c \in Callers : run[c].op = o /\ Remember(c))
          /\ SF_vars(\E c \in Callers : run[c].op = o /\ Bind(c))

-----------------------------------------------------------------------------
(* What a creation is promised.                                            *)

\* However often and wherever an invocation stops and is repeated, GitHub is
\* asked for one pull request per operation.
OnePullRequest ==
    \A o \in Ops :
        /\ Cardinality({p \in Prs : made[p] = o}) <= 1
        /\ o \in posts => op[o].state # "unused" /\ \A p \in Prs : made[p] # o

\* Once the pull request exists, the task is linked to it in the end, unless
\* somebody tampers with the marker or the proofs contradict each other.
CreationEnds ==
    \A o \in Ops : (\E p \in Prs : made[p] = o) ~>
        (op[o].state = "completed" \/ op[o].conflict \/ Cardinality(Marked(o)) # 1)
=============================================================================
