---------------------------- MODULE PrCreateProofs ----------------------------
(***************************************************************************)
(* Creation of pull requests, for any number of tasks, operations,         *)
(* invocations and edits.  GitHub is asked once per operation because the  *)
(* state of the operation leaves "reserved" with the request and never     *)
(* comes back, whoever stops where; and the fence belongs to one           *)
(* unfinished creation, from its reservation to the row of its task.       *)
(***************************************************************************)
EXTENDS PrCreate, FiniteSetTheorems, TLAPS

Unposted(o) == op[o].state \in {"unused", "reserved"}

\* A request or a pull request of an operation exists once it was dispatched,
\* never both, and never two of either.
PostedOnce ==
    \A o \in Ops :
        /\ Unposted(o) => o \notin posts /\ \A p \in Prs : made[p] # o
        /\ o \in posts => \A p \in Prs : made[p] # o
        /\ \A p, q \in Prs : made[p] = o /\ made[q] = o => p = q

Unfinished(o) == op[o].state \in {"reserved", "dispatched"}

\* The fence of the repository is an unfinished creation's, and every unfinished
\* creation has it: there is never a second one, and none that lost it.
FenceIsUnfinished == \A o \in Ops : Unfinished(o) <=> fence = o

\* An operation is completed with what was seen of its pull request.
CompletedSeen ==
    /\ \A o \in Ops : op[o].state = "completed" => op[o].observed \in Prs
    /\ \A c \in Callers : run[c].pc = "bind" => op[run[c].op].observed \in Prs

\* As long as nobody edits a description, what an invocation takes for a proof
\* and what an operation is told to have made is what its own request made.
OwnPullRequest ==
    edits = 0 =>
        /\ marker = made
        /\ \A o \in Ops : op[o].observed # NoPr => made[op[o].observed] = o
        /\ \A c \in Callers :
              run[c].pc \in {"remember", "bind"} => made[run[c].proof] = run[c].op

-----------------------------------------------------------------------------
(* Types.                                                                  *)

Waiting == [pc : {"claim", "post", "read"}, op : Ops, proof : {NoPr}]
Holding == [pc : {"remember", "bind"}, op : Ops, proof : Prs]

LEMMA RunParts ==
    /\ Run = {Idle} \cup Waiting \cup Holding
    /\ Idle \in Run
    /\ \A q \in Run : q.pc \in {"claim", "post", "read"} => q \in Waiting
    /\ \A q \in Run : q.pc \in {"remember", "bind"} => q \in Holding
    /\ \A q \in Run : q # Idle => q.op \in Ops
<1>1. Run = {Idle} \cup Waiting \cup Holding
  BY DEF Run, Waiting, Holding
<1>2. Idle.pc = "idle"
  BY DEF Idle
<1> QED  BY <1>1, <1>2 DEF Waiting, Holding

\* The moves of an invocation.
LEMMA RunMoves ==
    ASSUME TypeOK, NEW c \in Callers
    PROVE  /\ Stop(c) => run' \in [Callers -> Run]
           /\ \A o \in Ops : run' = [run EXCEPT ![c] = [Idle EXCEPT !.pc = "claim", !.op = o]]
                 => run' \in [Callers -> Run]
           /\ \A pc \in {"post", "read"} :
                 run[c].pc = "claim" /\ Go(c, pc) => run' \in [Callers -> Run]
           /\ run[c].pc = "remember" /\ Go(c, "bind") => run' \in [Callers -> Run]
           /\ \A p \in Prs : /\ run[c].pc \in {"post", "read"}
                             /\ run' = [run EXCEPT ![c].pc = "remember", ![c].proof = p]
                             => run' \in [Callers -> Run]
<1>0. run \in [Callers -> Run] /\ run[c] \in Run
  BY DEF TypeOK
<1>1. Stop(c) => run' \in [Callers -> Run]
  BY <1>0, RunParts DEF Stop
<1>2. ASSUME NEW o \in Ops PROVE [Idle EXCEPT !.pc = "claim", !.op = o] \in Run
  BY RunParts DEF Idle, Waiting
<1>3. ASSUME NEW pc \in {"post", "read"}, run[c].pc = "claim"
      PROVE  [run[c] EXCEPT !.pc = pc] \in Run
  BY <1>0, <1>3, RunParts DEF Waiting
<1>4. ASSUME run[c].pc = "remember" PROVE [run[c] EXCEPT !.pc = "bind"] \in Run
  BY <1>0, <1>4, RunParts DEF Holding
<1>5. ASSUME NEW p \in Prs, run[c].pc \in {"post", "read"}
      PROVE  [run[c] EXCEPT !.pc = "remember", !.proof = p] \in Run
  BY <1>0, <1>5, RunParts DEF Waiting, Holding
<1>6. \A q \in Run : [run EXCEPT ![c] = q] \in [Callers -> Run]
  BY <1>0
<1>7. \A o \in Ops : run' = [run EXCEPT ![c] = [Idle EXCEPT !.pc = "claim", !.op = o]]
         => run' \in [Callers -> Run]
  BY <1>2, <1>6
<1>8. \A pc \in {"post", "read"} :
         run[c].pc = "claim" /\ Go(c, pc) => run' \in [Callers -> Run]
  BY <1>3, <1>6 DEF Go
<1>9. run[c].pc = "remember" /\ Go(c, "bind") => run' \in [Callers -> Run]
  BY <1>4, <1>6 DEF Go
<1>10. \A p \in Prs : /\ run[c].pc \in {"post", "read"}
                      /\ run' = [run EXCEPT ![c].pc = "remember", ![c].proof = p]
                      => run' \in [Callers -> Run]
  BY <1>5, <1>6
<1> QED  BY <1>1, <1>7, <1>8, <1>9, <1>10

\* The writes of an operation.
LEMMA OpMoves ==
    ASSUME TypeOK, NEW o \in Ops
    PROVE  /\ \A s \in States : [op EXCEPT ![o].state = s] \in [Ops -> Op]
           /\ [op EXCEPT ![o].conflict = TRUE] \in [Ops -> Op]
           /\ \A p \in Prs : [op EXCEPT ![o].observed = p] \in [Ops -> Op]
<1>1. op \in [Ops -> Op] /\ op[o] \in Op
  BY DEF TypeOK
<1>2. /\ \A s \in States : [op[o] EXCEPT !.state = s] \in Op
      /\ [op[o] EXCEPT !.conflict = TRUE] \in Op
      /\ \A p \in Prs : [op[o] EXCEPT !.observed = p] \in Op
  BY <1>1 DEF Op
<1> QED  BY <1>1, <1>2

\* The operation of an invocation, and what it holds.
LEMMA Invocation ==
    ASSUME TypeOK, NEW c \in Callers
    PROVE  /\ run[c] # Idle => run[c].op \in Ops
           /\ run[c].pc # "idle" => run[c] # Idle
           /\ run[c].pc \in {"remember", "bind"} => run[c].proof \in Prs
<1>1. run[c] \in Run
  BY DEF TypeOK
<1>2. Idle.pc = "idle"
  BY DEF Idle
<1> QED  BY <1>1, <1>2, RunParts DEF Holding

LEMMA InitHolds ==
    ASSUME Init
    PROVE  TypeOK /\ PostedOnce /\ FenceIsUnfinished /\ CompletedSeen /\ OwnPullRequest
<1>1. TypeOK
  <2>1. op \in [Ops -> Op]
    <3> DEFINE Unused == [state : {"unused"}, task : Tasks, observed : {NoPr},
                          conflict : {FALSE}]
    <3>1. Unused \subseteq Op
      BY DEF Op, States
    <3>2. op \in [Ops -> Unused]
      BY DEF Init
    <3> HIDE DEF Unused
    <3> QED  BY <3>1, <3>2
  <2>2. edits \in 0 .. MaxEdits
    BY BoundAssumption DEF Init
  <2>3. run \in [Callers -> Run]
    BY RunParts DEF Init
  <2> QED  BY <2>1, <2>2, <2>3 DEF Init, TypeOK, NoAttempt
<1>2. \A o \in Ops : op[o].state = "unused" /\ op[o].observed = NoPr
  BY DEF Init
<1>3. \A c \in Callers : run[c].pc = "idle"
  BY DEF Init, Idle
<1>4. NoOp \notin Ops
  BY NullsAssumption
<1>5. \A p \in Prs : made[p] = NoOp
  BY DEF Init
<1>6. PostedOnce
  BY <1>4, <1>5 DEF Init, PostedOnce
<1>7. FenceIsUnfinished
  BY <1>2, <1>4 DEF Init, FenceIsUnfinished, Unfinished
<1>8. CompletedSeen
  BY <1>2, <1>3 DEF CompletedSeen
<1>9. OwnPullRequest
  BY <1>2, <1>3 DEF Init, OwnPullRequest
<1> QED  BY <1>1, <1>6, <1>7, <1>8, <1>9

IInv == TypeOK /\ PostedOnce /\ FenceIsUnfinished /\ CompletedSeen /\ OwnPullRequest

-----------------------------------------------------------------------------
(* The invocations.                                                        *)

LEMMA ReserveStep ==
    ASSUME IInv, NEW c \in Callers, NEW o \in Ops, Reserve(c, o)
    PROVE  IInv'
<1>0. /\ op' = [op EXCEPT ![o].state = "reserved"] /\ fence' = o
      /\ run' = [run EXCEPT ![c] = [Idle EXCEPT !.pc = "claim", !.op = o]]
      /\ op[o].state = "unused" /\ fence = NoOp
      /\ UNCHANGED <<link, subject, posts, marker, made, edits>>
  BY DEF Reserve, github
<1>1. TypeOK'
  <2>1. "reserved" \in States
    BY DEF States
  <2>2. op' \in [Ops -> Op] /\ run' \in [Callers -> Run]
    BY <1>0, <2>1, OpMoves, RunMoves DEF IInv
  <2> QED  BY <1>0, <2>2 DEF IInv, TypeOK
<1>2. /\ op \in [Ops -> Op] /\ run \in [Callers -> Run]
      /\ \A x \in Ops : op'[x].observed = op[x].observed
      /\ \A x \in Ops : x # o => op'[x] = op[x]
      /\ op'[o].state = "reserved"
  BY <1>0 DEF IInv, TypeOK, Op
<1>3. /\ run'[c].pc = "claim"
      /\ \A d \in Callers : d # c => run'[d] = run[d]
  BY <1>0, <1>2 DEF Idle
<1>4. PostedOnce'
  BY <1>0, <1>2 DEF IInv, PostedOnce, Unposted
<1>5. FenceIsUnfinished'
  BY <1>0, <1>2, NullsAssumption DEF IInv, FenceIsUnfinished, Unfinished
<1>6. CompletedSeen'
  BY <1>0, <1>2, <1>3, Invocation DEF IInv, CompletedSeen
<1>7. OwnPullRequest'
  BY <1>0, <1>2, <1>3 DEF IInv, OwnPullRequest
<1> QED  BY <1>1, <1>4, <1>5, <1>6, <1>7 DEF IInv

\* A step that changes nothing but the point where an invocation is, and stops
\* it or leaves it with nothing to store.
LEMMA ControlStep ==
    ASSUME IInv, NEW c \in Callers, UNCHANGED <<db, github>>,
           run' \in [Callers -> Run],
           run'[c].pc \notin {"remember", "bind"},
           \A d \in Callers : d # c => run'[d] = run[d]
    PROVE  IInv'
<1>0. UNCHANGED <<op, fence, link, subject, posts, marker, made, edits>>
  BY DEF db, github
<1>1. TypeOK'
  BY <1>0 DEF IInv, TypeOK
<1>2. PostedOnce' /\ FenceIsUnfinished'
  BY <1>0 DEF IInv, PostedOnce, Unposted, FenceIsUnfinished, Unfinished
<1>3. CompletedSeen'
  BY <1>0 DEF IInv, CompletedSeen
<1>4. OwnPullRequest'
  BY <1>0 DEF IInv, OwnPullRequest
<1> QED  BY <1>1, <1>2, <1>3, <1>4 DEF IInv

LEMMA StopStep ==
    ASSUME IInv, NEW c \in Callers, Stop(c), UNCHANGED <<db, github>>
    PROVE  IInv'
<1>1. run \in [Callers -> Run]
  BY DEF IInv, TypeOK
<1>2. /\ run' \in [Callers -> Run]
      /\ run'[c].pc = "idle"
      /\ \A d \in Callers : d # c => run'[d] = run[d]
  BY <1>1, RunMoves DEF IInv, Stop, Idle
<1> QED  BY <1>2, ControlStep

LEMMA ResumeStep ==
    ASSUME IInv, NEW c \in Callers, NEW o \in Ops, Resume(c, o)
    PROVE  IInv'
<1>0. /\ UNCHANGED <<db, github>>
      /\ run' = [run EXCEPT ![c] = [Idle EXCEPT !.pc = "claim", !.op = o]]
  BY DEF Resume
<1>1. run \in [Callers -> Run]
  BY DEF IInv, TypeOK
<1>2. /\ run' \in [Callers -> Run]
      /\ run'[c].pc = "claim"
      /\ \A d \in Callers : d # c => run'[d] = run[d]
  BY <1>0, <1>1, RunMoves DEF IInv, Idle
<1> QED  BY <1>0, <1>2, ControlStep

LEMMA ReadOnStep ==
    ASSUME IInv, NEW c \in Callers, run[c].pc = "claim", Go(c, "read"),
           UNCHANGED <<db, github>>
    PROVE  IInv'
<1>1. run \in [Callers -> Run]
  BY DEF IInv, TypeOK
<1>2. run[c] \in Waiting
  BY <1>1, RunParts
<1>3. /\ run' \in [Callers -> Run]
      /\ run'[c].pc = "read"
      /\ \A d \in Callers : d # c => run'[d] = run[d]
  BY <1>1, <1>2, RunMoves DEF IInv, Go, Waiting
<1> QED  BY <1>3, ControlStep

\* The one step that asks GitHub: the operation was reserved, so nothing was
\* asked for it before.
LEMMA PostStep ==
    ASSUME IInv, NEW c \in Callers, NEW o \in Ops, o = run[c].op,
           run[c].pc = "claim", Posts(o),
           op' = [op EXCEPT ![o].state = "dispatched"],
           posts' = posts \cup {o}, Go(c, "post"),
           UNCHANGED <<fence, link, subject, marker, made, edits>>
    PROVE  IInv'
<1>1. /\ op \in [Ops -> Op] /\ run \in [Callers -> Run]
      /\ op[o].state = "reserved"
  BY DEF IInv, TypeOK, Posts
<1>2. TypeOK'
  <2>1. "dispatched" \in States
    BY DEF States
  <2>2. op' \in [Ops -> Op] /\ run' \in [Callers -> Run]
    BY <2>1, OpMoves, RunMoves DEF IInv
  <2> QED  BY <2>2 DEF IInv, TypeOK
<1>3. run[c] \in Waiting
  BY <1>1, RunParts
<1>4. /\ run'[c].pc = "post"
      /\ \A d \in Callers : d # c => run'[d] = run[d]
  BY <1>1, <1>3 DEF Go, Waiting
<1>5. /\ \A x \in Ops : op'[x].observed = op[x].observed
      /\ \A x \in Ops : x # o => op'[x] = op[x]
      /\ op'[o].state = "dispatched"
  BY <1>1 DEF Op
<1>6. PostedOnce'
  BY <1>1, <1>5 DEF IInv, PostedOnce, Unposted
<1>7. FenceIsUnfinished'
  BY <1>1, <1>5 DEF IInv, FenceIsUnfinished, Unfinished
<1>8. CompletedSeen'
  BY <1>4, <1>5, Invocation DEF IInv, CompletedSeen
<1>9. OwnPullRequest'
  BY <1>4, <1>5 DEF IInv, OwnPullRequest
<1> QED  BY <1>2, <1>6, <1>7, <1>8, <1>9 DEF IInv

LEMMA ClaimStep ==
    ASSUME IInv, NEW c \in Callers, Claim(c)
    PROVE  IInv'
<1> DEFINE o == run[c].op
<1>0. run[c].pc = "claim" /\ UNCHANGED <<fence, link, subject, marker, made, edits>>
  BY DEF Claim
<1>1. o \in Ops
  BY <1>0, Invocation DEF IInv
<1>2. CASE op[o].conflict
  <2>1. Stop(c) /\ UNCHANGED <<op, posts>>
    BY <1>2 DEF Claim
  <2> QED  BY <1>0, <2>1, StopStep DEF db, github
<1>3. CASE ~op[o].conflict /\ Posts(o)
  <2>1. /\ op' = [op EXCEPT ![o].state = "dispatched"]
        /\ posts' = posts \cup {o} /\ Go(c, "post")
    BY <1>3 DEF Claim
  <2> HIDE DEF o
  <2>2. o = run[c].op
    BY DEF o
  <2> QED  BY <1>0, <1>1, <1>3, <2>1, <2>2, PostStep
<1>4. CASE ~op[o].conflict /\ ~Posts(o)
  <2>1. Go(c, "read") /\ UNCHANGED <<op, posts>>
    BY <1>4 DEF Claim
  <2> QED  BY <1>0, <2>1, ReadOnStep DEF db, github
<1> QED  BY <1>2, <1>3, <1>4

\* An invocation comes to hold a pull request: one that its own request made, or
\* the only one that carries the marker.
LEMMA ProofStep ==
    ASSUME IInv, NEW c \in Callers, NEW p \in Prs, run[c].pc \in {"post", "read"},
           marker[p] = run[c].op,
           run' = [run EXCEPT ![c].pc = "remember", ![c].proof = p],
           UNCHANGED <<db, github>>
    PROVE  IInv'
<1>0. UNCHANGED <<op, fence, link, subject, posts, marker, made, edits>>
  BY DEF db, github
<1>1. run \in [Callers -> Run] /\ run[c] \in Waiting
  BY RunParts DEF IInv, TypeOK
<1>2. /\ run' \in [Callers -> Run]
      /\ run'[c].pc = "remember" /\ run'[c].proof = p /\ run'[c].op = run[c].op
      /\ \A d \in Callers : d # c => run'[d] = run[d]
  BY <1>1, RunMoves DEF IInv, Waiting
<1>3. TypeOK'
  BY <1>0, <1>2 DEF IInv, TypeOK
<1>4. PostedOnce' /\ FenceIsUnfinished'
  BY <1>0 DEF IInv, PostedOnce, Unposted, FenceIsUnfinished, Unfinished
<1>5. CompletedSeen'
  BY <1>0, <1>2 DEF IInv, CompletedSeen
<1>6. OwnPullRequest'
  BY <1>0, <1>2 DEF IInv, OwnPullRequest
<1> QED  BY <1>3, <1>4, <1>5, <1>6 DEF IInv

LEMMA AnsweredStep ==
    ASSUME IInv, NEW c \in Callers, Answered(c)
    PROVE  IInv'
<1>1. PICK p \in Prs :
         /\ made[p] = run[c].op /\ marker[p] = run[c].op
         /\ run' = [run EXCEPT ![c].pc = "remember", ![c].proof = p]
  BY DEF Answered
<1> QED  BY <1>1, ProofStep DEF Answered

LEMMA ReadStep ==
    ASSUME IInv, NEW c \in Callers, Read(c)
    PROVE  IInv'
<1>1. CASE Cardinality(Marked(run[c].op)) = 1
  <2>1. PICK p \in Marked(run[c].op) :
           run' = [run EXCEPT ![c].pc = "remember", ![c].proof = p]
    BY <1>1 DEF Read
  <2>2. p \in Prs /\ marker[p] = run[c].op
    BY DEF Marked
  <2> QED  BY <2>1, <2>2, ProofStep DEF Read
<1>2. CASE Cardinality(Marked(run[c].op)) # 1
  BY <1>2, StopStep DEF Read
<1> QED  BY <1>1, <1>2

\* A step that flags a conflict and stops.
LEMMA ConflictStep ==
    ASSUME IInv, NEW c \in Callers, NEW o \in Ops, Conflict(o), Stop(c),
           UNCHANGED <<fence, link, subject, github>>
    PROVE  IInv'
<1>0. UNCHANGED <<posts, marker, made, edits>>
  BY DEF github
<1>1. op \in [Ops -> Op] /\ run \in [Callers -> Run]
  BY DEF IInv, TypeOK
<1>2. /\ op' \in [Ops -> Op] /\ run' \in [Callers -> Run]
      /\ \A x \in Ops : op'[x].observed = op[x].observed /\ op'[x].state = op[x].state
  <2>1. op' \in [Ops -> Op] /\ run' \in [Callers -> Run]
    BY OpMoves, RunMoves DEF IInv, Conflict
  <2>2. \A x \in Ops : op'[x].observed = op[x].observed /\ op'[x].state = op[x].state
    BY <1>1 DEF Conflict, Op
  <2> QED  BY <2>1, <2>2
<1>3. /\ run'[c].pc = "idle"
      /\ \A d \in Callers : d # c => run'[d] = run[d]
  BY <1>1 DEF Stop, Idle
<1>4. TypeOK'
  BY <1>0, <1>2 DEF IInv, TypeOK
<1>5. PostedOnce' /\ FenceIsUnfinished'
  BY <1>0, <1>2 DEF IInv, PostedOnce, Unposted, FenceIsUnfinished, Unfinished
<1>6. CompletedSeen'
  BY <1>2, <1>3, Invocation DEF IInv, CompletedSeen
<1>7. OwnPullRequest'
  BY <1>0, <1>2, <1>3 DEF IInv, OwnPullRequest
<1> QED  BY <1>4, <1>5, <1>6, <1>7 DEF IInv

LEMMA ObserveStep ==
    ASSUME IInv, NEW c \in Callers, NEW o \in Ops, o = run[c].op,
           NEW p \in Prs, p = run[c].proof, run[c].pc = "remember",
           op' = [op EXCEPT ![o].observed = p], Go(c, "bind"),
           UNCHANGED <<fence, link, subject, github>>
    PROVE  IInv'
<1>0. UNCHANGED <<posts, marker, made, edits>>
  BY DEF github
<1>1. op \in [Ops -> Op] /\ run \in [Callers -> Run] /\ run[c] \in Holding
  BY RunParts DEF IInv, TypeOK
<1>2. op' \in [Ops -> Op] /\ run' \in [Callers -> Run]
  BY OpMoves, RunMoves DEF IInv
<1>3. /\ \A x \in Ops : op'[x].state = op[x].state
      /\ \A x \in Ops : x # o => op'[x] = op[x]
      /\ op'[o].observed = p
  BY <1>1 DEF Op
<1>4. /\ run'[c].proof = p /\ run'[c].op = o
      /\ \A d \in Callers : d # c => run'[d] = run[d]
  BY <1>1 DEF Go, Holding
<1>5. TypeOK'
  BY <1>0, <1>2 DEF IInv, TypeOK
<1>6. PostedOnce' /\ FenceIsUnfinished'
  BY <1>0, <1>3 DEF IInv, PostedOnce, Unposted, FenceIsUnfinished, Unfinished
<1>7. CompletedSeen'
  BY <1>3, <1>4, Invocation DEF IInv, CompletedSeen
<1>8. OwnPullRequest'
  BY <1>0, <1>3, <1>4 DEF IInv, OwnPullRequest
<1> QED  BY <1>5, <1>6, <1>7, <1>8 DEF IInv

LEMMA RememberStep ==
    ASSUME IInv, NEW c \in Callers, Remember(c)
    PROVE  IInv'
<1> DEFINE o == run[c].op
           p == run[c].proof
<1>0. run[c].pc = "remember" /\ UNCHANGED <<fence, link, subject, github>>
  BY DEF Remember
<1>1. o \in Ops /\ p \in Prs
  BY <1>0, Invocation DEF IInv
<1>2. \/ Stop(c) /\ op' = op
      \/ Conflict(o) /\ Stop(c)
      \/ op' = [op EXCEPT ![o].observed = p] /\ Go(c, "bind")
  BY DEF Remember
<1>3. CASE Stop(c) /\ op' = op
  BY <1>0, <1>3, StopStep DEF db
<1>4. CASE Conflict(o) /\ Stop(c)
  BY <1>0, <1>1, <1>4, ConflictStep
<1>5. CASE op' = [op EXCEPT ![o].observed = p] /\ Go(c, "bind")
  <2>1. o = run[c].op /\ p = run[c].proof
    OBVIOUS
  <2> HIDE DEF o, p
  <2> QED  BY <1>0, <1>1, <1>5, <2>1, ObserveStep
<1> QED  BY <1>2, <1>3, <1>4, <1>5

\* The operation ends with the row of its task, and the fence with it.
LEMMA CompleteStep ==
    ASSUME IInv, NEW c \in Callers, NEW o \in Ops, o = run[c].op,
           run[c].pc = "bind", op[o].state = "dispatched", fence = o, Bound(o),
           op' = [op EXCEPT ![o].state = "completed"], fence' = Freed, Stop(c),
           UNCHANGED github
    PROVE  IInv'
<1>0. UNCHANGED <<posts, marker, made, edits>> /\ fence' = NoOp
  BY DEF github, Freed
<1>1. /\ op \in [Ops -> Op] /\ run \in [Callers -> Run] /\ op[o] \in Op
      /\ op[o].observed \in Prs /\ op[o].task \in Tasks
  BY DEF IInv, TypeOK, CompletedSeen, Op
<1>2. op' \in [Ops -> Op] /\ run' \in [Callers -> Run]
  <2>1. "completed" \in States
    BY DEF States
  <2> QED  BY <2>1, OpMoves, RunMoves DEF IInv
<1>3. /\ \A x \in Ops : op'[x].observed = op[x].observed
      /\ \A x \in Ops : x # o => op'[x] = op[x]
      /\ op'[o].state = "completed"
  BY <1>1 DEF Op
<1>4. /\ run'[c].pc = "idle"
      /\ \A d \in Callers : d # c => run'[d] = run[d]
  BY <1>1 DEF Stop, Idle
<1>5. TypeOK'
  <2>1. link' \in [Tasks -> Prs \cup {NoPr}]
    BY <1>1 DEF IInv, TypeOK, Bound
  <2>2. subject' \in [Tasks -> [active : BOOLEAN, pr : Prs \cup {NoPr}]]
    BY <1>1 DEF IInv, TypeOK, Bound, NoAttempt
  <2> QED  BY <1>0, <1>2, <2>1, <2>2 DEF IInv, TypeOK
<1>6. PostedOnce'
  BY <1>0, <1>3 DEF IInv, PostedOnce, Unposted
<1>7. FenceIsUnfinished'
  BY <1>0, <1>3, NullsAssumption DEF IInv, FenceIsUnfinished, Unfinished
<1>8. CompletedSeen'
  BY <1>1, <1>3, <1>4, Invocation DEF IInv, CompletedSeen
<1>9. OwnPullRequest'
  BY <1>0, <1>3, <1>4 DEF IInv, OwnPullRequest
<1> QED  BY <1>5, <1>6, <1>7, <1>8, <1>9 DEF IInv

LEMMA BindStep ==
    ASSUME IInv, NEW c \in Callers, Bind(c)
    PROVE  IInv'
<1> DEFINE o == run[c].op
<1>0. run[c].pc = "bind" /\ Stop(c) /\ UNCHANGED github
  BY DEF Bind
<1>1. o \in Ops
  BY <1>0, Invocation DEF IInv
<1>2. \/ UNCHANGED <<op, link, subject, fence>>
      \/ Conflict(o) /\ UNCHANGED <<link, subject, fence>>
      \/ /\ op[o].state = "dispatched" /\ fence = o /\ Bound(o)
         /\ op' = [op EXCEPT ![o].state = "completed"] /\ fence' = Freed
  BY DEF Bind
<1>3. o = run[c].op
  OBVIOUS
<1> HIDE DEF o
<1>4. CASE UNCHANGED <<op, link, subject, fence>>
  BY <1>0, <1>4, StopStep DEF db
<1>5. CASE Conflict(o) /\ UNCHANGED <<link, subject, fence>>
  BY <1>0, <1>1, <1>5, ConflictStep
<1>6. CASE /\ op[o].state = "dispatched" /\ fence = o /\ Bound(o)
           /\ op' = [op EXCEPT ![o].state = "completed"] /\ fence' = Freed
  BY <1>0, <1>1, <1>3, <1>6, CompleteStep
<1> QED  BY <1>2, <1>4, <1>5, <1>6

-----------------------------------------------------------------------------
(* GitHub and the rest of the service.                                     *)

LEMMA ArrivesStep ==
    ASSUME IInv, NEW o \in Ops, NEW p \in Prs, PostArrives(o, p)
    PROVE  IInv'
<1>0. /\ UNCHANGED <<op, fence, link, subject, run, edits>>
      /\ o \in posts /\ made[p] = NoOp /\ posts' = posts \ {o}
      /\ made' = [made EXCEPT ![p] = o] /\ marker' = [marker EXCEPT ![p] = o]
  BY DEF PostArrives, db
<1>1. made \in [Prs -> Ops \cup {NoOp}] /\ marker \in [Prs -> Ops \cup {NoOp}]
  BY DEF IInv, TypeOK
<1>2. /\ made'[p] = o
      /\ \A q \in Prs : q # p => made'[q] = made[q]
  BY <1>0, <1>1
<1>3. TypeOK'
  BY <1>0, <1>1 DEF IInv, TypeOK
<1>4. PostedOnce'
  <2>1. \A q \in Prs : made[q] # o
    BY <1>0 DEF IInv, PostedOnce
  <2>2. ~Unposted(o)
    BY <1>0 DEF IInv, PostedOnce
  <2> QED  BY <1>0, <1>2, <2>1, <2>2 DEF IInv, PostedOnce, Unposted
<1>5. FenceIsUnfinished'
  BY <1>0 DEF IInv, FenceIsUnfinished, Unfinished
<1>6. CompletedSeen'
  BY <1>0 DEF IInv, CompletedSeen
<1>7. OwnPullRequest'
  <2>1. ASSUME edits = 0 PROVE marker' = made'
    BY <1>0, <2>1 DEF IInv, OwnPullRequest
  <2>2. ASSUME edits = 0, NEW x \in Ops, op[x].observed # NoPr
        PROVE  made'[op[x].observed] = x
    <3>1. op[x].observed \in Prs /\ made[op[x].observed] = x
      BY <2>2 DEF IInv, TypeOK, Op, OwnPullRequest
    <3> QED  BY <1>0, <1>2, <3>1, NullsAssumption
  <2>3. ASSUME edits = 0, NEW c \in Callers, run[c].pc \in {"remember", "bind"}
        PROVE  made'[run[c].proof] = run[c].op
    <3>1. run[c].proof \in Prs /\ run[c].op \in Ops /\ made[run[c].proof] = run[c].op
      BY <2>3, Invocation DEF IInv, OwnPullRequest
    <3> QED  BY <1>0, <1>2, <3>1, NullsAssumption
  <2> QED  BY <1>0, <2>1, <2>2, <2>3 DEF OwnPullRequest
<1> QED  BY <1>3, <1>4, <1>5, <1>6, <1>7 DEF IInv

LEMMA GitHubStep ==
    ASSUME IInv, UNCHANGED <<db, run, made>>, posts' \subseteq posts,
           \/ UNCHANGED <<marker, edits>>
           \/ /\ marker' \in [Prs -> Ops \cup {NoOp}]
              /\ edits < MaxEdits /\ edits' = edits + 1
    PROVE  IInv'
<1>0. UNCHANGED <<op, fence, link, subject, run, made>>
  BY DEF db
<1>1. TypeOK'
  BY <1>0, BoundAssumption DEF IInv, TypeOK
<1>2. PostedOnce' /\ FenceIsUnfinished' /\ CompletedSeen'
  BY <1>0 DEF IInv, PostedOnce, Unposted, FenceIsUnfinished, Unfinished, CompletedSeen
<1>3. OwnPullRequest'
  BY <1>0 DEF IInv, OwnPullRequest, TypeOK
<1> QED  BY <1>1, <1>2, <1>3 DEF IInv

\* Other writers and merges: no operation has the fence before or after.
LEMMA OtherStep ==
    ASSUME IInv, UNCHANGED <<op, run, github>>,
           fence \in {NoOp, Merging}, fence' \in {NoOp, Merging},
           link' \in [Tasks -> Prs \cup {NoPr}],
           subject' \in [Tasks -> [active : BOOLEAN, pr : Prs \cup {NoPr}]]
    PROVE  IInv'
<1>0. UNCHANGED <<op, run, posts, marker, made, edits>>
  BY DEF github
<1>1. TypeOK'
  BY <1>0 DEF IInv, TypeOK
<1>2. PostedOnce' /\ CompletedSeen'
  BY <1>0 DEF IInv, PostedOnce, Unposted, CompletedSeen
<1>3. FenceIsUnfinished'
  BY <1>0, NullsAssumption DEF IInv, FenceIsUnfinished, Unfinished
<1>4. OwnPullRequest'
  BY <1>0 DEF IInv, OwnPullRequest
<1> QED  BY <1>1, <1>2, <1>3, <1>4 DEF IInv

LEMMA StepHolds ==
    ASSUME IInv, Next
    PROVE  IInv'
<1>1. ASSUME NEW c \in Callers, Step(c) PROVE IInv'
  BY <1>1, ClaimStep, AnsweredStep, ReadStep, RememberStep, BindStep DEF Step
<1>2. ASSUME NEW c \in Callers, Fail(c) PROVE IInv'
  BY <1>2, StopStep DEF Fail
<1>3. ASSUME NEW c \in Callers, NEW o \in Ops, Reserve(c, o) \/ Resume(c, o) PROVE IInv'
  BY <1>3, ReserveStep, ResumeStep
<1>4. ASSUME NEW o \in Ops, NEW p \in Prs, PostArrives(o, p) PROVE IInv'
  BY <1>4, ArrivesStep
<1>5. ASSUME NEW o \in Ops, PostLost(o) PROVE IInv'
  BY <1>5, GitHubStep DEF PostLost
<1>6. ASSUME NEW p \in Prs, NEW o \in Ops \cup {NoOp}, Edit(p, o) PROVE IInv'
  <2>1. marker' \in [Prs -> Ops \cup {NoOp}]
    BY <1>6 DEF Edit, IInv, TypeOK
  <2> QED  BY <1>6, <2>1, GitHubStep DEF Edit
<1>7. ASSUME NEW t \in Tasks, Issue(t) PROVE IInv'
  <2>1. subject' \in [Tasks -> [active : BOOLEAN, pr : Prs \cup {NoPr}]]
    BY <1>7 DEF Issue, IInv, TypeOK
  <2> QED  BY <1>7, <2>1, OtherStep DEF Issue, Unfenced, IInv, TypeOK
<1>8. ASSUME NEW t \in Tasks, NEW p \in Prs \cup {NoPr}, Relink(t, p) PROVE IInv'
  <2>1. /\ link' \in [Tasks -> Prs \cup {NoPr}]
        /\ subject' \in [Tasks -> [active : BOOLEAN, pr : Prs \cup {NoPr}]]
    BY <1>8 DEF Relink, NoAttempt, IInv, TypeOK
  <2> QED  BY <1>8, <2>1, OtherStep DEF Relink, Unfenced
<1>9. ASSUME MergeBegins \/ MergeEnds PROVE IInv'
  BY <1>9, OtherStep DEF MergeBegins, MergeEnds, IInv, TypeOK
<1> QED  BY <1>1, <1>2, <1>3, <1>4, <1>5, <1>6, <1>7, <1>8, <1>9 DEF Next

LEMMA Inductive == Spec => []IInv
<1>1. Init => IInv
  BY InitHolds DEF IInv
<1>2. IInv /\ [Next]_vars => IInv'
  <2>1. ASSUME IInv, UNCHANGED vars PROVE IInv'
    BY <2>1 DEF vars, db, github, IInv, TypeOK, PostedOnce, Unposted,
       FenceIsUnfinished, Unfinished, CompletedSeen, OwnPullRequest
  <2> QED  BY <2>1, StepHolds
<1> QED  BY <1>1, <1>2, PTL DEF Spec

-----------------------------------------------------------------------------

\* Operations, tasks, attempts, invocations and what GitHub holds keep their
\* types (grounding-github-create.ts).
THEOREM PrTypes == Spec => []TypeOK
<1>1. IInv => TypeOK
  BY DEF IInv
<1> QED  BY <1>1, Inductive, PTL

\* However many invocations run for an operation and wherever they stop: GitHub
\* is asked for one pull request, because "reserved" is left with the request
\* and an operation without an answer is only ever looked up.
THEOREM OneRequest == Spec => []OnePullRequest
<1>1. ASSUME IInv, NEW o \in Ops
      PROVE  Cardinality({p \in Prs : made[p] = o}) <= 1
  <2> DEFINE Made == {p \in Prs : made[p] = o}
  <2>1. \A p, q \in Made : p = q
    BY <1>1 DEF IInv, PostedOnce
  <2>2. CASE Made = {}
    BY <2>2, FS_EmptySet
  <2>3. CASE Made # {}
    <3>1. PICK p \in Made : TRUE
      BY <2>3
    <3>2. Made = {p}
      BY <2>1, <3>1
    <3> HIDE DEF Made
    <3>3. Cardinality(Made) = 1
      BY <3>2, FS_Singleton
    <3> QED  BY <3>3 DEF Made
  <2> QED  BY <2>2, <2>3
<1>2. ASSUME IInv, NEW o \in Ops, o \in posts
      PROVE  op[o].state # "unused" /\ \A p \in Prs : made[p] # o
  BY <1>2 DEF IInv, PostedOnce, Unposted
<1>3. IInv => OnePullRequest
  BY <1>1, <1>2 DEF OnePullRequest
<1> QED  BY <1>3, Inductive, PTL

\* The fence of the repository is always an unfinished creation's, a merge's or
\* free; so two creations never bind their pull requests at the same time, and
\* no creation that still has to bind one was overtaken by a merge
\* (the fence of grounding-github-create.ts, and its triggers).
THEOREM OneUnfinishedCreation ==
    Spec => [](\A o \in Ops : Unfinished(o) <=> fence = o)
<1>1. IInv => \A o \in Ops : Unfinished(o) <=> fence = o
  BY DEF IInv, FenceIsUnfinished
<1> QED  BY <1>1, Inductive, PTL

\* As long as nobody edits a description, a completed creation has the pull
\* request that its own request made, also when the answer was lost and a
\* retry found it by the marker.
THEOREM CompletedIsOwn ==
    Spec => [](edits = 0 => \A o \in Ops :
                  op[o].state = "completed" => made[op[o].observed] = o)
<1>1. IInv => (edits = 0 => \A o \in Ops :
                  op[o].state = "completed" => made[op[o].observed] = o)
  BY NullsAssumption DEF IInv, CompletedSeen, OwnPullRequest
<1> QED  BY <1>1, Inductive, PTL

=============================================================================
