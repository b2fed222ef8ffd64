----------------------------- MODULE TaskSteps -----------------------------
(***************************************************************************)
(* The steps of TaskLifecycle, action by action, for any number of tasks,  *)
(* actors and concurrent requests, any well-formed workflow and any        *)
(* governance mode.  The first part is about the shape of a step: what it  *)
(* may do to a row, to a request and to a pull request; types, the         *)
(* distinct roles, and that a version names one status follow from it.     *)
(* The second part is about what a running request has decided.            *)
(***************************************************************************)
EXTENDS TaskProperties, WellFoundedInduction, TLAPS

-----------------------------------------------------------------------------
(* What a lookup of Workflow returns is a state of the definition, or      *)
(* NoTarget where the code's lookup may miss.                              *)

LEMMA FirstIndexIn ==
    ASSUME NEW idx, idx \subseteq Nat, idx # {}
    PROVE  FirstIndex(idx) \in idx /\ \A j \in idx : FirstIndex(idx) <= j
<1> DEFINE R == OpToRel(<, Nat)
<1>1. IsWellFoundedOn(R, Nat)
  BY NatLessThanWellFounded
<1>2. PICK i \in idx : \A j \in idx : ~(<<j, i>> \in R)
  <2> HIDE DEF R
  <2> QED  BY <1>1, WFMin
<1>3. \A j \in idx : i <= j
  <2> TAKE j \in idx
  <2>1. ~(<<j, i>> \in {ss \in Nat \X Nat : ss[1] < ss[2]})
    BY <1>2 DEF OpToRel
  <2> QED  BY <2>1
<1> QED  BY <1>3 DEF FirstIndex

LEMMA EdgeEnds ==
    ASSUME NEW def, WellFormed(def)
    PROVE  /\ DOMAIN def.edges \subseteq Nat /\ DOMAIN def.states \subseteq Nat
           /\ \A i \in DOMAIN def.edges : def.edges[i].to \in States(def)
           /\ States(def) \cap {Backlog, Abandoned, NoTarget} = {}
           /\ def.initial \in States(def) /\ def.terminal \subseteq States(def)
BY DEF WellFormed

LEMMA FirstEdgeToIn ==
    ASSUME NEW def, WellFormed(def), NEW idx, idx \subseteq DOMAIN def.edges
    PROVE  FirstEdgeTo(def, idx) \in States(def) \cup {NoTarget}
<1>1. CASE idx = {}
  BY <1>1 DEF FirstEdgeTo
<1>2. CASE idx # {}
  <2>1. FirstIndex(idx) \in DOMAIN def.edges
    BY <1>2, EdgeEnds, FirstIndexIn
  <2> QED  BY <1>2, <2>1, EdgeEnds DEF FirstEdgeTo
<1> QED  BY <1>1, <1>2

LEMMA FirstStateOfIn ==
    ASSUME NEW def, WellFormed(def), NEW set, set \subseteq States(def)
    PROVE  /\ FirstStateOf(def, set) \in set \cup {NoTarget}
           /\ set # {} => FirstStateOf(def, set) \in set
<1> DEFINE idx == {i \in DOMAIN def.states : def.states[i] \in set}
<1>1. CASE idx = {}
  <2>1. set = {}
    BY <1>1 DEF States
  <2> QED  BY <1>1, <2>1 DEF FirstStateOf
<1>2. CASE idx # {}
  <2>1. FirstIndex(idx) \in idx
    <3> HIDE DEF idx
    <3>1. idx \subseteq Nat
      BY EdgeEnds DEF idx
    <3> QED  BY <1>2, <3>1, FirstIndexIn
  <2> QED  BY <1>2, <2>1 DEF FirstStateOf
<1> QED  BY <1>1, <1>2

\* The targets the handlers use without looking at an edge are states.
LEMMA TerminalTargetIn ==
    ASSUME NEW def, WellFormed(def), NEW s
    PROVE  /\ FirstTerminal(def) \in def.terminal
           /\ TerminalTarget(def, s) \in States(def)
<1>1. FirstTerminal(def) \in def.terminal
  BY FirstStateOfIn DEF WellFormed, FirstTerminal
<1>2. ApproveTarget(def, s) \in States(def) \cup {NoTarget}
  BY FirstEdgeToIn DEF ApproveTarget, EdgesFrom
<1> QED  BY <1>1, <1>2, EdgeEnds DEF TerminalTarget

\* An approval ends the task, whichever way its target was found.
LEMMA TerminalTargetEnds ==
    ASSUME NEW def, WellFormed(def), NEW s
    PROVE  IsTerminal(def, TerminalTarget(def, s))
<1> DEFINE idx == {i \in EdgesFrom(def, s) : IsTerminal(def, def.edges[i].to)}
<1>1. CASE idx = {}
  <2>1. ApproveTarget(def, s) = NoTarget
    BY <1>1 DEF ApproveTarget, FirstEdgeTo
  <2> QED  BY <2>1, TerminalTargetIn DEF TerminalTarget, IsTerminal
<1>2. CASE idx # {}
  <2>1. idx \subseteq Nat
    BY EdgeEnds DEF EdgesFrom
  <2>2. FirstIndex(idx) \in idx
    <3> HIDE DEF idx
    <3> QED  BY <1>2, <2>1, FirstIndexIn
  <2>3. ApproveTarget(def, s) = def.edges[FirstIndex(idx)].to
    BY <1>2 DEF ApproveTarget, FirstEdgeTo
  <2>4. IsTerminal(def, ApproveTarget(def, s))
    BY <2>2, <2>3
  <2>5. FirstTerminal(def) \in def.terminal
    BY TerminalTargetIn
  <2> HIDE DEF idx
  <2> QED  BY <2>4, <2>5 DEF TerminalTarget, IsTerminal
<1> QED  BY <1>1, <1>2

LEMMA LookupsIn ==
    ASSUME NEW def, WellFormed(def), NEW s
    PROVE  /\ ChangesTarget(def, s) \in States(def) \cup {NoTarget}
           /\ ReachableReview(def, s) \in States(def) \cup {NoTarget}
           /\ FirstStateOf(def, ReviewStates(def)) \in States(def) \cup {NoTarget}
<1>1. ChangesTarget(def, s) \in States(def) \cup {NoTarget}
  BY FirstEdgeToIn DEF ChangesTarget, EdgesFrom
<1>2. ReviewStates(def) \subseteq States(def)
  BY DEF ReviewStates
<1>3. FirstStateOf(def, ReviewStates(def)) \in States(def) \cup {NoTarget}
  BY <1>2, FirstStateOfIn
<1>4. ReachableReview(def, s) \in States(def) \cup {NoTarget}
  BY <1>2, FirstStateOfIn DEF ReachableReview
<1> QED  BY <1>1, <1>3, <1>4

LEMMA EdgeIn ==
    ASSUME NEW def, WellFormed(def), NEW from, NEW to, HasEdge(def, from, to)
    PROVE  to \in States(def)
BY EdgeEnds DEF HasEdge

LEMMA AdvanceIn ==
    ASSUME NEW def, NEW s
    PROVE  AdvanceTargets(def, s) \subseteq States(def)
BY DEF AdvanceTargets

-----------------------------------------------------------------------------
(* The shape.                                                              *)

\* The version grows with every change of the status.
Advanced(new, old) ==
    /\ new.version >= old.version
    /\ new.version = old.version => new.status = old.status

\* Claims are at most dropped, or the two roles end up in different actors.
RolesApart(new, old) ==
    \/ new.work \in {old.work, NoActor} /\ new.review \in {old.review, NoActor}
    \/ DistinctReviewer /\ new.work # NoActor => new.work # new.review

RowShape ==
    \/ row' = row
    \/ \E t \in Tasks : \E new \in Row :
          /\ row' = [row EXCEPT ![t] = new]
          /\ Advanced(new, row[t]) /\ RolesApart(new, row[t])

\* The snapshot of q is what the row shows now, or what r had read before.
Fresh(q) ==
    /\ row' = row
    /\ q.snap.status = row[q.task].status
    /\ q.snap.version = row[q.task].version

SameSnap(r, q) == req[r] # Idle /\ q.task = req[r].task /\ q.snap = req[r].snap

ReqShape ==
    \/ req' = req
    \/ \E r \in Requests : req' = [req EXCEPT ![r] = Idle]
    \/ \E r \in Requests : \E q \in Busy :
          req' = [req EXCEPT ![r] = q] /\ (Fresh(q) \/ SameSnap(r, q))

PullShape ==
    \/ pull' = pull
    \/ \E t \in Tasks : \E p \in {"open", "merged", "delivered"} :
          pull' = [pull EXCEPT ![t] = p]

Shape == RowShape /\ ReqShape /\ PullShape

-----------------------------------------------------------------------------
(* The helpers that build rows and requests.                               *)

LEMMA Parties == NoActor \in Holder /\ Actors \subseteq Holder /\ Idle \notin Busy
BY DEF Holder, Idle, Busy

LEMMA DefFacts ==
    /\ WellFormed(Def) /\ Def.initial \in Statuses(Def)
    /\ States(Def) \subseteq Statuses(Def)
    /\ Backlog \in Statuses(Def) /\ Abandoned \in Statuses(Def)
    /\ "open" \in Statuses(Def)
BY ProjectAssumption, EdgeEnds DEF Statuses, WellFormed

LEMMA SetStatusIs ==
    ASSUME NEW rw \in Row, NEW s \in Statuses(Def)
    PROVE  /\ SetStatus(rw, s) \in Row
           /\ SetStatus(rw, s).status = s
           /\ SetStatus(rw, s).version = rw.version + 1
           /\ SetStatus(rw, s).work = rw.work
           /\ SetStatus(rw, s).review = rw.review
           /\ SetStatus(rw, s).lock = rw.lock
<1>1. rw.version + 1 \in Nat
  BY DEF Row
<1>2. SetStatus(rw, s) \in Row
  BY <1>1 DEF SetStatus, Row
<1> QED  BY <1>1, <1>2 DEF SetStatus, Row

LEMMA DropIs ==
    ASSUME NEW rw \in Row, NEW clear
    PROVE  /\ Drop(rw, clear) \in Row
           /\ Drop(rw, clear).status = rw.status
           /\ Drop(rw, clear).version = rw.version
           /\ Drop(rw, clear).work \in {rw.work, NoActor}
           /\ Drop(rw, clear).review \in {rw.review, NoActor}
           /\ Drop(rw, clear).lock = rw.lock
BY Parties DEF Drop, Row

LEMMA StoreIs ==
    ASSUME NEW rw \in Row, NEW r \in Requests, NEW flag
    PROVE  /\ Store(rw, r, flag) \in Row
           /\ Store(rw, r, flag).status = rw.status
           /\ Store(rw, r, flag).version = rw.version
           /\ Store(rw, r, flag).work = rw.work
           /\ Store(rw, r, flag).review = rw.review
           /\ Store(rw, r, flag).lock = rw.lock
BY DEF Store, Row, Party

LEMMA SeenIs ==
    ASSUME TypeOK, NEW t \in Tasks
    PROVE  /\ Seen(t) \in Snap /\ SeenStatus(t) \in Snap
           /\ Seen(t).status = row[t].status /\ Seen(t).version = row[t].version
           /\ SeenStatus(t).status = row[t].status
           /\ SeenStatus(t).version = row[t].version
<1>1. row[t] \in Row
  BY DEF TypeOK
<1>2. /\ Seen(t) \in Snap
      /\ Seen(t).status = row[t].status /\ Seen(t).version = row[t].version
  BY <1>1 DEF Seen, Row, Snap
<1>3. /\ SeenStatus(t) \in Snap
      /\ SeenStatus(t).status = row[t].status
      /\ SeenStatus(t).version = row[t].version
  BY <1>2, Parties DEF SeenStatus, Snap
<1> QED  BY <1>2, <1>3

LEMMA NewIs ==
    ASSUME TypeOK, NEW op \in OpNames, NEW a \in Holder, NEW t \in Tasks
    PROVE  /\ New(op, a, t) \in Busy
           /\ New(op, a, t).task = t
           /\ New(op, a, t).snap = SeenStatus(t)
<1>1. row[t].status \in Statuses(Def)
  BY DEF TypeOK, Row
<1> QED  BY <1>1, SeenIs, Parties DEF New, Busy, Claims

-----------------------------------------------------------------------------
(* Reads.                                                                  *)

\* q is a request on task t whose snapshot shows the row.
Reads(q, t) ==
    /\ q \in Busy /\ q.task = t
    /\ q.snap.status = row[t].status /\ q.snap.version = row[t].version

Begins(r, t) == \E q : Begin(r, q) /\ Reads(q, t)

LEMMA BeginsShape ==
    ASSUME NEW r \in Requests, NEW t \in Tasks, Begins(r, t)
    PROVE  Shape
<1>1. PICK q : Begin(r, q) /\ Reads(q, t)
  BY DEF Begins
<1>2. row' = row /\ pull' = pull /\ req' = [req EXCEPT ![r] = q]
  BY <1>1 DEF Begin
<1>3. q \in Busy /\ Fresh(q)
  BY <1>1, <1>2 DEF Reads, Fresh
<1> QED  BY <1>2, <1>3 DEF Shape, RowShape, ReqShape, PullShape

LEMMA NewReads ==
    ASSUME TypeOK, NEW op \in OpNames, NEW a \in Holder, NEW t \in Tasks
    PROVE  Reads(New(op, a, t), t)
BY NewIs, SeenIs DEF Reads

\* Reads survives changes of the other fields, and a wider snapshot.
LEMMA ReadsUpdate ==
    ASSUME TypeOK, NEW t \in Tasks, NEW q, Reads(q, t),
           NEW s \in Statuses(Def), NEW clear \in SUBSET Claims, NEW b \in Holder
    PROVE  /\ Reads([q EXCEPT !.to = s], t)
           /\ Reads([q EXCEPT !.clear = clear, !.to = s], t)
           /\ Reads([q EXCEPT !.clear = clear, !.snap = Seen(t)], t)
           /\ Reads([q EXCEPT !.clear = clear, !.aim = b, !.snap = Seen(t)], t)
           /\ Reads([q EXCEPT !.snap = Seen(t), !.to = s, !.clear = clear], t)
<1>1. Seen(t) \in Snap
  BY SeenIs
<1>2. Seen(t).status = row[t].status /\ Seen(t).version = row[t].version
  BY SeenIs
<1>3. q \in Busy /\ q.task = t
  BY DEF Reads
<1>4. /\ [q EXCEPT !.to = s] \in Busy
      /\ [q EXCEPT !.clear = clear, !.to = s] \in Busy
      /\ [q EXCEPT !.clear = clear, !.snap = Seen(t)] \in Busy
      /\ [q EXCEPT !.clear = clear, !.aim = b, !.snap = Seen(t)] \in Busy
      /\ [q EXCEPT !.snap = Seen(t), !.to = s, !.clear = clear] \in Busy
  BY <1>1, <1>3 DEF Busy
<1> QED  BY <1>1, <1>2, <1>3, <1>4 DEF Reads, Busy

LEMMA ClaimReadsBegin ==
    ASSUME TypeOK, NEW r \in Requests, NEW a \in Actors, NEW t \in Tasks,
           ClaimReads(r, a, t)
    PROVE  Begins(r, t)
<1>1. a \in Holder /\ row[t].status \in Statuses(Def)
  BY Parties DEF TypeOK, Row
<1>2. \A op \in {"claim", "reviewClaim", "release", "reviewRelease", "abandon",
                "adminRelease", "adminReassign"} : Reads(New(op, a, t), t)
  BY <1>1, NewReads DEF OpNames
<1>3. CASE ClaimRead(r, a, t) \/ StartWorkRead(r, a, t)
  <2>1. Begin(r, [New("claim", a, t) EXCEPT !.to = StartTarget(Def)])
    BY <1>3 DEF ClaimRead, StartWorkRead, NewClaim
  <2>2. StartTarget(Def) \in Statuses(Def)
    BY <1>3, DefFacts, EdgeIn DEF ClaimRead, StartWorkRead, MayTakeWork
  <2>3. Reads([New("claim", a, t) EXCEPT !.to = StartTarget(Def)], t)
    BY <1>2, <2>2, ReadsUpdate, Parties
  <2> QED  BY <2>1, <2>3 DEF Begins
<1>4. CASE ReviewClaimRead(r, a, t) \/ StartReviewRead(r, a, t)
  BY <1>2, <1>4 DEF ReviewClaimRead, StartReviewRead, Begins
<1>5. CASE ReleaseRead(r, a, t)
  <2>1. Begin(r, [New("release", a, t) EXCEPT !.to = Def.initial])
    BY <1>5 DEF ReleaseRead
  <2>2. Reads([New("release", a, t) EXCEPT !.to = Def.initial], t)
    BY <1>2, ReadsUpdate, DefFacts, Parties
  <2> QED  BY <2>1, <2>2 DEF Begins
<1>6. CASE ReviewReleaseRead(r, a, t)
  BY <1>2, <1>6 DEF ReviewReleaseRead, Begins
<1>7. CASE AbandonRead(r, a, t)
  <2> DEFINE q == New("abandon", a, t)
             s == IF "work" \in Held(t, a) /\ IsWork(Def, row[t].status)
                  THEN Def.initial ELSE q.to
  <2>1. q.to = row[t].status
    BY DEF New
  <2>2. s \in Statuses(Def) /\ Held(t, a) \in SUBSET Claims
    BY <1>1, <2>1, DefFacts DEF Held
  <2>3. Begin(r, [q EXCEPT !.clear = Held(t, a), !.to = s])
    BY <1>7 DEF AbandonRead
  <2>4. Reads(q, t)
    BY <1>2
  <2> HIDE DEF q, s
  <2>5. Reads([q EXCEPT !.clear = Held(t, a), !.to = s], t)
    BY <2>2, <2>4, ReadsUpdate, Parties
  <2> QED  BY <2>3, <2>5 DEF Begins
<1>8. CASE AdminReleaseRead(r, a, t)
  <2> DEFINE q == New("adminRelease", a, t)
  <2>1. PICK held \in SUBSET Claims :
           Begin(r, [q EXCEPT !.clear = held, !.snap = Seen(t)])
    BY <1>8 DEF AdminReleaseRead
  <2>2. Reads([q EXCEPT !.clear = held, !.snap = Seen(t)], t)
    BY <1>1, <1>2, ReadsUpdate, Parties
  <2> QED  BY <2>1, <2>2 DEF Begins
<1>9. CASE AdminReassignRead(r, a, t)
  <2> DEFINE q == New("adminReassign", a, t)
  <2>1. PICK c \in Claims, b \in Actors :
           Begin(r, [q EXCEPT !.clear = {c}, !.aim = b, !.snap = Seen(t)])
    BY <1>9 DEF AdminReassignRead
  <2>2. Reads([q EXCEPT !.clear = {c}, !.aim = b, !.snap = Seen(t)], t)
    BY <1>1, <1>2, ReadsUpdate, Parties
  <2> QED  BY <2>1, <2>2 DEF Begins
<1> QED  BY <1>3, <1>4, <1>5, <1>6, <1>7, <1>8, <1>9 DEF ClaimReads

LEMMA StatusRequestReads ==
    ASSUME TypeOK, NEW a \in Holder, NEW t \in Tasks, NEW s \in Statuses(Def),
           NEW clear \in SUBSET Claims
    PROVE  Reads(StatusRequest(a, t, s, clear), t)
<1>1. Reads(New("status", a, t), t)
  BY NewReads DEF OpNames
<1> QED  BY <1>1, ReadsUpdate, Parties DEF StatusRequest

LEMMA FinishRequestReads ==
    ASSUME TypeOK, NEW a \in Holder, NEW t \in Tasks, NEW s \in Statuses(Def),
           NEW clear \in SUBSET Claims, NEW result \in BOOLEAN, NEW auto \in BOOLEAN
    PROVE  Reads(FinishRequest(a, t, s, clear, result, auto), t)
<1> DEFINE q == StatusRequest(a, t, s, clear)
<1>1. Reads(q, t)
  BY StatusRequestReads
<1>2. FinishRequest(a, t, s, clear, result, auto) =
        [q EXCEPT !.result = result, !.op = IF auto THEN "merge" ELSE q.op,
                  !.pc = IF auto THEN "reserve" ELSE q.pc,
                  !.route = IF auto THEN "finish" ELSE q.route]
  BY DEF FinishRequest
<1> HIDE DEF q
<1>3. "merge" \in OpNames
  BY DEF OpNames
<1> QED  BY <1>1, <1>2, <1>3 DEF Reads, Busy

LEMMA MergeRequestReads ==
    ASSUME TypeOK, NEW a \in Holder, NEW t \in Tasks, NEW s \in Statuses(Def),
           NEW pc \in {"reserve", "record"}, NEW route \in {"finish", "merge", "github"},
           NEW result \in BOOLEAN
    PROVE  Reads([StatusRequest(a, t, s, Claims) EXCEPT
                     !.op = "merge", !.pc = pc, !.route = route, !.result = result], t)
<1> DEFINE q == StatusRequest(a, t, s, Claims)
<1>1. Reads(q, t)
  BY StatusRequestReads
<1>2. "merge" \in OpNames
  BY DEF OpNames
<1> HIDE DEF q
<1>3. Reads([q EXCEPT !.op = "merge", !.pc = pc, !.route = route, !.result = result], t)
  BY <1>1, <1>2 DEF Reads, Busy
<1> QED  BY <1>3 DEF q

LEMMA VerdictsIn ==
    ASSUME TypeOK, NEW t \in Tasks
    PROVE  Verdicts(t) \subseteq Statuses(Def)
<1>1. row[t].status \in Statuses(Def)
  BY DEF TypeOK, Row
<1> QED  BY <1>1, DefFacts, TerminalTargetIn, LookupsIn DEF Verdicts

LEMMA OffBoardReadsBegin ==
    ASSUME TypeOK, NEW r \in Requests, NEW a \in Actors, NEW t \in Tasks,
           \/ CreatorAbandonRead(r, a, t) \/ DemoteRead(r, a, t)
           \/ UnabandonRead(r, a, t) \/ PatchBacklogRead(r, a, t)
           \/ PatchEchoRead(r, a, t)
    PROVE  Begins(r, t)
<1>1. a \in Holder /\ row[t].status \in Statuses(Def)
  BY Parties DEF TypeOK, Row
<1>2. \A op \in {"creatorAbandon", "demote", "unabandon"} :
         \A s \in {Abandoned, Backlog, Def.initial} :
            Reads([New(op, a, t) EXCEPT !.to = s], t)
  <2> TAKE op \in {"creatorAbandon", "demote", "unabandon"}
  <2> TAKE s \in {Abandoned, Backlog, Def.initial}
  <2>1. Reads(New(op, a, t), t)
    BY <1>1, NewReads DEF OpNames
  <2> QED  BY <2>1, ReadsUpdate, DefFacts, Parties
<1>3. CASE CreatorAbandonRead(r, a, t) \/ DemoteRead(r, a, t) \/ UnabandonRead(r, a, t)
  BY <1>2, <1>3 DEF CreatorAbandonRead, DemoteRead, UnabandonRead, Begins
<1>4. CASE PatchBacklogRead(r, a, t)
  <2>1. PICK s \in {"open", Abandoned} : Begin(r, StatusRequest(a, t, s, {}))
    BY <1>4 DEF PatchBacklogRead
  <2>2. Reads(StatusRequest(a, t, s, {}), t)
    BY <1>1, StatusRequestReads, DefFacts
  <2> QED  BY <2>1, <2>2 DEF Begins
<1>5. CASE PatchEchoRead(r, a, t)
  <2>1. Reads(StatusRequest(a, t, row[t].status, {}), t)
    BY <1>1, StatusRequestReads
  <2> QED  BY <1>5, <2>1 DEF PatchEchoRead, Begins
<1> QED  BY <1>3, <1>4, <1>5

LEMMA EdgeReadsBegin ==
    ASSUME TypeOK, NEW r \in Requests, NEW a \in Actors, NEW t \in Tasks,
           \/ PatchEdgeRead(r, a, t) \/ TransitionRead(r, a, t)
           \/ ReviewRead(r, a, t) \/ AdvanceRead(r, a, t)
    PROVE  Begins(r, t)
<1>1. a \in Holder /\ States(Def) \subseteq Statuses(Def)
  BY Parties, DefFacts
<1>2. \A s : /\ ClearOnMove(row[t].status, s) \in SUBSET Claims
             /\ {"review"} \cup TerminalClear(s) \in SUBSET Claims
  BY DEF ClearOnMove, TerminalClear, Claims
<1>3. CASE PatchEdgeRead(r, a, t)
  <2>1. PICK s \in States(Def) :
           Begin(r, StatusRequest(a, t, s, ClearOnMove(row[t].status, s)))
    BY <1>3 DEF PatchEdgeRead
  <2>2. Reads(StatusRequest(a, t, s, ClearOnMove(row[t].status, s)), t)
    BY <1>1, <1>2, StatusRequestReads
  <2> QED  BY <2>1, <2>2 DEF Begins
<1>4. CASE TransitionRead(r, a, t)
  <2>1. PICK s \in States(Def), force \in BOOLEAN :
           Begin(r, [StatusRequest(a, t, s, ClearOnMove(row[t].status, s))
                       EXCEPT !.op = IF force THEN "forced" ELSE @])
    BY <1>4 DEF TransitionRead
  <2> DEFINE q == StatusRequest(a, t, s, ClearOnMove(row[t].status, s))
  <2>2. Reads(q, t)
    BY <1>1, <1>2, StatusRequestReads
  <2>3. Begin(r, [q EXCEPT !.op = IF force THEN "forced" ELSE q.op])
    BY <2>1
  <2>4. "forced" \in OpNames
    BY DEF OpNames
  <2> HIDE DEF q
  <2>5. Reads([q EXCEPT !.op = IF force THEN "forced" ELSE q.op], t)
    BY <2>2, <2>4 DEF Reads, Busy
  <2> QED  BY <2>3, <2>5 DEF Begins
<1>5. CASE ReviewRead(r, a, t)
  <2>1. PICK s \in Verdicts(t) :
           Begin(r, StatusRequest(a, t, s, {"review"} \cup TerminalClear(s)))
    BY <1>5 DEF ReviewRead
  <2>2. Reads(StatusRequest(a, t, s, {"review"} \cup TerminalClear(s)), t)
    BY <1>1, <1>2, VerdictsIn, StatusRequestReads
  <2> QED  BY <2>1, <2>2 DEF Begins
<1>6. CASE AdvanceRead(r, a, t)
  <2>1. PICK s \in AdvanceTargets(Def, row[t].status) :
           Begin(r, StatusRequest(a, t, s, {}))
    BY <1>6 DEF AdvanceRead
  <2>2. s \in Statuses(Def)
    BY <1>1, AdvanceIn
  <2>3. Reads(StatusRequest(a, t, s, {}), t)
    BY <1>1, <2>2, StatusRequestReads
  <2> QED  BY <2>1, <2>3 DEF Begins
<1> QED  BY <1>3, <1>4, <1>5, <1>6

LEMMA FinishReadsBegin ==
    ASSUME TypeOK, NEW r \in Requests, NEW a \in Actors, NEW t \in Tasks,
           \/ FinishReviewRead(r, a, t) \/ SelfApproveRead(r, a, t)
           \/ FinishWorkRead(r, a, t) \/ FinishRecoveryRead(r, a, t)
    PROVE  Begins(r, t)
<1>1. a \in Holder /\ States(Def) \subseteq Statuses(Def)
  BY Parties, DefFacts
<1>2. \A s : /\ {"review"} \cup TerminalClear(s) \in SUBSET Claims
             /\ TerminalClear(s) \ {"review"} \in SUBSET Claims
  BY DEF TerminalClear, Claims
<1>3. CASE FinishReviewRead(r, a, t) \/ SelfApproveRead(r, a, t)
  <2>1. PICK s \in Verdicts(t), result \in BOOLEAN, auto \in BOOLEAN :
           Begin(r, FinishRequest(a, t, s, {"review"} \cup TerminalClear(s),
                                  result, auto))
    BY <1>3 DEF FinishReviewRead, SelfApproveRead
  <2>2. Reads(FinishRequest(a, t, s, {"review"} \cup TerminalClear(s),
                            result, auto), t)
    BY <1>1, <1>2, VerdictsIn, FinishRequestReads
  <2> QED  BY <2>1, <2>2 DEF Begins
<1>4. CASE FinishWorkRead(r, a, t)
  <2> DEFINE goal(auto) == IF auto THEN TerminalTarget(Def, row[t].status)
                                   ELSE FinishTarget(Def, row[t].status)
  <2>0. PICK result \in BOOLEAN, auto \in BOOLEAN :
           /\ HasEdge(Def, row[t].status, goal(auto))
           /\ Begin(r, FinishRequest(a, t, goal(auto),
                                     TerminalClear(goal(auto)) \ {"review"},
                                     result, auto))
    BY <1>4 DEF FinishWorkRead
  <2> DEFINE s == goal(auto)
  <2>1. /\ HasEdge(Def, row[t].status, s)
        /\ Begin(r, FinishRequest(a, t, s, TerminalClear(s) \ {"review"},
                                  result, auto))
    BY <2>0
  <2> HIDE DEF s
  <2>2. s \in Statuses(Def)
    BY <1>1, <2>1, EdgeIn, DefFacts
  <2>3. Reads(FinishRequest(a, t, s, TerminalClear(s) \ {"review"},
                            result, auto), t)
    BY <1>1, <1>2, <2>2, FinishRequestReads
  <2> QED  BY <2>1, <2>3 DEF Begins
<1>5. CASE FinishRecoveryRead(r, a, t)
  <2> DEFINE s == TerminalTarget(Def, row[t].status)
  <2>1. PICK result \in BOOLEAN :
           Begin(r, [StatusRequest(a, t, s, Claims) EXCEPT
                       !.op = "merge", !.pc = "record", !.route = "finish",
                       !.result = result])
    BY <1>5 DEF FinishRecoveryRead
  <2>2. s \in Statuses(Def)
    BY <1>1, TerminalTargetIn, DefFacts
  <2> HIDE DEF s
  <2>3. Reads([StatusRequest(a, t, s, Claims) EXCEPT
                 !.op = "merge", !.pc = "record", !.route = "finish",
                 !.result = result], t)
    BY <1>1, <2>2, MergeRequestReads
  <2> QED  BY <2>1, <2>3 DEF Begins
<1> QED  BY <1>3, <1>4, <1>5

LEMMA MergeReadsBegin ==
    ASSUME TypeOK, NEW r \in Requests, NEW a \in Actors, NEW t \in Tasks,
           MergeRead(r, a, t) \/ GithubMergeRead(r, a, t)
    PROVE  Begins(r, t)
<1> DEFINE from == row[t].status
           goal == IF IsTerminal(Def, from) THEN from ELSE TerminalTarget(Def, from)
<1>0. \/ Begin(r, MergeRequest(a, t, goal, "merge"))
      \/ Begin(r, MergeRequest(a, t, FirstTerminal(Def), "github"))
  BY DEF MergeRead, GithubMergeRead
<1>1. PICK s \in {goal, FirstTerminal(Def)}, route \in {"merge", "github"} :
         Begin(r, MergeRequest(a, t, s, route))
  <2> HIDE DEF goal
  <2> QED  BY <1>0
<1>2. row[t].status \in Statuses(Def) /\ a \in Holder
  BY Parties DEF TypeOK, Row
<1>3. s \in Statuses(Def)
  BY <1>1, <1>2, TerminalTargetIn, DefFacts, EdgeEnds
<1> DEFINE q == StatusRequest(a, t, s, Claims)
<1>4. Reads(q, t)
  BY <1>2, <1>3, StatusRequestReads
<1>5. MergeRequest(a, t, s, route) =
        [q EXCEPT !.op = "merge", !.pc = "reserve", !.route = route]
  BY DEF MergeRequest
<1>6. "merge" \in OpNames
  BY DEF OpNames
<1> HIDE DEF q
<1>7. Reads([q EXCEPT !.op = "merge", !.pc = "reserve", !.route = route], t)
  BY <1>4, <1>6 DEF Reads, Busy
<1> QED  BY <1>1, <1>5, <1>7 DEF Begins

LEMMA StatusReadsBegin ==
    ASSUME TypeOK, NEW r \in Requests, NEW a \in Actors, NEW t \in Tasks,
           StatusReads(r, a, t)
    PROVE  Begins(r, t)
BY OffBoardReadsBegin, EdgeReadsBegin, FinishReadsBegin, MergeReadsBegin
DEF StatusReads

-----------------------------------------------------------------------------
(* Writes.                                                                 *)

LEMMA Running ==
    ASSUME TypeOK, NEW r \in Requests, req[r] # Idle
    PROVE  /\ req[r] \in Busy /\ req[r].task \in Tasks /\ row[req[r].task] \in Row
           /\ req[r].to \in Statuses(Def)
           /\ req[r].actor \in Holder /\ req[r].aim \in Holder
           /\ req[r].clear \in SUBSET Claims
BY DEF TypeOK, Busy

\* Old row, new row: what a conditional write of r may store.
Stores(r, new) ==
    LET old == row[req[r].task] IN
    new \in Row /\ Advanced(new, old) /\ RolesApart(new, old)

LEMMA WriteIfShape ==
    ASSUME TypeOK, NEW r \in Requests, req[r] # Idle, NEW cond, NEW new,
           WriteIf(r, cond, new), cond => Stores(r, new)
    PROVE  Shape
<1>1. RowShape
  <2>1. CASE cond
    BY <2>1, Running DEF WriteIf, RowShape, Stores
  <2>2. CASE ~cond
    BY <2>2 DEF WriteIf, RowShape
  <2> QED  BY <2>1, <2>2
<1>2. ReqShape
  BY DEF WriteIf, End, ReqShape
<1>3. PullShape
  BY DEF WriteIf, PullShape
<1> QED  BY <1>1, <1>2, <1>3 DEF Shape

\* A write that sets the status, drops claims, or both.
LEMMA QuietWrites ==
    ASSUME TypeOK, NEW r \in Requests, req[r] # Idle,
           NEW s \in Statuses(Def), NEW clear
    PROVE  LET old == row[req[r].task] IN
           /\ Stores(r, old) /\ Stores(r, SetStatus(old, s))
           /\ Stores(r, Drop(old, clear)) /\ Stores(r, Drop(SetStatus(old, s), clear))
           /\ \A flag : Stores(r, Store(Drop(SetStatus(old, s), clear), r, flag))
<1> DEFINE old == row[req[r].task]
           set == SetStatus(old, s)
           gone == Drop(set, clear)
<1>1. old \in Row /\ old.version \in Nat
  BY Running DEF Row
<1>2. /\ set \in Row /\ set.status = s /\ set.version = old.version + 1
      /\ set.work = old.work /\ set.review = old.review
  BY <1>1, SetStatusIs
<1>3. /\ Drop(old, clear) \in Row
      /\ Drop(old, clear).status = old.status
      /\ Drop(old, clear).version = old.version
      /\ Drop(old, clear).work \in {old.work, NoActor}
      /\ Drop(old, clear).review \in {old.review, NoActor}
  BY <1>1, DropIs
<1>4. /\ gone \in Row /\ gone.status = s /\ gone.version = old.version + 1
      /\ gone.work \in {old.work, NoActor} /\ gone.review \in {old.review, NoActor}
  <2> HIDE DEF set
  <2> QED  BY <1>2, DropIs
<1>5. ASSUME NEW flag
      PROVE  /\ Store(gone, r, flag) \in Row
             /\ Store(gone, r, flag).version = gone.version
             /\ Store(gone, r, flag).work = gone.work
             /\ Store(gone, r, flag).review = gone.review
  <2> HIDE DEF gone
  <2> QED  BY <1>4, StoreIs
<1>6. Stores(r, old) /\ Stores(r, set) /\ Stores(r, Drop(old, clear)) /\ Stores(r, gone)
  <2> HIDE DEF set, gone
  <2> QED  BY <1>1, <1>2, <1>3, <1>4 DEF Stores, Advanced, RolesApart
<1>7. ASSUME NEW flag PROVE Stores(r, Store(gone, r, flag))
  <2> HIDE DEF gone
  <2> QED  BY <1>1, <1>4, <1>5 DEF Stores, Advanced, RolesApart
<1> QED  BY <1>6, <1>7

LEMMA ClaimWritesShape ==
    ASSUME TypeOK, NEW r \in Requests, ClaimWrite(r) \/ ReviewClaimWrite(r)
    PROVE  Shape
<1> DEFINE q == req[r]  t == q.task  old == row[t]
<1>1. req[r] # Idle /\ req[r] \in Busy /\ old \in Row /\ q.actor \in Holder
  BY Running DEF ClaimWrite, ReviewClaimWrite, At
<1>2. CASE ClaimWrite(r)
  <2> DEFINE set == SetStatus(old, q.to)
             new == [set EXCEPT !.work = q.actor]
  <2>1. /\ set \in Row /\ set.status = q.to /\ set.version = old.version + 1
        /\ set.review = old.review
    BY <1>1, Running, SetStatusIs
  <2>2. /\ new \in Row /\ new.status = q.to /\ new.version = old.version + 1
        /\ new.review = old.review /\ new.work = q.actor
    <3> HIDE DEF set
    <3> QED  BY <1>1, <2>1 DEF Row
  <2>3. WorkClaimGate(t, q.actor) => Stores(r, new)
    <3>1. old.version \in Nat
      BY <1>1 DEF Row
    <3> HIDE DEF new
    <3> QED  BY <2>2, <3>1 DEF Stores, Advanced, RolesApart, WorkClaimGate, DistinctFrom
  <2>4. WriteIf(r, /\ SameStatusVersion(t, q.snap) /\ row[t].work = NoActor
                   /\ WorkClaimGate(t, q.actor) /\ NoLiveReservation(t), new)
    BY <1>2 DEF ClaimWrite
  <2> HIDE DEF new
  <2> QED  BY <1>1, <2>3, <2>4, WriteIfShape
<1>3. CASE ReviewClaimWrite(r)
  <2> DEFINE new == [old EXCEPT !.review = q.actor]
  <2>1. /\ new \in Row /\ new.status = old.status /\ new.version = old.version
        /\ new.review = q.actor /\ new.work = old.work
    BY <1>1 DEF Row
  <2>2. ReviewerGate(t, q.actor) => Stores(r, new)
    <3>1. old.version \in Nat
      BY <1>1 DEF Row
    <3> HIDE DEF new
    <3> QED  BY <2>1, <3>1 DEF Stores, Advanced, RolesApart, ReviewerGate, DistinctFrom
  <2>3. WriteIf(r, /\ row[t].status = q.snap.status /\ row[t].review = NoActor
                   /\ ReviewerGate(t, q.actor) /\ NoLiveReservation(t), new)
    BY <1>3 DEF ReviewClaimWrite
  <2> HIDE DEF new
  <2> QED  BY <1>1, <2>2, <2>3, WriteIfShape
<1> QED  BY <1>2, <1>3

LEMMA GivingUpShape ==
    ASSUME TypeOK, NEW r \in Requests,
           \/ ReleaseWrite(r) \/ ReviewReleaseWrite(r) \/ AbandonWrite(r)
           \/ AdminReleaseWrite(r)
    PROVE  Shape
<1> DEFINE q == req[r]  t == q.task  old == row[t]
<1>1. req[r] # Idle /\ q.to \in Statuses(Def)
  BY Running DEF ReleaseWrite, ReviewReleaseWrite, AbandonWrite, AdminReleaseWrite, At
<1>2. \A clear : /\ Stores(r, Drop(old, clear))
                 /\ Stores(r, Drop(SetStatus(old, q.to), clear))
  BY <1>1, QuietWrites
<1>3. CASE ReleaseWrite(r)
  BY <1>1, <1>2, <1>3, WriteIfShape DEF ReleaseWrite
<1>4. CASE ReviewReleaseWrite(r)
  BY <1>1, <1>2, <1>4, WriteIfShape DEF ReviewReleaseWrite
<1>5. CASE AbandonWrite(r)
  <2> DEFINE new == Drop(IF "work" \in q.clear /\ IsWork(Def, q.snap.status)
                         THEN SetStatus(old, q.to) ELSE old, q.clear)
  <2>1. Stores(r, new)
    BY <1>2
  <2>2. WriteIf(r, /\ \A c \in q.clear : row[t][c] = q.actor
                   /\ "work" \in q.clear => SameStatusVersion(t, q.snap)
                   /\ NoLiveReservation(t), new)
    BY <1>5 DEF AbandonWrite
  <2> HIDE DEF new
  <2> QED  BY <1>1, <2>1, <2>2, WriteIfShape
<1>6. CASE AdminReleaseWrite(r)
  <2> DEFINE clear == {c \in q.clear : row[t][c] = q.snap[c]}
  <2>1. Stores(r, Drop(old, clear))
    BY <1>2
  <2>2. WriteIf(r, NoLiveReservation(t), Drop(old, clear))
    BY <1>6 DEF AdminReleaseWrite
  <2> HIDE DEF clear
  <2> QED  BY <1>1, <2>1, <2>2, WriteIfShape
<1> QED  BY <1>3, <1>4, <1>5, <1>6

LEMMA ReassignShape ==
    ASSUME TypeOK, NEW r \in Requests, AdminReassignWrite(r)
    PROVE  Shape
<1> DEFINE q == req[r]  t == q.task  old == row[t]
<1>1. req[r] # Idle /\ old \in Row /\ q.aim \in Holder
  BY Running DEF AdminReassignWrite, At
<1>2. PICK c \in Claims :
         WriteIf(r, /\ ReassignKeepsDistinct(t, c, q.aim) /\ FreeAgent(q.aim, t)
                    /\ row[t][c] = q.snap[c] /\ NoLiveReservation(t),
                 [old EXCEPT ![c] = q.aim])
  BY <1>1, Running DEF AdminReassignWrite
<1> DEFINE new == [old EXCEPT ![c] = q.aim]
<1>3. ReassignKeepsDistinct(t, c, q.aim) => Stores(r, new)
  <2>1. old.version \in Nat
    BY <1>1 DEF Row
  <2>2. CASE c = "work"
    <3>1. /\ new \in Row /\ new.status = old.status /\ new.version = old.version
          /\ new.work = q.aim /\ new.review = old.review
      BY <1>1, <2>2 DEF Row
    <3> HIDE DEF new
    <3> QED  BY <2>1, <2>2, <3>1
             DEF Stores, Advanced, RolesApart, ReassignKeepsDistinct, WorkClaimGate,
                 DistinctFrom
  <2>3. CASE c = "review"
    <3>1. /\ new \in Row /\ new.status = old.status /\ new.version = old.version
          /\ new.work = old.work /\ new.review = q.aim
      BY <1>1, <2>3 DEF Row
    <3> HIDE DEF new
    <3> QED  BY <2>1, <2>3, <3>1
             DEF Stores, Advanced, RolesApart, ReassignKeepsDistinct, ReviewerGate,
                 DistinctFrom
  <2> QED  BY <2>2, <2>3 DEF Claims
<1> HIDE DEF new
<1> QED  BY <1>1, <1>2, <1>3, WriteIfShape DEF new

LEMMA OffBoardShape ==
    ASSUME TypeOK, NEW r \in Requests,
           CreatorAbandonWrite(r) \/ DemoteWrite(r) \/ UnabandonWrite(r)
    PROVE  Shape
<1>1. PICK op, from : OffBoardWrite(r, op, from)
  BY DEF CreatorAbandonWrite, DemoteWrite, UnabandonWrite
<1>2. req[r] # Idle /\ req[r].to \in Statuses(Def)
  BY <1>1, Running DEF OffBoardWrite, At
<1>3. Stores(r, SetStatus(row[req[r].task], req[r].to))
  BY <1>2, QuietWrites
<1> QED  BY <1>1, <1>2, <1>3, WriteIfShape DEF OffBoardWrite

\* A step that moves r on and leaves the row, or stores what Stores allows.
LEMMA StepShape ==
    ASSUME TypeOK, NEW r \in Requests, req[r] # Idle, NEW q,
           q \in Busy, SameSnap(r, q) \/ Fresh(q),
           req' = [req EXCEPT ![r] = q],
           NEW new, Stores(r, new),
           row' \in {row, [row EXCEPT ![req[r].task] = new]},
           PullShape
    PROVE  Shape
<1>1. RowShape
  BY Running DEF RowShape, Stores
<1>2. ReqShape
  BY DEF ReqShape
<1> QED  BY <1>1, <1>2 DEF Shape

LEMMA EndShape ==
    ASSUME TypeOK, NEW r \in Requests, req[r] # Idle, End(r),
           NEW new, Stores(r, new),
           row' \in {row, [row EXCEPT ![req[r].task] = new]},
           PullShape
    PROVE  Shape
<1>1. RowShape
  BY Running DEF RowShape, Stores
<1>2. ReqShape
  BY DEF ReqShape, End
<1> QED  BY <1>1, <1>2 DEF Shape

LEMMA GotoIs ==
    ASSUME TypeOK, NEW r \in Requests, req[r] # Idle,
           NEW pc \in {"write", "reserve", "call", "record", "reread", "retry",
                       "reread2", "release"}
    PROVE  LET q == [req[r] EXCEPT !.pc = pc] IN
           /\ q \in Busy /\ SameSnap(r, q)
           /\ Goto(r, pc) => req' = [req EXCEPT ![r] = q]
<1>1. req[r] \in Busy
  BY Running
<1>2. [req[r] EXCEPT !.pc = pc] \in Busy /\ SameSnap(r, [req[r] EXCEPT !.pc = pc])
  BY <1>1 DEF Busy, SameSnap
<1> QED  BY <1>2 DEF Goto

LEMMA StatusWriteShape ==
    ASSUME TypeOK, NEW r \in Requests, StatusWrite(r)
    PROVE  Shape
<1> DEFINE new == Store(Drop(SetStatus(row[req[r].task], req[r].to), req[r].clear),
                        r, req[r].result)
<1>1. req[r] # Idle /\ req[r].to \in Statuses(Def)
  BY Running DEF StatusWrite
<1>2. Stores(r, new)
  BY <1>1, QuietWrites
<1>3. row' \in {row, [row EXCEPT ![req[r].task] = new]} /\ PullShape
  BY DEF StatusWrite, PullShape
<1> HIDE DEF new
<1>4. CASE Goto(r, "release")
  <2> DEFINE q == [req[r] EXCEPT !.pc = "release"]
  <2>1. q \in Busy /\ SameSnap(r, q) /\ req' = [req EXCEPT ![r] = q]
    BY <1>1, <1>4, GotoIs
  <2> HIDE DEF q
  <2> QED  BY <1>1, <1>2, <1>3, <2>1, StepShape
<1>5. CASE End(r)
  BY <1>1, <1>2, <1>3, <1>5, EndShape
<1> QED  BY <1>4, <1>5 DEF StatusWrite

LEMMA WebhookTargetIn ==
    ASSUME TypeOK, NEW op \in WebhookOps, NEW t \in Tasks, Moves(op, t)
    PROVE  WebhookTarget(op, row[t].status) \in Statuses(Def)
<1> DEFINE s == row[t].status
<1>1. /\ ChangesTarget(Def, s) \in Statuses(Def) \cup {NoTarget}
      /\ ReachableReview(Def, s) \in Statuses(Def) \cup {NoTarget}
      /\ FirstStateOf(Def, ReviewStates(Def)) \in Statuses(Def) \cup {NoTarget}
      /\ FirstTerminal(Def) \in Statuses(Def)
  BY DefFacts, LookupsIn, TerminalTargetIn, EdgeEnds
<1>2. MergedTarget(s) \in Statuses(Def) \cup {NoTarget}
  BY <1>1 DEF MergedTarget
<1>3. WebhookTarget(op, s) \in Statuses(Def) \cup {NoTarget}
  BY <1>1, <1>2 DEF WebhookTarget, WebhookOps
<1> QED  BY <1>3 DEF Moves

LEMMA WebhookNextIs ==
    ASSUME TypeOK, NEW op \in WebhookOps, NEW t \in Tasks, Moves(op, t),
           NEW q \in Busy, q.task = t
    PROVE  /\ WebhookNext(q, op, t) \in Busy
           /\ row' = row => Fresh(WebhookNext(q, op, t))
<1> DEFINE to == WebhookTarget(op, row[t].status)
           p == [q EXCEPT !.op = op, !.snap = SeenStatus(t), !.to = to,
                          !.clear = TerminalClear(to)]
<1>1. to \in Statuses(Def)
  BY WebhookTargetIn
<1>2. TerminalClear(to) \in SUBSET Claims /\ op \in OpNames
  BY DEF TerminalClear, OpNames
<1>3. /\ SeenStatus(t) \in Snap
      /\ SeenStatus(t).status = row[t].status
      /\ SeenStatus(t).version = row[t].version
  BY SeenIs
<1>4. WebhookNext(q, op, t) = p
  BY DEF WebhookNext
<1> HIDE DEF to
<1>5. p \in Busy /\ p.task = t /\ p.snap = SeenStatus(t)
  BY <1>1, <1>2, <1>3 DEF Busy
<1> HIDE DEF p
<1> QED  BY <1>3, <1>4, <1>5 DEF Fresh

LEMMA WebhookShape ==
    ASSUME TypeOK, NEW r \in Requests,
           \/ WebhookWrite(r)
           \/ \E op \in WebhookOps, t \in Tasks : WebhookRead(r, op, t)
    PROVE  Shape
<1>1. ASSUME NEW op \in WebhookOps, NEW t \in Tasks, WebhookRead(r, op, t)
      PROVE  Shape
  <2> DEFINE q == New(op, NoActor, t)
             p == WebhookNext(q, op, t)
  <2>1. Moves(op, t) /\ row' = row /\ req' = [req EXCEPT ![r] = p]
    BY <1>1 DEF WebhookRead
  <2>2. q \in Busy /\ q.task = t
    BY NewIs, Parties DEF OpNames
  <2> HIDE DEF q
  <2>3. p \in Busy /\ Fresh(p)
    BY <2>1, <2>2, WebhookNextIs
  <2> HIDE DEF p
  <2>4. PullShape
    BY <1>1 DEF WebhookRead, PullShape
  <2> QED  BY <2>1, <2>3, <2>4 DEF Shape, RowShape, ReqShape
<1>2. CASE WebhookWrite(r)
  <2> DEFINE t == req[r].task
             new == Drop(SetStatus(row[t], req[r].to), req[r].clear)
  <2>1. /\ req[r] # Idle /\ req[r] \in Busy /\ t \in Tasks
        /\ req[r].to \in Statuses(Def) /\ req[r].op \in WebhookOps
    BY <1>2, Running DEF WebhookWrite
  <2>2. Stores(r, new)
    BY <2>1, QuietWrites
  <2>3. PullShape
    BY <1>2 DEF WebhookWrite, PullShape
  <2>4. CASE SameStatusVersion(t, req[r].snap)
    <3>1. row' = [row EXCEPT ![t] = new] /\ End(r)
      BY <1>2, <2>4 DEF WebhookWrite
    <3> HIDE DEF new
    <3> QED  BY <2>1, <2>2, <2>3, <3>1, EndShape
  <2>5. CASE ~SameStatusVersion(t, req[r].snap) /\ ~(req[r].tries < 2 /\ Moves(req[r].op, t))
    <3>1. row' = row /\ End(r)
      BY <1>2, <2>5 DEF WebhookWrite
    <3> HIDE DEF new
    <3> QED  BY <2>1, <2>2, <2>3, <3>1, EndShape
  <2>6. CASE ~SameStatusVersion(t, req[r].snap) /\ req[r].tries < 2 /\ Moves(req[r].op, t)
    <3> DEFINE q == [req[r] EXCEPT !.tries = @ + 1]
               p == WebhookNext(q, req[r].op, t)
    <3>1. row' = row /\ req' = [req EXCEPT ![r] = p]
      BY <1>2, <2>6 DEF WebhookWrite
    <3>2. q \in Busy /\ q.task = t
      <4>1. req[r].tries + 1 \in 0 .. 2
        BY <2>1, <2>6 DEF Busy
      <4> QED  BY <2>1, <4>1 DEF Busy
    <3> HIDE DEF q
    <3>3. p \in Busy /\ Fresh(p)
      BY <2>1, <2>6, <3>1, <3>2, WebhookNextIs
    <3> HIDE DEF p, new
    <3> QED  BY <2>1, <2>2, <2>3, <3>1, <3>3, StepShape
  <2> QED  BY <2>4, <2>5, <2>6
<1> QED  BY <1>1, <1>2

-----------------------------------------------------------------------------
(* The merge and the environment.                                          *)

\* A change of the reservation alone.
LEMMA LockIs ==
    ASSUME TypeOK, NEW t \in Tasks, NEW l \in Party
    PROVE  LET new == [row[t] EXCEPT !.lock = l] IN
           /\ new \in Row /\ new.lock = l
           /\ new.status = row[t].status /\ new.version = row[t].version
           /\ new.work = row[t].work /\ new.review = row[t].review
           /\ Advanced(new, row[t]) /\ RolesApart(new, row[t])
<1> DEFINE new == [row[t] EXCEPT !.lock = l]
<1>1. row[t] \in Row
  BY DEF TypeOK
<1>2. /\ new \in Row /\ new.lock = l
      /\ new.status = row[t].status /\ new.version = row[t].version
      /\ new.work = row[t].work /\ new.review = row[t].review
  BY <1>1 DEF Row
<1>3. row[t].version \in Nat
  BY <1>1 DEF Row
<1> HIDE DEF new
<1>4. Advanced(new, row[t]) /\ RolesApart(new, row[t])
  BY <1>2, <1>3 DEF Advanced, RolesApart
<1> QED  BY <1>2, <1>4 DEF new

\* The lock a step of r may leave: r itself, none, or an orphaned one.
LEMMA LockShape ==
    ASSUME TypeOK, NEW r \in Requests, req[r] # Idle, NEW l \in Party,
           row' = [row EXCEPT ![req[r].task].lock = l],
           PullShape, ReqShape
    PROVE  Shape
<1> DEFINE t == req[r].task
           new == [row[t] EXCEPT !.lock = l]
<1>1. t \in Tasks
  BY Running
<1>2. new \in Row /\ Advanced(new, row[t]) /\ RolesApart(new, row[t])
  BY <1>1, LockIs
<1>3. row' = [row EXCEPT ![t] = new]
  OBVIOUS
<1> HIDE DEF new
<1> QED  BY <1>1, <1>2, <1>3 DEF Shape, RowShape

LEMMA RecordedIs ==
    ASSUME TypeOK, NEW r \in Requests, req[r] # Idle
    PROVE  Stores(r, Recorded(r))
<1> DEFINE q == req[r]  old == row[q.task]
           gone == Drop(SetStatus(old, q.to), q.clear)
           sha == IF q.sha = "keep" THEN gone.sha ELSE q.sha = "set"
           rec == [gone EXCEPT !.lock = NoRequest, !.sha = sha]
<1>1. Stores(r, gone)
  BY QuietWrites, Running
<1>2. Recorded(r) = Store(rec, r, q.result)
  BY DEF Recorded
<1> HIDE DEF gone
<1>3. gone \in Row /\ sha \in BOOLEAN
  BY <1>1 DEF Stores, Row
<1>4. /\ rec \in Row /\ rec.status = gone.status /\ rec.version = gone.version
      /\ rec.work = gone.work /\ rec.review = gone.review
  <2> HIDE DEF sha
  <2> QED  BY <1>3 DEF Row, Party
<1> HIDE DEF rec
<1>5. LET new == Store(rec, r, q.result) IN
      /\ new \in Row /\ new.status = gone.status /\ new.version = gone.version
      /\ new.work = gone.work /\ new.review = gone.review
  BY <1>4, StoreIs
<1> QED  BY <1>1, <1>2, <1>5 DEF Stores, Advanced, RolesApart

LEMMA MergedWriteShape ==
    ASSUME TypeOK, NEW r \in Requests, RecordWrite(r) \/ RetryWrite(r)
    PROVE  Shape
<1>1. PICK onLoss \in {"reread", "reread2", "release"} :
         \E cond : MergedWrite(r, cond, onLoss)
  <2>1. CASE RecordWrite(r)
    BY <2>1 DEF RecordWrite
  <2>2. CASE RetryWrite(r)
    <3> DEFINE cond == req[r].result => row[req[r].task].result = NoRequest
               onLoss == IF req[r].result THEN "reread2" ELSE "release"
    <3>1. MergedWrite(r, cond, onLoss)
      BY <2>2 DEF RetryWrite
    <3>2. onLoss \in {"reread", "reread2", "release"}
      OBVIOUS
    <3> HIDE DEF cond, onLoss
    <3> QED  BY <3>1, <3>2
  <2> QED  BY <2>1, <2>2
<1>2. req[r] # Idle /\ Stores(r, Recorded(r))
  BY RecordedIs DEF RecordWrite, RetryWrite, At
<1>3. row' \in {row, [row EXCEPT ![req[r].task] = Recorded(r)]} /\ PullShape
  BY <1>1 DEF MergedWrite, PullShape
<1>4. CASE Goto(r, onLoss)
  <2> DEFINE q == [req[r] EXCEPT !.pc = onLoss]
  <2>1. q \in Busy /\ SameSnap(r, q) /\ req' = [req EXCEPT ![r] = q]
    BY <1>2, <1>4, GotoIs
  <2> HIDE DEF q
  <2> QED  BY <1>2, <1>3, <2>1, StepShape
<1>5. CASE End(r)
  BY <1>2, <1>3, <1>5, EndShape
<1> QED  BY <1>1, <1>4, <1>5 DEF MergedWrite

LEMMA ReserveShape ==
    ASSUME TypeOK, NEW r \in Requests, Reserve(r)
    PROVE  Shape
<1> DEFINE t == req[r].task
<1>1. req[r] # Idle /\ t \in Tasks /\ PullShape
  BY Running DEF Reserve, At, PullShape
<1>2. CASE row' = [row EXCEPT ![t].lock = r] /\ Goto(r, "call")
  <2>1. ReqShape
    <3> DEFINE q == [req[r] EXCEPT !.pc = "call"]
    <3>1. q \in Busy /\ SameSnap(r, q) /\ req' = [req EXCEPT ![r] = q]
      BY <1>1, <1>2, GotoIs
    <3> HIDE DEF q
    <3> QED  BY <3>1 DEF ReqShape
  <2> QED  BY <1>1, <1>2, <2>1, LockShape DEF Party
<1>3. CASE row' = row /\ End(r)
  BY <1>1, <1>3 DEF Shape, RowShape, ReqShape, End
<1> QED  BY <1>2, <1>3 DEF Reserve

LEMMA GithubShape ==
    ASSUME TypeOK, NEW r \in Requests,
           \/ GithubMerges(r) \/ GithubAlreadyMerged(r) \/ GithubRefuses(r)
           \/ GithubCheckFails(r)
    PROVE  Shape
<1> DEFINE t == req[r].task
<1>1. req[r] # Idle /\ req[r] \in Busy /\ t \in Tasks
  BY Running DEF GithubMerges, GithubAlreadyMerged, GithubRefuses, GithubCheckFails, At
<1>2. row' = row
  BY DEF GithubMerges, GithubAlreadyMerged, GithubRefuses, GithubCheckFails
<1>3. PullShape
  <2>1. pull[t] \in {"open", "merged", "delivered"}
    BY <1>1 DEF TypeOK
  <2>2. \/ pull' = pull \/ pull' = [pull EXCEPT ![t] = "merged"]
        \/ pull' = [pull EXCEPT ![t] = pull[t]]
    BY DEF GithubMerges, GithubAlreadyMerged, GithubRefuses, GithubCheckFails
  <2> QED  BY <1>1, <2>1, <2>2 DEF PullShape
<1>4. ReqShape
  <2>1. CASE GithubMerges(r)
    <3> DEFINE sha == IF req[r].route = "github" THEN req[r].sha ELSE "set"
               q == [req[r] EXCEPT !.pc = "record", !.sha = sha]
    <3>1. req' = [req EXCEPT ![r] = q]
      BY <2>1 DEF GithubMerges
    <3>2. sha \in {"keep", "set", "null"}
      BY <1>1 DEF Busy
    <3> HIDE DEF sha
    <3>3. q \in Busy /\ SameSnap(r, q)
      BY <1>1, <3>2 DEF Busy, SameSnap
    <3> HIDE DEF q
    <3> QED  BY <3>1, <3>3 DEF ReqShape
  <2>2. CASE GithubAlreadyMerged(r) /\ req[r].route = "finish"
    <3> DEFINE q == [req[r] EXCEPT !.pc = "write", !.op = "status"]
    <3>1. req' = [req EXCEPT ![r] = q]
      BY <2>2 DEF GithubAlreadyMerged
    <3>2. "status" \in OpNames
      BY DEF OpNames
    <3>3. q \in Busy /\ SameSnap(r, q)
      BY <1>1, <3>2 DEF Busy, SameSnap
    <3> HIDE DEF q
    <3> QED  BY <3>1, <3>3 DEF ReqShape
  <2>3. CASE GithubAlreadyMerged(r) /\ req[r].route # "finish"
    <3> DEFINE sha == IF req[r].route = "merge" THEN "null" ELSE req[r].sha
               q == [req[r] EXCEPT !.pc = "record", !.sha = sha]
    <3>1. req' = [req EXCEPT ![r] = q]
      BY <2>3 DEF GithubAlreadyMerged
    <3>2. sha \in {"keep", "set", "null"}
      BY <1>1 DEF Busy
    <3> HIDE DEF sha
    <3>3. q \in Busy /\ SameSnap(r, q)
      BY <1>1, <3>2 DEF Busy, SameSnap
    <3> HIDE DEF q
    <3> QED  BY <3>1, <3>3 DEF ReqShape
  <2>4. CASE GithubRefuses(r) \/ GithubCheckFails(r)
    <3> DEFINE q == [req[r] EXCEPT !.pc = "release"]
    <3>1. q \in Busy /\ SameSnap(r, q) /\ req' = [req EXCEPT ![r] = q]
      BY <1>1, <2>4, GotoIs DEF GithubRefuses, GithubCheckFails
    <3> HIDE DEF q
    <3> QED  BY <3>1 DEF ReqShape
  <2> QED  BY <2>1, <2>2, <2>3, <2>4
<1> QED  BY <1>2, <1>3, <1>4 DEF Shape, RowShape

\* The steps that leave the lock to its lease, or give it back.
LEMMA LettingGoShape ==
    ASSUME TypeOK, NEW r \in Requests, GithubUnknown(r) \/ Release(r) \/ Crash(r)
    PROVE  Shape
<1> DEFINE t == req[r].task
           l == IF row[t].lock = r THEN Gone ELSE row[t].lock
           k == IF row[t].lock = r THEN NoRequest ELSE row[t].lock
<1>1. req[r] # Idle /\ t \in Tasks
  BY Running DEF GithubUnknown, Release, Crash, At
<1>2. l \in Party /\ k \in Party
  BY <1>1 DEF TypeOK, Row, Party
<1>3. ReqShape
  BY DEF GithubUnknown, Release, Crash, ReqShape, End
<1>4. PullShape
  <2> DEFINE p == IF pull[t] = "open" THEN "merged" ELSE pull[t]
  <2>1. p \in {"open", "merged", "delivered"}
    BY <1>1 DEF TypeOK
  <2>2. pull' = pull \/ pull' = [pull EXCEPT ![t] = p]
    BY DEF GithubUnknown, Release, Crash
  <2> HIDE DEF p
  <2> QED  BY <1>1, <2>1, <2>2 DEF PullShape
<1>5. row' = [row EXCEPT ![t].lock = l] \/ row' = [row EXCEPT ![t].lock = k]
  BY DEF GithubUnknown, Release, Crash, Orphan
<1> HIDE DEF l, k
<1> QED  BY <1>1, <1>2, <1>3, <1>4, <1>5, LockShape

LEMMA RereadShape ==
    ASSUME TypeOK, NEW r \in Requests, Reread(r) \/ RereadResult(r)
    PROVE  Shape
<1> DEFINE t == req[r].task
<1>1. req[r] # Idle /\ req[r] \in Busy /\ t \in Tasks
  BY Running DEF Reread, RereadResult, At
<1>2. row' = row /\ pull' = pull
  BY DEF Reread, RereadResult
<1>3. Seen(t) \in Snap /\ Seen(t).status = row[t].status /\ Seen(t).version = row[t].version
  BY <1>1, SeenIs
<1>4. CASE Goto(r, "release")
  <2> DEFINE q == [req[r] EXCEPT !.pc = "release"]
  <2>1. q \in Busy /\ SameSnap(r, q) /\ req' = [req EXCEPT ![r] = q]
    BY <1>1, <1>4, GotoIs
  <2> HIDE DEF q
  <2> QED  BY <1>2, <2>1 DEF Shape, RowShape, ReqShape, PullShape
<1>5. ASSUME NEW flag \in BOOLEAN,
             req' = [req EXCEPT ![r] = [req[r] EXCEPT !.pc = "retry", !.snap = Seen(t),
                                                      !.result = flag]]
      PROVE  Shape
  <2> DEFINE q == [req[r] EXCEPT !.pc = "retry", !.snap = Seen(t), !.result = flag]
  <2>1. q \in Busy /\ q.task = t /\ q.snap = Seen(t)
    BY <1>1, <1>3 DEF Busy
  <2>2. req' = [req EXCEPT ![r] = q]
    BY <1>5
  <2> HIDE DEF q
  <2>3. Fresh(q)
    BY <1>2, <1>3, <2>1 DEF Fresh
  <2> QED  BY <1>2, <2>1, <2>2, <2>3 DEF Shape, RowShape, ReqShape, PullShape
<1>6. \/ Goto(r, "release")
      \/ \E flag \in BOOLEAN :
            req' = [req EXCEPT ![r] = [req[r] EXCEPT !.pc = "retry", !.snap = Seen(t),
                                                     !.result = flag]]
  <2> DEFINE flag == req[r].result /\ row[t].result = NoRequest
  <2>1. flag \in BOOLEAN
    OBVIOUS
  <2>2. \/ Goto(r, "release")
        \/ req' = [req EXCEPT ![r] = [req[r] EXCEPT !.pc = "retry", !.snap = Seen(t),
                                                    !.result = flag]]
        \/ req' = [req EXCEPT ![r] = [req[r] EXCEPT !.pc = "retry", !.snap = Seen(t),
                                                    !.result = FALSE]]
    BY DEF Reread, RereadResult
  <2> HIDE DEF flag
  <2> QED  BY <2>1, <2>2
<1> QED  BY <1>4, <1>5, <1>6

LEMMA EnvironmentShape ==
    ASSUME TypeOK, NEW t \in Tasks, Lapse(t) \/ ExternalMerge(t) \/ PatchResult(t)
    PROVE  Shape
<1>1. ReqShape /\ PullShape
  BY DEF Lapse, ExternalMerge, PatchResult, ReqShape, PullShape
<1>2. CASE Lapse(t)
  <2> DEFINE new == [row[t] EXCEPT !.lock = NoRequest]
  <2>1. row' = [row EXCEPT ![t] = new]
    BY <1>2 DEF Lapse
  <2>2. new \in Row /\ Advanced(new, row[t]) /\ RolesApart(new, row[t])
    BY LockIs DEF Party
  <2> HIDE DEF new
  <2> QED  BY <1>1, <2>1, <2>2 DEF Shape, RowShape
<1>3. CASE ExternalMerge(t)
  BY <1>1, <1>3 DEF ExternalMerge, Shape, RowShape
<1>4. CASE PatchResult(t)
  <2>1. PICK by \in {NoRequest, Gone} : row' = [row EXCEPT ![t].result = by]
    BY <1>4 DEF PatchResult
  <2> DEFINE new == [row[t] EXCEPT !.result = by]
  <2>2. row[t] \in Row
    BY DEF TypeOK
  <2>3. /\ new \in Row /\ new.status = row[t].status /\ new.version = row[t].version
        /\ new.work = row[t].work /\ new.review = row[t].review
    BY <2>2 DEF Row, Party
  <2>4. row' = [row EXCEPT ![t] = new] /\ row[t].version \in Nat
    BY <2>1, <2>2 DEF Row
  <2> HIDE DEF new
  <2>5. Advanced(new, row[t]) /\ RolesApart(new, row[t])
    BY <2>3, <2>4 DEF Advanced, RolesApart
  <2> QED  BY <1>1, <2>3, <2>4, <2>5 DEF Shape, RowShape
<1> QED  BY <1>2, <1>3, <1>4

\* Every step has the shape.
LEMMA NextShape ==
    ASSUME TypeOK, Next
    PROVE  Shape
<1>1. ASSUME NEW r \in Requests, NEW a \in Actors, NEW t \in Tasks,
             ClaimReads(r, a, t) \/ StatusReads(r, a, t)
      PROVE  Shape
  BY <1>1, ClaimReadsBegin, StatusReadsBegin, BeginsShape
<1>2. ASSUME NEW r \in Requests, Writes(r)
      PROVE  Shape
  BY <1>2, ClaimWritesShape, GivingUpShape, ReassignShape, OffBoardShape,
     StatusWriteShape, WebhookShape DEF Writes
<1>3. ASSUME NEW r \in Requests, MergeSteps(r) \/ Crash(r)
      PROVE  Shape
  BY <1>3, ReserveShape, GithubShape, LettingGoShape, RereadShape, MergedWriteShape
  DEF MergeSteps
<1> QED  BY <1>1, <1>2, <1>3, WebhookShape, EnvironmentShape DEF Next, FreeSlots

-----------------------------------------------------------------------------
(* What follows from the shape.                                            *)

LEMMA InitTypeOK == Init => TypeOK
<1> SUFFICES ASSUME Init PROVE TypeOK
  OBVIOUS
<1>1. row \in [Tasks -> Row]
  <2> DEFINE First == [status : {Def.initial, Backlog}, version : {0},
                       work : {NoActor}, review : {NoActor}, lock : {NoRequest},
                       result : {NoRequest}, sha : {FALSE}]
  <2>1. row \in [Tasks -> First]
    BY DEF Init
  <2>2. ASSUME NEW x \in First PROVE x \in Row
    <3>1. x.version = 0 /\ x.version \in Nat
      OBVIOUS
    <3>2. x.status \in Statuses(Def)
      BY DefFacts
    <3> QED  BY <3>1, <3>2, Parties DEF Row, Party
  <2> HIDE DEF First
  <2> QED  BY <2>1, <2>2
<1> QED  BY <1>1 DEF Init, TypeOK

LEMMA ShapeTypeOK ==
    ASSUME TypeOK, Shape
    PROVE  TypeOK'
<1>1. row' \in [Tasks -> Row]
  BY DEF TypeOK, Shape, RowShape
<1>2. req' \in [Requests -> Busy \cup {Idle}]
  BY DEF TypeOK, Shape, ReqShape
<1>3. pull' \in [Tasks -> {"open", "merged", "delivered"}]
  BY DEF TypeOK, Shape, PullShape
<1> QED  BY <1>1, <1>2, <1>3 DEF TypeOK

\* Rows, pull requests and running requests keep their types: in particular
\* every status a handler or a webhook computes is a status, so a lookup that
\* finds no target is never written.
THEOREM TypeCorrect == Spec => []TypeOK
<1>1. TypeOK /\ [Next]_vars => TypeOK'
  <2>1. CASE Next
    BY <2>1, NextShape, ShapeTypeOK
  <2>2. CASE UNCHANGED vars
    BY <2>2 DEF vars, TypeOK
  <2> QED  BY <2>1, <2>2
<1> QED  BY <1>1, InitTypeOK, PTL DEF Spec

\* The distinct-reviewer rule on the claims of one row is inductive on its own:
\* each writer that adds a claim asks the gate under the row lock.
LEMMA ShapeDistinct ==
    ASSUME TypeOK, Shape, DistinctHolders
    PROVE  DistinctHolders'
<1> SUFFICES ASSUME DistinctReviewer, NEW t \in Tasks, row'[t].work # NoActor
             PROVE  row'[t].work # row'[t].review
  BY DEF DistinctHolders, DistinctReviewer
<1>1. CASE row' = row
  BY <1>1 DEF DistinctHolders
<1>2. ASSUME NEW u \in Tasks, NEW new \in Row,
             row' = [row EXCEPT ![u] = new], RolesApart(new, row[u])
      PROVE  row'[t].work # row'[t].review
  <2>1. CASE u = t
    <3>1. row'[t] = new
      BY <1>2, <2>1 DEF TypeOK
    <3> QED  BY <1>2, <2>1, <3>1 DEF RolesApart, DistinctHolders
  <2>2. CASE u # t
    BY <1>2, <2>2 DEF TypeOK, DistinctHolders
  <2> QED  BY <2>1, <2>2
<1> QED  BY <1>1, <1>2 DEF Shape, RowShape

\* In a project that requires a distinct reviewer, nobody ever holds the work
\* claim and the review lock of one task.
THEOREM RolesDistinct == Spec => []DistinctHolders
<1>1. Init => DistinctHolders
  BY DEF Init, DistinctHolders
<1>2. TypeOK /\ DistinctHolders /\ [Next]_vars => DistinctHolders'
  <2>1. CASE Next
    BY <2>1, NextShape, ShapeDistinct
  <2>2. CASE UNCHANGED vars
    BY <2>2 DEF vars, DistinctHolders, DistinctReviewer
  <2> QED  BY <2>1, <2>2
<1> QED  BY <1>1, <1>2, TypeCorrect, PTL DEF Spec

LEMMA ShapeVersions ==
    ASSUME TypeOK, Shape, VersionIdentifiesStatus
    PROVE  VersionIdentifiesStatus'
<1> SUFFICES ASSUME NEW r \in Requests, req'[r] # Idle
             PROVE  LET s == req'[r].snap  now == row'[req'[r].task] IN
                    /\ s.version <= now.version
                    /\ s.version = now.version => s.status = now.status
  BY DEF VersionIdentifiesStatus
<1> DEFINE p == req'[r]
           t == p.task
<1>1. \A u \in Tasks : row[u] \in Row /\ row[u].version \in Nat
  BY DEF TypeOK, Row
<1>2. \A u \in Tasks : row'[u].version \in Nat /\ Advanced(row'[u], row[u])
  <2>1. TypeOK'
    BY ShapeTypeOK
  <2>2. \A u \in Tasks : row'[u] \in Row /\ row'[u].version \in Nat
    BY <2>1 DEF TypeOK, Row
  <2>3. CASE row' = row
    BY <1>1, <2>3 DEF Advanced
  <2>4. ASSUME NEW u \in Tasks, NEW new \in Row,
               row' = [row EXCEPT ![u] = new], Advanced(new, row[u])
        PROVE  \A v \in Tasks : Advanced(row'[v], row[v])
    <3> TAKE v \in Tasks
    <3>1. row'[v] = IF v = u THEN new ELSE row[v]
      BY <2>4 DEF TypeOK
    <3> QED  BY <1>1, <2>4, <3>1 DEF Advanced
  <2> QED  BY <2>2, <2>3, <2>4 DEF Shape, RowShape
<1>3. \/ row' = row /\ p.task \in Tasks /\ p.snap \in Snap
         /\ p.snap.status = row[t].status /\ p.snap.version = row[t].version
      \/ req[r] # Idle /\ p.task = req[r].task /\ p.snap = req[r].snap
  <2>1. CASE req' = req
    BY <2>1
  <2>2. ASSUME NEW q \in Requests, req' = [req EXCEPT ![q] = Idle]
        PROVE  req[r] # Idle /\ p = req[r]
    BY <2>2 DEF TypeOK
  <2>3. ASSUME NEW q \in Requests, NEW b \in Busy, req' = [req EXCEPT ![q] = b],
               Fresh(b) \/ SameSnap(q, b)
        PROVE  <1>3!1 \/ <1>3!2
    <3>1. CASE q = r
      <4>1. p = b
        BY <2>3, <3>1 DEF TypeOK
      <4>2. b.task \in Tasks /\ b.snap \in Snap
        BY DEF Busy
      <4> QED  BY <2>3, <3>1, <4>1, <4>2 DEF Fresh, SameSnap
    <3>2. CASE q # r
      BY <2>3, <3>2 DEF TypeOK
    <3> QED  BY <3>1, <3>2
  <2> QED  BY <2>1, <2>2, <2>3 DEF Shape, ReqShape
<1>4. CASE <1>3!1
  BY <1>1, <1>4
<1>5. CASE <1>3!2
  <2>1. t \in Tasks /\ p.snap.version \in Nat
    BY <1>5, Running DEF Busy, Snap
  <2>2. /\ p.snap.version <= row[t].version
        /\ p.snap.version = row[t].version => p.snap.status = row[t].status
    BY <1>5 DEF VersionIdentifiesStatus
  <2> QED  BY <1>1, <1>2, <2>1, <2>2 DEF Advanced
<1> QED  BY <1>3, <1>4, <1>5

\* A status version names one status, whatever round trips the status makes
\* between the read of a request and its write.
THEOREM VersionsNameStatus == Spec => []VersionIdentifiesStatus
<1>1. Init => VersionIdentifiesStatus
  BY DEF Init, VersionIdentifiesStatus
<1>2. TypeOK /\ VersionIdentifiesStatus /\ [Next]_vars => VersionIdentifiesStatus'
  <2>1. CASE Next
    BY <2>1, NextShape, ShapeVersions
  <2>2. CASE UNCHANGED vars
    BY <2>2 DEF vars, VersionIdentifiesStatus
  <2> QED  BY <2>1, <2>2
<1> QED  BY <1>1, <1>2, TypeCorrect, PTL DEF Spec

-----------------------------------------------------------------------------
(***************************************************************************)
(* Part two: what a running request has decided. A handler looks at the    *)
(* task once and writes later; between the two the row may change in any   *)
(* way. What stays true is what the handler found out about the SNAPSHOT   *)
(* it carries: Decided states it, operation by operation, without the row. *)
(* Decisions says it of every running request; with it, a write whose      *)
(* condition compares the snapshot with the row is as good as one that     *)
(* decides at that moment, which TaskPromises makes precise.               *)
(***************************************************************************)

(* The decisions.                                                          *)

\* Actor a may approve a task that looks like s.
Approver(s, a) ==
    /\ DistinctFrom(s.work, a)
    /\ DistinctReviewer => s.review # NoActor /\ s.review # s.work

InWork(s) == IsWork(Def, s) /\ ~IsReview(Def, s)

ClaimDecision(q) ==
    /\ q.op = "claim" => q.snap.status = Def.initial /\ q.to = StartTarget(Def)
                         /\ q.to \in States(Def)
    /\ q.op = "reviewClaim" => IsReview(Def, q.snap.status)
    /\ q.op = "release" => ~IsReview(Def, q.snap.status) /\ q.to = Def.initial
    /\ q.op = "abandon" =>
          /\ q.clear # {}
          /\ q.clear = {"work"} => ~IsReview(Def, q.snap.status)
          /\ "work" \in q.clear /\ IsWork(Def, q.snap.status) => q.to = Def.initial
    /\ q.op \in {"adminRelease", "adminReassign"} => q.actor \in Admins
    /\ q.op = "adminReassign" =>
          /\ q.aim \in Actors
          /\ \A c \in q.clear : q.snap[c] \notin {NoActor, q.aim}

OffBoardDecision(q) ==
    /\ q.op = "creatorAbandon" => /\ q.actor \in Agents /\ q.actor = Creator[q.task]
                                  /\ q.to = Abandoned
    /\ q.op = "demote" => q.actor \notin Agents /\ q.to = Backlog
    /\ q.op = "unabandon" => q.actor \in Admins /\ q.to = Def.initial /\ "patch" \in Ops

\* The six kinds of status writes.
Echoes(q) == q.to = q.snap.status /\ q.clear = {}

Triages(q) ==
    /\ q.actor \notin Agents /\ q.snap.status = Backlog
    /\ q.to \in {"open", Abandoned} /\ q.clear = {}

Forces(q) == q.op = "forced" /\ "transition" \in Ops /\ q.actor \in Admins

Follows(q) ==
    /\ HasEdge(Def, q.snap.status, q.to)
    /\ Approves(q.snap.status, q.to) => Approver(q.snap, q.actor) \/ Forces(q)
    /\ q.clear = ClearOnMove(q.snap.status, q.to)

Judges(q) ==
    /\ IsReview(Def, q.snap.status) /\ Approver(q.snap, q.actor)
    /\ q.snap.review \in {NoActor, q.actor}
    /\ q.to \in {TerminalTarget(Def, q.snap.status),
                 ChangesTarget(Def, q.snap.status), q.snap.status} \ {NoTarget}
    /\ q.clear = {"review"} \cup TerminalClear(q.to)

Advances(q) ==
    /\ q.snap.work = q.actor /\ InWork(q.snap.status)
    /\ q.to \in AdvanceTargets(Def, q.snap.status) /\ q.clear = {}

Finishes(q) ==
    /\ q.snap.work = q.actor /\ q.snap.review # q.actor /\ InWork(q.snap.status)
    /\ q.to \in {FinishTarget(Def, q.snap.status), TerminalTarget(Def, q.snap.status)}
    /\ HasEdge(Def, q.snap.status, q.to)
    /\ q.to # FinishTarget(Def, q.snap.status) => Mode = "AUTONOMOUS"
    /\ q.clear = TerminalClear(q.to) \ {"review"}

StatusVerdict(q) ==
    \/ Echoes(q) \/ Triages(q) \/ Follows(q)
    \/ Judges(q) \/ Advances(q) \/ Finishes(q)

StatusDecision(q) ==
    /\ q.op = "status" /\ q.pc = "write" => StatusVerdict(q)
    /\ q.op = "forced" => Follows(q) /\ Forces(q)

\* What a merge is for.
EndsReview(q) ==
    /\ IsReview(Def, q.snap.status) /\ Approver(q.snap, q.actor)
    /\ q.to \in {TerminalTarget(Def, q.snap.status), FirstTerminal(Def)}
    /\ q.clear = Claims

Settles(q) ==
    /\ IsTerminal(Def, q.snap.status) /\ DistinctFrom(q.snap.work, q.actor)
    /\ q.to \in {q.snap.status, FirstTerminal(Def)}

Repairs(q) ==
    /\ q.snap.work = q.actor /\ q.snap.review # q.actor /\ InWork(q.snap.status)
    /\ q.to = TerminalTarget(Def, q.snap.status) /\ q.clear = Claims

MergeVerdict(q) ==
    \/ q.route = "finish" /\ Judges(q)
    \/ q.route = "finish" /\ Finishes(q) /\ Mode = "AUTONOMOUS"
    \/ q.route # "finish" /\ (EndsReview(q) \/ Settles(q))

\* After a lost write the snapshot is a row that is in the target already.
MergeDecision(q) ==
    q.op = "merge" =>
        /\ IsTerminal(Def, q.to) /\ q.pc # "write"
        /\ q.pc \in {"reserve", "call"} => MergeVerdict(q)
        /\ q.pc = "record" => MergeVerdict(q) \/ Repairs(q)
        /\ q.pc = "retry" => q.snap.status = q.to

WebhookDecision(q) ==
    IF q.op \in WebhookOps
    THEN /\ q.op \in Ops /\ q.pc = "write"
         /\ ~IsTerminal(Def, q.snap.status) /\ q.snap.status # Backlog
         /\ q.to = WebhookTarget(q.op, q.snap.status)
         /\ q.to \notin {NoTarget, q.snap.status}
         /\ q.clear = TerminalClear(q.to)
    ELSE q.actor \in Actors

Decided(q) ==
    /\ ClaimDecision(q) /\ OffBoardDecision(q) /\ StatusDecision(q)
    /\ MergeDecision(q) /\ WebhookDecision(q)
    /\ q.op # "merge" => q.pc \in {"write", "release"}

\* The requests that know that the pull request is merged.
Recording(q) ==
    \/ q.op = "merge" /\ q.pc \in {"record", "reread", "retry", "reread2"}
    \/ q.op = "prMerged"

\* Every running request carries a decision that holds for its snapshot, and
\* one that records a merge does so after it happened.
Decisions ==
    \A r \in Requests :
        req[r] # Idle =>
            Decided(req[r]) /\ (Recording(req[r]) => pull[req[r].task] # "open")

-----------------------------------------------------------------------------
(* A decision of one operation is no other's.                              *)

LEMMA ClaimsDecided ==
    ASSUME NEW q, q.op \in {"claim", "reviewClaim", "release", "reviewRelease",
                            "abandon", "adminRelease", "adminReassign",
                            "creatorAbandon", "demote", "unabandon"},
           q.pc = "write", q.actor \in Actors,
           ClaimDecision(q), OffBoardDecision(q)
    PROVE  Decided(q) /\ ~Recording(q)
BY DEF Decided, StatusDecision, MergeDecision, WebhookDecision, WebhookOps, Recording

LEMMA StatusDecided ==
    ASSUME NEW q, q.op = "status", q.pc = "write", q.actor \in Actors,
           StatusVerdict(q)
    PROVE  Decided(q) /\ ~Recording(q)
BY DEF Decided, ClaimDecision, OffBoardDecision, StatusDecision, MergeDecision,
       WebhookDecision, WebhookOps, Recording

LEMMA ForcedDecided ==
    ASSUME NEW q, q.op = "forced", q.pc = "write", q.actor \in Actors,
           Follows(q), Forces(q)
    PROVE  Decided(q) /\ ~Recording(q)
BY DEF Decided, ClaimDecision, OffBoardDecision, StatusDecision, MergeDecision,
       WebhookDecision, WebhookOps, Recording

LEMMA MergeDecided ==
    ASSUME NEW q, q.op = "merge", q.actor \in Actors, MergeDecision(q)
    PROVE  Decided(q)
BY DEF Decided, ClaimDecision, OffBoardDecision, StatusDecision,
       WebhookDecision, WebhookOps

LEMMA WebhookDecided ==
    ASSUME NEW q, q.op \in WebhookOps, WebhookDecision(q)
    PROVE  Decided(q)
BY DEF Decided, ClaimDecision, OffBoardDecision, StatusDecision, MergeDecision,
       WebhookDecision, WebhookOps

-----------------------------------------------------------------------------
(* Reads.                                                                  *)

\* The step starts request r with a decision.
DecidesAs(r, q) ==
    /\ row' = row /\ pull' = pull /\ req' = [req EXCEPT ![r] = q]
    /\ q.task \in Tasks /\ Decided(q) /\ (Recording(q) => pull[q.task] # "open")

LEMMA DecidesByBegin ==
    ASSUME NEW r, NEW q, Begin(r, q), q.task \in Tasks, Decided(q),
           Recording(q) => pull[q.task] # "open"
    PROVE  \E p : DecidesAs(r, p)
<1>1. DecidesAs(r, q)
  BY DEF DecidesAs, Begin
<1> QED  BY <1>1

LEMMA ClaimsBegin ==
    ASSUME NEW r, NEW q, Begin(r, q), q.task \in Tasks,
           q.op \in {"claim", "reviewClaim", "release", "reviewRelease",
                     "abandon", "adminRelease", "adminReassign",
                     "creatorAbandon", "demote", "unabandon"},
           q.pc = "write", q.actor \in Actors,
           ClaimDecision(q), OffBoardDecision(q)
    PROVE  \E p : DecidesAs(r, p)
BY ClaimsDecided, DecidesByBegin

LEMMA NewFields ==
    ASSUME NEW op, NEW a, NEW t \in Tasks
    PROVE  LET q == New(op, a, t) IN
           /\ q.op = op /\ q.pc = "write" /\ q.actor = a /\ q.task = t
           /\ q.to = row[t].status /\ q.clear = {} /\ q.snap.status = row[t].status
BY DEF New, SeenStatus, Seen

LEMMA ClaimReadsDecide ==
    ASSUME TypeOK, NEW r \in Requests, NEW a \in Actors, NEW t \in Tasks,
           ClaimReads(r, a, t)
    PROVE  \E q : DecidesAs(r, q)
<1>1. CASE ClaimRead(r, a, t) \/ StartWorkRead(r, a, t)
  <2> DEFINE q == NewClaim(a, t)
  <2>1. Begin(r, q) /\ MayTakeWork(t, a)
    BY <1>1 DEF ClaimRead, StartWorkRead
  <2>2. /\ q.op = "claim" /\ q.pc = "write" /\ q.actor = a /\ q.task = t
        /\ q.to = StartTarget(Def) /\ q.snap.status = row[t].status
    BY DEF NewClaim, New, SeenStatus, Seen
  <2>3. StartTarget(Def) \in States(Def)
    BY <2>1, DefFacts, EdgeIn DEF MayTakeWork
  <2> HIDE DEF q
  <2>4. ClaimDecision(q) /\ OffBoardDecision(q)
    BY <2>1, <2>2, <2>3 DEF ClaimDecision, OffBoardDecision, MayTakeWork
  <2> QED  BY <2>1, <2>2, <2>4, ClaimsBegin
<1>2. CASE ReviewClaimRead(r, a, t) \/ StartReviewRead(r, a, t)
  <2> DEFINE q == New("reviewClaim", a, t)
  <2>1. Begin(r, q) /\ IsReview(Def, row[t].status)
    BY <1>2 DEF ReviewClaimRead, StartReviewRead, MayTakeReview
  <2>2. /\ q.op = "reviewClaim" /\ q.pc = "write" /\ q.actor = a /\ q.task = t
        /\ q.snap.status = row[t].status
    BY NewFields
  <2> HIDE DEF q
  <2>3. ClaimDecision(q) /\ OffBoardDecision(q)
    BY <2>1, <2>2 DEF ClaimDecision, OffBoardDecision
  <2> QED  BY <2>1, <2>2, <2>3, ClaimsBegin
<1>3. CASE ReleaseRead(r, a, t)
  <2> DEFINE q == [New("release", a, t) EXCEPT !.to = Def.initial]
  <2>1. Begin(r, q) /\ ~IsReview(Def, row[t].status)
    BY <1>3 DEF ReleaseRead
  <2>2. /\ q.op = "release" /\ q.pc = "write" /\ q.actor = a /\ q.task = t
        /\ q.to = Def.initial /\ q.snap.status = row[t].status
    BY DEF New, SeenStatus, Seen
  <2> HIDE DEF q
  <2>3. ClaimDecision(q) /\ OffBoardDecision(q)
    BY <2>1, <2>2 DEF ClaimDecision, OffBoardDecision
  <2> QED  BY <2>1, <2>2, <2>3, ClaimsBegin
<1>4. CASE ReviewReleaseRead(r, a, t)
  <2> DEFINE q == New("reviewRelease", a, t)
  <2>1. Begin(r, q)
    BY <1>4 DEF ReviewReleaseRead
  <2>2. q.op = "reviewRelease" /\ q.pc = "write" /\ q.actor = a /\ q.task = t
    BY NewFields
  <2> HIDE DEF q
  <2>3. ClaimDecision(q) /\ OffBoardDecision(q)
    BY <2>2 DEF ClaimDecision, OffBoardDecision
  <2> QED  BY <2>1, <2>2, <2>3, ClaimsBegin
<1>5. CASE AbandonRead(r, a, t)
  <2> DEFINE held == Held(t, a)
             s == IF "work" \in held /\ IsWork(Def, row[t].status)
                  THEN Def.initial ELSE New("abandon", a, t).to
             q == [New("abandon", a, t) EXCEPT !.clear = held, !.to = s]
  <2>1. /\ Begin(r, q) /\ held # {}
        /\ held = {"work"} => ~IsReview(Def, row[t].status)
    BY <1>5 DEF AbandonRead
  <2> HIDE DEF held, s
  <2>2. /\ q.op = "abandon" /\ q.pc = "write" /\ q.actor = a /\ q.task = t
        /\ q.clear = held /\ q.to = s /\ q.snap.status = row[t].status
    BY DEF New, SeenStatus, Seen
  <2>3. "work" \in held /\ IsWork(Def, row[t].status) => s = Def.initial
    BY DEF s
  <2> HIDE DEF q
  <2>4. ClaimDecision(q) /\ OffBoardDecision(q)
    BY <2>1, <2>2, <2>3 DEF ClaimDecision, OffBoardDecision
  <2> QED  BY <2>1, <2>2, <2>4, ClaimsBegin
<1>6. CASE AdminReleaseRead(r, a, t)
  <2>1. PICK held : Begin(r, [New("adminRelease", a, t) EXCEPT
                                 !.clear = held, !.snap = Seen(t)])
    BY <1>6 DEF AdminReleaseRead
  <2> DEFINE q == [New("adminRelease", a, t) EXCEPT !.clear = held, !.snap = Seen(t)]
  <2>2. q.op = "adminRelease" /\ q.pc = "write" /\ q.actor = a /\ q.task = t
    BY DEF New
  <2>3. Begin(r, q) /\ a \in Admins
    BY <1>6, <2>1 DEF AdminReleaseRead
  <2> HIDE DEF q
  <2>4. ClaimDecision(q) /\ OffBoardDecision(q)
    BY <2>2, <2>3 DEF ClaimDecision, OffBoardDecision
  <2> QED  BY <2>2, <2>3, <2>4, ClaimsBegin
<1>7. CASE AdminReassignRead(r, a, t)
  <2>1. PICK c \in Claims, b \in Actors :
           /\ row[t][c] \notin {NoActor, b}
           /\ Begin(r, [New("adminReassign", a, t) EXCEPT
                           !.clear = {c}, !.aim = b, !.snap = Seen(t)])
    BY <1>7 DEF AdminReassignRead
  <2> DEFINE q == [New("adminReassign", a, t) EXCEPT
                      !.clear = {c}, !.aim = b, !.snap = Seen(t)]
  <2>2. /\ q.op = "adminReassign" /\ q.pc = "write" /\ q.actor = a /\ q.task = t
        /\ q.clear = {c} /\ q.aim = b /\ q.snap = Seen(t)
    BY DEF New
  <2>3. Begin(r, q) /\ a \in Admins
    BY <1>7, <2>1 DEF AdminReassignRead
  <2>4. Seen(t)[c] \notin {NoActor, b}
    BY <2>1 DEF Seen, Claims
  <2> HIDE DEF q
  <2>5. ClaimDecision(q) /\ OffBoardDecision(q)
    BY <2>2, <2>3, <2>4 DEF ClaimDecision, OffBoardDecision
  <2> QED  BY <2>2, <2>3, <2>5, ClaimsBegin
<1> QED  BY <1>1, <1>2, <1>3, <1>4, <1>5, <1>6, <1>7 DEF ClaimReads

LEMMA OffBoardReadsDecide ==
    ASSUME TypeOK, NEW r \in Requests, NEW a \in Actors, NEW t \in Tasks,
           CreatorAbandonRead(r, a, t) \/ DemoteRead(r, a, t) \/ UnabandonRead(r, a, t)
    PROVE  \E q : DecidesAs(r, q)
<1>1. PICK op \in {"creatorAbandon", "demote", "unabandon"},
           s \in {Abandoned, Backlog, Def.initial} :
         /\ Begin(r, [New(op, a, t) EXCEPT !.to = s])
         /\ op = "creatorAbandon" => a \in Agents /\ a = Creator[t] /\ s = Abandoned
         /\ op = "demote" => a \notin Agents /\ s = Backlog
         /\ op = "unabandon" => a \in Admins /\ s = Def.initial /\ "patch" \in Ops
  BY DEF CreatorAbandonRead, DemoteRead, UnabandonRead
<1> DEFINE q == [New(op, a, t) EXCEPT !.to = s]
<1>2. q.op = op /\ q.pc = "write" /\ q.actor = a /\ q.task = t /\ q.to = s
  BY DEF New
<1>3. Begin(r, q)
  BY <1>1
<1> HIDE DEF q
<1>4. ClaimDecision(q) /\ OffBoardDecision(q)
  BY <1>1, <1>2 DEF ClaimDecision, OffBoardDecision
<1> QED  BY <1>2, <1>3, <1>4, ClaimsBegin

LEMMA StatusFields ==
    ASSUME NEW a, NEW t \in Tasks, NEW s, NEW clear
    PROVE  LET q == StatusRequest(a, t, s, clear) IN
           /\ q.op = "status" /\ q.pc = "write" /\ q.actor = a /\ q.task = t
           /\ q.to = s /\ q.clear = clear /\ q.route = "none"
           /\ q.snap = Seen(t) /\ q.snap.status = row[t].status
           /\ q.snap.work = row[t].work /\ q.snap.review = row[t].review
BY DEF StatusRequest, New, Seen

LEMMA StatusBegins ==
    ASSUME NEW r, NEW a \in Actors, NEW t \in Tasks, NEW s, NEW clear,
           Begin(r, StatusRequest(a, t, s, clear)),
           StatusVerdict(StatusRequest(a, t, s, clear))
    PROVE  \E p : DecidesAs(r, p)
<1> DEFINE q == StatusRequest(a, t, s, clear)
<1>1. q.op = "status" /\ q.pc = "write" /\ q.actor = a /\ q.task = t
  BY StatusFields
<1> HIDE DEF q
<1>2. Begin(r, q) /\ StatusVerdict(q)
  BY DEF q
<1> QED  BY <1>1, <1>2, StatusDecided, DecidesByBegin

\* The approval gate on the row is the one on its snapshot.
LEMMA GateSeen ==
    ASSUME NEW a, NEW t \in Tasks, ApprovalGate(t, a)
    PROVE  Approver(Seen(t), a)
BY DEF ApprovalGate, ReviewerGate, Approver, Seen

LEMMA TriageReadsDecide ==
    ASSUME TypeOK, NEW r \in Requests, NEW a \in Actors, NEW t \in Tasks,
           PatchBacklogRead(r, a, t) \/ PatchEchoRead(r, a, t)
    PROVE  \E q : DecidesAs(r, q)
<1>1. CASE PatchBacklogRead(r, a, t)
  <2>1. PICK s \in {"open", Abandoned} : Begin(r, StatusRequest(a, t, s, {}))
    BY <1>1 DEF PatchBacklogRead
  <2> DEFINE q == StatusRequest(a, t, s, {})
  <2>2. Triages(q)
    BY <1>1, <2>1, StatusFields DEF Triages, PatchBacklogRead
  <2>3. StatusVerdict(q)
    BY <2>2 DEF StatusVerdict
  <2> QED  BY <2>1, <2>3, StatusBegins
<1>2. CASE PatchEchoRead(r, a, t)
  <2> DEFINE q == StatusRequest(a, t, row[t].status, {})
  <2>1. Begin(r, q)
    BY <1>2 DEF PatchEchoRead
  <2>2. Echoes(q)
    BY StatusFields DEF Echoes
  <2>3. StatusVerdict(q)
    BY <2>2 DEF StatusVerdict
  <2> QED  BY <2>1, <2>3, StatusBegins
<1> QED  BY <1>1, <1>2

LEMMA EdgeReadsDecide ==
    ASSUME TypeOK, NEW r \in Requests, NEW a \in Actors, NEW t \in Tasks,
           PatchEdgeRead(r, a, t) \/ TransitionRead(r, a, t)
    PROVE  \E q : DecidesAs(r, q)
<1> DEFINE edge(s) == StatusRequest(a, t, s, ClearOnMove(row[t].status, s))
<1>1. ASSUME NEW s, HasEdge(Def, row[t].status, s),
             Approves(row[t].status, s) => ApprovalGate(t, a)
      PROVE  Follows(edge(s))
  <2>1. Approves(row[t].status, s) => Approver(Seen(t), a)
    BY <1>1, GateSeen
  <2> QED  BY <1>1, <2>1, StatusFields DEF Follows
<1>2. CASE PatchEdgeRead(r, a, t)
  <2>1. PICK s : /\ HasEdge(Def, row[t].status, s)
                 /\ Approves(row[t].status, s) => ApprovalGate(t, a)
                 /\ Begin(r, edge(s))
    BY <1>2 DEF PatchEdgeRead
  <2>2. StatusVerdict(edge(s))
    BY <1>1, <2>1 DEF StatusVerdict
  <2> QED  BY <2>1, <2>2, StatusBegins
<1>3. CASE TransitionRead(r, a, t)
  <2>1. PICK s \in States(Def), force \in BOOLEAN :
           /\ force => a \in Admins
           /\ HasEdge(Def, row[t].status, s)
           /\ Approves(row[t].status, s) /\ ~force => ApprovalGate(t, a)
           /\ Begin(r, [edge(s) EXCEPT !.op = IF force THEN "forced" ELSE @])
    BY <1>3 DEF TransitionRead
  <2>2. CASE force
    <3> DEFINE q == [edge(s) EXCEPT !.op = "forced"]
    <3>1. Begin(r, q)
      BY <2>1, <2>2
    <3>2. /\ q.op = "forced" /\ q.pc = "write" /\ q.actor = a /\ q.task = t
          /\ q.to = s /\ q.clear = ClearOnMove(row[t].status, s)
          /\ q.snap.status = row[t].status
      BY DEF StatusRequest, New, Seen
    <3> HIDE DEF q
    <3>3. Forces(q)
      BY <1>3, <2>1, <2>2, <3>2 DEF Forces, TransitionRead
    <3>4. Follows(q)
      BY <2>1, <3>2, <3>3 DEF Follows
    <3> QED  BY <3>1, <3>2, <3>3, <3>4, ForcedDecided, DecidesByBegin
  <2>3. CASE ~force
    <3>1. [edge(s) EXCEPT !.op = IF force THEN "forced" ELSE @] = edge(s)
      BY <2>3 DEF StatusRequest, New
    <3>2. StatusVerdict(edge(s))
      BY <1>1, <2>1, <2>3 DEF StatusVerdict
    <3>3. Begin(r, edge(s))
      BY <2>1, <3>1
    <3> QED  BY <3>2, <3>3, StatusBegins
  <2> QED  BY <2>2, <2>3
<1> QED  BY <1>2, <1>3

LEMMA VerdictTargets ==
    ASSUME TypeOK, NEW t \in Tasks, NEW s \in Verdicts(t)
    PROVE  s \in {TerminalTarget(Def, row[t].status),
                  ChangesTarget(Def, row[t].status), row[t].status} \ {NoTarget}
<1>1. TerminalTarget(Def, row[t].status) # NoTarget
  BY ProjectAssumption, TerminalTargetIn, EdgeEnds
<1>2. row[t].status # NoTarget
  <2>1. row[t].status \in Statuses(Def)
    BY DEF TypeOK, Row
  <2>2. NoTarget \notin States(Def)
    BY ProjectAssumption, EdgeEnds
  <2> QED  BY <2>1, <2>2 DEF Statuses, Backlog, Abandoned, NoTarget
<1> QED  BY <1>1, <1>2 DEF Verdicts

LEMMA WorkReadsDecide ==
    ASSUME TypeOK, NEW r \in Requests, NEW a \in Actors, NEW t \in Tasks,
           ReviewRead(r, a, t) \/ AdvanceRead(r, a, t)
    PROVE  \E q : DecidesAs(r, q)
<1>1. CASE ReviewRead(r, a, t)
  <2>1. PICK s \in Verdicts(t) :
           Begin(r, StatusRequest(a, t, s, {"review"} \cup TerminalClear(s)))
    BY <1>1 DEF ReviewRead
  <2> DEFINE q == StatusRequest(a, t, s, {"review"} \cup TerminalClear(s))
  <2>2. Approver(Seen(t), a)
    BY <1>1, GateSeen DEF ReviewRead
  <2>3. Judges(q)
    BY <1>1, <2>2, StatusFields, VerdictTargets DEF Judges, ReviewRead
  <2>4. StatusVerdict(q)
    BY <2>3 DEF StatusVerdict
  <2> QED  BY <2>1, <2>4, StatusBegins
<1>2. CASE AdvanceRead(r, a, t)
  <2>1. PICK s \in AdvanceTargets(Def, row[t].status) :
           Begin(r, StatusRequest(a, t, s, {}))
    BY <1>2 DEF AdvanceRead
  <2> DEFINE q == StatusRequest(a, t, s, {})
  <2>2. Advances(q)
    BY <1>2, <2>1, StatusFields DEF Advances, AdvanceRead, InWork
  <2>3. StatusVerdict(q)
    BY <2>2 DEF StatusVerdict
  <2> QED  BY <2>1, <2>3, StatusBegins
<1> QED  BY <1>1, <1>2

LEMMA FinishFields ==
    ASSUME NEW a, NEW t \in Tasks, NEW s, NEW clear, NEW result, NEW auto \in BOOLEAN
    PROVE  LET q == FinishRequest(a, t, s, clear, result, auto) IN
           /\ q.actor = a /\ q.task = t /\ q.to = s /\ q.clear = clear
           /\ q.snap = Seen(t) /\ q.snap.status = row[t].status
           /\ q.snap.work = row[t].work /\ q.snap.review = row[t].review
           /\ auto => q.op = "merge" /\ q.pc = "reserve" /\ q.route = "finish"
           /\ ~auto => q.op = "status" /\ q.pc = "write"
BY DEF FinishRequest, StatusRequest, New, Seen

LEMMA FinishBegins ==
    ASSUME NEW r, NEW a \in Actors, NEW t \in Tasks, NEW s, NEW clear, NEW result,
           NEW auto \in BOOLEAN, Begin(r, FinishRequest(a, t, s, clear, result, auto)),
           auto => IsTerminal(Def, s),
           \/ Judges(FinishRequest(a, t, s, clear, result, auto))
           \/ /\ Finishes(FinishRequest(a, t, s, clear, result, auto))
              /\ auto => Mode = "AUTONOMOUS"
    PROVE  \E p : DecidesAs(r, p)
<1> DEFINE q == FinishRequest(a, t, s, clear, result, auto)
<1>1. /\ q.actor = a /\ q.task = t /\ q.to = s
      /\ auto => q.op = "merge" /\ q.pc = "reserve" /\ q.route = "finish"
      /\ ~auto => q.op = "status" /\ q.pc = "write"
  BY FinishFields
<1>2. /\ Begin(r, q)
      /\ Judges(q) \/ (Finishes(q) /\ (auto => Mode = "AUTONOMOUS"))
  OBVIOUS
<1> HIDE DEF q
<1>3. CASE auto
  <2>1. MergeVerdict(q)
    BY <1>1, <1>2, <1>3 DEF MergeVerdict
  <2>2. MergeDecision(q) /\ ~Recording(q)
    BY <1>1, <1>3, <2>1 DEF MergeDecision, Recording
  <2> QED  BY <1>1, <1>2, <1>3, <2>2, MergeDecided, DecidesByBegin
<1>4. CASE ~auto
  <2>1. StatusVerdict(q)
    BY <1>2 DEF StatusVerdict
  <2> QED  BY <1>1, <1>2, <1>4, <2>1, StatusDecided, DecidesByBegin
<1> QED  BY <1>3, <1>4

\* A reviewer who holds the review lock is distinct from the work claimant,
\* although only an approval asks.
LEMMA LockHolderDistinct ==
    ASSUME DistinctHolders, NEW t \in Tasks, NEW a \in Actors, row[t].review = a
    PROVE  Approver(Seen(t), a)
<1>1. a # NoActor
  BY ActorsAssumption
<1> QED  BY <1>1 DEF DistinctHolders, Approver, DistinctFrom, Seen, DistinctReviewer

LEMMA FinishReviewDecides ==
    ASSUME TypeOK, DistinctHolders, NEW r \in Requests, NEW a \in Actors,
           NEW t \in Tasks, FinishReviewRead(r, a, t) \/ SelfApproveRead(r, a, t)
    PROVE  \E q : DecidesAs(r, q)
<1>1. PICK s \in Verdicts(t), result \in BOOLEAN, auto \in BOOLEAN :
         /\ auto => IsTerminal(Def, s)
         /\ Begin(r, FinishRequest(a, t, s, {"review"} \cup TerminalClear(s),
                                   result, auto))
  BY DEF FinishReviewRead, SelfApproveRead
<1>2. IsReview(Def, row[t].status) /\ row[t].review \in {NoActor, a}
  BY DEF FinishReviewRead, SelfApproveRead
<1>3. Approver(Seen(t), a)
  <2>1. CASE FinishReviewRead(r, a, t)
    BY <2>1, LockHolderDistinct DEF FinishReviewRead
  <2>2. CASE SelfApproveRead(r, a, t)
    BY <2>2 DEF SelfApproveRead, Approver, DistinctFrom
  <2> QED  BY <2>1, <2>2
<1>4. Judges(FinishRequest(a, t, s, {"review"} \cup TerminalClear(s), result, auto))
  BY <1>1, <1>2, <1>3, FinishFields, VerdictTargets DEF Judges
<1> QED  BY <1>1, <1>4, FinishBegins

LEMMA FinishWorkDecides ==
    ASSUME TypeOK, NEW r \in Requests, NEW a \in Actors, NEW t \in Tasks,
           FinishWorkRead(r, a, t)
    PROVE  \E q : DecidesAs(r, q)
<1> DEFINE from == row[t].status
           goal(auto) == IF auto THEN TerminalTarget(Def, from)
                                 ELSE FinishTarget(Def, from)
<1>1. PICK result \in BOOLEAN, auto \in BOOLEAN :
         /\ HasEdge(Def, from, goal(auto))
         /\ auto => Mode = "AUTONOMOUS"
         /\ Begin(r, FinishRequest(a, t, goal(auto),
                                   TerminalClear(goal(auto)) \ {"review"},
                                   result, auto))
  BY DEF FinishWorkRead
<1> DEFINE s == goal(auto)
           q == FinishRequest(a, t, s, TerminalClear(s) \ {"review"}, result, auto)
<1>2. Begin(r, q) /\ HasEdge(Def, from, s) /\ (auto => Mode = "AUTONOMOUS")
  BY <1>1
<1>3. /\ s \in {FinishTarget(Def, from), TerminalTarget(Def, from)}
      /\ ~auto => s = FinishTarget(Def, from)
  OBVIOUS
<1>4. auto => IsTerminal(Def, s)
  BY ProjectAssumption, TerminalTargetEnds
<1> HIDE DEF s
<1>5. Finishes(q)
  <2>1. /\ row[t].work = a /\ row[t].review # a /\ InWork(from)
    BY DEF FinishWorkRead, InWork
  <2>2. /\ q.actor = a /\ q.to = s /\ q.clear = TerminalClear(s) \ {"review"}
        /\ q.snap.status = from /\ q.snap.work = row[t].work
        /\ q.snap.review = row[t].review
    BY FinishFields
  <2> HIDE DEF q
  <2> QED  BY <1>2, <1>3, <2>1, <2>2 DEF Finishes
<1> QED  BY <1>2, <1>4, <1>5, FinishBegins

LEMMA RecoveryDecides ==
    ASSUME TypeOK, NEW r \in Requests, NEW a \in Actors, NEW t \in Tasks,
           FinishRecoveryRead(r, a, t)
    PROVE  \E q : DecidesAs(r, q)
<1> DEFINE s == TerminalTarget(Def, row[t].status)
<1>1. PICK result \in BOOLEAN :
         Begin(r, [StatusRequest(a, t, s, Claims) EXCEPT
                     !.op = "merge", !.pc = "record", !.route = "finish",
                     !.result = result])
  BY DEF FinishRecoveryRead
<1> DEFINE q == [StatusRequest(a, t, s, Claims) EXCEPT
                   !.op = "merge", !.pc = "record", !.route = "finish",
                   !.result = result]
<1>2. /\ q.op = "merge" /\ q.pc = "record" /\ q.actor = a /\ q.task = t
      /\ q.to = s /\ q.clear = Claims /\ q.snap.status = row[t].status
      /\ q.snap.work = row[t].work /\ q.snap.review = row[t].review
  BY DEF StatusRequest, New, Seen
<1>3. Begin(r, q) /\ IsTerminal(Def, s)
  BY <1>1, ProjectAssumption, TerminalTargetEnds
<1> HIDE DEF q
<1>4. Repairs(q)
  BY <1>2 DEF Repairs, FinishRecoveryRead, InWork
<1>5. MergeDecision(q)
  BY <1>2, <1>3, <1>4 DEF MergeDecision
<1>6. pull[t] # "open"
  BY DEF FinishRecoveryRead
<1> QED  BY <1>2, <1>3, <1>5, <1>6, MergeDecided, DecidesByBegin

LEMMA MergeReadsDecide ==
    ASSUME TypeOK, NEW r \in Requests, NEW a \in Actors, NEW t \in Tasks,
           MergeRead(r, a, t) \/ GithubMergeRead(r, a, t)
    PROVE  \E q : DecidesAs(r, q)
<1> DEFINE from == row[t].status
           goal == IF IsTerminal(Def, from) THEN from ELSE TerminalTarget(Def, from)
<1>1. PICK s \in {goal, FirstTerminal(Def)}, route \in {"merge", "github"} :
         Begin(r, MergeRequest(a, t, s, route))
  <2>1. \/ Begin(r, MergeRequest(a, t, goal, "merge"))
        \/ Begin(r, MergeRequest(a, t, FirstTerminal(Def), "github"))
    BY DEF MergeRead, GithubMergeRead
  <2> HIDE DEF goal
  <2> QED  BY <2>1
<1>2. MayMerge(t, a)
  BY DEF MergeRead, GithubMergeRead
<1>3. IsTerminal(Def, s)
  BY <1>1, ProjectAssumption, TerminalTargetEnds, TerminalTargetIn DEF IsTerminal
<1> DEFINE q == MergeRequest(a, t, s, route)
<1>4. /\ q.op = "merge" /\ q.pc = "reserve" /\ q.actor = a /\ q.task = t
      /\ q.to = s /\ q.clear = Claims /\ q.route = route /\ q.snap = Seen(t)
      /\ Seen(t).status = from /\ Seen(t).work = row[t].work
  BY DEF MergeRequest, StatusRequest, New, Seen
<1> HIDE DEF q
<1>5. EndsReview(q) \/ Settles(q)
  <2>1. CASE IsReview(Def, from)
    <3>1. Approver(Seen(t), a)
      BY <1>2, <2>1, GateSeen DEF MayMerge
    <3>2. s \in {TerminalTarget(Def, from), FirstTerminal(Def)}
      BY <1>1, <2>1 DEF IsReview
    <3> QED  BY <1>4, <2>1, <3>1, <3>2 DEF EndsReview
  <2>2. CASE ~IsReview(Def, from)
    <3>1. IsTerminal(Def, from) /\ DistinctFrom(row[t].work, a)
      BY <1>2, <2>2 DEF MayMerge, SelfMergeGate
    <3> QED  BY <1>1, <1>4, <3>1 DEF Settles
  <2> QED  BY <2>1, <2>2
<1>6. MergeDecision(q) /\ ~Recording(q)
  BY <1>1, <1>3, <1>4, <1>5 DEF MergeDecision, MergeVerdict, Recording
<1> QED  BY <1>1, <1>4, <1>6, MergeDecided, DecidesByBegin DEF q

-----------------------------------------------------------------------------
(* Steps of a running request.                                             *)

\* A merged pull request stays merged, and a request that goes on keeps or
\* renews its decision.
PullKept == \A t \in Tasks : pull[t] # "open" => pull'[t] # "open"

GoesOn(r, q) ==
    /\ req' = [req EXCEPT ![r] = q]
    /\ q.task \in Tasks /\ Decided(q) /\ (Recording(q) => pull'[q.task] # "open")

DecisionStep ==
    /\ PullKept
    /\ \/ req' = req
       \/ \E r \in Requests : End(r)
       \/ \E r \in Requests : \E q : GoesOn(r, q)

LEMMA ReadDecides ==
    ASSUME NEW r \in Requests, \E q : DecidesAs(r, q)
    PROVE  DecisionStep
<1>1. PICK q : DecidesAs(r, q)
  OBVIOUS
<1>2. GoesOn(r, q) /\ PullKept
  BY <1>1 DEF DecidesAs, GoesOn, PullKept
<1> QED  BY <1>2 DEF DecisionStep

\* A write ends its request or lets it release its reservation; a merge goes
\* from one step to the next.
LEMMA SameDecision ==
    ASSUME NEW q, NEW p, Decided(q),
           p.op = q.op, p.actor = q.actor, p.snap = q.snap, p.to = q.to,
           p.clear = q.clear, p.route = q.route, p.pc # "write",
           q.op \in {"status", "forced", "merge"},
           q.op # "merge" => p.pc = "release",
           p.pc \in {"reserve", "call"} => q.pc \in {"reserve", "call"},
           p.pc = "record" => q.pc \in {"call", "record"},
           p.pc # "retry"
    PROVE  Decided(p)
<1>1. /\ ClaimDecision(p) /\ OffBoardDecision(p) /\ WebhookDecision(p)
      /\ p.op # "merge" => p.pc \in {"write", "release"}
  BY DEF Decided, ClaimDecision, OffBoardDecision, WebhookDecision, WebhookOps
<1>2. StatusDecision(p)
  BY DEF Decided, StatusDecision, Follows, Forces
<1>3. /\ MergeVerdict(q) => MergeVerdict(p)
      /\ Repairs(q) => Repairs(p)
  BY DEF MergeVerdict, Judges, Finishes, EndsReview, Settles, Repairs
<1>4. MergeDecision(p)
  BY <1>3 DEF Decided, MergeDecision
<1> QED  BY <1>1, <1>2, <1>4 DEF Decided

LEMMA RunningDecided ==
    ASSUME TypeOK, Decisions, NEW r \in Requests, req[r] # Idle
    PROVE  /\ req[r] \in Busy /\ req[r].task \in Tasks /\ Decided(req[r])
           /\ Recording(req[r]) => pull[req[r].task] # "open"
BY Running DEF Decisions

LEMMA GotoDecides ==
    ASSUME TypeOK, Decisions, PullKept, NEW r \in Requests, req[r] # Idle,
           NEW pc \in {"call", "release", "reread", "reread2"}, Goto(r, pc),
           req[r].op \in {"status", "forced", "merge"},
           req[r].op # "merge" => pc = "release",
           pc = "call" => req[r].pc = "reserve",
           pc \in {"reread", "reread2"} => req[r].pc \in {"record", "retry"}
    PROVE  DecisionStep
<1> DEFINE q == req[r]
           p == [q EXCEPT !.pc = pc]
<1>1. q \in Busy /\ q.task \in Tasks /\ Decided(q)
      /\ (Recording(q) => pull[q.task] # "open")
  BY RunningDecided
<1>2. /\ p.op = q.op /\ p.actor = q.actor /\ p.snap = q.snap /\ p.to = q.to
      /\ p.clear = q.clear /\ p.route = q.route /\ p.pc = pc /\ p.task = q.task
      /\ req' = [req EXCEPT ![r] = p]
  BY <1>1 DEF Goto, Busy
<1> HIDE DEF p
<1>3. Decided(p)
  BY <1>1, <1>2, SameDecision
<1>4. Recording(p) => pull'[p.task] # "open"
  BY <1>1, <1>2 DEF Recording, PullKept
<1>5. GoesOn(r, p)
  BY <1>1, <1>2, <1>3, <1>4 DEF GoesOn
<1> QED  BY <1>5 DEF DecisionStep

LEMMA EndDecides ==
    ASSUME NEW r \in Requests, PullKept, End(r)
    PROVE  DecisionStep
BY DEF DecisionStep

LEMMA WritesDecide ==
    ASSUME TypeOK, Decisions, NEW r \in Requests,
           \/ ClaimWrite(r) \/ ReviewClaimWrite(r) \/ ReleaseWrite(r)
           \/ ReviewReleaseWrite(r) \/ AbandonWrite(r)
           \/ AdminReleaseWrite(r) \/ AdminReassignWrite(r)
           \/ CreatorAbandonWrite(r) \/ DemoteWrite(r) \/ UnabandonWrite(r)
           \/ StatusWrite(r)
    PROVE  DecisionStep
<1>1. CASE StatusWrite(r)
  <2>1. PullKept
    BY <1>1 DEF StatusWrite, PullKept
  <2>2. CASE End(r)
    BY <2>1, <2>2, EndDecides
  <2>3. CASE Goto(r, "release")
    BY <1>1, <2>1, <2>3, GotoDecides DEF StatusWrite
  <2> QED  BY <1>1, <2>2, <2>3 DEF StatusWrite
<1>2. CASE ~StatusWrite(r)
  <2>1. \E cond, new : WriteIf(r, cond, new)
    BY <1>2, Zenon DEF ClaimWrite, ReviewClaimWrite, ReleaseWrite, ReviewReleaseWrite,
      AbandonWrite, AdminReleaseWrite, AdminReassignWrite, CreatorAbandonWrite,
      DemoteWrite, UnabandonWrite, OffBoardWrite
  <2>2. End(r) /\ PullKept
    BY <2>1 DEF WriteIf, PullKept
  <2> QED  BY <2>2, EndDecides
<1> QED  BY <1>1, <1>2

LEMMA GithubDecides ==
    ASSUME TypeOK, Decisions, NEW r \in Requests,
           \/ GithubMerges(r) \/ GithubAlreadyMerged(r) \/ GithubRefuses(r)
           \/ GithubCheckFails(r)
    PROVE  DecisionStep
<1> DEFINE q == req[r]  t == q.task
<1>1. /\ q # Idle /\ q.op = "merge" /\ q.pc = "call"
      /\ q \in Busy /\ t \in Tasks /\ Decided(q)
  BY RunningDecided
  DEF GithubMerges, GithubAlreadyMerged, GithubRefuses, GithubCheckFails, At
<1>2. PullKept
  BY <1>1 DEF PullKept, TypeOK, GithubMerges, GithubAlreadyMerged, GithubRefuses,
              GithubCheckFails
<1>3. MergeVerdict(q) /\ IsTerminal(Def, q.to)
  BY <1>1 DEF Decided, MergeDecision
<1>4. ASSUME NEW sha, req' = [req EXCEPT ![r].pc = "record", ![r].sha = sha],
             pull'[t] # "open"
      PROVE  DecisionStep
  <2> DEFINE p == [q EXCEPT !.pc = "record", !.sha = sha]
  <2>1. /\ p.op = q.op /\ p.actor = q.actor /\ p.snap = q.snap /\ p.to = q.to
        /\ p.clear = q.clear /\ p.route = q.route /\ p.pc = "record" /\ p.task = t
    BY <1>1 DEF Busy
  <2>2. req' = [req EXCEPT ![r] = p]
    BY <1>4
  <2> HIDE DEF p
  <2>3. Decided(p)
    BY <1>1, <2>1, SameDecision
  <2>4. GoesOn(r, p)
    BY <1>1, <1>4, <2>1, <2>2, <2>3 DEF GoesOn
  <2> QED  BY <1>2, <2>4 DEF DecisionStep
<1>5. CASE GithubMerges(r)
  <2> DEFINE sha == IF q.route = "github" THEN q.sha ELSE "set"
  <2>1. req' = [req EXCEPT ![r].pc = "record", ![r].sha = sha]
    BY <1>5 DEF GithubMerges
  <2>2. pull'[t] # "open"
    BY <1>1, <1>5 DEF GithubMerges, TypeOK
  <2> HIDE DEF sha
  <2> QED  BY <1>4, <2>1, <2>2
<1>6. CASE GithubAlreadyMerged(r) /\ q.route # "finish"
  <2> DEFINE sha == IF q.route = "merge" THEN "null" ELSE q.sha
  <2>1. req' = [req EXCEPT ![r].pc = "record", ![r].sha = sha]
    BY <1>6 DEF GithubAlreadyMerged
  <2>2. pull'[t] # "open"
    BY <1>6 DEF GithubAlreadyMerged
  <2> HIDE DEF sha
  <2> QED  BY <1>4, <2>1, <2>2
<1>7. CASE GithubAlreadyMerged(r) /\ q.route = "finish"
  <2> DEFINE p == [q EXCEPT !.pc = "write", !.op = "status"]
  <2>1. /\ p.op = "status" /\ p.actor = q.actor /\ p.snap = q.snap /\ p.to = q.to
        /\ p.clear = q.clear /\ p.pc = "write" /\ p.task = t
    BY <1>1 DEF Busy
  <2>2. req' = [req EXCEPT ![r] = p]
    BY <1>7 DEF GithubAlreadyMerged
  <2>3. q.actor \in Actors
    BY <1>1 DEF Decided, WebhookDecision, WebhookOps
  <2> HIDE DEF p
  <2>4. StatusVerdict(p)
    BY <1>3, <1>7, <2>1 DEF MergeVerdict, StatusVerdict, Judges, Finishes
  <2>5. GoesOn(r, p)
    BY <1>1, <2>1, <2>2, <2>3, <2>4, StatusDecided DEF GoesOn
  <2> QED  BY <1>2, <2>5 DEF DecisionStep
<1>8. CASE GithubRefuses(r) \/ GithubCheckFails(r)
  <2>1. Goto(r, "release")
    BY <1>8 DEF GithubRefuses, GithubCheckFails
  <2> QED  BY <1>1, <1>2, <2>1, GotoDecides
<1> QED  BY <1>5, <1>6, <1>7, <1>8

LEMMA RereadsDecide ==
    ASSUME TypeOK, Decisions, NEW r \in Requests, Reread(r) \/ RereadResult(r)
    PROVE  DecisionStep
<1> DEFINE q == req[r]  t == q.task
<1>1. /\ q # Idle /\ q.op = "merge" /\ q.pc \in {"reread", "reread2"}
      /\ q \in Busy /\ t \in Tasks /\ Decided(q)
      /\ Recording(q) => pull[t] # "open"
  BY RunningDecided DEF Reread, RereadResult, At
<1>2. PullKept /\ pull' = pull
  BY DEF PullKept, Reread, RereadResult
<1>3. CASE Goto(r, "release")
  BY <1>1, <1>2, <1>3, GotoDecides
<1>4. ASSUME NEW flag, row[t].status = q.to,
             req' = [req EXCEPT ![r].pc = "retry", ![r].snap = Seen(t), ![r].result = flag]
      PROVE  DecisionStep
  <2> DEFINE p == [q EXCEPT !.pc = "retry", !.snap = Seen(t), !.result = flag]
  <2>1. /\ p.op = "merge" /\ p.actor = q.actor /\ p.snap = Seen(t) /\ p.to = q.to
        /\ p.pc = "retry" /\ p.task = t
    BY <1>1 DEF Busy
  <2>2. req' = [req EXCEPT ![r] = p]
    BY <1>4
  <2>3. q.actor \in Actors /\ IsTerminal(Def, q.to)
    BY <1>1 DEF Decided, WebhookDecision, WebhookOps, MergeDecision
  <2> HIDE DEF p
  <2>4. MergeDecision(p)
    BY <1>4, <2>1, <2>3 DEF MergeDecision, Seen
  <2>5. GoesOn(r, p)
    BY <1>1, <1>2, <2>1, <2>2, <2>3, <2>4, MergeDecided DEF GoesOn, Recording
  <2> QED  BY <1>2, <2>5 DEF DecisionStep
<1>5. \/ Goto(r, "release")
      \/ /\ row[t].status = q.to
         /\ \E flag : req' = [req EXCEPT ![r].pc = "retry", ![r].snap = Seen(t),
                                         ![r].result = flag]
  BY Zenon DEF Reread, RereadResult
<1> QED  BY <1>3, <1>4, <1>5

LEMMA MergeStepsDecide ==
    ASSUME TypeOK, Decisions, NEW r \in Requests,
           \/ Reserve(r) \/ GithubUnknown(r) \/ RecordWrite(r) \/ RetryWrite(r)
           \/ Release(r) \/ Crash(r)
    PROVE  DecisionStep
<1> DEFINE q == req[r]  t == q.task
<1>1. q # Idle /\ q \in Busy /\ t \in Tasks
  BY RunningDecided DEF Reserve, GithubUnknown, RecordWrite, RetryWrite, Release, Crash, At
<1>2. PullKept
  BY <1>1 DEF PullKept, TypeOK, Reserve, GithubUnknown, RecordWrite, RetryWrite,
              MergedWrite, Release, Crash
<1>3. CASE End(r)
  BY <1>2, <1>3, EndDecides
<1>4. CASE Reserve(r) /\ Goto(r, "call")
  BY <1>1, <1>2, <1>4, GotoDecides DEF Reserve, At
<1>5. CASE RecordWrite(r) /\ Goto(r, "reread")
  BY <1>1, <1>2, <1>5, GotoDecides DEF RecordWrite, At
<1>6. CASE RetryWrite(r) /\ (Goto(r, "reread2") \/ Goto(r, "release"))
  BY <1>1, <1>2, <1>6, GotoDecides DEF RetryWrite, At
<1>7. RetryWrite(r) => End(r) \/ Goto(r, "reread2") \/ Goto(r, "release")
  <2> DEFINE pc == IF q.result THEN "reread2" ELSE "release"
             cond == q.result => row[t].result = NoRequest
  <2>1. RetryWrite(r) => MergedWrite(r, cond, pc)
    BY DEF RetryWrite
  <2>2. pc \in {"reread2", "release"}
    OBVIOUS
  <2> HIDE DEF pc, cond
  <2> QED  BY <2>1, <2>2 DEF MergedWrite
<1>8. /\ Reserve(r) => End(r) \/ Goto(r, "call")
      /\ RecordWrite(r) => End(r) \/ Goto(r, "reread")
      /\ GithubUnknown(r) \/ Release(r) \/ Crash(r) => End(r)
  BY DEF Reserve, RecordWrite, MergedWrite, GithubUnknown, Release, Crash
<1> QED  BY <1>3, <1>4, <1>5, <1>6, <1>7, <1>8

\* A status that takes part in an edge is a state, and none of the two statuses
\* beside the workflow.
LEMMA ReviewIsState ==
    ASSUME NEW s, IsReview(Def, s)
    PROVE  s \in States(Def) /\ s # Backlog /\ s # Abandoned /\ s # NoTarget
           /\ ~IsTerminal(Def, s) /\ s # Def.initial
<1>1. s \in States(Def)
  BY ProjectAssumption DEF IsReview, HasEdge, WellFormed
<1> QED  BY <1>1, ProjectAssumption, EdgeEnds DEF IsReview, IsInitial

\* A webhook that moves the task has decided so on the row it read.
LEMMA WebhookNextDecides ==
    ASSUME TypeOK, NEW op \in WebhookOps, op \in Ops, NEW t \in Tasks, Moves(op, t),
           NEW q \in Busy, q.pc = "write"
    PROVE  /\ Decided(WebhookNext(q, op, t))
           /\ WebhookNext(q, op, t).task = q.task
           /\ WebhookNext(q, op, t).op = op
<1> DEFINE to == WebhookTarget(op, row[t].status)
           p == WebhookNext(q, op, t)
<1>1. /\ p.op = op /\ p.pc = "write" /\ p.to = to /\ p.clear = TerminalClear(to)
      /\ p.snap.status = row[t].status /\ p.task = q.task
  BY DEF WebhookNext, Busy, SeenStatus, Seen
<1>2. to # NoTarget /\ to # row[t].status
  BY DEF Moves
<1>3. ~IsTerminal(Def, row[t].status) /\ row[t].status # Backlog
  BY <1>2, ReviewIsState DEF WebhookTarget, MergedTarget, WebhookOps
<1> HIDE DEF p, to
<1>4. WebhookDecision(p)
  BY <1>1, <1>2, <1>3 DEF WebhookDecision, to
<1>5. Decided(p)
  BY <1>1, <1>4, WebhookDecided
<1> QED  BY <1>1, <1>5 DEF p

LEMMA WebhooksDecide ==
    ASSUME TypeOK, Decisions, NEW r \in Requests,
           \/ WebhookWrite(r)
           \/ \E op \in WebhookOps, t \in Tasks : WebhookRead(r, op, t)
    PROVE  DecisionStep
<1>1. ASSUME NEW op \in WebhookOps, NEW t \in Tasks, WebhookRead(r, op, t)
      PROVE  DecisionStep
  <2> DEFINE q == New(op, NoActor, t)
             p == WebhookNext(q, op, t)
  <2>1. /\ Moves(op, t) /\ op \in Ops /\ req' = [req EXCEPT ![r] = p]
        /\ op = "prMerged" => pull' = [pull EXCEPT ![t] = "delivered"]
        /\ op # "prMerged" => pull' = pull
    BY <1>1 DEF WebhookRead
  <2>2. q \in Busy /\ q.task = t /\ q.pc = "write"
    <3>1. op \in OpNames /\ NoActor \in Holder
      BY Parties DEF OpNames
    <3>2. q \in Busy /\ q.task = t
      BY <3>1, NewIs
    <3> QED  BY <3>2, NewFields
  <2> HIDE DEF q
  <2>3. Decided(p) /\ p.task = t /\ p.op = op
    BY <2>1, <2>2, WebhookNextDecides
  <2> HIDE DEF p
  <2>4. PullKept /\ (op = "prMerged" => pull'[t] # "open")
    BY <2>1 DEF PullKept, TypeOK
  <2>5. GoesOn(r, p)
    BY <2>1, <2>3, <2>4 DEF GoesOn, Recording, WebhookOps
  <2> QED  BY <2>4, <2>5 DEF DecisionStep
<1>2. CASE WebhookWrite(r)
  <2> DEFINE q == req[r]  t == q.task
  <2>1. /\ q # Idle /\ q.op \in WebhookOps /\ q \in Busy /\ t \in Tasks /\ Decided(q)
        /\ Recording(q) => pull[t] # "open"
    BY <1>2, RunningDecided DEF WebhookWrite
  <2>2. PullKept /\ pull' = pull
    BY <1>2 DEF WebhookWrite, PullKept
  <2>3. q.pc = "write" /\ q.op \in Ops
    BY <2>1 DEF Decided, WebhookDecision
  <2>4. CASE End(r)
    BY <2>2, <2>4, EndDecides
  <2>5. CASE ~End(r)
    <3> DEFINE n == [q EXCEPT !.tries = @ + 1]
               p == WebhookNext(n, q.op, t)
    <3>1. q.tries < 2 /\ Moves(q.op, t) /\ req' = [req EXCEPT ![r] = p]
      BY <1>2, <2>5 DEF WebhookWrite
    <3>2. n \in Busy /\ n.task = t /\ n.pc = "write"
      <4>1. q.tries + 1 \in 0 .. 2
        BY <2>1, <3>1 DEF Busy
      <4> QED  BY <2>1, <2>3, <4>1 DEF Busy
    <3> HIDE DEF n
    <3>3. Decided(p) /\ p.task = t /\ p.op = q.op
      BY <2>1, <2>3, <3>1, <3>2, WebhookNextDecides
    <3> HIDE DEF p
    <3>4. Recording(p) => pull'[t] # "open"
      BY <2>1, <2>2, <3>3 DEF Recording, WebhookOps
    <3>5. GoesOn(r, p)
      BY <2>1, <3>1, <3>3, <3>4 DEF GoesOn
    <3> QED  BY <2>2, <3>5 DEF DecisionStep
  <2> QED  BY <2>4, <2>5
<1> QED  BY <1>1, <1>2

LEMMA NextDecides ==
    ASSUME TypeOK, DistinctHolders, Decisions, Next
    PROVE  DecisionStep
<1>1. ASSUME NEW r \in Requests, NEW a \in Actors, NEW t \in Tasks,
             ClaimReads(r, a, t) \/ StatusReads(r, a, t)
      PROVE  DecisionStep
  BY <1>1, ReadDecides, ClaimReadsDecide, OffBoardReadsDecide, TriageReadsDecide,
     EdgeReadsDecide, WorkReadsDecide, FinishReviewDecides, FinishWorkDecides,
     RecoveryDecides, MergeReadsDecide DEF StatusReads
<1>2. ASSUME NEW r \in Requests, Writes(r) \/ MergeSteps(r) \/ Crash(r)
      PROVE  DecisionStep
  BY <1>2, WritesDecide, WebhooksDecide, GithubDecides, RereadsDecide, MergeStepsDecide
  DEF Writes, MergeSteps
<1>3. ASSUME NEW t \in Tasks, Lapse(t) \/ ExternalMerge(t) \/ PatchResult(t)
      PROVE  DecisionStep
  BY <1>3 DEF Lapse, ExternalMerge, PatchResult, DecisionStep, PullKept, TypeOK
<1> QED  BY <1>1, <1>2, <1>3, WebhooksDecide DEF Next, FreeSlots

LEMMA DecisionsKept ==
    ASSUME TypeOK, Decisions, DecisionStep
    PROVE  Decisions'
<1> SUFFICES ASSUME NEW r \in Requests, req'[r] # Idle
             PROVE  /\ Decided(req'[r])
                    /\ Recording(req'[r]) => pull'[req'[r].task] # "open"
  BY DEF Decisions, Decided, Recording
<1>1. CASE req'[r] = req[r]
  <2>1. /\ Decided(req[r]) /\ req[r].task \in Tasks
        /\ Recording(req[r]) => pull[req[r].task] # "open"
    BY <1>1, RunningDecided
  <2> QED  BY <1>1, <2>1 DEF DecisionStep, PullKept
<1>2. CASE req'[r] # req[r]
  <2>1. ~End(r) /\ req' # req
    BY <1>2 DEF End, TypeOK
  <2>2. PICK p \in Requests : End(p) \/ \E q : GoesOn(p, q)
    BY <2>1 DEF DecisionStep
  <2>3. p = r
    BY <1>2, <2>2 DEF End, GoesOn, TypeOK
  <2>4. PICK q : GoesOn(r, q)
    BY <2>1, <2>2, <2>3
  <2>5. req'[r] = q
    BY <2>4 DEF GoesOn, TypeOK
  <2> QED  BY <2>4, <2>5 DEF GoesOn
<1> QED  BY <1>1, <1>2

\* Whatever happens to the row after a handler has read it, the handler's
\* decision was right for what it read, it carries that very snapshot to its
\* write, and nobody records a merge that did not happen.
THEOREM DecisionsHold == Spec => []Decisions
<1>1. Init => Decisions
  BY DEF Init, Decisions
<1>2. TypeOK /\ DistinctHolders /\ Decisions /\ [Next]_vars => Decisions'
  <2>1. CASE Next
    BY <2>1, NextDecides, DecisionsKept
  <2>2. CASE UNCHANGED vars
    BY <2>2 DEF vars, Decisions
  <2> QED  BY <2>1, <2>2
<1> QED  BY <1>1, <1>2, TypeCorrect, RolesDistinct, PTL DEF Spec

=============================================================================
