--------------------------- MODULE TaskPromises ---------------------------
(***************************************************************************)
(* What the task routes promise, proved of every behaviour.  Part one:     *)
(* TaskLifecycle implements TaskBoard.  With the requests, the versions    *)
(* and the reservations forgotten, every step is one operation of the      *)
(* board on the task as it is at that moment, or changes nothing on it.    *)
(* The decision a request carries (Decisions) holds for its snapshot, and  *)
(* the condition of its write ties the snapshot to the row.  Part two: the *)
(* promises to the users of the routes.                                    *)
(***************************************************************************)
EXTENDS TaskSteps

-----------------------------------------------------------------------------
(* The columns.                                                            *)

Cols(s, work, review) == [status |-> s, work |-> work, review |-> review]

LEMMA ColsSet ==
    ASSUME NEW s, NEW w, NEW v, NEW x
    PROVE  /\ [Cols(s, w, v) EXCEPT !.status = x] = Cols(x, w, v)
           /\ [Cols(s, w, v) EXCEPT !.work = x] = Cols(s, x, v)
           /\ [Cols(s, w, v) EXCEPT !.review = x] = Cols(s, w, x)
<1>1. [Cols(s, w, v) EXCEPT !.status = x] = Cols(x, w, v)
  BY DEF Cols
<1>2. [Cols(s, w, v) EXCEPT !.work = x] = Cols(s, x, v)
  BY DEF Cols
<1>3. [Cols(s, w, v) EXCEPT !.review = x] = Cols(s, w, x)
  BY DEF Cols
<1> QED  BY <1>1, <1>2, <1>3, Zenon

LEMMA ColsWithout ==
    ASSUME NEW s, NEW w, NEW v, NEW clear
    PROVE  Board!Without(Cols(s, w, v), clear) =
              Cols(s, IF "work" \in clear THEN NoActor ELSE w,
                      IF "review" \in clear THEN NoActor ELSE v)
<1> DEFINE c == Cols(s, w, v)
           x == IF "work" \in clear THEN NoActor ELSE c.work
           y == IF "review" \in clear THEN NoActor ELSE c.review
<1>1. c.work = w /\ c.review = v
  BY DEF Cols
<1>2. [[c EXCEPT !.work = x] EXCEPT !.review = y] = Cols(s, x, y)
  <2> HIDE DEF x, y
  <2>1. [c EXCEPT !.work = x] = Cols(s, x, v)
    BY DEF Cols
  <2>2. [Cols(s, x, v) EXCEPT !.review = y] = Cols(s, x, y)
    BY DEF Cols
  <2> QED  BY <2>1, <2>2, Zenon
<1>3. Board!Without(c, clear) = [[c EXCEPT !.work = x] EXCEPT !.review = y]
  BY Zenon DEF Board!Without
<1> QED  BY <1>1, <1>2, <1>3, Zenon

LEMMA ColsTo ==
    ASSUME NEW s, NEW w, NEW v, NEW clear, NEW x
    PROVE  Board!To(Cols(s, w, v), x, clear) =
              Cols(x, IF "work" \in clear THEN NoActor ELSE w,
                      IF "review" \in clear THEN NoActor ELSE v)
<1>1. [Cols(s, w, v) EXCEPT !.status = x] = Cols(x, w, v)
  BY DEF Cols
<1>2. Board!Without(Cols(x, w, v), clear) =
         Cols(x, IF "work" \in clear THEN NoActor ELSE w,
                 IF "review" \in clear THEN NoActor ELSE v)
  BY ColsWithout
<1> QED  BY <1>1, <1>2, Zenon DEF Board!To

\* The rows the writes store, as the board shows them.
LEMMA ShowsRow ==
    ASSUME NEW rw
    PROVE  OnBoard(rw) = Cols(rw.status, rw.work, rw.review)
BY DEF OnBoard, Cols

LEMMA DropShows ==
    ASSUME NEW rw \in Row, NEW clear
    PROVE  OnBoard(Drop(rw, clear)) = Board!Without(OnBoard(rw), clear)
<1>1. /\ Drop(rw, clear).status = rw.status
      /\ Drop(rw, clear).work = IF "work" \in clear THEN NoActor ELSE rw.work
      /\ Drop(rw, clear).review = IF "review" \in clear THEN NoActor ELSE rw.review
  BY DEF Drop, Row
<1> QED  BY <1>1, ShowsRow, ColsWithout

LEMMA SetShows ==
    ASSUME NEW rw \in Row, NEW s \in Statuses(Def), NEW clear
    PROVE  /\ OnBoard(SetStatus(rw, s)) = [OnBoard(rw) EXCEPT !.status = s]
           /\ OnBoard(Drop(SetStatus(rw, s), clear)) = Board!To(OnBoard(rw), s, clear)
<1>1. OnBoard(SetStatus(rw, s)) = [OnBoard(rw) EXCEPT !.status = s]
  <2>1. OnBoard(SetStatus(rw, s)) = Cols(s, rw.work, rw.review)
    BY SetStatusIs, ShowsRow
  <2>2. [Cols(rw.status, rw.work, rw.review) EXCEPT !.status = s]
           = Cols(s, rw.work, rw.review)
    BY ColsSet
  <2> QED  BY <2>1, <2>2, ShowsRow, Zenon
<1>2. SetStatus(rw, s) \in Row
  BY SetStatusIs
<1> QED  BY <1>1, <1>2, DropShows, Zenon DEF Board!To

LEMMA StoreShows ==
    ASSUME NEW rw \in Row, NEW r \in Requests, NEW flag
    PROVE  OnBoard(Store(rw, r, flag)) = OnBoard(rw)
BY StoreIs, ShowsRow

LEMMA LockShows ==
    ASSUME NEW rw \in Row, NEW l
    PROVE  OnBoard([rw EXCEPT !.lock = l]) = OnBoard(rw)
BY DEF OnBoard, Row

LEMMA ToSame ==
    ASSUME NEW rw, NEW s
    PROVE  /\ Board!To(OnBoard(rw), s, {}) = [OnBoard(rw) EXCEPT !.status = s]
           /\ Board!To(OnBoard(rw), rw.status, {}) = OnBoard(rw)
<1>1. \A x : Board!To(OnBoard(rw), x, {}) = Cols(x, rw.work, rw.review)
  BY ShowsRow, ColsTo
<1>2. [OnBoard(rw) EXCEPT !.status = s] = Cols(s, rw.work, rw.review)
  BY DEF OnBoard, Cols
<1> QED  BY <1>1, <1>2, ShowsRow, Zenon

-----------------------------------------------------------------------------
(* Steps as the board sees them.                                           *)

LEMMA BoardAt ==
    ASSUME NEW t \in Tasks
    PROVE  /\ BoardTask[t] = OnBoard(row[t])
           /\ BoardTask[t].status = row[t].status
           /\ BoardTask[t].work = row[t].work
           /\ BoardTask[t].review = row[t].review
           /\ \A c \in Claims : BoardTask[t][c] = row[t][c]
           /\ BoardMerged[t] <=> pull[t] # "open"
<1>1. BoardTask[t] = OnBoard(row[t]) /\ (BoardMerged[t] <=> pull[t] # "open")
  BY DEF BoardTask, BoardMerged
<1>2. /\ OnBoard(row[t]).status = row[t].status
      /\ OnBoard(row[t]).work = row[t].work
      /\ OnBoard(row[t]).review = row[t].review
  BY DEF OnBoard
<1> QED  BY <1>1, <1>2 DEF Claims

LEMMA BoardSame ==
    ASSUME pull' = pull, \A t \in Tasks : OnBoard(row'[t]) = OnBoard(row[t])
    PROVE  UNCHANGED Board!vars
BY DEF BoardTask, BoardMerged, Board!vars

LEMMA BoardSets ==
    ASSUME TypeOK, NEW t \in Tasks, NEW new, row' = [row EXCEPT ![t] = new], pull' = pull
    PROVE  Board!Set(t, OnBoard(new))
<1>1. BoardTask' = [BoardTask EXCEPT ![t] = OnBoard(new)]
  BY DEF TypeOK, BoardTask
<1>2. BoardMerged' = BoardMerged
  BY DEF BoardMerged
<1> QED  BY <1>1, <1>2, Zenon DEF Board!Set

\* A step shows an operation of the board, or nothing.
BoardMoves ==
    \/ UNCHANGED Board!vars
    \/ \E a \in Actors, t \in Tasks : Board!Operation(a, t)
    \/ \E t \in Tasks : Board!PullMerged(t) \/ Board!Settle(t) \/ Board!Event(t)

LEMMA BoardWrite ==
    ASSUME TypeOK, NEW r \in Requests, req[r] # Idle, NEW cond, NEW new,
           WriteIf(r, cond, new)
    PROVE  UNCHANGED Board!vars \/ (cond /\ Board!Set(req[r].task, OnBoard(new)))
<1>1. req[r].task \in Tasks /\ pull' = pull
  BY Running DEF WriteIf
<1>2. CASE cond
  <2>1. row' = [row EXCEPT ![req[r].task] = new]
    BY <1>2 DEF WriteIf
  <2> QED  BY <1>1, <1>2, <2>1, BoardSets
<1>3. CASE ~cond
  <2>1. row' = row
    BY <1>3 DEF WriteIf
  <2> QED  BY <1>1, <2>1, BoardSame
<1> QED  BY <1>2, <1>3

\* An operation of a client is done by an actor.
LEMMA ActorActs ==
    ASSUME TypeOK, Decisions, NEW r \in Requests, req[r] # Idle,
           req[r].op \notin WebhookOps
    PROVE  /\ req[r] \in Busy /\ req[r].task \in Tasks /\ req[r].actor \in Actors
           /\ req[r].actor # NoActor /\ Decided(req[r])
           /\ row[req[r].task] \in Row /\ req[r].to \in Statuses(Def)
BY RunningDecided, Running, ActorsAssumption DEF Decided, WebhookDecision

\* TaskBoard asks the questions of Workflow; its copies of the operators are
\* the same operators.
LEMMA BoardStates ==
    /\ Board!States(Def) = States(Def)
    /\ Board!Backlog = Backlog /\ Board!Abandoned = Abandoned
    /\ Board!NoTarget = NoTarget
    /\ \A s : Board!IsTerminal(Def, s) <=> IsTerminal(Def, s)
    /\ \A s : Board!IsWork(Def, s) <=> IsWork(Def, s)
    /\ \A s, u : Board!HasEdge(Def, s, u) <=> HasEdge(Def, s, u)
    /\ \A s : Board!IsReview(Def, s) <=> IsReview(Def, s)
    /\ Board!ReviewStates(Def) = ReviewStates(Def)
<1>1. \A s, u : Board!HasEdge(Def, s, u) <=> HasEdge(Def, s, u)
  BY DEF Board!HasEdge, HasEdge
<1>2. \A s : Board!IsTerminal(Def, s) <=> IsTerminal(Def, s)
  BY DEF Board!IsTerminal, IsTerminal
<1>3. \A s : Board!IsWork(Def, s) <=> IsWork(Def, s)
  BY <1>2 DEF Board!IsWork, IsWork, Board!IsInitial, IsInitial
<1>4. \A s : Board!IsReview(Def, s) <=> IsReview(Def, s)
  BY <1>1, <1>2 DEF Board!IsReview, IsReview, Board!IsInitial, IsInitial
<1>5. Board!States(Def) = States(Def)
  BY DEF Board!States, States
<1>6. Board!ReviewStates(Def) = ReviewStates(Def)
  BY <1>4, <1>5 DEF Board!ReviewStates, ReviewStates
<1> QED  BY <1>1, <1>2, <1>3, <1>4, <1>5, <1>6
         DEF Board!Backlog, Backlog, Board!Abandoned, Abandoned,
             Board!NoTarget, NoTarget

LEMMA BoardLookups ==
    /\ \A idx : Board!FirstEdgeTo(Def, idx) = FirstEdgeTo(Def, idx)
    /\ \A s : Board!EdgesFrom(Def, s) = EdgesFrom(Def, s)
    /\ \A set : Board!FirstStateOf(Def, set) = FirstStateOf(Def, set)
<1>1. \A idx : Board!FirstIndex(idx) = FirstIndex(idx)
  BY DEF Board!FirstIndex, FirstIndex
<1>2. \A idx : Board!FirstEdgeTo(Def, idx) = FirstEdgeTo(Def, idx)
  BY <1>1 DEF Board!FirstEdgeTo, FirstEdgeTo, Board!NoTarget, NoTarget
<1>3. \A s : Board!EdgesFrom(Def, s) = EdgesFrom(Def, s)
  BY DEF Board!EdgesFrom, EdgesFrom
<1>4. \A set : Board!FirstStateOf(Def, set) = FirstStateOf(Def, set)
  BY <1>1 DEF Board!FirstStateOf, FirstStateOf, Board!NoTarget, NoTarget
<1> QED  BY <1>2, <1>3, <1>4

LEMMA BoardTargets ==
    /\ Board!StartTarget(Def) = StartTarget(Def)
    /\ Board!FirstTerminal(Def) = FirstTerminal(Def)
    /\ \A s : Board!TerminalTarget(Def, s) = TerminalTarget(Def, s)
    /\ \A s : Board!ChangesTarget(Def, s) = ChangesTarget(Def, s)
    /\ \A s : Board!FinishTarget(Def, s) = FinishTarget(Def, s)
    /\ \A s : Board!AdvanceTargets(Def, s) = AdvanceTargets(Def, s)
<1>1. Board!StartTarget(Def) = StartTarget(Def)
  BY BoardLookups DEF Board!StartTarget, StartTarget
<1>2. Board!FirstTerminal(Def) = FirstTerminal(Def)
  BY BoardLookups DEF Board!FirstTerminal, FirstTerminal
<1>3. \A s : Board!ApproveTarget(Def, s) = ApproveTarget(Def, s)
  BY BoardLookups, BoardStates DEF Board!ApproveTarget, ApproveTarget
<1>4. \A s : Board!TerminalTarget(Def, s) = TerminalTarget(Def, s)
  BY <1>2, <1>3, BoardStates DEF Board!TerminalTarget, TerminalTarget
<1>5. \A s : Board!ChangesTarget(Def, s) = ChangesTarget(Def, s)
  BY BoardLookups, BoardStates DEF Board!ChangesTarget, ChangesTarget
<1>6. \A s : Board!FinishTarget(Def, s) = FinishTarget(Def, s)
  <2>1. \A s : Board!ReachableReview(Def, s) = ReachableReview(Def, s)
    BY BoardLookups, BoardStates DEF Board!ReachableReview, ReachableReview
  <2>2. Board!ExpectedFinish(Def) = ExpectedFinish(Def)
    BY <1>2, BoardLookups, BoardStates DEF Board!ExpectedFinish, ExpectedFinish
  <2> QED  BY <2>1, <2>2, BoardStates DEF Board!FinishTarget, FinishTarget
<1>7. \A s : Board!AdvanceTargets(Def, s) = AdvanceTargets(Def, s)
  <2>1. \A s, u : Board!IsForward(Def, s, u) <=> IsForward(Def, s, u)
    BY DEF Board!IsForward, IsForward
  <2> QED  BY <2>1, BoardStates
           DEF Board!AdvanceTargets, AdvanceTargets, Board!IsFinishOnly, IsFinishOnly
<1> QED  BY <1>1, <1>2, <1>4, <1>5, <1>6, <1>7

\* The gates of TaskBoard are those of the handlers, asked of the row.
LEMMA BoardGates ==
    /\ Board!Distinct <=> DistinctReviewer
    /\ \A holder, a : Board!NotHolder(holder, a) <=> DistinctFrom(holder, a)
BY DEF Board!Distinct, Board!NotHolder, DistinctReviewer, DistinctFrom

LEMMA ClaimWriteMoves ==
    ASSUME TypeOK, Decisions, NEW r \in Requests, ClaimWrite(r)
    PROVE  BoardMoves
<1> DEFINE q == req[r]  t == q.task  old == row[t]  set == SetStatus(old, q.to)
           new == [set EXCEPT !.work = q.actor]
           cond == /\ SameStatusVersion(t, q.snap) /\ row[t].work = NoActor
                   /\ WorkClaimGate(t, q.actor) /\ NoLiveReservation(t)
<1>1. q # Idle /\ q.op = "claim" /\ WriteIf(r, cond, new)
  BY DEF ClaimWrite, At
<1>2. /\ q \in Busy /\ t \in Tasks /\ q.actor \in Actors /\ Decided(q)
      /\ old \in Row /\ q.to \in Statuses(Def)
  BY <1>1, ActorActs DEF WebhookOps
<1>3. UNCHANGED Board!vars \/ (cond /\ Board!Set(t, OnBoard(new)))
  BY <1>1, BoardWrite
<1>4. ASSUME cond, Board!Set(t, OnBoard(new)) PROVE BoardMoves
  <2>1. q.snap.status = Def.initial /\ q.to = StartTarget(Def)
    BY <1>1, <1>2 DEF Decided, ClaimDecision
  <2>2. /\ BoardTask[t] = Cols(old.status, old.work, old.review)
        /\ BoardTask[t].status = old.status /\ BoardTask[t].work = old.work
        /\ BoardTask[t].review = old.review
    BY <1>2, BoardAt, ShowsRow
  <2>3. OnBoard(new) = Cols(q.to, q.actor, old.review)
    <3>1. set \in Row /\ set.status = q.to /\ set.review = old.review
      BY <1>2, SetStatusIs
    <3> HIDE DEF set
    <3>2. new.status = q.to /\ new.work = q.actor /\ new.review = old.review
      BY <3>1 DEF Row
    <3> QED  BY <3>2, ShowsRow
  <2>4. [BoardTask[t] EXCEPT !.status = StartTarget(Def), !.work = q.actor]
          = Cols(q.to, q.actor, old.review)
    <3>1. [Cols(old.status, old.work, old.review) EXCEPT !.status = StartTarget(Def)]
            = Cols(StartTarget(Def), old.work, old.review)
      BY DEF Cols
    <3>2. [Cols(StartTarget(Def), old.work, old.review) EXCEPT !.work = q.actor]
            = Cols(StartTarget(Def), q.actor, old.review)
      BY DEF Cols
    <3> QED  BY <2>1, <2>2, <3>1, <3>2, Zenon
  <2> HIDE DEF new
  <2>5. Board!NotHolder(BoardTask[t].review, q.actor)
    BY <1>4, <2>2, BoardGates DEF WorkClaimGate
  <2>6. Board!Claim(q.actor, t)
    BY <1>4, <2>1, <2>2, <2>3, <2>4, <2>5, BoardTargets, Zenon
    DEF Board!Claim, SameStatusVersion
  <2> QED  BY <1>2, <2>6 DEF BoardMoves, Board!Operation
<1> QED  BY <1>3, <1>4 DEF BoardMoves

LEMMA ReviewClaimWriteMoves ==
    ASSUME TypeOK, Decisions, NEW r \in Requests, ReviewClaimWrite(r)
    PROVE  BoardMoves
<1> DEFINE q == req[r]  t == q.task  old == row[t]
           new == [old EXCEPT !.review = q.actor]
           cond == /\ row[t].status = q.snap.status /\ row[t].review = NoActor
                   /\ ReviewerGate(t, q.actor) /\ NoLiveReservation(t)
<1>1. q # Idle /\ q.op = "reviewClaim" /\ WriteIf(r, cond, new)
  BY DEF ReviewClaimWrite, At
<1>2. /\ q \in Busy /\ t \in Tasks /\ q.actor \in Actors /\ Decided(q) /\ old \in Row
  BY <1>1, ActorActs DEF WebhookOps
<1>3. UNCHANGED Board!vars \/ (cond /\ Board!Set(t, OnBoard(new)))
  BY <1>1, BoardWrite
<1>4. ASSUME cond, Board!Set(t, OnBoard(new)) PROVE BoardMoves
  <2>1. IsReview(Def, old.status)
    BY <1>1, <1>2, <1>4 DEF Decided, ClaimDecision
  <2>2. /\ BoardTask[t] = Cols(old.status, old.work, old.review)
        /\ BoardTask[t].status = old.status /\ BoardTask[t].work = old.work
        /\ BoardTask[t].review = old.review
    BY <1>2, BoardAt, ShowsRow
  <2>3. OnBoard(new) = Cols(old.status, old.work, q.actor)
    <3>1. /\ new.status = old.status /\ new.work = old.work
          /\ new.review = q.actor
      BY <1>2 DEF Row
    <3> QED  BY <3>1, ShowsRow
  <2>4. [BoardTask[t] EXCEPT !.review = q.actor] = Cols(old.status, old.work, q.actor)
    <3>1. [Cols(old.status, old.work, old.review) EXCEPT !.review = q.actor]
            = Cols(old.status, old.work, q.actor)
      BY DEF Cols
    <3> QED  BY <2>2, <3>1, Zenon
  <2> HIDE DEF new
  <2>5. Board!NotHolder(BoardTask[t].work, q.actor)
    BY <1>4, <2>2, BoardGates DEF ReviewerGate
  <2>6. Board!IsReview(Def, BoardTask[t].status) /\ BoardTask[t].review = NoActor
    BY <1>4, <2>1, <2>2, BoardStates
  <2>7. Board!TakeReview(q.actor, t)
    BY <1>4, <2>3, <2>4, <2>5, <2>6, Zenon DEF Board!TakeReview
  <2> QED  BY <1>2, <2>7 DEF BoardMoves, Board!Operation
<1> QED  BY <1>3, <1>4 DEF BoardMoves

LEMMA ReleaseWriteMoves ==
    ASSUME TypeOK, Decisions, NEW r \in Requests, ReleaseWrite(r)
    PROVE  BoardMoves
<1> DEFINE q == req[r]  t == q.task  old == row[t]
           new == Drop(SetStatus(old, q.to), {"work"})
           cond == /\ row[t].work = q.actor /\ SameStatusVersion(t, q.snap)
                   /\ NoLiveReservation(t)
<1>1. q # Idle /\ q.op = "release" /\ WriteIf(r, cond, new)
  BY DEF ReleaseWrite, At
<1>2. /\ q \in Busy /\ t \in Tasks /\ q.actor \in Actors /\ Decided(q)
      /\ old \in Row /\ q.to \in Statuses(Def)
  BY <1>1, ActorActs DEF WebhookOps
<1>3. UNCHANGED Board!vars \/ (cond /\ Board!Set(t, OnBoard(new)))
  BY <1>1, BoardWrite
<1>4. ASSUME cond, Board!Set(t, OnBoard(new)) PROVE BoardMoves
  <2>1. ~IsReview(Def, old.status) /\ q.to = Def.initial
    BY <1>1, <1>2, <1>4 DEF Decided, ClaimDecision, SameStatusVersion
  <2>2. BoardTask[t].work = q.actor /\ ~Board!IsReview(Def, BoardTask[t].status)
    BY <1>2, <1>4, <2>1, BoardAt, BoardStates
  <2>3. OnBoard(new) = Board!To(BoardTask[t], Def.initial, {"work"})
    BY <1>2, <2>1, SetShows, BoardAt
  <2>4. Board!Release(q.actor, t)
    BY <1>4, <2>2, <2>3, Zenon DEF Board!Release
  <2> QED  BY <1>2, <2>4 DEF BoardMoves, Board!Operation
<1> QED  BY <1>3, <1>4 DEF BoardMoves

LEMMA GiveUpMoves ==
    ASSUME NEW a \in Actors, NEW t \in Tasks, NEW claims \in SUBSET Claims,
           claims # {}, \A c \in claims : row[t][c] = a,
           claims = {"work"} => ~IsReview(Def, row[t].status),
           NEW new,
           IF "work" \in claims /\ IsWork(Def, row[t].status)
           THEN OnBoard(new) = Board!To(OnBoard(row[t]), Def.initial, claims)
           ELSE OnBoard(new) = Board!Without(OnBoard(row[t]), claims),
           Board!Set(t, OnBoard(new))
    PROVE  BoardMoves
<1> DEFINE s == IF "work" \in claims /\ Board!IsWork(Def, BoardTask[t].status)
                THEN Def.initial ELSE BoardTask[t].status
<1>1. claims \in (SUBSET Board!Both) \ {{}}
  BY DEF Board!Both, Claims
<1>2. \A c \in claims : BoardTask[t][c] = a
  BY BoardAt
<1>3. claims = {"work"} => ~Board!IsReview(Def, BoardTask[t].status)
  BY BoardAt, BoardStates
<1>4. OnBoard(new) = Board!To(BoardTask[t], s, claims)
  <2>1. CASE "work" \in claims /\ IsWork(Def, row[t].status)
    BY <2>1, BoardAt, BoardStates
  <2>2. CASE ~("work" \in claims /\ IsWork(Def, row[t].status))
    <3>1. s = row[t].status
      BY <2>2, BoardAt, BoardStates
    <3>2. Board!To(OnBoard(row[t]), row[t].status, claims)
             = Board!Without(OnBoard(row[t]), claims)
      BY ShowsRow, ColsTo, ColsWithout
    <3> QED  BY <2>2, <3>1, <3>2, BoardAt
  <2> QED  BY <2>1, <2>2
<1>5. Board!GiveUp(a, t)
  BY <1>1, <1>2, <1>3, <1>4, Zenon DEF Board!GiveUp
<1> QED  BY <1>5 DEF BoardMoves, Board!Operation

LEMMA GivingUpMoves ==
    ASSUME TypeOK, Decisions, NEW r \in Requests,
           ReviewReleaseWrite(r) \/ AbandonWrite(r)
    PROVE  BoardMoves
<1> DEFINE q == req[r]  t == q.task  old == row[t]
<1>1. /\ q # Idle /\ q \in Busy /\ t \in Tasks /\ q.actor \in Actors /\ Decided(q)
      /\ old \in Row /\ q.to \in Statuses(Def)
  BY ActorActs DEF ReviewReleaseWrite, AbandonWrite, At, WebhookOps
<1>2. CASE ReviewReleaseWrite(r)
  <2> DEFINE new == Drop(old, {"review"})
             cond == row[t].review = q.actor /\ NoLiveReservation(t)
  <2>1. WriteIf(r, cond, new)
    BY <1>2 DEF ReviewReleaseWrite
  <2>2. UNCHANGED Board!vars \/ (cond /\ Board!Set(t, OnBoard(new)))
    BY <1>1, <2>1, BoardWrite
  <2>3. OnBoard(new) = Board!Without(OnBoard(old), {"review"})
    BY <1>1, DropShows
  <2> HIDE DEF new
  <2>4. {"review"} \in SUBSET Claims /\ {"review"} # {} /\ {"review"} # {"work"}
        /\ "work" \notin {"review"}
    BY DEF Claims
  <2>5. cond => \A c \in {"review"} : row[t][c] = q.actor
    OBVIOUS
  <2> QED  BY <1>1, <2>2, <2>3, <2>4, <2>5, GiveUpMoves DEF BoardMoves
<1>3. CASE AbandonWrite(r)
  <2> DEFINE gives == "work" \in q.clear /\ IsWork(Def, q.snap.status)
             back == IF gives THEN SetStatus(old, q.to) ELSE old
             new == Drop(back, q.clear)
             cond == /\ \A c \in q.clear : row[t][c] = q.actor
                     /\ "work" \in q.clear => SameStatusVersion(t, q.snap)
                     /\ NoLiveReservation(t)
  <2>1. q.op = "abandon" /\ WriteIf(r, cond, new)
    BY <1>3 DEF AbandonWrite, At
  <2>2. UNCHANGED Board!vars \/ (cond /\ Board!Set(t, OnBoard(new)))
    BY <1>1, <2>1, BoardWrite
  <2>3. /\ q.clear \in SUBSET Claims /\ q.clear # {}
        /\ q.clear = {"work"} => ~IsReview(Def, q.snap.status)
        /\ gives => q.to = Def.initial
    BY <1>1, <2>1 DEF Decided, ClaimDecision, Busy
  <2>4. /\ gives => OnBoard(new) = Board!To(OnBoard(old), q.to, q.clear)
        /\ ~gives => OnBoard(new) = Board!Without(OnBoard(old), q.clear)
    BY <1>1, SetShows, DropShows
  <2>5. ASSUME cond
        PROVE  /\ q.clear = {"work"} => ~IsReview(Def, row[t].status)
               /\ gives <=> ("work" \in q.clear /\ IsWork(Def, row[t].status))
    <3>1. "work" \in q.clear => q.snap.status = row[t].status
      BY <2>5 DEF SameStatusVersion
    <3> QED  BY <2>3, <3>1
  <2> HIDE DEF new, back, gives
  <2>6. ASSUME cond, Board!Set(t, OnBoard(new)) PROVE BoardMoves
    BY <1>1, <2>3, <2>4, <2>5, <2>6, GiveUpMoves
  <2> QED  BY <2>2, <2>6 DEF BoardMoves
<1> QED  BY <1>2, <1>3

LEMMA AdminReleaseMoves ==
    ASSUME TypeOK, Decisions, NEW r \in Requests, AdminReleaseWrite(r)
    PROVE  BoardMoves
<1> DEFINE q == req[r]  t == q.task  old == row[t]
           claims == {c \in q.clear : row[t][c] = q.snap[c]}
           new == Drop(old, claims)
           cond == NoLiveReservation(t)
<1>1. q # Idle /\ q.op = "adminRelease" /\ WriteIf(r, cond, new)
  BY DEF AdminReleaseWrite, At
<1>2. /\ q \in Busy /\ t \in Tasks /\ q.actor \in Actors /\ Decided(q) /\ old \in Row
  BY <1>1, ActorActs DEF WebhookOps
<1>3. UNCHANGED Board!vars \/ Board!Set(t, OnBoard(new))
  BY <1>1, BoardWrite
<1>4. q.actor \in Admins
  BY <1>1, <1>2 DEF Decided, ClaimDecision
<1>5. claims \in SUBSET Board!Both
  BY <1>2 DEF Busy, Board!Both, Claims
<1> HIDE DEF claims
<1>6. OnBoard(new) = Board!Without(BoardTask[t], claims)
  BY <1>2, DropShows, BoardAt
<1> HIDE DEF new
<1>7. CASE Board!Set(t, OnBoard(new))
  <2>1. Board!AdminRelease(q.actor, t)
    BY <1>4, <1>5, <1>6, <1>7, Zenon DEF Board!AdminRelease
  <2> QED  BY <1>2, <2>1 DEF BoardMoves, Board!Operation
<1> QED  BY <1>3, <1>7 DEF BoardMoves

LEMMA ReassignMoves ==
    ASSUME TypeOK, Decisions, NEW r \in Requests, AdminReassignWrite(r)
    PROVE  BoardMoves
<1> DEFINE q == req[r]  t == q.task  old == row[t]  b == q.aim
<1>1. q # Idle /\ q.op = "adminReassign"
  BY DEF AdminReassignWrite, At
<1>2. /\ q \in Busy /\ t \in Tasks /\ q.actor \in Actors /\ Decided(q)
      /\ old \in Row /\ q.clear \in SUBSET Claims
  BY <1>1, ActorActs DEF WebhookOps, Busy
<1>3. PICK c \in q.clear :
         WriteIf(r, /\ ReassignKeepsDistinct(t, c, b) /\ FreeAgent(b, t)
                    /\ row[t][c] = q.snap[c] /\ NoLiveReservation(t),
                 [old EXCEPT ![c] = b])
  BY DEF AdminReassignWrite
<1> DEFINE new == [old EXCEPT ![c] = b]
           cond == /\ ReassignKeepsDistinct(t, c, b) /\ FreeAgent(b, t)
                   /\ row[t][c] = q.snap[c] /\ NoLiveReservation(t)
<1>4. UNCHANGED Board!vars \/ (cond /\ Board!Set(t, OnBoard(new)))
  BY <1>1, <1>3, BoardWrite
<1>5. ASSUME cond, Board!Set(t, OnBoard(new)) PROVE BoardMoves
  <2>1. /\ q.actor \in Admins /\ b \in Actors /\ c \in Board!Both
        /\ BoardTask[t][c] \notin {NoActor, b}
    <3>1. q.actor \in Admins /\ b \in Actors /\ q.snap[c] \notin {NoActor, b}
      BY <1>1, <1>2 DEF Decided, ClaimDecision
    <3>2. BoardTask[t][c] = row[t][c] /\ c \in Board!Both
      BY <1>2, BoardAt DEF Board!Both, Claims
    <3> QED  BY <1>5, <3>1, <3>2
  <2>2. Board!NotHolder(IF c = "work" THEN BoardTask[t].review
                                      ELSE BoardTask[t].work, b)
    BY <1>2, <1>5, BoardAt, BoardGates
    DEF ReassignKeepsDistinct, WorkClaimGate, ReviewerGate
  <2>3. OnBoard(new) = [BoardTask[t] EXCEPT ![c] = b]
    <3>1. BoardTask[t] = Cols(old.status, old.work, old.review)
      BY <1>2, BoardAt, ShowsRow
    <3>2. CASE c = "work"
      <4>1. new.status = old.status /\ new.work = b /\ new.review = old.review
        BY <1>2, <3>2 DEF Row
      <4>2. [Cols(old.status, old.work, old.review) EXCEPT !["work"] = b]
               = Cols(old.status, b, old.review)
        BY DEF Cols
      <4>3. OnBoard(new) = Cols(old.status, b, old.review)
        BY <4>1, ShowsRow
      <4> QED  BY <3>1, <3>2, <4>2, <4>3, Zenon
    <3>3. CASE c = "review"
      <4>1. new.status = old.status /\ new.work = old.work /\ new.review = b
        BY <1>2, <3>3 DEF Row
      <4>2. [Cols(old.status, old.work, old.review) EXCEPT !["review"] = b]
               = Cols(old.status, old.work, b)
        BY DEF Cols
      <4>3. OnBoard(new) = Cols(old.status, old.work, b)
        BY <4>1, ShowsRow
      <4> QED  BY <3>1, <3>3, <4>2, <4>3, Zenon
    <3> QED  BY <1>2, <3>2, <3>3 DEF Claims
  <2> HIDE DEF new
  <2>4. Board!Reassign(q.actor, t)
    BY <1>5, <2>1, <2>2, <2>3, Zenon DEF Board!Reassign
  <2> QED  BY <1>2, <2>4 DEF BoardMoves, Board!Operation
<1> QED  BY <1>4, <1>5 DEF BoardMoves

LEMMA OffBoardMoves ==
    ASSUME TypeOK, Decisions, NEW r \in Requests,
           CreatorAbandonWrite(r) \/ DemoteWrite(r) \/ UnabandonWrite(r)
    PROVE  BoardMoves
<1> DEFINE q == req[r]  t == q.task  old == row[t]
           new == SetStatus(old, q.to)
<1>0. PICK op \in {"creatorAbandon", "demote", "unabandon"} : \E from :
         /\ OffBoardWrite(r, op, from)
         /\ op = "creatorAbandon" => from = {"open", Backlog}
         /\ op = "demote" => from = {"open"}
         /\ op = "unabandon" => from = {Abandoned}
  BY DEF CreatorAbandonWrite, DemoteWrite, UnabandonWrite
<1>1. PICK from :
         /\ OffBoardWrite(r, op, from)
         /\ op = "creatorAbandon" => from = {"open", Backlog}
         /\ op = "demote" => from = {"open"}
         /\ op = "unabandon" => from = {Abandoned}
  BY <1>0
<1> DEFINE cond == /\ row[t].status \in from /\ row[t].version = q.snap.version
                   /\ Unclaimed(t) /\ NoLiveReservation(t)
<1>2. q # Idle /\ q.op = op /\ WriteIf(r, cond, new)
  BY <1>1 DEF OffBoardWrite, At
<1>3. /\ q \in Busy /\ t \in Tasks /\ q.actor \in Actors /\ Decided(q)
      /\ old \in Row /\ q.to \in Statuses(Def)
  BY <1>2, ActorActs DEF WebhookOps
<1>4. UNCHANGED Board!vars \/ (cond /\ Board!Set(t, OnBoard(new)))
  BY <1>2, BoardWrite
<1>5. ASSUME cond, Board!Set(t, OnBoard(new)) PROVE BoardMoves
  <2>1. Board!Set(t, [BoardTask[t] EXCEPT !.status = q.to])
    <3>1. OnBoard(new) = [OnBoard(old) EXCEPT !.status = q.to]
      BY <1>3, SetShows
    <3>2. BoardTask[t] = OnBoard(old)
      BY <1>3, BoardAt
    <3> HIDE DEF new
    <3> QED  BY <1>5, <3>1, <3>2, Zenon
  <2>2. Board!Free(BoardTask[t]) /\ BoardTask[t].status \in from
    BY <1>3, <1>5, BoardAt DEF Board!Free, Unclaimed
  <2>3. /\ op = "creatorAbandon" => q.actor \in Agents /\ q.actor = Creator[t]
                                    /\ q.to = Abandoned
        /\ op = "demote" => q.actor \notin Agents /\ q.to = Backlog
        /\ op = "unabandon" => q.actor \in Admins /\ q.to = Def.initial
    BY <1>2, <1>3 DEF Decided, OffBoardDecision
  <2> HIDE DEF new
  <2>4. CASE op = "creatorAbandon"
    <3>1. Board!CreatorAbandon(q.actor, t)
      BY <1>1, <2>1, <2>2, <2>3, <2>4, BoardStates DEF Board!CreatorAbandon
    <3> QED  BY <1>3, <3>1 DEF BoardMoves, Board!Operation
  <2>5. CASE op = "demote"
    <3>1. Board!Demote(q.actor, t)
      BY <1>1, <2>1, <2>2, <2>3, <2>5, BoardStates DEF Board!Demote
    <3> QED  BY <1>3, <3>1 DEF BoardMoves, Board!Operation
  <2>6. CASE op = "unabandon"
    <3>1. Board!Restore(q.actor, t)
      BY <1>1, <2>1, <2>2, <2>3, <2>6, BoardStates DEF Board!Restore
    <3> QED  BY <1>3, <3>1 DEF BoardMoves, Board!Operation
  <2> QED  BY <2>4, <2>5, <2>6
<1> QED  BY <1>4, <1>5 DEF BoardMoves

-----------------------------------------------------------------------------
(* Status writes. A compare-and-swap that finds the row as its request has *)
(* read it has the effect its decision asked for.                          *)

SeenNow(q) ==
    LET t == q.task IN
    /\ q.snap.status = row[t].status
    /\ q.snap.work = row[t].work /\ q.snap.review = row[t].review

Lands(q) ==
    /\ q.task \in Tasks /\ q.actor \in Actors /\ SeenNow(q)
    /\ Board!Set(q.task, Board!To(BoardTask[q.task], q.to, q.clear))

LEMMA BoardClears ==
    /\ \A s : Board!EndClaims(s) = TerminalClear(s)
    /\ \A t \in Tasks : \A s :
          Board!MoveClaims(BoardTask[t], s) = ClearOnMove(row[t].status, s)
<1>1. \A s : Board!EndClaims(s) = TerminalClear(s)
  BY BoardStates DEF Board!EndClaims, TerminalClear, Board!Both, Claims
<1>2. ASSUME NEW t \in Tasks, NEW s
      PROVE  Board!MoveClaims(BoardTask[t], s) = ClearOnMove(row[t].status, s)
  BY <1>1, BoardAt, BoardStates DEF Board!MoveClaims, ClearOnMove, TerminalClear, Claims
<1> QED  BY <1>1, <1>2

\* Who may approve what was read may approve the task as it is.
LEMMA ApproverNow ==
    ASSUME NEW q, q.task \in Tasks, SeenNow(q), Approver(q.snap, q.actor)
    PROVE  Board!MayApprove(BoardTask[q.task], q.actor)
BY BoardAt, BoardGates DEF SeenNow, Approver, Board!MayApprove

LEMMA EchoLands ==
    ASSUME NEW q, Lands(q), Echoes(q)
    PROVE  BoardMoves
<1> DEFINE t == q.task
<1>1. t \in Tasks /\ q.to = row[t].status /\ q.clear = {}
  BY DEF Lands, SeenNow, Echoes
<1>2. Board!To(BoardTask[t], q.to, q.clear) = BoardTask[t]
  BY <1>1, BoardAt, ToSame
<1>3. /\ BoardTask' = [BoardTask EXCEPT ![t] = BoardTask[t]]
      /\ BoardMerged' = BoardMerged
  BY <1>2, Zenon DEF Lands, Board!Set
<1>4. [BoardTask EXCEPT ![t] = BoardTask[t]] = BoardTask
  BY DEF BoardTask
<1> QED  BY <1>3, <1>4, Zenon DEF BoardMoves, Board!vars

LEMMA TriageLands ==
    ASSUME NEW q, Lands(q), Triages(q)
    PROVE  BoardMoves
<1> DEFINE t == q.task  a == q.actor
<1>1. /\ t \in Tasks /\ a \in Actors /\ a \notin Agents /\ row[t].status = Backlog
      /\ q.to \in {"open", Abandoned} /\ q.clear = {}
  BY DEF Lands, SeenNow, Triages
<1>2. Board!To(BoardTask[t], q.to, q.clear) = [BoardTask[t] EXCEPT !.status = q.to]
  <2>1. Board!To(OnBoard(row[t]), q.to, {}) = [OnBoard(row[t]) EXCEPT !.status = q.to]
    BY ToSame
  <2>2. BoardTask[t] = OnBoard(row[t])
    BY <1>1, BoardAt
  <2> QED  BY <1>1, <2>1, <2>2, Zenon
<1>3. Board!Set(t, [BoardTask[t] EXCEPT !.status = q.to])
  BY <1>2, Zenon DEF Lands
<1>4. BoardTask[t].status = Board!Backlog /\ q.to \in {"open", Board!Abandoned}
  BY <1>1, BoardAt, BoardStates
<1>5. Board!Triage(a, t)
  BY <1>1, <1>3, <1>4, Zenon DEF Board!Triage
<1> QED  BY <1>1, <1>5 DEF BoardMoves, Board!Operation

LEMMA FollowLands ==
    ASSUME NEW q, Lands(q), Follows(q)
    PROVE  BoardMoves
<1> DEFINE t == q.task  a == q.actor  from == row[t].status
<1>1. /\ t \in Tasks /\ a \in Actors /\ q.snap.status = from
      /\ HasEdge(Def, from, q.to) /\ q.clear = ClearOnMove(from, q.to)
  BY DEF Lands, SeenNow, Follows
<1>2. q.to \in Board!States(Def) /\ Board!HasEdge(Def, BoardTask[t].status, q.to)
  BY <1>1, DefFacts, EdgeIn, BoardAt, BoardStates
<1>3. Board!IsReview(Def, BoardTask[t].status) /\ Board!IsTerminal(Def, q.to)
      => \/ Board!MayApprove(BoardTask[t], a)
         \/ a \in (IF "transition" \in Ops THEN Admins ELSE {})
  <2>1. Approves(from, q.to) => Approver(q.snap, a) \/ Forces(q)
    BY <1>1 DEF Follows
  <2>2. Approver(q.snap, a) => Board!MayApprove(BoardTask[t], a)
    BY <1>1, ApproverNow DEF Lands
  <2> QED  BY <1>1, <2>1, <2>2, BoardAt, BoardStates DEF Approves, Forces
<1>4. Board!Set(t, Board!To(BoardTask[t], q.to, Board!MoveClaims(BoardTask[t], q.to)))
  BY <1>1, BoardClears DEF Lands
<1>5. Board!Follow(a, t)
  BY <1>2, <1>3, <1>4, Zenon DEF Board!Follow
<1> QED  BY <1>1, <1>5 DEF BoardMoves, Board!Operation

LEMMA JudgeLands ==
    ASSUME NEW q, Lands(q), Judges(q)
    PROVE  BoardMoves
<1> DEFINE t == q.task  a == q.actor  from == row[t].status
<1>1. /\ t \in Tasks /\ a \in Actors /\ q.snap.status = from
      /\ q.snap.review = row[t].review
  BY DEF Lands, SeenNow
<1>2. /\ Board!IsReview(Def, BoardTask[t].status)
      /\ BoardTask[t].review \in {NoActor, a}
  BY <1>1, BoardAt, BoardStates DEF Judges
<1>3. Board!MayApprove(BoardTask[t], a)
  BY <1>1, ApproverNow DEF Judges, Lands
<1>4. q.to \in {Board!TerminalTarget(Def, BoardTask[t].status),
                Board!ChangesTarget(Def, BoardTask[t].status),
                BoardTask[t].status} \ {Board!NoTarget}
  BY <1>1, BoardAt, BoardTargets, BoardStates DEF Judges
<1>5. Board!Set(t, Board!To(BoardTask[t], q.to, {"review"} \cup Board!EndClaims(q.to)))
  BY BoardClears DEF Lands, Judges
<1>6. Board!Judge(a, t)
  BY <1>2, <1>3, <1>4, <1>5, Zenon DEF Board!Judge
<1> QED  BY <1>1, <1>6 DEF BoardMoves, Board!Operation

LEMMA WorkingNow ==
    ASSUME NEW q, q.task \in Tasks, SeenNow(q), q.snap.work = q.actor, InWork(q.snap.status)
    PROVE  BoardTask[q.task].work = q.actor /\ Board!InWork(BoardTask[q.task])
BY BoardAt, BoardStates DEF SeenNow, InWork, Board!InWork

LEMMA AdvanceLands ==
    ASSUME NEW q, Lands(q), Advances(q)
    PROVE  BoardMoves
<1> DEFINE t == q.task  a == q.actor
<1>1. /\ t \in Tasks /\ a \in Actors /\ q.snap.status = row[t].status /\ q.clear = {}
  BY DEF Lands, SeenNow, Advances
<1>2. BoardTask[t].work = a /\ Board!InWork(BoardTask[t])
  BY WorkingNow DEF Lands, Advances
<1>3. q.to \in Board!AdvanceTargets(Def, BoardTask[t].status)
  BY <1>1, BoardAt, BoardTargets DEF Advances
<1>4. Board!Set(t, [BoardTask[t] EXCEPT !.status = q.to])
  <2>1. Board!To(OnBoard(row[t]), q.to, {}) = [OnBoard(row[t]) EXCEPT !.status = q.to]
    BY ToSame
  <2>2. BoardTask[t] = OnBoard(row[t])
    BY <1>1, BoardAt
  <2>3. Board!Set(t, Board!To(BoardTask[t], q.to, {}))
    BY <1>1, Zenon DEF Lands
  <2> QED  BY <2>1, <2>2, <2>3, Zenon
<1>5. Board!Advance(a, t)
  BY <1>2, <1>3, <1>4, Zenon DEF Board!Advance
<1> QED  BY <1>1, <1>5 DEF BoardMoves, Board!Operation

LEMMA FinishLands ==
    ASSUME NEW q, Lands(q), Finishes(q)
    PROVE  BoardMoves
<1> DEFINE t == q.task  a == q.actor  from == row[t].status
<1>1. /\ t \in Tasks /\ a \in Actors /\ q.snap.status = from
      /\ q.snap.review = row[t].review /\ SeenNow(q)
  BY DEF Lands, SeenNow
<1>2. /\ BoardTask[t].work = a /\ Board!InWork(BoardTask[t])
      /\ BoardTask[t].review # a
  BY <1>1, WorkingNow, BoardAt DEF Finishes
<1>3. /\ q.to \in {Board!FinishTarget(Def, BoardTask[t].status),
                   Board!TerminalTarget(Def, BoardTask[t].status)}
      /\ Board!HasEdge(Def, BoardTask[t].status, q.to)
      /\ q.to # Board!FinishTarget(Def, BoardTask[t].status) => Mode = "AUTONOMOUS"
  BY <1>1, BoardAt, BoardTargets, BoardStates DEF Finishes
<1>4. Board!Set(t, Board!To(BoardTask[t], q.to, Board!EndClaims(q.to) \ {"review"}))
  BY BoardClears DEF Lands, Finishes
<1>5. Board!Finish(a, t)
  BY <1>2, <1>3, <1>4, Zenon DEF Board!Finish
<1> QED  BY <1>1, <1>5 DEF BoardMoves, Board!Operation

\* The compare-and-swap compares all four columns.
LEMMA UnchangedSeen ==
    ASSUME TypeOK, NEW q \in Busy, Unchanged(q.task, q.snap)
    PROVE  SeenNow(q)
BY DEF Unchanged, Seen, SeenNow

LEMMA StatusWriteMoves ==
    ASSUME TypeOK, Decisions, NEW r \in Requests, StatusWrite(r)
    PROVE  BoardMoves
<1> DEFINE q == req[r]  t == q.task  old == row[t]
           new == Store(Drop(SetStatus(old, q.to), q.clear), r, q.result)
<1>1. /\ q # Idle /\ q.op \in {"status", "forced"} /\ q.pc = "write" /\ pull' = pull
      /\ row' = IF Unchanged(t, q.snap) /\ NoLiveReservation(t)
                THEN [row EXCEPT ![t] = new] ELSE row
  BY DEF StatusWrite
<1>2. /\ q \in Busy /\ t \in Tasks /\ q.actor \in Actors /\ Decided(q)
      /\ old \in Row /\ q.to \in Statuses(Def)
  BY <1>1, ActorActs DEF WebhookOps
<1>3. CASE row' = row
  BY <1>1, <1>3, BoardSame DEF BoardMoves
<1>4. CASE Unchanged(t, q.snap) /\ row' = [row EXCEPT ![t] = new]
  <2>1. OnBoard(new) = Board!To(BoardTask[t], q.to, q.clear)
    <3> DEFINE gone == Drop(SetStatus(old, q.to), q.clear)
    <3>1. gone \in Row
      BY <1>2, SetStatusIs, DropIs
    <3>2. OnBoard(gone) = Board!To(OnBoard(old), q.to, q.clear)
      BY <1>2, SetShows
    <3> HIDE DEF gone
    <3>3. OnBoard(new) = OnBoard(gone)
      BY <3>1, StoreShows DEF gone
    <3> QED  BY <1>2, <3>2, <3>3, BoardAt
  <2>2. Board!Set(t, OnBoard(new))
    BY <1>1, <1>2, <1>4, BoardSets
  <2> HIDE DEF new
  <2>3. Lands(q)
    BY <1>2, <1>4, <2>1, <2>2, UnchangedSeen DEF Lands
  <2>4. StatusVerdict(q)
    BY <1>1, <1>2 DEF Decided, StatusDecision, StatusVerdict
  <2> QED  BY <2>3, <2>4, EchoLands, TriageLands, FollowLands, JudgeLands,
              AdvanceLands, FinishLands DEF StatusVerdict
<1> QED  BY <1>1, <1>3, <1>4

-----------------------------------------------------------------------------
(* The write after a merge.                                                *)

LEMMA RecordedShows ==
    ASSUME TypeOK, NEW r \in Requests, req[r] # Idle
    PROVE  LET q == req[r] IN
           OnBoard(Recorded(r)) = Board!To(BoardTask[q.task], q.to, q.clear)
<1> DEFINE q == req[r]  old == row[q.task]
           gone == Drop(SetStatus(old, q.to), q.clear)
           sha == IF q.sha = "keep" THEN gone.sha ELSE q.sha = "set"
           rec == [gone EXCEPT !.lock = NoRequest, !.sha = sha]
<1>1. q.task \in Tasks /\ old \in Row /\ q.to \in Statuses(Def)
  BY Running
<1>2. OnBoard(gone) = Board!To(BoardTask[q.task], q.to, q.clear)
  BY <1>1, SetShows, BoardAt
<1>3. gone \in Row
  BY <1>1, SetStatusIs, DropIs
<1>4. Recorded(r) = Store(rec, r, q.result)
  BY DEF Recorded
<1> HIDE DEF gone
<1>5. sha \in BOOLEAN
  BY <1>3 DEF Row
<1>6. /\ rec \in Row /\ rec.status = gone.status
      /\ rec.work = gone.work /\ rec.review = gone.review
  <2> HIDE DEF sha
  <2> QED  BY <1>3, <1>5 DEF Row, Party
<1> HIDE DEF rec
<1>7. OnBoard(Store(rec, r, q.result)) = OnBoard(gone)
  BY <1>6, StoreShows, ShowsRow
<1> QED  BY <1>2, <1>4, <1>7

LEMMA EndReviewLands ==
    ASSUME NEW q, Lands(q), EndsReview(q), pull[q.task] # "open"
    PROVE  BoardMoves
<1> DEFINE t == q.task  a == q.actor
<1>1. t \in Tasks /\ a \in Actors /\ q.snap.status = row[t].status
  BY DEF Lands, SeenNow
<1>2. BoardMerged[t] /\ Board!IsReview(Def, BoardTask[t].status)
  BY <1>1, BoardAt, BoardStates DEF EndsReview
<1>3. Board!MayApprove(BoardTask[t], a)
  BY <1>1, ApproverNow DEF EndsReview, Lands
<1>4. q.to \in {Board!TerminalTarget(Def, BoardTask[t].status), Board!FirstTerminal(Def)}
  BY <1>1, BoardAt, BoardTargets DEF EndsReview
<1>5. Board!Set(t, Board!To(BoardTask[t], q.to, Board!Both))
  BY DEF Lands, EndsReview, Board!Both, Claims
<1>6. Board!EndMerged(a, t)
  BY <1>2, <1>3, <1>4, <1>5, Zenon DEF Board!EndMerged
<1> QED  BY <1>1, <1>6 DEF BoardMoves, Board!Operation

LEMMA SettleLands ==
    ASSUME NEW q, Lands(q), pull[q.task] # "open", q.clear \in SUBSET Claims,
           IsTerminal(Def, q.snap.status), q.to \in {q.snap.status, FirstTerminal(Def)}
    PROVE  BoardMoves
<1> DEFINE t == q.task
<1>1. t \in Tasks /\ q.snap.status = row[t].status
  BY DEF Lands, SeenNow
<1>2. BoardMerged[t] /\ Board!IsTerminal(Def, BoardTask[t].status)
  BY <1>1, BoardAt, BoardStates
<1>3. /\ q.to \in {BoardTask[t].status, Board!FirstTerminal(Def)}
      /\ q.clear \in SUBSET Board!Both
  BY <1>1, BoardAt, BoardTargets DEF Board!Both, Claims
<1>4. Board!Set(t, Board!To(BoardTask[t], q.to, q.clear))
  BY DEF Lands
<1>5. Board!Settle(t)
  BY <1>2, <1>3, <1>4, Zenon DEF Board!Settle
<1> QED  BY <1>1, <1>5 DEF BoardMoves

LEMMA RepairLands ==
    ASSUME NEW q, Lands(q), Repairs(q), pull[q.task] # "open"
    PROVE  BoardMoves
<1> DEFINE t == q.task  a == q.actor
<1>1. /\ t \in Tasks /\ a \in Actors /\ q.snap.status = row[t].status
      /\ q.snap.review = row[t].review /\ SeenNow(q)
  BY DEF Lands, SeenNow
<1>2. /\ BoardMerged[t] /\ BoardTask[t].work = a /\ BoardTask[t].review # a
      /\ Board!InWork(BoardTask[t])
  BY <1>1, WorkingNow, BoardAt DEF Repairs
<1>3. Board!Set(t, Board!To(BoardTask[t], Board!TerminalTarget(Def, BoardTask[t].status),
                            Board!Both))
  <2>1. q.to = Board!TerminalTarget(Def, BoardTask[t].status) /\ q.clear = Board!Both
    BY <1>1, BoardAt, BoardTargets DEF Repairs, Board!Both, Claims
  <2> QED  BY <2>1, Zenon DEF Lands
<1>4. Board!Repair(a, t)
  BY <1>2, <1>3, Zenon DEF Board!Repair
<1> QED  BY <1>1, <1>4 DEF BoardMoves, Board!Operation

LEMMA MergedWriteMoves ==
    ASSUME TypeOK, Decisions, NEW r \in Requests, RecordWrite(r) \/ RetryWrite(r)
    PROVE  BoardMoves
<1> DEFINE q == req[r]  t == q.task
<1>1. /\ q # Idle /\ q.op = "merge" /\ q.pc \in {"record", "retry"}
      /\ \E cond, onLoss : MergedWrite(r, cond, onLoss)
  BY Zenon DEF RecordWrite, RetryWrite, At
<1>2. /\ q \in Busy /\ t \in Tasks /\ q.actor \in Actors /\ Decided(q)
      /\ pull[t] # "open"
  BY <1>1, ActorActs, RunningDecided DEF WebhookOps, Recording
<1>3. /\ pull' = pull
      /\ \/ row' = row
         \/ Unchanged(t, q.snap) /\ row' = [row EXCEPT ![t] = Recorded(r)]
  BY <1>1 DEF MergedWrite
<1>4. CASE row' = row
  BY <1>3, <1>4, BoardSame DEF BoardMoves
<1>5. CASE Unchanged(t, q.snap) /\ row' = [row EXCEPT ![t] = Recorded(r)]
  <2>1. Board!Set(t, OnBoard(Recorded(r)))
    BY <1>2, <1>3, <1>5, BoardSets
  <2>2. Lands(q)
    BY <1>1, <1>2, <1>5, <2>1, RecordedShows, UnchangedSeen DEF Lands
  <2>3. q.clear \in SUBSET Claims
    BY <1>2 DEF Busy
  <2>4. CASE q.pc = "retry"
    <3>1. IsTerminal(Def, q.snap.status) /\ q.to = q.snap.status
      BY <1>1, <1>2, <2>4 DEF Decided, MergeDecision
    <3> QED  BY <1>2, <2>2, <2>3, <3>1, SettleLands
  <2>5. CASE q.pc = "record"
    <3>1. Judges(q) \/ Finishes(q) \/ EndsReview(q) \/ Settles(q) \/ Repairs(q)
      BY <1>1, <1>2, <2>5 DEF Decided, MergeDecision, MergeVerdict
    <3>2. CASE Settles(q)
      BY <1>2, <2>2, <2>3, <3>2, SettleLands DEF Settles
    <3> QED  BY <1>2, <2>2, <3>1, <3>2, JudgeLands, FinishLands, EndReviewLands,
                RepairLands
  <2> QED  BY <1>1, <2>4, <2>5
<1> QED  BY <1>3, <1>4, <1>5

-----------------------------------------------------------------------------
(* Webhooks.                                                               *)

\* Where an event moves the task, the board lets the report move it.
LEMMA ReportIs ==
    ASSUME NEW t \in Tasks, NEW op \in WebhookOps, NEW to,
           to = WebhookTarget(op, row[t].status), to # NoTarget,
           ~IsTerminal(Def, row[t].status), row[t].status # Backlog,
           op = "prMerged" => pull[t] # "open"
    PROVE  /\ Board!ReportTarget(t, op, to)
           /\ to \in Board!States(Def)
<1> DEFINE s == row[t].status
<1>1. /\ ReachableReview(Def, s) \in ReviewStates(Def) \cup {NoTarget}
      /\ FirstStateOf(Def, ReviewStates(Def)) \in ReviewStates(Def) \cup {NoTarget}
      /\ FirstTerminal(Def) \in States(Def)
      /\ ChangesTarget(Def, s) \in States(Def) \cup {NoTarget}
      /\ ReviewStates(Def) \subseteq States(Def)
  <2>1. ReviewStates(Def) \subseteq States(Def)
    BY DEF ReviewStates
  <2>2. {v \in ReviewStates(Def) : HasEdge(Def, s, v)} \subseteq States(Def)
    BY <2>1
  <2>3. ReachableReview(Def, s) \in ReviewStates(Def) \cup {NoTarget}
    BY <2>2, ProjectAssumption, FirstStateOfIn DEF ReachableReview
  <2>4. FirstStateOf(Def, ReviewStates(Def)) \in ReviewStates(Def) \cup {NoTarget}
    BY <2>1, ProjectAssumption, FirstStateOfIn
  <2>5. FirstTerminal(Def) \in States(Def)
    BY ProjectAssumption, TerminalTargetIn, EdgeEnds
  <2>6. ChangesTarget(Def, s) \in States(Def) \cup {NoTarget}
    BY ProjectAssumption, LookupsIn
  <2> QED  BY <2>1, <2>3, <2>4, <2>5, <2>6
<1>2. CASE op = "prMerged"
  <2>1. to = MergedTarget(s)
    BY <1>2 DEF WebhookTarget
  <2>2. IF Mode = "AUTONOMOUS" THEN to = FirstTerminal(Def)
        ELSE ~IsReview(Def, s) /\ to \in ReviewStates(Def)
    BY <1>1, <2>1 DEF MergedTarget
  <2> QED  BY <1>1, <1>2, <2>2, BoardAt, BoardStates, BoardTargets DEF Board!ReportTarget
<1>3. CASE op = "changesRequested"
  <2>1. IsReview(Def, s) /\ to = ChangesTarget(Def, s)
    BY <1>3 DEF WebhookTarget
  <2> QED  BY <1>1, <1>3, <2>1, BoardAt, BoardStates, BoardTargets DEF Board!ReportTarget
<1>4. CASE op = "issueClosed"
  <2>1. to = FirstTerminal(Def)
    BY <1>4 DEF WebhookTarget
  <2> QED  BY <1>1, <1>4, <2>1, BoardAt, BoardStates, BoardTargets DEF Board!ReportTarget
<1> QED  BY <1>2, <1>3, <1>4 DEF WebhookOps

LEMMA WebhookWriteMoves ==
    ASSUME TypeOK, Decisions, NEW r \in Requests, WebhookWrite(r)
    PROVE  BoardMoves
<1> DEFINE q == req[r]  t == q.task  old == row[t]
           new == Drop(SetStatus(old, q.to), q.clear)
<1>1. /\ q # Idle /\ q.op \in WebhookOps /\ pull' = pull
      /\ \/ row' = row
         \/ SameStatusVersion(t, q.snap) /\ row' = [row EXCEPT ![t] = new]
  BY DEF WebhookWrite
<1>2. /\ q \in Busy /\ t \in Tasks /\ Decided(q) /\ old \in Row
      /\ q.to \in Statuses(Def) /\ (Recording(q) => pull[t] # "open")
  BY <1>1, RunningDecided, Running
<1>3. CASE row' = row
  BY <1>1, <1>3, BoardSame DEF BoardMoves
<1>4. CASE SameStatusVersion(t, q.snap) /\ row' = [row EXCEPT ![t] = new]
  <2>1. /\ q.op \in Ops \cap WebhookOps
        /\ ~IsTerminal(Def, old.status) /\ old.status # Backlog
        /\ q.to = WebhookTarget(q.op, old.status) /\ q.to # NoTarget
        /\ q.clear = TerminalClear(q.to)
    BY <1>1, <1>2, <1>4 DEF Decided, WebhookDecision, SameStatusVersion
  <2>2. Board!ReportTarget(t, q.op, q.to) /\ q.to \in Board!States(Def)
    BY <1>1, <1>2, <2>1, ReportIs DEF Recording
  <2>3. OnBoard(new) = Board!To(BoardTask[t], q.to, Board!EndClaims(q.to))
    BY <1>2, <2>1, SetShows, BoardAt, BoardClears
  <2>4. Board!Set(t, OnBoard(new))
    BY <1>1, <1>2, <1>4, BoardSets
  <2>5. /\ ~Board!IsTerminal(Def, BoardTask[t].status)
        /\ BoardTask[t].status # Board!Backlog
    BY <1>2, <2>1, BoardAt, BoardStates
  <2> HIDE DEF new
  <2>6. Board!Event(t)
    BY <2>1, <2>2, <2>3, <2>4, <2>5, Zenon DEF Board!Event
  <2> QED  BY <1>2, <2>6 DEF BoardMoves
<1> QED  BY <1>1, <1>3, <1>4

-----------------------------------------------------------------------------
(* Everything else shows nothing on the board but a merge.                 *)

LEMMA PullMoves ==
    ASSUME TypeOK, NEW t \in Tasks, NEW p, p # "open",
           \A u \in Tasks : OnBoard(row'[u]) = OnBoard(row[u]),
           pull' = pull \/ pull' = [pull EXCEPT ![t] = p]
    PROVE  BoardMoves
<1>1. BoardTask' = BoardTask
  BY DEF BoardTask
<1>2. CASE pull' = pull
  BY <1>2, BoardSame DEF BoardMoves
<1>3. CASE pull' = [pull EXCEPT ![t] = p] /\ pull[t] # "open"
  <2>1. BoardMerged' = BoardMerged
    BY <1>3 DEF BoardMerged, TypeOK
  <2> QED  BY <1>1, <2>1, Zenon DEF BoardMoves, Board!vars
<1>4. CASE pull' = [pull EXCEPT ![t] = p] /\ pull[t] = "open"
  <2>1. BoardMerged' = [BoardMerged EXCEPT ![t] = TRUE]
    BY <1>4 DEF BoardMerged, TypeOK
  <2>2. ~BoardMerged[t]
    BY <1>4 DEF BoardMerged
  <2>3. Board!PullMerged(t)
    BY <1>1, <2>1, <2>2, Zenon DEF Board!PullMerged
  <2> QED  BY <2>3 DEF BoardMoves
<1> QED  BY <1>2, <1>3, <1>4

LEMMA GithubMoves ==
    ASSUME TypeOK, NEW r \in Requests,
           \/ GithubMerges(r) \/ GithubAlreadyMerged(r) \/ GithubRefuses(r)
           \/ GithubCheckFails(r) \/ GithubUnknown(r)
    PROVE  BoardMoves
<1> DEFINE t == req[r].task
           p == IF pull[t] = "open" THEN "merged" ELSE pull[t]
           l == IF row[t].lock = r THEN Gone ELSE row[t].lock
<1>1. req[r] # Idle /\ t \in Tasks /\ row[t] \in Row
  BY Running DEF GithubMerges, GithubAlreadyMerged, GithubRefuses, GithubCheckFails,
                 GithubUnknown, At
<1>2. row' = row \/ row' = [row EXCEPT ![t] = [row[t] EXCEPT !.lock = l]]
  BY DEF GithubMerges, GithubAlreadyMerged, GithubRefuses, GithubCheckFails,
         GithubUnknown, Orphan
<1>3. pull' = pull \/ pull' = [pull EXCEPT ![t] = p]
  BY DEF GithubMerges, GithubAlreadyMerged, GithubRefuses, GithubCheckFails, GithubUnknown
<1>4. p # "open"
  OBVIOUS
<1> HIDE DEF p, l
<1>5. \A u \in Tasks : OnBoard(row'[u]) = OnBoard(row[u])
  <2>1. OnBoard([row[t] EXCEPT !.lock = l]) = OnBoard(row[t])
    BY <1>1, LockShows
  <2>2. CASE row' = [row EXCEPT ![t] = [row[t] EXCEPT !.lock = l]]
    <3> DEFINE new == [row[t] EXCEPT !.lock = l]
    <3> HIDE DEF new
    <3>1. row' = [row EXCEPT ![t] = new] /\ OnBoard(new) = OnBoard(row[t])
      BY <2>1, <2>2 DEF new
    <3> QED  BY <3>1 DEF TypeOK
  <2> QED  BY <1>2, <2>2
<1> QED  BY <1>1, <1>3, <1>4, <1>5, PullMoves

\* Reservations are not on the board.
LEMMA LockMoves ==
    ASSUME TypeOK, NEW t \in Tasks, NEW l, pull' = pull,
           row' = row \/ row' = [row EXCEPT ![t] = [row[t] EXCEPT !.lock = l]]
    PROVE  BoardMoves
<1> DEFINE new == [row[t] EXCEPT !.lock = l]
<1>1. row[t] \in Row
  BY DEF TypeOK
<1>2. OnBoard(new) = OnBoard(row[t])
  BY <1>1, LockShows
<1> HIDE DEF new
<1>3. \A u \in Tasks : OnBoard(row'[u]) = OnBoard(row[u])
  BY <1>2 DEF TypeOK, new
<1> QED  BY <1>3, BoardSame DEF BoardMoves

LEMMA QuietMoves ==
    ASSUME TypeOK, NEW r \in Requests,
           Reserve(r) \/ Reread(r) \/ RereadResult(r) \/ Release(r) \/ Crash(r)
    PROVE  BoardMoves
<1> DEFINE t == req[r].task
<1>1. req[r] # Idle /\ t \in Tasks /\ pull' = pull
  BY Running DEF Reserve, Reread, RereadResult, Release, Crash, At
<1>2. CASE Reserve(r)
  <2>1. row' = row \/ row' = [row EXCEPT ![t] = [row[t] EXCEPT !.lock = r]]
    BY <1>2 DEF Reserve
  <2> QED  BY <1>1, <2>1, LockMoves
<1>3. CASE Reread(r) \/ RereadResult(r)
  <2>1. row' = row
    BY <1>3 DEF Reread, RereadResult
  <2> QED  BY <1>1, <2>1, BoardSame DEF BoardMoves
<1>4. CASE Release(r)
  <2> DEFINE l == IF row[t].lock = r THEN NoRequest ELSE row[t].lock
  <2>1. row' = [row EXCEPT ![t] = [row[t] EXCEPT !.lock = l]]
    BY <1>4 DEF Release
  <2> HIDE DEF l
  <2> QED  BY <1>1, <2>1, LockMoves
<1>5. CASE Crash(r)
  <2> DEFINE l == IF row[t].lock = r THEN Gone ELSE row[t].lock
  <2>1. row' = [row EXCEPT ![t] = [row[t] EXCEPT !.lock = l]]
    BY <1>5 DEF Crash, Orphan
  <2> HIDE DEF l
  <2> QED  BY <1>1, <2>1, LockMoves
<1> QED  BY <1>2, <1>3, <1>4, <1>5

LEMMA EnvironmentMoves ==
    ASSUME TypeOK, NEW t \in Tasks, Lapse(t) \/ ExternalMerge(t) \/ PatchResult(t)
    PROVE  BoardMoves
<1>1. row[t] \in Row
  BY DEF TypeOK
<1>2. CASE Lapse(t)
  <2>1. pull' = pull /\ row' = [row EXCEPT ![t] = [row[t] EXCEPT !.lock = NoRequest]]
    BY <1>2 DEF Lapse
  <2> QED  BY <2>1, LockMoves
<1>3. CASE ExternalMerge(t)
  <2>1. row' = row /\ pull' = [pull EXCEPT ![t] = "merged"]
    BY <1>3 DEF ExternalMerge
  <2> QED  BY <2>1, PullMoves
<1>4. CASE PatchResult(t)
  <2>1. PICK by : row' = [row EXCEPT ![t] = [row[t] EXCEPT !.result = by]]
    BY <1>4 DEF PatchResult
  <2> DEFINE new == [row[t] EXCEPT !.result = by]
  <2>2. OnBoard(new) = OnBoard(row[t])
    BY <1>1 DEF OnBoard, Row
  <2>3. pull' = pull
    BY <1>4 DEF PatchResult
  <2> HIDE DEF new
  <2>4. \A u \in Tasks : OnBoard(row'[u]) = OnBoard(row[u])
    BY <2>1, <2>2 DEF TypeOK, new
  <2> QED  BY <2>3, <2>4, BoardSame DEF BoardMoves
<1> QED  BY <1>2, <1>3, <1>4

\* The delivery of a merge is noticed when it is written.
LEMMA ReadMoves ==
    ASSUME TypeOK, NEW r \in Requests, NEW t \in Tasks,
           \/ Begins(r, t)
           \/ \E op \in WebhookOps : WebhookRead(r, op, t)
    PROVE  BoardMoves
<1>1. CASE Begins(r, t)
  <2>1. row' = row /\ pull' = pull
    BY <1>1 DEF Begins, Begin
  <2> QED  BY <2>1, BoardSame DEF BoardMoves
<1>2. ASSUME NEW op \in WebhookOps, WebhookRead(r, op, t)
      PROVE  BoardMoves
  <2>1. /\ row' = row
        /\ pull' = pull \/ pull' = [pull EXCEPT ![t] = "delivered"]
    BY <1>2 DEF WebhookRead
  <2> QED  BY <2>1, PullMoves
<1> QED  BY <1>1, <1>2

LEMMA NextMoves ==
    ASSUME TypeOK, Decisions, Next
    PROVE  BoardMoves
<1>1. ASSUME NEW r \in Requests, NEW a \in Actors, NEW t \in Tasks,
             ClaimReads(r, a, t) \/ StatusReads(r, a, t)
      PROVE  BoardMoves
  BY <1>1, ClaimReadsBegin, StatusReadsBegin, ReadMoves
<1>2. ASSUME NEW r \in Requests, Writes(r)
      PROVE  BoardMoves
  BY <1>2, ClaimWriteMoves, ReviewClaimWriteMoves, ReleaseWriteMoves, GivingUpMoves,
     AdminReleaseMoves, ReassignMoves, OffBoardMoves, StatusWriteMoves,
     WebhookWriteMoves DEF Writes
<1>3. ASSUME NEW r \in Requests, MergeSteps(r) \/ Crash(r)
      PROVE  BoardMoves
  BY <1>3, GithubMoves, QuietMoves, MergedWriteMoves DEF MergeSteps
<1> QED  BY <1>1, <1>2, <1>3, ReadMoves, EnvironmentMoves DEF Next, FreeSlots

LEMMA MovesAreBoardSteps ==
    ASSUME BoardMoves
    PROVE  [Board!Next]_(Board!vars)
BY Zenon DEF BoardMoves, Board!Next

\* The first rows show a fresh board.
LEMMA InitIsBoard ==
    ASSUME Init
    PROVE  Board!Init
<1> DEFINE First == [status : {Def.initial, Board!Backlog}, work : {NoActor},
                     review : {NoActor}]
<1>1. ASSUME NEW t \in Tasks PROVE BoardTask[t] \in First
  <2>1. /\ row[t].status \in {Def.initial, Backlog}
        /\ row[t].work = NoActor /\ row[t].review = NoActor
    BY DEF Init
  <2> QED  BY <2>1, BoardStates DEF BoardTask, OnBoard
<1> HIDE DEF First
<1>2. BoardTask \in [Tasks -> First]
  BY <1>1 DEF BoardTask
<1>3. BoardMerged = [t \in Tasks |-> FALSE]
  BY DEF Init, BoardMerged
<1> QED  BY <1>2, <1>3, Zenon DEF Board!Init, First

\* Every step of the handlers, the webhooks and their environment, from a state
\* their decisions fit, is one atomic operation of the board or does not show.
THEOREM StepsAreAtomic == Spec => StepsAtomic
<1>1. TypeOK /\ Decisions /\ [Next]_vars => [Board!Next]_(Board!vars)
  <2>1. CASE Next
    BY <2>1, NextMoves, MovesAreBoardSteps
  <2>2. CASE UNCHANGED vars
    BY <2>2, BoardSame DEF vars
  <2> QED  BY <2>1, <2>2
<1> QED  BY <1>1, TypeCorrect, DecisionsHold, PTL DEF Spec, StepsAtomic

\* The handlers implement the board, for any number of tasks, actors and
\* requests that run at the same time, any workflow and any governance mode.
THEOREM HandlersImplementBoard == Spec => HandlersAtomic
<1>1. Init => Board!Init
  BY InitIsBoard
<1>2. Spec => [][Board!Next]_(Board!vars)
  BY StepsAreAtomic DEF StepsAtomic
<1> QED  BY <1>1, <1>2, PTL DEF Spec, HandlersAtomic, Board!Spec

-----------------------------------------------------------------------------
(***************************************************************************)
(* Part two: which statuses and claims a task may be left in, who may take *)
(* a claim away, and that what a merge was decided on stands until it is   *)
(* recorded. The first promises need the board only: what no atomic        *)
(* operation does, no interleaving of handlers does. The rest looks at the *)
(* requests and uses the decisions they carry.                             *)
(***************************************************************************)

(* What the board implies. An operation changes the columns of one task,   *)
(* and the statuses and claims it may leave behind are few.                *)

Lessens(c, d) == d.work \in {c.work, NoActor} /\ d.review \in {c.review, NoActor}

Unheld(c) == c.work = NoActor /\ c.review = NoActor

\* A claim is gained: by the start of work, by the start of a review, or from
\* its holder.
Gains(c, d) ==
    \/ c.status = Def.initial /\ d.status = StartTarget(Def) /\ d.review = c.review
    \/ IsReview(Def, c.status) /\ d.status = c.status /\ d.work = c.work
    \/ d.status = c.status /\ c.work # NoActor /\ d.review = c.review
    \/ d.status = c.status /\ c.review # NoActor /\ d.work = c.work

\* Work is given up, and the task goes back to the start.
Returns(c, d) ==
    /\ c.work # NoActor /\ d.status = Def.initial
    /\ d.work = NoActor /\ (IsReview(Def, c.status) => d.review = NoActor)

\* Off the board, on it, or from one to the other side of it.
Leaves(c, d) ==
    /\ c.status \in {Def.initial, Backlog, Abandoned}
    /\ d.status \in {Def.initial, Backlog, Abandoned}
    /\ d.work = c.work /\ d.review = c.review
    /\ Unheld(c) \/ c.status = Backlog

Goes(c, d) ==
    /\ d.status \in States(Def)
    /\ IsTerminal(Def, c.status)
          => IsTerminal(Def, d.status) \/ HasEdge(Def, c.status, d.status)
    /\ IsTerminal(Def, d.status) =>
          /\ d.work = NoActor \/ IsTerminal(Def, c.status)
          /\ \/ d.review = NoActor \/ IsTerminal(Def, c.status)
             \/ /\ InWork(c.status)
                /\ Mode = "AUTONOMOUS" \/ d.status = FinishTarget(Def, c.status)
    /\ IsReview(Def, c.status) =>
          \/ d.review = NoActor \/ d.status = c.status
          \/ "changesRequested" \in Ops

Change(c, d) ==
    \/ Gains(c, d)
    \/ /\ Lessens(c, d)
       /\ d.status = c.status \/ Returns(c, d) \/ Leaves(c, d) \/ Goes(c, d)

ColumnsStep ==
    \/ BoardTask' = BoardTask
    \/ \E t \in Tasks : \E d :
          BoardTask' = [BoardTask EXCEPT ![t] = d] /\ Change(BoardTask[t], d)

LEMMA SetChanges ==
    ASSUME NEW t \in Tasks, NEW d, Board!Set(t, d), Change(BoardTask[t], d)
    PROVE  ColumnsStep
BY Zenon DEF ColumnsStep, Board!Set

LEMMA ColsFields ==
    ASSUME NEW t \in Tasks, NEW s, NEW clear
    PROVE  LET c == BoardTask[t]  d == Board!To(c, s, clear) IN
           /\ d.status = s
           /\ d.work = IF "work" \in clear THEN NoActor ELSE c.work
           /\ d.review = IF "review" \in clear THEN NoActor ELSE c.review
           /\ Lessens(c, d)
<1> DEFINE c == BoardTask[t]
<1>1. c = Cols(c.status, c.work, c.review)
  BY BoardAt, ShowsRow
<1>2. Board!To(c, s, clear) = Cols(s, IF "work" \in clear THEN NoActor ELSE c.work,
                                      IF "review" \in clear THEN NoActor ELSE c.review)
  BY <1>1, ColsTo
<1> HIDE DEF c
<1> QED  BY <1>2 DEF Cols, Lessens, c

LEMMA StatusFieldsOnly ==
    ASSUME NEW t \in Tasks, NEW s
    PROVE  LET c == BoardTask[t]  d == [c EXCEPT !.status = s] IN
           d.status = s /\ d.work = c.work /\ d.review = c.review /\ Lessens(c, d)
<1>1. BoardTask[t] = OnBoard(row[t])
  BY BoardAt
<1> QED  BY <1>1 DEF OnBoard, Lessens

\* Facts about the statuses an operation names.
LEMMA StatusFacts ==
    /\ Def.initial \in States(Def) /\ Def.initial = "open"
    /\ FirstTerminal(Def) \in States(Def) /\ IsTerminal(Def, FirstTerminal(Def))
    /\ \A s : /\ TerminalTarget(Def, s) \in States(Def)
              /\ IsTerminal(Def, TerminalTarget(Def, s))
    /\ \A s : IsReview(Def, s) => s \in States(Def) /\ ~IsTerminal(Def, s)
    /\ ~IsTerminal(Def, Def.initial) /\ ~IsReview(Def, Def.initial)
    /\ ~IsTerminal(Def, Backlog) /\ ~IsTerminal(Def, Abandoned)
    /\ ~IsReview(Def, Backlog) /\ ~IsReview(Def, Abandoned)
    /\ \A s : ChangesTarget(Def, s) \in States(Def) \cup {NoTarget}
<1>1. WellFormed(Def)
  BY ProjectAssumption
<1>2. /\ Def.initial \in States(Def) /\ Def.initial = "open"
      /\ ~IsTerminal(Def, Def.initial)
      /\ Def.terminal \subseteq States(Def)
      /\ States(Def) \cap {Backlog, Abandoned, NoTarget} = {}
  BY <1>1 DEF WellFormed, IsTerminal
<1>3. FirstTerminal(Def) \in States(Def) /\ IsTerminal(Def, FirstTerminal(Def))
  BY <1>1, <1>2, TerminalTargetIn DEF IsTerminal
<1>4. \A s : /\ TerminalTarget(Def, s) \in States(Def)
             /\ IsTerminal(Def, TerminalTarget(Def, s))
  BY <1>1, TerminalTargetIn, TerminalTargetEnds
<1>5. \A s : IsReview(Def, s) => s \in States(Def) /\ ~IsTerminal(Def, s)
                                 /\ s # Def.initial /\ s # Backlog /\ s # Abandoned
  BY ReviewIsState
<1>6. \A s : ChangesTarget(Def, s) \in States(Def) \cup {NoTarget}
  BY <1>1, LookupsIn
<1> QED  BY <1>2, <1>3, <1>4, <1>5, <1>6 DEF IsTerminal

LEMMA ClaimChanges ==
    ASSUME NEW a \in Actors, NEW t \in Tasks,
           Board!Claim(a, t) \/ Board!TakeReview(a, t) \/ Board!Reassign(a, t)
    PROVE  ColumnsStep
<1> DEFINE c == BoardTask[t]
<1>1. c = Cols(c.status, c.work, c.review)
  BY BoardAt, ShowsRow
<1>2. CASE Board!Claim(a, t)
  <2> DEFINE d == [c EXCEPT !.status = Board!StartTarget(Def), !.work = a]
  <2>1. Board!Set(t, d) /\ c.status = Def.initial
    BY <1>2 DEF Board!Claim
  <2>2. d.status = StartTarget(Def) /\ d.review = c.review
    <3>1. c = OnBoard(row[t])
      BY BoardAt
    <3> QED  BY <3>1, BoardTargets DEF OnBoard
  <2> HIDE DEF d, c
  <2>3. Change(c, d)
    BY <2>1, <2>2 DEF Change, Gains
  <2> QED  BY <2>1, <2>3, SetChanges DEF c
<1>3. CASE Board!TakeReview(a, t)
  <2> DEFINE d == [c EXCEPT !.review = a]
  <2>1. Board!Set(t, d) /\ IsReview(Def, c.status)
    BY <1>3, BoardStates DEF Board!TakeReview
  <2>2. d.status = c.status /\ d.work = c.work
    <3>1. c = OnBoard(row[t])
      BY BoardAt
    <3> QED  BY <3>1 DEF OnBoard
  <2> HIDE DEF d, c
  <2>3. Change(c, d)
    BY <2>1, <2>2 DEF Change, Gains
  <2> QED  BY <2>1, <2>3, SetChanges DEF c
<1>4. CASE Board!Reassign(a, t)
  <2>1. PICK h \in {"work", "review"}, b \in Actors :
           c[h] \notin {NoActor, b} /\ Board!Set(t, [c EXCEPT ![h] = b])
    BY <1>4 DEF Board!Reassign, Board!Both
  <2> DEFINE d == [c EXCEPT ![h] = b]
  <2>2. /\ d.status = c.status
        /\ h = "work" => d.review = c.review
        /\ h = "review" => d.work = c.work
    <3>1. c = OnBoard(row[t])
      BY BoardAt
    <3> QED  BY <3>1 DEF OnBoard
  <2>3. Board!Set(t, d) /\ c[h] # NoActor
    BY <2>1
  <2> HIDE DEF d, c
  <2>4. Change(c, d)
    BY <2>1, <2>2, <2>3 DEF Change, Gains
  <2> QED  BY <2>3, <2>4, SetChanges DEF c
<1> QED  BY <1>2, <1>3, <1>4

LEMMA GiveUpChanges ==
    ASSUME NEW a \in Actors, NEW t \in Tasks,
           \/ Board!Release(a, t) \/ Board!GiveUp(a, t) \/ Board!AdminRelease(a, t)
    PROVE  ColumnsStep
<1> DEFINE c == BoardTask[t]
<1>1. a # NoActor
  BY ActorsAssumption
<1>2. CASE Board!Release(a, t)
  <2> DEFINE d == Board!To(c, Def.initial, {"work"})
  <2>1. Board!Set(t, d) /\ c.work = a /\ ~IsReview(Def, c.status)
    BY <1>2, BoardStates DEF Board!Release
  <2>2. Lessens(c, d) /\ d.status = Def.initial /\ d.work = NoActor
    BY ColsFields
  <2> HIDE DEF d, c
  <2>3. Change(c, d)
    BY <1>1, <2>1, <2>2 DEF Change, Returns
  <2> QED  BY <2>1, <2>3, SetChanges DEF c
<1>3. CASE Board!GiveUp(a, t)
  <2>1. PICK claims \in (SUBSET Board!Both) \ {{}} :
           /\ \A h \in claims : c[h] = a
           /\ claims = {"work"} => ~Board!IsReview(Def, c.status)
           /\ Board!Set(t, Board!To(c, IF "work" \in claims
                                          /\ Board!IsWork(Def, c.status)
                                       THEN Def.initial ELSE c.status, claims))
    BY <1>3 DEF Board!GiveUp
  <2> DEFINE s == IF "work" \in claims /\ Board!IsWork(Def, c.status)
                  THEN Def.initial ELSE c.status
             d == Board!To(c, s, claims)
  <2>2. /\ d.status = s /\ Lessens(c, d)
        /\ "work" \in claims => d.work = NoActor
        /\ "review" \in claims => d.review = NoActor
    BY ColsFields
  <2>3. Board!Set(t, d)
    BY <2>1
  <2>4. "work" \in claims => c.work = a
    BY <2>1
  <2>5. "work" \in claims => "review" \in claims \/ claims = {"work"}
    BY <2>1 DEF Board!Both
  <2> HIDE DEF d, c
  <2>6. Change(c, d)
    BY <1>1, <2>1, <2>2, <2>4, <2>5, BoardStates DEF Change, Returns
  <2> QED  BY <2>3, <2>6, SetChanges DEF c
<1>4. CASE Board!AdminRelease(a, t)
  <2>1. PICK claims : Board!Set(t, Board!Without(c, claims))
    BY <1>4 DEF Board!AdminRelease
  <2> DEFINE d == Board!Without(c, claims)
  <2>2. c = Cols(c.status, c.work, c.review)
    BY BoardAt, ShowsRow
  <2>3. d = Cols(c.status, IF "work" \in claims THEN NoActor ELSE c.work,
                           IF "review" \in claims THEN NoActor ELSE c.review)
    BY <2>2, ColsWithout
  <2>4. Board!Set(t, d)
    BY <2>1
  <2> HIDE DEF d, c
  <2>5. Change(c, d)
    BY <2>3 DEF Change, Lessens, Cols
  <2> QED  BY <2>4, <2>5, SetChanges DEF c
<1> QED  BY <1>2, <1>3, <1>4

LEMMA LeaveChanges ==
    ASSUME NEW a \in Actors, NEW t \in Tasks,
           \/ Board!CreatorAbandon(a, t) \/ Board!Demote(a, t)
           \/ Board!Restore(a, t) \/ Board!Triage(a, t)
    PROVE  ColumnsStep
<1> DEFINE c == BoardTask[t]
<1>1. PICK s \in {Def.initial, Backlog, Abandoned} :
         /\ Board!Set(t, [c EXCEPT !.status = s])
         /\ c.status \in {Def.initial, Backlog, Abandoned}
         /\ Board!Free(c) \/ c.status = Backlog
  BY BoardStates, StatusFacts
  DEF Board!CreatorAbandon, Board!Demote, Board!Restore, Board!Triage
<1> DEFINE d == [c EXCEPT !.status = s]
<1>2. d.status = s /\ d.work = c.work /\ d.review = c.review /\ Lessens(c, d)
  BY StatusFieldsOnly
<1>3. Board!Set(t, d)
  BY <1>1
<1> HIDE DEF d, c
<1>4. Change(c, d)
  BY <1>1, <1>2 DEF Change, Leaves, Unheld, Board!Free
<1> QED  BY <1>3, <1>4, SetChanges DEF c

\* An operation that drops claims and goes to a state of the workflow.
LEMMA GoChanges ==
    ASSUME NEW t \in Tasks, NEW s \in States(Def), NEW claims,
           Board!Set(t, Board!To(BoardTask[t], s, claims)),
           IsTerminal(Def, BoardTask[t].status)
              => IsTerminal(Def, s) \/ HasEdge(Def, BoardTask[t].status, s),
           IsTerminal(Def, s) /\ ~IsTerminal(Def, BoardTask[t].status) =>
              /\ "work" \in claims
              /\ \/ "review" \in claims
                 \/ /\ InWork(BoardTask[t].status)
                    /\ Mode = "AUTONOMOUS" \/ s = FinishTarget(Def, BoardTask[t].status),
           IsReview(Def, BoardTask[t].status) =>
              \/ "review" \in claims \/ s = BoardTask[t].status
              \/ "changesRequested" \in Ops
    PROVE  ColumnsStep
<1> DEFINE c == BoardTask[t]
           d == Board!To(c, s, claims)
<1>1. /\ d.status = s /\ Lessens(c, d)
      /\ "work" \in claims => d.work = NoActor
      /\ "review" \in claims => d.review = NoActor
  BY ColsFields
<1> HIDE DEF d
<1>2. Goes(c, d)
  BY <1>1 DEF Goes
<1>3. Change(c, d)
  BY <1>1, <1>2 DEF Change
<1> QED  BY <1>3, SetChanges DEF d

LEMMA ClearFacts ==
    /\ \A s : IsTerminal(Def, s) => TerminalClear(s) = Claims
    /\ "work" \in Claims /\ "review" \in Claims
    /\ \A c, s : /\ IsTerminal(Def, s) => ClearOnMove(c, s) = Claims
                 /\ IsReview(Def, c) /\ s # c => "review" \in ClearOnMove(c, s)
BY DEF TerminalClear, Claims, ClearOnMove

LEMMA MoveChanges ==
    ASSUME NEW a \in Actors, NEW t \in Tasks,
           Board!Follow(a, t) \/ Board!Judge(a, t) \/ Board!EndMerged(a, t)
    PROVE  ColumnsStep
<1> DEFINE c == BoardTask[t]
<1>1. CASE Board!Follow(a, t)
  <2>1. PICK s \in States(Def) :
           /\ HasEdge(Def, c.status, s)
           /\ Board!Set(t, Board!To(c, s, ClearOnMove(c.status, s)))
    BY <1>1, BoardStates, BoardClears, BoardAt DEF Board!Follow
  <2> QED  BY <2>1, ClearFacts, GoChanges
<1>2. CASE Board!Judge(a, t)
  <2>1. PICK s \in {TerminalTarget(Def, c.status), ChangesTarget(Def, c.status),
                    c.status} \ {NoTarget} :
           Board!Set(t, Board!To(c, s, {"review"} \cup TerminalClear(s)))
    BY <1>2, BoardStates, BoardTargets, BoardClears DEF Board!Judge
  <2>2. IsReview(Def, c.status)
    BY <1>2, BoardStates DEF Board!Judge
  <2>3. s \in States(Def)
    BY <2>1, <2>2, StatusFacts
  <2> QED  BY <2>1, <2>2, <2>3, StatusFacts, ClearFacts, GoChanges
<1>3. CASE Board!EndMerged(a, t)
  <2>1. PICK s \in {TerminalTarget(Def, c.status), FirstTerminal(Def)} :
           Board!Set(t, Board!To(c, s, Claims))
    BY <1>3, BoardTargets DEF Board!EndMerged, Board!Both, Claims
  <2>2. s \in States(Def) /\ IsTerminal(Def, s)
    BY <2>1, StatusFacts
  <2> QED  BY <2>1, <2>2, ClearFacts, GoChanges
<1> QED  BY <1>1, <1>2, <1>3

LEMMA WorkChanges ==
    ASSUME NEW a \in Actors, NEW t \in Tasks,
           Board!Advance(a, t) \/ Board!Finish(a, t) \/ Board!Repair(a, t)
    PROVE  ColumnsStep
<1> DEFINE c == BoardTask[t]
<1>1. InWork(c.status) /\ ~IsReview(Def, c.status) /\ ~IsTerminal(Def, c.status)
  BY BoardStates DEF Board!Advance, Board!Finish, Board!Repair, Board!InWork, InWork,
                     IsWork
<1>2. CASE Board!Advance(a, t)
  <2>1. PICK s \in AdvanceTargets(Def, c.status) :
           Board!Set(t, [c EXCEPT !.status = s])
    BY <1>2, BoardTargets DEF Board!Advance
  <2> DEFINE d == [c EXCEPT !.status = s]
  <2>2. d.status = s /\ Lessens(c, d)
    BY StatusFieldsOnly
  <2>3. s \in States(Def) /\ ~IsTerminal(Def, s)
    BY <2>1 DEF AdvanceTargets, IsWork
  <2>4. Board!Set(t, d)
    BY <2>1
  <2> HIDE DEF d, c
  <2>5. Change(c, d)
    BY <1>1, <2>2, <2>3 DEF Change, Goes
  <2> QED  BY <2>4, <2>5, SetChanges DEF c
<1>3. CASE Board!Finish(a, t)
  <2>1. PICK s : /\ HasEdge(Def, c.status, s)
                 /\ s # FinishTarget(Def, c.status) => Mode = "AUTONOMOUS"
                 /\ Board!Set(t, Board!To(c, s, TerminalClear(s) \ {"review"}))
    BY <1>3, BoardStates, BoardTargets, BoardClears DEF Board!Finish
  <2>2. s \in States(Def)
    BY <2>1, ProjectAssumption, EdgeIn
  <2>3. IsTerminal(Def, s) => "work" \in TerminalClear(s) \ {"review"}
    BY ClearFacts
  <2> QED  BY <1>1, <2>1, <2>2, <2>3, GoChanges
<1>4. CASE Board!Repair(a, t)
  <2>1. Board!Set(t, Board!To(c, TerminalTarget(Def, c.status), Claims))
    BY <1>4, BoardTargets DEF Board!Repair, Board!Both, Claims
  <2> QED  BY <1>1, <2>1, StatusFacts, ClearFacts, GoChanges
<1> QED  BY <1>2, <1>3, <1>4

LEMMA OutsideChanges ==
    ASSUME NEW t \in Tasks,
           Board!PullMerged(t) \/ Board!Settle(t) \/ Board!Event(t)
    PROVE  ColumnsStep
<1> DEFINE c == BoardTask[t]
<1>1. CASE Board!PullMerged(t)
  BY <1>1 DEF Board!PullMerged, ColumnsStep
<1>2. CASE Board!Settle(t)
  <2>1. PICK s \in {c.status, FirstTerminal(Def)} :
           \E claims : Board!Set(t, Board!To(c, s, claims))
    BY <1>2, BoardTargets DEF Board!Settle
  <2>2. IsTerminal(Def, c.status)
    BY <1>2, BoardStates DEF Board!Settle
  <2>3. s \in States(Def) /\ IsTerminal(Def, s) /\ ~IsReview(Def, c.status)
    <3>1. Def.terminal \subseteq States(Def)
      BY ProjectAssumption, EdgeEnds
    <3> QED  BY <2>1, <2>2, <3>1, StatusFacts DEF IsTerminal
  <2> QED  BY <2>1, <2>2, <2>3, GoChanges
<1>3. CASE Board!Event(t)
  <2>1. PICK report \in Ops \cap WebhookOps, s \in States(Def) :
           /\ Board!ReportTarget(t, report, s)
           /\ Board!Set(t, Board!To(c, s, TerminalClear(s)))
    BY <1>3, BoardStates, BoardClears DEF Board!Event
  <2>2. ~IsTerminal(Def, c.status)
    BY <1>3, BoardStates DEF Board!Event
  <2>3. IsTerminal(Def, s) => "work" \in TerminalClear(s) /\ "review" \in TerminalClear(s)
    BY ClearFacts
  <2>4. IsReview(Def, c.status) => \/ "review" \in TerminalClear(s)
                                   \/ "changesRequested" \in Ops
    <3>1. CASE report = "changesRequested"
      BY <2>1, <3>1
    <3>2. CASE report # "changesRequested"
      <4>1. IsReview(Def, c.status) => s = FirstTerminal(Def)
        BY <2>1, <3>2, BoardStates, BoardTargets DEF Board!ReportTarget
      <4> QED  BY <2>3, <4>1, StatusFacts
    <3> QED  BY <3>1, <3>2
  <2> QED  BY <2>1, <2>2, <2>3, <2>4, GoChanges
<1> QED  BY <1>1, <1>2, <1>3

LEMMA BoardChanges ==
    ASSUME BoardMoves
    PROVE  ColumnsStep
<1>1. ASSUME NEW a \in Actors, NEW t \in Tasks, Board!Operation(a, t)
      PROVE  ColumnsStep
  BY <1>1, ClaimChanges, GiveUpChanges, LeaveChanges, MoveChanges, WorkChanges
  DEF Board!Operation
<1>2. CASE UNCHANGED Board!vars
  BY <1>2 DEF Board!vars, ColumnsStep
<1> QED  BY <1>1, <1>2, OutsideChanges DEF BoardMoves

\* A step of the handlers leaves the claims and the status of every task as an
\* operation of the board may leave them.
RowsChange ==
    \/ \A u \in Tasks : OnBoard(row'[u]) = OnBoard(row[u])
    \/ \E t \in Tasks :
          /\ Change(row[t], row'[t])
          /\ \A u \in Tasks \ {t} : OnBoard(row'[u]) = OnBoard(row[u])

LEMMA ChangeFields ==
    ASSUME NEW c, NEW d, NEW x, NEW y, Change(c, d),
           x.status = c.status, x.work = c.work, x.review = c.review,
           y.status = d.status, y.work = d.work, y.review = d.review
    PROVE  Change(x, y)
BY DEF Change, Gains, Returns, Leaves, Goes, Lessens, Unheld

LEMMA StepChanges ==
    ASSUME TypeOK, Decisions, [Next]_vars
    PROVE  RowsChange
<1>1. ColumnsStep
  <2>1. CASE Next
    BY <2>1, NextMoves, BoardChanges
  <2>2. CASE UNCHANGED vars
    BY <2>2, Zenon DEF vars, BoardTask, ColumnsStep
  <2> QED  BY <2>1, <2>2
<1>2. \A u \in Tasks : /\ BoardTask[u] = OnBoard(row[u])
                       /\ BoardTask'[u] = OnBoard(row'[u])
  BY DEF BoardTask
<1>3. \A rw : /\ OnBoard(rw).status = rw.status
              /\ OnBoard(rw).work = rw.work
              /\ OnBoard(rw).review = rw.review
  BY DEF OnBoard
<1>4. CASE BoardTask' = BoardTask
  BY <1>2, <1>4 DEF RowsChange
<1>5. CASE BoardTask' # BoardTask
  <2>1. PICK t \in Tasks :
           \E d : BoardTask' = [BoardTask EXCEPT ![t] = d] /\ Change(BoardTask[t], d)
    BY <1>1, <1>5 DEF ColumnsStep
  <2>2. PICK d : BoardTask' = [BoardTask EXCEPT ![t] = d] /\ Change(BoardTask[t], d)
    BY <2>1
  <2>3. t \in DOMAIN BoardTask
    BY DEF BoardTask
  <2>4. BoardTask'[t] = d /\ \A u \in Tasks \ {t} : BoardTask'[u] = BoardTask[u]
    BY <2>2, <2>3
  <2>5. OnBoard(row'[t]) = d /\ OnBoard(row[t]) = BoardTask[t]
    BY <1>2, <2>4
  <2>6. Change(row[t], row'[t])
    <3>1. /\ row[t].status = BoardTask[t].status
          /\ row[t].work = BoardTask[t].work
          /\ row[t].review = BoardTask[t].review
          /\ row'[t].status = d.status
          /\ row'[t].work = d.work
          /\ row'[t].review = d.review
      BY <1>3, <2>5
    <3> QED  BY <2>2, <3>1, ChangeFields
  <2>7. \A u \in Tasks \ {t} : OnBoard(row'[u]) = OnBoard(row[u])
    BY <1>2, <2>4
  <2> QED  BY <2>6, <2>7 DEF RowsChange
<1> QED  BY <1>4, <1>5

\* An invariant of the columns of one task holds of all behaviours when no
\* change breaks it; this is the step of each of the theorems below.
LEMMA OnBoardSame ==
    ASSUME NEW x, NEW y, OnBoard(x) = OnBoard(y)
    PROVE  x.status = y.status /\ x.work = y.work /\ x.review = y.review
BY DEF OnBoard

LEMMA OffBoardChange ==
    ASSUME NEW c, NEW d, Change(c, d),
           c.status \in {Backlog, Abandoned} => Unheld(c),
           d.status \in {Backlog, Abandoned}
    PROVE  Unheld(d)
<1>1. StartTarget(Def) \in States(Def) \cup {NoTarget}
  BY ProjectAssumption, FirstEdgeToIn DEF StartTarget, EdgesFrom
<1>2. d.status \notin States(Def) \cup {NoTarget}
  BY ProjectAssumption DEF WellFormed, Backlog, Abandoned, NoTarget
<1>3. Def.initial \in States(Def) /\ \A s : IsReview(Def, s) => s \in States(Def)
  BY StatusFacts
<1> QED  BY <1>1, <1>2, <1>3 DEF Change, Gains, Returns, Leaves, Goes, Lessens, Unheld

\* A backlog or abandoned task has no claim, however claiming a task and
\* taking it off the board race.
THEOREM OffBoardFree == Spec => []OffBoardUnclaimed
<1>1. Init => OffBoardUnclaimed
  BY DEF Init, OffBoardUnclaimed, NoClaims
<1>2. TypeOK /\ Decisions /\ OffBoardUnclaimed /\ [Next]_vars => OffBoardUnclaimed'
  <2> SUFFICES ASSUME TypeOK, Decisions, OffBoardUnclaimed, [Next]_vars,
                      NEW t \in Tasks, row'[t].status \in {Backlog, Abandoned}
               PROVE  Unheld(row'[t])
    BY DEF OffBoardUnclaimed, NoClaims, Unheld
  <2>1. row[t].status \in {Backlog, Abandoned} => Unheld(row[t])
    BY DEF OffBoardUnclaimed, NoClaims, Unheld
  <2>2. CASE OnBoard(row'[t]) = OnBoard(row[t])
    BY <2>1, <2>2, OnBoardSame DEF Unheld
  <2>3. CASE OnBoard(row'[t]) # OnBoard(row[t])
    <3>1. Change(row[t], row'[t])
      BY <2>3, StepChanges DEF RowsChange
    <3> QED  BY <2>1, <3>1, OffBoardChange
  <2> QED  BY <2>2, <2>3
<1> QED  BY <1>1, <1>2, TypeCorrect, DecisionsHold, PTL DEF Spec

-----------------------------------------------------------------------------
(* Finished tasks. If the first edge out of the initial state led into a   *)
(* terminal one, a claim would finish the task it takes, and its release   *)
(* would reopen it; no workflow of the repository is like that, but its    *)
(* schema accepts one.                                                     *)

StartsWork == ~IsTerminal(Def, StartTarget(Def))

FinishedUnworked == \A t \in Tasks : IsTerminal(Def, row[t].status) => row[t].work = NoActor

LEMMA UnworkedChange ==
    ASSUME StartsWork, NEW c, NEW d, Change(c, d),
           IsTerminal(Def, c.status) => c.work = NoActor
    PROVE  /\ IsTerminal(Def, d.status) => d.work = NoActor
           /\ IsTerminal(Def, c.status) /\ ~IsTerminal(Def, d.status)
                 => HasEdge(Def, c.status, d.status)
<1>1. /\ ~IsTerminal(Def, Def.initial) /\ ~IsTerminal(Def, Backlog)
      /\ ~IsTerminal(Def, Abandoned)
      /\ \A s : IsReview(Def, s) => ~IsTerminal(Def, s)
  BY StatusFacts
<1>2. CASE Gains(c, d)
  BY <1>1, <1>2 DEF Gains, StartsWork
<1>3. CASE Lessens(c, d) /\ (d.status = c.status \/ Returns(c, d) \/ Leaves(c, d))
  BY <1>1, <1>3 DEF Lessens, Returns, Leaves
<1>4. CASE Lessens(c, d) /\ Goes(c, d)
  BY <1>4 DEF Lessens, Goes
<1> QED  BY <1>2, <1>3, <1>4 DEF Change

\* A finished task has no work claim, whoever held it when the task finished.
LEMMA FinishedWork ==
    ASSUME StartsWork
    PROVE  Spec => []FinishedUnworked
<1>1. Init => FinishedUnworked
  BY DEF Init, FinishedUnworked
<1>2. TypeOK /\ Decisions /\ FinishedUnworked /\ [Next]_vars => FinishedUnworked'
  <2> SUFFICES ASSUME TypeOK, Decisions, FinishedUnworked, [Next]_vars, NEW t \in Tasks
               PROVE  IsTerminal(Def, row'[t].status) => row'[t].work = NoActor
    BY DEF FinishedUnworked
  <2>1. CASE OnBoard(row'[t]) = OnBoard(row[t])
    BY <2>1, OnBoardSame DEF FinishedUnworked
  <2>2. CASE OnBoard(row'[t]) # OnBoard(row[t])
    <3>1. Change(row[t], row'[t])
      BY <2>2, StepChanges DEF RowsChange
    <3> QED  BY <3>1, UnworkedChange DEF FinishedUnworked
  <2> QED  BY <2>1, <2>2
<1> QED  BY <1>1, <1>2, TypeCorrect, DecisionsHold, PTL DEF Spec

\* A finished task is reopened only along an edge of its workflow: a release,
\* an abandonment or a webhook decided before it finished never reopens it.
THEOREM TerminalStays ==
    ASSUME StartsWork
    PROVE  Spec => TerminalIsFinal
<1>1. TypeOK /\ Decisions /\ FinishedUnworked /\ [Next]_vars
         => [\A t \in Tasks :
                /\ IsTerminal(Def, row[t].status) /\ ~IsTerminal(Def, row'[t].status)
                => HasEdge(Def, row[t].status, row'[t].status)]_vars
  <2> SUFFICES ASSUME TypeOK, Decisions, FinishedUnworked, [Next]_vars,
                      NEW t \in Tasks, IsTerminal(Def, row[t].status),
                      ~IsTerminal(Def, row'[t].status)
               PROVE  HasEdge(Def, row[t].status, row'[t].status)
    OBVIOUS
  <2>1. OnBoard(row'[t]) # OnBoard(row[t])
    BY OnBoardSame
  <2>2. Change(row[t], row'[t])
    BY <2>1, StepChanges DEF RowsChange
  <2> QED  BY <2>2, UnworkedChange DEF FinishedUnworked
<1> QED  BY <1>1, TypeCorrect, DecisionsHold, FinishedWork, PTL DEF Spec, TerminalIsFinal

-----------------------------------------------------------------------------
(* Review locks. A lock outlives the review in one way: a webhook that     *)
(* reports requested changes moves the task back to work and leaves it.    *)
(* Only a work finish could then end the task with the lock on it, and in  *)
(* a project with a review its target is the review, unless the project is *)
(* autonomous. There it does happen, so the theorem excludes it.           *)

LocksEnd == Mode # "AUTONOMOUS" \/ "changesRequested" \notin Ops

\* Without that webhook: a lock is held in review only.
LocksInReview == \A t \in Tasks : row[t].review # NoActor => IsReview(Def, row[t].status)

LEMMA InReviewChange ==
    ASSUME "changesRequested" \notin Ops, NEW c, NEW d, Change(c, d),
           c.review # NoActor => IsReview(Def, c.status)
    PROVE  d.review # NoActor => IsReview(Def, d.status)
<1>1. /\ ~IsReview(Def, Def.initial) /\ ~IsReview(Def, Backlog)
      /\ ~IsReview(Def, Abandoned)
  BY StatusFacts
<1>2. CASE Gains(c, d)
  BY <1>1, <1>2 DEF Gains
<1>3. CASE Lessens(c, d) /\ (d.status = c.status \/ Returns(c, d) \/ Leaves(c, d))
  BY <1>1, <1>3 DEF Lessens, Returns, Leaves, Unheld
<1>4. CASE Lessens(c, d) /\ Goes(c, d)
  BY <1>4 DEF Lessens, Goes
<1> QED  BY <1>2, <1>3, <1>4 DEF Change

\* Outside autonomous projects: a lock needs a review state to be taken in, and
\* with one no work finish ends a task.
LocksOpen ==
    \A t \in Tasks : row[t].review # NoActor =>
        ReviewStates(Def) # {} /\ ~IsTerminal(Def, row[t].status)

LEMMA FinishIsReview ==
    ASSUME ReviewStates(Def) # {}, NEW s
    PROVE  ~IsTerminal(Def, FinishTarget(Def, s))
<1>1. ReviewStates(Def) \subseteq States(Def)
  BY DEF ReviewStates
<1>2. FirstStateOf(Def, ReviewStates(Def)) \in ReviewStates(Def)
  BY <1>1, FirstStateOfIn, ProjectAssumption
<1>3. ReachableReview(Def, s) \in ReviewStates(Def) \cup {NoTarget}
  BY <1>1, FirstStateOfIn, ProjectAssumption DEF ReachableReview
<1>4. FinishTarget(Def, s) \in ReviewStates(Def)
  BY <1>2, <1>3 DEF FinishTarget, ExpectedFinish
<1> QED  BY <1>4, StatusFacts DEF ReviewStates

LEMMA OpenChange ==
    ASSUME StartsWork, Mode # "AUTONOMOUS", NEW c, NEW d, Change(c, d),
           c.review # NoActor => ReviewStates(Def) # {} /\ ~IsTerminal(Def, c.status),
           d.review # NoActor
    PROVE  ReviewStates(Def) # {} /\ ~IsTerminal(Def, d.status)
<1>1. /\ ~IsTerminal(Def, Def.initial) /\ ~IsTerminal(Def, Backlog)
      /\ ~IsTerminal(Def, Abandoned)
      /\ \A s : IsReview(Def, s) => ~IsTerminal(Def, s) /\ s \in ReviewStates(Def)
  BY StatusFacts DEF ReviewStates
<1>2. CASE Gains(c, d)
  BY <1>1, <1>2 DEF Gains, StartsWork
<1>3. CASE Lessens(c, d) /\ (d.status = c.status \/ Returns(c, d) \/ Leaves(c, d))
  BY <1>1, <1>3 DEF Lessens, Returns, Leaves
<1>4. CASE Lessens(c, d) /\ Goes(c, d)
  BY <1>4, FinishIsReview DEF Lessens, Goes
<1> QED  BY <1>2, <1>3, <1>4 DEF Change

LEMMA LocksReview ==
    ASSUME "changesRequested" \notin Ops
    PROVE  Spec => []LocksInReview
<1>1. Init => LocksInReview
  BY DEF Init, LocksInReview
<1>2. TypeOK /\ Decisions /\ LocksInReview /\ [Next]_vars => LocksInReview'
  <2> SUFFICES ASSUME TypeOK, Decisions, LocksInReview, [Next]_vars, NEW t \in Tasks
               PROVE  row'[t].review # NoActor => IsReview(Def, row'[t].status)
    BY DEF LocksInReview
  <2>1. CASE OnBoard(row'[t]) = OnBoard(row[t])
    BY <2>1, OnBoardSame DEF LocksInReview
  <2>2. CASE OnBoard(row'[t]) # OnBoard(row[t])
    <3>1. Change(row[t], row'[t])
      BY <2>2, StepChanges DEF RowsChange
    <3> QED  BY <3>1, InReviewChange DEF LocksInReview
  <2> QED  BY <2>1, <2>2
<1> QED  BY <1>1, <1>2, TypeCorrect, DecisionsHold, PTL DEF Spec

LEMMA LocksStayOpen ==
    ASSUME StartsWork, Mode # "AUTONOMOUS"
    PROVE  Spec => []LocksOpen
<1>1. Init => LocksOpen
  BY DEF Init, LocksOpen
<1>2. TypeOK /\ Decisions /\ LocksOpen /\ [Next]_vars => LocksOpen'
  <2> SUFFICES ASSUME TypeOK, Decisions, LocksOpen, [Next]_vars, NEW t \in Tasks,
                      row'[t].review # NoActor
               PROVE  ReviewStates(Def) # {} /\ ~IsTerminal(Def, row'[t].status)
    BY DEF LocksOpen
  <2>1. CASE OnBoard(row'[t]) = OnBoard(row[t])
    BY <2>1, OnBoardSame DEF LocksOpen
  <2>2. CASE OnBoard(row'[t]) # OnBoard(row[t])
    <3>1. Change(row[t], row'[t])
      BY <2>2, StepChanges DEF RowsChange
    <3> QED  BY <3>1, OpenChange DEF LocksOpen
  <2> QED  BY <2>1, <2>2
<1> QED  BY <1>1, <1>2, TypeCorrect, DecisionsHold, PTL DEF Spec

\* A finished task has no work claim and no review lock, whichever handler,
\* merge or webhook finished it and whatever raced with it.
THEOREM TerminalFree ==
    ASSUME StartsWork, LocksEnd
    PROVE  Spec => []TerminalUnclaimed
<1>1. CASE Mode # "AUTONOMOUS"
  <2>1. FinishedUnworked /\ LocksOpen => TerminalUnclaimed
    BY DEF FinishedUnworked, LocksOpen, TerminalUnclaimed, NoClaims
  <2> QED  BY <1>1, <2>1, FinishedWork, LocksStayOpen, PTL
<1>2. CASE "changesRequested" \notin Ops
  <2>1. FinishedUnworked /\ LocksInReview => TerminalUnclaimed
    BY StatusFacts DEF FinishedUnworked, LocksInReview, TerminalUnclaimed, NoClaims
  <2> QED  BY <1>2, <2>1, FinishedWork, LocksReview, PTL
<1> QED  BY <1>1, <1>2 DEF LocksEnd

-----------------------------------------------------------------------------
(* Reservations. A live reservation belongs to a request that runs and     *)
(* works on that task; and from the reservation to the write that records  *)
(* the merge the row is the one the handler has read, or a webhook has     *)
(* moved it on. The rest of this part shows that no other step reaches     *)
(* such a row: every writer but a webhook looks for the reservation.       *)

OwnersRun ==
    \A t \in Tasks : row[t].lock \in Requests =>
        LET q == req[row[t].lock] IN
        q # Idle /\ q.task = t /\ q.op \in {"merge", "status"} /\ q.pc # "reserve"

\* A webhook has moved the task on since it looked like s: it left the claims
\* alone, or it finished the task and dropped them.
MovedOn(t, s) ==
    /\ row[t].version > s.version /\ ~IsTerminal(Def, s.status)
    /\ \/ row[t].work = s.work /\ row[t].review = s.review
       \/ IsTerminal(Def, row[t].status) /\ Unclaimed(t)

ReservedRows ==
    \A t \in Tasks, r \in Requests :
        Merging(r, t) /\ req[r].pc \in {"call", "record"}
        => Unchanged(t, req[r].snap) \/ MovedOn(t, req[r].snap)

Reserved == OwnersRun /\ ReservedRows

HoldsNone(r) == \A t \in Tasks : row[t].lock # r

LEMMA ReservesNone ==
    ASSUME OwnersRun, NEW r \in Requests,
           \/ req[r] = Idle
           \/ req[r].op \notin {"merge", "status"}
           \/ req[r].pc = "reserve"
    PROVE  HoldsNone(r)
BY DEF OwnersRun, HoldsNone

\* A request moves on without a write: it holds no reservation, or it keeps it
\* for the same task.
LEMMA RequestKeeps ==
    ASSUME TypeOK, Reserved, NEW r \in Requests, NEW p,
           row' = row, req' = [req EXCEPT ![r] = p],
           \/ HoldsNone(r)
           \/ /\ p # Idle /\ p.task = req[r].task
              /\ p.op \in {"merge", "status"} /\ p.pc # "reserve"
              /\ p.pc \in {"call", "record"} =>
                    req[r] # Idle /\ req[r].pc = "call" /\ p.snap = req[r].snap
    PROVE  Reserved'
<1>1. /\ req'[r] = p
      /\ \A q \in Requests \ {r} : req'[q] = req[q]
  BY DEF TypeOK
<1>2. OwnersRun'
  <2> SUFFICES ASSUME NEW t \in Tasks, row[t].lock \in Requests
               PROVE  LET q == req'[row[t].lock] IN
                      /\ q # Idle /\ q.task = t
                      /\ q.op \in {"merge", "status"} /\ q.pc # "reserve"
    BY DEF OwnersRun, Idle
  <2> QED  BY <1>1 DEF Reserved, OwnersRun, HoldsNone
<1>3. ReservedRows'
  <2> SUFFICES ASSUME NEW t \in Tasks, NEW q \in Requests,
                      Merging(q, t)', req'[q].pc \in {"call", "record"}
               PROVE  Unchanged(t, req'[q].snap) \/ MovedOn(t, req'[q].snap)
    BY DEF ReservedRows, Unchanged, Seen, MovedOn, Unclaimed
  <2>1. row[t].lock = q /\ req'[q] # Idle /\ req'[q].task = t
    BY DEF Merging, Idle
  <2>2. CASE q = r
    <3>1. /\ req[r] # Idle /\ req[r].pc = "call" /\ p.snap = req[r].snap
          /\ req[r].task = t
      BY <1>1, <2>1, <2>2 DEF HoldsNone
    <3> QED  BY <1>1, <2>1, <2>2, <3>1 DEF Reserved, ReservedRows, Merging
  <2>3. CASE q # r
    BY <1>1, <2>1, <2>3 DEF Reserved, ReservedRows, Merging
  <2> QED  BY <2>2, <2>3
<1> QED  BY <1>2, <1>3 DEF Reserved

SameColumns(new, t) ==
    /\ new.status = row[t].status /\ new.version = row[t].version
    /\ new.work = row[t].work /\ new.review = row[t].review

WebhookColumns(new, t) ==
    /\ new.version = row[t].version + 1 /\ ~IsTerminal(Def, row[t].status)
    /\ \/ new.work = row[t].work /\ new.review = row[t].review
       \/ IsTerminal(Def, new.status) /\ new.work = NoActor /\ new.review = NoActor

\* A row is written: without a reservation on it, or by one who ends it, or in
\* one of the two ways that do not look for it.
LEMMA RowKeeps ==
    ASSUME TypeOK, Reserved, NEW t \in Tasks, NEW new,
           row' = [row EXCEPT ![t] = new],
           \/ req' = req
           \/ \E r \in Requests : /\ req' = [req EXCEPT ![r] = Idle]
                                  /\ req[r] # Idle /\ req[r].task = t
                                  /\ new.lock # r,
           \/ new.lock \notin Requests
           \/ /\ new.lock = row[t].lock
              /\ SameColumns(new, t) \/ WebhookColumns(new, t)
    PROVE  Reserved'
<1>1. /\ row'[t] = new
      /\ \A u \in Tasks \ {t} : row'[u] = row[u]
  BY DEF TypeOK
<1>2. \A u \in Tasks, q \in Requests : row'[u].lock = q =>
          req'[q] = req[q] /\ row[u].lock = q
  <2> SUFFICES ASSUME NEW u \in Tasks, NEW q \in Requests, row'[u].lock = q
               PROVE  req'[q] = req[q] /\ row[u].lock = q
    OBVIOUS
  <2>1. row[u].lock = q
    BY <1>1
  <2>2. ASSUME NEW r \in Requests, req' = [req EXCEPT ![r] = Idle],
               req[r].task = t, new.lock # r
        PROVE  req'[q] = req[q]
    <3>1. q # r
      BY <1>1, <2>1, <2>2 DEF Reserved, OwnersRun
    <3> QED  BY <2>2, <3>1 DEF TypeOK
  <2> QED  BY <2>1, <2>2
<1>3. OwnersRun'
  <2> SUFFICES ASSUME NEW u \in Tasks, row'[u].lock \in Requests
               PROVE  LET q == req'[row'[u].lock] IN
                      /\ q # Idle /\ q.task = u
                      /\ q.op \in {"merge", "status"} /\ q.pc # "reserve"
    BY DEF OwnersRun, Idle
  <2> QED  BY <1>2 DEF Reserved, OwnersRun
<1>4. ReservedRows'
  <2> SUFFICES ASSUME NEW u \in Tasks, NEW q \in Requests,
                      Merging(q, u)', req'[q].pc \in {"call", "record"}
               PROVE  (Unchanged(u, req[q].snap) \/ MovedOn(u, req[q].snap))'
    BY DEF ReservedRows
  <2> DEFINE s == req[q].snap
  <2>1. req'[q] = req[q] /\ Merging(q, u) /\ row'[u].lock = q
    BY <1>2 DEF Merging, Idle
  <2>2. Unchanged(u, s) \/ MovedOn(u, s)
    BY <2>1 DEF Reserved, ReservedRows
  <2>3. s.version \in Nat /\ row[u].version \in Nat
    <3>1. req[q] \in Busy /\ row[u] \in Row
      BY <2>1, Running DEF TypeOK, Merging
    <3> QED  BY <3>1 DEF Busy, Snap, Row
  <2>4. CASE u # t
    <3>1. row'[u] = row[u]
      BY <1>1, <2>4
    <3> QED  BY <2>1, <2>2, <3>1 DEF Unchanged, Seen, MovedOn, Unclaimed
  <2>5. CASE u = t /\ SameColumns(new, t)
    <3>1. /\ row'[u].status = row[u].status /\ row'[u].version = row[u].version
          /\ row'[u].work = row[u].work /\ row'[u].review = row[u].review
      BY <1>1, <2>5 DEF SameColumns
    <3> QED  BY <2>1, <2>2, <3>1 DEF Unchanged, Seen, MovedOn, Unclaimed
  <2>6. CASE u = t /\ WebhookColumns(new, t)
    <3>1. /\ row'[u].version = row[u].version + 1 /\ ~IsTerminal(Def, row[u].status)
          /\ \/ row'[u].work = row[u].work /\ row'[u].review = row[u].review
             \/ /\ IsTerminal(Def, row'[u].status)
                /\ row'[u].work = NoActor /\ row'[u].review = NoActor
      BY <1>1, <2>6 DEF WebhookColumns
    <3>2. /\ s.version <= row[u].version /\ ~IsTerminal(Def, s.status)
          /\ row[u].work = s.work /\ row[u].review = s.review
      BY <2>2, <2>3, <3>1 DEF Unchanged, Seen, MovedOn
    <3>3. MovedOn(u, s)'
      BY <2>1, <2>3, <3>1, <3>2 DEF MovedOn, Unclaimed
    <3> QED  BY <2>1, <3>3
  <2> QED  BY <1>1, <2>1, <2>4, <2>5, <2>6
<1> QED  BY <1>3, <1>4 DEF Reserved

\* The writes of claims and of the statuses off the board.
LEMMA FencedKeeps ==
    ASSUME TypeOK, Reserved, NEW r \in Requests, req[r] # Idle,
           req[r].op \notin {"merge", "status"}, NEW cond, NEW new,
           WriteIf(r, cond, new),
           cond => NoLiveReservation(req[r].task)
                   /\ new.lock = row[req[r].task].lock
    PROVE  Reserved'
<1>1. req[r].task \in Tasks /\ HoldsNone(r)
  BY Running, ReservesNone DEF Reserved
<1>2. CASE cond
  <2>1. /\ row' = [row EXCEPT ![req[r].task] = new]
        /\ req' = [req EXCEPT ![r] = Idle]
        /\ new.lock = NoRequest
    BY <1>2 DEF WriteIf, End, NoLiveReservation
  <2>2. new.lock \notin Requests
    BY <2>1, RequestsAssumption
  <2> QED  BY <1>1, <2>1, <2>2, RowKeeps
<1>3. CASE ~cond
  <2>1. row' = row /\ req' = [req EXCEPT ![r] = Idle]
    BY <1>3 DEF WriteIf, End
  <2> QED  BY <1>1, <2>1, RequestKeeps
<1> QED  BY <1>2, <1>3

\* None of their rows has another reservation.
LEMMA LocksKept ==
    ASSUME TypeOK, NEW t \in Tasks, NEW s \in Statuses(Def), NEW clear
    PROVE  /\ SetStatus(row[t], s).lock = row[t].lock
           /\ Drop(row[t], clear).lock = row[t].lock
           /\ Drop(SetStatus(row[t], s), clear).lock = row[t].lock
           /\ \A c \in Claims : \A a : [row[t] EXCEPT ![c] = a].lock = row[t].lock
           /\ \A a : [SetStatus(row[t], s) EXCEPT !.work = a].lock = row[t].lock
<1>1. row[t] \in Row
  BY DEF TypeOK
<1>2. SetStatus(row[t], s) \in Row /\ SetStatus(row[t], s).lock = row[t].lock
  BY <1>1, SetStatusIs
<1>3. /\ Drop(row[t], clear).lock = row[t].lock
      /\ Drop(SetStatus(row[t], s), clear).lock = row[t].lock
  BY <1>1, <1>2, DropIs
<1>4. \A a : [SetStatus(row[t], s) EXCEPT !.work = a].lock = row[t].lock
  BY <1>2 DEF Row
<1>5. \A c \in Claims : \A a : [row[t] EXCEPT ![c] = a].lock = row[t].lock
  BY <1>1 DEF Row, Claims
<1> QED  BY <1>2, <1>3, <1>4, <1>5

LEMMA ClaimWritesKeep ==
    ASSUME TypeOK, Reserved, NEW r \in Requests,
           \/ ClaimWrite(r) \/ ReviewClaimWrite(r) \/ ReleaseWrite(r)
           \/ ReviewReleaseWrite(r) \/ AbandonWrite(r)
           \/ AdminReleaseWrite(r) \/ AdminReassignWrite(r)
           \/ CreatorAbandonWrite(r) \/ DemoteWrite(r) \/ UnabandonWrite(r)
    PROVE  Reserved'
<1> DEFINE q == req[r]  t == q.task
<1>1. req[r] # Idle /\ q.op \notin {"merge", "status"}
  BY DEF ClaimWrite, ReviewClaimWrite, ReleaseWrite, ReviewReleaseWrite, AbandonWrite,
         AdminReleaseWrite, AdminReassignWrite, CreatorAbandonWrite, DemoteWrite,
         UnabandonWrite, OffBoardWrite, At
<1>2. t \in Tasks /\ q.to \in Statuses(Def) /\ q.clear \in SUBSET Claims
  BY <1>1, Running
<1>3. \E cond, new : /\ WriteIf(r, cond, new)
                     /\ cond => NoLiveReservation(t) /\ new.lock = row[t].lock
  <2>1. CASE ClaimWrite(r)
    <3>1. [SetStatus(row[t], q.to) EXCEPT !.work = q.actor].lock = row[t].lock
      BY <1>2, LocksKept
    <3> QED  BY <2>1, <3>1, Zenon DEF ClaimWrite
  <2>2. CASE ReviewClaimWrite(r)
    <3>1. [row[t] EXCEPT !.review = q.actor].lock = row[t].lock
      BY <1>2, LocksKept DEF Claims
    <3> QED  BY <2>2, <3>1, Zenon DEF ReviewClaimWrite
  <2>3. CASE ReleaseWrite(r)
    <3>1. Drop(SetStatus(row[t], q.to), {"work"}).lock = row[t].lock
      BY <1>2, LocksKept
    <3> QED  BY <2>3, <3>1, Zenon DEF ReleaseWrite
  <2>4. CASE ReviewReleaseWrite(r)
    <3>1. Drop(row[t], {"review"}).lock = row[t].lock
      BY <1>2, LocksKept
    <3> QED  BY <2>4, <3>1, Zenon DEF ReviewReleaseWrite
  <2>5. CASE AbandonWrite(r)
    <3> DEFINE back == IF "work" \in q.clear /\ IsWork(Def, q.snap.status)
                       THEN SetStatus(row[t], q.to) ELSE row[t]
    <3>1. Drop(back, q.clear).lock = row[t].lock
      BY <1>2, LocksKept
    <3> QED  BY <2>5, <3>1, Zenon DEF AbandonWrite
  <2>6. CASE AdminReleaseWrite(r)
    <3> DEFINE gone == {c \in q.clear : row[t][c] = q.snap[c]}
    <3>1. WriteIf(r, NoLiveReservation(t), Drop(row[t], gone))
      BY <2>6 DEF AdminReleaseWrite
    <3> HIDE DEF gone
    <3>2. Drop(row[t], gone).lock = row[t].lock
      BY <1>2, LocksKept
    <3> QED  BY <3>1, <3>2, Zenon DEF NoLiveReservation
  <2>7. CASE AdminReassignWrite(r)
    <3>1. \A c \in q.clear : [row[t] EXCEPT ![c] = q.aim].lock = row[t].lock
      BY <1>2, LocksKept
    <3> QED  BY <2>7, <3>1, Zenon DEF AdminReassignWrite
  <2>8. CASE CreatorAbandonWrite(r) \/ DemoteWrite(r) \/ UnabandonWrite(r)
    <3>1. SetStatus(row[t], q.to).lock = row[t].lock
      BY <1>2, LocksKept
    <3> QED  BY <2>8, <3>1, Zenon DEF CreatorAbandonWrite, DemoteWrite, UnabandonWrite,
                                    OffBoardWrite
  <2> QED  BY <2>1, <2>2, <2>3, <2>4, <2>5, <2>6, <2>7, <2>8
<1> QED  BY <1>1, <1>3, FencedKeeps

LEMMA StatusWriteKeeps ==
    ASSUME TypeOK, Reserved, NEW r \in Requests, StatusWrite(r)
    PROVE  Reserved'
<1> DEFINE q == req[r]  t == q.task
           new == Store(Drop(SetStatus(row[t], q.to), q.clear), r, q.result)
<1>1. /\ q # Idle /\ q.op \in {"status", "forced"} /\ q \in Busy
      /\ t \in Tasks /\ q.to \in Statuses(Def) /\ row[t] \in Row
  BY Running DEF StatusWrite
<1>2. \/ row' = row
      \/ NoLiveReservation(t) /\ row' = [row EXCEPT ![t] = new]
  BY DEF StatusWrite
<1>3. CASE row[t].lock = r
  <2> DEFINE p == [q EXCEPT !.pc = "release"]
  <2>1. row' = row /\ Goto(r, "release")
    BY <1>2, <1>3, RequestsAssumption DEF StatusWrite, NoLiveReservation
  <2>2. req' = [req EXCEPT ![r] = p] /\ p \in Busy
    BY <1>1, <2>1, GotoIs
  <2>3. p.task = t /\ p.op = q.op /\ p.pc = "release" /\ p # Idle
    BY <1>1, <2>2, Parties DEF Busy
  <2>4. q.op = "status"
    BY <1>1, <1>3 DEF Reserved, OwnersRun
  <2> HIDE DEF p
  <2> QED  BY <2>1, <2>2, <2>3, <2>4, RequestKeeps
<1>4. CASE row[t].lock # r
  <2>1. req' = [req EXCEPT ![r] = Idle]
    BY <1>4 DEF StatusWrite, End
  <2>2. HoldsNone(r)
    BY <1>4 DEF Reserved, OwnersRun, HoldsNone
  <2>3. CASE row' = row
    BY <2>1, <2>2, <2>3, RequestKeeps
  <2>4. CASE NoLiveReservation(t) /\ row' = [row EXCEPT ![t] = new]
    <3> DEFINE gone == Drop(SetStatus(row[t], q.to), q.clear)
    <3>1. gone \in Row /\ gone.lock = row[t].lock
      BY <1>1, SetStatusIs, DropIs, LocksKept
    <3> HIDE DEF gone
    <3>2. new.lock = row[t].lock
      BY <3>1, StoreIs DEF gone
    <3>3. new.lock \notin Requests
      BY <2>4, <3>2, RequestsAssumption DEF NoLiveReservation
    <3> HIDE DEF new
    <3> QED  BY <1>1, <2>1, <2>4, <3>3, RowKeeps
  <2> QED  BY <1>2, <2>3, <2>4
<1> QED  BY <1>3, <1>4

\* A webhook takes the row on whatever reservation is on it.
LEMMA WebhookKeeps ==
    ASSUME TypeOK, Decisions, Reserved, NEW r \in Requests, WebhookWrite(r)
    PROVE  Reserved'
<1> DEFINE q == req[r]  t == q.task
           new == Drop(SetStatus(row[t], q.to), q.clear)
<1>1. /\ q # Idle /\ q.op \in WebhookOps /\ q \in Busy /\ Decided(q)
      /\ t \in Tasks /\ q.to \in Statuses(Def) /\ row[t] \in Row
  BY Running, RunningDecided DEF WebhookWrite
<1>2. HoldsNone(r)
  BY <1>1, ReservesNone DEF WebhookOps, Reserved
<1>3. CASE row' = row
  <2>1. \E p : req' = [req EXCEPT ![r] = p]
    BY DEF WebhookWrite, End
  <2> QED  BY <1>2, <1>3, <2>1, RequestKeeps
<1>4. CASE /\ SameStatusVersion(t, q.snap) /\ End(r)
           /\ row' = [row EXCEPT ![t] = new]
  <2>1. ~IsTerminal(Def, row[t].status) /\ q.clear = TerminalClear(q.to)
    BY <1>1, <1>4 DEF Decided, WebhookDecision, SameStatusVersion
  <2> DEFINE set == SetStatus(row[t], q.to)
  <2>2. /\ set \in Row /\ set.status = q.to /\ set.version = row[t].version + 1
        /\ set.work = row[t].work /\ set.review = row[t].review
    BY <1>1, SetStatusIs
  <2> HIDE DEF set
  <2>3. new.status = q.to /\ new.version = row[t].version + 1 /\ new.lock = row[t].lock
    BY <1>1, <2>2, DropIs, LocksKept DEF set
  <2>4. \/ new.work = row[t].work /\ new.review = row[t].review
        \/ IsTerminal(Def, q.to) /\ new.work = NoActor /\ new.review = NoActor
    <3>1. /\ new.work = IF "work" \in q.clear THEN NoActor ELSE set.work
          /\ new.review = IF "review" \in q.clear THEN NoActor ELSE set.review
      BY <2>2 DEF Drop, Row, set
    <3> QED  BY <2>1, <2>2, <3>1 DEF TerminalClear, Claims
  <2>5. WebhookColumns(new, t)
    BY <2>1, <2>3, <2>4 DEF WebhookColumns
  <2>6. new.lock # r
    BY <1>1, <1>2, <2>3 DEF HoldsNone
  <2> HIDE DEF new
  <2> QED  BY <1>1, <1>4, <2>3, <2>5, <2>6, RowKeeps DEF End
<1> QED  BY <1>3, <1>4 DEF WebhookWrite

\* A handler reserves the row it has read.
LEMMA ReserveKeeps ==
    ASSUME TypeOK, Reserved, NEW r \in Requests, Reserve(r)
    PROVE  Reserved'
<1> DEFINE q == req[r]  t == q.task
           p == [q EXCEPT !.pc = "call"]
           new == [row[t] EXCEPT !.lock = r]
<1>1. /\ q # Idle /\ q.op = "merge" /\ q.pc = "reserve"
      /\ q \in Busy /\ t \in Tasks /\ row[t] \in Row
  BY Running DEF Reserve, At
<1>2. HoldsNone(r)
  BY <1>1, ReservesNone DEF Reserved
<1>3. CASE row' = row /\ End(r)
  BY <1>2, <1>3, RequestKeeps DEF End
<1>4. CASE /\ Unchanged(t, q.snap) /\ NoLiveReservation(t)
           /\ row' = [row EXCEPT ![t] = new] /\ Goto(r, "call")
  <2>1. req' = [req EXCEPT ![r] = p] /\ p \in Busy
    BY <1>1, <1>4, GotoIs
  <2>2. p.task = t /\ p.op = "merge" /\ p.pc = "call" /\ p.snap = q.snap /\ p # Idle
    BY <1>1, <2>1, Parties DEF Busy
  <2>3. new.lock = r /\ SameColumns(new, t)
    BY <1>1 DEF SameColumns, Row
  <2> HIDE DEF p, new
  <2>4. /\ req'[r] = p /\ \A x \in Requests \ {r} : req'[x] = req[x]
        /\ row'[t] = new /\ \A u \in Tasks \ {t} : row'[u] = row[u]
    BY <1>1, <1>4, <2>1 DEF TypeOK
  <2>5. OwnersRun'
    <3> SUFFICES ASSUME NEW u \in Tasks, row'[u].lock \in Requests
                 PROVE  LET x == req'[row'[u].lock] IN
                        /\ x # Idle /\ x.task = u
                        /\ x.op \in {"merge", "status"} /\ x.pc # "reserve"
      BY DEF OwnersRun, Idle
    <3>1. CASE u = t
      BY <2>2, <2>3, <2>4, <3>1
    <3>2. CASE u # t
      BY <1>2, <2>4, <3>2 DEF Reserved, OwnersRun, HoldsNone
    <3> QED  BY <3>1, <3>2
  <2>6. ReservedRows'
    <3> SUFFICES ASSUME NEW u \in Tasks, NEW x \in Requests,
                        Merging(x, u)', req'[x].pc \in {"call", "record"}
                 PROVE  (Unchanged(u, req[x].snap) \/ MovedOn(u, req[x].snap))'
      BY DEF ReservedRows
    <3>1. CASE u = t
      <4>1. x = r
        BY <2>3, <2>4, <3>1 DEF Merging
      <4>2. Unchanged(u, req[x].snap)'
        BY <1>4, <2>2, <2>3, <2>4, <3>1, <4>1 DEF Unchanged, Seen, SameColumns
      <4> QED  BY <4>2
    <3>2. CASE u # t
      <4>1. row'[u] = row[u] /\ x # r /\ req'[x] = req[x] /\ Merging(x, u)
        BY <1>2, <2>4, <3>2 DEF HoldsNone, Merging, Idle
      <4>2. Unchanged(u, req[x].snap) \/ MovedOn(u, req[x].snap)
        BY <4>1 DEF Reserved, ReservedRows
      <4> QED  BY <4>1, <4>2 DEF Unchanged, Seen, MovedOn, Unclaimed
    <3> QED  BY <3>1, <3>2
  <2> QED  BY <2>5, <2>6 DEF Reserved
<1>5. Reserve(r) => <1>3!1 \/ <1>4!1
  BY Zenon DEF Reserve
<1> QED  BY <1>3, <1>4, <1>5

LEMMA ReadsKeep ==
    ASSUME TypeOK, Reserved, NEW r \in Requests, NEW t \in Tasks,
           \/ Begins(r, t)
           \/ \E op \in WebhookOps : WebhookRead(r, op, t)
    PROVE  Reserved'
<1>1. req[r] = Idle /\ row' = row /\ \E p : req' = [req EXCEPT ![r] = p]
  BY Zenon DEF Begins, Begin, WebhookRead
<1>2. HoldsNone(r)
  BY <1>1, ReservesNone DEF Reserved
<1> QED  BY <1>1, <1>2, RequestKeeps

\* A step to pc that writes no row.
LEMMA GotoKeeps ==
    ASSUME TypeOK, Reserved, NEW r \in Requests, req[r] # Idle, row' = row,
           NEW pc \in {"release", "reread", "reread2"}, Goto(r, pc),
           req[r].op \in {"merge", "status"}
    PROVE  Reserved'
<1> DEFINE q == req[r]
           p == [q EXCEPT !.pc = pc]
<1>1. req' = [req EXCEPT ![r] = p] /\ p \in Busy /\ q \in Busy
  BY GotoIs, Running
<1>2. p.task = q.task /\ p.op = q.op /\ p.pc = pc /\ p # Idle
  BY <1>1, Parties DEF Busy
<1> HIDE DEF p
<1> QED  BY <1>1, <1>2, RequestKeeps

LEMMA GithubKeeps ==
    ASSUME TypeOK, Reserved, NEW r \in Requests,
           \/ GithubMerges(r) \/ GithubAlreadyMerged(r) \/ GithubRefuses(r)
           \/ GithubCheckFails(r)
    PROVE  Reserved'
<1> DEFINE q == req[r]
<1>1. q # Idle /\ q.op = "merge" /\ q.pc = "call" /\ row' = row /\ q \in Busy
  BY Running DEF GithubMerges, GithubAlreadyMerged, GithubRefuses, GithubCheckFails, At
<1>2. ASSUME NEW p, req' = [req EXCEPT ![r] = p], p.task = q.task, p.snap = q.snap,
             p # Idle, p.op \in {"merge", "status"}, p.pc \in {"record", "write"}
      PROVE  Reserved'
  BY <1>1, <1>2, RequestKeeps
<1>3. ASSUME NEW sha, req' = [req EXCEPT ![r].pc = "record", ![r].sha = sha]
      PROVE  Reserved'
  <2> DEFINE p == [q EXCEPT !.pc = "record", !.sha = sha]
  <2>1. /\ p.task = q.task /\ p.snap = q.snap /\ p.op = "merge" /\ p.pc = "record"
        /\ p # Idle
    BY <1>1 DEF Busy, Idle
  <2>2. req' = [req EXCEPT ![r] = p]
    BY <1>3
  <2> HIDE DEF p
  <2> QED  BY <1>2, <2>1, <2>2
<1>4. CASE GithubMerges(r)
  <2> DEFINE sha == IF q.route = "github" THEN q.sha ELSE "set"
  <2>1. req' = [req EXCEPT ![r].pc = "record", ![r].sha = sha]
    BY <1>4 DEF GithubMerges
  <2> HIDE DEF sha
  <2> QED  BY <1>3, <2>1
<1>5. CASE GithubAlreadyMerged(r) /\ q.route # "finish"
  <2> DEFINE sha == IF q.route = "merge" THEN "null" ELSE q.sha
  <2>1. req' = [req EXCEPT ![r].pc = "record", ![r].sha = sha]
    BY <1>5 DEF GithubAlreadyMerged
  <2> HIDE DEF sha
  <2> QED  BY <1>3, <2>1
<1>6. CASE GithubAlreadyMerged(r) /\ q.route = "finish"
  <2> DEFINE p == [q EXCEPT !.pc = "write", !.op = "status"]
  <2>1. /\ p.task = q.task /\ p.snap = q.snap /\ p.op = "status" /\ p.pc = "write"
        /\ p # Idle
    BY <1>1 DEF Busy, Idle
  <2>2. req' = [req EXCEPT ![r] = p]
    BY <1>6 DEF GithubAlreadyMerged
  <2> HIDE DEF p
  <2> QED  BY <1>2, <2>1, <2>2
<1>7. CASE GithubRefuses(r) \/ GithubCheckFails(r)
  <2>1. Goto(r, "release")
    BY <1>7 DEF GithubRefuses, GithubCheckFails
  <2> QED  BY <1>1, <2>1, GotoKeeps
<1> QED  BY <1>4, <1>5, <1>6, <1>7

LEMMA RecordedLock ==
    ASSUME TypeOK, NEW r \in Requests, req[r] # Idle
    PROVE  Recorded(r).lock = NoRequest
<1> DEFINE q == req[r]
           gone == Drop(SetStatus(row[q.task], q.to), q.clear)
           sha == IF q.sha = "keep" THEN gone.sha ELSE q.sha = "set"
           rec == [gone EXCEPT !.lock = NoRequest, !.sha = sha]
<1>1. gone \in Row
  BY Running, SetStatusIs, DropIs
<1>2. Recorded(r) = Store(rec, r, q.result)
  BY DEF Recorded
<1> HIDE DEF gone
<1>3. sha \in BOOLEAN
  BY <1>1 DEF Row
<1>4. rec \in Row /\ rec.lock = NoRequest
  <2> HIDE DEF sha
  <2> QED  BY <1>1, <1>3 DEF Row, Party
<1> HIDE DEF rec
<1> QED  BY <1>2, <1>4, StoreIs

LEMMA MergedWriteKeeps ==
    ASSUME TypeOK, Reserved, NEW r \in Requests, RecordWrite(r) \/ RetryWrite(r)
    PROVE  Reserved'
<1> DEFINE t == req[r].task
<1>1. /\ req[r] # Idle /\ req[r].op = "merge"
      /\ \E cond : \E onLoss \in {"reread", "reread2", "release"} :
            MergedWrite(r, cond, onLoss)
  <2>1. req[r] # Idle /\ req[r].op = "merge"
    BY DEF RecordWrite, RetryWrite, At
  <2>2. CASE RecordWrite(r)
    <3>1. MergedWrite(r, TRUE, "reread")
      BY <2>2 DEF RecordWrite
    <3> QED  BY <2>1, <3>1
  <2>3. CASE RetryWrite(r)
    <3> DEFINE cond == req[r].result => row[t].result = NoRequest
               onLoss == IF req[r].result THEN "reread2" ELSE "release"
    <3>1. MergedWrite(r, cond, onLoss)
      BY <2>3 DEF RetryWrite
    <3>2. onLoss \in {"reread", "reread2", "release"}
      OBVIOUS
    <3> HIDE DEF cond, onLoss
    <3> QED  BY <2>1, <3>1, <3>2, Zenon
  <2> QED  BY <2>2, <2>3
<1>2. PICK onLoss \in {"reread", "reread2", "release"} :
         \/ row' = row /\ Goto(r, onLoss)
         \/ row' = [row EXCEPT ![t] = Recorded(r)] /\ End(r)
  BY <1>1 DEF MergedWrite
<1>3. CASE row' = row /\ Goto(r, onLoss)
  BY <1>1, <1>3, GotoKeeps
<1>4. CASE row' = [row EXCEPT ![t] = Recorded(r)] /\ End(r)
  <2>1. t \in Tasks /\ Recorded(r).lock \notin Requests /\ Recorded(r).lock # r
    BY <1>1, Running, RecordedLock, RequestsAssumption
  <2>2. req' = [req EXCEPT ![r] = Idle]
    BY <1>4 DEF End
  <2> QED  BY <1>1, <1>4, <2>1, <2>2, RowKeeps
<1> QED  BY <1>2, <1>3, <1>4

\* The snapshot of a completion is a new one, and so is its pc.
LEMMA RereadKeeps ==
    ASSUME TypeOK, Reserved, NEW r \in Requests, Reread(r) \/ RereadResult(r)
    PROVE  Reserved'
<1> DEFINE q == req[r]  t == q.task
<1>1. q # Idle /\ q.op = "merge" /\ q \in Busy /\ row' = row
  BY Running DEF Reread, RereadResult, At
<1>2. \/ Goto(r, "release")
      \/ \E flag : req' = [req EXCEPT ![r].pc = "retry", ![r].snap = Seen(t),
                                      ![r].result = flag]
  BY Zenon DEF Reread, RereadResult
<1>3. ASSUME NEW flag, req' = [req EXCEPT ![r].pc = "retry", ![r].snap = Seen(t),
                                          ![r].result = flag]
      PROVE  Reserved'
  <2> DEFINE p == [q EXCEPT !.pc = "retry", !.snap = Seen(t), !.result = flag]
  <2>1. p.task = t /\ p.op = "merge" /\ p.pc = "retry" /\ p # Idle
    BY <1>1 DEF Busy, Idle
  <2>2. req' = [req EXCEPT ![r] = p]
    BY <1>3
  <2> HIDE DEF p
  <2> QED  BY <1>1, <2>1, <2>2, RequestKeeps
<1> QED  BY <1>1, <1>2, <1>3, GotoKeeps

\* Letting go: by a release, a crash, an unknown outcome or the end of a lease.
LEMMA LettingGoKeeps ==
    ASSUME TypeOK, Reserved, NEW r \in Requests,
           GithubUnknown(r) \/ Release(r) \/ Crash(r)
    PROVE  Reserved'
<1> DEFINE t == req[r].task
<1>1. req[r] # Idle /\ t \in Tasks /\ row[t] \in Row /\ req' = [req EXCEPT ![r] = Idle]
  BY Running DEF GithubUnknown, Release, Crash, At, End
<1>2. PICK none \in {NoRequest, Gone} :
         row' = [row EXCEPT ![t].lock = IF row[t].lock = r THEN none ELSE row[t].lock]
  BY DEF GithubUnknown, Release, Crash, Orphan
<1> DEFINE l == IF row[t].lock = r THEN none ELSE row[t].lock
           new == [row[t] EXCEPT !.lock = l]
<1>3. l # r /\ (l \notin Requests \/ l = row[t].lock)
  BY RequestsAssumption
<1>4. row' = [row EXCEPT ![t] = new]
  BY <1>2
<1> HIDE DEF l
<1>5. new.lock = l /\ SameColumns(new, t)
  BY <1>1 DEF SameColumns, Row
<1> HIDE DEF new
<1> QED  BY <1>1, <1>3, <1>4, <1>5, RowKeeps

LEMMA EnvironmentKeeps ==
    ASSUME TypeOK, Reserved, NEW t \in Tasks, Lapse(t) \/ ExternalMerge(t) \/ PatchResult(t)
    PROVE  Reserved'
<1>1. row[t] \in Row /\ req' = req
  BY DEF TypeOK, Lapse, ExternalMerge, PatchResult
<1>2. CASE Lapse(t)
  <2> DEFINE new == [row[t] EXCEPT !.lock = NoRequest]
  <2>1. row' = [row EXCEPT ![t] = new] /\ new.lock \notin Requests
    BY <1>1, <1>2, RequestsAssumption DEF Lapse, Row
  <2> HIDE DEF new
  <2> QED  BY <1>1, <2>1, RowKeeps
<1>3. CASE ExternalMerge(t)
  BY <1>1, <1>3 DEF ExternalMerge, Reserved, OwnersRun, ReservedRows, Merging,
                    Unchanged, Seen, MovedOn, Unclaimed
<1>4. CASE PatchResult(t)
  <2>1. PICK by : row' = [row EXCEPT ![t] = [row[t] EXCEPT !.result = by]]
    BY <1>4 DEF PatchResult
  <2> DEFINE new == [row[t] EXCEPT !.result = by]
  <2>2. new.lock = row[t].lock /\ SameColumns(new, t)
    BY <1>1 DEF SameColumns, Row
  <2> HIDE DEF new
  <2>3. row' = [row EXCEPT ![t] = new]
    BY <2>1 DEF new
  <2> QED  BY <1>1, <2>2, <2>3, RowKeeps
<1> QED  BY <1>2, <1>3, <1>4

LEMMA ReservedKept ==
    ASSUME TypeOK, Decisions, Reserved, [Next]_vars
    PROVE  Reserved'
<1>1. ASSUME NEW r \in Requests, NEW a \in Actors, NEW t \in Tasks,
             ClaimReads(r, a, t) \/ StatusReads(r, a, t)
      PROVE  Reserved'
  BY <1>1, ClaimReadsBegin, StatusReadsBegin, ReadsKeep
<1>2. ASSUME NEW r \in Requests, Writes(r)
      PROVE  Reserved'
  BY <1>2, ClaimWritesKeep, StatusWriteKeeps, WebhookKeeps DEF Writes
<1>3. ASSUME NEW r \in Requests, MergeSteps(r) \/ Crash(r)
      PROVE  Reserved'
  BY <1>3, ReserveKeeps, GithubKeeps, MergedWriteKeeps, RereadKeeps, LettingGoKeeps
  DEF MergeSteps
<1>4. CASE UNCHANGED vars
  BY <1>4 DEF vars, Reserved, OwnersRun, ReservedRows, Merging, Unchanged, Seen,
              MovedOn, Unclaimed
<1> QED  BY <1>1, <1>2, <1>3, <1>4, ReadsKeep, EnvironmentKeeps DEF Next, FreeSlots

LEMMA ReservationsHold == Spec => []Reserved
<1>1. Init => Reserved
  BY RequestsAssumption DEF Init, Reserved, OwnersRun, ReservedRows, Merging
<1>2. TypeOK /\ Decisions /\ Reserved /\ [Next]_vars => Reserved'
  BY ReservedKept
<1> QED  BY <1>1, <1>2, TypeCorrect, DecisionsHold, PTL DEF Spec

\* From the reservation to the write that records the merge the row is what
\* the handler read, or a webhook took it further.
THEOREM SnapshotsReserved == Spec => []ReservedSnapshotHolds
<1>1. Reserved => ReservedSnapshotHolds
  BY DEF Reserved, ReservedRows, MovedOn, ReservedSnapshotHolds
<1> QED  BY <1>1, ReservationsHold, PTL

\* The step that changes a running request is its own.
LEMMA OwnStep ==
    ASSUME TypeOK, Next, NEW r \in Requests, StepOf(r)
    PROVE  Writes(r) \/ MergeSteps(r) \/ Crash(r)
<1> DEFINE Alone(q) == \A x \in Requests \ {q} : req'[x] = req[x]
<1>1. ASSUME NEW q \in Requests, req[q] = Idle, NEW p, req' = [req EXCEPT ![q] = p]
      PROVE  FALSE
  BY <1>1 DEF TypeOK, StepOf
<1>2. ASSUME NEW q \in Requests, Writes(q) PROVE Alone(q)
  <2>1. \/ End(q) \/ Goto(q, "release")
        \/ \E p : req' = [req EXCEPT ![q] = p]
    BY <1>2 DEF Writes, ClaimWrite, ReviewClaimWrite, ReleaseWrite, ReviewReleaseWrite,
      AbandonWrite, AdminReleaseWrite, AdminReassignWrite, CreatorAbandonWrite,
      DemoteWrite, UnabandonWrite, OffBoardWrite, WriteIf, StatusWrite, WebhookWrite
  <2> QED  BY <2>1 DEF TypeOK, End, Goto
<1>3. ASSUME NEW q \in Requests, MergeSteps(q) \/ Crash(q) PROVE Alone(q)
  <2>1. CASE \E pc : End(q) \/ Goto(q, pc)
    BY <2>1 DEF TypeOK, End, Goto
  <2>2. CASE GithubMerges(q) \/ GithubAlreadyMerged(q)
    BY <2>2 DEF TypeOK, GithubMerges, GithubAlreadyMerged
  <2>3. CASE Reread(q) \/ RereadResult(q)
    BY <2>3 DEF TypeOK, Reread, RereadResult, Goto
  <2>4. CASE RecordWrite(q) \/ RetryWrite(q)
    <3>1. \E cond, pc : MergedWrite(q, cond, pc)
      BY <2>4, Zenon DEF RecordWrite, RetryWrite
    <3> QED  BY <2>1, <3>1 DEF MergedWrite
  <2>5. CASE \/ Reserve(q) \/ GithubRefuses(q) \/ GithubCheckFails(q)
             \/ GithubUnknown(q) \/ Release(q) \/ Crash(q)
    BY <2>1, <2>5 DEF Reserve, GithubRefuses, GithubCheckFails, GithubUnknown, Release,
                      Crash
  <2> QED  BY <1>3, <2>2, <2>3, <2>4, <2>5 DEF MergeSteps
<1>4. ASSUME NEW u \in Tasks, Lapse(u) \/ ExternalMerge(u) \/ PatchResult(u)
      PROVE  FALSE
  BY <1>4 DEF Lapse, ExternalMerge, PatchResult, StepOf
<1>5. ASSUME NEW q \in Requests, Writes(q) \/ MergeSteps(q) \/ Crash(q)
      PROVE  q = r
  <2>1. Alone(q)
    BY <1>2, <1>3, <1>5
  <2> QED  BY <2>1 DEF StepOf
<1>6. ASSUME NEW q \in Requests, NEW a \in Actors, NEW u \in Tasks,
             ClaimReads(q, a, u) \/ StatusReads(q, a, u)
      PROVE  FALSE
  <2>1. Begins(q, u)
    BY <1>6, ClaimReadsBegin, StatusReadsBegin
  <2> QED  BY <1>1, <2>1 DEF Begins, Begin
<1>7. ASSUME NEW q \in Requests, NEW op \in WebhookOps, NEW u \in Tasks,
             WebhookRead(q, op, u)
      PROVE  FALSE
  BY <1>1, <1>7 DEF WebhookRead
<1> QED  BY <1>4, <1>5, <1>6, <1>7 DEF Next, FreeSlots

\* A step of a request that changes what GitHub knows is its merge.
LEMMA MergesByCall ==
    ASSUME TypeOK, Next, NEW r \in Requests, NEW t \in Tasks,
           StepOf(r), pull'[t] # pull[t]
    PROVE  req[r].op = "merge" /\ req[r].pc = "call"
<1>1. Writes(r) => pull' = pull
  BY DEF Writes, ClaimWrite, ReviewClaimWrite, ReleaseWrite, ReviewReleaseWrite,
    AbandonWrite, AdminReleaseWrite, AdminReassignWrite, CreatorAbandonWrite,
    DemoteWrite, UnabandonWrite, OffBoardWrite, WriteIf, StatusWrite, WebhookWrite
<1>2. CASE MergeSteps(r) \/ Crash(r)
  <2>1. GithubMerges(r) \/ GithubCheckFails(r) \/ GithubUnknown(r)
    BY <1>2 DEF MergeSteps, Reserve, GithubAlreadyMerged, GithubRefuses, RecordWrite,
      Reread, RetryWrite, RereadResult, MergedWrite, Release, Crash
  <2> QED  BY <2>1 DEF GithubMerges, GithubCheckFails, GithubUnknown, At
<1> QED  BY <1>1, <1>2, OwnStep

\* What the merge was decided on is still so when it happens.
LEMMA GateStands ==
    ASSUME TypeOK, Decisions, Reserved, NEW r \in Requests, NEW t \in Tasks,
           Merging(r, t), req[r].op = "merge", req[r].pc = "call"
    PROVE  /\ SelfMergeGate(t, req[r].actor)
           /\ IsReview(Def, row[t].status) => ApprovalGate(t, req[r].actor)
<1> DEFINE q == req[r]  s == q.snap
<1>1. MergeVerdict(q) /\ q.actor \in Actors
  BY RunningDecided DEF Merging, Decided, MergeDecision, WebhookDecision, WebhookOps
<1>2. Unchanged(t, s) \/ MovedOn(t, s)
  BY DEF Reserved, ReservedRows
<1>3. CASE ~DistinctReviewer
  BY <1>3 DEF SelfMergeGate, ApprovalGate, ReviewerGate, DistinctFrom
<1>4. CASE DistinctReviewer
  <2>1. Mode # "AUTONOMOUS"
    BY <1>4 DEF DistinctReviewer
  <2>2. \/ Approver(s, q.actor)
        \/ IsTerminal(Def, s.status) /\ DistinctFrom(s.work, q.actor)
    BY <1>1, <2>1 DEF MergeVerdict, Judges, EndsReview, Settles
  <2>3. CASE Unchanged(t, s)
    <3>1. /\ s.status = row[t].status /\ s.work = row[t].work
          /\ s.review = row[t].review
      BY <2>3 DEF Unchanged, Seen
    <3>2. IsReview(Def, row[t].status) => ~IsTerminal(Def, row[t].status)
      BY StatusFacts
    <3> QED  BY <2>2, <3>1, <3>2 DEF Approver, SelfMergeGate, ApprovalGate,
                                     ReviewerGate, DistinctFrom
  <2>4. CASE MovedOn(t, s) /\ row[t].work = s.work /\ row[t].review = s.review
    BY <2>2, <2>4 DEF MovedOn, Approver, SelfMergeGate, ApprovalGate, ReviewerGate,
                      DistinctFrom
  <2>5. CASE IsTerminal(Def, row[t].status) /\ Unclaimed(t)
    <3>1. row[t].work # q.actor /\ ~IsReview(Def, row[t].status)
      BY <1>1, <2>5, StatusFacts, ActorsAssumption DEF Unclaimed
    <3> QED  BY <3>1 DEF SelfMergeGate, DistinctFrom
  <2> QED  BY <1>2, <2>3, <2>4, <2>5 DEF MovedOn
<1> QED  BY <1>3, <1>4

\* When a handler that still holds its reservation has GitHub merge, the rules
\* it checked before it reserved are true of the row as it is then.
THEOREM GatesStand == Spec => MergeGateStands
<1>1. TypeOK /\ Decisions /\ Reserved /\ [Next]_vars
         => [\A t \in Tasks, r \in Requests :
                /\ Merging(r, t) /\ pull'[t] # pull[t] /\ StepOf(r)
                => /\ SelfMergeGate(t, req[r].actor)
                   /\ IsReview(Def, row[t].status) => ApprovalGate(t, req[r].actor)]_vars
  <2> SUFFICES ASSUME TypeOK, Decisions, Reserved, Next, NEW t \in Tasks,
                      NEW r \in Requests, Merging(r, t), pull'[t] # pull[t], StepOf(r)
               PROVE  /\ SelfMergeGate(t, req[r].actor)
                      /\ IsReview(Def, row[t].status) => ApprovalGate(t, req[r].actor)
    OBVIOUS
  <2> QED  BY MergesByCall, GateStands
<1> QED  BY <1>1, TypeCorrect, DecisionsHold, ReservationsHold, PTL
         DEF Spec, MergeGateStands

-----------------------------------------------------------------------------
(* Who takes a claim away, and who approves. A write ends its request, and *)
(* its effect on the one row it changes is bound by what the request has   *)
(* decided.                                                                *)

Loses(q, old, new, c) ==
    \/ q.actor = old[c]
    \/ q.op \in {"adminRelease", "adminReassign"} /\ q.snap[c] = old[c]
    \/ IsTerminal(Def, new.status)
    \/ c = "review" /\ IsReview(Def, old.status) /\ new.status # old.status

\* What a write makes of an abandoned task: it leaves it so or finishes it,
\* restores it, gives up its work claim or reports its pull request merged.
Returning(q, old, new) ==
    \/ new.status = Abandoned \/ IsTerminal(Def, new.status)
    \/ q.op = "unabandon" \/ (q.actor = old.work /\ q.op \notin WebhookOps)
    \/ q.op = "prMerged" /\ "prMerged" \in Ops /\ Mode # "AUTONOMOUS"

Effect(q, old, new) ==
    /\ \A c \in Claims : old[c] # NoActor /\ new[c] # old[c] => Loses(q, old, new, c)
    /\ /\ q.op \notin WebhookOps \cup {"forced"}
       /\ IsReview(Def, old.status) /\ IsTerminal(Def, new.status)
       => Approver(old, q.actor)
    /\ old.work = NoActor /\ new.work # NoActor => q.op = "claim"
    /\ old.status = Abandoned => Returning(q, old, new)

EffectStep(r) ==
    \/ \A u \in Tasks : OnBoard(row'[u]) = OnBoard(row[u])
    \/ /\ End(r)
       /\ \E new : /\ row' = [row EXCEPT ![req[r].task] = new]
                   /\ Effect(req[r], row[req[r].task], new)

LEMMA WriteIfEffect ==
    ASSUME NEW r, NEW cond, NEW new, WriteIf(r, cond, new),
           cond => Effect(req[r], row[req[r].task], new)
    PROVE  EffectStep(r)
BY Zenon DEF WriteIf, EffectStep

\* A review is not left for a terminal status, and claims change by name.
LEMMA EffectBy ==
    ASSUME NEW q, NEW old, NEW new,
           IsReview(Def, old.status) => ~IsTerminal(Def, new.status),
           \/ old.work = NoActor \/ new.work = old.work
           \/ Loses(q, old, new, "work"),
           \/ old.review = NoActor \/ new.review = old.review
           \/ Loses(q, old, new, "review"),
           old.work = NoActor => new.work = NoActor \/ q.op = "claim",
           old.status = Abandoned => Returning(q, old, new)
    PROVE  Effect(q, old, new)
BY DEF Effect, Claims

LEMMA DropFields ==
    ASSUME NEW rw \in Row, NEW clear
    PROVE  /\ Drop(rw, clear).status = rw.status
           /\ Drop(rw, clear).work = IF "work" \in clear THEN NoActor ELSE rw.work
           /\ Drop(rw, clear).review = IF "review" \in clear THEN NoActor ELSE rw.review
BY DEF Drop, Row

LEMMA TakingEffects ==
    ASSUME TypeOK, Decisions, NEW r \in Requests, ClaimWrite(r) \/ ReviewClaimWrite(r)
    PROVE  EffectStep(r)
<1> DEFINE q == req[r]  t == q.task  old == row[t]
<1>1. /\ q # Idle /\ q \in Busy /\ t \in Tasks /\ Decided(q) /\ old \in Row
      /\ q.to \in Statuses(Def)
  BY Running, RunningDecided DEF ClaimWrite, ReviewClaimWrite, At
<1>2. CASE ClaimWrite(r)
  <2> DEFINE set == SetStatus(old, q.to)
             new == [set EXCEPT !.work = q.actor]
             cond == /\ SameStatusVersion(t, q.snap) /\ row[t].work = NoActor
                     /\ WorkClaimGate(t, q.actor) /\ NoLiveReservation(t)
  <2>1. WriteIf(r, cond, new)
    BY <1>2 DEF ClaimWrite
  <2>2. set \in Row /\ set.status = q.to /\ set.review = old.review
    BY <1>1, SetStatusIs
  <2> HIDE DEF set
  <2>3. new.review = old.review
    BY <2>2 DEF Row
  <2>4. /\ q.op = "claim"
        /\ cond => /\ old.work = NoActor /\ ~IsReview(Def, old.status)
                   /\ old.status # Abandoned
    BY <1>1, <1>2, StatusFacts DEF ClaimWrite, At, SameStatusVersion, Decided,
                                   ClaimDecision, Abandoned
  <2> HIDE DEF new
  <2>5. cond => Effect(q, old, new)
    BY <2>3, <2>4, EffectBy
  <2> HIDE DEF cond
  <2> QED  BY <2>1, <2>5, WriteIfEffect
<1>3. CASE ReviewClaimWrite(r)
  <2> DEFINE new == [old EXCEPT !.review = q.actor]
             cond == /\ row[t].status = q.snap.status /\ row[t].review = NoActor
                     /\ ReviewerGate(t, q.actor) /\ NoLiveReservation(t)
  <2>1. WriteIf(r, cond, new)
    BY <1>3 DEF ReviewClaimWrite
  <2>2. new.work = old.work /\ new.status = old.status
    BY <1>1 DEF Row
  <2> HIDE DEF new
  <2>3. cond => Effect(q, old, new)
    BY <2>2, EffectBy, StatusFacts DEF Returning
  <2> HIDE DEF cond
  <2> QED  BY <2>1, <2>3, WriteIfEffect
<1> QED  BY <1>2, <1>3

LEMMA ReleasingEffects ==
    ASSUME TypeOK, Decisions, NEW r \in Requests,
           ReleaseWrite(r) \/ ReviewReleaseWrite(r) \/ AbandonWrite(r)
    PROVE  EffectStep(r)
<1> DEFINE q == req[r]  t == q.task  old == row[t]
           set == SetStatus(old, q.to)
<1>1. /\ q # Idle /\ q \in Busy /\ t \in Tasks /\ Decided(q) /\ old \in Row
      /\ q.to \in Statuses(Def) /\ q.clear \in SUBSET Claims
  BY Running, RunningDecided DEF ReleaseWrite, ReviewReleaseWrite, AbandonWrite, At
<1>2. /\ set \in Row /\ set.status = q.to /\ set.work = old.work
      /\ set.review = old.review
  BY <1>1, SetStatusIs
<1>3. \A s : IsReview(Def, s) => ~IsTerminal(Def, s)
  BY StatusFacts
<1> HIDE DEF set
<1>4. CASE ReleaseWrite(r)
  <2> DEFINE new == Drop(set, {"work"})
             cond == /\ row[t].work = q.actor /\ SameStatusVersion(t, q.snap)
                     /\ NoLiveReservation(t)
  <2>1. WriteIf(r, cond, new)
    BY <1>4 DEF ReleaseWrite, set
  <2>2. new.status = q.to /\ new.review = old.review /\ new.work = NoActor
    BY <1>2, DropFields
  <2>3. cond => q.actor = old.work
    OBVIOUS
  <2>4. ~IsTerminal(Def, q.to) /\ q.op \notin WebhookOps
    BY <1>1, <1>4, StatusFacts DEF ReleaseWrite, At, Decided, ClaimDecision, WebhookOps
  <2> HIDE DEF new
  <2>5. cond => Effect(q, old, new)
    BY <2>2, <2>3, <2>4, EffectBy DEF Loses, Returning
  <2> HIDE DEF cond
  <2> QED  BY <2>1, <2>5, WriteIfEffect
<1>5. CASE ReviewReleaseWrite(r)
  <2> DEFINE new == Drop(old, {"review"})
             cond == row[t].review = q.actor /\ NoLiveReservation(t)
  <2>1. WriteIf(r, cond, new)
    BY <1>5 DEF ReviewReleaseWrite
  <2>2. new.status = old.status /\ new.work = old.work
    BY <1>1, DropFields
  <2> HIDE DEF new
  <2>3. cond => Effect(q, old, new)
    BY <1>3, <2>2, EffectBy DEF Loses, Returning
  <2> HIDE DEF cond
  <2> QED  BY <2>1, <2>3, WriteIfEffect
<1>6. CASE AbandonWrite(r)
  <2> DEFINE back == IF "work" \in q.clear /\ IsWork(Def, q.snap.status)
                     THEN set ELSE old
             new == Drop(back, q.clear)
             cond == /\ \A c \in q.clear : row[t][c] = q.actor
                     /\ "work" \in q.clear => SameStatusVersion(t, q.snap)
                     /\ NoLiveReservation(t)
  <2>1. WriteIf(r, cond, new)
    BY <1>6 DEF AbandonWrite, set
  <2>2. /\ back \in Row /\ back.status \in {old.status, Def.initial}
        /\ "work" \in q.clear \/ back.status = old.status
        /\ back.work = old.work /\ back.review = old.review
    BY <1>1, <1>2, <1>6 DEF AbandonWrite, At, Decided, ClaimDecision
  <2> HIDE DEF back
  <2>0. /\ new.status = back.status
        /\ new.work = IF "work" \in q.clear THEN NoActor ELSE back.work
        /\ new.review = IF "review" \in q.clear THEN NoActor ELSE back.review
    BY <2>2, DropFields
  <2> HIDE DEF new
  <2>3. /\ new.status \in {old.status, Def.initial}
        /\ new.work \in {old.work, NoActor}
        /\ "work" \in q.clear \/ (new.work = old.work /\ new.status = old.status)
        /\ "review" \in q.clear \/ new.review = old.review
    BY <2>0, <2>2
  <2>4. /\ q.op \notin WebhookOps
        /\ cond => /\ "work" \in q.clear => q.actor = old.work
                   /\ "review" \in q.clear => q.actor = old.review
    BY <1>6 DEF AbandonWrite, At, WebhookOps
  <2> HIDE DEF cond
  <2>5. cond => Effect(q, old, new)
    BY <1>3, <2>3, <2>4, EffectBy, StatusFacts DEF Loses, Returning
  <2> QED  BY <2>1, <2>5, WriteIfEffect
<1> QED  BY <1>4, <1>5, <1>6

LEMMA AdminEffects ==
    ASSUME TypeOK, Decisions, NEW r \in Requests,
           AdminReleaseWrite(r) \/ AdminReassignWrite(r)
    PROVE  EffectStep(r)
<1> DEFINE q == req[r]  t == q.task  old == row[t]
<1>1. /\ q # Idle /\ q \in Busy /\ t \in Tasks /\ old \in Row
      /\ q.clear \in SUBSET Claims /\ q.op \in {"adminRelease", "adminReassign"}
      /\ q.op = "adminReassign" => \A c \in q.clear : q.snap[c] # NoActor
  BY Running, RunningDecided DEF AdminReleaseWrite, AdminReassignWrite, At, Decided,
                                 ClaimDecision
<1>2. IsReview(Def, old.status) => ~IsTerminal(Def, old.status)
  BY StatusFacts
<1>3. CASE AdminReleaseWrite(r)
  <2> DEFINE gone == {c \in q.clear : row[t][c] = q.snap[c]}
             new == Drop(old, gone)
             cond == NoLiveReservation(t)
  <2>1. WriteIf(r, cond, new)
    BY <1>3 DEF AdminReleaseWrite
  <2>2. /\ new.status = old.status /\ new.work \in {old.work, NoActor}
        /\ "work" \in gone \/ new.work = old.work
        /\ "review" \in gone \/ new.review = old.review
    BY <1>1, DropFields
  <2>3. \A c \in gone : q.snap[c] = old[c]
    OBVIOUS
  <2>4. /\ "work" \in gone => q.snap.work = old.work
        /\ "review" \in gone => q.snap.review = old.review
    BY <2>3
  <2> HIDE DEF gone, new
  <2>5. Effect(q, old, new)
    BY <1>1, <1>2, <2>2, <2>4, EffectBy DEF Loses, Returning
  <2> HIDE DEF cond
  <2> QED  BY <2>1, <2>5, WriteIfEffect
<1>4. CASE AdminReassignWrite(r)
  <2>1. PICK c \in q.clear :
           WriteIf(r, /\ ReassignKeepsDistinct(t, c, q.aim) /\ FreeAgent(q.aim, t)
                      /\ row[t][c] = q.snap[c] /\ NoLiveReservation(t),
                   [old EXCEPT ![c] = q.aim])
    BY <1>4 DEF AdminReassignWrite
  <2> DEFINE new == [old EXCEPT ![c] = q.aim]
             cond == /\ ReassignKeepsDistinct(t, c, q.aim) /\ FreeAgent(q.aim, t)
                     /\ row[t][c] = q.snap[c] /\ NoLiveReservation(t)
  <2>2. /\ c \in Claims /\ new.status = old.status
        /\ c = "work" \/ new.work = old.work
        /\ c = "review" \/ new.review = old.review
    BY <1>1 DEF Row, Claims
  <2>3. cond => /\ c = "work" => q.snap.work = old.work /\ q.snap.work # NoActor
                /\ c = "review" => q.snap.review = old.review
    BY <1>1, <1>4 DEF AdminReassignWrite, At
  <2>4. WriteIf(r, cond, new)
    BY <2>1
  <2> HIDE DEF cond, new
  <2>5. cond => Effect(q, old, new)
    BY <1>1, <1>2, <2>2, <2>3, EffectBy DEF Loses, Returning, Claims
  <2> QED  BY <2>4, <2>5, WriteIfEffect
<1> QED  BY <1>3, <1>4

LEMMA OffBoardEffects ==
    ASSUME TypeOK, Decisions, NEW r \in Requests,
           CreatorAbandonWrite(r) \/ DemoteWrite(r) \/ UnabandonWrite(r)
    PROVE  EffectStep(r)
<1> DEFINE q == req[r]  t == q.task  old == row[t]
           new == SetStatus(old, q.to)
<1>1. PICK op \in {"creatorAbandon", "demote", "unabandon"} : \E from :
         OffBoardWrite(r, op, from) /\ (Abandoned \in from => op = "unabandon")
  BY DEF CreatorAbandonWrite, DemoteWrite, UnabandonWrite, Abandoned, Backlog
<1>2. PICK from : OffBoardWrite(r, op, from) /\ (Abandoned \in from => op = "unabandon")
  BY <1>1
<1> DEFINE cond == /\ row[t].status \in from /\ row[t].version = q.snap.version
                   /\ Unclaimed(t) /\ NoLiveReservation(t)
<1>3. q # Idle /\ q.op = op /\ WriteIf(r, cond, new)
  BY <1>2 DEF OffBoardWrite, At
<1>4. /\ old \in Row /\ q.to \in Statuses(Def) /\ Decided(q)
  BY <1>3, Running, RunningDecided
<1>5. ~IsTerminal(Def, q.to)
  BY <1>3, <1>4, StatusFacts DEF Decided, OffBoardDecision
<1>6. /\ new.status = q.to /\ new.work = old.work /\ new.review = old.review
  BY <1>4, SetStatusIs
<1>7. cond /\ old.status = Abandoned => q.op = "unabandon"
  BY <1>2, <1>3
<1> HIDE DEF new, cond
<1>8. cond => Effect(q, old, new)
  BY <1>5, <1>6, <1>7, EffectBy DEF Returning
<1> QED  BY <1>3, <1>8, WriteIfEffect

\* What a status write, or the write after a merge, stores.
Shown(q, old, new) ==
    /\ new.status = q.to
    /\ new.work = IF "work" \in q.clear THEN NoActor ELSE old.work
    /\ new.review = IF "review" \in q.clear THEN NoActor ELSE old.review

Same(s, old) == s.status = old.status /\ s.work = old.work /\ s.review = old.review

LEMMA VerdictEffect ==
    ASSUME NEW q, NEW old, NEW new, Shown(q, old, new), Same(q.snap, old),
           StatusVerdict(q)
    PROVE  Effect(q, old, new)
<1>0. /\ old.work = NoActor => new.work = NoActor
      /\ old.status = Abandoned => Returning(q, old, new)
  <2>1. ~IsReview(Def, Abandoned) /\ \A s : ~HasEdge(Def, Abandoned, s)
    BY StatusFacts, ProjectAssumption, EdgeEnds DEF HasEdge, WellFormed
  <2> QED  BY <2>1 DEF StatusVerdict, Echoes, Triages, Advances, AdvanceTargets, Follows,
                       Judges, Finishes, Shown, Same, Returning, Abandoned, Backlog
<1>1. \A s : IsReview(Def, s) => ~IsTerminal(Def, s)
  BY StatusFacts
<1>2. q.clear = {} => new.work = old.work /\ new.review = old.review
  BY DEF Shown
<1>3. CASE Echoes(q) \/ Triages(q) \/ Advances(q)
  <2>1. IsReview(Def, old.status) => ~IsTerminal(Def, new.status)
    BY <1>1, <1>3, StatusFacts
    DEF Echoes, Triages, Advances, InWork, Shown, Same
  <2> QED  BY <1>0, <1>2, <1>3, <2>1, EffectBy DEF Echoes, Triages, Advances
<1>4. CASE Follows(q)
  <2>1. \A c \in Claims : old[c] # NoActor /\ new[c] # old[c] => Loses(q, old, new, c)
    BY <1>4 DEF Follows, ClearOnMove, Loses, Shown, Same, Claims
  <2>2. /\ q.op # "forced" /\ IsReview(Def, old.status) /\ IsTerminal(Def, new.status)
        => Approver(old, q.actor)
    BY <1>4 DEF Follows, Approves, Forces, Approver, Shown, Same
  <2> QED  BY <1>0, <2>1, <2>2 DEF Effect
<1>5. CASE Judges(q)
  <2>1. \A c \in Claims : old[c] # NoActor /\ new[c] # old[c] => Loses(q, old, new, c)
    BY <1>5 DEF Judges, TerminalClear, Loses, Shown, Same, Claims
  <2>2. Approver(old, q.actor)
    BY <1>5 DEF Judges, Approver, Same
  <2> QED  BY <1>0, <2>1, <2>2 DEF Effect
<1>6. CASE Finishes(q)
  <2>1. \A c \in Claims : old[c] # NoActor /\ new[c] # old[c] => Loses(q, old, new, c)
    BY <1>6 DEF Finishes, TerminalClear, Loses, Shown, Claims
  <2>2. ~IsReview(Def, old.status)
    BY <1>6 DEF Finishes, InWork, Same
  <2> QED  BY <1>0, <2>1, <2>2 DEF Effect
<1> QED  BY <1>3, <1>4, <1>5, <1>6 DEF StatusVerdict

\* The write after a merge ends the task.
LEMMA EndingEffect ==
    ASSUME NEW q, NEW old, NEW new, Shown(q, old, new), Same(q.snap, old),
           IsTerminal(Def, q.to),
           \/ Judges(q) \/ Finishes(q) \/ EndsReview(q) \/ Settles(q) \/ Repairs(q)
           \/ q.snap.status = q.to
    PROVE  Effect(q, old, new)
<1>1. \A s : IsReview(Def, s) => ~IsTerminal(Def, s)
  BY StatusFacts
<1>2. \A c \in Claims : Loses(q, old, new, c)
  BY DEF Loses, Shown
<1>3. ~IsReview(Def, old.status) \/ Approver(old, q.actor)
  BY <1>1 DEF Judges, Finishes, EndsReview, Settles, Repairs, InWork, Approver, Same
<1>4. /\ old.work = NoActor => new.work = NoActor
      /\ Returning(q, old, new)
  BY DEF Shown, Returning
<1> QED  BY <1>2, <1>3, <1>4 DEF Effect

LEMMA UnchangedSame ==
    ASSUME NEW t, NEW s, Unchanged(t, s)
    PROVE  Same(s, row[t])
BY DEF Unchanged, Seen, Same

LEMMA SetDropShown ==
    ASSUME NEW q, NEW old \in Row, q.to \in Statuses(Def)
    PROVE  /\ Drop(SetStatus(old, q.to), q.clear) \in Row
           /\ Shown(q, old, Drop(SetStatus(old, q.to), q.clear))
<1> DEFINE set == SetStatus(old, q.to)
<1>1. set \in Row /\ set.status = q.to /\ set.work = old.work /\ set.review = old.review
  BY SetStatusIs
<1> HIDE DEF set
<1>2. /\ Drop(set, q.clear) \in Row
      /\ Drop(set, q.clear).status = set.status
      /\ Drop(set, q.clear).work = IF "work" \in q.clear THEN NoActor ELSE set.work
      /\ Drop(set, q.clear).review = IF "review" \in q.clear THEN NoActor ELSE set.review
  BY <1>1, DropIs, DropFields
<1> QED  BY <1>1, <1>2 DEF Shown, set

LEMMA StatusEffects ==
    ASSUME TypeOK, Decisions, NEW r \in Requests, StatusWrite(r)
    PROVE  EffectStep(r)
<1> DEFINE q == req[r]  t == q.task  old == row[t]
           gone == Drop(SetStatus(old, q.to), q.clear)
           new == Store(gone, r, q.result)
<1>1. /\ q # Idle /\ q.op \in {"status", "forced"} /\ q.pc = "write"
      /\ \/ row' = row
         \/ /\ Unchanged(t, q.snap) /\ NoLiveReservation(t)
            /\ row' = [row EXCEPT ![t] = new]
      /\ IF row[t].lock = r THEN Goto(r, "release") ELSE End(r)
  BY DEF StatusWrite
<1>2. old \in Row /\ q.to \in Statuses(Def) /\ Decided(q)
  BY <1>1, Running, RunningDecided
<1>3. CASE row' = row
  BY <1>3 DEF EffectStep
<1>4. CASE /\ Unchanged(t, q.snap) /\ NoLiveReservation(t)
           /\ row' = [row EXCEPT ![t] = new]
  <2>1. End(r)
    BY <1>1, <1>4, RequestsAssumption DEF NoLiveReservation
  <2>2. gone \in Row /\ Shown(q, old, gone)
    BY <1>2, SetDropShown
  <2> HIDE DEF gone
  <2>3. new.status = gone.status /\ new.work = gone.work /\ new.review = gone.review
    BY <2>2, StoreIs
  <2> HIDE DEF new
  <2>4. Shown(q, old, new)
    BY <2>2, <2>3 DEF Shown
  <2>5. StatusVerdict(q)
    BY <1>1, <1>2 DEF Decided, StatusDecision, StatusVerdict
  <2>6. Effect(q, old, new)
    BY <1>4, <2>4, <2>5, UnchangedSame, VerdictEffect
  <2> QED  BY <1>4, <2>1, <2>6 DEF EffectStep
<1> QED  BY <1>1, <1>3, <1>4

LEMMA RecordedShown ==
    ASSUME TypeOK, NEW r \in Requests, req[r] # Idle
    PROVE  Shown(req[r], row[req[r].task], Recorded(r))
<1> DEFINE q == req[r]  old == row[q.task]
           gone == Drop(SetStatus(old, q.to), q.clear)
           sha == IF q.sha = "keep" THEN gone.sha ELSE q.sha = "set"
           rec == [gone EXCEPT !.lock = NoRequest, !.sha = sha]
<1>1. old \in Row /\ q.to \in Statuses(Def)
  BY Running
<1>2. gone \in Row /\ Shown(q, old, gone)
  BY <1>1, SetDropShown
<1>3. Recorded(r) = Store(rec, r, q.result)
  BY DEF Recorded
<1> HIDE DEF gone
<1>4. sha \in BOOLEAN
  BY <1>2 DEF Row
<1>5. /\ rec \in Row /\ rec.status = gone.status
      /\ rec.work = gone.work /\ rec.review = gone.review
  <2> HIDE DEF sha
  <2> QED  BY <1>2, <1>4 DEF Row, Party
<1> HIDE DEF rec
<1>6. LET new == Store(rec, r, q.result) IN
      new.status = gone.status /\ new.work = gone.work /\ new.review = gone.review
  BY <1>5, StoreIs
<1> QED  BY <1>2, <1>3, <1>6 DEF Shown

LEMMA MergedEffects ==
    ASSUME TypeOK, Decisions, NEW r \in Requests, RecordWrite(r) \/ RetryWrite(r)
    PROVE  EffectStep(r)
<1> DEFINE q == req[r]  t == q.task  old == row[t]
<1>1. /\ q # Idle /\ q.op = "merge" /\ q.pc \in {"record", "retry"}
      /\ \E cond, onLoss : MergedWrite(r, cond, onLoss)
  BY Zenon DEF RecordWrite, RetryWrite, At
<1>2. \/ row' = row
      \/ Unchanged(t, q.snap) /\ row' = [row EXCEPT ![t] = Recorded(r)] /\ End(r)
  BY <1>1 DEF MergedWrite
<1>3. CASE row' = row
  BY <1>3 DEF EffectStep
<1>4. CASE Unchanged(t, q.snap) /\ row' = [row EXCEPT ![t] = Recorded(r)] /\ End(r)
  <2>1. Decided(q)
    BY <1>1, RunningDecided
  <2>2. /\ IsTerminal(Def, q.to)
        /\ \/ Judges(q) \/ Finishes(q) \/ EndsReview(q) \/ Settles(q) \/ Repairs(q)
           \/ q.snap.status = q.to
    BY <1>1, <2>1 DEF Decided, MergeDecision, MergeVerdict
  <2>3. Effect(q, old, Recorded(r))
    BY <1>1, <1>4, <2>2, RecordedShown, UnchangedSame, EndingEffect
  <2> QED  BY <1>4, <2>3 DEF EffectStep
<1> QED  BY <1>2, <1>3, <1>4

LEMMA WebhookEffects ==
    ASSUME TypeOK, Decisions, NEW r \in Requests, WebhookWrite(r)
    PROVE  EffectStep(r)
<1> DEFINE q == req[r]  t == q.task  old == row[t]
           new == Drop(SetStatus(old, q.to), q.clear)
<1>1. /\ q # Idle /\ q.op \in WebhookOps
      /\ \/ row' = row
         \/ SameStatusVersion(t, q.snap) /\ row' = [row EXCEPT ![t] = new] /\ End(r)
  BY DEF WebhookWrite
<1>2. old \in Row /\ q.to \in Statuses(Def) /\ Decided(q)
  BY <1>1, Running, RunningDecided
<1>3. CASE row' = row
  BY <1>3 DEF EffectStep
<1>4. CASE SameStatusVersion(t, q.snap) /\ row' = [row EXCEPT ![t] = new] /\ End(r)
  <2>1. q.clear = TerminalClear(q.to)
    BY <1>1, <1>2 DEF Decided, WebhookDecision
  <2>2. Shown(q, old, new)
    BY <1>2, SetDropShown
  <2> HIDE DEF new
  <2>3. /\ old.work = NoActor => new.work = NoActor
        /\ old.status = Abandoned => Returning(q, old, new)
    <3>1. q.op \in Ops /\ q.to = WebhookTarget(q.op, old.status) /\ q.to # NoTarget
      BY <1>1, <1>2, <1>4 DEF Decided, WebhookDecision, SameStatusVersion
    <3>2. CASE q.op = "prMerged"
      BY <2>2, <3>1, <3>2, StatusFacts DEF WebhookTarget, MergedTarget, Shown, Returning
    <3>3. CASE q.op # "prMerged"
      BY <1>1, <2>2, <3>1, <3>3, StatusFacts
      DEF WebhookTarget, WebhookOps, Shown, Returning, Abandoned, Backlog
    <3> QED  BY <3>2, <3>3
  <2>4. Effect(q, old, new)
    BY <1>1, <2>1, <2>2, <2>3 DEF Effect, Shown, Loses, TerminalClear, Claims
  <2> QED  BY <1>4, <2>4 DEF EffectStep
<1> QED  BY <1>1, <1>3, <1>4

\* Reservations and GitHub calls leave the columns of the board alone.
LEMMA LockLeaves ==
    ASSUME TypeOK, NEW t \in Tasks, NEW l,
           row' = row \/ row' = [row EXCEPT ![t] = [row[t] EXCEPT !.lock = l]]
    PROVE  \A u \in Tasks : OnBoard(row'[u]) = OnBoard(row[u])
<1> DEFINE new == [row[t] EXCEPT !.lock = l]
<1>1. OnBoard(new) = OnBoard(row[t])
  BY LockShows DEF TypeOK
<1> HIDE DEF new
<1> QED  BY <1>1 DEF TypeOK, new

LEMMA QuietEffects ==
    ASSUME TypeOK, NEW r \in Requests,
           \/ Reserve(r) \/ GithubMerges(r) \/ GithubAlreadyMerged(r)
           \/ GithubRefuses(r) \/ GithubCheckFails(r) \/ GithubUnknown(r)
           \/ Reread(r) \/ RereadResult(r) \/ Release(r) \/ Crash(r)
    PROVE  EffectStep(r)
<1> DEFINE t == req[r].task
<1>1. t \in Tasks
  BY Running DEF Reserve, GithubMerges, GithubAlreadyMerged, GithubRefuses,
    GithubCheckFails, GithubUnknown, Reread, RereadResult, Release, Crash, At
<1>2. row' = row \/ \E l : row' = [row EXCEPT ![t] = [row[t] EXCEPT !.lock = l]]
  BY DEF Reserve, GithubMerges, GithubAlreadyMerged, GithubRefuses,
    GithubCheckFails, GithubUnknown, Orphan, Reread, RereadResult, Release, Crash
<1>3. PICK l : row' = row \/ row' = [row EXCEPT ![t] = [row[t] EXCEPT !.lock = l]]
  BY <1>2
<1> QED  BY <1>1, <1>3, LockLeaves DEF EffectStep

LEMMA StepEffects ==
    ASSUME TypeOK, Decisions, NEW r \in Requests,
           Writes(r) \/ MergeSteps(r) \/ Crash(r)
    PROVE  EffectStep(r)
BY TakingEffects, ReleasingEffects, AdminEffects, OffBoardEffects, StatusEffects,
   WebhookEffects, MergedEffects, QuietEffects DEF Writes, MergeSteps

\* A request that takes a task out of review into a terminal status finds on
\* the row, at that step, a lock of another actor than the work claimant, and
\* is not the claimant's own; a forced transition and the webhooks are exempt.
THEOREM ApprovalsDistinct == Spec => ApprovedByDistinct
<1>1. TypeOK /\ Decisions /\ [Next]_vars
         => [\A t \in Tasks, r \in Requests :
                /\ DistinctReviewer /\ StepOf(r) /\ req[r].task = t
                /\ ~Webhook(r) /\ req[r].op # "forced"
                /\ StatusChanges(t)
                /\ IsReview(Def, row[t].status) /\ IsTerminal(Def, row'[t].status)
                => /\ row[t].review \notin {NoActor, row[t].work}
                   /\ req[r].actor # row[t].work]_vars
  <2> SUFFICES ASSUME TypeOK, Decisions, Next, NEW t \in Tasks, NEW r \in Requests,
                      DistinctReviewer, StepOf(r), req[r].task = t,
                      ~Webhook(r), req[r].op # "forced", StatusChanges(t),
                      IsReview(Def, row[t].status), IsTerminal(Def, row'[t].status)
               PROVE  /\ row[t].review \notin {NoActor, row[t].work}
                      /\ req[r].actor # row[t].work
    OBVIOUS
  <2>1. EffectStep(r)
    BY OwnStep, StepEffects
  <2>2. ~(OnBoard(row'[t]) = OnBoard(row[t]))
    BY DEF OnBoard, StatusChanges
  <2>3. PICK new : /\ row' = [row EXCEPT ![t] = new]
                   /\ Effect(req[r], row[t], new)
    BY <2>1, <2>2 DEF EffectStep
  <2>4. row'[t] = new
    BY <2>3 DEF TypeOK
  <2>5. req[r].op \notin WebhookOps
    BY DEF Webhook, StepOf
  <2>6. Approver(row[t], req[r].actor)
    BY <2>3, <2>4, <2>5 DEF Effect
  <2> QED  BY <2>6 DEF Approver, DistinctFrom
<1> QED  BY <1>1, TypeCorrect, DecisionsHold, PTL DEF Spec, ApprovedByDistinct

\* Only a step of a running request changes what the board shows.
LEMMA ShownByRequest ==
    ASSUME TypeOK, Next, NEW t \in Tasks, OnBoard(row'[t]) # OnBoard(row[t])
    PROVE  \E r \in Requests : Writes(r) \/ MergeSteps(r) \/ Crash(r)
<1>1. CASE row' = row
  BY <1>1
<1>2. ASSUME NEW r \in Requests, NEW a \in Actors, NEW u \in Tasks,
             ClaimReads(r, a, u) \/ StatusReads(r, a, u)
      PROVE  row' = row
  BY <1>2, ClaimReadsBegin, StatusReadsBegin DEF Begins, Begin
<1>3. ASSUME NEW r \in Requests, NEW op \in WebhookOps, NEW u \in Tasks,
             WebhookRead(r, op, u)
      PROVE  row' = row
  BY <1>3 DEF WebhookRead
<1>4. ASSUME NEW u \in Tasks, Lapse(u) \/ ExternalMerge(u)
      PROVE  FALSE
  <2>1. row' = row \/ row' = [row EXCEPT ![u] = [row[u] EXCEPT !.lock = NoRequest]]
    BY <1>4 DEF Lapse, ExternalMerge
  <2> QED  BY <2>1, LockLeaves
<1>5. ASSUME NEW u \in Tasks, PatchResult(u)
      PROVE  FALSE
  <2>1. PICK by : row' = [row EXCEPT ![u] = [row[u] EXCEPT !.result = by]]
    BY <1>5 DEF PatchResult
  <2> DEFINE new == [row[u] EXCEPT !.result = by]
  <2>2. OnBoard(new) = OnBoard(row[u])
    BY DEF OnBoard, Row, TypeOK
  <2> HIDE DEF new
  <2> QED  BY <2>1, <2>2 DEF TypeOK, new
<1> QED  BY <1>1, <1>2, <1>3, <1>4, <1>5 DEF Next, FreeSlots

LEMMA StepRuns ==
    ASSUME NEW r, Writes(r) \/ MergeSteps(r) \/ Crash(r)
    PROVE  req[r] # Idle
BY DEF Writes, MergeSteps, ClaimWrite, ReviewClaimWrite, ReleaseWrite,
   ReviewReleaseWrite, AbandonWrite, AdminReleaseWrite, AdminReassignWrite,
   CreatorAbandonWrite, DemoteWrite, UnabandonWrite, OffBoardWrite, StatusWrite,
   WebhookWrite, Reserve, GithubMerges, GithubAlreadyMerged, GithubRefuses,
   GithubCheckFails, GithubUnknown, RecordWrite, Reread, RetryWrite, RereadResult,
   Release, Crash, At

\* A claim leaves its holder by the holder's own request, by an administrator
\* who read that same holder, with a terminal status or, for a review lock,
\* when the task leaves review.
THEOREM ClaimsKept == Spec => ClaimKept
<1>1. TypeOK /\ Decisions /\ [Next]_vars
         => [\A t \in Tasks, c \in Claims :
                row[t][c] # NoActor /\ row'[t][c] # row[t][c]
                => \E r \in Requests :
                      StepOf(r) /\ req[r].task = t /\ MayLose(t, c, r)]_vars
  <2> SUFFICES ASSUME TypeOK, Decisions, Next, NEW t \in Tasks, NEW c \in Claims,
                      row[t][c] # NoActor, row'[t][c] # row[t][c]
               PROVE  \E r \in Requests :
                         StepOf(r) /\ req[r].task = t /\ MayLose(t, c, r)
    OBVIOUS
  <2>1. OnBoard(row'[t]) # OnBoard(row[t])
    BY DEF OnBoard, Claims
  <2>2. PICK r \in Requests : Writes(r) \/ MergeSteps(r) \/ Crash(r)
    BY <2>1, ShownByRequest
  <2>3. End(r) /\ \E new : /\ row' = [row EXCEPT ![req[r].task] = new]
                           /\ Effect(req[r], row[req[r].task], new)
    BY <2>1, <2>2, StepEffects DEF EffectStep
  <2>4. PICK new : /\ row' = [row EXCEPT ![req[r].task] = new]
                   /\ Effect(req[r], row[req[r].task], new)
    BY <2>3
  <2>5. req[r].task = t /\ row'[t] = new
    BY <2>4 DEF TypeOK
  <2>6. Loses(req[r], row[t], new, c)
    BY <2>4, <2>5 DEF Effect
  <2>7. MayLose(t, c, r)
    BY <2>5, <2>6 DEF Loses, MayLose, StatusChanges
  <2>8. StepOf(r)
    BY <2>2, <2>3, StepRuns DEF StepOf, End, TypeOK
  <2> QED  BY <2>5, <2>7, <2>8
<1> QED  BY <1>1, TypeCorrect, DecisionsHold, PTL DEF Spec, ClaimKept

-----------------------------------------------------------------------------
(* Reassignment and the result of a merge.                                 *)

LEMMA LettingGoLeaves ==
    ASSUME TypeOK, NEW r \in Requests, req[r] # Idle, Release(r) \/ Crash(r)
    PROVE  /\ \A u \in Tasks : OnBoard(row'[u]) = OnBoard(row[u])
           /\ \A u \in Tasks : row'[u].result = row[u].result
<1> DEFINE t == req[r].task
<1>1. PICK l : row' = [row EXCEPT ![t] = [row[t] EXCEPT !.lock = l]]
  BY DEF Release, Crash, Orphan
<1>2. t \in Tasks
  BY Running
<1> DEFINE new == [row[t] EXCEPT !.lock = l]
<1>3. new.result = row[t].result
  BY <1>2 DEF TypeOK, Row
<1> HIDE DEF new
<1>4. \A u \in Tasks : row'[u].result = row[u].result
  BY <1>1, <1>3 DEF TypeOK, new
<1> QED  BY <1>1, <1>2, <1>4, LockLeaves

LEMMA ReassignStep ==
    ASSUME TypeOK, Next, NEW r \in Requests, StepOf(r), req[r].op = "adminReassign"
    PROVE  AdminReassignWrite(r) \/ Release(r) \/ Crash(r)
<1>1. Writes(r) => AdminReassignWrite(r)
  BY DEF Writes, ClaimWrite, ReviewClaimWrite, ReleaseWrite, ReviewReleaseWrite,
    AbandonWrite, AdminReleaseWrite, CreatorAbandonWrite, DemoteWrite, UnabandonWrite,
    OffBoardWrite, StatusWrite, WebhookWrite, WebhookOps, At
<1>2. MergeSteps(r) => Release(r)
  BY DEF MergeSteps, Reserve, GithubMerges, GithubAlreadyMerged, GithubRefuses,
    GithubCheckFails, GithubUnknown, RecordWrite, Reread, RetryWrite, RereadResult, At
<1> QED  BY <1>1, <1>2, OwnStep

\* An administrator's reassignment never gives an agent a second active claim,
\* whatever happened to the agent's other tasks since the handler's read.
THEOREM ReassignSingle == Spec => ReassignKeepsSingleClaim
<1>1. TypeOK /\ [Next]_vars
         => [\A r \in Requests, t \in Tasks, c \in Claims :
                /\ StepOf(r) /\ req[r].op = "adminReassign" /\ req[r].task = t
                /\ row'[t][c] # row[t][c] /\ row'[t][c] \in Agents
                => \A u \in Tasks \ {t} :
                      /\ row[u].work = row'[t][c] => IsTerminal(Def, row[u].status)
                      /\ row[u].review = row'[t][c]
                            => ~IsReview(Def, row[u].status)]_vars
  <2> SUFFICES ASSUME TypeOK, Next, NEW r \in Requests, NEW t \in Tasks,
                      NEW c \in Claims, StepOf(r), req[r].op = "adminReassign",
                      req[r].task = t, row'[t][c] # row[t][c], row'[t][c] \in Agents
               PROVE  \A u \in Tasks \ {t} :
                         /\ row[u].work = row'[t][c] => IsTerminal(Def, row[u].status)
                         /\ row[u].review = row'[t][c] => ~IsReview(Def, row[u].status)
    OBVIOUS
  <2>1. OnBoard(row'[t]) # OnBoard(row[t])
    BY DEF OnBoard, Claims
  <2>2. AdminReassignWrite(r)
    BY <2>1, ReassignStep, LettingGoLeaves DEF StepOf
  <2> DEFINE b == req[r].aim
  <2>3. PICK d \in req[r].clear :
           WriteIf(r, /\ ReassignKeepsDistinct(t, d, b) /\ FreeAgent(b, t)
                      /\ row[t][d] = req[r].snap[d] /\ NoLiveReservation(t),
                   [row[t] EXCEPT ![d] = b])
    BY <2>2 DEF AdminReassignWrite
  <2> DEFINE new == [row[t] EXCEPT ![d] = b]
             cond == /\ ReassignKeepsDistinct(t, d, b) /\ FreeAgent(b, t)
                     /\ row[t][d] = req[r].snap[d] /\ NoLiveReservation(t)
  <2>4. cond => FreeAgent(b, t)
    OBVIOUS
  <2>5. d \in Claims
    BY Running DEF StepOf
  <2>6. new[c] = IF c = d THEN b ELSE row[t][c]
    BY <2>5 DEF TypeOK, Row, Claims
  <2>7. WriteIf(r, cond, new)
    BY <2>3
  <2> HIDE DEF cond, new
  <2>8. row' = row \/ (cond /\ row' = [row EXCEPT ![t] = new])
    BY <2>7 DEF WriteIf
  <2>9. FreeAgent(b, t) /\ row'[t][c] = b
    BY <2>4, <2>6, <2>8 DEF TypeOK
  <2>10. ActiveClaims(b) \subseteq {t}
    BY <2>9 DEF FreeAgent
  <2> QED  BY <2>9, <2>10 DEF ActiveClaims
<1> QED  BY <1>1, TypeCorrect, PTL DEF Spec, ReassignKeepsSingleClaim

LEMMA RetryStep ==
    ASSUME TypeOK, Decisions, Next, NEW r \in Requests, StepOf(r), req[r].pc = "retry"
    PROVE  RetryWrite(r) \/ Crash(r)
<1>1. req[r].op = "merge"
  BY RunningDecided DEF StepOf, Decided
<1>2. ~Writes(r)
  BY <1>1 DEF Writes, ClaimWrite, ReviewClaimWrite, ReleaseWrite, ReviewReleaseWrite,
    AbandonWrite, AdminReleaseWrite, AdminReassignWrite, CreatorAbandonWrite,
    DemoteWrite, UnabandonWrite, OffBoardWrite, StatusWrite, WebhookWrite, WebhookOps, At
<1>3. MergeSteps(r) => RetryWrite(r)
  BY DEF MergeSteps, Reserve, GithubMerges, GithubAlreadyMerged, GithubRefuses,
    GithubCheckFails, GithubUnknown, RecordWrite, Reread, RereadResult, Release, At
<1> QED  BY <1>2, <1>3, OwnStep

LEMMA RecordedResult ==
    ASSUME TypeOK, NEW r \in Requests, req[r] # Idle, ~req[r].result
    PROVE  Recorded(r).result = row[req[r].task].result
<1> DEFINE q == req[r]  old == row[q.task]  set == SetStatus(old, q.to)
           gone == Drop(set, q.clear)
           sha == IF q.sha = "keep" THEN gone.sha ELSE q.sha = "set"
           rec == [gone EXCEPT !.lock = NoRequest, !.sha = sha]
<1>1. old \in Row /\ q.to \in Statuses(Def)
  BY Running
<1>2. set \in Row /\ set.result = old.result
  BY <1>1, SetStatusIs DEF SetStatus, Row
<1> HIDE DEF set
<1>3. gone \in Row /\ gone.result = set.result
  BY <1>2, DropIs DEF Drop, Row
<1>4. Recorded(r) = rec
  BY DEF Recorded, Store, set
<1> HIDE DEF gone, sha
<1>5. rec.result = gone.result
  BY <1>3 DEF Row
<1> QED  BY <1>2, <1>3, <1>4, <1>5

\* Completing a merge on a row that another writer took to the target keeps
\* the result that writer, or a PATCH, stored.
THEOREM ResultsKept == Spec => ResultKept
<1>1. TypeOK /\ Decisions /\ [Next]_vars
         => [\A r \in Requests :
                StepOf(r) /\ req[r].pc = "retry" /\ row[req[r].task].result # NoRequest
                => row'[req[r].task].result = row[req[r].task].result]_vars
  <2> SUFFICES ASSUME TypeOK, Decisions, Next, NEW r \in Requests, StepOf(r),
                      req[r].pc = "retry", row[req[r].task].result # NoRequest
               PROVE  row'[req[r].task].result = row[req[r].task].result
    OBVIOUS
  <2> DEFINE t == req[r].task
  <2>1. req[r] # Idle /\ t \in Tasks
    BY Running DEF StepOf
  <2>2. CASE Crash(r)
    BY <2>1, <2>2, LettingGoLeaves
  <2>3. CASE RetryWrite(r)
    <3>1. \/ row' = row
          \/ ~req[r].result /\ row' = [row EXCEPT ![t] = Recorded(r)]
      BY <2>3 DEF RetryWrite, MergedWrite
    <3> QED  BY <2>1, <3>1, RecordedResult DEF TypeOK
  <2> QED  BY <2>2, <2>3, RetryStep
<1> QED  BY <1>1, TypeCorrect, DecisionsHold, PTL DEF Spec, ResultKept

-----------------------------------------------------------------------------
(* Work begins on a task whose blockers are done. The two handlers that    *)
(* take a work claim look at the blockers before the row lock and the      *)
(* write does not ask again, so what they saw has to last.                 *)

Done(t) == IsTerminal(Def, row[t].status) \/ row[t].status = Abandoned

Claiming(r) == req[r] # Idle /\ req[r].op = "claim"

\* What a request that takes a work claim saw is still so.
BlockersDone ==
    \A r \in Requests : Claiming(r) => \A b \in BlockedBy[req[r].task] : Done(b)

\* The step starts no request that takes a work claim.
NoNewClaims ==
    \A r \in Requests :
        Claiming(r)' => Claiming(r) /\ req'[r].task = req[r].task

LEMMA NotClaiming ==
    ASSUME TypeOK, NEW r \in Requests, NEW q, req' = [req EXCEPT ![r] = q],
           q.op # "claim" \/ (req[r] # Idle /\ q.op = req[r].op /\ q.task = req[r].task)
    PROVE  NoNewClaims
BY DEF NoNewClaims, Claiming, TypeOK

LEMMA EndsClaiming ==
    ASSUME TypeOK, NEW r \in Requests, End(r)
    PROVE  NoNewClaims
BY DEF NoNewClaims, Claiming, TypeOK, End

LEMMA GotoClaiming ==
    ASSUME TypeOK, NEW r \in Requests, req[r] # Idle, NEW pc, Goto(r, pc)
    PROVE  NoNewClaims
<1> DEFINE q == [req[r] EXCEPT !.pc = pc]
<1>1. req' = [req EXCEPT ![r] = q]
  BY DEF Goto
<1>2. q.op = req[r].op /\ q.task = req[r].task
  BY Running DEF Busy
<1> HIDE DEF q
<1> QED  BY <1>1, <1>2, NotClaiming

LEMMA ClaimReadsStart ==
    ASSUME TypeOK, NEW r \in Requests, NEW a \in Actors, NEW t \in Tasks,
           ClaimReads(r, a, t)
    PROVE  ClaimRead(r, a, t) \/ StartWorkRead(r, a, t) \/ NoNewClaims
<1>1. ASSUME NEW op \in {"reviewClaim", "reviewRelease"}, Begin(r, New(op, a, t))
      PROVE  NoNewClaims
  BY <1>1, NewFields, NotClaiming DEF Begin
<1>2. CASE ReviewClaimRead(r, a, t) \/ StartReviewRead(r, a, t)
           \/ ReviewReleaseRead(r, a, t)
  BY <1>1, <1>2 DEF ReviewClaimRead, StartReviewRead, ReviewReleaseRead
<1>3. CASE ReleaseRead(r, a, t)
  <2> DEFINE q == [New("release", a, t) EXCEPT !.to = Def.initial]
  <2>1. q.op # "claim" /\ req' = [req EXCEPT ![r] = q]
    BY <1>3 DEF New, ReleaseRead, Begin
  <2> HIDE DEF q
  <2> QED  BY <2>1, NotClaiming
<1>4. CASE AbandonRead(r, a, t)
  <2>1. PICK clear, to : Begin(r, [New("abandon", a, t) EXCEPT !.clear = clear, !.to = to])
    BY <1>4 DEF AbandonRead
  <2> DEFINE q == [New("abandon", a, t) EXCEPT !.clear = clear, !.to = to]
  <2>2. q.op # "claim" /\ req' = [req EXCEPT ![r] = q]
    BY <2>1 DEF New, Begin
  <2> HIDE DEF q
  <2> QED  BY <2>2, NotClaiming
<1>5. CASE AdminReleaseRead(r, a, t)
  <2>1. PICK clear : Begin(r, [New("adminRelease", a, t) EXCEPT !.clear = clear,
                                                                !.snap = Seen(t)])
    BY <1>5 DEF AdminReleaseRead
  <2> DEFINE q == [New("adminRelease", a, t) EXCEPT !.clear = clear, !.snap = Seen(t)]
  <2>2. q.op # "claim" /\ req' = [req EXCEPT ![r] = q]
    BY <2>1 DEF New, Begin
  <2> HIDE DEF q
  <2> QED  BY <2>2, NotClaiming
<1>6. CASE AdminReassignRead(r, a, t)
  <2>1. PICK clear, b : Begin(r, [New("adminReassign", a, t) EXCEPT
                                     !.clear = clear, !.aim = b, !.snap = Seen(t)])
    BY <1>6 DEF AdminReassignRead
  <2> DEFINE q == [New("adminReassign", a, t) EXCEPT
                      !.clear = clear, !.aim = b, !.snap = Seen(t)]
  <2>2. q.op # "claim" /\ req' = [req EXCEPT ![r] = q]
    BY <2>1 DEF New, Begin
  <2> HIDE DEF q
  <2> QED  BY <2>2, NotClaiming
<1> QED  BY <1>2, <1>3, <1>4, <1>5, <1>6 DEF ClaimReads

LEMMA StatusReadsStart ==
    ASSUME TypeOK, NEW r \in Requests, NEW a \in Actors, NEW t \in Tasks,
           StatusReads(r, a, t)
    PROVE  NoNewClaims
<1>1. ASSUME NEW s, NEW clear, Begin(r, StatusRequest(a, t, s, clear))
      PROVE  NoNewClaims
  BY <1>1, StatusFields, NotClaiming DEF Begin
<1>2. ASSUME NEW s, NEW clear, NEW result, NEW auto \in BOOLEAN,
             Begin(r, FinishRequest(a, t, s, clear, result, auto))
      PROVE  NoNewClaims
  BY <1>2, FinishFields, NotClaiming DEF Begin
<1>3. ASSUME NEW s, NEW route, Begin(r, MergeRequest(a, t, s, route))
      PROVE  NoNewClaims
  <2> DEFINE q == MergeRequest(a, t, s, route)
  <2>1. q.op # "claim" /\ req' = [req EXCEPT ![r] = q]
    BY <1>3 DEF MergeRequest, StatusRequest, New, Begin
  <2> HIDE DEF q
  <2> QED  BY <2>1, NotClaiming
<1>4. CASE CreatorAbandonRead(r, a, t) \/ DemoteRead(r, a, t) \/ UnabandonRead(r, a, t)
  <2>1. PICK op \in {"creatorAbandon", "demote", "unabandon"},
             s \in {Abandoned, Backlog, Def.initial} :
           Begin(r, [New(op, a, t) EXCEPT !.to = s])
    BY <1>4 DEF CreatorAbandonRead, DemoteRead, UnabandonRead
  <2> DEFINE q == [New(op, a, t) EXCEPT !.to = s]
  <2>2. q.op # "claim" /\ req' = [req EXCEPT ![r] = q]
    BY <2>1 DEF New, Begin
  <2> HIDE DEF q
  <2> QED  BY <2>2, NotClaiming
<1>5. CASE PatchBacklogRead(r, a, t) \/ PatchEchoRead(r, a, t) \/ PatchEdgeRead(r, a, t)
           \/ ReviewRead(r, a, t) \/ AdvanceRead(r, a, t)
  BY <1>1, <1>5 DEF PatchBacklogRead, PatchEchoRead, PatchEdgeRead, ReviewRead,
                    AdvanceRead
<1>6. CASE TransitionRead(r, a, t)
  <2>1. PICK s, force :
           Begin(r, [StatusRequest(a, t, s, ClearOnMove(row[t].status, s))
                     EXCEPT !.op = IF force THEN "forced" ELSE @])
    BY <1>6 DEF TransitionRead
  <2> DEFINE q == [StatusRequest(a, t, s, ClearOnMove(row[t].status, s))
                   EXCEPT !.op = IF force THEN "forced" ELSE @]
  <2>2. q.op # "claim" /\ req' = [req EXCEPT ![r] = q]
    BY <2>1 DEF StatusRequest, New, Begin
  <2> HIDE DEF q
  <2> QED  BY <2>2, NotClaiming
<1>7. CASE FinishReviewRead(r, a, t) \/ SelfApproveRead(r, a, t) \/ FinishWorkRead(r, a, t)
  BY <1>2, <1>7 DEF FinishReviewRead, SelfApproveRead, FinishWorkRead
<1>8. CASE FinishRecoveryRead(r, a, t)
  <2>1. PICK result :
           Begin(r, [StatusRequest(a, t, TerminalTarget(Def, row[t].status), Claims)
                     EXCEPT !.op = "merge", !.pc = "record", !.route = "finish",
                            !.result = result])
    BY <1>8 DEF FinishRecoveryRead
  <2> DEFINE q == [StatusRequest(a, t, TerminalTarget(Def, row[t].status), Claims)
                   EXCEPT !.op = "merge", !.pc = "record", !.route = "finish",
                          !.result = result]
  <2>2. q.op # "claim" /\ req' = [req EXCEPT ![r] = q]
    BY <2>1 DEF StatusRequest, New, Begin
  <2> HIDE DEF q
  <2> QED  BY <2>2, NotClaiming
<1>9. CASE MergeRead(r, a, t) \/ GithubMergeRead(r, a, t)
  BY <1>3, <1>9 DEF MergeRead, GithubMergeRead
<1> QED  BY <1>4, <1>5, <1>6, <1>7, <1>8, <1>9 DEF StatusReads

LEMMA WebhooksStart ==
    ASSUME TypeOK, NEW r \in Requests,
           \/ WebhookWrite(r)
           \/ \E op \in WebhookOps, t \in Tasks : WebhookRead(r, op, t)
    PROVE  NoNewClaims
<1>1. ASSUME NEW q \in Busy, NEW op \in WebhookOps, NEW u,
             req' = [req EXCEPT ![r] = WebhookNext(q, op, u)]
      PROVE  NoNewClaims
  <2>1. WebhookNext(q, op, u).op = op
    BY DEF WebhookNext, Busy
  <2> QED  BY <1>1, <2>1, NotClaiming DEF WebhookOps
<1>2. ASSUME NEW op \in WebhookOps, NEW t \in Tasks, WebhookRead(r, op, t)
      PROVE  NoNewClaims
  <2>1. New(op, NoActor, t) \in Busy
    BY NewIs, Parties DEF OpNames
  <2> QED  BY <1>1, <1>2, <2>1 DEF WebhookRead
<1>3. CASE WebhookWrite(r)
  <2>1. req[r] \in Busy /\ req[r].op \in WebhookOps
    BY <1>3, Running DEF WebhookWrite
  <2>2. CASE End(r)
    BY <2>2, EndsClaiming
  <2>3. CASE /\ req[r].tries < 2
             /\ req' = [req EXCEPT ![r] =
                   WebhookNext([req[r] EXCEPT !.tries = @ + 1], req[r].op, req[r].task)]
    <3>1. req[r].tries + 1 \in 0 .. 2
      BY <2>1, <2>3 DEF Busy
    <3>2. [req[r] EXCEPT !.tries = @ + 1] \in Busy
      BY <2>1, <3>1 DEF Busy
    <3> QED  BY <1>1, <2>1, <2>3, <3>2
  <2> QED  BY <1>3, <2>2, <2>3 DEF WebhookWrite
<1> QED  BY <1>2, <1>3

LEMMA WritesStart ==
    ASSUME TypeOK, NEW r \in Requests, Writes(r)
    PROVE  NoNewClaims
<1>1. req[r] # Idle
  BY StepRuns
<1>2. End(r) \/ Goto(r, "release") \/ WebhookWrite(r)
  BY DEF Writes, ClaimWrite, ReviewClaimWrite, ReleaseWrite, ReviewReleaseWrite,
    AbandonWrite, AdminReleaseWrite, AdminReassignWrite, CreatorAbandonWrite,
    DemoteWrite, UnabandonWrite, OffBoardWrite, WriteIf, StatusWrite
<1> QED  BY <1>1, <1>2, EndsClaiming, GotoClaiming, WebhooksStart

LEMMA MergeStepsStart ==
    ASSUME TypeOK, NEW r \in Requests, MergeSteps(r) \/ Crash(r)
    PROVE  NoNewClaims
<1> DEFINE q == req[r]
<1>1. q # Idle /\ q \in Busy
  BY StepRuns, Running
<1>2. CASE \E pc : End(r) \/ Goto(r, pc)
  BY <1>1, <1>2, EndsClaiming, GotoClaiming
<1>3. CASE GithubMerges(r) \/ (GithubAlreadyMerged(r) /\ q.route # "finish")
  <2>1. q.op = "merge"
    BY <1>3 DEF GithubMerges, GithubAlreadyMerged, At
  <2>2. PICK sha : req' = [req EXCEPT ![r].pc = "record", ![r].sha = sha]
    BY <1>3 DEF GithubMerges, GithubAlreadyMerged
  <2> DEFINE p == [q EXCEPT !.pc = "record", !.sha = sha]
  <2>3. p.op # "claim" /\ req' = [req EXCEPT ![r] = p]
    BY <1>1, <2>1, <2>2 DEF Busy
  <2> HIDE DEF p
  <2> QED  BY <2>3, NotClaiming
<1>4. CASE GithubAlreadyMerged(r) /\ q.route = "finish"
  <2> DEFINE p == [q EXCEPT !.pc = "write", !.op = "status"]
  <2>1. p.op # "claim" /\ req' = [req EXCEPT ![r] = p]
    BY <1>1, <1>4 DEF GithubAlreadyMerged, Busy
  <2> HIDE DEF p
  <2> QED  BY <2>1, NotClaiming
<1>5. CASE Reread(r) \/ RereadResult(r)
  <2>1. q.op = "merge"
    BY <1>5 DEF Reread, RereadResult, At
  <2>2. \/ Goto(r, "release")
        \/ \E flag : req' = [req EXCEPT ![r].pc = "retry", ![r].snap = Seen(q.task),
                                        ![r].result = flag]
    BY <1>5, Zenon DEF Reread, RereadResult
  <2>3. ASSUME NEW flag,
               req' = [req EXCEPT ![r].pc = "retry", ![r].snap = Seen(q.task),
                                  ![r].result = flag]
        PROVE  NoNewClaims
    <3> DEFINE p == [q EXCEPT !.pc = "retry", !.snap = Seen(q.task), !.result = flag]
    <3>1. p.op # "claim" /\ req' = [req EXCEPT ![r] = p]
      BY <1>1, <2>1, <2>3 DEF Busy
    <3> HIDE DEF p
    <3> QED  BY <3>1, NotClaiming
  <2> QED  BY <1>2, <2>2, <2>3
<1>6. CASE RecordWrite(r) \/ RetryWrite(r)
  <2>1. \E cond, pc : MergedWrite(r, cond, pc)
    BY <1>6, Zenon DEF RecordWrite, RetryWrite
  <2> QED  BY <1>2, <2>1 DEF MergedWrite
<1>7. CASE \/ Reserve(r) \/ GithubRefuses(r) \/ GithubCheckFails(r)
           \/ GithubUnknown(r) \/ Release(r) \/ Crash(r)
  BY <1>2, <1>7 DEF Reserve, GithubRefuses, GithubCheckFails, GithubUnknown, Release,
                    Crash
<1> QED  BY <1>3, <1>4, <1>5, <1>6, <1>7 DEF MergeSteps

\* A work claim is asked for only by a read that saw every blocker done.
LEMMA ClaimsStart ==
    ASSUME TypeOK, [Next]_vars
    PROVE  \/ NoNewClaims
           \/ \E r \in Requests, a \in Actors, t \in Tasks :
                 MayTakeWork(t, a) /\ Begin(r, NewClaim(a, t))
<1>1. ASSUME NEW r \in Requests, NEW a \in Actors, NEW t \in Tasks, ClaimReads(r, a, t)
      PROVE  NoNewClaims \/ (MayTakeWork(t, a) /\ Begin(r, NewClaim(a, t)))
  BY <1>1, ClaimReadsStart DEF ClaimRead, StartWorkRead
<1>2. req' = req => NoNewClaims
  BY DEF NoNewClaims, Claiming
<1>3. CASE UNCHANGED vars
  BY <1>2, <1>3 DEF vars
<1>4. ASSUME NEW t \in Tasks, Lapse(t) \/ ExternalMerge(t) \/ PatchResult(t)
      PROVE  NoNewClaims
  <2>1. req' = req
    BY <1>4 DEF Lapse, ExternalMerge, PatchResult
  <2> QED  BY <1>2, <2>1
<1>5. CASE \E r \in FreeSlots, a \in Actors, t \in Tasks :
              ClaimReads(r, a, t) \/ StatusReads(r, a, t)
  <2>1. PICK r \in Requests, a \in Actors, t \in Tasks :
           ClaimReads(r, a, t) \/ StatusReads(r, a, t)
    BY <1>5 DEF FreeSlots
  <2> QED  BY <1>1, <2>1, StatusReadsStart
<1>6. ASSUME NEW r \in Requests,
             \/ Writes(r) \/ MergeSteps(r) \/ Crash(r)
             \/ \E op \in WebhookOps, t \in Tasks : WebhookRead(r, op, t)
      PROVE  NoNewClaims
  BY <1>6, WebhooksStart, WritesStart, MergeStepsStart
<1> QED  BY <1>3, <1>4, <1>5, <1>6 DEF Next

LEMMA BlockersStayDone ==
    ASSUME TypeOK, BlockersDone, [Next]_vars, \A t \in Tasks : Done(t) => Done(t)'
    PROVE  BlockersDone'
<1>1. CASE NoNewClaims
  <2> SUFFICES ASSUME NEW r \in Requests, Claiming(r)', NEW b \in BlockedBy[req'[r].task]
               PROVE  Done(b)'
    BY DEF BlockersDone
  <2>1. Claiming(r) /\ req'[r].task = req[r].task
    BY <1>1 DEF NoNewClaims
  <2>2. req[r].task \in Tasks
    BY <2>1, Running DEF Claiming
  <2> QED  BY <2>1, <2>2, ProjectAssumption DEF BlockersDone
<1>2. ASSUME NEW r \in Requests, NEW a \in Actors, NEW t \in Tasks,
             MayTakeWork(t, a), Begin(r, NewClaim(a, t))
      PROVE  BlockersDone'
  <2> SUFFICES ASSUME NEW x \in Requests, Claiming(x)', NEW b \in BlockedBy[req'[x].task]
               PROVE  Done(b)'
    BY DEF BlockersDone
  <2>1. NewClaim(a, t).task = t
    BY DEF NewClaim, New
  <2>2. CASE x = r
    <3>1. b \in BlockedBy[t] /\ b \in Tasks
      BY <1>2, <2>1, <2>2, ProjectAssumption DEF Begin, TypeOK
    <3>2. Done(b)
      BY <1>2, <3>1 DEF MayTakeWork, UnresolvedBlockers, Done
    <3> QED  BY <3>1, <3>2
  <2>3. CASE x # r
    <3>1. Claiming(x) /\ req'[x].task = req[x].task
      BY <1>2, <2>3 DEF Begin, TypeOK, Claiming
    <3>2. req[x].task \in Tasks
      BY <3>1, Running DEF Claiming
    <3> QED  BY <3>1, <3>2, ProjectAssumption DEF BlockersDone
  <2> QED  BY <2>2, <2>3
<1> QED  BY <1>1, <1>2, ClaimsStart

\* What lasts: a blocker that is done stays done.
DoneLasts == [][\A t \in Tasks : Done(t) => Done(t)']_vars

\* Work begins only on a task whose blockers are all finished or abandoned, in
\* every execution in which a blocker that is done stays done: nothing else
\* can come between the read that looks at the blockers and the write.
THEOREM StartsAreUnblocked == Spec /\ DoneLasts => StartedUnblocked
<1>1. Init => BlockersDone
  BY DEF Init, BlockersDone, Claiming
<1>2. /\ TypeOK /\ BlockersDone /\ [Next]_vars
      /\ [\A t \in Tasks : Done(t) => Done(t)']_vars
      => BlockersDone'
  <2> SUFFICES ASSUME TypeOK, BlockersDone, [Next]_vars,
                      [\A t \in Tasks : Done(t) => Done(t)']_vars
               PROVE  BlockersDone'
    OBVIOUS
  <2>1. CASE \A t \in Tasks : Done(t) => Done(t)'
    BY <2>1, BlockersStayDone
  <2>2. CASE UNCHANGED vars
    BY <2>2 DEF vars, BlockersDone, Claiming, Done
  <2> QED  BY <2>1, <2>2
<1>3. TypeOK /\ Decisions /\ BlockersDone /\ [Next]_vars
         => [\A t \in Tasks :
                row[t].status = Def.initial /\ row[t].work = NoActor /\ row'[t].work # NoActor
                => \A b \in BlockedBy[t] :
                      IsTerminal(Def, row[b].status) \/ row[b].status = Abandoned]_vars
  <2> SUFFICES ASSUME TypeOK, Decisions, BlockersDone, Next, NEW t \in Tasks,
                      row[t].work = NoActor, row'[t].work # NoActor,
                      NEW b \in BlockedBy[t]
               PROVE  Done(b)
    BY DEF Done
  <2>1. OnBoard(row'[t]) # OnBoard(row[t])
    BY DEF OnBoard
  <2>2. PICK r \in Requests : Writes(r) \/ MergeSteps(r) \/ Crash(r)
    BY <2>1, ShownByRequest
  <2>3. \E new : /\ row' = [row EXCEPT ![req[r].task] = new]
                 /\ Effect(req[r], row[req[r].task], new)
    BY <2>1, <2>2, StepEffects DEF EffectStep
  <2>4. PICK new : /\ row' = [row EXCEPT ![req[r].task] = new]
                   /\ Effect(req[r], row[req[r].task], new)
    BY <2>3
  <2>5. req[r].task = t /\ row'[t] = new
    BY <2>4 DEF TypeOK
  <2>6. Claiming(r)
    BY <2>2, <2>4, <2>5, StepRuns DEF Effect, Claiming
  <2> QED  BY <2>5, <2>6 DEF BlockersDone
<1> QED  BY <1>1, <1>2, <1>3, TypeCorrect, DecisionsHold, PTL
         DEF Spec, DoneLasts, StartedUnblocked

\* Nothing restores an abandoned task or leads out of a finished one: the
\* workflow has no edge that reopens a task, nobody PATCHes a status, and a
\* merged pull request does not bring an abandoned task back to review.
NothingReturns ==
    /\ \A i \in DOMAIN Def.edges :
          IsTerminal(Def, Def.edges[i].from) => IsTerminal(Def, Def.edges[i].to)
    /\ "patch" \notin Ops
    /\ Mode = "AUTONOMOUS" \/ "prMerged" \notin Ops

\* In an instance where nothing returns, work begins only on a task whose
\* blockers are all finished or abandoned.
THEOREM StartsUnblocked ==
    ASSUME StartsWork, NothingReturns
    PROVE  Spec => StartedUnblocked
<1>1. /\ TypeOK /\ Decisions /\ OffBoardUnclaimed /\ [Next]_vars
      /\ [\A t \in Tasks :
             /\ IsTerminal(Def, row[t].status) /\ ~IsTerminal(Def, row'[t].status)
             => HasEdge(Def, row[t].status, row'[t].status)]_vars
      => [\A t \in Tasks : Done(t) => Done(t)']_vars
  <2> SUFFICES ASSUME TypeOK, Decisions, OffBoardUnclaimed, Next, NEW t \in Tasks,
                      IsTerminal(Def, row[t].status) /\ ~IsTerminal(Def, row'[t].status)
                         => HasEdge(Def, row[t].status, row'[t].status),
                      Done(t)
               PROVE  Done(t)'
    OBVIOUS
  <2>1. CASE IsTerminal(Def, row[t].status)
    BY <2>1 DEF NothingReturns, Done, HasEdge
  <2>2. CASE OnBoard(row'[t]) = OnBoard(row[t])
    BY <2>2, OnBoardSame DEF Done
  <2>3. CASE row[t].status = Abandoned /\ OnBoard(row'[t]) # OnBoard(row[t])
    <3>1. PICK r \in Requests : Writes(r) \/ MergeSteps(r) \/ Crash(r)
      BY <2>3, ShownByRequest
    <3>2. \E new : /\ row' = [row EXCEPT ![req[r].task] = new]
                   /\ Effect(req[r], row[req[r].task], new)
      BY <2>3, <3>1, StepEffects DEF EffectStep
    <3>3. PICK new : /\ row' = [row EXCEPT ![req[r].task] = new]
                     /\ Effect(req[r], row[req[r].task], new)
      BY <3>2
    <3>4. req[r].task = t /\ row'[t] = new
      BY <2>3, <3>3 DEF TypeOK
    <3>5. Returning(req[r], row[t], row'[t])
      BY <2>3, <3>3, <3>4 DEF Effect
    <3>6. /\ req[r].op = "unabandon" => "patch" \in Ops
          /\ req[r].op \notin WebhookOps => req[r].actor \in Actors
      BY <3>1, StepRuns, RunningDecided
      DEF Decided, OffBoardDecision, WebhookDecision
    <3>7. row[t].work = NoActor
      BY <2>3 DEF OffBoardUnclaimed, NoClaims
    <3> QED  BY <3>5, <3>6, <3>7, ActorsAssumption
             DEF Returning, NothingReturns, Done
  <2> QED  BY <2>1, <2>2, <2>3 DEF Done
<1> QED  BY <1>1, StartsAreUnblocked, TerminalStays, TypeCorrect, DecisionsHold,
            OffBoardFree, PTL DEF Spec, DoneLasts, TerminalIsFinal

=============================================================================
