---------------------------- MODULE SignalsProofs ----------------------------
(***************************************************************************)
(* Signals, for any number of agents, people, requests and pickups.  Two   *)
(* races are excluded.  An emission, which runs after its write and beside *)
(* everything else, loses no reviewer: at every moment a reviewer who is   *)
(* due has a row or is still on the list of an emission.  And an emission  *)
(* that is slower than the handler that finishes the task wakes nobody: an *)
(* ask which an agent has found was created before the task was finished.  *)
(***************************************************************************)
EXTENDS Signals, WellFoundedInduction, TLAPS

TaskRow == [status : Statuses, work : Actors \cup {Nobody}, review : Actors \cup {Nobody}]
Slot == [ack : 0 .. MaxWrites, out : SUBSET Emission]
Call == [pc : {"idle", "find", "ack"}, agent : Agents \cup {Nobody}, sig : Nat]
Dues == {"review_needed", "task_force_transitioned"}
Due == [write : 0 .. MaxWrites, to : SUBSET Actors]

\* Only the recipients of a forced transition are looked up after the write.
Listed(e) == e.resolved \/ e.type = "task_force_transitioned"
ListsKnown == \A s \in Slots : \A e \in req[s].out : Listed(e)

\* A finished task stays finished; a row that was late found it so.
LateIsFinished == \A i \in DOMAIN signals : signals[i].late => task.status = "done"

\* What a pickup has found.
FoundInTime ==
    \A c \in Calls : pick[c].pc = "ack" =>
        /\ pick[c].sig \in DOMAIN signals
        /\ signals[pick[c].sig].type \in Asks => ~signals[pick[c].sig].late

IInv == TypeOK /\ ListsKnown /\ LateIsFinished /\ FoundInTime
        /\ LateAskNotHanded /\ ReviewersAsked

-----------------------------------------------------------------------------
(* Types.                                                                  *)

LEMMA Types ==
    TypeOK <=> /\ task \in TaskRow /\ req \in [Slots -> Slot]
               /\ signals \in Seq(Signal)
               /\ pick \in [Calls -> Call]
               /\ \A c \in Calls : pick[c].sig <= Len(signals)
               /\ writes \in 0 .. MaxWrites
               /\ due \in [Dues -> Due] /\ broken \subseteq 1 .. MaxWrites
<1> DEFINE P == [pc : {"idle", "find", "ack"}, agent : Agents \cup {Nobody},
                 sig : 0 .. Len(signals)]
<1>1. ASSUME signals \in Seq(Signal)
      PROVE  pick \in [Calls -> P]
             <=> pick \in [Calls -> Call] /\ \A c \in Calls : pick[c].sig <= Len(signals)
  <2>0. Len(signals) \in Nat
    BY <1>1
  <2>1. ASSUME NEW p PROVE p \in P <=> p \in Call /\ p.sig <= Len(signals)
    BY <2>0 DEF Call
  <2> HIDE DEF P
  <2> QED  BY <2>1
<1> QED  BY <1>1 DEF TypeOK, TaskRow, Slot, Dues, Due

LEMMA TypesAfter ==
    ASSUME task' \in TaskRow, req' \in [Slots -> Slot], signals' \in Seq(Signal),
           pick' \in [Calls -> Call], \A c \in Calls : pick'[c].sig <= Len(signals'),
           writes' \in 0 .. MaxWrites, due' \in [Dues -> Due], broken' \subseteq 1 .. MaxWrites
    PROVE  TypeOK'
<1> DEFINE P == [pc : {"idle", "find", "ack"}, agent : Agents \cup {Nobody},
                 sig : 0 .. Len(signals')]
<1>0. Len(signals') \in Nat
  OBVIOUS
<1>1. ASSUME NEW p \in Call, p.sig <= Len(signals') PROVE p \in P
  BY <1>0, <1>1 DEF Call
<1> HIDE DEF P
<1>2. pick' \in [Calls -> P]
  BY <1>1
<1> QED  BY <1>2 DEF TypeOK, TaskRow, Slot, Dues, Due, P

\* The rows that are there stay, with all that was said when they were created.
RowsKept ==
    /\ Len(signals) <= Len(signals')
    /\ \A i \in DOMAIN signals :
          /\ signals'[i].type = signals[i].type /\ signals'[i].to = signals[i].to
          /\ signals'[i].write = signals[i].write /\ signals'[i].late = signals[i].late

\* Actor a has a row of the write w, or is on the list of one of its emissions.
Reached(w, a) ==
    \/ \E i \in DOMAIN signals : /\ signals[i].type = "review_needed"
                                 /\ signals[i].to = a /\ signals[i].write = w
    \/ \E s \in Slots : \E e \in req[s].out :
          /\ e.type = "review_needed" /\ e.write = w
          /\ e.resolved => a \in e.to

LEMMA AskedIs ==
    ReviewersAsked <=>
       (due["review_needed"].write \notin broken =>
           \A a \in due["review_needed"].to : Reached(due["review_needed"].write, a))
BY DEF ReviewersAsked, Announced, Reached

LEMMA AskedAfter ==
    ASSUME NEW w, NEW who,
           due'["review_needed"].write = w, due'["review_needed"].to = who,
           w \notin broken' => \A a \in who : Reached(w, a)'
    PROVE  ReviewersAsked'
BY DEF ReviewersAsked, Announced, Reached

LEMMA RowsReach ==
    ASSUME signals \in Seq(Signal), signals' \in Seq(Signal), RowsKept,
           NEW w, NEW a, NEW i \in DOMAIN signals,
           signals[i].type = "review_needed", signals[i].to = a, signals[i].write = w
    PROVE  Reached(w, a)'
<1>1. i \in DOMAIN signals'
  BY DEF RowsKept
<1> QED  BY <1>1 DEF RowsKept, Reached

\* Nothing but an end of emissions, which is recorded, can lose somebody due.
LEMMA StillAsked ==
    ASSUME ReviewersAsked, signals \in Seq(Signal), signals' \in Seq(Signal), RowsKept,
           due' = due, broken \subseteq broken',
           \A s \in Slots : \A e \in req[s].out : \A a :
              e.type = "review_needed" /\ (e.resolved => a \in e.to) =>
                 e.write \in broken' \/ Reached(e.write, a)'
    PROVE  ReviewersAsked'
<1> DEFINE w == due["review_needed"].write
<1>1. SUFFICES ASSUME w \notin broken', NEW a \in due["review_needed"].to
               PROVE  Reached(w, a)'
  BY DEF ReviewersAsked, Announced, Reached
<1>2. Reached(w, a)
  BY <1>1, AskedIs
<1>3. CASE \E i \in DOMAIN signals : /\ signals[i].type = "review_needed"
                                     /\ signals[i].to = a /\ signals[i].write = w
  BY <1>3, RowsReach
<1>4. CASE \E s \in Slots : \E e \in req[s].out :
              /\ e.type = "review_needed" /\ e.write = w
              /\ e.resolved => a \in e.to
  BY <1>1, <1>4
<1> QED  BY <1>2, <1>3, <1>4 DEF Reached

-----------------------------------------------------------------------------
(* The writes.                                                             *)

LEMMA Emitted ==
    ASSUME TypeOK, writes < MaxWrites, NEW type \in Asks \cup Outcomes, NEW to \in SUBSET Actors
    PROVE  /\ Emit(type, to) \in Emission /\ Emit(type, to).resolved
           /\ Emit(type, to).type = type /\ Emit(type, to).to = to
           /\ Emit(type, to).write = writes + 1
<1>1. writes + 1 \in 1 .. MaxWrites
  BY BoundAssumption DEF TypeOK
<1> QED  BY <1>1 DEF Emit, Emission

\* The row and the emissions of a write are such, ...
Fits(row, out) ==
    /\ task.status # "done" /\ row \in TaskRow
    /\ \A e \in out : e \in Emission /\ Listed(e)
    /\ row.status = "review" /\ task.status # "review" =>
          Review(task.work) \in out \/ writes + 1 \in broken'

\* ... that the invariant survives it.
LEMMA WriteKept ==
    ASSUME IInv, NEW s \in Slots, NEW row, NEW ack \in BOOLEAN, NEW out,
           WriteRow(s, row, ack, out), Fits(row, out),
           broken' \in {broken, broken \cup {writes + 1}}
    PROVE  IInv'
<1> DEFINE n == [ack |-> IF ack THEN writes + 1 ELSE 0, out |-> out]
           asked == IF row.status = "review" /\ task.status # "review"
                    THEN [write |-> writes + 1, to |-> Actors \ {task.work}]
                    ELSE due["review_needed"]
<1>1. /\ Quiet(s) /\ writes < MaxWrites /\ task' = row /\ req' = [req EXCEPT ![s] = n]
      /\ writes' = writes + 1 /\ UNCHANGED <<signals, pick>>
  BY DEF WriteRow
<1>2. /\ task \in TaskRow /\ req \in [Slots -> Slot] /\ signals \in Seq(Signal)
      /\ pick \in [Calls -> Call] /\ \A c \in Calls : pick[c].sig <= Len(signals)
      /\ writes \in 0 .. MaxWrites /\ due \in [Dues -> Due] /\ broken \subseteq 1 .. MaxWrites
  BY Types DEF IInv
<1>3. writes + 1 \in 1 .. MaxWrites
  BY <1>1, <1>2, BoundAssumption
<1>4. n \in Slot /\ n.out = out
  BY <1>3, BoundAssumption DEF Slot, Fits
<1>5. due' \in [Dues -> Due] /\ due'["review_needed"] = asked
  <2> DEFINE forced == IF Forced \in out
                       THEN [write |-> writes + 1,
                             to |-> {task.work, task.review} \ {Nobody, Admin}]
                       ELSE due["task_force_transitioned"]
  <2>1. due' = [due EXCEPT !["review_needed"] = asked, !["task_force_transitioned"] = forced]
    BY <1>2 DEF WriteRow, Dues
  <2>2. asked \in Due
    BY <1>2, <1>3 DEF Dues, Due
  <2>3. forced \in Due
    BY <1>2, <1>3, ActorsAssumption DEF Dues, Due, TaskRow
  <2> HIDE DEF asked, forced
  <2> QED  BY <1>2, <2>1, <2>2, <2>3 DEF Dues
<1>6. TypeOK'
  <2>1. broken' \subseteq 1 .. MaxWrites
    BY <1>2, <1>3
  <2>2. /\ task' \in TaskRow /\ req' \in [Slots -> Slot] /\ signals' \in Seq(Signal)
        /\ pick' \in [Calls -> Call] /\ \A c \in Calls : pick'[c].sig <= Len(signals')
        /\ writes' \in 0 .. MaxWrites
    <3> HIDE DEF n
    <3> QED  BY <1>1, <1>2, <1>3, <1>4 DEF Fits
  <2> QED  BY <1>5, <2>1, <2>2, TypesAfter
<1>7. ListsKnown' /\ FoundInTime' /\ LateAskNotHanded'
  <2>1. \A q \in Slots : req'[q].out = IF q = s THEN out ELSE req[q].out
    <3> HIDE DEF n
    <3> QED  BY <1>1, <1>2, <1>4
  <2>2. FoundInTime' /\ LateAskNotHanded'
    BY <1>1 DEF IInv, FoundInTime, LateAskNotHanded
  <2>3. ListsKnown'
    BY <2>1 DEF IInv, ListsKnown, Fits, Listed
  <2> QED  BY <2>2, <2>3
<1>8. LateIsFinished'
  BY <1>1 DEF Fits, LateIsFinished, IInv
<1>9. ReviewersAsked'
  <2>1. CASE row.status = "review" /\ task.status # "review"
    <3>1. asked = [write |-> writes + 1, to |-> Actors \ {task.work}]
      BY <2>1
    <3>2. Review(task.work) \in out =>
             /\ Review(task.work).type = "review_needed" /\ Review(task.work).write = writes + 1
             /\ Review(task.work).to = Actors \ {task.work}
      BY DEF Review, Emit, Reviewers
    <3>3. req'[s].out = out
      <4> HIDE DEF n
      <4> QED  BY <1>1, <1>2, <1>4
    <3>4. PICK w, who, e : /\ w = writes + 1 /\ who = Actors \ {task.work}
                           /\ e = Review(task.work)
      OBVIOUS
    <3>5. w \notin broken' => e \in req'[s].out
      BY <2>1, <3>3, <3>4 DEF Fits
    <3>6. w \notin broken' => e.type = "review_needed" /\ e.write = w /\ e.to = who
      BY <3>2, <3>3, <3>4, <3>5
    <3>7. w \notin broken' => \A a \in who : Reached(w, a)'
      BY <3>5, <3>6 DEF Reached
    <3>8. due'["review_needed"].write = w /\ due'["review_needed"].to = who
      BY <1>5, <3>1, <3>4
    <3> QED  BY <3>7, <3>8, AskedAfter
  <2>2. CASE ~(row.status = "review" /\ task.status # "review")
    <3>1. due'["review_needed"] = due["review_needed"]
      BY <1>5, <2>2
    <3>2. \A q \in Slots : \A e \in req[q].out : q # s /\ e \in req'[q].out
      <4> HIDE DEF n
      <4> QED  BY <1>1, <1>2 DEF Quiet
    <3>3. ASSUME NEW w, NEW a, Reached(w, a) PROVE Reached(w, a)'
      BY <1>1, <3>2, <3>3 DEF Reached
    <3>4. PICK w, who : w = due["review_needed"].write /\ who = due["review_needed"].to
      OBVIOUS
    <3>5. w \notin broken' => \A a \in who : Reached(w, a)
      BY <3>4, AskedIs DEF IInv
    <3>6. w \notin broken' => \A a \in who : Reached(w, a)'
      BY <3>3, <3>5
    <3> QED  BY <3>1, <3>4, <3>6, AskedAfter
  <2> QED  BY <2>1, <2>2
<1> QED  BY <1>6, <1>7, <1>8, <1>9 DEF IInv

-----------------------------------------------------------------------------
(* The handlers.                                                           *)

\* What a handler may store: the row, some of it replaced.
LEMMA RowIs ==
    ASSUME TypeOK
    PROVE  /\ task \in TaskRow /\ Finished \in TaskRow /\ Finished.status = "done"
           /\ \A s \in Statuses : /\ [task EXCEPT !.status = s] \in TaskRow
                                  /\ [task EXCEPT !.status = s].status = s
           /\ \A s \in Statuses, a \in Actors \cup {Nobody} :
                 /\ [task EXCEPT !.status = s, !.work = a] \in TaskRow
                 /\ [task EXCEPT !.status = s, !.work = a].status = s
                 /\ [task EXCEPT !.status = s, !.review = a] \in TaskRow
                 /\ [task EXCEPT !.status = s, !.review = a].status = s
           /\ \A a \in Actors : /\ [task EXCEPT !.review = a] \in TaskRow
                                /\ [task EXCEPT !.review = a].status = task.status
<1>1. task \in TaskRow
  BY DEF TypeOK, TaskRow
<1> QED  BY <1>1 DEF TaskRow, Finished, Statuses

\* What a handler may send.
LEMMA EmissionsAre ==
    ASSUME TypeOK, writes < MaxWrites
    PROVE  /\ Review(task.work) \in Emission /\ Listed(Review(task.work))
           /\ Available \in Emission /\ Listed(Available)
           /\ Forced \in Emission /\ Listed(Forced)
           /\ \A type \in Outcomes : Assignee(type) \in Emission /\ Listed(Assignee(type))
           /\ \A a \in Actors : MergeNotice(a) \in Emission /\ Listed(MergeNotice(a))
<1>0. task.work \in Actors \cup {Nobody}
  BY DEF TypeOK
<1>1. Review(task.work) \in Emission /\ Listed(Review(task.work))
  BY Emitted DEF Review, Reviewers, Listed, Asks
<1>2. Available \in Emission /\ Listed(Available)
  BY Emitted DEF Available, Listed, Asks, Actors
<1>3. Forced \in Emission /\ Listed(Forced)
  <2> DEFINE e == Emit("task_force_transitioned", {})
  <2>1. e \in Emission /\ e.type = "task_force_transitioned"
    BY Emitted DEF Outcomes
  <2> HIDE DEF e
  <2>2. [e EXCEPT !.resolved = FALSE] \in Emission
        /\ [e EXCEPT !.resolved = FALSE].type = "task_force_transitioned"
    BY <2>1 DEF Emission
  <2> QED  BY <2>2 DEF Forced, Listed, e
<1>4. ASSUME NEW type \in Outcomes PROVE Assignee(type) \in Emission /\ Listed(Assignee(type))
  BY <1>0, Emitted DEF Assignee, Listed
<1>5. ASSUME NEW a \in Actors PROVE MergeNotice(a) \in Emission /\ Listed(MergeNotice(a))
  BY Emitted DEF MergeNotice, Listed, Outcomes, Actors
<1> QED  BY <1>1, <1>2, <1>3, <1>4, <1>5

\* A write that announces nothing to reviewers: it does not lead into review.
LEMMA PlainWrite ==
    ASSUME IInv, NEW s \in Slots, NEW row \in TaskRow, NEW ack \in BOOLEAN, NEW out,
           Write(s, row, ack, out), task.status # "done",
           row.status # "review" \/ task.status = "review",
           \A e \in out : e \in Emission /\ Listed(e)
    PROVE  IInv'
<1>1. WriteRow(s, row, ack, out) /\ broken' = broken
  BY DEF Write
<1>2. Fits(row, out)
  BY DEF Fits
<1> QED  BY <1>1, <1>2, WriteKept

LEMMA HandleKept ==
    ASSUME IInv, NEW s \in Slots, Handle(s)
    PROVE  IInv'
<1>0. TypeOK
  BY DEF IInv
<1>1. ASSUME NEW row, NEW ack, NEW out, WriteRow(s, row, ack, out) PROVE writes < MaxWrites
  BY <1>1 DEF WriteRow
<1>2. ASSUME NEW a \in Agents, Start(s, a) PROVE IInv'
  <2> DEFINE row == [task EXCEPT !.status = "work", !.work = a]
             out == {}
  <2>1. Write(s, row, FALSE, out) /\ task.status # "done"
    BY <1>2 DEF Start
  <2>2. row \in TaskRow /\ row.status = "work"
    BY <1>0, RowIs DEF Statuses, Actors
  <2>3. \A e \in out : e \in Emission /\ Listed(e)
    OBVIOUS
  <2> HIDE DEF row, out
  <2> QED  BY <2>1, <2>2, <2>3, PlainWrite
<1>3. ASSUME NEW a \in Actors, LockReview(s, a) PROVE IInv'
  <2> DEFINE row == [task EXCEPT !.review = a]
             out == {}
  <2>1. Write(s, row, FALSE, out) /\ task.status # "done"
        /\ task.status = "review"
    BY <1>3 DEF LockReview
  <2>2. row \in TaskRow /\ row.status = task.status
    BY <1>0, RowIs DEF Statuses, Actors
  <2>3. \A e \in out : e \in Emission /\ Listed(e)
    OBVIOUS
  <2> HIDE DEF row, out
  <2> QED  BY <2>1, <2>2, <2>3, PlainWrite
<1>4. ASSUME NEW a \in Actors, Merge(s, a) PROVE IInv'
  <2> DEFINE row == Finished
             out == {MergeNotice(a)}
  <2>1. Write(s, row, TRUE, out) /\ task.status # "done"
    BY <1>4 DEF Merge
  <2>2. row \in TaskRow /\ row.status = "done"
    BY <1>0, RowIs DEF Statuses, Actors
  <2>3. \A e \in out : e \in Emission /\ Listed(e)
    BY <1>0, <1>1, <2>1, EmissionsAre DEF Write
  <2> HIDE DEF row, out
  <2> QED  BY <2>1, <2>2, <2>3, PlainWrite
<1>5. CASE Finish(s)
  <2>1. /\ WriteRow(s, [task EXCEPT !.status = "review"], FALSE, {Review(task.work)})
        /\ task.status = "work" /\ broken' = broken
    BY <1>5 DEF Finish, Write
  <2>2. Fits([task EXCEPT !.status = "review"], {Review(task.work)})
    BY <1>0, <1>1, <2>1, RowIs, EmissionsAre DEF Fits, Statuses
  <2> QED  BY <2>1, <2>2, WriteKept
<1>6. CASE Approve(s)
  <2> DEFINE row == Finished
             out == {Assignee("task_approved")}
  <2>1. Write(s, row, TRUE, out) /\ task.status # "done"
    BY <1>6 DEF Approve
  <2>2. row \in TaskRow /\ row.status = "done"
    BY <1>0, RowIs DEF Statuses, Actors
  <2>3. \A e \in out : e \in Emission /\ Listed(e)
    BY <1>0, <1>1, <2>1, EmissionsAre DEF Write, Outcomes
  <2> HIDE DEF row, out
  <2> QED  BY <2>1, <2>2, <2>3, PlainWrite
<1>7. CASE RequestChanges(s)
  <2> DEFINE row == [task EXCEPT !.status = "work", !.review = Nobody]
             out == {Assignee("changes_requested")}
  <2>1. Write(s, row, FALSE, out) /\ task.status # "done"
    BY <1>7 DEF RequestChanges
  <2>2. row \in TaskRow /\ row.status = "work"
    BY <1>0, RowIs DEF Statuses, Actors
  <2>3. \A e \in out : e \in Emission /\ Listed(e)
    BY <1>0, <1>1, <2>1, EmissionsAre DEF Write, Outcomes
  <2> HIDE DEF row, out
  <2> QED  BY <2>1, <2>2, <2>3, PlainWrite
<1>8. CASE Reopen(s)
  <2> DEFINE row == [task EXCEPT !.status = "open"]
             out == {Available}
  <2>1. Write(s, row, FALSE, out) /\ task.status # "done"
    BY <1>8 DEF Reopen
  <2>2. row \in TaskRow /\ row.status = "open"
    BY <1>0, RowIs DEF Statuses, Actors
  <2>3. \A e \in out : e \in Emission /\ Listed(e)
    BY <1>0, <1>1, <2>1, EmissionsAre DEF Write
  <2> HIDE DEF row, out
  <2> QED  BY <2>1, <2>2, <2>3, PlainWrite
<1>9. CASE Release(s)
  <2> DEFINE row == [task EXCEPT !.status = "open", !.work = Nobody]
             out == {}
  <2>1. Write(s, row, FALSE, out) /\ task.status # "done"
    BY <1>9 DEF Release
  <2>2. row \in TaskRow /\ row.status = "open"
    BY <1>0, RowIs DEF Statuses, Actors
  <2>3. \A e \in out : e \in Emission /\ Listed(e)
    OBVIOUS
  <2> HIDE DEF row, out
  <2> QED  BY <2>1, <2>2, <2>3, PlainWrite
<1>14. CASE Demote(s)
  <2> DEFINE row == [task EXCEPT !.status = "backlog"]
             out == {}
  <2>1. Write(s, row, TRUE, out) /\ task.status # "done"
    BY <1>14 DEF Demote
  <2>2. row \in TaskRow /\ row.status = "backlog"
    BY <1>0, RowIs DEF Statuses, Actors
  <2>3. \A e \in out : e \in Emission /\ Listed(e)
    OBVIOUS
  <2> HIDE DEF row, out
  <2> QED  BY <2>1, <2>2, <2>3, PlainWrite
<1>15. CASE Promote(s)
  <2> DEFINE row == [task EXCEPT !.status = "open"]
             out == {}
  <2>1. Write(s, row, FALSE, out) /\ task.status # "done"
    BY <1>15 DEF Promote
  <2>2. row \in TaskRow /\ row.status = "open"
    BY <1>0, RowIs DEF Statuses, Actors
  <2>3. \A e \in out : e \in Emission /\ Listed(e)
    OBVIOUS
  <2> HIDE DEF row, out
  <2> QED  BY <2>1, <2>2, <2>3, PlainWrite
<1>10. ASSUME NEW to \in Statuses, ForceTransition(s, to) PROVE IInv'
  <2> DEFINE row == IF to = "done" THEN Finished
                    ELSE IF task.status = "review" /\ to # "review"
                    THEN [task EXCEPT !.status = to, !.review = Nobody]
                    ELSE [task EXCEPT !.status = to]
             out == {Forced}
                    \cup (IF to = "review" /\ task.status # "review"
                          THEN {Review(task.work)} ELSE {})
                    \cup (IF to = "open" /\ task.status # "open" THEN {Available} ELSE {})
             ack == to = "done"
  <2>1. WriteRow(s, row, ack, out) /\ broken' = broken
    BY <1>10 DEF ForceTransition, Write
  <2>2. task.status # "done"
    BY <1>10, EdgesAssumption DEF ForceTransition
  <2>3. row \in TaskRow /\ row.status = to
    BY <1>0, RowIs
  <2>4. \A e \in out : e \in Emission /\ Listed(e)
    BY <1>0, <1>1, <2>1, EmissionsAre
  <2>5. to = "review" /\ task.status # "review" => Review(task.work) \in out
    OBVIOUS
  <2> HIDE DEF row, out
  <2>6. Fits(row, out)
    BY <2>2, <2>3, <2>4, <2>5 DEF Fits
  <2>7. ack \in BOOLEAN
    OBVIOUS
  <2> HIDE DEF ack
  <2> QED  BY <2>1, <2>6, <2>7, WriteKept
<1>11. CASE WebhookMerged(s)
  <2>1. /\ WriteRow(s, [task EXCEPT !.status = "review"], FALSE, {})
        /\ task.status \in {"open", "work"} /\ broken' = broken \cup {writes + 1}
    BY <1>11 DEF WebhookMerged
  <2>2. Fits([task EXCEPT !.status = "review"], {})
    BY <1>0, <2>1, RowIs DEF Fits, Statuses
  <2> QED  BY <2>1, <2>2, WriteKept
<1>12. CASE WebhookClosed(s)
  <2> DEFINE row == Finished
             out == {}
  <2>1. Write(s, row, TRUE, out) /\ task.status # "done"
    BY <1>12 DEF WebhookClosed
  <2>2. row \in TaskRow /\ row.status = "done"
    BY <1>0, RowIs DEF Statuses, Actors
  <2>3. \A e \in out : e \in Emission /\ Listed(e)
    OBVIOUS
  <2> HIDE DEF row, out
  <2> QED  BY <2>1, <2>2, <2>3, PlainWrite
<1>13. CASE WebhookChanges(s)
  <2> DEFINE row == [task EXCEPT !.status = "work"]
             out == {}
  <2>1. Write(s, row, FALSE, out) /\ task.status # "done"
    BY <1>13 DEF WebhookChanges
  <2>2. row \in TaskRow /\ row.status = "work"
    BY <1>0, RowIs DEF Statuses, Actors
  <2>3. \A e \in out : e \in Emission /\ Listed(e)
    OBVIOUS
  <2> HIDE DEF row, out
  <2> QED  BY <2>1, <2>2, <2>3, PlainWrite
<1> QED  BY <1>2, <1>3, <1>4, <1>5, <1>6, <1>7, <1>8, <1>9, <1>10, <1>11, <1>12, <1>13,
         <1>14, <1>15 DEF Handle

-----------------------------------------------------------------------------
(* What runs beside the writes.                                            *)

\* A step that leaves the row alone: the rows of signals that it finds keep what
\* was said of them, those it adds are late only for a finished task, and nobody
\* on a list is forgotten.
LEMMA Beside ==
    ASSUME IInv, UNCHANGED <<task, writes, due>>, RowsKept,
           broken \subseteq broken', broken' \subseteq 1 .. MaxWrites,
           req' \in [Slots -> Slot], ListsKnown',
           signals' \in Seq(Signal),
           \A i \in DOMAIN signals' \ DOMAIN signals :
              signals'[i].late => task.status = "done",
           LateAskNotHanded',
           pick' \in [Calls -> Call], \A c \in Calls : pick'[c].sig <= Len(signals'),
           FoundInTime',
           \A s \in Slots : \A e \in req[s].out : \A a :
              e.type = "review_needed" /\ (e.resolved => a \in e.to) =>
                 e.write \in broken' \/ Reached(e.write, a)'
    PROVE  IInv'
<1>1. /\ task \in TaskRow /\ writes \in 0 .. MaxWrites /\ due \in [Dues -> Due]
      /\ signals \in Seq(Signal)
  BY Types DEF IInv
<1>2. TypeOK'
  BY <1>1, TypesAfter
<1>3. LateIsFinished'
  <2> SUFFICES ASSUME NEW i \in DOMAIN signals', signals'[i].late
               PROVE  task'.status = "done"
    BY DEF LateIsFinished
  <2>1. CASE i \in DOMAIN signals
    BY <2>1 DEF IInv, LateIsFinished, RowsKept
  <2>2. CASE i \notin DOMAIN signals
    BY <2>2
  <2> QED  BY <2>1, <2>2
<1>4. ReviewersAsked'
  BY <1>1, StillAsked DEF IInv
<1> QED  BY <1>2, <1>3, <1>4 DEF IInv

\* An emission that stays on the list of a request still reaches its recipients.
LEMMA StillListed ==
    ASSUME NEW s \in Slots, NEW e \in req'[s].out, NEW a,
           e.type = "review_needed", e.resolved => a \in e.to
    PROVE  Reached(e.write, a)'
BY DEF Reached

\* The parts of a step that leaves the lists, or the signals, or the pickups alone.
LEMMA ListsStay ==
    ASSUME IInv, req' = req
    PROVE  /\ req' \in [Slots -> Slot] /\ ListsKnown'
           /\ \A s \in Slots : \A e \in req[s].out : \A a :
                 e.type = "review_needed" /\ (e.resolved => a \in e.to) =>
                    e.write \in broken' \/ Reached(e.write, a)'
<1>1. req' \in [Slots -> Slot] /\ ListsKnown'
  BY Types DEF IInv, ListsKnown, Listed
<1> QED  BY <1>1, StillListed

LEMMA SignalsStay ==
    ASSUME IInv, signals' = signals
    PROVE  /\ RowsKept /\ signals' \in Seq(Signal) /\ LateAskNotHanded'
           /\ \A i \in DOMAIN signals' \ DOMAIN signals :
                 signals'[i].late => task.status = "done"
<1>1. signals \in Seq(Signal)
  BY Types DEF IInv
<1>2. RowsKept
  BY <1>1 DEF RowsKept
<1> QED  BY <1>1, <1>2 DEF IInv, LateAskNotHanded

LEMMA PicksStay ==
    ASSUME IInv, pick' = pick, RowsKept, signals' \in Seq(Signal)
    PROVE  /\ pick' \in [Calls -> Call] /\ \A c \in Calls : pick'[c].sig <= Len(signals')
           /\ FoundInTime'
<1>1. /\ pick \in [Calls -> Call] /\ \A c \in Calls : pick[c].sig <= Len(signals)
      /\ signals \in Seq(Signal)
  BY Types DEF IInv
<1>2. \A c \in Calls : pick[c].sig \in Nat
  BY <1>1 DEF Call
<1>3. \A c \in Calls : pick'[c].sig <= Len(signals')
  BY <1>1, <1>2 DEF RowsKept
<1>4. FoundInTime'
  BY <1>1 DEF IInv, FoundInTime, RowsKept
<1> QED  BY <1>1, <1>3, <1>4

\* Rows of which only the marks of the recipient change.
LEMMA MarksChange ==
    ASSUME IInv, signals' \in Seq(Signal), Len(signals') = Len(signals),
           \A i \in DOMAIN signals :
              /\ signals'[i].type = signals[i].type /\ signals'[i].to = signals[i].to
              /\ signals'[i].write = signals[i].write /\ signals'[i].late = signals[i].late
              /\ signals'[i].handed # signals[i].handed =>
                    ~(signals[i].type \in Asks /\ signals[i].late)
    PROVE  /\ RowsKept /\ LateAskNotHanded'
           /\ \A i \in DOMAIN signals' \ DOMAIN signals :
                 signals'[i].late => task.status = "done"
<1>1. signals \in Seq(Signal)
  BY Types DEF IInv
<1>2. DOMAIN signals' = DOMAIN signals /\ Len(signals) \in Nat
  BY <1>1
<1>3. RowsKept
  BY <1>2 DEF RowsKept
<1>4. LateAskNotHanded'
  BY <1>2 DEF LateAskNotHanded, IInv
<1> QED  BY <1>2, <1>3, <1>4

LEMMA SweepKept ==
    ASSUME IInv, NEW s \in Slots, Sweep(s)
    PROVE  IInv'
<1> DEFINE mark(i) == IF signals[i].read \/ signals[i].swept # 0 THEN signals[i]
                      ELSE [signals[i] EXCEPT !.swept = req[s].ack]
<1>1. /\ signals' = [i \in DOMAIN signals |-> mark(i)]
      /\ req' = [req EXCEPT ![s].ack = 0]
      /\ UNCHANGED <<task, pick, writes, due, broken>>
  BY DEF Sweep, history
<1>2. /\ req \in [Slots -> Slot] /\ signals \in Seq(Signal) /\ broken \subseteq 1 .. MaxWrites
  BY Types DEF IInv
<1>3. req[s].ack \in 0 .. MaxWrites
  BY <1>2 DEF Slot
<1>4. ASSUME NEW i \in DOMAIN signals
      PROVE  /\ mark(i) \in Signal
             /\ mark(i).type = signals[i].type /\ mark(i).to = signals[i].to
             /\ mark(i).write = signals[i].write /\ mark(i).late = signals[i].late
             /\ mark(i).handed = signals[i].handed
  <2>1. signals[i] \in Signal
    BY <1>2
  <2> QED  BY <1>3, <2>1 DEF Signal
<1> HIDE DEF mark
<1>5. Len(signals) \in Nat /\ DOMAIN signals = 1 .. Len(signals)
  BY <1>2
<1>6. signals' \in [1 .. Len(signals) -> Signal]
  BY <1>1, <1>4, <1>5
<1>7. signals' \in Seq(Signal) /\ Len(signals') = Len(signals)
  BY <1>5, <1>6
<1>8. \A i \in DOMAIN signals : signals'[i] = mark(i)
  BY <1>1
<1>9. /\ RowsKept /\ LateAskNotHanded'
      /\ \A i \in DOMAIN signals' \ DOMAIN signals :
            signals'[i].late => task.status = "done"
  BY <1>4, <1>7, <1>8, MarksChange
<1>10. req' \in [Slots -> Slot] /\ \A q \in Slots : req'[q].out = req[q].out
  <2> DEFINE n == [req[s] EXCEPT !.ack = 0]
  <2>1. n \in Slot /\ n.out = req[s].out
    BY <1>2, BoundAssumption DEF Slot
  <2>2. req' = [req EXCEPT ![s] = n]
    BY <1>1
  <2> HIDE DEF n
  <2> QED  BY <1>2, <2>1, <2>2
<1>11. ListsKnown'
  BY <1>10 DEF IInv, ListsKnown, Listed
<1>12. \A q \in Slots : \A e \in req[q].out : \A a :
          e.type = "review_needed" /\ (e.resolved => a \in e.to) => Reached(e.write, a)'
  BY <1>10, StillListed
<1>13. /\ pick' \in [Calls -> Call] /\ \A c \in Calls : pick'[c].sig <= Len(signals')
       /\ FoundInTime'
  BY <1>1, <1>7, <1>9, PicksStay
<1> QED  BY <1>1, <1>2, <1>7, <1>9, <1>10, <1>11, <1>12, <1>13, Beside

\* A change of the lists alone: what a list gains was known, and what it loses is
\* recorded, or has no recipient that another entry of it does not have.
LEMMA ListsChange ==
    ASSUME IInv, UNCHANGED <<task, signals, pick, writes, due>>,
           broken \subseteq broken', broken' \subseteq 1 .. MaxWrites,
           NEW s \in Slots, NEW out \in SUBSET Emission,
           req' = [req EXCEPT ![s].out = out],
           \A e \in out : Listed(e),
           \A e \in req[s].out : \A a :
              e.type = "review_needed" /\ (e.resolved => a \in e.to) =>
                 \/ e.write \in broken'
                 \/ \E f \in out : /\ f.type = e.type /\ f.write = e.write
                                   /\ f.resolved => a \in f.to
    PROVE  IInv'
<1>1. req \in [Slots -> Slot] /\ signals \in Seq(Signal)
  BY Types DEF IInv
<1>2. req' \in [Slots -> Slot]
      /\ \A q \in Slots : req'[q].out = IF q = s THEN out ELSE req[q].out
  BY <1>1 DEF Slot
<1>3. ListsKnown'
  BY <1>2 DEF IInv, ListsKnown, Listed
<1>4. ASSUME NEW q \in Slots, NEW e \in req[q].out, NEW a,
             e.type = "review_needed", e.resolved => a \in e.to
      PROVE  e.write \in broken' \/ Reached(e.write, a)'
  <2>1. CASE q = s
    <3>1. CASE e.write \in broken'
      BY <3>1
    <3>2. CASE \E f \in out : /\ f.type = e.type /\ f.write = e.write
                              /\ f.resolved => a \in f.to
      BY <1>2, <1>4, <3>2 DEF Reached
    <3> QED  BY <1>4, <2>1, <3>1, <3>2
  <2>2. CASE q # s
    BY <1>2, <1>4, <2>2, StillListed
  <2> QED  BY <2>1, <2>2
<1>5. /\ RowsKept /\ signals' \in Seq(Signal) /\ LateAskNotHanded'
      /\ \A i \in DOMAIN signals' \ DOMAIN signals :
            signals'[i].late => task.status = "done"
  BY SignalsStay
<1>6. /\ pick' \in [Calls -> Call] /\ \A c \in Calls : pick'[c].sig <= Len(signals')
      /\ FoundInTime'
  BY <1>5, PicksStay
<1> QED  BY <1>2, <1>3, <1>4, <1>5, <1>6, Beside

LEMMA OnList ==
    ASSUME IInv, NEW s \in Slots, NEW e \in req[s].out
    PROVE  /\ req[s].out \subseteq Emission /\ e \in Emission /\ Listed(e)
           /\ e.write \in 1 .. MaxWrites /\ e.to \subseteq Actors
           /\ \A f \in req[s].out : Listed(f)
<1>1. req[s] \in Slot
  BY Types DEF IInv
<1>2. req[s].out \subseteq Emission
  BY <1>1 DEF Slot
<1> QED  BY <1>2 DEF IInv, ListsKnown, Emission

\* What is left of an emission is the same emission for fewer recipients.
LEMMA Remains ==
    ASSUME NEW e \in Emission, Listed(e), NEW a
    PROVE  /\ \A f \in Left(e, a) : /\ f \in Emission /\ Listed(f)
                                    /\ f.type = e.type /\ f.write = e.write
                                    /\ f.resolved = e.resolved /\ f.to = e.to \ {a}
           /\ \A b \in e.to : b # a => Left(e, a) # {}
<1>1. /\ [e EXCEPT !.to = @ \ {a}] \in Emission
      /\ [e EXCEPT !.to = @ \ {a}].type = e.type
      /\ [e EXCEPT !.to = @ \ {a}].write = e.write
      /\ [e EXCEPT !.to = @ \ {a}].resolved = e.resolved
      /\ [e EXCEPT !.to = @ \ {a}].to = e.to \ {a}
  BY DEF Emission
<1> QED  BY <1>1 DEF Left, Listed

LEMMA ResolveKept ==
    ASSUME IInv, NEW s \in Slots, NEW e \in req[s].out, Resolve(s, e)
    PROVE  IInv'
<1> DEFINE to == {task.work, task.review} \ {Nobody, Admin}
           f == [e EXCEPT !.resolved = TRUE, !.to = to]
           out == (req[s].out \ {e}) \cup {f}
<1>1. /\ ~e.resolved /\ req' = [req EXCEPT ![s].out = out]
      /\ UNCHANGED <<task, signals, pick, writes, due, broken>>
  BY DEF Resolve, history
<1>2. /\ req[s].out \subseteq Emission /\ e \in Emission /\ Listed(e)
      /\ \A g \in req[s].out : Listed(g)
  BY OnList
<1>3. to \subseteq Actors
  BY Types DEF IInv, TaskRow
<1>4. f \in Emission /\ Listed(f)
  <2> HIDE DEF to
  <2> QED  BY <1>2, <1>3 DEF Emission, Listed
<1> HIDE DEF f
<1>5. out \in SUBSET Emission /\ \A g \in out : Listed(g)
  BY <1>2, <1>4
<1>6. \A g \in req[s].out : g.type = "review_needed" => g \in out
  BY <1>1, <1>2 DEF Listed
<1>7. broken \subseteq 1 .. MaxWrites
  BY Types DEF IInv
<1> HIDE DEF out
<1> QED  BY <1>1, <1>5, <1>6, <1>7, ListsChange

LEMMA EmitDoneKept ==
    ASSUME IInv, NEW s \in Slots, NEW e \in req[s].out, EmitDone(s, e)
    PROVE  IInv'
<1> DEFINE out == req[s].out \ {e}
<1>1. /\ e.resolved /\ e.to = {} /\ req' = [req EXCEPT ![s].out = out]
      /\ UNCHANGED <<task, signals, pick, writes, due, broken>>
  BY DEF EmitDone, history
<1>2. out \in SUBSET Emission /\ \A g \in out : Listed(g)
  BY OnList
<1>3. ASSUME NEW g \in req[s].out, NEW a, g.resolved => a \in g.to PROVE g \in out
  BY <1>1, <1>3
<1>4. broken \subseteq 1 .. MaxWrites
  BY Types DEF IInv
<1> HIDE DEF out
<1> QED  BY <1>1, <1>2, <1>3, <1>4, ListsChange

LEMMA EmitFailsKept ==
    ASSUME IInv, NEW s \in Slots, NEW e \in req[s].out, EmitFails(s, e)
    PROVE  IInv'
<1>1. /\ broken' = broken \cup {e.write}
      /\ UNCHANGED <<task, signals, pick, writes, due>>
  BY DEF EmitFails
<1>2. /\ req[s].out \subseteq Emission /\ e \in Emission /\ Listed(e)
      /\ \A g \in req[s].out : Listed(g)
      /\ e.write \in 1 .. MaxWrites
  BY OnList
<1>3. PICK out : /\ req' = [req EXCEPT ![s].out = out]
                 /\ req[s].out \ {e} \subseteq out
                 /\ out = req[s].out \ {e}
                    \/ \E a \in e.to : out = (req[s].out \ {e}) \cup Left(e, a)
  BY DEF EmitFails
<1>4. out \in SUBSET Emission /\ \A g \in out : Listed(g)
  BY <1>2, <1>3, Remains
<1>5. \A g \in req[s].out : g \in out \/ g.write \in broken'
  BY <1>1, <1>3
<1>6. broken' \subseteq 1 .. MaxWrites
  BY <1>1, <1>2, Types DEF IInv
<1> QED  BY <1>1, <1>3, <1>4, <1>5, <1>6, ListsChange

\* The row of one recipient takes the place of the entry in the list.
LEMMA CreateKept ==
    ASSUME IInv, NEW s \in Slots, NEW e \in req[s].out, NEW a \in e.to, Create(s, e, a)
    PROVE  IInv'
<1> DEFINE r == [type |-> e.type, write |-> e.write, to |-> a,
                 read |-> FALSE, swept |-> 0, handed |-> 0,
                 late |-> task.status = "done"]
           out == (req[s].out \ {e}) \cup Left(e, a)
           n == [req[s] EXCEPT !.out = out]
<1>1. /\ e.resolved /\ signals' = Append(signals, r) /\ req' = [req EXCEPT ![s] = n]
      /\ UNCHANGED <<task, pick, writes, due, broken>>
  BY DEF Create, history
<1>2. /\ req[s].out \subseteq Emission /\ e \in Emission /\ Listed(e)
      /\ \A g \in req[s].out : Listed(g)
      /\ e.write \in 1 .. MaxWrites /\ e.to \subseteq Actors
  BY OnList
<1>3. req \in [Slots -> Slot] /\ signals \in Seq(Signal) /\ broken \subseteq 1 .. MaxWrites
  BY Types DEF IInv
<1>4. /\ r \in Signal /\ r.type = e.type /\ r.write = e.write /\ r.to = a
      /\ r.handed = 0 /\ r.late = (task.status = "done")
  BY <1>2, BoundAssumption DEF Signal, Emission
<1>5. out \in SUBSET Emission /\ \A g \in out : Listed(g)
  BY <1>2, Remains
<1>6. n \in Slot /\ n.out = out
  <2> HIDE DEF out
  <2> QED  BY <1>3, <1>5 DEF Slot
<1> HIDE DEF r, n
<1>7. /\ signals' \in Seq(Signal) /\ Len(signals') = Len(signals) + 1
      /\ Len(signals) \in Nat /\ DOMAIN signals = 1 .. Len(signals)
      /\ \A i \in DOMAIN signals : signals'[i] = signals[i]
      /\ signals'[Len(signals) + 1] = r
  BY <1>1, <1>3, <1>4
<1>8. RowsKept
  BY <1>7 DEF RowsKept
<1>9. \A i \in DOMAIN signals' : i \in DOMAIN signals \/ signals'[i] = r
  BY <1>7
<1>10. /\ LateAskNotHanded'
       /\ \A i \in DOMAIN signals' \ DOMAIN signals :
             signals'[i].late => task.status = "done"
  BY <1>4, <1>7, <1>9 DEF IInv, LateAskNotHanded
<1>11. req' \in [Slots -> Slot]
       /\ \A q \in Slots : req'[q].out = IF q = s THEN out ELSE req[q].out
  BY <1>1, <1>3, <1>6
<1>12. ListsKnown'
  BY <1>5, <1>11 DEF IInv, ListsKnown, Listed
<1>13. ASSUME NEW q \in Slots, NEW g \in req[q].out, NEW b,
              g.type = "review_needed", g.resolved => b \in g.to
       PROVE  Reached(g.write, b)'
  <2>1. CASE g \in req'[q].out
    BY <1>13, <2>1, StillListed
  <2>2. CASE g \notin req'[q].out
    <3>1. q = s /\ g = e
      BY <1>11, <2>2
    <3>2. CASE b = a
      <4>1. Len(signals) + 1 \in DOMAIN signals'
        BY <1>7
      <4> QED  BY <1>4, <1>7, <1>13, <3>1, <3>2, <4>1 DEF Reached
    <3>3. CASE b # a
      <4>1. PICK f \in Left(e, a) : TRUE
        BY <1>1, <1>2, <1>13, <3>1, <3>3, Remains
      <4>2. f \in req'[q].out
        BY <1>11, <3>1
      <4>3. f.type = e.type /\ f.write = e.write /\ f.to = e.to \ {a}
        BY <1>2, Remains
      <4> QED  BY <1>1, <1>13, <3>1, <3>3, <4>2, <4>3, StillListed
    <3> QED  BY <3>2, <3>3
  <2> QED  BY <2>1, <2>2
<1>14. /\ pick' \in [Calls -> Call] /\ \A c \in Calls : pick'[c].sig <= Len(signals')
       /\ FoundInTime'
  BY <1>1, <1>7, <1>8, PicksStay
<1> QED  BY <1>1, <1>3, <1>7, <1>8, <1>10, <1>11, <1>12, <1>13, <1>14, Beside

LEMMA CrashKept ==
    ASSUME IInv, Crash
    PROVE  IInv'
<1>1. /\ broken' = broken \cup {e.write : e \in UNION {req[s].out : s \in Slots}}
      /\ req' = [s \in Slots |-> [ack |-> 0, out |-> {}]]
      /\ pick' = [c \in Calls |-> NoPick]
      /\ UNCHANGED <<task, signals, writes, due>>
  BY DEF Crash
<1>2. signals \in Seq(Signal) /\ broken \subseteq 1 .. MaxWrites
  BY Types DEF IInv
<1>3. \A s \in Slots : \A e \in req[s].out : e.write \in broken'
  BY <1>1
<1>4. broken' \subseteq 1 .. MaxWrites
  BY <1>1, <1>2, OnList
<1>5. req' \in [Slots -> Slot] /\ ListsKnown'
  <2>1. [ack |-> 0, out |-> {}] \in Slot
    BY BoundAssumption DEF Slot
  <2> QED  BY <1>1, <2>1 DEF ListsKnown
<1>6. pick' \in [Calls -> Call] /\ FoundInTime' /\ \A c \in Calls : pick'[c].sig <= Len(signals')
  <2>1. NoPick \in Call /\ NoPick.pc = "idle" /\ NoPick.sig = 0
    BY DEF NoPick, Call
  <2>2. Len(signals') \in Nat
    BY <1>1, <1>2
  <2> QED  BY <1>1, <2>1, <2>2 DEF FoundInTime
<1>7. /\ RowsKept /\ signals' \in Seq(Signal) /\ LateAskNotHanded'
      /\ \A i \in DOMAIN signals' \ DOMAIN signals :
            signals'[i].late => task.status = "done"
  BY <1>1, SignalsStay
<1> QED  BY <1>1, <1>3, <1>4, <1>5, <1>6, <1>7, Beside

-----------------------------------------------------------------------------
(* The recipients.                                                         *)

\* The oldest signal of a feed exists.
LEMMA Least ==
    ASSUME NEW T \in SUBSET Nat, T # {}
    PROVE  \E m \in T : \A k \in T : m <= k
<1> DEFINE R == OpToRel(<, Nat)
<1>1. IsWellFoundedOn(R, Nat)
  BY NatLessThanWellFounded
<1>2. \A x, y \in Nat : y < x => <<y, x>> \in R
  BY DEF OpToRel
<1> HIDE DEF R
<1>3. PICK m \in T : \A k \in T : ~ (<<k, m>> \in R)
  BY <1>1, WFMin
<1>4. ASSUME NEW k \in T PROVE m <= k
  <2>1. k \in Nat /\ m \in Nat
    OBVIOUS
  <2>2. ~ (k < m)
    BY <1>2, <1>3, <2>1
  <2> QED  BY <2>1, <2>2
<1> QED  BY <1>4

\* A pickup changes; nothing else does.
LEMMA PickChange ==
    ASSUME IInv, UNCHANGED <<task, req, signals, history>>, NEW c \in Calls, NEW p \in Call,
           pick' = [pick EXCEPT ![c] = p], p.sig <= Len(signals),
           p.pc = "ack" => /\ p.sig \in DOMAIN signals
                           /\ signals[p.sig].type \in Asks => ~signals[p.sig].late
    PROVE  IInv'
<1>1. pick \in [Calls -> Call] /\ broken \subseteq 1 .. MaxWrites
      /\ \A x \in Calls : pick[x].sig <= Len(signals)
  BY Types DEF IInv
<1>2. pick' \in [Calls -> Call] /\ \A x \in Calls : pick'[x] = IF x = c THEN p ELSE pick[x]
  BY <1>1
<1>3. \A x \in Calls : pick'[x].sig <= Len(signals')
  BY <1>1, <1>2
<1>4. FoundInTime'
  BY <1>2 DEF IInv, FoundInTime
<1>5. UNCHANGED <<task, writes, due, broken>> /\ req' = req /\ signals' = signals
  BY DEF history
<1> QED  BY <1>1, <1>2, <1>3, <1>4, <1>5, ListsStay, SignalsStay, Beside

LEMMA PickupKept ==
    ASSUME IInv, NEW c \in Calls, NEW a \in Agents, Pickup(c, a)
    PROVE  IInv'
<1> DEFINE p == [pc |-> "find", agent |-> a, sig |-> 0]
<1>1. /\ pick' = [pick EXCEPT ![c] = p] /\ UNCHANGED <<task, req, signals, history>>
  BY DEF Pickup
<1>2. p \in Call /\ p.pc # "ack" /\ p.sig = 0
  BY DEF Call
<1>3. Len(signals) \in Nat
  BY Types DEF IInv
<1>4. 0 <= Len(signals)
  BY <1>3
<1> HIDE DEF p
<1>5. p.sig <= Len(signals)
  BY <1>2, <1>4
<1> QED  BY <1>1, <1>2, <1>5, PickChange

LEMMA FindKept ==
    ASSUME IInv, NEW c \in Calls, Find(c)
    PROVE  IInv'
<1> DEFINE feed == {i \in DOMAIN signals : Serves(i, pick[c].agent)}
           k == CHOOSE i \in feed : \A j \in feed : i <= j
           p == IF feed = {} THEN NoPick ELSE [pick[c] EXCEPT !.pc = "ack", !.sig = k]
<1>1. /\ pick[c].pc = "find" /\ pick' = [pick EXCEPT ![c] = p]
      /\ UNCHANGED <<task, req, signals, history>>
  BY DEF Find
<1>2. pick[c] \in Call /\ signals \in Seq(Signal)
  BY Types DEF IInv
<1>3. Len(signals) \in Nat /\ DOMAIN signals = 1 .. Len(signals)
  BY <1>2
<1>4. CASE feed = {}
  <2>1. p = NoPick /\ NoPick \in Call /\ NoPick.pc = "idle" /\ NoPick.sig = 0
    BY <1>4 DEF NoPick, Call
  <2> HIDE DEF p, k, feed
  <2>2. p \in Call /\ p.pc # "ack" /\ p.sig <= Len(signals)
    BY <1>3, <2>1
  <2> QED  BY <1>1, <2>2, PickChange
<1>5. CASE feed # {}
  <2>1. feed \in SUBSET Nat
    BY <1>3
  <2>2. k \in feed
    <3> HIDE DEF feed
    <3> QED  BY <1>5, <2>1, Least
  <2>3. k \in DOMAIN signals /\ Serves(k, pick[c].agent)
    BY <2>2
  <2>4. p = [pick[c] EXCEPT !.pc = "ack", !.sig = k]
    BY <1>5
  <2> HIDE DEF feed, k, p
  <2>5. p \in Call /\ p.sig = k
    <3>1. ASSUME NEW q \in Call, NEW n \in Nat
          PROVE  /\ [q EXCEPT !.pc = "ack", !.sig = n] \in Call
                 /\ [q EXCEPT !.pc = "ack", !.sig = n].sig = n
      BY DEF Call
    <3>2. k \in Nat
      BY <1>3, <2>3
    <3> QED  BY <1>2, <2>4, <3>1, <3>2
  <2>6. k \in DOMAIN signals /\ k <= Len(signals)
        /\ (signals[k].type \in Asks => ~signals[k].late)
    BY <1>3, <2>3 DEF Serves, IInv, LateIsFinished
  <2> QED  BY <1>1, <2>5, <2>6, PickChange
<1> QED  BY <1>4, <1>5

LEMMA AnswerKept ==
    ASSUME IInv, NEW c \in Calls, Answer(c)
    PROVE  IInv'
<1> DEFINE k == pick[c].sig
           r == [signals[k] EXCEPT !.read = TRUE, !.handed = @ + 1]
<1>1. /\ pick[c].pc = "ack" /\ signals' = [signals EXCEPT ![k] = r]
      /\ pick' = [pick EXCEPT ![c] = NoPick] /\ req' = req
      /\ UNCHANGED <<task, writes, due, broken>>
  BY DEF Answer, history
<1>2. /\ pick \in [Calls -> Call] /\ \A x \in Calls : pick[x].sig <= Len(signals)
      /\ signals \in Seq(Signal) /\ broken \subseteq 1 .. MaxWrites
  BY Types DEF IInv
<1>3. k \in DOMAIN signals /\ (signals[k].type \in Asks => ~signals[k].late)
  BY <1>1 DEF IInv, FoundInTime
<1>4. Len(signals) \in Nat /\ DOMAIN signals = 1 .. Len(signals) /\ signals[k] \in Signal
  BY <1>2, <1>3
<1> HIDE DEF k
<1>5. /\ r \in Signal /\ r.type = signals[k].type /\ r.to = signals[k].to
      /\ r.write = signals[k].write /\ r.late = signals[k].late
  <2>1. ASSUME NEW q \in Signal, NEW n \in Nat,
               NEW m, m = [q EXCEPT !.read = TRUE, !.handed = n]
        PROVE  m \in Signal /\ m.type = q.type /\ m.to = q.to
               /\ m.write = q.write /\ m.late = q.late
    BY <2>1 DEF Signal
  <2>2. PICK q, n : q = signals[k] /\ n = signals[k].handed + 1
    OBVIOUS
  <2>3. q \in Signal /\ n \in Nat
    BY <1>4, <2>2 DEF Signal
  <2>4. r = [q EXCEPT !.read = TRUE, !.handed = n]
    BY <2>2
  <2> HIDE DEF r
  <2>5. r \in Signal /\ r.type = q.type /\ r.to = q.to /\ r.write = q.write /\ r.late = q.late
    BY <2>1, <2>3, <2>4
  <2> QED  BY <2>2, <2>5
<1> HIDE DEF r
<1>6. /\ signals' \in Seq(Signal) /\ Len(signals') = Len(signals)
      /\ \A i \in DOMAIN signals : signals'[i] = IF i = k THEN r ELSE signals[i]
  BY <1>1, <1>2, <1>3, <1>4, <1>5
<1>7. /\ RowsKept /\ LateAskNotHanded'
      /\ \A i \in DOMAIN signals' \ DOMAIN signals :
            signals'[i].late => task.status = "done"
  BY <1>3, <1>5, <1>6, MarksChange
<1>8. NoPick \in Call /\ NoPick.pc = "idle" /\ NoPick.sig = 0
  BY DEF NoPick, Call
<1>9. pick' \in [Calls -> Call]
      /\ \A x \in Calls : pick'[x] = IF x = c THEN NoPick ELSE pick[x]
  BY <1>1, <1>2, <1>8
<1>10. \A x \in Calls : pick'[x].sig <= Len(signals')
  BY <1>2, <1>4, <1>6, <1>8, <1>9
<1>11. FoundInTime'
  <2> SUFFICES ASSUME NEW x \in Calls, pick'[x].pc = "ack"
               PROVE  /\ pick'[x].sig \in DOMAIN signals'
                      /\ signals'[pick'[x].sig].type \in Asks => ~signals'[pick'[x].sig].late
    BY DEF FoundInTime
  <2>1. pick'[x] = pick[x] /\ pick[x].pc = "ack"
    BY <1>8, <1>9
  <2>2. pick[x].sig \in DOMAIN signals
        /\ (signals[pick[x].sig].type \in Asks => ~signals[pick[x].sig].late)
    BY <2>1 DEF IInv, FoundInTime
  <2> QED  BY <1>4, <1>6, <1>7, <2>1, <2>2 DEF RowsKept
<1> QED  BY <1>1, <1>2, <1>6, <1>7, <1>9, <1>10, <1>11, ListsStay, Beside

LEMMA AcknowledgeKept ==
    ASSUME IInv, NEW a \in Actors, Acknowledge(a)
    PROVE  IInv'
<1>1. PICK k \in DOMAIN signals : signals' = [signals EXCEPT ![k].read = TRUE]
  BY DEF Acknowledge
<1> DEFINE r == [signals[k] EXCEPT !.read = TRUE]
<1>2. signals' = [signals EXCEPT ![k] = r] /\ req' = req /\ pick' = pick
      /\ UNCHANGED <<task, writes, due, broken>>
  BY <1>1 DEF Acknowledge, history
<1>3. signals \in Seq(Signal) /\ broken \subseteq 1 .. MaxWrites
  BY Types DEF IInv
<1>4. Len(signals) \in Nat /\ DOMAIN signals = 1 .. Len(signals) /\ signals[k] \in Signal
  BY <1>3
<1>5. /\ r \in Signal /\ r.type = signals[k].type /\ r.to = signals[k].to
      /\ r.write = signals[k].write /\ r.late = signals[k].late
      /\ r.handed = signals[k].handed
  BY <1>4 DEF Signal
<1> HIDE DEF r
<1>6. /\ signals' \in Seq(Signal) /\ Len(signals') = Len(signals)
      /\ \A i \in DOMAIN signals : signals'[i] = IF i = k THEN r ELSE signals[i]
  BY <1>2, <1>3, <1>4, <1>5
<1>7. /\ RowsKept /\ LateAskNotHanded'
      /\ \A i \in DOMAIN signals' \ DOMAIN signals :
            signals'[i].late => task.status = "done"
  BY <1>5, <1>6, MarksChange
<1> QED  BY <1>2, <1>3, <1>6, <1>7, ListsStay, PicksStay, Beside

-----------------------------------------------------------------------------
(* The theorems.                                                           *)

LEMMA BlankHolds ==
    ASSUME Blank, task \in TaskRow, req \in [Slots -> Slot], ListsKnown
    PROVE  IInv
<1>1. /\ signals = <<>> /\ pick = [c \in Calls |-> NoPick] /\ writes = 1
      /\ due = [x \in Dues |-> [write |-> 0, to |-> {}]] /\ broken = {}
  BY DEF Blank, Dues
<1>2. signals \in Seq(Signal) /\ Len(signals) = 0 /\ DOMAIN signals = {}
  BY <1>1
<1>3. NoPick \in Call /\ NoPick.pc = "idle" /\ NoPick.sig = 0
  BY DEF NoPick, Call
<1>4. pick \in [Calls -> Call] /\ FoundInTime /\ \A c \in Calls : pick[c].sig <= Len(signals)
  BY <1>1, <1>2, <1>3 DEF FoundInTime
<1>5. due \in [Dues -> Due] /\ due["review_needed"].to = {}
  BY <1>1, BoundAssumption DEF Dues, Due
<1>6. writes \in 0 .. MaxWrites /\ broken \subseteq 1 .. MaxWrites
  BY <1>1, BoundAssumption
<1>7. TypeOK
  BY <1>2, <1>4, <1>5, <1>6, Types
<1>8. LateIsFinished /\ LateAskNotHanded /\ ReviewersAsked
  BY <1>2, <1>5 DEF LateIsFinished, LateAskNotHanded, ReviewersAsked, Announced
<1> QED  BY <1>4, <1>7, <1>8 DEF IInv

LEMMA InitHolds ==
    ASSUME Init \/ InitWork
    PROVE  IInv
<1>1. CASE Init
  <2>1. task \in TaskRow
    BY <1>1 DEF Init, TaskRow, Statuses
  <2> DEFINE e == [type |-> "task_available", write |-> 1, to |-> Agents, resolved |-> TRUE]
  <2>2. e \in Emission /\ Listed(e)
    BY BoundAssumption DEF Emission, Listed, Asks, Actors
  <2> HIDE DEF e
  <2>3. PICK s \in Slots :
           req = [x \in Slots |-> [ack |-> 0, out |-> IF x = s THEN {e} ELSE {}]]
    BY <1>1 DEF Init, e
  <2>4. ASSUME NEW x \in Slots
        PROVE  req[x] \in Slot /\ \A f \in req[x].out : Listed(f)
    BY <2>2, <2>3, BoundAssumption DEF Slot
  <2>5. req \in [Slots -> Slot]
    BY <2>3, <2>4
  <2>6. ListsKnown
    BY <2>4 DEF ListsKnown
  <2> QED  BY <1>1, <2>1, <2>5, <2>6, BlankHolds DEF Init
<1>2. CASE InitWork
  <2>1. task \in TaskRow
    BY <1>2 DEF InitWork, TaskRow, Statuses, Actors
  <2>2. [ack |-> 0, out |-> {}] \in Slot
    BY BoundAssumption DEF Slot
  <2>3. req \in [Slots -> Slot] /\ ListsKnown
    BY <1>2, <2>2 DEF InitWork, ListsKnown
  <2> QED  BY <1>2, <2>1, <2>3, BlankHolds DEF InitWork
<1> QED  BY <1>1, <1>2

LEMMA AfterKept ==
    ASSUME IInv, NEW s \in Slots, After(s)
    PROVE  IInv'
BY SweepKept, ResolveKept, EmitDoneKept, CreateKept DEF After

LEMMA StepKept ==
    ASSUME IInv, [Next]_vars
    PROVE  IInv'
<1>1. ASSUME NEW s \in Slots, Handle(s) PROVE IInv'
  BY <1>1, HandleKept
<1>2. ASSUME NEW s \in Slots, After(s) PROVE IInv'
  BY <1>2, AfterKept
<1>3. ASSUME NEW s \in Slots, NEW e \in req[s].out, EmitFails(s, e) PROVE IInv'
  BY <1>3, EmitFailsKept
<1>4. CASE Crash
  BY <1>4, CrashKept
<1>5. ASSUME NEW c \in Calls, Find(c) PROVE IInv'
  BY <1>5, FindKept
<1>6. ASSUME NEW c \in Calls, Answer(c) PROVE IInv'
  BY <1>6, AnswerKept
<1>7. ASSUME NEW c \in Calls, NEW a \in Agents, Pickup(c, a) PROVE IInv'
  BY <1>7, PickupKept
<1>8. ASSUME NEW a \in Actors, Acknowledge(a) PROVE IInv'
  BY <1>8, AcknowledgeKept
<1>9. CASE UNCHANGED vars
  <2>1. /\ UNCHANGED <<task, writes, due>> /\ req' = req /\ signals' = signals
        /\ pick' = pick /\ broken' = broken
    BY <1>9 DEF vars, history
  <2>2. broken \subseteq 1 .. MaxWrites
    BY Types DEF IInv
  <2> QED  BY <2>1, <2>2, ListsStay, SignalsStay, PicksStay, Beside
<1> QED  BY <1>1, <1>2, <1>3, <1>4, <1>5, <1>6, <1>7, <1>8, <1>9 DEF Next

LEMMA Inductive == LifeSpec => []IInv
<1>1. IInv /\ [Next]_vars => IInv'
  BY StepKept
<1> QED  BY <1>1, InitHolds, PTL DEF LifeSpec

\* Every emission on a list, every row and every running pickup is well formed;
\* no row is created for somebody who is not of the team.
THEOREM SignalTypes == LifeSpec => []TypeOK
<1>1. IInv => TypeOK
  BY DEF IInv
<1> QED  BY <1>1, Inductive, PTL

\* signal.ts, findEligibleReviewers and the emission that is not awaited: the
\* reviewers of the last move to review have their row or are still on a list,
\* however the other requests, the sweeps and the pickups run in between; only
\* a crash, a failed insert or the webhook of a merge leaves somebody out.
THEOREM ReviewersAreAsked == LifeSpec => []ReviewersAsked
<1>1. IInv => ReviewersAsked
  BY DEF IInv
<1> QED  BY <1>1, Inductive, PTL

\* POST /tasks/pickup: an ask that its emitter created after the task had been
\* finished is answered to nobody, whatever lies between the query for a signal
\* and the answer.
THEOREM LateAsksNotHanded == LifeSpec => []LateAskNotHanded
<1>1. IInv => LateAskNotHanded
  BY DEF IInv
<1> QED  BY <1>1, Inductive, PTL

=============================================================================
