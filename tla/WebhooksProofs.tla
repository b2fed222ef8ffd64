----------------------------- MODULE WebhooksProofs -----------------------------
(***************************************************************************)
(* Deliveries of the GitHub webhook, for any number of tasks, deliveries,  *)
(* concurrent requests and other writers.  With Grounding: the stored      *)
(* result, the effects, the signals and the answers of a delivery tell the *)
(* same story.  Without: the claim of the delivery keeps every copy out,   *)
(* and a status write that is lost three times was lost to three others.   *)
(***************************************************************************)
EXTENDS Webhooks, FiniteSetTheorems, TLAPS

-----------------------------------------------------------------------------
(* With Grounding: what is stored of a delivery.                           *)

\* Nothing of the delivery has happened yet.
Untouched(d) ==
    /\ \A t \in Tasks : seen[<<d, t>>] = 0
    /\ made[d] = {} /\ pushed[d] = {} /\ told[d] = {}
    /\ \A r \in Requests : ~(req[r].of = d /\ req[r].pc = "push")

\* The request has committed and has still to push and to answer.
Committed(r) ==
    /\ stored[req[r].of] = req[r].body
    /\ req[r].signals \subseteq made[req[r].of]

History ==
    /\ seen \in [Deliveries \X Tasks -> Nat]
    /\ made \in [Deliveries -> SUBSET Nat]
    /\ pushed \in [Deliveries -> SUBSET Nat]
    /\ told \in [Deliveries -> SUBSET Nat]

Stored ==
    /\ \A d \in Deliveries :
          /\ stored[d] = 0 => Untouched(d)
          /\ \A t \in Tasks : seen[<<d, t>>] <= 1
          /\ told[d] \subseteq {stored[d]} /\ 0 \notin told[d]
          /\ made[d] = {} \/ \E n \in Nat : made[d] = {n}
          /\ pushed[d] \subseteq made[d]
    /\ \A r \in Requests : At(r, "push") => Committed(r)

\* An active attempt describes the row of its task.
Describes == \A t \in Tasks : \A a \in attempt[t] : a.row = row[t]

GInv == TypeOK /\ History /\ Stored /\ Describes

-----------------------------------------------------------------------------
(* The requests.                                                           *)

LEMMA Slots ==
    /\ Idle.of = NoDelivery /\ Idle.pc = "idle"
    /\ \A d \in Deliveries, b \in Bodies :
          LET q == [Idle EXCEPT !.of = d, !.body = b, !.pc = "try"]
          IN  q \in Underway /\ q.pc = "try"
<1>1. Idle.of = NoDelivery /\ Idle.pc = "idle"
  BY DEF Idle
<1>2. ASSUME NEW d \in Deliveries, NEW b \in Bodies
      PROVE  LET q == [Idle EXCEPT !.of = d, !.body = b, !.pc = "try"]
             IN  q \in Underway /\ q.pc = "try"
  <2> DEFINE Some == [of : {NoDelivery}, body : {0}, try : 0 .. Tries - 1,
                      pc : {"idle"}, signals : SUBSET (0 .. Tries - 1)]
  <2>1. Idle \in Some
    BY DEF Idle, Tries
  <2>2. ASSUME NEW i \in Some
        PROVE  /\ [i EXCEPT !.of = d, !.body = b, !.pc = "try"] \in Underway
               /\ [i EXCEPT !.of = d, !.body = b, !.pc = "try"].pc = "try"
    BY DEF Underway
  <2> HIDE DEF Some
  <2> QED  BY <2>1, <2>2
<1> QED  BY <1>1, <1>2

LEMMA RequestOf ==
    ASSUME TypeOK, NEW r \in Requests, NEW pc, At(r, pc)
    PROVE  req[r] \in Underway /\ req[r].of \in Deliveries /\ req[r].pc = pc
<1>1. req[r] \in {Idle} \cup Underway
  BY DEF TypeOK
<1> QED  BY <1>1, Slots DEF At, Underway

\* The requests keep their type; those that are to push keep what they push,
\* and no other comes to push.
Quiet ==
    /\ req' \in [Requests -> {Idle} \cup Underway]
    /\ \A r \in Requests : req'[r].pc = "push" => req'[r] = req[r]

LEMMA QuietStep ==
    ASSUME GInv, Quiet, UNCHANGED <<stored, history>>
    PROVE  History' /\ Stored'
<1>0. UNCHANGED <<seen, made, pushed, told>>
  BY DEF history
<1>1. History'
  BY <1>0 DEF GInv, History
<1>2. ASSUME NEW d \in Deliveries, stored[d] = 0 PROVE Untouched(d)'
  BY <1>0, <1>2 DEF GInv, Stored, Untouched, Quiet
<1>3. ASSUME NEW r \in Requests, At(r, "push")' PROVE Committed(r)'
  <2>1. req'[r] = req[r] /\ At(r, "push")
    BY <1>3 DEF Quiet, At
  <2> QED  BY <1>0, <2>1 DEF GInv, Stored, Committed
<1>4. Stored'
  BY <1>0, <1>2, <1>3 DEF GInv, Stored
<1> QED  BY <1>1, <1>4

LEMMA IdleQuiet ==
    ASSUME TypeOK, NEW r \in Requests, req' = [req EXCEPT ![r] = Idle]
    PROVE  Quiet
BY Slots DEF TypeOK, Quiet

LEMMA ReceiveQuiet ==
    ASSUME TypeOK, NEW r \in Requests, NEW d \in Deliveries, NEW b \in Bodies,
           Receive(r, d, b)
    PROVE  Quiet /\ sent' \in 0 .. MaxSends
<1> DEFINE q == [Idle EXCEPT !.of = d, !.body = b, !.pc = "try"]
<1>1. req' = [req EXCEPT ![r] = q] /\ sent < MaxSends /\ sent' = sent + 1
  BY DEF Receive
<1>2. q \in Underway /\ q.pc = "try"
  BY Slots
<1> HIDE DEF q
<1>3. sent' \in 0 .. MaxSends
  BY <1>1, BoundsAssumption DEF TypeOK
<1> QED  BY <1>1, <1>2, <1>3 DEF TypeOK, Quiet

LEMMA FailsQuiet ==
    ASSUME TypeOK, NEW r \in Requests, Fails(r)
    PROVE  Quiet
<1> DEFINE q == req[r]
<1>0. At(r, "try")
  BY DEF Fails
<1>1. q \in Underway /\ q.pc = "try"
  BY <1>0, RequestOf
<1>2. PICK signals \in {q.signals, {}} \cup
                (IF Event[q.of] = "issueOpened" THEN {Collected(q)} ELSE {}) :
         req' = [req EXCEPT ![r] = IF q.try + 1 < Tries
                    THEN [q EXCEPT !.try = @ + 1, !.signals = signals] ELSE Idle]
  BY DEF Fails
<1>3. CASE q.try + 1 < Tries
  <2> DEFINE n == [q EXCEPT !.try = @ + 1, !.signals = signals]
  <2>1. signals \subseteq 0 .. Tries - 1
    <3>1. q.signals \subseteq 0 .. Tries - 1 /\ q.try \in 0 .. Tries - 1
      BY <1>1 DEF Underway
    <3>2. signals \in {q.signals, {}, {q.try}}
      BY <1>2 DEF Collected
    <3> QED  BY <3>1, <3>2
  <2>2. n \in Underway /\ n.pc = "try"
    <3>1. q.try + 1 \in 0 .. Tries - 1
      BY <1>1, <1>3 DEF Underway, Tries
    <3>2. ASSUME NEW i \in 0 .. Tries - 1, NEW S \in SUBSET (0 .. Tries - 1)
          PROVE  [[q EXCEPT !.try = i] EXCEPT !.signals = S] \in Underway
      BY <1>1 DEF Underway
    <3> QED  BY <1>1, <2>1, <3>1, <3>2 DEF Underway
  <2>3. req' = [req EXCEPT ![r] = n]
    BY <1>2, <1>3
  <2> HIDE DEF n
  <2> QED  BY <2>2, <2>3 DEF TypeOK, Quiet
<1>4. CASE ~(q.try + 1 < Tries)
  <2>1. req' = [req EXCEPT ![r] = Idle]
    BY <1>2, <1>4
  <2> QED  BY <2>1, IdleQuiet
<1> QED  BY <1>3, <1>4

\* Whoever answers without changing anything answers what is stored.
LEMMA ReplayStep ==
    ASSUME GInv, NEW r \in Requests, Replay(r)
    PROVE  GInv'
<1> DEFINE q == req[r]
<1>0. /\ At(r, "try") /\ Replays(q) /\ told' = [told EXCEPT ![q.of] = @ \cup {q.body}]
      /\ req' = [req EXCEPT ![r] = Idle]
      /\ UNCHANGED <<task, stored, sent, writes, seen, made, pushed>>
  BY DEF Replay
<1>1. q \in Underway /\ q.of \in Deliveries /\ q.body \in Bodies
  BY <1>0, RequestOf DEF GInv, Underway
<1>2. Quiet
  BY <1>0, IdleQuiet DEF GInv
<1>3. stored[q.of] # 0 /\ stored[q.of] = q.body
  BY <1>0 DEF Replays
<1>4. TypeOK' /\ Describes'
  BY <1>0, <1>2 DEF GInv, TypeOK, Describes, Quiet, task
<1>5. /\ told'[q.of] = told[q.of] \cup {q.body}
      /\ \A d \in Deliveries : d # q.of => told'[d] = told[d]
      /\ told' \in [Deliveries -> SUBSET Nat]
  BY <1>0, <1>1 DEF GInv, History, Bodies
<1>6. History'
  BY <1>0, <1>5 DEF GInv, History
<1>7. ASSUME NEW d \in Deliveries, stored[d] = 0 PROVE Untouched(d)'
  <2>1. d # q.of
    BY <1>3, <1>7
  <2> QED  BY <1>0, <1>2, <1>5, <1>7, <2>1 DEF GInv, Stored, Untouched, Quiet
<1>8. ASSUME NEW d \in Deliveries PROVE told'[d] \subseteq {stored[d]} /\ 0 \notin told'[d]
  BY <1>3, <1>5 DEF GInv, Stored
<1>9. ASSUME NEW x \in Requests, At(x, "push")' PROVE Committed(x)'
  <2>1. req'[x] = req[x] /\ At(x, "push")
    BY <1>2, <1>9 DEF Quiet, At
  <2> QED  BY <1>0, <2>1 DEF GInv, Stored, Committed
<1>10. Stored'
  <2>1. \A d \in Deliveries : stored'[d] = 0 => Untouched(d)'
    BY <1>0, <1>7
  <2>2. \A d \in Deliveries : /\ \A t \in Tasks : seen'[<<d, t>>] <= 1
                              /\ made'[d] = {} \/ \E n \in Nat : made'[d] = {n}
                              /\ pushed'[d] \subseteq made'[d]
    BY <1>0 DEF GInv, Stored
  <2> QED  BY <1>0, <1>8, <1>9, <2>1, <2>2 DEF Stored
<1> QED  BY <1>4, <1>6, <1>10 DEF GInv

\* What is pushed and answered is what this request committed.
LEMMA PushStep ==
    ASSUME GInv, NEW r \in Requests, Push(r)
    PROVE  GInv'
<1> DEFINE q == req[r]
<1>0. /\ At(r, "push")
      /\ pushed' = [pushed EXCEPT ![q.of] = @ \cup q.signals]
      /\ told' = [told EXCEPT ![q.of] = @ \cup {q.body}]
      /\ req' = [req EXCEPT ![r] = Idle]
      /\ UNCHANGED <<task, stored, sent, writes, seen, made>>
  BY DEF Push
<1>1. /\ q \in Underway /\ q.of \in Deliveries /\ q.body \in Bodies
      /\ q.signals \subseteq Nat
  BY <1>0, RequestOf DEF GInv, Underway, Tries
<1>2. Quiet
  BY <1>0, IdleQuiet DEF GInv
<1>3. stored[q.of] = q.body /\ q.signals \subseteq made[q.of] /\ q.body # 0
  BY <1>0, <1>1 DEF GInv, Stored, Committed, Bodies
<1>4. TypeOK' /\ Describes'
  BY <1>0, <1>2 DEF GInv, TypeOK, Describes, Quiet, task
<1>5. /\ told'[q.of] = told[q.of] \cup {q.body}
      /\ pushed'[q.of] = pushed[q.of] \cup q.signals
      /\ \A d \in Deliveries : d # q.of => told'[d] = told[d] /\ pushed'[d] = pushed[d]
      /\ told' \in [Deliveries -> SUBSET Nat]
      /\ pushed' \in [Deliveries -> SUBSET Nat]
  BY <1>0, <1>1 DEF GInv, History, Bodies
<1>6. History'
  BY <1>0, <1>5 DEF GInv, History
<1>7. ASSUME NEW d \in Deliveries, stored[d] = 0 PROVE Untouched(d)'
  <2>1. d # q.of
    BY <1>3, <1>7
  <2> QED  BY <1>0, <1>2, <1>5, <1>7, <2>1 DEF GInv, Stored, Untouched, Quiet
<1>8. ASSUME NEW d \in Deliveries
      PROVE  /\ told'[d] \subseteq {stored[d]} /\ 0 \notin told'[d]
             /\ pushed'[d] \subseteq made[d]
  BY <1>3, <1>5 DEF GInv, Stored
<1>9. ASSUME NEW x \in Requests, At(x, "push")' PROVE Committed(x)'
  <2>1. req'[x] = req[x] /\ At(x, "push")
    BY <1>2, <1>9 DEF Quiet, At
  <2> QED  BY <1>0, <2>1 DEF GInv, Stored, Committed
<1>10. Stored'
  <2>1. \A d \in Deliveries : stored'[d] = 0 => Untouched(d)'
    BY <1>0, <1>7
  <2>2. \A d \in Deliveries : /\ \A t \in Tasks : seen'[<<d, t>>] <= 1
                              /\ made'[d] = {} \/ \E n \in Nat : made'[d] = {n}
    BY <1>0 DEF GInv, Stored
  <2> QED  BY <1>0, <1>8, <1>9, <2>1, <2>2 DEF Stored
<1> QED  BY <1>4, <1>6, <1>10 DEF GInv

\* A step of a request that comes to nothing.
LEMMA NothingStep ==
    ASSUME GInv, Quiet, UNCHANGED <<task, stored, writes, history>>,
           sent' \in 0 .. MaxSends
    PROVE  GInv'
<1>1. TypeOK' /\ Describes'
  BY DEF GInv, TypeOK, Describes, Quiet, task
<1> QED  BY <1>1, QuietStep DEF GInv

LEMMA CrashQuiet ==
    ASSUME TypeOK, req' = [r \in Requests |-> Idle]
    PROVE  Quiet
BY Slots DEF Quiet

-----------------------------------------------------------------------------
(* The effects of a delivery on the rows.                                  *)

LEMMA EffectTypes ==
    ASSUME TypeOK, NEW t \in Tasks, NEW e
    PROVE  Effect(e, t) \in Row
<1>1. row[t] \in Row
  BY DEF TypeOK
<1>2. /\ [row[t] EXCEPT !.linked = TRUE] \in Row
      /\ \A s \in Statuses : [row[t] EXCEPT !.status = s] \in Row
  BY <1>1 DEF Row
<1>3. \/ Effect(e, t) = row[t] \/ Effect(e, t) = [row[t] EXCEPT !.linked = TRUE]
      \/ \E s \in {"work", "done", "review"} : Effect(e, t) = [row[t] EXCEPT !.status = s]
  BY Zenon DEF Effect
<1>4. {"work", "done", "review"} \subseteq Statuses
  BY DEF Statuses
<1> QED  BY <1>1, <1>2, <1>3, <1>4

\* What a delivery may write in the row of a task that is enrolled, held or
\* reserved.
LEMMA EffectBounds ==
    ASSUME TypeOK, NEW t \in Tasks, NEW e
    PROVE  /\ t \in held => Effect(e, t) = row[t]
           /\ ~Refused(e) /\ t \in reserved => Effect(e, t) = row[t]
           /\ enrolled[t] # "no" /\ Effect(e, t).status # row[t].status
                 => Effect(e, t).status = "work"
<1>1. t \in held => Effect(e, t) = row[t]
  BY DEF Effect, Pending
<1>2. ASSUME ~Refused(e), t \in reserved PROVE Effect(e, t) = row[t]
  <2>1. CASE t \in Observed(e)
    BY <1>2, <2>1 DEF Refused, Changes
  <2>2. CASE t \notin Observed(e)
    BY <2>2 DEF Effect
  <2> QED  BY <2>1, <2>2
<1>3. ASSUME enrolled[t] # "no", Effect(e, t).status # row[t].status
      PROVE  Effect(e, t).status = "work"
  <2>0. row[t] \in Row
    BY DEF TypeOK
  <2>1. ~Pending(e, t) /\ t \in Observed(e)
    BY <1>3 DEF Effect
  <2>2. ~Positive(e)
    BY <1>3, <2>1 DEF Pending
  <2>3. e # "merged" /\ e # "issueClosed"
    BY <2>2 DEF Positive
  <2>4. \/ Effect(e, t) = [row[t] EXCEPT !.linked = TRUE]
        \/ Effect(e, t) = [row[t] EXCEPT !.status = "work"]
        \/ Effect(e, t) = row[t]
    BY <2>1, <2>3, Zenon DEF Effect
  <2> QED  BY <1>3, <2>0, <2>4 DEF Row
<1> QED  BY <1>1, <1>2, <1>3

\* A task that a delivery does not observe keeps its row.
LEMMA UnobservedKept ==
    ASSUME NEW t \in Tasks, NEW e, t \notin Changes(e)
    PROVE  Effect(e, t) = row[t]
BY DEF Changes, Effect

LEMMA CommitStep ==
    ASSUME GInv, NEW r \in Requests, Commit(r)
    PROVE  GInv'
<1> DEFINE q == req[r]
           d == q.of
           e == Event[d]
           sig == IF e = "issueOpened" THEN Collected(q) ELSE {}
           n == [q EXCEPT !.pc = "push", !.signals = sig]
<1>0. /\ At(r, "try") /\ stored[d] = 0
      /\ stored' = [stored EXCEPT ![d] = q.body]
      /\ row' = [t \in Tasks |-> Effect(e, t)]
      /\ attempt' = Invalidated(e)
      /\ seen' = [x \in Deliveries \X Tasks |->
                     seen[x] + IF x[1] = d /\ x[2] \in Observed(e) THEN 1 ELSE 0]
      /\ made' = IF e = "issueOpened" THEN [made EXCEPT ![d] = @ \cup {q.try}] ELSE made
      /\ UNCHANGED <<enrolled, held, reserved, head, sent, writes, pushed, told>>
  BY DEF Commit
<1>1. /\ q \in Underway /\ q.of \in Deliveries /\ q.body \in Bodies
      /\ q.try \in 0 .. Tries - 1
  BY <1>0, RequestOf DEF GInv, Underway
<1>2. req' = [req EXCEPT ![r] = n]
  BY DEF Commit
<1>3. /\ n \in Underway /\ n.pc = "push" /\ n.of = d /\ n.body = q.body
      /\ n.signals = IF e = "issueOpened" THEN {q.try} ELSE {}
  <2>1. /\ sig = IF e = "issueOpened" THEN {q.try} ELSE {}
        /\ sig \in SUBSET (0 .. Tries - 1)
    BY <1>1 DEF Collected
  <2>2. ASSUME NEW S \in SUBSET (0 .. Tries - 1)
        PROVE  /\ [q EXCEPT !.pc = "push", !.signals = S] \in Underway
               /\ [q EXCEPT !.pc = "push", !.signals = S].pc = "push"
               /\ [q EXCEPT !.pc = "push", !.signals = S].of = q.of
               /\ [q EXCEPT !.pc = "push", !.signals = S].body = q.body
               /\ [q EXCEPT !.pc = "push", !.signals = S].signals = S
    BY <1>1 DEF Underway
  <2> HIDE DEF sig
  <2>3. /\ n \in Underway /\ n.pc = "push" /\ n.of = d /\ n.body = q.body
        /\ n.signals = sig
    BY <2>1, <2>2
  <2> QED  BY <2>1, <2>3
<1> HIDE DEF n
<1>4. /\ req' \in [Requests -> {Idle} \cup Underway] /\ req'[r] = n
      /\ \A x \in Requests : x # r => req'[x] = req[x]
  BY <1>2, <1>3 DEF GInv, TypeOK
<1>5. /\ stored' \in [Deliveries -> {0} \cup Bodies] /\ stored'[d] = q.body /\ q.body # 0
      /\ \A x \in Deliveries : x # d => stored'[x] = stored[x]
  BY <1>0, <1>1 DEF GInv, TypeOK, Bodies
<1>6. TypeOK'
  <2>1. row' \in [Tasks -> Row]
    BY <1>0, EffectTypes DEF GInv
  <2>2. attempt' \in [Tasks -> SUBSET [row : Row, head : Heads]]
    BY <1>0 DEF GInv, TypeOK, Invalidated
  <2> QED  BY <1>0, <1>4, <1>5, <2>1, <2>2 DEF GInv, TypeOK
<1>7. Describes'
  <2>1. ASSUME NEW t \in Tasks, NEW a \in attempt'[t] PROVE a.row = row'[t]
    <3>1. t \notin Changes(e) /\ a \in attempt[t]
      BY <1>0 DEF Invalidated
    <3>2. row'[t] = row[t]
      BY <1>0, <3>1, UnobservedKept
    <3> QED  BY <3>1, <3>2 DEF GInv, Describes
  <2> QED  BY <2>1 DEF Describes
<1>8. Untouched(d) /\ \A x \in Requests : ~(req[x].of = d /\ req[x].pc = "push")
  BY <1>0, <1>1 DEF GInv, Stored, Untouched
<1>9. /\ \A x \in Deliveries : x # d => made'[x] = made[x]
      /\ made'[d] = IF e = "issueOpened" THEN {q.try} ELSE {}
      /\ made' \in [Deliveries -> SUBSET Nat]
  <2>1. q.try \in Nat /\ made[d] = {} /\ made \in [Deliveries -> SUBSET Nat]
    BY <1>1, <1>8 DEF GInv, History, Untouched, Tries
  <2>2. CASE e = "issueOpened"
    <3>1. made' = [made EXCEPT ![d] = made[d] \cup {q.try}]
      BY <1>0, <2>2
    <3>2. made[d] \cup {q.try} = {q.try} /\ {q.try} \in SUBSET Nat
      BY <2>1
    <3> QED  BY <1>1, <2>1, <2>2, <3>1, <3>2
  <2>3. CASE e # "issueOpened"
    BY <1>0, <2>1, <2>3
  <2> QED  BY <2>2, <2>3
<1>10. /\ \A x \in Deliveries, t \in Tasks : x # d => seen'[<<x, t>>] = seen[<<x, t>>]
       /\ \A t \in Tasks : seen'[<<d, t>>] \in {0, 1}
       /\ seen' \in [Deliveries \X Tasks -> Nat]
  <2>1. ASSUME NEW x \in Deliveries, NEW t \in Tasks, x # d
        PROVE  seen'[<<x, t>>] = seen[<<x, t>>]
    BY <1>0, <2>1 DEF GInv, History
  <2>2. ASSUME NEW t \in Tasks PROVE seen'[<<d, t>>] \in {0, 1}
    BY <1>0, <1>1, <1>8 DEF Untouched
  <2>3. seen' \in [Deliveries \X Tasks -> Nat]
    BY <1>0 DEF GInv, History
  <2> QED  BY <2>1, <2>2, <2>3
<1>11. History'
  BY <1>0, <1>9, <1>10 DEF GInv, History
<1>12. ASSUME NEW x \in Deliveries, stored'[x] = 0 PROVE Untouched(x)'
  <2>1. x # d /\ stored[x] = 0
    BY <1>5, <1>12
  <2>2. Untouched(x)
    BY <2>1 DEF GInv, Stored
  <2> QED  BY <1>0, <1>3, <1>4, <1>9, <1>10, <2>1, <2>2 DEF Untouched
<1>13. ASSUME NEW x \in Deliveries
       PROVE  /\ \A t \in Tasks : seen'[<<x, t>>] <= 1
              /\ told'[x] \subseteq {stored'[x]} /\ 0 \notin told'[x]
              /\ made'[x] = {} \/ \E k \in Nat : made'[x] = {k}
              /\ pushed'[x] \subseteq made'[x]
  <2>1. CASE x # d
    <3>1. /\ stored'[x] = stored[x] /\ made'[x] = made[x]
          /\ told'[x] = told[x] /\ pushed'[x] = pushed[x]
          /\ \A t \in Tasks : seen'[<<x, t>>] = seen[<<x, t>>]
      BY <1>0, <1>5, <1>9, <1>10, <2>1
    <3> QED  BY <3>1 DEF GInv, Stored
  <2>2. CASE x = d
    <3>1. told'[d] = {} /\ pushed'[d] = {}
      BY <1>0, <1>8 DEF Untouched
    <3>2. \A t \in Tasks : seen'[<<d, t>>] <= 1
      BY <1>10
    <3>3. made'[d] = {} \/ \E k \in Nat : made'[d] = {k}
      BY <1>1, <1>9 DEF Tries
    <3> QED  BY <2>2, <3>1, <3>2, <3>3
  <2> QED  BY <2>1, <2>2
<1>14. ASSUME NEW x \in Requests, At(x, "push")' PROVE Committed(x)'
  <2>1. CASE x = r
    BY <1>3, <1>4, <1>5, <1>9, <2>1 DEF Committed
  <2>2. CASE x # r
    <3>1. req'[x] = req[x] /\ At(x, "push")
      BY <1>4, <1>14, <2>2 DEF At
    <3>2. req[x].of \in Deliveries /\ req[x].of # d
      BY <1>8, <3>1, RequestOf DEF GInv
    <3>3. Committed(x)
      BY <3>1 DEF GInv, Stored
    <3> QED  BY <1>5, <1>9, <3>1, <3>2, <3>3 DEF Committed
  <2> QED  BY <2>1, <2>2
<1>15. Stored'
  BY <1>12, <1>13, <1>14 DEF Stored
<1> QED  BY <1>6, <1>7, <1>11, <1>15 DEF GInv

LEMMA OthersStep ==
    ASSUME GInv, NEW t \in Tasks, Others(t)
    PROVE  GInv'
<1>0. /\ UNCHANGED <<stored, req, sent, history>>
      /\ writes < MaxWrites /\ writes' = writes + 1
      /\ \/ /\ attempt' = [attempt EXCEPT ![t] = {[row |-> row[t], head |-> head]}]
            /\ UNCHANGED <<row, enrolled, held, reserved, head>>
         \/ /\ \E s \in Statuses : row' = [row EXCEPT ![t].status = s]
            /\ attempt' = [attempt EXCEPT ![t] = {}]
            /\ UNCHANGED <<enrolled, held, reserved, head>>
         \/ /\ reserved' = IF t \in reserved THEN reserved \ {t} ELSE reserved \cup {t}
            /\ UNCHANGED <<row, enrolled, held, attempt, head>>
         \/ /\ held' = held \cup {t}
            /\ UNCHANGED <<row, enrolled, reserved, attempt, head>>
         \/ /\ head < 2 /\ head' = head + 1
            /\ UNCHANGED <<row, enrolled, held, reserved, attempt>>
  BY DEF Others
<1>1. writes' \in 0 .. MaxWrites
  BY <1>0, BoundsAssumption DEF GInv, TypeOK
<1>2. Quiet
  BY <1>0, Slots DEF GInv, TypeOK, Quiet
<1>3. History' /\ Stored'
  BY <1>0, <1>2, QuietStep
<1>4. row' \in [Tasks -> Row]
  <2>1. \A s \in Statuses : [row[t] EXCEPT !.status = s] \in Row
    BY DEF GInv, TypeOK, Row
  <2> QED  BY <1>0, <2>1 DEF GInv, TypeOK
<1>5. attempt' \in [Tasks -> SUBSET [row : Row, head : Heads]]
  <2>1. [row |-> row[t], head |-> head] \in [row : Row, head : Heads]
    BY DEF GInv, TypeOK
  <2> QED  BY <1>0, <2>1 DEF GInv, TypeOK
<1>6. held' \subseteq Tasks /\ reserved' \subseteq Tasks /\ head' \in Heads
  BY <1>0 DEF GInv, TypeOK, Heads
<1>7. TypeOK'
  BY <1>0, <1>1, <1>2, <1>4, <1>5, <1>6 DEF GInv, TypeOK, Quiet
<1>8. ASSUME NEW u \in Tasks, NEW a \in attempt'[u] PROVE a.row = row'[u]
  <2>1. CASE u # t
    BY <1>0, <1>8, <2>1 DEF GInv, TypeOK, Describes
  <2>2. CASE u = t
    BY <1>0, <1>8, <2>2 DEF GInv, TypeOK, Describes
  <2> QED  BY <2>1, <2>2
<1>9. Describes'
  BY <1>8 DEF Describes
<1> QED  BY <1>3, <1>7, <1>9 DEF GInv

LEMMA GroundedInit ==
    ASSUME Init
    PROVE  GInv
<1>1. TypeOK
  <2>1. row \in [Tasks -> Row]
    <3> DEFINE First == {[status |-> "work", linked |-> FALSE],
                         [status |-> "review", linked |-> TRUE]}
    <3>1. First \subseteq Row
      BY DEF Row, Statuses
    <3>2. row \in [Tasks -> First]
      BY DEF Init
    <3> HIDE DEF First
    <3> QED  BY <3>1, <3>2
  <2>2. sent \in 0 .. MaxSends /\ writes \in 0 .. MaxWrites
    BY BoundsAssumption DEF Init
  <2>3. /\ req \in [Requests -> {Idle} \cup Underway]
        /\ stored \in [Deliveries -> {0} \cup Bodies]
    BY Slots DEF Init
  <2>4. attempt \in [Tasks -> SUBSET [row : Row, head : Heads]] /\ head \in Heads
    BY DEF Init, Heads
  <2>5. /\ enrolled \in [Tasks -> {"no", "valid", "invalid"}]
        /\ held \subseteq Tasks /\ reserved \subseteq Tasks
    BY DEF Init
  <2> QED  BY <2>1, <2>2, <2>3, <2>4, <2>5 DEF TypeOK
<1>2. History
  BY DEF Init, History
<1>3. \A r \in Requests : req[r].pc # "push"
  BY Slots DEF Init
<1>4. \A d \in Deliveries : Untouched(d)
  BY <1>3 DEF Init, Untouched
<1>5. Stored
  BY <1>3, <1>4 DEF Stored, Untouched, At
<1>6. Describes
  BY DEF Init, Describes
<1> QED  BY <1>1, <1>2, <1>5, <1>6 DEF GInv

LEMMA GroundedStep ==
    ASSUME GInv, [Next]_vars
    PROVE  GInv'
<1>1. ASSUME NEW r \in Requests, Fails(r) PROVE GInv'
  BY <1>1, FailsQuiet, NothingStep DEF GInv, TypeOK, Fails
<1>2. ASSUME NEW r \in Requests, Refuse(r) PROVE GInv'
  BY <1>2, IdleQuiet, NothingStep DEF GInv, TypeOK, Refuse
<1>3. ASSUME NEW r \in Requests, Replay(r) \/ Commit(r) \/ Push(r) PROVE GInv'
  BY <1>3, ReplayStep, CommitStep, PushStep
<1>4. ASSUME NEW r \in Requests, NEW d \in Deliveries, NEW b \in Bodies, Receive(r, d, b)
      PROVE  GInv'
  BY <1>4, ReceiveQuiet, NothingStep DEF GInv, Receive
<1>5. ASSUME Crash PROVE GInv'
  BY <1>5, CrashQuiet, NothingStep DEF GInv, TypeOK, Crash
<1>6. ASSUME NEW t \in Tasks, Others(t) PROVE GInv'
  BY <1>6, OthersStep
<1>7. ASSUME UNCHANGED vars PROVE GInv'
  <2>1. Quiet
    BY <1>7 DEF vars, Quiet, GInv, TypeOK
  <2> QED  BY <1>7, <2>1, NothingStep DEF vars, GInv, TypeOK
<1> QED  BY <1>1, <1>2, <1>3, <1>4, <1>5, <1>6, <1>7 DEF Next

LEMMA GroundedInductive == Spec => []GInv
<1> QED  BY GroundedInit, GroundedStep, PTL DEF Spec

\* Rows, enrolments, attempts and requests keep their types
\* (grounding-github-webhook.ts).
THEOREM DeliveryTypes == Spec => []TypeOK
<1>1. GInv => TypeOK
  BY DEF GInv
<1> QED  BY <1>1, GroundedInductive, PTL

\* Whatever fails, is refused, sent again with other bytes or cut off by the end
\* of the process, before the commit or after it: a delivery has its effects when
\* its result is stored and then once, only the stored bytes are answered, and the
\* signal that is pushed is that of the task the delivery created (the
\* serializable transaction of grounding-github-webhook.ts, and its retries).
THEOREM StoredIsDone == Spec => []CommittedOnce
<1>1. ASSUME GInv, NEW d \in Deliveries PROVE Cardinality(made[d]) <= 1
  <2>1. CASE made[d] = {}
    BY <2>1, FS_EmptySet
  <2>2. CASE \E n \in Nat : made[d] = {n}
    <3>1. PICK n \in Nat : made[d] = {n}
      BY <2>2
    <3>2. Cardinality({n}) = 1
      BY FS_Singleton
    <3> QED  BY <3>1, <3>2
  <2> QED  BY <1>1, <2>1, <2>2 DEF GInv, Stored
<1>2. GInv => CommittedOnce
  BY <1>1 DEF GInv, Stored, Untouched, CommittedOnce
<1> QED  BY <1>2, GroundedInductive, PTL

\* No delivery sends an enrolled task to review or ends it, none touches a held
\* or a reserved row, and an attempt that is active after it describes its task:
\* a completion is left to an authenticated actor (applyEvent and
\* invalidateGroundingContext of grounding-github-webhook.ts).
THEOREM OnlyObserves == Spec => WebhookObserves
<1>1. ASSUME GInv, GInv', Next, stored' # stored, NEW t \in Tasks
      PROVE  /\ row'[t].status # row[t].status /\ enrolled[t] # "no"
                   => row'[t].status = "work"
             /\ t \in held \cup reserved => row'[t] = row[t]
             /\ \A a \in attempt'[t] : a.row = row'[t]
  <2>1. PICK r \in Requests : Commit(r)
    BY <1>1 DEF Next, Fails, Replay, Refuse, Push, Receive, Crash, Others
  <2>2. row'[t] = Effect(Event[req[r].of], t) /\ ~Refused(Event[req[r].of])
    BY <2>1 DEF Commit
  <2>3. \A a \in attempt'[t] : a.row = row'[t]
    BY <1>1 DEF GInv, Describes
  <2> QED  BY <1>1, <2>2, <2>3, EffectBounds DEF GInv
<1>2. GInv /\ GInv' /\ [Next]_vars =>
        [\A t \in Tasks :
           stored' # stored =>
             /\ row'[t].status # row[t].status /\ enrolled[t] # "no" =>
                   row'[t].status = "work"
             /\ t \in held \cup reserved => row'[t] = row[t]
             /\ \A a \in attempt'[t] : a.row = row'[t]]_vars
  BY <1>1
<1> QED  BY <1>2, GroundedInductive, PTL DEF Spec, WebhookObserves

-----------------------------------------------------------------------------
(* Without Grounding: the background work of a claimed delivery.           *)

Resting == Legacy!Resting

\* What a lookup finds: the rows of some tasks.
Lookups == {<<>>} \cup UNION {[D -> Legacy!Row] : D \in SUBSET Tasks}

Working == [of : Deliveries, pc : {"find", "next", "write", "reread", "effect"},
            found : Lookups, task : Tasks \cup {NoDelivery}, seen : Legacy!Row,
            first : Nat, tries : 0 .. 2]

LegacyTypes ==
    /\ lrow \in [Tasks -> Legacy!Row]
    /\ run \in [Requests -> {Resting} \cup Working]
    /\ said \in [Deliveries \X Tasks -> Nat]

\* A delivery that somebody works on is claimed, or can no longer be sent, and
\* nobody else works on it.
OneRun ==
    /\ \A r \in Requests : run[r] # Resting => run[r].of \in claimed \cup old
    /\ \A r, q \in Requests : run[r] # Resting /\ run[q].of = run[r].of => q = r

Unsaid(d, t) == said[<<d, t>>] = 0

\* A row that was read: it is the row of its version.
Precedes(s, t) == s.ver <= lrow[t].ver /\ (s.ver = lrow[t].ver => s = lrow[t])

\* What the run q knows is true of the rows, whatever others did since it read
\* them, and what it has still to show was not shown.
Sound(q) ==
    /\ q.pc = "find" => \A t \in Tasks : Unsaid(q.of, t)
    /\ \A t \in DOMAIN q.found : Unsaid(q.of, t) /\ Precedes(q.found[t], t)
    /\ q.pc \in {"write", "reread", "effect"} =>
          q.task \in Tasks \ DOMAIN q.found /\ Unsaid(q.of, q.task)
    /\ q.pc \in {"write", "reread"} =>
          /\ Precedes(q.seen, q.task)
          /\ q.seen.ver >= q.first + q.tries
          /\ Legacy!Target(Kind[q.of], q.seen.status) # Legacy!None
    /\ q.pc = "reread" => q.seen # lrow[q.task]

LegacyInv ==
    /\ LegacyTypes
    /\ OneRun
    /\ \A d \in Deliveries, t \in Tasks :
          said[<<d, t>>] <= 1 /\ (d \notin claimed \cup old => Unsaid(d, t))
    /\ \A r \in Requests : run[r] # Resting => Sound(run[r])

LEMMA LookupDomain == \A f \in Lookups : DOMAIN f \subseteq Tasks /\ \A t \in DOMAIN f : f[t] \in Legacy!Row
BY DEF Lookups

LEMMA LookupRest ==
    ASSUME NEW f \in Lookups, NEW t
    PROVE  [u \in DOMAIN f \ {t} |-> f[u]] \in Lookups
<1>1. DOMAIN f \ {t} \in SUBSET Tasks
  BY LookupDomain
<1>2. [u \in DOMAIN f \ {t} |-> f[u]] \in [DOMAIN f \ {t} -> Legacy!Row]
  BY LookupDomain
<1> QED  BY <1>1, <1>2 DEF Lookups

LEMMA RestingShape == Resting.of = NoDelivery /\ Resting.found = <<>> /\ Resting.pc = "idle"
BY DEF Resting, Legacy!Resting

LEMMA RunOf ==
    ASSUME LegacyTypes, NEW r \in Requests
    PROVE  /\ run[r].of # NoDelivery <=> run[r] # Resting
           /\ run[r] # Resting => run[r] \in Working /\ run[r].of \in Deliveries
<1>1. run[r] \in {Resting} \cup Working
  BY DEF LegacyTypes
<1>2. \A q \in Working : q.of \in Deliveries
  BY DEF Working
<1> QED  BY <1>1, <1>2, RestingShape, NoDeliveryAssumption

\* Rows only move on.
MovesOn ==
    /\ lrow' \in [Tasks -> Legacy!Row]
    /\ \A s \in Legacy!Row, t \in Tasks :
          Precedes(s, t) => Precedes(s, t)' /\ (s # lrow[t] => s # lrow'[t])

LEMMA RowSame ==
    ASSUME LegacyTypes, UNCHANGED lrow
    PROVE  MovesOn
BY DEF LegacyTypes, MovesOn, Precedes

LEMMA RowWritten ==
    ASSUME LegacyTypes, NEW t \in Tasks, NEW s \in Legacy!Statuses,
           lrow' = [lrow EXCEPT ![t] = [status |-> s, ver |-> @.ver + 1]]
    PROVE  MovesOn
<1>1. lrow[t] \in Legacy!Row /\ lrow[t].ver \in Nat
  BY DEF LegacyTypes, Legacy!Row
<1>2. [status |-> s, ver |-> lrow[t].ver + 1] \in Legacy!Row
  BY <1>1 DEF Legacy!Row
<1>3. /\ lrow' \in [Tasks -> Legacy!Row]
      /\ lrow'[t] = [status |-> s, ver |-> lrow[t].ver + 1]
      /\ \A u \in Tasks : u # t => lrow'[u] = lrow[u]
  BY <1>2 DEF LegacyTypes
<1>4. ASSUME NEW x \in Legacy!Row, NEW u \in Tasks, Precedes(x, u)
      PROVE  Precedes(x, u)' /\ (x # lrow[u] => x # lrow'[u])
  <2>1. CASE u = t
    <3>1. x.ver \in Nat /\ x.ver <= lrow[t].ver
      BY <1>4, <2>1 DEF Precedes, Legacy!Row
    <3>2. lrow'[t].ver = lrow[t].ver + 1
      BY <1>3
    <3>3. x.ver < lrow'[t].ver
      BY <1>1, <3>1, <3>2
    <3>4. x # lrow'[t] /\ x.ver <= lrow'[t].ver /\ x.ver # lrow'[t].ver
      BY <1>1, <3>1, <3>2, <3>3
    <3> QED  BY <2>1, <3>4 DEF Precedes
  <2>2. CASE u # t
    BY <1>3, <1>4, <2>2 DEF Precedes
  <2> QED  BY <2>1, <2>2
<1> QED  BY <1>3, <1>4 DEF MovesOn

\* What a run knows survives the steps of others.
LEMMA SoundKept ==
    ASSUME NEW q \in Working, Sound(q), MovesOn,
           \A t \in Tasks : said'[<<q.of, t>>] = said[<<q.of, t>>]
    PROVE  Sound(q)'
<1>1. /\ DOMAIN q.found \subseteq Tasks /\ q.seen \in Legacy!Row
      /\ \A t \in DOMAIN q.found : q.found[t] \in Legacy!Row
  BY LookupDomain DEF Working
<1>2. \A t \in Tasks : Unsaid(q.of, t) => Unsaid(q.of, t)'
  BY DEF Unsaid
<1>3. ASSUME NEW t \in DOMAIN q.found PROVE Unsaid(q.of, t)' /\ Precedes(q.found[t], t)'
  BY <1>1, <1>2 DEF Sound, MovesOn
<1>4. ASSUME q.pc \in {"write", "reread"}
      PROVE  /\ Precedes(q.seen, q.task)'
             /\ q.pc = "reread" => q.seen # lrow'[q.task]
  BY <1>1, <1>4 DEF Sound, MovesOn
<1> QED  BY <1>1, <1>2, <1>3, <1>4 DEF Sound

LEMMA SoundAfter ==
    ASSUME NEW q, NEW r \in Requests, run'[r] = q, Sound(q)'
    PROVE  Sound(run[r])'
BY DEF Sound, Unsaid, Precedes

\* Every step but the arrival of a delivery: a run rests, is left alone or goes
\* on with its delivery.
LEMMA WorkStep ==
    ASSUME LegacyInv, MovesOn,
           run' \in [Requests -> {Resting} \cup Working],
           said' \in [Deliveries \X Tasks -> Nat],
           claimed' \cup old' = claimed \cup old,
           \A d \in Deliveries, t \in Tasks :
              said'[<<d, t>>] <= 1 /\ (d \notin claimed \cup old => said'[<<d, t>>] = 0),
           \A r \in Requests :
              \/ run'[r] = Resting
              \/ /\ run'[r] = run[r]
                 /\ \A t \in Tasks : said'[<<run[r].of, t>>] = said[<<run[r].of, t>>]
              \/ run[r] # Resting /\ run'[r].of = run[r].of /\ Sound(run[r])'
    PROVE  LegacyInv'
<1>1. LegacyTypes'
  BY DEF LegacyTypes, MovesOn
<1>2. \A r \in Requests : run'[r] # Resting => run[r] # Resting /\ run'[r].of = run[r].of
  OBVIOUS
<1>3. OneRun'
  <2>1. ASSUME NEW r \in Requests, run'[r] # Resting PROVE run'[r].of \in claimed' \cup old'
    BY <1>2, <2>1 DEF LegacyInv, OneRun
  <2>2. ASSUME NEW r \in Requests, NEW q \in Requests, run'[r] # Resting,
               run'[q].of = run'[r].of
        PROVE  q = r
    <3>1. run[r] # Resting /\ run[r].of = run'[r].of /\ run[r].of # NoDelivery
      BY <1>2, <2>2, RunOf DEF LegacyInv
    <3>2. run'[q] # Resting
      BY <2>2, <3>1, RestingShape
    <3>3. run[q].of = run[r].of
      BY <1>2, <2>2, <3>1, <3>2
    <3> QED  BY <3>1, <3>3 DEF LegacyInv, OneRun
  <2> QED  BY <2>1, <2>2 DEF OneRun
<1>4. ASSUME NEW r \in Requests, run'[r] # Resting PROVE Sound(run[r])'
  <2>1. CASE run'[r] = run[r] /\ \A t \in Tasks : said'[<<run[r].of, t>>] = said[<<run[r].of, t>>]
    <3>1. run[r] \in Working /\ Sound(run[r])
      BY <1>4, <2>1, RunOf DEF LegacyInv
    <3>2. PICK q \in Working : q = run[r]
      BY <3>1
    <3>3. Sound(q)
      BY <3>1, <3>2
    <3>4. Sound(q)'
      BY <2>1, <3>2, <3>3, SoundKept
    <3> QED  BY <2>1, <3>2, <3>4, SoundAfter
  <2> QED  BY <1>4, <2>1
<1>5. \A d \in Deliveries, t \in Tasks :
         said'[<<d, t>>] <= 1 /\ (d \notin claimed' \cup old' => said'[<<d, t>>] = 0)
  OBVIOUS
<1> QED  BY <1>1, <1>3, <1>4, <1>5 DEF LegacyInv, Unsaid

\* A run that goes on keeps its delivery, its task and its lookup, and decides
\* on the row it has seen.
LEMMA EffectShape ==
    ASSUME NEW q \in Working
    PROVE  /\ Legacy!Effect(q) \in Working
           /\ Legacy!Effect(q).pc \in {"next", "effect"}
           /\ Legacy!Effect(q).of = q.of /\ Legacy!Effect(q).found = q.found
           /\ Legacy!Effect(q).task = q.task
BY DEF Working, Legacy!Effect

LEMMA DecidedShape ==
    ASSUME NEW q \in Working, NEW s \in Legacy!Row
    PROVE  LET n == Legacy!Decided(q, s) IN
           /\ n \in Working /\ n.of = q.of /\ n.found = q.found /\ n.task = q.task
           /\ n.pc \in {"next", "effect", "write"}
           /\ n.pc \in {"next", "effect"} <=>
                 Legacy!Target(Kind[q.of], s.status) = Legacy!None
           /\ n.pc = "write" => n.seen = s /\ n.first = q.first /\ n.tries = q.tries
<1> DEFINE e == [q EXCEPT !.seen = s]
           w == [q EXCEPT !.seen = s, !.pc = "write"]
<1>1. e \in Working /\ e.of = q.of /\ e.found = q.found /\ e.task = q.task
  BY DEF Working
<1>2. /\ w \in Working /\ w.of = q.of /\ w.found = q.found /\ w.task = q.task
      /\ w.pc = "write" /\ w.seen = s /\ w.first = q.first /\ w.tries = q.tries
  BY DEF Working
<1>3. Legacy!Decided(q, s) = IF Legacy!Target(Kind[q.of], s.status) = Legacy!None
                             THEN Legacy!Effect(e) ELSE w
  BY DEF Legacy!Decided
<1> HIDE DEF e, w
<1>4. /\ Legacy!Effect(e) \in Working /\ Legacy!Effect(e).pc \in {"next", "effect"}
      /\ Legacy!Effect(e).of = q.of /\ Legacy!Effect(e).found = q.found
      /\ Legacy!Effect(e).task = q.task
  BY <1>1, EffectShape
<1> QED  BY <1>2, <1>3, <1>4

LEMMA TargetTypes ==
    ASSUME NEW kind, NEW s
    PROVE  Legacy!Target(kind, s) # Legacy!None => Legacy!Target(kind, s) \in Legacy!Statuses
BY Zenon DEF Legacy!Target, Legacy!Statuses

\* A step of one run: it rests, or goes on with its delivery.
LEMMA OneWorkStep ==
    ASSUME LegacyInv, MovesOn, UNCHANGED <<claimed, old, said>>,
           NEW r \in Requests, run[r] # Resting,
           NEW n \in {Resting} \cup Working, run' = [run EXCEPT ![r] = n],
           n # Resting => n.of = run[r].of /\ Sound(n)'
    PROVE  LegacyInv'
<1>1. /\ run' \in [Requests -> {Resting} \cup Working] /\ run'[r] = n
      /\ \A q \in Requests : q # r => run'[q] = run[q]
  BY DEF LegacyInv, LegacyTypes
<1>2. ASSUME NEW q \in Requests
      PROVE  \/ run'[q] = Resting
             \/ /\ run'[q] = run[q]
                /\ \A t \in Tasks : said'[<<run[q].of, t>>] = said[<<run[q].of, t>>]
             \/ run[q] # Resting /\ run'[q].of = run[q].of /\ Sound(run[q])'
  <2>1. CASE q # r
    BY <1>1, <2>1
  <2>2. CASE q = r /\ n # Resting
    <3>1. Sound(run[r])'
      BY <1>1, <2>2, SoundAfter
    <3> QED  BY <1>1, <2>2, <3>1
  <2> QED  BY <1>1, <2>1, <2>2
<1>3. said' \in [Deliveries \X Tasks -> Nat]
  BY DEF LegacyInv, LegacyTypes
<1>4. \A d \in Deliveries, t \in Tasks :
         said'[<<d, t>>] <= 1 /\ (d \notin claimed \cup old => said'[<<d, t>>] = 0)
  BY DEF LegacyInv, Unsaid
<1> QED  BY <1>1, <1>2, <1>3, <1>4, WorkStep

\* What a running run is.
LEMMA AtWork ==
    ASSUME LegacyInv, NEW r \in Requests, NEW pc, Legacy!At(r, pc)
    PROVE  /\ run[r] # Resting /\ run[r] \in Working /\ run[r].of \in Deliveries
           /\ Sound(run[r]) /\ run[r].pc = pc
BY RunOf DEF LegacyInv, Legacy!At

LEMMA FindStep ==
    ASSUME LegacyInv, NEW r \in Requests, Legacy!Find(r)
    PROVE  LegacyInv'
<1> DEFINE D == Legacy!Concerned(run[r].of)
           f == [t \in D |-> lrow[t]]
           n == [run[r] EXCEPT !.pc = "next", !.found = f]
<1>0. /\ Legacy!At(r, "find") /\ run' = [run EXCEPT ![r] = n]
      /\ UNCHANGED <<lrow, claimed, lsent, old, said>>
  BY DEF Legacy!Find
<1>1. /\ run[r] # Resting /\ run[r] \in Working /\ Sound(run[r]) /\ run[r].pc = "find"
      /\ lrow \in [Tasks -> Legacy!Row]
  BY <1>0, AtWork DEF LegacyInv, LegacyTypes
<1>2. D \subseteq Tasks
  BY DEF Legacy!Concerned
<1> HIDE DEF D
<1>3. f \in Lookups /\ DOMAIN f = D
  BY <1>1, <1>2 DEF Lookups
<1>4. \A t \in D : f[t] = lrow[t]
  OBVIOUS
<1> HIDE DEF f
<1>5. n \in Working /\ n.of = run[r].of /\ n.pc = "next" /\ n.found = f
  BY <1>1, <1>3 DEF Working
<1> HIDE DEF n
<1>6. PICK m \in Working : m = n
  BY <1>5
<1>7. Sound(m)'
  <2>1. \A t \in D : Unsaid(m.of, t)' /\ Precedes(m.found[t], t)'
    <3>1. \A t \in Tasks : said'[<<m.of, t>>] = 0
      BY <1>0, <1>1, <1>5, <1>6 DEF Sound, Unsaid
    <3>2. \A t \in D : m.found[t] = lrow'[t] /\ lrow'[t].ver \in Nat
      BY <1>0, <1>1, <1>2, <1>4, <1>5, <1>6 DEF Legacy!Row
    <3> QED  BY <1>2, <3>1, <3>2 DEF Unsaid, Precedes
  <2> QED  BY <1>3, <1>5, <1>6, <2>1 DEF Sound
<1> QED  BY <1>0, <1>1, <1>5, <1>6, <1>7, RowSame, OneWorkStep DEF LegacyInv

\* The run q takes task t of its lookup, at version k, and has f left.
Taken(q, t, f, k, z) == [q EXCEPT !.task = t, !.found = f, !.tries = z, !.first = k]

LEMMA TakenShape ==
    ASSUME NEW q \in Working, NEW t \in Tasks, NEW f \in Lookups, NEW k \in Nat,
           NEW z \in 0 .. 2
    PROVE  /\ Taken(q, t, f, k, z) \in Working
           /\ Taken(q, t, f, k, z).of = q.of /\ Taken(q, t, f, k, z).task = t
           /\ Taken(q, t, f, k, z).found = f
           /\ Taken(q, t, f, k, z).tries = z /\ Taken(q, t, f, k, z).first = k
BY DEF Working, Taken

LEMMA TakeStep ==
    ASSUME LegacyInv, NEW r \in Requests, Legacy!Take(r)
    PROVE  LegacyInv'
<1>0. Legacy!At(r, "next") /\ UNCHANGED <<lrow, claimed, lsent, old, said>>
  BY DEF Legacy!Take
<1>1. /\ run[r] # Resting /\ run[r] \in Working /\ Sound(run[r])
      /\ run[r].found \in Lookups
  BY <1>0, AtWork DEF Working
<1>2. PICK t \in DOMAIN run[r].found :
         LET rest == [u \in DOMAIN run[r].found \ {t} |-> run[r].found[u]]
             q == [run[r] EXCEPT !.task = t, !.found = rest, !.tries = 0,
                                !.first = run[r].found[t].ver]
         IN  run' = [run EXCEPT ![r] = Legacy!Decided(q, run[r].found[t])]
  BY DEF Legacy!Take
<1> DEFINE s == run[r].found[t]
           rest == [u \in DOMAIN run[r].found \ {t} |-> run[r].found[u]]
           q == [run[r] EXCEPT !.task = t, !.found = rest, !.tries = 0, !.first = s.ver]
           n == Legacy!Decided(q, s)
<1>3. t \in Tasks /\ s \in Legacy!Row /\ s.ver \in Nat
  BY <1>1, LookupDomain DEF Legacy!Row
<1>4. rest \in Lookups /\ DOMAIN rest = DOMAIN run[r].found \ {t}
  BY <1>1, LookupRest
<1>5. \A u \in DOMAIN rest : rest[u] = run[r].found[u]
  OBVIOUS
<1>6. run' = [run EXCEPT ![r] = n]
  BY <1>2
<1>s. s = run[r].found[t]
  OBVIOUS
<1> HIDE DEF rest, s
<1>7. /\ q \in Working /\ q.of = run[r].of /\ q.task = t /\ q.found = rest
      /\ q.tries = 0 /\ q.first = s.ver
  <2>1. q = Taken(run[r], t, rest, s.ver, 0)
    BY DEF Taken
  <2>2. 0 \in 0 .. 2
    OBVIOUS
  <2> HIDE DEF q
  <2>3. run[r] \in Working
    BY <1>1
  <2>4. t \in Tasks
    BY <1>3
  <2>5. rest \in Lookups
    BY <1>4
  <2>6. s.ver \in Nat
    BY <1>3
  <2> DEFINE x == Taken(run[r], t, rest, s.ver, 0)
  <2>7. x \in Working
    BY <2>2, <2>3, <2>4, <2>5, <2>6, TakenShape
  <2>8. x.of = run[r].of
    BY <2>2, <2>3, <2>4, <2>5, <2>6, TakenShape
  <2>9. x.task = t
    BY <2>2, <2>3, <2>4, <2>5, <2>6, TakenShape
  <2>10. x.found = rest
    BY <2>2, <2>3, <2>4, <2>5, <2>6, TakenShape
  <2>11. x.first = s.ver
    BY <2>2, <2>3, <2>4, <2>5, <2>6, TakenShape
  <2>12. x.tries = 0
    BY <2>2, <2>3, <2>4, <2>5, <2>6, TakenShape
  <2> QED  BY <2>1, <2>7, <2>8, <2>9, <2>10, <2>11, <2>12
<1> HIDE DEF q
<1>8. /\ n \in Working /\ n.of = run[r].of /\ n.found = rest /\ n.task = t
      /\ n.pc \in {"next", "effect", "write"}
      /\ n.pc = "write" => /\ n.seen = s /\ n.first = s.ver /\ n.tries = 0
                           /\ Legacy!Target(Kind[n.of], n.seen.status) # Legacy!None
  BY <1>3, <1>7, DecidedShape
<1> HIDE DEF n
<1>9. PICK m \in Working : m = n
  BY <1>8
<1>10. Unsaid(m.of, t)' /\ Precedes(s, t)
  BY <1>0, <1>1, <1>8, <1>9, <1>s DEF Sound, Unsaid
<1>11. ASSUME NEW u \in DOMAIN m.found PROVE Unsaid(m.of, u)' /\ Precedes(m.found[u], u)'
  BY <1>0, <1>1, <1>4, <1>5, <1>8, <1>9 DEF Sound, Unsaid, Precedes
<1>12. m.pc = "write" => /\ Precedes(m.seen, t)' /\ m.seen.ver >= m.first + m.tries
                         /\ Legacy!Target(Kind[m.of], m.seen.status) # Legacy!None
  <2>1. Precedes(s, t) /\ lrow' = lrow
    BY <1>0, <1>10
  <2> QED  BY <1>3, <1>8, <1>9, <2>1 DEF Precedes
<1>13. Sound(m)'
  BY <1>3, <1>4, <1>8, <1>9, <1>10, <1>11, <1>12 DEF Sound
<1> QED  BY <1>0, <1>1, <1>6, <1>8, <1>9, <1>13, RowSame, OneWorkStep DEF LegacyInv

LEMMA PcShape ==
    ASSUME NEW q \in Working, NEW pc \in {"next", "reread", "effect"}
    PROVE  /\ [q EXCEPT !.pc = pc] \in Working
           /\ [q EXCEPT !.pc = pc].of = q.of /\ [q EXCEPT !.pc = pc].pc = pc
           /\ [q EXCEPT !.pc = pc].found = q.found
           /\ [q EXCEPT !.pc = pc].task = q.task
           /\ [q EXCEPT !.pc = pc].seen = q.seen
           /\ [q EXCEPT !.pc = pc].first = q.first
           /\ [q EXCEPT !.pc = pc].tries = q.tries
BY DEF Working

\* A lost write: the row is another one than was seen, so it has moved on.
LEMMA LostStep ==
    ASSUME LegacyInv, NEW r \in Requests, Legacy!Write(r), ~Legacy!Lands(run[r])
    PROVE  LegacyInv'
<1> DEFINE n == [run[r] EXCEPT !.pc = "reread"]
<1>0. /\ Legacy!At(r, "write") /\ run' = [run EXCEPT ![r] = n]
      /\ UNCHANGED <<lrow, claimed, lsent, old, said>>
  BY DEF Legacy!Write
<1>1. /\ run[r] # Resting /\ run[r] \in Working /\ Sound(run[r]) /\ run[r].pc = "write"
  BY <1>0, AtWork
<1>2. /\ n \in Working /\ n.of = run[r].of /\ n.pc = "reread" /\ n.found = run[r].found
      /\ n.task = run[r].task /\ n.seen = run[r].seen /\ n.first = run[r].first
      /\ n.tries = run[r].tries
  BY <1>1, PcShape
<1> HIDE DEF n
<1>3. PICK m \in Working : m = n
  BY <1>2
<1>4. lrow[run[r].task] # run[r].seen
  BY DEF Legacy!Lands
<1>5. Sound(m)'
  BY <1>0, <1>1, <1>2, <1>3, <1>4 DEF Sound, Unsaid, Precedes
<1> QED  BY <1>0, <1>1, <1>2, <1>3, <1>5, RowSame, OneWorkStep DEF LegacyInv

\* A write that lands: the row moves on for everybody.
LEMMA LandedStep ==
    ASSUME LegacyInv, NEW r \in Requests, Legacy!Write(r), Legacy!Lands(run[r])
    PROVE  LegacyInv'
<1> DEFINE n == [run[r] EXCEPT !.pc = "effect"]
           to == Legacy!Target(Kind[run[r].of], run[r].seen.status)
           t == run[r].task
<1>0. /\ Legacy!At(r, "write") /\ run' = [run EXCEPT ![r] = n]
      /\ lrow' = [lrow EXCEPT ![t] = [status |-> to, ver |-> @.ver + 1]]
      /\ UNCHANGED <<claimed, lsent, old, said>>
  BY DEF Legacy!Write
<1>1. /\ run[r] # Resting /\ run[r] \in Working /\ Sound(run[r]) /\ run[r].pc = "write"
  BY <1>0, AtWork
<1>2. t \in Tasks /\ to \in Legacy!Statuses
  BY <1>1, TargetTypes DEF Sound
<1> HIDE DEF to
<1>3. MovesOn
  BY <1>0, <1>2, RowWritten DEF LegacyInv
<1>4. /\ n \in Working /\ n.of = run[r].of /\ n.pc = "effect" /\ n.found = run[r].found
      /\ n.task = t
  BY <1>1, PcShape
<1> HIDE DEF n
<1>5. PICK m \in Working : m = n
  BY <1>4
<1>6. PICK q \in Working : q = run[r]
  BY <1>1
<1>7. Sound(q)'
  BY <1>0, <1>1, <1>3, <1>6, SoundKept
<1>8. Sound(m)'
  BY <1>1, <1>4, <1>5, <1>6, <1>7 DEF Sound, Unsaid
<1> QED  BY <1>0, <1>1, <1>3, <1>4, <1>5, <1>8, OneWorkStep

\* The row is read again: what it was decided on is its row of now.
LEMMA RereadStep ==
    ASSUME LegacyInv, NEW r \in Requests, Legacy!Reread(r)
    PROVE  LegacyInv'
<1> DEFINE t == run[r].task
           k == run[r].tries
           s == lrow[t]
           q == [run[r] EXCEPT !.tries = @ + 1]
           e == [run[r] EXCEPT !.seen = s]
<1>0. /\ Legacy!At(r, "reread")
      /\ run' = [run EXCEPT ![r] = IF k + 1 < Legacy!Attempts THEN Legacy!Decided(q, s)
                                   ELSE Legacy!Effect(e)]
      /\ UNCHANGED <<lrow, claimed, lsent, old, said>>
  BY DEF Legacy!Reread
<1>1. /\ run[r] # Resting /\ run[r] \in Working /\ Sound(run[r])
      /\ run[r].pc = "reread" /\ run[r].of \in Deliveries
  BY <1>0, AtWork
<1>2. /\ t \in Tasks \ DOMAIN run[r].found /\ Unsaid(run[r].of, t)
      /\ s \in Legacy!Row /\ s.ver \in Nat
  BY <1>1 DEF Sound, LegacyInv, LegacyTypes, Legacy!Row
<1>3. /\ k \in 0 .. 2 /\ run[r].first \in Nat /\ run[r].seen.ver \in Nat
      /\ s.ver > run[r].seen.ver /\ run[r].seen.ver >= run[r].first + k
  <2>1. k \in 0 .. 2 /\ run[r].first \in Nat /\ run[r].seen.ver \in Nat
    BY <1>1 DEF Working, Legacy!Row
  <2>2. Precedes(run[r].seen, t) /\ run[r].seen # s /\ run[r].seen.ver >= run[r].first + k
    BY <1>1 DEF Sound
  <2> QED  BY <1>2, <2>1, <2>2 DEF Precedes
<1>4. CASE k + 1 < Legacy!Attempts
  <2>1. /\ q \in Working /\ q.of = run[r].of /\ q.found = run[r].found /\ q.task = t
        /\ q.first = run[r].first /\ q.tries = k + 1
    <3>1. k + 1 \in 0 .. 2
      BY <1>3, <1>4 DEF Legacy!Attempts
    <3> QED  BY <1>1, <3>1 DEF Working
  <2> DEFINE n == Legacy!Decided(q, s)
  <2> HIDE DEF q, s
  <2>2. /\ n \in Working /\ n.of = run[r].of /\ n.found = run[r].found /\ n.task = t
        /\ n.pc \in {"next", "effect", "write"}
        /\ n.pc = "write" => /\ n.seen = s /\ n.first = run[r].first /\ n.tries = k + 1
                             /\ Legacy!Target(Kind[n.of], n.seen.status) # Legacy!None
    BY <1>2, <2>1, DecidedShape
  <2>3. run' = [run EXCEPT ![r] = n]
    BY <1>0, <1>4
  <2> HIDE DEF n
  <2>4. PICK m \in Working : m = n
    BY <2>2
  <2>5. m.pc = "write" => Precedes(m.seen, m.task)' /\ m.seen.ver >= m.first + m.tries
    BY <1>0, <1>2, <1>3, <2>2, <2>4 DEF Precedes, s
  <2>6. Sound(m)'
    <3>1. \A u \in DOMAIN m.found : Unsaid(m.of, u)' /\ Precedes(m.found[u], u)'
      BY <1>0, <1>1, <2>2, <2>4 DEF Sound, Unsaid, Precedes
    <3> QED  BY <1>0, <1>2, <2>2, <2>4, <2>5, <3>1 DEF Sound, Unsaid
  <2> QED  BY <1>0, <1>1, <2>2, <2>3, <2>4, <2>6, RowSame, OneWorkStep DEF LegacyInv
<1>5. CASE ~(k + 1 < Legacy!Attempts)
  <2>1. e \in Working /\ e.of = run[r].of /\ e.found = run[r].found /\ e.task = t
    BY <1>1, <1>2 DEF Working
  <2> DEFINE n == Legacy!Effect(e)
  <2> HIDE DEF e, s
  <2>2. /\ n \in Working /\ n.of = run[r].of /\ n.found = run[r].found /\ n.task = t
        /\ n.pc \in {"next", "effect"}
    BY <2>1, EffectShape
  <2>3. run' = [run EXCEPT ![r] = n]
    BY <1>0, <1>5
  <2> HIDE DEF n
  <2>4. PICK m \in Working : m = n
    BY <2>2
  <2>5. Sound(m)'
    <3>1. \A u \in DOMAIN m.found : Unsaid(m.of, u)' /\ Precedes(m.found[u], u)'
      BY <1>0, <1>1, <2>2, <2>4 DEF Sound, Unsaid, Precedes
    <3> QED  BY <1>0, <1>2, <2>2, <2>4, <3>1 DEF Sound, Unsaid
  <2> QED  BY <1>0, <1>1, <2>2, <2>3, <2>4, <2>5, RowSame, OneWorkStep DEF LegacyInv
<1> QED  BY <1>4, <1>5

\* The effect is shown on the task the run has taken, for the first time.
LEMMA ShowStep ==
    ASSUME LegacyInv, NEW r \in Requests, Legacy!Show(r)
    PROVE  LegacyInv'
<1> DEFINE n == [run[r] EXCEPT !.pc = "next"]
           d == run[r].of
           t == run[r].task
<1>0. /\ Legacy!At(r, "effect") /\ run' = [run EXCEPT ![r] = n]
      /\ said' = [said EXCEPT ![<<d, t>>] = @ + 1]
      /\ UNCHANGED <<lrow, claimed, lsent, old>>
  BY DEF Legacy!Show
<1>1. /\ run[r] # Resting /\ run[r] \in Working /\ Sound(run[r]) /\ run[r].pc = "effect"
      /\ d \in Deliveries
  BY <1>0, AtWork
<1>2. t \in Tasks \ DOMAIN run[r].found /\ said[<<d, t>>] = 0
  BY <1>1 DEF Sound, Unsaid
<1>3. n \in Working /\ n.of = d /\ n.pc = "next" /\ n.found = run[r].found
  BY <1>1, PcShape
<1> HIDE DEF n
<1>4. said \in [Deliveries \X Tasks -> Nat]
  BY DEF LegacyInv, LegacyTypes
<1>5. /\ said' \in [Deliveries \X Tasks -> Nat] /\ said'[<<d, t>>] = 1
      /\ \A x \in Deliveries, u \in Tasks :
            ~(x = d /\ u = t) => said'[<<x, u>>] = said[<<x, u>>]
  BY <1>0, <1>1, <1>2, <1>4
<1>6. d \in claimed \cup old
  BY <1>1 DEF LegacyInv, OneRun
<1>7. \A x \in Deliveries, u \in Tasks :
         said'[<<x, u>>] <= 1 /\ (x \notin claimed \cup old => said'[<<x, u>>] = 0)
  <2>1. ASSUME NEW x \in Deliveries, NEW u \in Tasks, ~(x = d /\ u = t)
        PROVE  said'[<<x, u>>] <= 1 /\ (x \notin claimed \cup old => said'[<<x, u>>] = 0)
    BY <1>5, <2>1 DEF LegacyInv, Unsaid
  <2>2. said'[<<d, t>>] <= 1
    BY <1>5
  <2> QED  BY <1>6, <2>1, <2>2
<1>8. /\ run' \in [Requests -> {Resting} \cup Working] /\ run'[r] = n
      /\ \A q \in Requests : q # r => run'[q] = run[q]
  BY <1>0, <1>3 DEF LegacyInv, LegacyTypes
<1>9. Sound(run[r])'
  <2>1. PICK m \in Working : m = n
    BY <1>3
  <2>2. \A u \in DOMAIN m.found : u \in Tasks
    BY LookupDomain DEF Working
  <2>3. \A u \in DOMAIN m.found : Unsaid(m.of, u)' /\ Precedes(m.found[u], u)'
    BY <1>0, <1>1, <1>2, <1>3, <1>5, <2>1, <2>2 DEF Sound, Unsaid, Precedes
  <2>4. Sound(m)'
    BY <1>3, <2>1, <2>3 DEF Sound
  <2> QED  BY <1>8, <2>1, <2>4, SoundAfter
<1>10. ASSUME NEW q \in Requests
       PROVE  \/ run'[q] = Resting
              \/ /\ run'[q] = run[q]
                 /\ \A u \in Tasks : said'[<<run[q].of, u>>] = said[<<run[q].of, u>>]
              \/ run[q] # Resting /\ run'[q].of = run[q].of /\ Sound(run[q])'
  <2>1. CASE q = r
    BY <1>1, <1>3, <1>8, <1>9, <2>1
  <2>2. CASE q # r /\ run[q] # Resting
    <3>1. run[q].of # d /\ run[q].of \in Deliveries
      BY <1>1, <2>2, RunOf DEF LegacyInv, OneRun
    <3> QED  BY <1>5, <1>8, <2>2, <3>1
  <2>3. CASE q # r /\ run[q] = Resting
    BY <1>8, <2>3
  <2> QED  BY <2>1, <2>2, <2>3
<1> QED  BY <1>0, <1>5, <1>7, <1>8, <1>10, RowSame, WorkStep DEF LegacyInv

\* The runs are left alone or end: rows move on, deliveries grow old.
LEMMA AroundStep ==
    ASSUME LegacyInv, MovesOn, UNCHANGED said,
           claimed' \cup old' = claimed \cup old,
           run' \in [Requests -> {Resting} \cup Working],
           \A r \in Requests : run'[r] = Resting \/ run'[r] = run[r]
    PROVE  LegacyInv'
<1>1. said' \in [Deliveries \X Tasks -> Nat]
  BY DEF LegacyInv, LegacyTypes
<1>2. \A d \in Deliveries, t \in Tasks :
         said'[<<d, t>>] <= 1 /\ (d \notin claimed \cup old => said'[<<d, t>>] = 0)
  BY DEF LegacyInv, Unsaid
<1> QED  BY <1>1, <1>2, WorkStep

LEMMA ReceiveStep ==
    ASSUME LegacyInv, NEW r \in Requests, NEW d \in Deliveries, Legacy!Receive(r, d)
    PROVE  LegacyInv'
<1> DEFINE n == [Resting EXCEPT !.of = d, !.pc = "find"]
<1>0. /\ run[r] = Resting /\ d \notin old
      /\ UNCHANGED <<lrow, old, said>>
      /\ \/ d \notin claimed /\ claimed' = claimed \cup {d} /\ run' = [run EXCEPT ![r] = n]
         \/ UNCHANGED <<claimed, run>>
  BY DEF Legacy!Receive, Legacy!Fresh, Resting
<1>1. CASE UNCHANGED <<claimed, run>>
  BY <1>0, <1>1, AroundStep, RowSame DEF LegacyInv, LegacyTypes
<1>2. CASE d \notin claimed /\ claimed' = claimed \cup {d} /\ run' = [run EXCEPT ![r] = n]
  <2>1. n \in Working /\ n.of = d /\ n.pc = "find" /\ n.found = <<>>
    <3> DEFINE Begun == [of : {NoDelivery}, pc : {"idle"}, found : {<<>>},
                         task : {NoDelivery}, seen : Legacy!Row, first : Nat,
                         tries : 0 .. 2]
    <3>1. Resting \in Begun
      BY DEF Resting, Legacy!Resting, Legacy!Row, Legacy!Statuses
    <3>2. ASSUME NEW q \in Begun
          PROVE  LET m == [q EXCEPT !.of = d, !.pc = "find"] IN
                 m \in Working /\ m.of = d /\ m.pc = "find" /\ m.found = <<>>
      BY DEF Working, Lookups
    <3> HIDE DEF Begun
    <3> QED  BY <3>1, <3>2
  <2> HIDE DEF n
  <2>2. /\ run' \in [Requests -> {Resting} \cup Working] /\ run'[r] = n
        /\ \A q \in Requests : q # r => run'[q] = run[q]
    BY <1>2, <2>1 DEF LegacyInv, LegacyTypes
  <2>3. LegacyTypes'
    BY <1>0, <2>2 DEF LegacyInv, LegacyTypes
  <2>4. \A q \in Requests : run[q] # Resting => run[q].of \in claimed \cup old /\ run[q].of # d
    BY <1>0, <1>2 DEF LegacyInv, OneRun
  <2>5. OneRun'
    <3>1. \A q \in Requests : run'[q] # Resting => run'[q].of \in claimed' \cup old'
      BY <1>0, <1>2, <2>1, <2>2, <2>4
    <3>2. ASSUME NEW p \in Requests, NEW q \in Requests, run'[p] # Resting,
                 run'[q].of = run'[p].of
          PROVE  q = p
      <4>1. run'[p].of # NoDelivery
        BY <2>2, <3>2, RunOf, NoDeliveryAssumption, <2>1 DEF LegacyInv
      <4>2. run'[q] # Resting
        BY <3>2, <4>1, RestingShape
      <4>3. CASE p = r
        BY <2>1, <2>2, <2>4, <3>2, <4>2, <4>3
      <4>4. CASE q = r
        BY <2>1, <2>2, <2>4, <3>2, <4>2, <4>4
      <4>5. CASE p # r /\ q # r
        BY <2>2, <3>2, <4>5 DEF LegacyInv, OneRun
      <4> QED  BY <4>3, <4>4, <4>5
    <3> QED  BY <3>1, <3>2 DEF OneRun
  <2>6. \A x \in Deliveries, t \in Tasks :
           said'[<<x, t>>] <= 1 /\ (x \notin claimed' \cup old' => Unsaid(x, t)')
    BY <1>0, <1>2 DEF LegacyInv, Unsaid
  <2>7. ASSUME NEW q \in Requests, run'[q] # Resting PROVE Sound(run[q])'
    <3>1. CASE q = r
      <4>1. PICK m \in Working : m = n
        BY <2>1
      <4>2. \A t \in Tasks : Unsaid(d, t)'
        BY <1>0, <1>2 DEF LegacyInv, Unsaid
      <4>3. DOMAIN m.found = {}
        BY <2>1, <4>1
      <4>4. Sound(m)'
        BY <2>1, <4>1, <4>2, <4>3 DEF Sound
      <4> QED  BY <2>2, <3>1, <4>1, <4>4, SoundAfter
    <3>2. CASE q # r
      <4>1. run'[q] = run[q] /\ run[q] \in Working /\ Sound(run[q])
        BY <2>2, <2>7, <3>2, RunOf DEF LegacyInv
      <4>2. PICK m \in Working : m = run[q]
        BY <4>1
      <4>3. Sound(m)'
        BY <1>0, <4>1, <4>2, RowSame, SoundKept DEF LegacyInv
      <4> QED  BY <4>1, <4>2, <4>3, SoundAfter
    <3> QED  BY <3>1, <3>2
  <2> QED  BY <2>3, <2>5, <2>6, <2>7 DEF LegacyInv
<1> QED  BY <1>0, <1>1, <1>2

LEMMA LegacyInit ==
    ASSUME Legacy!Init
    PROVE  LegacyInv
<1>1. \A r \in Requests : run[r] = Resting
  BY DEF Legacy!Init, Resting
<1>2. lrow \in [Tasks -> Legacy!Row]
  <2> DEFINE First == [status : {"work", "review"}, ver : {0}]
  <2>1. First \subseteq Legacy!Row
    BY DEF Legacy!Row, Legacy!Statuses
  <2>2. lrow \in [Tasks -> First]
    BY DEF Legacy!Init
  <2> HIDE DEF First
  <2> QED  BY <2>1, <2>2
<1>3. LegacyTypes
  BY <1>2 DEF Legacy!Init, LegacyTypes, Resting
<1>4. OneRun
  <2>1. ~(\E r \in Requests : run[r] # Resting)
    BY <1>1
  <2> QED  BY <2>1 DEF OneRun
<1>5. \A d \in Deliveries, t \in Tasks :
         said[<<d, t>>] <= 1 /\ (d \notin claimed \cup old => Unsaid(d, t))
  BY DEF Legacy!Init, Unsaid
<1> QED  BY <1>1, <1>3, <1>4, <1>5 DEF LegacyInv

LEMMA LegacyStep ==
    ASSUME LegacyInv, [Legacy!Next]_Legacy!vars
    PROVE  LegacyInv'
<1>0. /\ LegacyTypes /\ run \in [Requests -> {Resting} \cup Working]
      /\ [q \in Requests |-> Resting] \in [Requests -> {Resting} \cup Working]
  BY DEF LegacyInv, LegacyTypes
<1>1. ASSUME NEW r \in Requests, Legacy!Find(r) \/ Legacy!Take(r) \/ Legacy!Reread(r)
      PROVE  LegacyInv'
  BY <1>1, FindStep, TakeStep, RereadStep
<1>2. ASSUME NEW r \in Requests, Legacy!Write(r) PROVE LegacyInv'
  BY <1>2, LostStep, LandedStep
<1>3. ASSUME NEW r \in Requests, Legacy!Show(r) PROVE LegacyInv'
  BY <1>3, ShowStep
<1>4. ASSUME NEW r \in Requests, Legacy!End(r) PROVE LegacyInv'
  <2>1. run' = [run EXCEPT ![r] = Resting] /\ UNCHANGED <<lrow, claimed, old, said>>
    BY <1>4 DEF Legacy!End, Resting
  <2> QED  BY <1>0, <2>1, RowSame, AroundStep
<1>5. ASSUME NEW r \in Requests, NEW d \in Deliveries, Legacy!Receive(r, d)
      PROVE  LegacyInv'
  BY <1>5, ReceiveStep
<1>6. ASSUME Legacy!Crash PROVE LegacyInv'
  <2>1. run' = [r \in Requests |-> Resting] /\ UNCHANGED <<lrow, claimed, old, said>>
    BY <1>6 DEF Legacy!Crash, Resting
  <2> QED  BY <1>0, <2>1, RowSame, AroundStep
<1>7. ASSUME Legacy!Sweep PROVE LegacyInv'
  <2>1. claimed' = claimed \ old /\ UNCHANGED <<lrow, run, old, said>>
    BY <1>7 DEF Legacy!Sweep
  <2>2. claimed' \cup old' = claimed \cup old
    BY <2>1
  <2> QED  BY <1>0, <2>1, <2>2, RowSame, AroundStep
<1>8. ASSUME NEW t \in Tasks, Legacy!OtherWrite(t) PROVE LegacyInv'
  <2>1. PICK s \in Legacy!Statuses :
           lrow' = [lrow EXCEPT ![t] = [status |-> s, ver |-> @.ver + 1]]
    BY <1>8 DEF Legacy!OtherWrite
  <2>2. UNCHANGED <<run, claimed, old, said>>
    BY <1>8 DEF Legacy!OtherWrite
  <2>3. MovesOn
    BY <1>0, <2>1, RowWritten
  <2> QED  BY <1>0, <2>2, <2>3, AroundStep
<1>9. ASSUME NEW d \in Deliveries, Legacy!Age(d) PROVE LegacyInv'
  <2>1. d \in claimed /\ old' = old \cup {d} /\ UNCHANGED <<lrow, claimed, run, said>>
    BY <1>9 DEF Legacy!Age
  <2>2. claimed' \cup old' = claimed \cup old
    BY <2>1
  <2> QED  BY <1>0, <2>1, <2>2, RowSame, AroundStep
<1>10. ASSUME UNCHANGED Legacy!vars PROVE LegacyInv'
  BY <1>0, <1>10, RowSame, AroundStep DEF Legacy!vars
<1> QED  BY <1>1, <1>2, <1>3, <1>4, <1>5, <1>6, <1>7, <1>8, <1>9, <1>10
         DEF Legacy!Next, Legacy!Step

LEMMA LegacyInductive == Legacy!Spec => []LegacyInv
<1> QED  BY LegacyInit, LegacyStep, PTL DEF Legacy!Spec

\* Whichever handler is mounted, its behaviours are those of its module.
LEMMA Mounted == WebhooksSpec => Spec /\ Legacy!Spec
<1>1. WebhooksInit => Init /\ Legacy!Init
  BY DEF WebhooksInit
<1>2. [WebhooksNext]_allVars => [Next]_vars /\ [Legacy!Next]_Legacy!vars
  BY DEF WebhooksNext, allVars, legacyVars, Legacy!vars
<1> QED  BY <1>1, <1>2, PTL DEF WebhooksSpec, Spec, Legacy!Spec

\* However often GitHub sends a delivery, to however many runs at once, whenever
\* the process dies and the table is swept: the delivery shows on a task at most
\* once, and never without the claim that keeps its copies out
\* (claimWebhookDelivery and the handlers of routes/webhooks.ts).
THEOREM ClaimedIsShownOnce == WebhooksSpec => []OncePerTask
<1>1. ASSUME LegacyInv, NEW d \in Deliveries, NEW t \in Tasks
      PROVE  said[<<d, t>>] <= 1 /\ (said[<<d, t>>] = 1 => d \in claimed \cup old)
  <2>1. said[<<d, t>>] <= 1 /\ (d \notin claimed \cup old => said[<<d, t>>] = 0)
    BY <1>1 DEF LegacyInv, Unsaid
  <2> QED  BY <2>1
<1>2. LegacyInv => OncePerTask
  BY <1>1 DEF OncePerTask, Legacy!OncePerTask
<1> QED  BY <1>2, Mounted, LegacyInductive, PTL

\* A handler that leaves a task has moved it where the fact puts a task of the
\* status it has at that moment, or has read that no move is due, or has lost its
\* write to three writes of others since the task was looked up
\* (writeWebhookStatus of services/github-webhook.ts).
THEOREM FactsAreTold == WebhooksSpec => FactStands
<1>1. ASSUME LegacyInv, Legacy!Next, NEW r \in Legacy!Running,
             run[r].pc \in {"write", "reread"}, run'[r].pc \in {"effect", "next"}
      PROVE  LET q == run[r]
                 t == q.task
                 to == Legacy!Target(Kind[q.of], lrow[t].status)
             IN  IF lrow' = lrow
                 THEN to = Legacy!None \/ lrow[t].ver - q.first >= Legacy!Attempts
                 ELSE lrow'[t] = [status |-> to, ver |-> lrow[t].ver + 1]
  <2> DEFINE t == run[r].task
             to == Legacy!Target(Kind[run[r].of], lrow[t].status)
  <2>0. /\ r \in Requests /\ run[r] # Resting /\ run[r] \in Working /\ Sound(run[r])
        /\ run \in [Requests -> {Resting} \cup Working]
        /\ t \in Tasks /\ lrow \in [Tasks -> Legacy!Row] /\ lrow[t].ver \in Nat
    BY <1>1, RunOf DEF Legacy!Running, LegacyInv, LegacyTypes, Sound, Legacy!Row
  <2>1. Legacy!Write(r) \/ Legacy!Reread(r)
    <3>1. run'[r] # run[r] /\ run'[r].pc # "idle"
      BY <1>1
    <3>2. ASSUME NEW x \in Requests, Legacy!Step(x), x # r PROVE FALSE
      BY <2>0, <3>1, <3>2 DEF Legacy!Step, Legacy!Find, Legacy!Take, Legacy!Write,
         Legacy!Reread, Legacy!Show, Legacy!End
    <3>3. ~Legacy!Find(r) /\ ~Legacy!Take(r) /\ ~Legacy!Show(r)
      BY <1>1 DEF Legacy!Find, Legacy!Take, Legacy!Show, Legacy!At
    <3>4. ~Legacy!End(r) /\ ~Legacy!Crash
      BY <2>0, <3>1, RestingShape DEF Legacy!End, Legacy!Crash, Resting
    <3>5. ASSUME NEW x \in Requests, NEW d \in Deliveries, Legacy!Receive(x, d) PROVE FALSE
      BY <2>0, <3>1, <3>5 DEF Legacy!Receive, Resting
    <3>6. ~Legacy!Sweep /\ (\A d \in Deliveries : ~Legacy!Age(d))
          /\ (\A x \in Tasks : ~Legacy!OtherWrite(x))
      BY <3>1 DEF Legacy!Sweep, Legacy!Age, Legacy!OtherWrite
    <3> QED  BY <1>1, <3>2, <3>3, <3>4, <3>5, <3>6 DEF Legacy!Next, Legacy!Step
  <2>2. CASE Legacy!Write(r)
    <3>1. Legacy!Lands(run[r])
      <4>1. ASSUME ~Legacy!Lands(run[r]) PROVE run'[r].pc = "reread"
        <5> DEFINE n == [run[r] EXCEPT !.pc = "reread"]
        <5>1. run' = [run EXCEPT ![r] = n]
          BY <2>2, <4>1 DEF Legacy!Write
        <5>2. n.pc = "reread"
          BY <2>0, PcShape
        <5> HIDE DEF n
        <5> QED  BY <2>0, <5>1, <5>2
      <4> QED  BY <1>1, <4>1
    <3>2. lrow[t] = run[r].seen
      BY <3>1 DEF Legacy!Lands
    <3>3. lrow' = [lrow EXCEPT ![t] = [status |-> to, ver |-> @.ver + 1]]
      BY <2>2, <3>1, <3>2 DEF Legacy!Write
    <3>4. lrow'[t] = [status |-> to, ver |-> lrow[t].ver + 1]
      BY <2>0, <3>3
    <3>5. lrow'[t].ver # lrow[t].ver
      BY <2>0, <3>4
    <3> QED  BY <3>4, <3>5
  <2>3. CASE Legacy!Reread(r)
    <3>0. lrow' = lrow /\ Legacy!At(r, "reread")
      BY <2>3 DEF Legacy!Reread
    <3>1. CASE run[r].tries + 1 < Legacy!Attempts
      <4> DEFINE q == [run[r] EXCEPT !.tries = @ + 1]
      <4>1. run'[r] = Legacy!Decided(q, lrow[t])
        BY <2>0, <2>3, <3>1 DEF Legacy!Reread
      <4>2. q \in Working /\ q.of = run[r].of
        <5>1. run[r].tries + 1 \in 0 .. 2
          BY <2>0, <3>1 DEF Legacy!Attempts, Working
        <5> QED  BY <2>0, <5>1 DEF Working
      <4> HIDE DEF q
      <4>3. lrow[t] \in Legacy!Row
        BY <2>0
      <4>4. to = Legacy!None
        BY <1>1, <4>1, <4>2, <4>3, DecidedShape
      <4> QED  BY <3>0, <4>4
    <3>2. CASE ~(run[r].tries + 1 < Legacy!Attempts)
      <4>1. /\ run[r].tries \in Nat /\ run[r].first \in Nat /\ run[r].seen.ver \in Nat
        BY <2>0 DEF Working, Legacy!Row
      <4>2. /\ lrow[t].ver > run[r].seen.ver
            /\ run[r].seen.ver >= run[r].first + run[r].tries
        BY <2>0, <3>0, <4>1 DEF Legacy!At, Sound, Precedes
      <4>3. lrow[t].ver - run[r].first >= Legacy!Attempts
        BY <2>0, <3>2, <4>1, <4>2 DEF Legacy!Attempts
      <4> QED  BY <3>0, <4>3
    <3> QED  BY <3>1, <3>2
  <2> QED  BY <2>1, <2>2, <2>3
<1>2. LegacyInv /\ [Legacy!Next]_Legacy!vars =>
        [\A r \in Legacy!Running :
           LET q == run[r]
               t == q.task
               to == Legacy!Target(Kind[q.of], lrow[t].status)
           IN  q.pc \in {"write", "reread"} /\ run'[r].pc \in {"effect", "next"} =>
                  IF lrow' = lrow
                  THEN to = Legacy!None \/ lrow[t].ver - q.first >= Legacy!Attempts
                  ELSE lrow'[t] = [status |-> to, ver |-> lrow[t].ver + 1]]_Legacy!vars
  BY <1>1
<1> QED  BY <1>2, Mounted, LegacyInductive, PTL DEF Legacy!Spec, FactStands, Legacy!FactStands

=============================================================================
