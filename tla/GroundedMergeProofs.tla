------------------------- MODULE GroundedMergeProofs -------------------------
(***************************************************************************)
(* For any number of tasks, pull requests, operations and attempts: the    *)
(* reservations of a shared merge belong to the merge that is under way,   *)
(* and what is merged is what every enrolled task linked to the pull       *)
(* request consented to. The argument: while the fence is owned, rows,     *)
(* bindings and evidence of the members stand still (Pledges), so the      *)
(* consent found at the reservation still holds when the call arrives, or  *)
(* the head has moved and the call merges nothing.                         *)
(***************************************************************************)
EXTENDS GroundedMerge, FiniteSetTheorems, TLAPS

-----------------------------------------------------------------------------
(* Types of the parts.                                                     *)

LEMMA RowTypes ==
    ASSUME TypeOK, NEW t \in Tasks
    PROVE  /\ row[t] \in Row /\ row[t].status \in {"work", "review", "done"}
           /\ row[t].holder \in Actors /\ row[t].pr \in Prs \cup {NoPr}
BY DEF TypeOK, Row

LEMMA AttemptTypes ==
    ASSUME TypeOK, NEW a \in DOMAIN attempt
    PROVE  /\ a \in AttemptIds /\ a # NoAttempt /\ attempt[a] \in Attempt
           /\ attempt[a].task \in Protected
BY DEF TypeOK, Attempt, AttemptIds, NoAttempt

LEMMA ContextType ==
    ASSUME TypeOK, NEW t \in Tasks, NEW i \in Intents, NEW u, May(t, u, i)
    PROVE  Context(t, i) \in Digest
<1>1. row[t].status \in {"work", "review"}
  BY DEF May, From, Intents
<1>2. (IF t \in SpecOnly \/ row[t].pr = NoPr THEN NoHead ELSE github[row[t].pr].head)
         \in 0 .. MaxHead
  BY RowTypes, BoundAssumption DEF TypeOK, NoHead
<1> QED  BY <1>1, <1>2, RowTypes DEF Context, Digest

LEMMA RetiredIs ==
    ASSUME TypeOK, NEW ts, NEW s \in {"superseded", "consumed"}
    PROVE  /\ DOMAIN Retired(ts, s) = DOMAIN attempt
           /\ \A a \in DOMAIN attempt : Retired(ts, s)[a] \in Attempt
<1>1. ASSUME NEW a \in DOMAIN attempt PROVE [attempt[a] EXCEPT !.state = s] \in Attempt
  BY AttemptTypes DEF Attempt
<1> QED  BY <1>1, AttemptTypes DEF Retired

\* The attempts and bindings after a step.
Books ==
    /\ DOMAIN attempt' = DOMAIN attempt
    /\ \A a \in DOMAIN attempt : attempt'[a] \in Attempt
    /\ binding' \in [Protected -> Binding]
    /\ \A t \in Protected : binding'[t].active \in {binding[t].active, NoAttempt}

LEMMA BindingTypes ==
    ASSUME TypeOK, NEW t \in Protected
    PROVE  /\ binding[t] \in Binding /\ NextGeneration(binding[t]) \in Binding
           /\ [binding[t] EXCEPT !.active = NoAttempt] \in Binding
           /\ [binding[t] EXCEPT !.active = NoAttempt].active = NoAttempt
           /\ NextGeneration(binding[t]).active = NoAttempt
<1>1. binding[t] \in Binding
  BY DEF TypeOK
<1>2. /\ [binding[t] EXCEPT !.active = NoAttempt] \in Binding
      /\ [binding[t] EXCEPT !.active = NoAttempt].active = NoAttempt
  BY <1>1 DEF Binding
<1>3. binding[t].revision + 1 \in Nat
  BY <1>1 DEF Binding
<1> QED  BY <1>1, <1>2, <1>3 DEF Binding, NextGeneration

LEMMA InvalidateKeeps ==
    ASSUME TypeOK, NEW ts, Invalidate(ts)
    PROVE  Books
<1>1. /\ DOMAIN attempt' = DOMAIN attempt
      /\ \A a \in DOMAIN attempt : attempt'[a] \in Attempt
  BY RetiredIs DEF Invalidate
<1>2. ASSUME NEW t \in Protected
      PROVE  /\ binding'[t] \in Binding
             /\ binding'[t].active \in {binding[t].active, NoAttempt}
  BY BindingTypes DEF Invalidate
<1>3. binding' \in [Protected -> Binding]
  BY <1>2, Zenon DEF Invalidate
<1> QED  BY <1>1, <1>2, <1>3 DEF Books

LEMMA SettleKeeps ==
    ASSUME TypeOK, NEW ts, NEW ev, Settle(ts, ev)
    PROVE  Books
<1> DEFINE used == {ev[t] : t \in ts}
           rest == Retired({t \in ts : ev[t] = NoAttempt}, "superseded")
<1>1. attempt' = [a \in DOMAIN attempt |->
                    IF a \in used THEN [attempt[a] EXCEPT !.state = "consumed"]
                    ELSE rest[a]]
  BY DEF Settle
<1>2. \A a \in DOMAIN attempt : rest[a] \in Attempt
  BY RetiredIs
<1>3. \A a \in DOMAIN attempt : [attempt[a] EXCEPT !.state = "consumed"] \in Attempt
  BY AttemptTypes DEF Attempt
<1> HIDE DEF used, rest
<1>4. /\ DOMAIN attempt' = DOMAIN attempt
      /\ \A a \in DOMAIN attempt : attempt'[a] \in Attempt
  BY <1>1, <1>2, <1>3
<1>5. binding' = [t \in Protected |->
                    IF t \notin ts THEN binding[t]
                    ELSE IF ev[t] = NoAttempt THEN NextGeneration(binding[t])
                    ELSE [binding[t] EXCEPT !.active = NoAttempt]]
  BY DEF Settle
<1>6. ASSUME NEW t \in Protected
      PROVE  /\ binding'[t] \in Binding
             /\ binding'[t].active \in {binding[t].active, NoAttempt}
  BY <1>5, BindingTypes
<1>7. binding' \in [Protected -> Binding]
  BY <1>5, <1>6, Zenon
<1> QED  BY <1>4, <1>6, <1>7 DEF Books

LEMMA GroupIs ==
    ASSUME NEW g \in Group
    PROVE  /\ g.state \in {"reserved", "dispatched", "completed", "cancelled"}
           /\ g.seed \in DOMAIN g.was /\ DOMAIN g.was \subseteq Tasks
           /\ g.actor \in Actors /\ g.override \in BOOLEAN
           /\ g.pr \in Prs /\ g.head \in 1 .. MaxHead
           /\ g.was \in [DOMAIN g.was -> Row]
           /\ g.evidence \in [DOMAIN g.was -> AttemptIds \cup {NoAttempt}]
<1>1. PICK m \in (SUBSET Tasks) \ {{}} :
         g \in [state : {"reserved", "dispatched", "completed", "cancelled"}, seed : m,
                actor : Actors, override : BOOLEAN, pr : Prs, head : 1 .. MaxHead,
                was : [m -> Row], evidence : [m -> AttemptIds \cup {NoAttempt}]]
  BY DEF Group
<1>2. DOMAIN g.was = m
  BY <1>1
<1> QED  BY <1>1, <1>2

LEMMA GroupMoves ==
    ASSUME NEW g \in Group,
           NEW s \in {"reserved", "dispatched", "completed", "cancelled"}
    PROVE  LET h == [g EXCEPT !.state = s] IN
           /\ h \in Group /\ h.state = s /\ h.seed = g.seed /\ h.actor = g.actor
           /\ h.override = g.override /\ h.pr = g.pr /\ h.head = g.head
           /\ h.was = g.was /\ h.evidence = g.evidence
<1>1. PICK m \in (SUBSET Tasks) \ {{}} :
         g \in [state : {"reserved", "dispatched", "completed", "cancelled"}, seed : m,
                actor : Actors, override : BOOLEAN, pr : Prs, head : 1 .. MaxHead,
                was : [m -> Row], evidence : [m -> AttemptIds \cup {NoAttempt}]]
  BY DEF Group
<1> DEFINE h == [g EXCEPT !.state = s]
<1>2. h \in [state : {"reserved", "dispatched", "completed", "cancelled"}, seed : m,
             actor : Actors, override : BOOLEAN, pr : Prs, head : 1 .. MaxHead,
             was : [m -> Row], evidence : [m -> AttemptIds \cup {NoAttempt}]]
  BY <1>1
<1>3. h \in Group
  BY <1>2 DEF Group
<1> QED  BY <1>1, <1>3

\* What is open is a merge of a group.
LEMMA OpenIs ==
    ASSUME TypeOK, NEW o \in Ops,
           op[o].state \in {"reserved", "dispatched", "completed", "cancelled"}
    PROVE  op[o] \in Group
<1>1. op[o] \in {Unused} \cup Local \cup Group
  BY DEF TypeOK
<1>2. \A l \in Local : l.state = "local"
  BY DEF Local
<1> QED  BY <1>1, <1>2 DEF Unused

LEMMA SpendType ==
    ASSUME TypeOK, NEW ts, NEW ev, NEW o \in Ops, Spend(ts, ev, o)
    PROVE  spent' \in [AttemptIds -> SUBSET Ops]
<1>1. \A a \in AttemptIds : spent[a] \in SUBSET Ops
  BY DEF TypeOK
<1>2. \A a \in AttemptIds : spent[a] \cup {o} \in SUBSET Ops
  BY <1>1
<1> QED  BY <1>1, <1>2 DEF Spend

\* A step that leaves the attempts and bindings to Books is typed elsewhere.
LEMMA BooksTypes ==
    ASSUME TypeOK, Books
    PROVE  /\ DOMAIN attempt' \subseteq AttemptIds
           /\ \A a \in DOMAIN attempt' : attempt'[a] \in Attempt
           /\ binding' \in [Protected -> Binding]
           /\ expired \subseteq DOMAIN attempt'
BY DEF TypeOK, Books

-----------------------------------------------------------------------------
(* Every action keeps the types.                                           *)

LEMMA IssueTypes ==
    ASSUME TypeOK, NEW t \in Protected, NEW u \in Actors, NEW i \in Intents,
           Issue(t, u, i)
    PROVE  /\ TypeOK'
           /\ DOMAIN attempt \subseteq DOMAIN attempt'
           /\ \A x \in Protected :
                 binding'[x].active \in DOMAIN attempt' \cup {binding[x].active}
<1> DEFINE a == Cardinality(DOMAIN attempt) + 1
           b == binding[t]
           revision == IF b.digest \notin {NoDigest, Context(t, i)}
                       THEN b.revision + 1 ELSE b.revision
           fresh == [task |-> t, state |-> "active", actor |-> u,
                     digest |-> Context(t, i), revision |-> revision,
                     receipt |-> FALSE]
           old == Retired({t}, "superseded")
           bound == [active |-> a, revision |-> revision, digest |-> Context(t, i)]
<1>1. /\ a <= MaxAttempts /\ May(t, u, i)
      /\ attempt' = [x \in DOMAIN attempt \cup {a} |-> IF x = a THEN fresh ELSE old[x]]
      /\ binding' = [binding EXCEPT ![t] = bound]
      /\ UNCHANGED <<row, cohort, op, fence, expired, github, puts, by, spent>>
  BY DEF Issue
<1>2. a \in AttemptIds
  <2>1. IsFiniteSet(1 .. MaxAttempts) /\ DOMAIN attempt \subseteq 1 .. MaxAttempts
    BY BoundAssumption, FS_Interval DEF TypeOK, AttemptIds
  <2>2. Cardinality(DOMAIN attempt) \in Nat
    BY <2>1, FS_Subset, FS_CardinalityType
  <2> QED  BY <1>1, <2>2, BoundAssumption DEF AttemptIds
<1>3. t \in Tasks /\ Context(t, i) \in Digest
  BY <1>1, ContextType, EnrollmentAssumption
<1>4. revision \in Nat
  <2>1. binding[t] \in Binding
    BY BindingTypes
  <2>2. binding[t].revision \in Nat
    BY <2>1 DEF Binding
  <2> QED  BY <2>2
<1> HIDE DEF a, revision
<1>5. fresh \in Attempt
  BY <1>3, <1>4 DEF Attempt
<1>6. bound \in Binding /\ bound.active = a
  BY <1>2, <1>3, <1>4 DEF Binding
<1>7. \A x \in DOMAIN attempt : old[x] \in Attempt
  BY RetiredIs
<1> HIDE DEF fresh, bound, old
<1>8. /\ DOMAIN attempt' = DOMAIN attempt \cup {a}
      /\ \A x \in DOMAIN attempt' : attempt'[x] \in Attempt
  BY <1>1, <1>5, <1>7
<1>9. binding' \in [Protected -> Binding]
  BY <1>1, <1>6 DEF TypeOK
<1>10. TypeOK'
  BY <1>1, <1>2, <1>8, <1>9 DEF TypeOK
<1> QED  BY <1>1, <1>6, <1>8, <1>10 DEF TypeOK

LEMMA IngestTypes ==
    ASSUME TypeOK, NEW a, Ingest(a)
    PROVE  TypeOK' /\ DOMAIN attempt' = DOMAIN attempt
<1>1. /\ a \in DOMAIN attempt
      /\ attempt' = [attempt EXCEPT ![a] = [attempt[a] EXCEPT !.receipt = TRUE]]
      /\ UNCHANGED <<row, binding, cohort, op, fence, expired, github, puts, by, spent>>
  BY DEF Ingest
<1> DEFINE got == [attempt[a] EXCEPT !.receipt = TRUE]
<1>2. got \in Attempt
  BY <1>1, AttemptTypes DEF Attempt
<1> HIDE DEF got
<1>3. /\ DOMAIN attempt' = DOMAIN attempt
      /\ \A x \in DOMAIN attempt' : attempt'[x] \in Attempt
  BY <1>1, <1>2, AttemptTypes DEF got
<1> QED  BY <1>1, <1>3 DEF TypeOK

LEMMA LocalTypes ==
    ASSUME TypeOK, NEW o \in Ops, NEW t \in Tasks, NEW u \in Actors, NEW s \in {"work", "review", "done"},
           Books, row' = [row EXCEPT ![t].status = s],
           op' = [op EXCEPT ![o] = [state |-> "local", seed |-> t, actor |-> u]],
           spent' \in [AttemptIds -> SUBSET Ops],
           UNCHANGED <<cohort, fence, expired, github, puts, by>>
    PROVE  TypeOK'
<1> DEFINE local == [state |-> "local", seed |-> t, actor |-> u]
           moved == [row[t] EXCEPT !.status = s]
<1>1. local \in Local
  BY DEF Local
<1>2. moved \in Row
  BY RowTypes DEF Row
<1>3. row' = [row EXCEPT ![t] = moved] /\ op' = [op EXCEPT ![o] = local]
  OBVIOUS
<1> HIDE DEF local, moved
<1>4. row' \in [Tasks -> Row] /\ op' \in [Ops -> {Unused} \cup Local \cup Group]
  BY <1>1, <1>2, <1>3 DEF TypeOK
<1> QED  BY <1>4, BooksTypes DEF TypeOK

LEMMA EvidenceType ==
    ASSUME TypeOK, NEW t, NEW override
    PROVE  Evidence(t, override) \in AttemptIds \cup {NoAttempt}
BY DEF TypeOK, Evidence, Exempt, Binding

\* The group a reservation records.
Reserving(t, u, override) ==
    LET ms == Discover(t)
        ov(m) == m = t /\ override
    IN
    [state |-> "reserved", seed |-> t, actor |-> u, override |-> override,
     pr |-> row[t].pr, head |-> github[row[t].pr].head,
     was |-> [m \in ms |-> row[m]],
     evidence |-> [m \in ms |-> Evidence(m, ov(m))]]

LEMMA ReservingIs ==
    ASSUME TypeOK, NEW t \in Tasks, NEW u \in Actors, NEW override \in BOOLEAN,
           row[t].pr # NoPr
    PROVE  LET g == Reserving(t, u, override) IN
           /\ g \in Group /\ g.state = "reserved" /\ g.seed = t /\ g.actor = u
           /\ g.override = override /\ g.pr = row[t].pr
           /\ g.head = github[row[t].pr].head /\ DOMAIN g.was = Discover(t)
           /\ \A m \in Discover(t) :
                 /\ g.was[m] = row[m]
                 /\ g.evidence[m] = Evidence(m, m = t /\ override)
<1> DEFINE ms == Discover(t)
           was == [m \in ms |-> row[m]]
           ev == [m \in ms |-> Evidence(m, m = t /\ override)]
           p == row[t].pr
           head == github[p].head
           g == [state |-> "reserved", seed |-> t, actor |-> u, override |-> override,
                 pr |-> p, head |-> head, was |-> was, evidence |-> ev]
<1>1. t \in ms /\ ms \in (SUBSET Tasks) \ {{}}
  BY EnrollmentAssumption DEF Discover
<1>2. p \in Prs /\ head \in 1 .. MaxHead
  BY RowTypes DEF TypeOK
<1> HIDE DEF ms, p, head
<1>3. was \in [ms -> Row]
  BY <1>1 DEF TypeOK
<1>4. ev \in [ms -> AttemptIds \cup {NoAttempt}]
  BY EvidenceType
<1>5. DOMAIN was = ms /\ \A m \in ms : was[m] = row[m]
  OBVIOUS
<1>6. \A m \in ms : ev[m] = Evidence(m, m = t /\ override)
  OBVIOUS
<1> HIDE DEF was, ev
<1>7. g \in Group
  BY <1>1, <1>2, <1>3, <1>4 DEF Group
<1>8. Reserving(t, u, override) = g
  BY DEF Reserving, ms, p, head, was, ev
<1> QED  BY <1>5, <1>6, <1>7, <1>8 DEF ms, p, head

LEMMA ReserveIs ==
    ASSUME NEW o, NEW t, NEW u, NEW override, ReserveMerge(o, t, u, override)
    PROVE  /\ op[o] = Unused /\ Unfenced /\ row[t].pr # NoPr
           /\ \A m \in Discover(t) :
                 /\ Unreserved(m)
                 /\ Decides(m, u, "merge", m = t /\ override)
           /\ op' = [op EXCEPT ![o] = Reserving(t, u, override)]
           /\ cohort' = [m \in Tasks |-> IF m \in Discover(t) THEN o ELSE cohort[m]]
           /\ fence' = o
           /\ UNCHANGED <<row, binding, attempt, expired, github, puts, by, spent>>
BY DEF ReserveMerge, Reserving

LEMMA ReserveTypes ==
    ASSUME TypeOK, NEW o \in Ops, NEW t \in Tasks, NEW u \in Actors,
           NEW override \in BOOLEAN, ReserveMerge(o, t, u, override)
    PROVE  TypeOK'
<1> DEFINE g == Reserving(t, u, override)
<1>1. /\ op' = [op EXCEPT ![o] = g] /\ g \in Group
      /\ cohort' = [m \in Tasks |-> IF m \in Discover(t) THEN o ELSE cohort[m]]
      /\ fence' = o
      /\ UNCHANGED <<row, binding, attempt, expired, github, puts, by, spent>>
  BY ReserveIs, ReservingIs
<1> HIDE DEF g
<1>2. op' \in [Ops -> {Unused} \cup Local \cup Group]
  BY <1>1 DEF TypeOK
<1>3. cohort' \in [Tasks -> Ops \cup {NoOp}]
  BY <1>1 DEF TypeOK
<1> QED  BY <1>1, <1>2, <1>3 DEF TypeOK

\* A group goes from one state to the next.
GroupStep(o, s) ==
    /\ op' = [op EXCEPT ![o].state = s]
    /\ o \in Ops /\ op[o] \in Group
    /\ s \in {"dispatched", "completed", "cancelled"}

LEMMA GroupStepIs ==
    ASSUME TypeOK, NEW o, NEW s, GroupStep(o, s)
    PROVE  /\ op' \in [Ops -> {Unused} \cup Local \cup Group]
           /\ \A x \in Ops \ {o} : op'[x] = op[x]
           /\ op'[o].state = s /\ op'[o].seed = op[o].seed
           /\ op'[o].actor = op[o].actor /\ op'[o].override = op[o].override
           /\ op'[o].pr = op[o].pr /\ op'[o].head = op[o].head
           /\ op'[o].was = op[o].was /\ op'[o].evidence = op[o].evidence
<1> DEFINE h == [op[o] EXCEPT !.state = s]
<1>1. /\ h \in Group /\ h.state = s /\ h.seed = op[o].seed /\ h.actor = op[o].actor
      /\ h.override = op[o].override /\ h.pr = op[o].pr /\ h.head = op[o].head
      /\ h.was = op[o].was /\ h.evidence = op[o].evidence
  <2>1. /\ op[o] \in Group
        /\ s \in {"reserved", "dispatched", "completed", "cancelled"}
    BY DEF GroupStep
  <2> QED  BY <2>1, GroupMoves, Zenon
<1>2. op' = [op EXCEPT ![o] = h]
  BY DEF GroupStep
<1> HIDE DEF h
<1>3. op'[o] = h /\ \A x \in Ops \ {o} : op'[x] = op[x]
  BY <1>2 DEF TypeOK, GroupStep
<1>4. op' \in [Ops -> {Unused} \cup Local \cup Group]
  BY <1>1, <1>2 DEF TypeOK
<1> QED  BY <1>1, <1>3, <1>4

LEMMA UnreserveType ==
    ASSUME TypeOK, NEW o, Unreserve(o)
    PROVE  cohort' \in [Tasks -> Ops \cup {NoOp}]
BY DEF TypeOK, Unreserve

LEMMA DispatchTypes ==
    ASSUME TypeOK, NEW o \in Ops, DispatchMerge(o)
    PROVE  TypeOK' /\ GroupStep(o, "dispatched")
<1>1. GroupStep(o, "dispatched")
  BY OpenIs DEF DispatchMerge, GroupStep
<1>2. op' \in [Ops -> {Unused} \cup Local \cup Group]
  BY <1>1, GroupStepIs
<1> QED  BY <1>1, <1>2 DEF DispatchMerge, TypeOK

LEMMA CancelTypes ==
    ASSUME TypeOK, NEW o \in Ops, CancelMerge(o)
    PROVE  TypeOK' /\ GroupStep(o, "cancelled") /\ Books
<1>1. GroupStep(o, "cancelled")
  BY OpenIs DEF CancelMerge, Cancellable, GroupStep
<1>2. op' \in [Ops -> {Unused} \cup Local \cup Group]
  BY <1>1, GroupStepIs
<1>3. Books
  BY InvalidateKeeps DEF CancelMerge
<1>4. cohort' \in [Tasks -> Ops \cup {NoOp}]
  BY UnreserveType DEF CancelMerge
<1> QED  BY <1>1, <1>2, <1>3, <1>4, BooksTypes DEF CancelMerge, TypeOK

LEMMA RecoverTypes ==
    ASSUME TypeOK, NEW o \in Ops, RecoverMerge(o)
    PROVE  TypeOK' /\ GroupStep(o, "completed") /\ Books
<1> DEFINE t == op[o].seed
           done == [row[t] EXCEPT !.status = To["merge"]]
<1>1. GroupStep(o, "completed")
  BY OpenIs DEF RecoverMerge, GroupStep
<1>2. op' \in [Ops -> {Unused} \cup Local \cup Group]
  BY <1>1, GroupStepIs
<1>3. t \in Tasks
  BY <1>1, GroupIs DEF GroupStep
<1>4. To["merge"] = "done"
  BY DEF To
<1>5. done \in Row
  BY <1>3, <1>4, RowTypes DEF Row
<1>6. row' = [row EXCEPT ![t] = done]
  BY DEF RecoverMerge, MovedBy
<1> HIDE DEF done
<1>7. row' \in [Tasks -> Row]
  BY <1>3, <1>5, <1>6 DEF TypeOK
<1>8. Books
  BY SettleKeeps DEF RecoverMerge
<1>9. spent' \in [AttemptIds -> SUBSET Ops]
  BY SpendType DEF RecoverMerge
<1>10. cohort' \in [Tasks -> Ops \cup {NoOp}]
  BY UnreserveType DEF RecoverMerge
<1> QED  BY <1>1, <1>2, <1>7, <1>8, <1>9, <1>10, BooksTypes DEF RecoverMerge, TypeOK

LEMMA PullTypes ==
    ASSUME TypeOK, NEW p \in Prs
    PROVE  /\ github[p].head \in 1 .. MaxHead /\ github[p].merged \in 0 .. MaxHead
           /\ [github EXCEPT ![p].merged = github[p].head]
                 \in [Prs -> [head : 1 .. MaxHead, merged : 0 .. MaxHead]]
<1> DEFINE g == github[p]
           m == [g EXCEPT !.merged = g.head]
<1>1. g \in [head : 1 .. MaxHead, merged : 0 .. MaxHead]
  BY DEF TypeOK
<1>2. m \in [head : 1 .. MaxHead, merged : 0 .. MaxHead]
  BY <1>1, BoundAssumption
<1>3. [github EXCEPT ![p].merged = github[p].head] = [github EXCEPT ![p] = m]
  OBVIOUS
<1> HIDE DEF m
<1>4. [github EXCEPT ![p] = m] \in [Prs -> [head : 1 .. MaxHead, merged : 0 .. MaxHead]]
  BY <1>2 DEF TypeOK
<1> QED  BY <1>1, <1>3, <1>4

LEMMA PushTypes ==
    ASSUME TypeOK, NEW p \in Prs, Push(p)
    PROVE  TypeOK'
<1> DEFINE g == github[p]
           m == [g EXCEPT !.head = g.head + 1]
<1>1. g \in [head : 1 .. MaxHead, merged : 0 .. MaxHead] /\ g.head < MaxHead
  BY DEF TypeOK, Push
<1>2. m \in [head : 1 .. MaxHead, merged : 0 .. MaxHead]
  <2>1. g.head + 1 \in 1 .. MaxHead
    BY <1>1, BoundAssumption
  <2> QED  BY <1>1, <2>1
<1>3. github' = [github EXCEPT ![p] = m]
  BY DEF Push
<1> HIDE DEF m
<1>4. github' \in [Prs -> [head : 1 .. MaxHead, merged : 0 .. MaxHead]]
  BY <1>2, <1>3 DEF TypeOK
<1> QED  BY <1>4 DEF Push, TypeOK, db

-----------------------------------------------------------------------------
(* The inductive invariant.                                                *)

\* What the receipt of a member was signed for.
Signed(o, m) ==
    [status |-> op[o].was[m].status, holder |-> op[o].was[m].holder, pr |-> op[o].pr,
     intent |-> "merge", head |-> IF m \in SpecOnly THEN NoHead ELSE op[o].head]

Consented(o, m) ==
    LET a == op[o].evidence[m] IN
    /\ a \in DOMAIN attempt
    /\ attempt[a].receipt /\ attempt[a].state = "active"
    /\ attempt[a].actor = op[o].actor /\ attempt[a].digest = Signed(o, m)

\* Every enrolled task linked to the pull request is a member, and is as the
\* decision saw it; whose evidence counts has signed the head of the group.
Pledged(o) ==
    /\ \A t \in Protected : row[t].pr = op[o].pr => t \in Members(o)
    /\ \A m \in Members(o) :
          /\ MemberStands(o, m) /\ row[m].pr = op[o].pr
          /\ ~Exempt(m, m = op[o].seed /\ op[o].override) => Consented(o, m)

Pledges == \A o \in Ops : Open(o) => Pledged(o)

\* A call on its way to GitHub is one of a merge that is under way, or of one
\* that found its commit merged.
Calls ==
    \A o \in puts :
        \/ op[o].state = "dispatched"
        \/ op[o].state = "completed" /\ github[op[o].pr].merged # NoHead

Issued == \A t \in Protected : binding[t].active \in DOMAIN attempt \cup {NoAttempt}

Inv == TypeOK /\ ReservationsOwned /\ Pledges /\ Calls /\ Issued

LEMMA CallIs ==
    ASSUME TypeOK, Calls, NEW o \in puts
    PROVE  o \in Ops /\ op[o] \in Group /\ op[o].pr \in Prs
<1>1. o \in Ops /\ op[o].state \in {"dispatched", "completed"}
  BY DEF TypeOK, Calls
<1>2. op[o] \in Group
  BY <1>1, OpenIs
<1> QED  BY <1>1, <1>2, GroupIs

LEMMA GithubTypes ==
    ASSUME TypeOK, Calls, NEW o, NEW p,
           \/ o \in Ops /\ (MergeArrives(o) \/ MergeLost(o))
           \/ p \in Prs /\ MergeOutside(p)
    PROVE  TypeOK'
<1> DEFINE Merge(x) == [github EXCEPT ![x].merged = github[x].head]
<1>1. PICK x \in Prs : \E who \in Ops \cup {Outside} :
         /\ \/ github' = github /\ by' = by
            \/ github' = Merge(x) /\ by' = [by EXCEPT ![x] = who]
         /\ puts' \subseteq puts
         /\ UNCHANGED <<db, expired, spent>>
  <2>1. CASE o \in Ops /\ MergeArrives(o)
    <3> DEFINE x == op[o].pr
    <3>1. /\ \/ github' = github /\ by' = by
             \/ github' = Merge(x) /\ by' = [by EXCEPT ![x] = o]
          /\ puts' \subseteq puts
          /\ UNCHANGED <<db, expired, spent>>
      BY <2>1 DEF MergeArrives
    <3>2. x \in Prs
      BY <2>1, CallIs DEF MergeArrives
    <3>3. o \in Ops
      BY <2>1
    <3> HIDE DEF x, Merge
    <3> QED  BY <3>1, <3>2, <3>3
  <2>2. CASE o \in Ops /\ MergeLost(o)
    <3>1. op[o].pr \in Prs
      BY <2>2, CallIs DEF MergeLost
    <3>2. /\ github' = github /\ by' = by /\ puts' \subseteq puts
          /\ UNCHANGED <<db, expired, spent>>
      BY <2>2 DEF MergeLost
    <3> HIDE DEF Merge
    <3> QED  BY <3>1, <3>2
  <2>3. CASE p \in Prs /\ MergeOutside(p)
    BY <2>3 DEF MergeOutside
  <2> QED  BY <2>1, <2>2, <2>3
<1>2. Merge(x) \in [Prs -> [head : 1 .. MaxHead, merged : 0 .. MaxHead]]
  BY PullTypes
<1> HIDE DEF Merge
<1>3. by' \in [Prs -> Ops \cup {NoOp, Outside}]
  BY <1>1 DEF TypeOK
<1>4. puts' \subseteq Ops
  BY <1>1 DEF TypeOK
<1> QED  BY <1>1, <1>2, <1>3, <1>4 DEF TypeOK, db

-----------------------------------------------------------------------------
(* Steps of the service while no merge is under way.                       *)

LEMMA NoneOpen ==
    ASSUME Inv, Unfenced
    PROVE  /\ \A o \in Ops : ~Open(o)
           /\ \A t \in Tasks : cohort[t] = NoOp
<1>1. \A o \in Ops : ~Open(o)
  BY NullsAssumption DEF Inv, ReservationsOwned, Unfenced
<1>2. \A t \in Tasks : cohort[t] \in Ops \cup {NoOp}
  BY DEF Inv, TypeOK
<1> QED  BY <1>1, <1>2 DEF Inv, ReservationsOwned

\* A step that opens nothing.
LEMMA FreeStep ==
    ASSUME Inv, Unfenced, TypeOK', Issued',
           UNCHANGED <<cohort, fence, github, puts>>,
           \A o \in Ops : \/ op'[o] = op[o]
                          \/ op[o] = Unused /\ op'[o].state = "local"
    PROVE  Inv'
<1>1. \A o \in Ops : ~Open(o)'
  BY NoneOpen DEF Open
<1>2. ReservationsOwned'
  BY <1>1, NoneOpen, NullsAssumption DEF ReservationsOwned, Unfenced
<1>3. Pledges'
  BY <1>1 DEF Pledges
<1>4. Calls'
  <2> SUFFICES ASSUME NEW o \in puts
               PROVE  \/ op'[o].state = "dispatched"
                      \/ op'[o].state = "completed" /\ github[op'[o].pr].merged # NoHead
    BY DEF Calls
  <2>1. o \in Ops /\ op[o] # Unused
    BY DEF Inv, TypeOK, Calls, Unused
  <2>2. op'[o] = op[o]
    BY <2>1
  <2> QED  BY <2>2 DEF Inv, Calls
<1> QED  BY <1>2, <1>3, <1>4 DEF Inv

LEMMA BooksIssued ==
    ASSUME Issued, Books
    PROVE  Issued'
BY DEF Issued, Books

LEMMA IssueKeeps ==
    ASSUME Inv, NEW t \in Protected, NEW u \in Actors, NEW i \in Intents, Issue(t, u, i)
    PROVE  Inv'
<1>1. /\ TypeOK' /\ DOMAIN attempt \subseteq DOMAIN attempt'
      /\ \A x \in Protected :
            binding'[x].active \in DOMAIN attempt' \cup {binding[x].active}
  BY IssueTypes DEF Inv
<1>2. Issued'
  BY <1>1 DEF Inv, Issued
<1>3. Unfenced /\ UNCHANGED <<cohort, fence, github, puts, op>>
  BY DEF Issue
<1> QED  BY <1>1, <1>2, <1>3, FreeStep

\* A transaction that ends in itself.
LEMMA LocalKeeps ==
    ASSUME Inv, NEW o \in Ops, NEW t \in Tasks, NEW u \in Actors,
           NEW s \in {"work", "review", "done"}, op[o] = Unused, Unfenced, Books,
           row' = [row EXCEPT ![t].status = s],
           op' = [op EXCEPT ![o] = [state |-> "local", seed |-> t, actor |-> u]],
           spent' \in [AttemptIds -> SUBSET Ops],
           UNCHANGED <<cohort, fence, expired, github, puts, by>>
    PROVE  Inv'
<1> DEFINE local == [state |-> "local", seed |-> t, actor |-> u]
<1>1. TypeOK'
  BY LocalTypes DEF Inv
<1>2. Issued'
  BY BooksIssued DEF Inv
<1>3. local.state = "local" /\ op' = [op EXCEPT ![o] = local]
  OBVIOUS
<1> HIDE DEF local
<1>4. \A x \in Ops : op'[x] = op[x] \/ (op[x] = Unused /\ op'[x].state = "local")
  BY <1>3 DEF Inv, TypeOK
<1> QED  BY <1>1, <1>2, <1>4, FreeStep

LEMMA CompleteKeeps ==
    ASSUME Inv, NEW o \in Ops, NEW t \in Tasks, NEW u \in Actors, NEW i \in Intents,
           NEW override \in BOOLEAN, CompleteLocally(o, t, u, i, override)
    PROVE  Inv'
<1> DEFINE ev == [x \in {t} |-> Evidence(t, override)]
<1>1. Settle({t}, ev) /\ Spend({t}, ev, o)
  BY DEF CompleteLocally
<1> HIDE DEF ev
<1>2. Books /\ spent' \in [AttemptIds -> SUBSET Ops]
  BY <1>1, SettleKeeps, SpendType DEF Inv
<1>3. To[i] \in {"work", "review", "done"}
  BY DEF To, Intents, From
<1>4. /\ op[o] = Unused /\ Unfenced
      /\ row' = [row EXCEPT ![t].status = To[i]]
      /\ op' = [op EXCEPT ![o] = [state |-> "local", seed |-> t, actor |-> u]]
      /\ UNCHANGED <<cohort, fence, expired, github, puts, by>>
  BY DEF CompleteLocally
<1> QED  BY <1>2, <1>3, <1>4, LocalKeeps

LEMMA RequestKeeps ==
    ASSUME Inv, NEW o \in Ops, NEW t \in Tasks, NEW u \in Actors, RequestChanges(o, t, u)
    PROVE  Inv'
<1>1. Books
  BY InvalidateKeeps DEF RequestChanges, Inv
<1>2. spent' \in [AttemptIds -> SUBSET Ops]
  BY DEF RequestChanges, Inv, TypeOK
<1>3. /\ op[o] = Unused /\ Unfenced
      /\ row' = [row EXCEPT ![t].status = "work"]
      /\ op' = [op EXCEPT ![o] = [state |-> "local", seed |-> t, actor |-> u]]
      /\ UNCHANGED <<cohort, fence, expired, github, puts, by>>
  BY DEF RequestChanges
<1> QED  BY <1>1, <1>2, <1>3, LocalKeeps

LEMMA MutateKeeps ==
    ASSUME Inv, NEW t \in Tasks, NEW r \in Row, Mutate(t, r)
    PROVE  Inv'
<1>1. Books
  BY InvalidateKeeps DEF Mutate, Inv
<1>2. Unfenced /\ UNCHANGED <<cohort, op, fence, expired, github, puts, by, spent>>
  BY DEF Mutate
<1>3. row' \in [Tasks -> Row]
  BY DEF Mutate, Inv, TypeOK
<1>4. TypeOK'
  BY <1>1, <1>2, <1>3, BooksTypes DEF Inv, TypeOK
<1>5. Issued'
  BY <1>1, BooksIssued DEF Inv
<1> QED  BY <1>2, <1>4, <1>5, FreeStep

-----------------------------------------------------------------------------
(* Steps beside a merge that is under way.                                 *)

\* An attempt gets a receipt, time passes, GitHub changes: nothing a member has
\* consented to is touched.
LEMMA BesideStep ==
    ASSUME Inv, TypeOK', UNCHANGED <<row, binding, cohort, op, fence>>, Calls',
           DOMAIN attempt' = DOMAIN attempt,
           \A a \in DOMAIN attempt :
              /\ attempt[a].receipt => attempt'[a].receipt
              /\ attempt'[a].state = attempt[a].state
              /\ attempt'[a].actor = attempt[a].actor
              /\ attempt'[a].digest = attempt[a].digest
    PROVE  Inv'
<1>1. ReservationsOwned'
  BY DEF Inv, ReservationsOwned, Open, Members
<1>2. Issued'
  BY DEF Inv, Issued
<1>3. ASSUME NEW o \in Ops, Open(o)' PROVE Pledged(o)'
  <2>1. Open(o) /\ Pledged(o)
    BY <1>3 DEF Inv, Pledges, Open
  <2>2. Members(o)' = Members(o)
    BY DEF Members
  <2>3. \A t \in Protected : row'[t].pr = op'[o].pr => t \in Members(o)
    BY <2>1 DEF Pledged
  <2>4. ASSUME NEW m \in Members(o)
        PROVE  /\ MemberStands(o, m)' /\ row'[m].pr = op'[o].pr
               /\ ~Exempt(m, m = op'[o].seed /\ op'[o].override) => Consented(o, m)'
    <3>1. /\ MemberStands(o, m) /\ row[m].pr = op[o].pr
          /\ ~Exempt(m, m = op[o].seed /\ op[o].override) => Consented(o, m)
      BY <2>1 DEF Pledged
    <3>2. MemberStands(o, m)'
      BY <3>1 DEF MemberStands, Evidence
    <3>3. Consented(o, m) => Consented(o, m)'
      BY DEF Consented, Signed
    <3> QED  BY <3>1, <3>2, <3>3
  <2> QED  BY <2>2, <2>3, <2>4 DEF Pledged
<1> QED  BY <1>1, <1>2, <1>3 DEF Inv, Pledges

LEMMA IngestKeeps ==
    ASSUME Inv, NEW a, Ingest(a)
    PROVE  Inv'
<1>1. TypeOK' /\ DOMAIN attempt' = DOMAIN attempt
  BY IngestTypes DEF Inv
<1>2. /\ a \in DOMAIN attempt
      /\ attempt' = [attempt EXCEPT ![a] = [attempt[a] EXCEPT !.receipt = TRUE]]
      /\ UNCHANGED <<row, binding, cohort, op, fence, github, puts>>
  BY DEF Ingest
<1> DEFINE got == [attempt[a] EXCEPT !.receipt = TRUE]
<1>3. /\ got.receipt /\ got.state = attempt[a].state
      /\ got.actor = attempt[a].actor /\ got.digest = attempt[a].digest
  BY <1>2, AttemptTypes DEF Attempt, Inv
<1> HIDE DEF got
<1>4. \A x \in DOMAIN attempt :
         /\ attempt[x].receipt => attempt'[x].receipt
         /\ attempt'[x].state = attempt[x].state
         /\ attempt'[x].actor = attempt[x].actor
         /\ attempt'[x].digest = attempt[x].digest
  BY <1>2, <1>3 DEF got
<1>5. Calls'
  BY <1>2 DEF Inv, Calls
<1> QED  BY <1>1, <1>2, <1>4, <1>5, BesideStep

LEMMA ExpireKeeps ==
    ASSUME Inv, NEW a, Expire(a)
    PROVE  Inv'
<1>1. UNCHANGED <<db, github, puts, by, spent>> /\ expired' = expired \cup {a}
      /\ a \in DOMAIN attempt
  BY DEF Expire
<1>2. TypeOK'
  BY <1>1 DEF Inv, TypeOK, db
<1>3. Calls'
  BY <1>1 DEF Inv, Calls, db
<1> QED  BY <1>1, <1>2, <1>3, BesideStep DEF db

LEMMA GithubKeeps ==
    ASSUME Inv, NEW o, NEW p,
           \/ o \in Ops /\ (MergeArrives(o) \/ MergeLost(o))
           \/ p \in Prs /\ (Push(p) \/ MergeOutside(p))
    PROVE  Inv'
<1>1. TypeOK'
  BY GithubTypes, PushTypes DEF Inv
<1>2. puts' \subseteq puts /\ UNCHANGED <<db, expired, spent>>
  BY DEF MergeArrives, MergeLost, Push, MergeOutside
<1>3. ASSUME NEW x \in Prs, github[x].merged # NoHead
      PROVE  github'[x].merged # NoHead
  <2>1. /\ github[x].head # NoHead
        /\ \A y \in Prs : github[y].head # NoHead
    BY DEF Inv, TypeOK, NoHead
  <2>2. CASE MergeArrives(o)
    <3>1. /\ o \in puts
          /\ \/ github' = github
             \/ github' = [github EXCEPT ![op[o].pr].merged = github[op[o].pr].head]
      BY <2>2 DEF MergeArrives
    <3>2. op[o].pr \in Prs
      BY <3>1, CallIs DEF Inv
    <3> QED  BY <1>3, <2>1, <3>1, <3>2 DEF Inv, TypeOK
  <2>3. CASE MergeLost(o)
    BY <1>3, <2>3 DEF MergeLost
  <2>4. CASE p \in Prs /\ Push(p)
    BY <1>3, <2>4 DEF Push, Inv, TypeOK
  <2>5. CASE p \in Prs /\ MergeOutside(p)
    BY <1>3, <2>1, <2>5 DEF MergeOutside, Inv, TypeOK
  <2> QED  BY <2>2, <2>3, <2>4, <2>5
<1>4. Calls'
  <2> SUFFICES ASSUME NEW x \in puts'
               PROVE  \/ op'[x].state = "dispatched"
                      \/ op'[x].state = "completed" /\ github'[op'[x].pr].merged # NoHead
    BY DEF Calls
  <2>1. x \in puts /\ op[x].pr \in Prs /\ op' = op
    BY <1>2, CallIs DEF Inv, db
  <2> QED  BY <1>3, <2>1 DEF Inv, Calls
<1> QED  BY <1>1, <1>2, <1>4, BesideStep DEF db

-----------------------------------------------------------------------------
(* The merge itself.                                                       *)

\* Evidence that proves the merge is consent to the head as it is now.
LEMMA EvidenceConsents ==
    ASSUME Inv, NEW m \in Tasks, NEW u, NEW override,
           Decides(m, u, "merge", override), ~Exempt(m, override)
    PROVE  LET a == Evidence(m, override) IN
           /\ a \in DOMAIN attempt /\ attempt[a].receipt /\ attempt[a].state = "active"
           /\ attempt[a].actor = u /\ attempt[a].digest = Context(m, "merge")
<1>1. /\ Evidence(m, override) = binding[m].active /\ m \in Protected
      /\ Proves(binding[m].active, m, u, "merge")
  BY DEF Evidence, Exempt, Decides
<1> QED  BY <1>1 DEF Proves, Inv, Issued

LEMMA ReserveKeeps ==
    ASSUME Inv, NEW o \in Ops, NEW t \in Tasks, NEW u \in Actors,
           NEW override \in BOOLEAN, ReserveMerge(o, t, u, override)
    PROVE  Inv'
<1> DEFINE g == Reserving(t, u, override)
           ms == Discover(t)
           ov(m) == m = t /\ override
<1>1. TypeOK'
  BY ReserveTypes DEF Inv
<1>2. /\ op[o] = Unused /\ Unfenced /\ row[t].pr # NoPr
      /\ \A m \in ms : Unreserved(m) /\ Decides(m, u, "merge", ov(m))
      /\ op' = [op EXCEPT ![o] = g]
      /\ cohort' = [m \in Tasks |-> IF m \in ms THEN o ELSE cohort[m]]
      /\ fence' = o
      /\ UNCHANGED <<row, binding, attempt, expired, github, puts, by, spent>>
  BY ReserveIs
<1>3. /\ g.state = "reserved" /\ g.seed = t /\ g.actor = u
      /\ g.override = override /\ g.pr = row[t].pr
      /\ g.head = github[row[t].pr].head /\ DOMAIN g.was = ms
      /\ \A m \in ms : g.was[m] = row[m] /\ g.evidence[m] = Evidence(m, ov(m))
  BY <1>2, ReservingIs DEF Inv
<1> HIDE DEF g
<1>4. op'[o] = g /\ \A x \in Ops \ {o} : op'[x] = op[x]
  BY <1>2 DEF Inv, TypeOK
<1>5. Open(o)' /\ \A x \in Ops \ {o} : ~Open(x)'
  BY <1>2, <1>3, <1>4, NoneOpen DEF Open
<1>6. Members(o)' = ms /\ ms \subseteq Tasks
  BY <1>3, <1>4, EnrollmentAssumption DEF Members, Discover
<1>7. ReservationsOwned'
  <2>1. \A x \in Ops : Open(x)' <=> fence' = x
    BY <1>2, <1>5
  <2>2. \A m \in Tasks : cohort'[m] # NoOp => cohort'[m] = o /\ m \in ms
    BY <1>2, NoneOpen
  <2>3. \A m \in ms : cohort'[m] = o
    BY <1>2, <1>6
  <2> QED  BY <1>5, <1>6, <2>1, <2>2, <2>3 DEF ReservationsOwned
<1>8. \A m \in ms : row[m].pr = row[t].pr
  BY DEF Discover
<1>9. ASSUME NEW m \in ms, ~Exempt(m, ov(m)) PROVE Consented(o, m)'
  <2> DEFINE a == Evidence(m, ov(m))
  <2>1. /\ a \in DOMAIN attempt /\ attempt[a].receipt /\ attempt[a].state = "active"
        /\ attempt[a].actor = u /\ attempt[a].digest = Context(m, "merge")
    BY <1>2, <1>6, <1>9, EvidenceConsents
  <2>2. Context(m, "merge") = Signed(o, m)'
    BY <1>2, <1>3, <1>4, <1>8 DEF Context, Signed
  <2>3. op'[o].evidence[m] = a /\ op'[o].actor = u /\ attempt' = attempt
    BY <1>2, <1>3, <1>4
  <2> HIDE DEF a
  <2> QED  BY <2>1, <2>2, <2>3 DEF Consented
<1>10. Pledged(o)'
  <2>1. \A p \in Protected : row'[p].pr = op'[o].pr => p \in ms
    BY <1>2, <1>3, <1>4 DEF Discover
  <2>2. ASSUME NEW m \in ms
        PROVE  /\ MemberStands(o, m)' /\ row'[m].pr = op'[o].pr
               /\ ~Exempt(m, m = op'[o].seed /\ op'[o].override) => Consented(o, m)'
    <3>1. MemberStands(o, m)'
      <4>1. cohort'[m] = o /\ row'[m] = op'[o].was[m]
        BY <1>2, <1>3, <1>4, <1>6
      <4>2. /\ op'[o].seed = t /\ op'[o].override = override
            /\ op'[o].evidence[m] = Evidence(m, ov(m)) /\ binding' = binding
        BY <1>2, <1>3, <1>4
      <4> QED  BY <4>1, <4>2 DEF MemberStands, Evidence
    <3> QED  BY <1>2, <1>3, <1>4, <1>8, <1>9, <3>1
  <2> QED  BY <1>6, <2>1, <2>2 DEF Pledged
<1>11. Pledges'
  BY <1>5, <1>10 DEF Pledges
<1>12. Calls'
  <2> SUFFICES ASSUME NEW x \in puts
               PROVE  \/ op'[x].state = "dispatched"
                      \/ op'[x].state = "completed" /\ github[op'[x].pr].merged # NoHead
    BY <1>2 DEF Calls
  <2>1. x \in Ops /\ x # o
    BY <1>2 DEF Inv, TypeOK, Calls, Unused
  <2> QED  BY <1>4, <2>1 DEF Inv, Calls
<1>13. Issued'
  BY <1>2 DEF Inv, Issued
<1> QED  BY <1>1, <1>7, <1>11, <1>12, <1>13 DEF Inv

LEMMA DispatchKeeps ==
    ASSUME Inv, NEW o \in Ops, DispatchMerge(o)
    PROVE  Inv'
<1>1. TypeOK' /\ GroupStep(o, "dispatched")
  BY DispatchTypes DEF Inv
<1>2. /\ \A x \in Ops \ {o} : op'[x] = op[x]
      /\ op'[o].state = "dispatched" /\ op'[o].seed = op[o].seed
      /\ op'[o].actor = op[o].actor /\ op'[o].override = op[o].override
      /\ op'[o].pr = op[o].pr /\ op'[o].head = op[o].head
      /\ op'[o].was = op[o].was /\ op'[o].evidence = op[o].evidence
  BY <1>1, GroupStepIs DEF Inv
<1>3. /\ op[o].state = "reserved" /\ puts' \subseteq puts \cup {o}
      /\ UNCHANGED <<row, binding, attempt, cohort, fence, github>>
  BY DEF DispatchMerge
<1>4. \A x \in Ops : /\ Open(x)' <=> Open(x)
                     /\ Members(x)' = Members(x)
  BY <1>2, <1>3 DEF Open, Members
<1>5. ReservationsOwned'
  <2>1. \A t \in Tasks : cohort[t] # NoOp => cohort[t] \in Ops
    BY DEF Inv, TypeOK
  <2> QED  BY <1>3, <1>4, <2>1 DEF Inv, ReservationsOwned
<1>6. ASSUME NEW x \in Ops, Pledged(x) PROVE Pledged(x)'
  <2>1. /\ op'[x].seed = op[x].seed /\ op'[x].actor = op[x].actor
        /\ op'[x].override = op[x].override /\ op'[x].pr = op[x].pr
        /\ op'[x].head = op[x].head /\ op'[x].was = op[x].was
        /\ op'[x].evidence = op[x].evidence
    BY <1>2
  <2>2. ASSUME NEW m \in Members(x)
        PROVE  /\ MemberStands(x, m)' <=> MemberStands(x, m)
               /\ Consented(x, m)' <=> Consented(x, m)
    BY <1>3, <2>1 DEF MemberStands, Evidence, Consented, Signed
  <2> QED  BY <1>3, <1>4, <1>6, <2>1, <2>2 DEF Pledged
<1>7. Pledges'
  BY <1>4, <1>6 DEF Inv, Pledges
<1>8. Calls'
  <2> SUFFICES ASSUME NEW x \in puts \cup {o}
               PROVE  \/ op'[x].state = "dispatched"
                      \/ op'[x].state = "completed" /\ github[op'[x].pr].merged # NoHead
    BY <1>3 DEF Calls
  <2>1. x \in Ops
    BY DEF Inv, TypeOK
  <2> QED  BY <1>2, <2>1 DEF Inv, Calls
<1>9. Issued'
  BY <1>3 DEF Inv, Issued
<1> QED  BY <1>1, <1>5, <1>7, <1>8, <1>9 DEF Inv

\* A merge that ends leaves nothing open and nothing reserved.
LEMMA ClosingKeeps ==
    ASSUME Inv, NEW o \in Ops, CancelMerge(o) \/ RecoverMerge(o)
    PROVE  Inv'
<1>1. PICK s \in {"cancelled", "completed"} : TypeOK' /\ GroupStep(o, s) /\ Books
  BY CancelTypes, RecoverTypes DEF Inv
<1>2. /\ \A x \in Ops \ {o} : op'[x] = op[x]
      /\ op'[o].state = s /\ op'[o].pr = op[o].pr
  BY <1>1, GroupStepIs DEF Inv
<1>3. /\ Open(o) /\ fence = o /\ fence' = NoOp /\ Unreserve(o)
      /\ UNCHANGED <<github, puts>>
  BY DEF CancelMerge, Cancellable, RecoverMerge, Open
<1>4. \A x \in Ops : ~Open(x)'
  <2>1. \A x \in Ops \ {o} : ~Open(x)
    BY <1>3 DEF Inv, ReservationsOwned
  <2> QED  BY <1>1, <1>2, <2>1 DEF Open
<1>5. \A t \in Tasks : cohort'[t] = NoOp
  <2>1. \A t \in Tasks : cohort[t] # NoOp => cohort[t] = o
    <3>1. \A t \in Tasks : cohort[t] \in Ops \cup {NoOp}
      BY DEF Inv, TypeOK
    <3> QED  BY <1>3, <3>1 DEF Inv, ReservationsOwned
  <2> QED  BY <1>3, <2>1 DEF Unreserve
<1>6. ReservationsOwned'
  BY <1>3, <1>4, <1>5, NullsAssumption DEF ReservationsOwned
<1>7. Pledges'
  BY <1>4 DEF Pledges
<1>8. Calls'
  <2> SUFFICES ASSUME NEW x \in puts
               PROVE  \/ op'[x].state = "dispatched"
                      \/ op'[x].state = "completed" /\ github[op'[x].pr].merged # NoHead
    BY <1>3 DEF Calls
  <2>1. x \in Ops
    BY DEF Inv, TypeOK
  <2>2. CASE x = o
    <3>1. op[o].state # "reserved"
      BY <2>2 DEF Inv, Calls
    <3>2. RecoverMerge(o)
      BY <3>1 DEF CancelMerge, Cancellable
    <3>3. op'[o].state = "completed"
      <4>1. GroupStep(o, "completed")
        BY <3>2, RecoverTypes DEF Inv
      <4> QED  BY <4>1, GroupStepIs DEF Inv
    <3>4. github[op[o].pr].merged # NoHead
      <4>1. github[op[o].pr].merged = op[o].head
        BY <3>2 DEF RecoverMerge, Merged
      <4>2. op[o].head \in 1 .. MaxHead
        BY <1>1, GroupIs DEF GroupStep
      <4> QED  BY <4>1, <4>2 DEF NoHead
    <3> QED  BY <1>2, <2>2, <3>3, <3>4
  <2>3. CASE x # o
    BY <1>2, <2>1, <2>3 DEF Inv, Calls
  <2> QED  BY <2>2, <2>3
<1>9. Issued'
  BY <1>1, BooksIssued DEF Inv
<1> QED  BY <1>1, <1>6, <1>7, <1>8, <1>9 DEF Inv

-----------------------------------------------------------------------------
(* The theorems.                                                           *)

LEMMA InitInv == Init => Inv
<1> SUFFICES ASSUME Init PROVE Inv
  OBVIOUS
<1>1. row \in [Tasks -> Row]
  <2>1. ASSUME NEW t \in Tasks PROVE row[t] \in Row
    <3>1. row[t] \in [status : {"review"}, holder : Actors, pr : Prs \cup {NoPr}]
                        \cup [status : {"work"}, holder : Actors, pr : {NoPr}]
      BY DEF Init
    <3> QED  BY <3>1 DEF Row
  <2> QED  BY <2>1 DEF Init
<1>2. binding \in [Protected -> Binding]
  BY DEF Init, Binding
<1>3. /\ op \in [Ops -> {Unused} \cup Local \cup Group]
      /\ cohort \in [Tasks -> Ops \cup {NoOp}] /\ fence \in Ops \cup {NoOp}
      /\ DOMAIN attempt = {} /\ expired = {} /\ puts = {}
      /\ by \in [Prs -> Ops \cup {NoOp, Outside}]
      /\ spent \in [AttemptIds -> SUBSET Ops]
  BY DEF Init
<1>4. github \in [Prs -> [head : 1 .. MaxHead, merged : 0 .. MaxHead]]
  BY BoundAssumption DEF Init, NoHead
<1>5. TypeOK
  BY <1>1, <1>2, <1>3, <1>4 DEF TypeOK
<1>6. \A o \in Ops : ~Open(o)
  BY DEF Init, Open, Unused
<1>7. ReservationsOwned /\ Pledges
  BY <1>6, NullsAssumption DEF Init, ReservationsOwned, Pledges
<1>8. Calls /\ Issued
  BY DEF Init, Calls, Issued
<1> QED  BY <1>5, <1>7, <1>8 DEF Inv

LEMMA StepInv == Inv /\ [Next]_vars => Inv'
<1> SUFFICES ASSUME Inv, [Next]_vars PROVE Inv'
  OBVIOUS
<1>1. CASE Service
  BY <1>1, EnrollmentAssumption, IssueKeeps, IngestKeeps, ExpireKeeps, CompleteKeeps,
     RequestKeeps, MutateKeeps, ReserveKeeps, DispatchKeeps, ClosingKeeps DEF Service
<1>2. ASSUME NEW o \in Ops, MergeArrives(o) \/ MergeLost(o) PROVE Inv'
  BY <1>2, GithubKeeps
<1>3. ASSUME NEW p \in Prs, Push(p) \/ MergeOutside(p) PROVE Inv'
  BY <1>3, GithubKeeps
<1>4. CASE UNCHANGED vars
  BY <1>4 DEF vars, db, Inv, TypeOK, ReservationsOwned, Pledges, Pledged, Calls, Issued,
    Open, Members, MemberStands, Evidence, Exempt, Consented, Signed
<1> QED  BY <1>1, <1>2, <1>3, <1>4 DEF Next

LEMMA InvHolds == Spec => []Inv
BY InitInv, StepInv, PTL DEF Spec

\* The variables keep their types: no attempt, group or reservation of a shape
\* the transactions do not write.
THEOREM MergeTypes == Spec => []TypeOK
<1>1. Inv => TypeOK
  BY DEF Inv
<1> QED  BY <1>1, InvHolds, PTL

\* At most one merge is under way in the repository, it owns the fence, and
\* exactly its members are reserved.
THEOREM ReservationsHeld == Spec => []ReservationsOwned
<1>1. Inv => ReservationsOwned
  BY DEF Inv
<1> QED  BY <1>1, InvHolds, PTL

\* The call of a merge that is under way finds, if the head is the one it names,
\* every enrolled task linked to the pull request consenting to that commit.
LEMMA ArrivalConsents ==
    ASSUME Inv, NEW o \in Ops, MergeArrives(o), github[op[o].pr].merged = NoHead,
           PinnedHead(o), NEW t \in Protected, row[t].pr = op[o].pr
    PROVE  Consents(o, t)
<1>1. o \in puts /\ op[o].state = "dispatched"
  BY DEF MergeArrives, Inv, Calls
<1>2. Pledged(o) /\ op[o] \in Group
  BY <1>1, CallIs DEF Inv, Pledges, Open
<1>3. /\ t \in Members(o) /\ MemberStands(o, t)
      /\ ~(t = op[o].seed /\ op[o].override) => Consented(o, t)
  BY <1>2 DEF Pledged, Exempt
<1>4. op[o].pr # NoPr
  BY <1>2, GroupIs, NullsAssumption
<1>5. Signed(o, t) = Context(t, "merge")
  BY <1>3, <1>4 DEF Signed, Context, MemberStands, PinnedHead
<1>6. NoAttempt \notin DOMAIN attempt
  BY AttemptTypes DEF Inv
<1> QED  BY <1>3, <1>5, <1>6 DEF Consents, Consented

\* A merge this system causes is the merge of the very commit that every
\* enrolled task linked to the pull request consented to, at that moment.
THEOREM ConsentHeld == Spec => MergedWithConsent
<1>1. Inv /\ [Next]_vars
         => [\A p \in Prs : by'[p] \in Ops /\ by[p] = NoOp =>
                \A t \in Protected : row[t].pr = p => Consents(by'[p], t)]_vars
  <2> SUFFICES ASSUME Inv, Next, NEW p \in Prs, by'[p] \in Ops, by[p] = NoOp,
                      NEW t \in Protected, row[t].pr = p
               PROVE  Consents(by'[p], t)
    OBVIOUS
  <2>1. by' # by
    BY NullsAssumption
  <2>2. ~Service
    BY <2>1 DEF Service, Issue, Ingest, Expire, CompleteLocally, RequestChanges, Mutate,
      ReserveMerge, DispatchMerge, CancelMerge, RecoverMerge
  <2>3. ASSUME NEW x \in Prs, Push(x) \/ MergeOutside(x) PROVE FALSE
    <3>1. MergeOutside(x)
      BY <2>1, <2>3 DEF Push
    <3>2. by' = [by EXCEPT ![x] = Outside]
      BY <3>1 DEF MergeOutside
    <3> QED  BY <2>1, <3>2, NullsAssumption DEF Inv, TypeOK
  <2>4. PICK o \in Ops : MergeArrives(o)
    BY <2>1, <2>2, <2>3 DEF Next, MergeLost
  <2>5. /\ github[op[o].pr].merged = NoHead /\ PinnedHead(o)
        /\ by' = [by EXCEPT ![op[o].pr] = o]
    BY <2>1, <2>4 DEF MergeArrives
  <2>6. op[o].pr = p /\ by'[p] = o
    BY <2>5, NullsAssumption DEF Inv, TypeOK
  <2> QED  BY <2>4, <2>5, <2>6, ArrivalConsents
<1> QED  BY <1>1, InvHolds, PTL DEF Spec, MergedWithConsent

=============================================================================
