------------------------- MODULE KeyedAdvanceProofs -------------------------
(* Theorems about KeyedAdvance, for every workflow, every set of tasks,    *)
(* keys, callers and attempts, and every bound.                            *)
EXTENDS KeyedAdvance, TLAPS

\* A stage that is chosen is a state of the definition.
LEMMA ResolveState ==
    ASSUME NEW q, ~Refuses(q)
    PROVE  Resolve(q) \in States(Def)
<1>1. Choices(q) \subseteq States(Def)
    BY DEF Choices, AdvanceTargets
<1>2. CASE q.payload.to \in Choices(q)
    BY <1>1, <1>2 DEF Resolve
<1>3. CASE q.payload.to \notin Choices(q)
    <2>1. \E s \in Choices(q) : Choices(q) = {s}
        BY <1>3 DEF Resolve, Refuses
    <2>2. (CHOOSE s \in Choices(q) : TRUE) \in Choices(q)
        BY <2>1
    <2>3. Resolve(q) = CHOOSE s \in Choices(q) : TRUE
        BY <1>3 DEF Resolve, Refuses
    <2> QED
        BY <1>1, <2>2, <2>3
<1> QED
    BY <1>2, <1>3

LEMMA TypeInit == Init => TypeOK
BY DEF Init, TypeOK, Row, Idle, Statuses

\* A running attempt by its step.
LEMMA BusyFields ==
    ASSUME TypeOK, NEW r \in Attempts, req[r] # Idle
    PROVE  /\ req[r] \in Busy
           /\ req[r].key \in Keys \cup {NoKey}
           /\ req[r].payload \in PayloadType /\ req[r].snap \in Row
           /\ req[r].pc \in {"write", "store"} => req[r].to \in States(Def)
           /\ req[r].pc = "store" => req[r].key \in Keys
BY DEF TypeOK, Busy, At

LEMMA TypeStep ==
    ASSUME TypeOK, [Next]_vars
    PROVE  TypeOK'
<1> USE DEF TypeOK, history
<1>1. ASSUME NEW r \in Attempts, NEW c \in Callers, NEW k \in Keys \cup {NoKey},
             NEW t \in Tasks, ReadTask(r, c, k, t)
      PROVE  TypeOK'
    <2>1. PICK to \in Asked :
             req' = [req EXCEPT ![r] =
                       [pc |-> "lookup", key |-> k, snap |-> row[t], to |-> NoTarget,
                        payload |-> [task |-> t, to |-> to, caller |-> c]]]
        BY <1>1 DEF ReadTask
    <2>2. to \in Requested
        BY BoundAssumption DEF Requested
    <2>3. req' \in [Attempts -> Busy \cup {Idle}]
        BY <2>1, <2>2 DEF Busy, At, PayloadType
    <2> QED
        BY <1>1, <2>3 DEF ReadTask
<1>2. ASSUME NEW r \in Attempts, Replay(r)
      PROVE  TypeOK'
    <2>1. req[r].key \in Keys /\ tool[req[r].key] \in Answer
        BY <1>2, BusyFields DEF Replay, Stored
    <2>2. told' \in [Keys -> SUBSET Answer]
        BY <1>2, <2>1, BusyFields DEF Replay, Tell, Answer
    <2> QED
        BY <1>2, <2>2 DEF Replay, End
<1>3. ASSUME NEW r \in Attempts, Execute(r)
      PROVE  TypeOK'
    <2>1. Resolve(req[r]) \in States(Def)
        BY <1>3, ResolveState DEF Execute
    <2>2. [req[r] EXCEPT !.pc = "write", !.to = Resolve(req[r])] \in Busy
        BY <1>3, <2>1, BusyFields DEF Execute, Busy, At
    <2> QED
        BY <1>3, <2>2 DEF Execute
<1>4. ASSUME NEW r \in Attempts, Write(r)
      PROVE  TypeOK'
    <2> DEFINE q == req[r]
    <2>1. q \in Busy /\ q.key \in Keys \cup {NoKey} /\ q.payload.task \in Tasks
          /\ q.payload \in PayloadType /\ q.snap \in Row /\ q.to \in States(Def)
        BY <1>4, BusyFields DEF Write, PayloadType
    <2>2. row' \in [Tasks -> Row]
        BY <1>4, <2>1 DEF Write, Row, Statuses
    <2>3. AfterWrite(q) \in Busy \cup {Idle}
        BY <1>4, <2>1 DEF AfterWrite, Write, Busy, At
    <2>4. [payload |-> q.payload, to |-> q.to, read |-> q.snap.version,
           at |-> row[q.payload.task].version] \in Move
        BY <2>1 DEF Move, Row
    <2>5. made' \in [Keys -> SUBSET Move]
        BY <1>4, <2>1, <2>4 DEF Write
    <2> QED
        BY <1>4, <2>2, <2>3, <2>5 DEF Write
<1>5. ASSUME NEW r \in Attempts, Store(r)
      PROVE  TypeOK'
    <2> DEFINE q == req[r]
    <2>1. q.key \in Keys \cup {NoKey} /\ [payload |-> q.payload, to |-> q.to] \in Answer
        BY <1>5, BusyFields DEF Store, Answer
    <2>2. tool' \in [Keys -> Answer \cup {NoTool}]
        BY <1>5, <2>1 DEF Store
    <2>3. told' \in [Keys -> SUBSET Answer]
        BY <1>5, <2>1 DEF Store, Tell
    <2> QED
        BY <1>5, <2>2, <2>3 DEF Store, End
<1>6. ASSUME NEW r \in Attempts, Fail(r)
      PROVE  TypeOK'
    <2>1. CASE req[r].pc = "store"
        <3>1. req[r].key \in Keys
            BY <1>6, <2>1, BusyFields DEF Fail
        <3> QED
            BY <1>6, <2>1, <3>1 DEF Fail, End
    <2>2. CASE req[r].pc # "store"
        BY <1>6, <2>2 DEF Fail, End
    <2> QED
        BY <2>1, <2>2
<1>7. ASSUME NEW t \in Tasks, OtherWrite(t)
      PROVE  TypeOK'
    <2>1. row[t] \in Row
        OBVIOUS
    <2>2. ASSUME NEW s \in Elsewhere,
                 row' = [row EXCEPT ![t].status = s, ![t].version = @ + 1]
          PROVE  row' \in [Tasks -> Row]
        BY <2>1, <2>2, BoundAssumption DEF Row
    <2>3. ASSUME NEW c \in Callers \cup {NoClaim}, row' = [row EXCEPT ![t].work = c]
          PROVE  row' \in [Tasks -> Row]
        BY <2>1, <2>3 DEF Row
    <2>4. row' \in [Tasks -> Row]
        BY <1>7, <2>2, <2>3 DEF OtherWrite
    <2> QED
        BY <1>7, <2>4 DEF OtherWrite
<1>8. ASSUME NEW k \in Keys, GiveUp(k) \/ Sweep(k)
      PROVE  TypeOK'
    BY <1>8 DEF GiveUp, Sweep
<1>9. CASE UNCHANGED vars
    BY <1>9 DEF vars
<1> QED
    BY <1>1, <1>2, <1>3, <1>4, <1>5, <1>6, <1>7, <1>8, <1>9 DEF Next

\* Every variable keeps its type.
THEOREM KeyedTypeCorrect == Spec => []TypeOK
BY TypeInit, TypeStep, PTL DEF Spec

-----------------------------------------------------------------------------
(* The answers.                                                            *)

\* An answer or a pending answer stands for a move in the history h.
Made(h, k, p, to) == \E m \in h[k] : m.payload = p /\ m.to = to

\* ToldTruth is inductive with the stored and the pending answers.
Truth ==
    /\ \A k \in Keys : \A a \in told[k] : Made(made, k, a.payload, a.to)
    /\ \A k \in Keys :
          tool[k] # NoTool => Made(made, k, tool[k].payload, tool[k].to)
    /\ \A r \in Attempts :
          req[r] # Idle /\ req[r].pc = "store"
          => Made(made, req[r].key, req[r].payload, req[r].to)

\* Nothing forgets a move: a step keeps what was made under every key.
LEMMA MadeGrows ==
    ASSUME TypeOK, [Next]_vars, NEW k \in Keys
    PROVE  made[k] \subseteq made'[k]
<1>1. CASE UNCHANGED made
    BY <1>1
<1>2. ASSUME NEW r \in Attempts, Write(r)
      PROVE  made[k] \subseteq made'[k]
    BY <1>2 DEF Write, TypeOK
<1>3. UNCHANGED made \/ \E r \in Attempts : Write(r)
    BY DEF Next, vars, history, ReadTask, Replay, Execute, Store, Fail, OtherWrite,
           GiveUp, Sweep
<1> QED
    BY <1>1, <1>2, <1>3

LEMMA TruthInit == Init => Truth
BY DEF Init, Truth, Idle

\* What is told stands for moves.
LEMMA ToldStep ==
    ASSUME TypeOK, Truth, [Next]_vars
    PROVE  \A k \in Keys : \A a \in told'[k] : Made(made', k, a.payload, a.to)
<1> SUFFICES ASSUME NEW k \in Keys, NEW a \in told'[k]
             PROVE  Made(made', k, a.payload, a.to)
    OBVIOUS
<1>1. \A p, to : Made(made, k, p, to) => Made(made', k, p, to)
    BY MadeGrows DEF Made
<1>2. CASE a \in told[k]
    BY <1>1, <1>2 DEF Truth
<1>3. ASSUME NEW r \in Attempts, Replay(r), a \notin told[k]
      PROVE  Made(made', k, a.payload, a.to)
    <2>1. req[r].key = k /\ a = [payload |-> req[r].payload, to |-> tool[k].to]
        BY <1>3, BusyFields DEF Replay, Tell, Stored, TypeOK
    <2>2. tool[k] # NoTool /\ tool[k].payload = req[r].payload
        BY <1>3, <2>1 DEF Replay, Stored, Hashed
    <2> QED
        BY <1>1, <2>1, <2>2 DEF Truth
<1>4. ASSUME NEW r \in Attempts, Store(r), a \notin told[k]
      PROVE  Made(made', k, a.payload, a.to)
    <2>1. req[r].key = k /\ a = [payload |-> req[r].payload, to |-> req[r].to]
        BY <1>4, BusyFields DEF Store, Tell, TypeOK
    <2> QED
        BY <1>1, <1>4, <2>1 DEF Truth, Store
<1>5. UNCHANGED told \/ \E r \in Attempts : Replay(r) \/ Store(r)
    BY DEF Next, vars, history, ReadTask, Execute, Write, Fail, OtherWrite,
           GiveUp, Sweep
<1> QED
    BY <1>2, <1>3, <1>4, <1>5

\* What is stored stands for moves.
LEMMA StoredStep ==
    ASSUME TypeOK, Truth, [Next]_vars, NEW k \in Keys, tool'[k] # NoTool
    PROVE  Made(made', k, tool'[k].payload, tool'[k].to)
<1>1. \A p, to : Made(made, k, p, to) => Made(made', k, p, to)
    BY MadeGrows DEF Made
<1>2. CASE tool'[k] = tool[k]
    BY <1>1, <1>2 DEF Truth
<1>3. ASSUME NEW r \in Attempts, Store(r), tool'[k] # tool[k]
      PROVE  Made(made', k, tool'[k].payload, tool'[k].to)
    <2>1. req[r].key = k /\ tool'[k] = [payload |-> req[r].payload, to |-> req[r].to]
        BY <1>3, BusyFields DEF Store, TypeOK
    <2> QED
        BY <1>1, <1>3, <2>1 DEF Truth, Store
<1>4. ASSUME NEW kk \in Keys, Sweep(kk)
      PROVE  tool'[k] = tool[k]
    BY <1>4 DEF Sweep, TypeOK
<1>5. \/ UNCHANGED tool
      \/ \E r \in Attempts : Store(r)
      \/ \E kk \in Keys : Sweep(kk)
    BY DEF Next, vars, history, ReadTask, Replay, Execute, Write, Fail, OtherWrite,
           GiveUp
<1> QED
    BY <1>2, <1>3, <1>4, <1>5

\* An attempt that is about to store has made its move.
LEMMA PendingStep ==
    ASSUME TypeOK, Truth, [Next]_vars, NEW r \in Attempts,
           req'[r] # Idle, req'[r].pc = "store"
    PROVE  Made(made', req'[r].key, req'[r].payload, req'[r].to)
<1>1. CASE req'[r] = req[r]
    <2>1. req[r].key \in Keys
        BY <1>1, BusyFields
    <2> QED
        BY <1>1, <2>1, MadeGrows DEF Truth, Made
<1>2. ASSUME Write(r), req'[r] # req[r]
      PROVE  Made(made', req'[r].key, req'[r].payload, req'[r].to)
    <2> DEFINE q == req[r]
               m == [payload |-> q.payload, to |-> q.to, read |-> q.snap.version,
                     at |-> row[q.payload.task].version]
    <2>1. req'[r] = [q EXCEPT !.pc = "store"] /\ q.key # NoKey
        BY <1>2 DEF Write, AfterWrite, TypeOK
    <2>2. q.key \in Keys /\ q \in Busy
        BY <1>2, <2>1, BusyFields DEF Write
    <2>3. m \in made'[q.key]
        BY <1>2, <2>1, <2>2 DEF Write, TypeOK
    <2>4. req'[r].key = q.key /\ req'[r].payload = q.payload /\ req'[r].to = q.to
        BY <2>1, <2>2 DEF Busy, At
    <2> QED
        BY <2>3, <2>4 DEF Made
<1>3. ASSUME NEW rr \in Attempts, rr # r,
             Replay(rr) \/ Execute(rr) \/ Write(rr) \/ Store(rr) \/ Fail(rr)
      PROVE  req'[r] = req[r]
    BY <1>3 DEF Replay, Execute, Write, Store, Fail, End, TypeOK
<1>4. ~ (Replay(r) \/ Store(r) \/ Fail(r))
    BY DEF Replay, Store, Fail, End, TypeOK
<1>7. ~ Execute(r)
    <2> SUFFICES ASSUME Execute(r) PROVE FALSE
        OBVIOUS
    <2>1. req'[r] = [req[r] EXCEPT !.pc = "write", !.to = Resolve(req[r])]
        BY DEF Execute, TypeOK
    <2> QED
        BY <2>1, BusyFields DEF Execute, Busy, At
<1>5. ASSUME NEW rr \in Attempts, NEW c \in Callers, NEW k \in Keys \cup {NoKey},
             NEW t \in Tasks, ReadTask(rr, c, k, t)
      PROVE  req'[r] = req[r]
    BY <1>5 DEF ReadTask, TypeOK
<1>6. CASE UNCHANGED req
    BY <1>1, <1>6
<1> QED
    BY <1>1, <1>2, <1>3, <1>4, <1>5, <1>6, <1>7
       DEF Next, vars, OtherWrite, GiveUp, Sweep

LEMMA TruthStep ==
    ASSUME TypeOK, Truth, [Next]_vars
    PROVE  Truth'
BY ToldStep, StoredStep, PendingStep DEF Truth

\* An answered success was asked for and made: nothing refused is replayed as a
\* success and nobody is told of another's move.
THEOREM AnswersAreTrue == Spec => []ToldTruth
<1>1. Truth => ToldTruth
    BY DEF Truth, ToldTruth, Made
<1> QED
    BY TypeInit, TypeStep, TruthInit, TruthStep, <1>1, PTL DEF Spec

-----------------------------------------------------------------------------
(* How often a key moves a task.                                           *)

LEMMA RememberedInit == Init => MoveRemembered
BY DEF Init, MoveRemembered

\* MoveRemembered is inductive: a move's attempt goes on to store, and only a
\* key given up is swept.
LEMMA RememberedStep ==
    ASSUME TypeOK, MoveRemembered, [Next]_vars
    PROVE  MoveRemembered'
<1> SUFFICES ASSUME NEW k \in Keys \ gaveUp', made'[k] # {}
             PROVE  \/ tool'[k] # NoTool \/ k \in lost'
                    \/ \E r \in Attempts : /\ req'[r] # Idle /\ req'[r].key = k
                                           /\ req'[r].pc = "store"
    BY DEF MoveRemembered, Under
<1> DEFINE Kept == \/ tool'[k] # NoTool \/ k \in lost'
                   \/ \E r \in Attempts : /\ req'[r] # Idle /\ req'[r].key = k
                                          /\ req'[r].pc = "store"
<1>1. k \in Keys \ gaveUp
    BY DEF Next, vars, history, ReadTask, Replay, Execute, Write, Store, Fail,
           OtherWrite, GiveUp, Sweep
<1>2. made[k] # {} =>
         \/ tool[k] # NoTool \/ k \in lost
         \/ \E r \in Attempts : /\ req[r] # Idle /\ req[r].key = k
                                /\ req[r].pc = "store"
    BY <1>1 DEF MoveRemembered, Under
<1>3. ASSUME NEW r \in Attempts, NEW c \in Callers, NEW kk \in Keys \cup {NoKey},
             NEW t \in Tasks, ReadTask(r, c, kk, t)
      PROVE  Kept
    BY <1>2, <1>3 DEF ReadTask, TypeOK
<1>4. ASSUME NEW r \in Attempts, Replay(r) \/ Execute(r)
      PROVE  Kept
    BY <1>2, <1>4 DEF Replay, Execute, End, TypeOK, history
<1>5. ASSUME NEW r \in Attempts, Write(r)
      PROVE  Kept
    <2>1. CASE req[r].key = k
        <3>1. req'[r] = [req[r] EXCEPT !.pc = "store"] /\ req[r] \in Busy
            BY <1>5, <2>1, BusyFields, NullsAssumption DEF Write, AfterWrite, TypeOK
        <3>2. req'[r].key = k /\ req'[r].pc = "store" /\ req'[r] # Idle
            BY <2>1, <3>1 DEF Busy, At, Idle
        <3> QED
            BY <3>2
    <2>2. CASE req[r].key # k
        <3>1. made'[k] = made[k]
            BY <1>5, <2>2 DEF Write, TypeOK
        <3> QED
            BY <1>2, <1>5, <2>2, <3>1 DEF Write, TypeOK
    <2> QED
        BY <2>1, <2>2
<1>6. ASSUME NEW r \in Attempts, Store(r)
      PROVE  Kept
    <2>1. CASE req[r].key = k
        <3>1. [payload |-> req[r].payload, to |-> req[r].to] \in Answer
            BY <1>6, BusyFields DEF Store, Answer
        <3>2. tool'[k] # NoTool
            BY <1>6, <2>1, <3>1, NullsAssumption DEF Store, Stored, TypeOK
        <3> QED
            BY <3>2
    <2>2. CASE req[r].key # k
        <3>1. tool'[k] = tool[k]
            BY <1>6, <2>2 DEF Store, TypeOK
        <3> QED
            BY <1>2, <1>6, <2>2, <3>1 DEF Store, End, TypeOK
    <2> QED
        BY <2>1, <2>2
<1>7. ASSUME NEW r \in Attempts, Fail(r)
      PROVE  Kept
    BY <1>2, <1>7 DEF Fail, End, TypeOK
<1>8. ASSUME NEW kk \in Keys, Sweep(kk)
      PROVE  Kept
    <2>1. kk # k
        BY <1>1, <1>8 DEF Sweep, Expired
    <2> QED
        BY <1>2, <1>8, <2>1 DEF Sweep, TypeOK, history
<1>9. CASE (\E t \in Tasks : OtherWrite(t)) \/ (\E kk \in Keys : GiveUp(kk))
           \/ UNCHANGED vars
    BY <1>2, <1>9 DEF OtherWrite, GiveUp, vars, history
<1> QED
    BY <1>3, <1>4, <1>5, <1>6, <1>7, <1>8, <1>9 DEF Next

\* A retry finds the answer of a move, but for the window between its write and
\* its store.
THEOREM MovesAreRemembered == Spec => []MoveRemembered
BY TypeInit, TypeStep, RememberedInit, RememberedStep, PTL DEF Spec

\* HotDuplicatesMoveOnce is inductive once every move is known to have been
\* made at the version it was read at, which the row has left behind.
Behind == \A k \in Keys : \A m \in made[k] :
              m.read = m.at /\ m.at < row[m.payload.task].version

Hot == Behind /\ HotDuplicatesMoveOnce

LEMMA HotInit == Init => Hot
BY DEF Init, Hot, Behind, HotDuplicatesMoveOnce

\* The version of a row never goes down.
LEMMA VersionGrows ==
    ASSUME TypeOK, [Next]_vars, NEW t \in Tasks
    PROVE  row[t].version <= row'[t].version
<1>1. CASE UNCHANGED row
    BY <1>1 DEF TypeOK, Row
<1>2. ASSUME NEW r \in Attempts, Write(r)
      PROVE  row[t].version <= row'[t].version
    <2>1. req[r].payload.task \in Tasks /\ row[t] \in Row
        BY <1>2, BusyFields DEF Write, PayloadType, TypeOK
    <2> QED
        BY <1>2, <2>1 DEF Write, TypeOK, Row
<1>3. ASSUME NEW tt \in Tasks, OtherWrite(tt)
      PROVE  row[t].version <= row'[t].version
    <2>1. row[t].version \in Nat
        BY DEF TypeOK, Row
    <2>2. ASSUME NEW s \in Elsewhere,
                 row' = [row EXCEPT ![tt].status = s, ![tt].version = @ + 1]
          PROVE  row'[t].version \in {row[t].version, row[t].version + 1}
        BY <2>2 DEF TypeOK, Row
    <2>3. ASSUME NEW c \in Callers \cup {NoClaim}, row' = [row EXCEPT ![tt].work = c]
          PROVE  row'[t].version \in {row[t].version, row[t].version + 1}
        BY <2>3 DEF TypeOK, Row
    <2>4. row'[t].version \in {row[t].version, row[t].version + 1}
        BY <1>3, <2>2, <2>3, Zenon DEF OtherWrite
    <2> QED
        BY <2>1, <2>4
<1>4. UNCHANGED row \/ (\E r \in Attempts : Write(r)) \/ \E tt \in Tasks : OtherWrite(tt)
    BY DEF Next, vars, ReadTask, Replay, Execute, Store, Fail, GiveUp, Sweep
<1> QED
    BY <1>1, <1>2, <1>3, <1>4

LEMMA HotStep ==
    ASSUME TypeOK, Hot, [Next]_vars
    PROVE  Hot'
<1>1. CASE UNCHANGED made
    <2>1. ASSUME NEW k \in Keys, NEW m \in made[k]
          PROVE  m.read = m.at /\ m.at < row'[m.payload.task].version
        <3>1. m.payload.task \in Tasks /\ m.at \in Nat
            BY DEF TypeOK, Move, PayloadType
        <3>2. row[m.payload.task].version \in Nat /\ row'[m.payload.task].version \in Nat
            BY <3>1, TypeStep DEF TypeOK, Row
        <3> QED
            BY <3>1, <3>2, VersionGrows DEF Hot, Behind
    <2> QED
        BY <1>1, <2>1 DEF Hot, Behind, HotDuplicatesMoveOnce
<1>2. ASSUME NEW r \in Attempts, Write(r), made' # made
      PROVE  Hot'
    <2> DEFINE q == req[r]
               t == q.payload.task
               n == [payload |-> q.payload, to |-> q.to, read |-> q.snap.version,
                     at |-> row[t].version]
    <2>1. q.key \in Keys /\ t \in Tasks
        BY <1>2, BusyFields DEF Write, PayloadType
    <2>2. made' = [made EXCEPT ![q.key] = @ \cup {n}]
        BY <1>2 DEF Write
    <2>3. n.read = n.at /\ n.at = row[t].version /\ n.payload.task = t
        BY <1>2 DEF Write, Unchanged
    <2>4. row[t].version \in Nat /\ row'[t].version = row[t].version + 1
          /\ \A u \in Tasks \ {t} : row'[u] = row[u]
        BY <1>2, <2>1 DEF Write, TypeOK, Row
    <2>5. ASSUME NEW k \in Keys, NEW m \in made[k]
          PROVE  /\ m.read = m.at /\ m.at < row'[m.payload.task].version
                 /\ m.payload.task = t => m.read < n.read
        <3>1. m.payload.task \in Tasks /\ m.at \in Nat
            BY DEF TypeOK, Move, PayloadType
        <3> QED
            BY <2>3, <2>4, <3>1 DEF Hot, Behind
    <2>6. \A k \in Keys : \A m \in made'[k] : m \in made[k] \/ (m = n /\ k = q.key)
        BY <2>1, <2>2 DEF TypeOK
    <2>7. Behind'
        BY <2>3, <2>4, <2>5, <2>6 DEF Behind
    <2>8. n.read \in Nat
        BY <2>3, <2>4
    <2>9. \A k \in Keys : \A m \in made[k] : m.read \in Nat
        BY DEF TypeOK, Move
    <2>10. ASSUME NEW k1 \in Keys, NEW k2 \in Keys,
                  NEW m1 \in made'[k1], NEW m2 \in made'[k2],
                  m1.payload.task = m2.payload.task, m1.read = m2.read
           PROVE  k1 = k2 /\ m1 = m2
        <3>1. CASE m1 \in made[k1] /\ m2 \in made[k2]
            BY <2>10, <3>1 DEF Hot, HotDuplicatesMoveOnce
        <3>2. CASE m1 = n /\ k1 = q.key /\ m2 \in made[k2]
            BY <2>10, <2>3, <2>5, <2>8, <2>9, <3>2
        <3>3. CASE m2 = n /\ k2 = q.key /\ m1 \in made[k1]
            BY <2>10, <2>3, <2>5, <2>8, <2>9, <3>3
        <3> QED
            BY <2>6, <3>1, <3>2, <3>3
    <2> QED
        BY <2>7, <2>10 DEF Hot, HotDuplicatesMoveOnce
<1>3. UNCHANGED made \/ \E r \in Attempts : Write(r)
    BY DEF Next, vars, history, ReadTask, Replay, Execute, Store, Fail, OtherWrite,
           GiveUp, Sweep
<1> QED
    BY <1>1, <1>2, <1>3

\* Attempts that read the same row move the task once between them.
THEOREM HotDuplicates == Spec => []HotDuplicatesMoveOnce
<1>1. Hot => HotDuplicatesMoveOnce
    BY DEF Hot
<1> QED
    BY TypeInit, TypeStep, HotInit, HotStep, <1>1, PTL DEF Spec

\* OncePerKey is inductive once the progress of the only attempt is known: it
\* writes only under a key that has no move, and a key that no client sends any
\* more has no attempt when its answer is swept.
Single(k) ==
    /\ \A r1, r2 \in Under(k) : r1 = r2
    /\ k \notin lost =>
          \A r \in Under(k) :
              /\ req[r].pc = "lookup" => made[k] = {} \/ tool[k] # NoTool
              /\ req[r].pc = "write" => made[k] = {}

Once == OncePerKey /\ \A k \in Keys \ overlap : Single(k)

LEMMA OnceInit == Init => Once
BY DEF Init, Once, OncePerKey, Single, Under, Idle

\* The steps that leave the progress of key k alone.
LEMMA SingleSame ==
    ASSUME NEW k \in Keys, Single(k), Under(k)' \subseteq Under(k),
           \A r \in Under(k)' : req'[r].pc = req[r].pc,
           made'[k] = made[k], lost \subseteq lost',
           tool'[k] = tool[k]
    PROVE  Single(k)'
BY DEF Single

LEMMA SingleStep ==
    ASSUME TypeOK, MoveRemembered, [Next]_vars, NEW k \in Keys,
           k \notin overlap', Single(k)
    PROVE  Single(k)'
<1>1. ASSUME NEW r \in Attempts, NEW c \in Callers, NEW kk \in Keys \cup {NoKey},
             NEW t \in Tasks, ReadTask(r, c, kk, t)
      PROVE  Single(k)'
    <2>1. CASE kk = k
        <3>1. Under(k) = {} /\ k \notin gaveUp
            BY <1>1, <2>1 DEF ReadTask
        <3>2. Under(k)' \subseteq {r}
            BY <1>1, <3>1 DEF ReadTask, Under, TypeOK
        <3>3. req'[r].pc = "lookup"
            BY <1>1 DEF ReadTask, TypeOK
        <3>4. k \in lost \/ made[k] = {} \/ tool[k] # NoTool
            BY <3>1 DEF MoveRemembered
        <3> QED
            BY <1>1, <3>2, <3>3, <3>4 DEF Single, ReadTask
    <2>2. CASE kk # k
        <3>1. Under(k)' = Under(k) /\ \A a \in Under(k) : req'[a] = req[a]
            BY <1>1, <2>2 DEF ReadTask, Under, TypeOK, Idle
        <3> QED
            BY <1>1, <3>1 DEF Single, ReadTask
    <2> QED
        BY <2>1, <2>2
<1>2. ASSUME NEW r \in Attempts, Replay(r) \/ Fail(r)
      PROVE  Single(k)'
    <2>1. Under(k)' \subseteq Under(k) /\ \A a \in Under(k)' : req'[a] = req[a]
        BY <1>2 DEF Replay, Fail, End, Under, TypeOK
    <2>2. UNCHANGED <<made, tool>> /\ lost \subseteq lost'
        BY <1>2 DEF Replay, Fail
    <2> QED
        BY <2>1, <2>2, SingleSame
<1>3. ASSUME NEW r \in Attempts, Execute(r)
      PROVE  Single(k)'
    <2>1. req[r] \in Busy /\ req'[r] = [req[r] EXCEPT !.pc = "write", !.to = Resolve(req[r])]
          /\ \A a \in Attempts \ {r} : req'[a] = req[a]
        BY <1>3, BusyFields DEF Execute, TypeOK
    <2>2. req'[r].key = req[r].key /\ req'[r].pc = "write" /\ req'[r] # Idle
        BY <2>1 DEF Busy, At, Idle
    <2>3. Under(k)' = Under(k)
        BY <1>3, <2>1, <2>2 DEF Under, Execute
    <2>4. UNCHANGED <<made, lost, tool>>
        BY <1>3 DEF Execute, history
    <2>5. r \in Under(k) /\ k \notin lost => made[k] = {}
        <3>1. k # NoKey
            BY NullsAssumption
        <3> QED
            BY <1>3, <3>1 DEF Single, Execute, Under, Stored
    <2> QED
        BY <2>1, <2>2, <2>3, <2>4, <2>5 DEF Single, Under
<1>4. ASSUME NEW r \in Attempts, Write(r)
      PROVE  Single(k)'
    <2>1. CASE req[r].key = k
        <3>1. req[r] \in Busy /\ req'[r] = [req[r] EXCEPT !.pc = "store"]
              /\ \A a \in Attempts \ {r} : req'[a] = req[a]
            BY <1>4, <2>1, BusyFields, NullsAssumption DEF Write, AfterWrite, TypeOK
        <3>2. req'[r].pc = "store" /\ req'[r].key = k
            BY <2>1, <3>1 DEF Busy, At
        <3>3. r \in Under(k)
            BY <1>4, <2>1 DEF Write, Under
        <3>4. Under(k)' \subseteq {r}
            BY <3>1, <3>3 DEF Single, Under
        <3> QED
            BY <3>2, <3>4 DEF Single
    <2>2. CASE req[r].key # k
        <3>1. AfterWrite(req[r]) = Idle \/ AfterWrite(req[r]).key = req[r].key
            BY <1>4, BusyFields DEF Write, AfterWrite, Busy, At
        <3>2. Under(k)' \subseteq Under(k) /\ \A a \in Under(k)' : req'[a] = req[a]
            BY <1>4, <2>2, <3>1 DEF Write, Under, TypeOK
        <3>3. made'[k] = made[k] /\ UNCHANGED <<tool, lost>>
            BY <1>4, <2>2 DEF Write, TypeOK
        <3> QED
            BY <3>2, <3>3, SingleSame
    <2> QED
        BY <2>1, <2>2
<1>5. ASSUME NEW r \in Attempts, Store(r)
      PROVE  Single(k)'
    <2>1. Under(k)' \subseteq Under(k) /\ \A a \in Under(k)' : req'[a] = req[a]
        BY <1>5 DEF Store, End, Under, TypeOK
    <2>2. CASE req[r].key = k
        <3>1. Under(k)' = {}
            BY <1>5, <2>1, <2>2 DEF Store, End, Under, TypeOK, Single
        <3> QED
            BY <3>1 DEF Single
    <2>3. CASE req[r].key # k
        <3>1. tool'[k] = tool[k]
            BY <1>5, <2>3 DEF Store, TypeOK
        <3> QED
            BY <1>5, <2>1, <3>1, SingleSame DEF Store
    <2> QED
        BY <2>2, <2>3
<1>6. ASSUME NEW kk \in Keys, Sweep(kk)
      PROVE  Single(k)'
    <2>1. Under(k)' = Under(k)
        BY <1>6 DEF Sweep, Under
    <2>2. Under(k) = {} \/ tool'[k] = tool[k]
        BY <1>6 DEF Sweep, Expired, TypeOK
    <2> QED
        BY <1>6, <2>1, <2>2 DEF Sweep, Single, history
<1>7. CASE (\E t \in Tasks : OtherWrite(t)) \/ (\E kk \in Keys : GiveUp(kk))
           \/ UNCHANGED vars
    BY <1>7 DEF OtherWrite, GiveUp, vars, history, Single, Under
<1> QED
    BY <1>1, <1>2, <1>3, <1>4, <1>5, <1>6, <1>7 DEF Next

LEMMA OnceStep ==
    ASSUME TypeOK, MoveRemembered, Once, [Next]_vars
    PROVE  Once'
<1>1. overlap \subseteq overlap' /\ lost \subseteq lost'
    BY DEF Next, vars, history, ReadTask, Replay, Execute, Write, Store, Fail,
           OtherWrite, GiveUp, Sweep
<1>2. \A k \in Keys \ overlap' : Single(k)'
    BY <1>1, SingleStep DEF Once
<1>3. ASSUME NEW k \in Keys \ (overlap' \cup lost'), NEW m1 \in made'[k], NEW m2 \in made'[k]
      PROVE  m1 = m2
    <2>1. k \notin overlap /\ k \notin lost /\ Single(k)
        BY <1>1 DEF Once
    <2>2. CASE made'[k] = made[k]
        BY <2>1, <2>2 DEF Once, OncePerKey
    <2>3. ASSUME NEW r \in Attempts, Write(r), made'[k] # made[k]
          PROVE  m1 = m2
        <3>1. req[r].key = k
            BY <2>3 DEF Write, TypeOK
        <3>2. made[k] = {}
            BY <2>1, <2>3, <3>1 DEF Single, Write, Under
        <3> QED
            BY <2>3, <3>1, <3>2 DEF Write, TypeOK
    <2>4. UNCHANGED made \/ \E r \in Attempts : Write(r)
        BY DEF Next, vars, history, ReadTask, Replay, Execute, Store, Fail, OtherWrite,
               GiveUp, Sweep
    <2> QED
        BY <2>2, <2>3, <2>4
<1> QED
    BY <1>2, <1>3 DEF Once, OncePerKey

\* Attempts under one key that follow each other, with no answer lost, move the
\* task once.
THEOREM KeyMovesOnce == Spec => []OncePerKey
<1>1. Once => OncePerKey
    BY DEF Once
<1> QED
    BY TypeInit, TypeStep, RememberedInit, RememberedStep, OnceInit, OnceStep, <1>1,
       PTL DEF Spec
=============================================================================
