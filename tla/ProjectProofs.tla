---------------------------- MODULE ProjectProofs ----------------------------
(***************************************************************************)
(* The parts of a project, each for every value of its constants: sharing, *)
(* governance and leaving, for any users, invitations and deaths; the walk *)
(* that keeps dependencies free of cycles unless another one is written    *)
(* under it; rows, files and caps under any requests; edits of workflows   *)
(* over the tasks and attempts that follow them; imports that overlap and  *)
(* are sent again.                                                         *)
(***************************************************************************)
EXTENDS Project, Sequences, FiniteSetTheorems, WellFoundedInduction, TLAPS

-----------------------------------------------------------------------------
(***************************************************************************)
(* Shares.                                                                 *)
(***************************************************************************)

USE DEF Modes, Unset

\* Whoever is gone and not excused holds neither claim, live or not, and a
\* finished task has no claim that a new life of the task could revive.
GoneHoldNothing ==
    /\ \A u \in Users \ (members \cup excused) : task.work # u /\ task.review # u
    /\ task.phase = "final" => task.work = NoUser /\ task.review = NoUser

\* A shared project that is solo by nobody's choice and with no flip missed is
\* one whose only member has joined and will still end solo mode.
FlipToCome ==
    members # {} /\ Resolved(project) = "AUTONOMOUS" /\ ~chosen /\ ~missed
    => \E u \in Users : InJudgement(u) /\ members = {u}

-----------------------------------------------------------------------------
(* Types.                                                                  *)

Acceptance == [pc : {"idle", "checked", "joined", "flips"},
               invite : Invites \cup {NoInvite}]

LEMMA ProjectTypes ==
    /\ \A m \in Modes : OfMode(m) \in [mode : Modes \cup {Unset}, solo : BOOLEAN,
                                       distinct : BOOLEAN]
    /\ \A s, d \in BOOLEAN : Derived(s, d) \in Modes
BY DEF OfMode, Derived

LEMMA SentIsBoolean ==
    ASSUME NEW flag \in {{}, {TRUE}, {FALSE}}, NEW b \in BOOLEAN
    PROVE  Value(flag, b) \in BOOLEAN
<1>1. CASE flag = {}
  BY <1>1, Zenon DEF Value
<1>2. CASE flag # {}
  <2>1. \A v \in flag : v \in BOOLEAN
    <3>1. CASE flag = {TRUE}
      BY <3>1, Zenon
    <3>2. CASE flag = {FALSE}
      BY <3>2, Zenon
    <3> QED BY <1>2, <3>1, <3>2, Zenon
  <2>2. (CHOOSE v \in flag : TRUE) \in flag
    BY <1>2, Zenon
  <2> QED BY <1>2, <2>1, <2>2, Zenon DEF Value
<1> QED BY <1>1, <1>2

LEMMA FlagTypes ==
    ASSUME TypeOK, NEW solo \in {{}, {TRUE}, {FALSE}}, NEW distinct \in {{}, {TRUE}, {FALSE}}
    PROVE  WithFlags(solo, distinct) \in [mode : Modes \cup {Unset}, solo : BOOLEAN,
                                          distinct : BOOLEAN]
<1> DEFINE s == Value(solo, project.solo)
           d == Value(distinct, project.distinct)
<1>0. project.solo \in BOOLEAN /\ project.distinct \in BOOLEAN
  BY DEF TypeOK
<1>1. s \in BOOLEAN /\ d \in BOOLEAN
  BY <1>0, SentIsBoolean
<1>2. Derived(s, d) \in Modes
  BY <1>1, ProjectTypes
<1>3. WithFlags(solo, distinct) = [mode |-> Derived(s, d), solo |-> s, distinct |-> d]
  BY DEF WithFlags
<1> HIDE DEF s, d
<1> QED BY <1>1, <1>2, <1>3

LEMMA ShareTypesKept == ASSUME TypeOK, [Next]_vars PROVE TypeOK'
<1>1. ASSUME NEW u \in Users,
             NEW pc \in {"idle", "checked", "joined", "flips"},
             NEW i \in Invites \cup {NoInvite}, Go(u, pc, i)
      PROVE accept' \in [Users -> Acceptance]
  BY <1>1 DEF TypeOK, Go, Acceptance
<1>2. ASSUME NEW u \in Users, accept' = [accept EXCEPT ![u] = Idle]
      PROVE accept' \in [Users -> Acceptance]
  BY <1>2 DEF TypeOK, Idle, Acceptance
<1>3. ASSUME NEW i \in Invites, Invite(i) \/ Revoke(i) PROVE TypeOK'
  BY <1>3 DEF TypeOK, Invite, Revoke, SetInvite
<1>4. ASSUME NEW u \in Users, NEW i \in Invites, Check(u, i) PROVE TypeOK'
  BY <1>1, <1>4 DEF TypeOK, Check, Acceptance
<1>5. ASSUME NEW u \in Users, Join(u) PROVE TypeOK'
  <2>1. CASE u \in members
    BY <1>2, <1>5, <2>1 DEF TypeOK, Join, Acceptance
  <2>2. CASE u \notin members
    <3>1. accept' \in [Users -> Acceptance]
      BY <1>1, <1>5, <2>2 DEF Join
    <3>2. missed' \in BOOLEAN
      <4>1. missed' = (missed \/ \E v \in Users : InJudgement(v))
        BY <1>5, <2>2 DEF Join
      <4> QED BY <4>1, Zenon
    <3>3. invite' \in [Invites -> {"none", "pending", "expired", "consumed"}]
      BY <1>5, <2>2 DEF TypeOK, Join
    <3>4. members' \subseteq Users /\ excused' \subseteq Users
      BY <1>5, <2>2 DEF TypeOK, Join
    <3> QED
      BY <1>5, <2>2, <3>1, <3>2, <3>3, <3>4 DEF TypeOK, Join, Acceptance
  <2> QED BY <2>1, <2>2
<1>6. ASSUME NEW u \in Users, Judge(u) PROVE TypeOK'
  BY <1>1, <1>2, <1>6 DEF TypeOK, Judge, Acceptance
<1>7. ASSUME NEW u \in Users, Flip(u) PROVE TypeOK'
  BY <1>2, <1>7, ProjectTypes DEF TypeOK, Flip, Acceptance
<1>8. ASSUME NEW u \in Users, Die(u) PROVE TypeOK'
  <2>1. missed' \in BOOLEAN
    <3>1. missed' = (missed \/ InJudgement(u))
      BY <1>8 DEF Die
    <3> QED BY <3>1, Zenon
  <2>2. deaths' \in Nat
    BY <1>8 DEF TypeOK, Die
  <2>3. accept' \in [Users -> Acceptance]
    BY <1>2, <1>8 DEF Die
  <2> QED BY <1>8, <2>1, <2>2, <2>3 DEF TypeOK, Die, Acceptance
<1>9. ASSUME NEW u \in Users, Remove(u) PROVE TypeOK'
  <2>1. task' \in [phase : {"work", "review", "final"}, work : Users \cup {NoUser},
                   review : Users \cup {NoUser}, held : BOOLEAN]
    BY <1>9 DEF TypeOK, Remove, Freed
  <2>2. chosen' \in BOOLEAN /\ missed' \in BOOLEAN
    <3>1. /\ chosen' = (chosen /\ members' # {})
          /\ missed' = (missed /\ members' # {})
      BY <1>9 DEF Remove
    <3> QED BY <3>1, Zenon
  <2>3. members' \subseteq Users /\ excused' \subseteq Users
    BY <1>9 DEF TypeOK, Remove
  <2> QED BY <1>9, <2>1, <2>2, <2>3 DEF TypeOK, Remove
<1>10. ASSUME NEW u \in Users, Admit(u) PROVE TypeOK'
  BY <1>10 DEF TypeOK, Admit
<1>11. ASSUME NEW u \in Users, Claim(u) PROVE TypeOK'
  BY <1>11 DEF TypeOK, Claim
<1>12. ASSUME NEW m \in Modes, PatchMode(m) PROVE TypeOK'
  <2>1. chosen' \in BOOLEAN
    <3>1. chosen' = (members # {})
      BY <1>12 DEF PatchMode, Govern
    <3> QED BY <3>1, Zenon
  <2> QED BY <1>12, <2>1, ProjectTypes DEF TypeOK, PatchMode, Govern
<1>13. ASSUME NEW solo \in {{}, {TRUE}, {FALSE}}, NEW distinct \in {{}, {TRUE}, {FALSE}},
              PatchFlags(solo, distinct)
       PROVE TypeOK'
  <2>1. chosen' \in BOOLEAN
    <3>1. chosen' = (members # {})
      BY <1>13 DEF PatchFlags, Govern
    <3> QED BY <3>1, Zenon
  <2> QED BY <1>13, <2>1, FlagTypes DEF TypeOK, PatchFlags, Govern
<1>14. ASSUME MoveTask PROVE TypeOK'
  BY <1>14 DEF TypeOK, MoveTask, TaskStep, Freed
<1>15. CASE UNCHANGED vars
  BY <1>15 DEF TypeOK, vars
<1> QED
  BY <1>3, <1>4, <1>5, <1>6, <1>7, <1>8, <1>9, <1>10, <1>11, <1>12, <1>13, <1>14, <1>15
     DEF Next

LEMMA ShareTypesInit == ASSUME Init PROVE TypeOK
<1>1. project \in [mode : Modes \cup {Unset}, solo : BOOLEAN, distinct : BOOLEAN]
  BY DEF Init
<1>2. accept \in [Users -> Acceptance]
  BY DEF Init, Idle, Acceptance
<1> QED BY <1>1, <1>2 DEF Init, TypeOK, Acceptance

-----------------------------------------------------------------------------
(* Governance.                                                             *)

\* Only four steps write the governance, each of them the mode and the flags.
LEMMA FlagsKept == ASSUME TypeOK, FlagsAgree, [Next]_vars PROVE FlagsAgree'
<1>1. ASSUME project' = project PROVE FlagsAgree'
  BY <1>1 DEF FlagsAgree
<1>2. ASSUME NEW m \in Modes, project' = OfMode(m) PROVE FlagsAgree'
  BY <1>2 DEF FlagsAgree, OfMode, Resolved, Derived
<1>3. ASSUME NEW solo \in {{}, {TRUE}, {FALSE}}, NEW distinct \in {{}, {TRUE}, {FALSE}},
             project' = WithFlags(solo, distinct)
      PROVE FlagsAgree'
  <2> DEFINE s == Value(solo, project.solo)
             d == Value(distinct, project.distinct)
  <2>0. project.solo \in BOOLEAN /\ project.distinct \in BOOLEAN
    BY DEF TypeOK
  <2>1. s \in BOOLEAN /\ d \in BOOLEAN
    BY <2>0, SentIsBoolean
  <2>2. project' = [mode |-> Derived(s, d), solo |-> s, distinct |-> d]
    BY <1>3 DEF WithFlags
  <2> HIDE DEF s, d
  <2>3. Derived(s, d) # Unset
    BY <2>1, ProjectTypes
  <2> QED BY <2>2, <2>3 DEF FlagsAgree, Resolved
<1> QED
  BY <1>1, <1>2, <1>3
     DEF Next, vars, Invite, Revoke, SetInvite, Check, Join, Judge, Flip, Die, Remove,
         Admit, Claim, PatchMode, PatchFlags, Govern, MoveTask, TaskStep

LEMMA FlagsInit == ASSUME Init PROVE FlagsAgree
<1>1. PICK solo, distinct \in BOOLEAN, mode \in Modes \cup {Unset} :
         /\ mode \in {Unset, Derived(solo, distinct)}
         /\ project = [mode |-> mode, solo |-> solo, distinct |-> distinct]
  BY DEF Init
<1>2. project.mode = mode /\ project.solo = solo /\ project.distinct = distinct
  BY <1>1
<1>3. mode \in {Unset, Derived(solo, distinct)}
  BY <1>1
<1> QED BY <1>2, <1>3 DEF FlagsAgree, Resolved

\* Readers of the mode and readers of the older flags apply the same governance
\* (lib/governance-mode.ts, PATCH of routes/projects.ts).
THEOREM OneGovernance == Spec => []FlagsAgree
<1>1. Init => TypeOK /\ FlagsAgree
  BY ShareTypesInit, FlagsInit
<1>2. TypeOK /\ FlagsAgree /\ [Next]_vars => (TypeOK /\ FlagsAgree)'
  BY ShareTypesKept, FlagsKept
<1> QED BY <1>1, <1>2, PTL DEF Spec

-----------------------------------------------------------------------------
(* First shares.                                                           *)

\* A step that leaves the governance, the members and the histories alone keeps
\* FlipToCome unless it ends the acceptance of the only member.
LEMMA FlipAwaited ==
    ASSUME FlipToCome, UNCHANGED <<project, members, chosen, missed>>,
           \A v \in Users : InJudgement(v) => InJudgement(v)' \/ members # {v}
    PROVE  FlipToCome'
BY DEF FlipToCome

LEMMA FlipKept ==
    ASSUME TypeOK, FlagsAgree, FlipToCome, [Next]_vars PROVE FlipToCome'
<1>1. ASSUME UNCHANGED <<project, members, accept, chosen, missed>> PROVE FlipToCome'
  BY <1>1, FlipAwaited DEF InJudgement
<1>2. ASSUME NEW u \in Users, NEW i \in Invites, Check(u, i) PROVE FlipToCome'
  <2>1. \A v \in Users : InJudgement(v) => InJudgement(v)'
    BY <1>2 DEF Check, At, Go, InJudgement, TypeOK
  <2> QED BY <1>2, <2>1, FlipAwaited DEF Check
<1>3. ASSUME NEW u \in Users, Join(u) PROVE FlipToCome'
  <2>1. CASE u \in members
    <3>1. \A v \in Users : InJudgement(v) => InJudgement(v)'
      BY <1>3, <2>1 DEF Join, At, InJudgement, TypeOK
    <3> QED BY <1>3, <2>1, <3>1, FlipAwaited DEF Join
  <2>2. CASE u \notin members
    <3>1. /\ members' = members \cup {u}
          /\ UNCHANGED <<project, chosen>>
          /\ Go(u, "joined", NoInvite)
      BY <1>3, <2>2 DEF Join
    <3>2. InJudgement(u)'
      BY <3>1 DEF Go, InJudgement, TypeOK
    <3>3. missed' = (missed \/ \E v \in Users : InJudgement(v))
      BY <1>3, <2>2 DEF Join
    <3>4. CASE members = {}
      BY <3>1, <3>2, <3>4 DEF FlipToCome
    <3>5. CASE members # {}
      BY <3>1, <3>3, <3>5 DEF FlipToCome
    <3> QED BY <3>4, <3>5
  <2> QED BY <2>1, <2>2
<1>4. ASSUME NEW u \in Users, Judge(u) PROVE FlipToCome'
  \* The only member counts one member and finds the older flag set.
  <2>1. CASE project.solo /\ members = {u}
    <3>1. Cardinality(members) = 1
      BY <2>1, FS_Singleton
    <3>2. Go(u, "flips", NoInvite)
      BY <1>4, <2>1, <3>1 DEF Judge, FirstShare
    <3>3. \A v \in Users : InJudgement(v) => InJudgement(v)'
      BY <3>2 DEF Go, InJudgement, TypeOK
    <3> QED BY <1>4, <3>3, FlipAwaited DEF Judge
  <2>2. CASE members # {u}
    <3>1. \A v \in Users : InJudgement(v) /\ v # u => InJudgement(v)'
      BY <1>4 DEF Judge, Go, InJudgement, TypeOK
    <3> QED BY <1>4, <2>2, <3>1, FlipAwaited DEF Judge
  <2>3. CASE ~project.solo
    <3>1. Resolved(project) # "AUTONOMOUS"
      BY <2>3 DEF FlagsAgree, Derived
    <3> QED BY <1>4, <3>1 DEF FlipToCome, Judge
  <2> QED BY <2>1, <2>2, <2>3
<1>5. ASSUME NEW u \in Users, Flip(u) PROVE FlipToCome'
  <2>1. project' = OfMode("REQUIRES_DISTINCT_REVIEWER")
    BY <1>5 DEF Flip
  <2>2. Resolved(project') # "AUTONOMOUS"
    BY <2>1 DEF Resolved, OfMode
  <2> QED BY <2>2 DEF FlipToCome
<1>6. ASSUME NEW u \in Users, Die(u) PROVE FlipToCome'
  <2>1. missed' = (missed \/ InJudgement(u))
    BY <1>6 DEF Die
  <2>2. CASE InJudgement(u)
    BY <2>1, <2>2 DEF FlipToCome
  <2>3. CASE ~InJudgement(u)
    <3>1. \A v \in Users : InJudgement(v) => InJudgement(v)'
      BY <1>6, <2>3 DEF Die, InJudgement, TypeOK
    <3>2. missed' = missed
      BY <2>1, <2>3 DEF TypeOK
    <3> QED BY <1>6, <3>1, <3>2, FlipAwaited DEF Die
  <2> QED BY <2>2, <2>3
<1>7. ASSUME NEW u \in Users, Remove(u) PROVE FlipToCome'
  \* The only member leaves nobody behind.
  <2>1. /\ u \in members /\ members' = members \ {u}
        /\ UNCHANGED <<project, accept>>
        /\ chosen' = (chosen /\ members' # {})
        /\ missed' = (missed /\ members' # {})
    BY <1>7 DEF Remove
  <2>2. CASE members' = {}
    BY <2>2 DEF FlipToCome
  <2>3. CASE members' # {} /\ (chosen \/ missed)
    BY <2>1, <2>3 DEF FlipToCome
  <2>4. CASE members' # {} /\ ~chosen /\ ~missed
    <3>1. \A v \in Users : members # {v}
      BY <2>1, <2>4
    <3>2. Resolved(project) # "AUTONOMOUS"
      BY <2>1, <2>4, <3>1 DEF FlipToCome
    <3> QED BY <2>1, <3>2 DEF FlipToCome
  <2> QED BY <2>2, <2>3, <2>4
<1>8. ASSUME chosen' = (members # {}), members' = members PROVE FlipToCome'
  BY <1>8 DEF FlipToCome
<1> QED
  BY <1>1, <1>2, <1>3, <1>4, <1>5, <1>6, <1>7, <1>8
     DEF Next, vars, Invite, Revoke, SetInvite, Admit, Claim, PatchMode, PatchFlags,
         Govern, MoveTask, TaskStep

\* Solo mode outlives the first share in no other way than by a death halfway or
\* by two acceptances that overlap (POST /invites/accept of routes/invites.ts).
THEOREM FlipsAreMissedByOverlap == Spec => []FlipMissedByOverlap
<1>1. Init => TypeOK /\ FlagsAgree /\ FlipToCome
  BY ShareTypesInit, FlagsInit DEF Init, FlipToCome
<1>2. TypeOK /\ FlagsAgree /\ FlipToCome /\ [Next]_vars
      => (TypeOK /\ FlagsAgree /\ FlipToCome)'
  BY ShareTypesKept, FlagsKept, FlipKept
<1>3. FlipToCome => FlipMissedByOverlap
  BY DEF FlipToCome, FlipMissedByOverlap, Settled, At, InJudgement
<1> QED BY <1>1, <1>2, <1>3, PTL DEF Spec

-----------------------------------------------------------------------------
(* Leaving.                                                                *)

LEMMA GoneKept ==
    ASSUME NoUser \notin Users, TypeOK, GoneHoldNothing, [Next]_vars
    PROVE  GoneHoldNothing'
<1>1. ASSUME UNCHANGED <<members, task, excused>> PROVE GoneHoldNothing'
  BY <1>1 DEF GoneHoldNothing
<1>2. ASSUME NEW u \in Users, Join(u) PROVE GoneHoldNothing'
  BY <1>2 DEF Join, GoneHoldNothing
<1>3. ASSUME NEW u \in Users, Remove(u) PROVE GoneHoldNothing'
  <2>1. CASE Selects(u)
    <3>1. task'.work = NoUser /\ task'.review = NoUser
      BY <1>3, <2>1 DEF Remove, Freed, TypeOK
    <3> QED BY <3>1 DEF GoneHoldNothing
  <2>2. CASE ~Selects(u)
    <3>1. task' = task /\ task.work # u /\ (task.review = u => u \in excused')
      BY <1>3, <2>2 DEF Remove, Selects, Live, GoneHoldNothing
    <3>2. members' = members \ {u} /\ excused \subseteq excused'
      BY <1>3 DEF Remove
    <3> QED BY <3>1, <3>2 DEF GoneHoldNothing
  <2> QED BY <2>1, <2>2
<1>4. ASSUME NEW u \in Users, Claim(u) PROVE GoneHoldNothing'
  <2>1. CASE task' = task
    BY <1>4, <2>1 DEF Claim, GoneHoldNothing
  <2>2. CASE task' # task
    <3>1. /\ task.phase # "final" /\ task'.phase = task.phase
          /\ task'.work \in {task.work, u} /\ task'.review \in {task.review, u}
      BY <1>4, <2>2 DEF Claim, TypeOK
    <3>2. /\ members' = members /\ excused \subseteq excused'
          /\ u \in members' \cup excused'
      BY <1>4, <2>2 DEF Claim
    <3> QED BY <3>1, <3>2 DEF GoneHoldNothing
  <2> QED BY <2>1, <2>2
<1>5. ASSUME MoveTask PROVE GoneHoldNothing'
  <2>1. /\ task'.work \in {task.work, NoUser}
        /\ task'.review \in {task.review, NoUser}
        /\ task'.phase = "final" => task'.work = NoUser /\ task'.review = NoUser
    BY <1>5 DEF MoveTask, TaskStep, Freed, TypeOK
  <2>2. UNCHANGED <<members, excused>>
    BY <1>5 DEF MoveTask, TaskStep
  <2> QED BY <2>1, <2>2 DEF GoneHoldNothing
<1> QED
  BY <1>1, <1>2, <1>3, <1>4, <1>5
     DEF Next, vars, Invite, Revoke, SetInvite, Check, Judge, Flip, Die, Admit,
         PatchMode, PatchFlags, Govern

\* Removing a member leaves them no claim that counts (DELETE of
\* /projects/:id/members/:userId in routes/invites.ts), whoever moves the task.
THEOREM LeaversAreReleased ==
    ASSUME NoUser \notin Users PROVE Spec => []LeaversHoldNothing
<1>1. ASSUME Init PROVE TypeOK /\ GoneHoldNothing
  <2>1. task.work = NoUser /\ task.review = NoUser
    BY <1>1 DEF Init
  <2> QED BY <1>1, <2>1, ShareTypesInit DEF GoneHoldNothing
<1>2. TypeOK /\ GoneHoldNothing /\ [Next]_vars => (TypeOK /\ GoneHoldNothing)'
  BY ShareTypesKept, GoneKept
<1>3. GoneHoldNothing => LeaversHoldNothing
  BY DEF GoneHoldNothing, LeaversHoldNothing, Live
<1> QED BY <1>1, <1>2, <1>3, PTL DEF Spec

-----------------------------------------------------------------------------
(***************************************************************************)
(* Dependencies.                                                           *)
(***************************************************************************)

\* The requests whose check still speaks of the relation as it is.
Current(r) == greq[r].pc \in {"walk", "insert"} /\ ~greq[r].overtaken

\* What such a request has visited contains no blocker, holds the task or still
\* has it in its queue, and whoever waits for a visited task is visited or queued.
Explored(r) ==
    /\ greq[r].pc = "insert" => greq[r].queue = {}
    /\ greq[r].task \in greq[r].visited \cup greq[r].queue
    /\ greq[r].visited \cap greq[r].blockers = {}
    /\ \A v \in greq[r].visited :
          Graph!Downstream(v) \subseteq greq[r].visited \cup greq[r].queue

\* A request that creates a task has not been given its id yet.
GraphInv ==
    /\ Graph!TypeOK
    /\ \A r \in Requests : Current(r) => Explored(r)
    /\ CyclesAreRaced

-----------------------------------------------------------------------------

CheckSlot == [pc : {"idle", "walk", "insert", "create"}, task : Tasks \cup {None},
         blockers : SUBSET Tasks, queue : SUBSET Tasks,
         visited : SUBSET Tasks, overtaken : BOOLEAN]

LEMMA GraphTypesKept == ASSUME Graph!TypeOK, [Graph!Next]_(Graph!vars) PROVE Graph!TypeOK'
<1> DEFINE T(q) == q \in [Requests -> CheckSlot]
<1>1. /\ exists \subseteq Tasks /\ blockedBy \subseteq exists \X exists
      /\ T(greq) /\ raced \in BOOLEAN
  BY DEF Graph!TypeOK, CheckSlot
<1>2. SUFFICES /\ exists' \subseteq Tasks /\ blockedBy' \subseteq exists' \X exists'
               /\ T(greq') /\ raced' \in BOOLEAN
  BY DEF Graph!TypeOK, CheckSlot
<1>3. Graph!Idle \in CheckSlot
  BY DEF Graph!Idle, CheckSlot
<1>4. ASSUME NEW r \in Requests, Graph!Reply(r) PROVE T(greq')
  BY <1>1, <1>3, <1>4 DEF Graph!Reply
<1>5. ASSUME NEW r \in Requests, NEW E, Graph!Write(r, E)
      PROVE T(greq') /\ raced' \in BOOLEAN
  <2>1. \A q \in Requests : [greq[q] EXCEPT !.overtaken = TRUE] \in CheckSlot
    BY <1>1 DEF CheckSlot
  <2>2. greq[r].overtaken \in BOOLEAN
    BY <1>1 DEF CheckSlot
  <2> QED BY <1>1, <1>3, <1>5, <2>1, <2>2 DEF Graph!Write
<1>6. ASSUME NEW r \in Requests, NEW t \in Tasks, NEW b \in Tasks, Graph!Post(r, t, b)
      PROVE T(greq')
  <2>1. [Graph!Idle EXCEPT !.pc = "walk", !.task = t, !.blockers = {b}, !.queue = {t}]
        \in CheckSlot
    BY DEF Graph!Idle, CheckSlot
  <2> QED BY <1>1, <1>6, <2>1 DEF Graph!Post
<1>7. ASSUME NEW r \in Requests, Graph!Walk(r) PROVE T(greq')
  <2>1. PICK t \in greq[r].queue :
           IF t \in greq[r].blockers THEN Graph!Reply(r)
           ELSE LET seen == greq[r].visited \cup {t}
                    rest == (greq[r].queue \cup Graph!Downstream(t)) \ seen
                IN greq' = [greq EXCEPT ![r].queue = rest, ![r].visited = seen,
                                      ![r].pc = IF rest = {} THEN "insert" ELSE "walk"]
    BY <1>7 DEF Graph!Walk
  <2>2. CASE t \in greq[r].blockers
    BY <1>4, <2>1, <2>2
  <2>3. CASE t \notin greq[r].blockers
    <3> DEFINE seen == greq[r].visited \cup {t}
               rest == (greq[r].queue \cup Graph!Downstream(t)) \ seen
               q == [greq[r] EXCEPT !.queue = rest, !.visited = seen,
                                   !.pc = IF rest = {} THEN "insert" ELSE "walk"]
    <3>1. seen \in SUBSET Tasks /\ rest \in SUBSET Tasks
      BY <1>1 DEF Graph!Downstream, CheckSlot
    <3>2. greq[r] \in CheckSlot
      BY <1>1
    <3>3. q \in CheckSlot
      <4> HIDE DEF seen, rest
      <4> QED BY <3>1, <3>2 DEF CheckSlot
    <3>4. greq' = [greq EXCEPT ![r] = q]
      BY <1>1, <2>1, <2>3
    <3> HIDE DEF q
    <3> QED BY <1>1, <3>3, <3>4
  <2> QED BY <2>2, <2>3
<1>8. ASSUME NEW r \in Requests, NEW bs \in SUBSET Tasks, Graph!CreateRead(r, bs)
      PROVE T(greq')
  <2>1. [Graph!Idle EXCEPT !.pc = "create", !.blockers = bs] \in CheckSlot
    BY DEF Graph!Idle, CheckSlot
  <2> QED BY <1>1, <1>8, <2>1 DEF Graph!CreateRead
<1>9. ASSUME NEW t \in Tasks, Graph!DeleteTask(t)
      PROVE blockedBy' \subseteq exists' \X exists'
  <2> SUFFICES ASSUME NEW e \in blockedBy' PROVE e \in exists' \X exists'
    OBVIOUS
  <2>1. PICK c \in exists, d \in exists : e = <<c, d>> /\ e[1] # t /\ e[2] # t
    BY <1>1, <1>9 DEF Graph!DeleteTask
  <2>2. c # t /\ d # t
    BY <2>1
  <2> QED BY <1>9, <2>1, <2>2 DEF Graph!DeleteTask
<1> HIDE DEF T
<1>10. ASSUME NEW r \in Requests, Graph!Insert(r)
       PROVE /\ exists' \subseteq Tasks /\ blockedBy' \subseteq exists' \X exists'
             /\ T(greq') /\ raced' \in BOOLEAN
  <2> DEFINE t == greq[r].task
             bs == greq[r].blockers
  <2>1. CASE {t} \cup bs \subseteq exists
    <3>1. Graph!Write(r, {t} \X bs) /\ UNCHANGED exists
      BY <1>10, <2>1 DEF Graph!Insert
    <3>2. blockedBy' = blockedBy \cup ({t} \X bs)
      BY <3>1 DEF Graph!Write
    <3> HIDE DEF t, bs
    <3>3. blockedBy' \subseteq exists \X exists
      BY <1>1, <2>1, <3>2
    <3> QED BY <1>1, <1>5, <3>1, <3>3
  <2>2. CASE ~({t} \cup bs \subseteq exists)
    <3>1. Graph!Reply(r) /\ UNCHANGED <<exists, blockedBy, raced>>
      BY <1>10, <2>2 DEF Graph!Insert
    <3> QED BY <1>1, <1>4, <3>1
  <2> QED BY <2>1, <2>2
<1>11. ASSUME NEW r \in Requests, NEW t \in Tasks, Graph!CreateWrite(r, t)
       PROVE /\ exists' \subseteq Tasks /\ blockedBy' \subseteq exists' \X exists'
             /\ T(greq') /\ raced' \in BOOLEAN
  <2> DEFINE bs == greq[r].blockers
  <2>1. CASE bs \subseteq exists
    <3>1. Graph!Write(r, {t} \X bs) /\ exists' = exists \cup {t}
      BY <1>11, <2>1 DEF Graph!CreateWrite
    <3>2. blockedBy' = blockedBy \cup ({t} \X bs)
      BY <3>1 DEF Graph!Write
    <3> HIDE DEF bs
    <3>3. blockedBy' \subseteq exists' \X exists'
      BY <1>1, <2>1, <3>1, <3>2
    <3> QED BY <1>1, <1>5, <3>1, <3>3
  <2>2. CASE ~(bs \subseteq exists)
    <3>1. Graph!Reply(r) /\ UNCHANGED <<exists, blockedBy, raced>>
      BY <1>11, <2>2 DEF Graph!CreateWrite
    <3> QED BY <1>1, <1>4, <3>1
  <2> QED BY <2>1, <2>2
<1>12. CASE UNCHANGED Graph!vars
  BY <1>1, <1>12 DEF Graph!vars
<1>13. ASSUME NEW t \in Tasks, NEW b \in Tasks, Graph!Disconnect(t, b)
       PROVE blockedBy' \subseteq exists' \X exists'
  BY <1>1, <1>13 DEF Graph!Disconnect
<1> QED
  BY <1>1, <1>6, <1>7, <1>8, <1>9, <1>10, <1>11, <1>12, <1>13
     DEF Graph!Next, Graph!Post, Graph!Walk, Graph!CreateRead, Graph!Disconnect,
         Graph!DeleteTask

-----------------------------------------------------------------------------
(* Cycles.                                                                 *)

CyclicIn(N, E) ==
    \E S \in (SUBSET N) \ {{}} : \A t \in S : \E b \in S : <<t, b>> \in E

\* A relation on fewer tasks, or with fewer dependencies, has no new cycle.
LEMMA FewerEdges ==
    ASSUME NEW N, NEW E, NEW M \in SUBSET N, NEW F \in SUBSET E, CyclicIn(M, F)
    PROVE  CyclicIn(N, E)
BY DEF CyclicIn

\* A dependency of t on b closes no cycle when a set holds t, not b, and all who
\* wait for one of its tasks.
LEMMA ClosedCut ==
    ASSUME NEW N, NEW E \in SUBSET (N \X N), NEW t \in N, NEW B \in SUBSET N, NEW V,
           t \in V, V \cap B = {},
           \A v \in V, d \in N : <<d, v>> \in E => d \in V,
           CyclicIn(N, E \cup ({t} \X B))
    PROVE  CyclicIn(N, E)
<1>1. PICK S \in (SUBSET N) \ {{}} :
         \A s \in S : \E b \in S : <<s, b>> \in E \cup ({t} \X B)
  BY DEF CyclicIn
<1>2. CASE S \subseteq V
  <2>1. \A s \in S : \E b \in S : <<s, b>> \in E
    <3> SUFFICES ASSUME NEW s \in S PROVE \E b \in S : <<s, b>> \in E
      OBVIOUS
    <3>1. PICK b \in S : <<s, b>> \in E \cup ({t} \X B)
      BY <1>1
    <3>2. b \notin B
      BY <1>2
    <3> QED BY <3>1, <3>2
  <2> QED BY <2>1 DEF CyclicIn
<1>3. CASE ~(S \subseteq V)
  <2> DEFINE R == S \ V
  <2>1. R \in (SUBSET N) \ {{}}
    BY <1>3
  <2>2. \A s \in R : \E b \in R : <<s, b>> \in E
    <3> SUFFICES ASSUME NEW s \in R PROVE \E b \in R : <<s, b>> \in E
      OBVIOUS
    <3>1. PICK b \in S : <<s, b>> \in E \cup ({t} \X B)
      BY <1>1
    <3>2. <<s, b>> \in E
      BY <3>1
    <3>3. b \notin V
      BY <3>2
    <3> QED BY <3>2, <3>3
  <2> HIDE DEF R
  <2> QED BY <2>1, <2>2 DEF CyclicIn
<1> QED BY <1>2, <1>3

\* Nor do the dependencies of a task that nobody knows yet.
LEMMA NewTask ==
    ASSUME NEW N, NEW E \in SUBSET (N \X N), NEW t, t \notin N, NEW B \in SUBSET N,
           CyclicIn(N \cup {t}, E \cup ({t} \X B))
    PROVE  CyclicIn(N, E)
<1>1. PICK S \in (SUBSET (N \cup {t})) \ {{}} :
         \A s \in S : \E b \in S : <<s, b>> \in E \cup ({t} \X B)
  BY DEF CyclicIn
<1> DEFINE R == S \ {t}
<1>2. \A s \in S : \E b \in R : <<s, b>> \in E \cup ({t} \X B)
  <2> SUFFICES ASSUME NEW s \in S PROVE \E b \in R : <<s, b>> \in E \cup ({t} \X B)
    OBVIOUS
  <2>1. PICK b \in S : <<s, b>> \in E \cup ({t} \X B)
    BY <1>1
  <2>2. b \in N
    BY <2>1
  <2> QED BY <2>1, <2>2
<1>3. R \in (SUBSET N) \ {{}}
  BY <1>1, <1>2
<1>4. \A s \in R : \E b \in R : <<s, b>> \in E
  <2> SUFFICES ASSUME NEW s \in R PROVE \E b \in R : <<s, b>> \in E
    OBVIOUS
  <2>1. PICK b \in R : <<s, b>> \in E \cup ({t} \X B)
    BY <1>2
  <2> QED BY <2>1
<1> HIDE DEF R
<1> QED BY <1>3, <1>4 DEF CyclicIn

LEMMA CyclicIs == Graph!Cyclic <=> CyclicIn(exists, blockedBy)
BY DEF Graph!Cyclic, CyclicIn

-----------------------------------------------------------------------------
(* The walk.                                                               *)

\* A request that does not move keeps what it has explored while nobody new
\* waits for anything.
LEMMA StillExplored ==
    ASSUME NEW q \in Requests, greq'[q] = greq[q], Explored(q),
           \A d, v : d \in exists' /\ <<d, v>> \in blockedBy'
                     => d \in exists /\ <<d, v>> \in blockedBy
    PROVE  Explored(q)'
<1>1. \A v : Graph!Downstream(v)' \subseteq Graph!Downstream(v)
  BY DEF Graph!Downstream
<1> QED BY <1>1 DEF Explored

\* One turn of the walk.
LEMMA WalkExplores ==
    ASSUME Graph!TypeOK, NEW r \in Requests, Graph!Walk(r), Current(r)',
           Current(r) => Explored(r)
    PROVE  Explored(r)'
<1>1. PICK t \in greq[r].queue :
         IF t \in greq[r].blockers THEN Graph!Reply(r)
         ELSE LET seen == greq[r].visited \cup {t}
                  rest == (greq[r].queue \cup Graph!Downstream(t)) \ seen
              IN greq' = [greq EXCEPT ![r].queue = rest, ![r].visited = seen,
                                    ![r].pc = IF rest = {} THEN "insert" ELSE "walk"]
  BY DEF Graph!Walk
<1>2. t \notin greq[r].blockers
  <2>1. Graph!Reply(r) => greq'[r].pc = "idle"
    BY DEF Graph!Reply, Graph!Idle, Graph!TypeOK
  <2> QED BY <1>1, <2>1 DEF Current
<1> DEFINE seen == greq[r].visited \cup {t}
           rest == (greq[r].queue \cup Graph!Downstream(t)) \ seen
<1>3. greq' = [greq EXCEPT ![r].queue = rest, ![r].visited = seen,
                         ![r].pc = IF rest = {} THEN "insert" ELSE "walk"]
  BY <1>1, <1>2
<1>4. greq[r] \in CheckSlot /\ greq \in [Requests -> CheckSlot]
  BY DEF Graph!TypeOK, CheckSlot
<1>5. /\ greq'[r].queue = rest /\ greq'[r].visited = seen
      /\ greq'[r].pc = IF rest = {} THEN "insert" ELSE "walk"
      /\ greq'[r].task = greq[r].task /\ greq'[r].blockers = greq[r].blockers
      /\ greq'[r].overtaken = greq[r].overtaken
  <2> HIDE DEF rest, seen
  <2> QED BY <1>3, <1>4 DEF CheckSlot
<1>6. Explored(r)
  BY <1>5 DEF Current, Graph!Walk
<1>7. \A v : Graph!Downstream(v)' = Graph!Downstream(v)
  BY DEF Graph!Walk, Graph!Downstream
<1>8. \A v \in seen : Graph!Downstream(v) \subseteq seen \cup rest
  BY <1>6 DEF Explored
<1>9. greq[r].task \in seen \cup rest /\ seen \cap greq[r].blockers = {}
  BY <1>2, <1>6 DEF Explored
<1>10. greq'[r].pc = "insert" => rest = {}
  BY <1>5
<1> HIDE DEF seen, rest
<1> QED BY <1>5, <1>7, <1>8, <1>9, <1>10 DEF Explored

\* A write of dependencies overtakes everybody else; a write of none changes
\* nothing they look at.
LEMMA WriteOvertakes ==
    ASSUME Graph!TypeOK, NEW r \in Requests, NEW E, Graph!Write(r, E),
           NEW q \in Requests, Current(q)'
    PROVE  q # r /\ E = {} /\ greq'[q] = greq[q]
<1>1. greq'[q] = IF q = r THEN Graph!Idle
                ELSE IF greq[q] = Graph!Idle \/ E = {} THEN greq[q]
                ELSE [greq[q] EXCEPT !.overtaken = TRUE]
  BY DEF Graph!Write
<1>2. Graph!Idle.pc = "idle"
  BY DEF Graph!Idle
<1>3. [greq[q] EXCEPT !.overtaken = TRUE].overtaken = TRUE
  <2>1. greq[q] \in CheckSlot
    BY DEF Graph!TypeOK, CheckSlot
  <2> QED BY <2>1 DEF CheckSlot
<1> QED BY <1>1, <1>2, <1>3 DEF Current

LEMMA ExploredKept ==
    ASSUME Graph!TypeOK, \A q \in Requests : Current(q) => Explored(q),
           [Graph!Next]_(Graph!vars),
           NEW q \in Requests, Current(q)'
    PROVE  Explored(q)'
<1>0. greq \in [Requests -> CheckSlot] /\ blockedBy \subseteq exists \X exists
  BY DEF Graph!TypeOK, CheckSlot
<1>1. ASSUME greq'[q] = greq[q] PROVE Explored(q)
  BY <1>1 DEF Current
<1>2. ASSUME NEW r \in Requests, Graph!Reply(r) PROVE q # r /\ greq'[q] = greq[q]
  BY <1>0, <1>2 DEF Graph!Reply, Graph!Idle, Current
<1>3. ASSUME NEW r \in Requests, NEW t \in Tasks, NEW b \in Tasks, Graph!Post(r, t, b)
      PROVE Explored(q)'
  <2>1. CASE q = r
    <3>1. greq'[q] = [Graph!Idle EXCEPT !.pc = "walk", !.task = t, !.blockers = {b},
                                         !.queue = {t}]
      BY <1>0, <1>3, <2>1 DEF Graph!Post
    <3>2. /\ greq'[q].pc = "walk" /\ greq'[q].visited = {}
          /\ greq'[q].task = t /\ greq'[q].queue = {t}
      BY <3>1 DEF Graph!Idle
    <3> QED BY <3>2 DEF Explored
  <2>2. CASE q # r
    <3>1. greq'[q] = greq[q] /\ UNCHANGED <<exists, blockedBy>>
      BY <1>0, <1>3, <2>2 DEF Graph!Post
    <3> QED BY <1>1, <3>1, StillExplored
  <2> QED BY <2>1, <2>2
<1>4. ASSUME NEW r \in Requests, Graph!Walk(r) PROVE Explored(q)'
  <2>1. CASE q = r
    BY <1>4, <2>1, WalkExplores
  <2>2. CASE q # r
    <3>1. greq'[q] = greq[q] /\ UNCHANGED <<exists, blockedBy>>
      BY <1>0, <1>4, <2>2 DEF Graph!Walk, Graph!Reply
    <3> QED BY <1>1, <3>1, StillExplored
  <2> QED BY <2>1, <2>2
<1>5. ASSUME NEW r \in Requests, Graph!Insert(r) PROVE Explored(q)'
  <2>1. CASE {greq[r].task} \cup greq[r].blockers \subseteq exists
    <3>1. Graph!Write(r, {greq[r].task} \X greq[r].blockers) /\ UNCHANGED exists
      BY <1>5, <2>1 DEF Graph!Insert
    <3>2. {greq[r].task} \X greq[r].blockers = {} /\ greq'[q] = greq[q]
      BY <3>1, WriteOvertakes
    <3>3. blockedBy' = blockedBy
      BY <3>1, <3>2 DEF Graph!Write
    <3> QED BY <1>1, <3>1, <3>2, <3>3, StillExplored
  <2>2. CASE ~({greq[r].task} \cup greq[r].blockers \subseteq exists)
    <3>1. Graph!Reply(r) /\ UNCHANGED <<exists, blockedBy>>
      BY <1>5, <2>2 DEF Graph!Insert
    <3> QED BY <1>1, <1>2, <3>1, StillExplored
  <2> QED BY <2>1, <2>2
<1>6. ASSUME NEW t \in Tasks, NEW b \in Tasks, Graph!Disconnect(t, b) PROVE Explored(q)'
  <2>1. greq'[q] = greq[q] /\ exists' = exists /\ blockedBy' \subseteq blockedBy
    BY <1>6 DEF Graph!Disconnect
  <2> QED BY <1>1, <2>1, StillExplored
<1>7. ASSUME NEW r \in Requests, NEW bs \in SUBSET Tasks, Graph!CreateRead(r, bs)
      PROVE Explored(q)'
  <2>1. CASE q = r
    <3>1. greq'[q].pc = "create"
      BY <1>0, <1>7, <2>1 DEF Graph!CreateRead, Graph!Idle
    <3> QED BY <3>1 DEF Current
  <2>2. CASE q # r
    <3>1. greq'[q] = greq[q] /\ UNCHANGED <<exists, blockedBy>>
      BY <1>0, <1>7, <2>2 DEF Graph!CreateRead
    <3> QED BY <1>1, <3>1, StillExplored
  <2> QED BY <2>1, <2>2
<1>8. ASSUME NEW r \in Requests, NEW t \in Tasks, Graph!CreateWrite(r, t) PROVE Explored(q)'
  <2>1. CASE greq[r].blockers \subseteq exists
    <3>1. Graph!Write(r, {t} \X greq[r].blockers)
      BY <1>8, <2>1 DEF Graph!CreateWrite
    <3>2. {t} \X greq[r].blockers = {} /\ greq'[q] = greq[q]
      BY <3>1, WriteOvertakes
    <3>3. blockedBy' = blockedBy
      BY <3>1, <3>2 DEF Graph!Write
    <3>4. \A d, v : <<d, v>> \in blockedBy => d \in exists
      BY <1>0
    <3> QED BY <1>1, <3>2, <3>3, <3>4, StillExplored
  <2>2. CASE ~(greq[r].blockers \subseteq exists)
    <3>1. Graph!Reply(r) /\ UNCHANGED <<exists, blockedBy>>
      BY <1>8, <2>2 DEF Graph!CreateWrite
    <3> QED BY <1>1, <1>2, <3>1, StillExplored
  <2> QED BY <2>1, <2>2
<1>9. ASSUME NEW t \in Tasks, Graph!DeleteTask(t) PROVE Explored(q)'
  <2>1. greq'[q] = greq[q] /\ exists' \subseteq exists /\ blockedBy' \subseteq blockedBy
    BY <1>9 DEF Graph!DeleteTask
  <2> QED BY <1>1, <2>1, StillExplored
<1>10. CASE UNCHANGED Graph!vars
  <2>1. greq'[q] = greq[q] /\ UNCHANGED <<exists, blockedBy>>
    BY <1>10 DEF Graph!vars
  <2> QED BY <1>1, <2>1, StillExplored
<1> QED
  BY <1>3, <1>4, <1>5, <1>6, <1>7, <1>8, <1>9, <1>10 DEF Graph!Next

-----------------------------------------------------------------------------
(* The theorem.                                                            *)

\* A request that inserts, and was not overtaken, closes no cycle.
LEMMA InsertCloses ==
    ASSUME Graph!TypeOK, NEW r \in Requests, Graph!Insert(r), Current(r), Explored(r),
           ~Graph!Cyclic
    PROVE  ~Graph!Cyclic'
<1>1. CASE {greq[r].task} \cup greq[r].blockers \subseteq exists
  <2> DEFINE t == greq[r].task
             B == greq[r].blockers
             V == greq[r].visited
  <2>1. /\ t \in exists /\ B \in SUBSET exists /\ blockedBy \in SUBSET (exists \X exists)
    BY <1>1 DEF Graph!TypeOK
  <2>2. t \in V /\ V \cap B = {} /\ \A v \in V : Graph!Downstream(v) \subseteq V
    BY DEF Explored, Graph!Insert
  <2>3. \A v \in V, d \in exists : <<d, v>> \in blockedBy => d \in V
    BY <2>2 DEF Graph!Downstream
  <2>4. exists' = exists /\ blockedBy' = blockedBy \cup ({t} \X B)
    BY <1>1 DEF Graph!Insert, Graph!Write
  <2> HIDE DEF t, B, V
  <2>5. ~CyclicIn(exists, blockedBy \cup ({t} \X B))
    BY <2>1, <2>2, <2>3, ClosedCut, CyclicIs
  <2> QED BY <2>4, <2>5 DEF Graph!Cyclic, CyclicIn
<1>2. CASE ~({greq[r].task} \cup greq[r].blockers \subseteq exists)
  <2>1. UNCHANGED <<exists, blockedBy>>
    BY <1>2 DEF Graph!Insert
  <2> QED BY <2>1 DEF Graph!Cyclic
<1> QED BY <1>1, <1>2

LEMMA CreateCloses ==
    ASSUME Graph!TypeOK, NEW r \in Requests, NEW t \in Tasks, Graph!CreateWrite(r, t),
           ~Graph!Cyclic
    PROVE  ~Graph!Cyclic'
<1>1. CASE greq[r].blockers \subseteq exists
  <2> DEFINE B == greq[r].blockers
  <2>1. /\ t \notin exists /\ B \in SUBSET exists
        /\ blockedBy \in SUBSET (exists \X exists)
    BY <1>1 DEF Graph!TypeOK, Graph!CreateWrite
  <2>2. exists' = exists \cup {t} /\ blockedBy' = blockedBy \cup ({t} \X B)
    BY <1>1 DEF Graph!CreateWrite, Graph!Write
  <2> HIDE DEF B
  <2>3. ~CyclicIn(exists \cup {t}, blockedBy \cup ({t} \X B))
    BY <2>1, NewTask, CyclicIs
  <2> QED BY <2>2, <2>3 DEF Graph!Cyclic, CyclicIn
<1>2. CASE ~(greq[r].blockers \subseteq exists)
  <2>1. UNCHANGED <<exists, blockedBy>>
    BY <1>2 DEF Graph!CreateWrite
  <2> QED BY <2>1 DEF Graph!Cyclic
<1> QED BY <1>1, <1>2

\* Without a race the dependencies stay free of cycles.
LEMMA AcyclicKept ==
    ASSUME Graph!TypeOK, \A q \in Requests : Current(q) => Explored(q),
           CyclesAreRaced, [Graph!Next]_(Graph!vars), ~raced'
    PROVE  ~Graph!Cyclic'
<1>1. ASSUME UNCHANGED <<exists, blockedBy, raced>> PROVE ~Graph!Cyclic'
  BY <1>1 DEF Graph!Cyclic, CyclesAreRaced, Graph!CyclesAreRaced
<1>2. ASSUME NEW r \in Requests, NEW E, Graph!Write(r, E) PROVE ~raced /\ ~greq[r].overtaken
  BY <1>2 DEF Graph!Write, Graph!TypeOK
<1>3. ASSUME exists' \subseteq exists, blockedBy' \subseteq blockedBy, ~raced
      PROVE ~Graph!Cyclic'
  <2>1. ~CyclicIn(exists, blockedBy)
    BY <1>3, CyclicIs DEF CyclesAreRaced, Graph!CyclesAreRaced
  <2>2. ~CyclicIn(exists', blockedBy')
    BY <1>3, <2>1, FewerEdges
  <2> QED BY <2>2 DEF Graph!Cyclic, CyclicIn
<1>4. ASSUME NEW r \in Requests, Graph!Insert(r) PROVE ~Graph!Cyclic'
  <2>1. CASE {greq[r].task} \cup greq[r].blockers \subseteq exists
    <3>1. ~raced /\ ~greq[r].overtaken
      BY <1>2, <1>4, <2>1 DEF Graph!Insert
    <3>2. Current(r)
      BY <1>4, <3>1 DEF Graph!Insert, Current
    <3> QED BY <1>4, <3>1, <3>2, InsertCloses DEF CyclesAreRaced, Graph!CyclesAreRaced
  <2>2. CASE ~({greq[r].task} \cup greq[r].blockers \subseteq exists)
    <3>1. UNCHANGED <<exists, blockedBy, raced>>
      BY <1>4, <2>2 DEF Graph!Insert
    <3> QED BY <1>1, <3>1
  <2> QED BY <2>1, <2>2
<1>5. ASSUME NEW r \in Requests, NEW t \in Tasks, Graph!CreateWrite(r, t)
      PROVE ~Graph!Cyclic'
  <2>1. CASE greq[r].blockers \subseteq exists
    <3>1. ~raced
      BY <1>2, <1>5, <2>1 DEF Graph!CreateWrite
    <3> QED BY <1>5, <3>1, CreateCloses DEF CyclesAreRaced, Graph!CyclesAreRaced
  <2>2. CASE ~(greq[r].blockers \subseteq exists)
    <3>1. UNCHANGED <<exists, blockedBy, raced>>
      BY <1>5, <2>2 DEF Graph!CreateWrite
    <3> QED BY <1>1, <3>1
  <2> QED BY <2>1, <2>2
<1>6. ASSUME NEW r \in Requests, Graph!Walk(r) PROVE ~Graph!Cyclic'
  BY <1>1, <1>6 DEF Graph!Walk
<1>7. ASSUME NEW t \in Tasks, NEW b \in Tasks, Graph!Disconnect(t, b) PROVE ~Graph!Cyclic'
  BY <1>3, <1>7 DEF Graph!Disconnect
<1>8. ASSUME NEW t \in Tasks, Graph!DeleteTask(t) PROVE ~Graph!Cyclic'
  BY <1>3, <1>8 DEF Graph!DeleteTask
<1> QED
  BY <1>1, <1>4, <1>5, <1>6, <1>7, <1>8
     DEF Graph!Next, Graph!Post, Graph!CreateRead, Graph!vars

\* Tasks come to wait for each other in a ring only through two requests that
\* decided at the same time (wouldCreateCycle and the update after it).
THEOREM CyclesNeedARace == Graph!Spec => []CyclesAreRaced
<1>1. Graph!Init => GraphInv
  <2> SUFFICES ASSUME Graph!Init PROVE GraphInv
    OBVIOUS
  <2>1. Graph!TypeOK
    BY DEF Graph!Init, Graph!TypeOK, Graph!Idle
  <2>2. \A r \in Requests : ~Current(r)
    BY DEF Graph!Init, Current, Graph!Idle
  <2>3. ~Graph!Cyclic
    BY DEF Graph!Init, Graph!Cyclic
  <2> QED BY <2>1, <2>2, <2>3 DEF GraphInv, CyclesAreRaced, Graph!CyclesAreRaced
<1>2. GraphInv /\ [Graph!Next]_(Graph!vars) => GraphInv'
  <2> SUFFICES ASSUME GraphInv, [Graph!Next]_(Graph!vars) PROVE GraphInv'
    OBVIOUS
  <2>1. Graph!TypeOK'
    BY GraphTypesKept DEF GraphInv
  <2>2. \A r \in Requests : Current(r)' => Explored(r)'
    BY ExploredKept DEF GraphInv
  <2>3. ~raced' => ~Graph!Cyclic'
    BY AcyclicKept DEF GraphInv
  <2> QED BY <2>1, <2>2, <2>3 DEF GraphInv, CyclesAreRaced, Graph!CyclesAreRaced
<1>3. GraphInv => CyclesAreRaced
  BY DEF GraphInv
<1> QED BY <1>1, <1>2, <1>3, PTL DEF Graph!Spec

-----------------------------------------------------------------------------
(***************************************************************************)
(* Files.                                                                  *)
(***************************************************************************)

Uploads == Files!Rows({"upload"})

FileSlot == [pc : {"idle", "count", "sum", "store", "create", "deleteRow", "deleteTask",
                   "unlink"},
             row : Files!Row \cup {None}, ids : SUBSET Items]

\* A request in the course of its steps: an upload has an id once its file is
\* written, what it found to delete is one row.
Fitting(s) ==
    /\ s.pc \in {"count", "sum", "store", "create"} => s.row \in Files!Row
    /\ s.pc \in {"idle", "count", "sum", "store"} => s.ids = {}
    /\ s.pc = "store" => s.row.kind = "upload"
    /\ s.pc = "create" => (s.ids = {} <=> s.row.kind # "upload")
    /\ s.pc \in {"create", "deleteRow"} => \A i, j \in s.ids : i = j

\* A file whose row is still to come is known to its upload alone.
Owns(r, i) == /\ i \in files /\ frows[i] = None
              /\ \A q \in Requests \ {r} : i \notin freq[q].ids
OwnFile == \A r \in Requests : freq[r].pc = "create" => \A i \in freq[r].ids : Owns(r, i)

\* What may be out of step.
Losses == {"file", "row"}

\* No row names a file that a request is about to remove, unless the answer to its
\* write was lost.
Doomed ==
    "row" \notin disturbed =>
       \A r \in Requests : freq[r].pc = "unlink" => \A i \in freq[r].ids : frows[i] = None
Named == "row" \notin disturbed => Uploads \subseteq files

\* A running request will name the file, or remove it.
SeenTo(i) == \E r \in Requests : freq[r].pc \in {"create", "unlink"} /\ i \in freq[r].ids

\* Nothing was lost: a file has a row or a request that sees to it, and whoever
\* deletes the task has all its files on the list.
NoneLost ==
    "file" \notin disturbed =>
       /\ \A i \in files : i \in Uploads \/ SeenTo(i)
       /\ \A r \in Requests : freq[r].pc = "deleteTask" => Uploads \subseteq freq[r].ids

FilesInv == /\ Files!TypeOK /\ (\A r \in Requests : Fitting(freq[r])) /\ OwnFile /\ Doomed
            /\ Named /\ NoneLost

LEMMA FileTypes ==
    Files!TypeOK <=> /\ ftask \in {"there", "reserved", "deleted"}
                     /\ frows \in [Items -> Files!Row \cup {None}] /\ files \subseteq Items
                     /\ freq \in [Requests -> FileSlot] /\ disturbed \in SUBSET Losses
BY DEF Files!TypeOK, FileSlot, Losses

LEMMA FileTypesAfter ==
    ASSUME ftask' \in {"there", "reserved", "deleted"},
           frows' \in [Items -> Files!Row \cup {None}], files' \subseteq Items,
           freq' \in [Requests -> FileSlot], disturbed' \in SUBSET Losses
    PROVE  Files!TypeOK'
BY DEF Files!TypeOK, FileSlot, Losses

LEMMA UploadsAre ==
    /\ \A i \in Uploads : i \in Items /\ frows[i] # None /\ frows[i].kind = "upload"
    /\ \A i \in Items : frows[i] # None /\ frows[i].kind = "upload" => i \in Uploads
BY DEF Uploads, Files!Rows

\* A request takes a step that writes neither a row nor a file.
LEMMA Aside ==
    ASSUME FilesInv, NEW r \in Requests, NEW n \in FileSlot, Fitting(n),
           freq' = [freq EXCEPT ![r] = n], UNCHANGED <<ftask, frows, files, disturbed>>,
           \* what it takes up has a row, ...
           \A i \in n.ids : i \in freq[r].ids \/ frows[i] # None,
           n.pc = "create" => n.ids = {},
           n.pc = "unlink" => \A i \in n.ids : frows[i] = None,
           \* ... and what it lets go has no file.
           freq[r].pc \in {"create", "unlink"} =>
              \A i \in freq[r].ids : i \in n.ids /\ n.pc = "unlink",
           n.pc = "deleteTask" => Uploads \subseteq n.ids
    PROVE  FilesInv'
<1>1. /\ ftask \in {"there", "reserved", "deleted"}
      /\ frows \in [Items -> Files!Row \cup {None}] /\ files \subseteq Items
      /\ freq \in [Requests -> FileSlot] /\ disturbed \in SUBSET Losses
  BY FileTypes DEF FilesInv
<1>2. freq' \in [Requests -> FileSlot]
      /\ \A q \in Requests : freq'[q] = IF q = r THEN n ELSE freq[q]
  BY <1>1
<1>3. Files!TypeOK'
  BY <1>1, <1>2, FileTypesAfter
<1>4. \A q \in Requests : Fitting(freq'[q])
  BY <1>2 DEF FilesInv
<1>5. OwnFile'
  BY <1>2 DEF FilesInv, OwnFile, Owns
<1>6. Doomed'
  BY <1>2 DEF FilesInv, Doomed
<1>7. Uploads' = Uploads
  BY DEF Uploads, Files!Rows
<1>8. NoneLost'
  <2>1. \A i : SeenTo(i) => SeenTo(i)'
    BY <1>2 DEF SeenTo
  <2> QED  BY <1>2, <1>7, <2>1 DEF FilesInv, NoneLost
<1>9. Named'
  BY <1>7 DEF FilesInv, Named
<1> QED  BY <1>3, <1>4, <1>5, <1>6, <1>8, <1>9 DEF FilesInv

\* A request ends, or lets a file go, that the disk did not take or did not give up.
LEMMA LeftBehind ==
    ASSUME FilesInv, NEW r \in Requests, NEW n \in FileSlot, Fitting(n),
           freq' = [freq EXCEPT ![r] = n], n.pc = "unlink" => freq[r].pc = "unlink",
           n.pc \in {"idle", "unlink"}, n.ids \subseteq freq[r].ids,
           files \subseteq files', files' \subseteq Items,
           disturbed' = disturbed \cup {"file"}, UNCHANGED <<ftask, frows>>
    PROVE  FilesInv'
<1>1. /\ ftask \in {"there", "reserved", "deleted"}
      /\ frows \in [Items -> Files!Row \cup {None}]
      /\ freq \in [Requests -> FileSlot] /\ disturbed \in SUBSET Losses
  BY FileTypes DEF FilesInv
<1>2. freq' \in [Requests -> FileSlot]
      /\ \A q \in Requests : freq'[q] = IF q = r THEN n ELSE freq[q]
  BY <1>1
<1>3. disturbed' \in SUBSET Losses
  BY <1>1 DEF Losses
<1>4. Files!TypeOK'
  BY <1>1, <1>2, <1>3, FileTypesAfter
<1>5. \A q \in Requests : Fitting(freq'[q])
  BY <1>2 DEF FilesInv
<1>6. OwnFile'
  BY <1>2 DEF FilesInv, OwnFile, Owns
<1>7. Doomed'
  BY <1>2 DEF FilesInv, Doomed
<1>8. Named'
  BY DEF FilesInv, Named, Uploads, Files!Rows
<1>9. NoneLost'
  BY DEF NoneLost
<1> QED  BY <1>4, <1>5, <1>6, <1>7, <1>8, <1>9 DEF FilesInv

LEMMA IdleFile ==
    /\ Files!Idle \in FileSlot /\ Fitting(Files!Idle) /\ Files!Idle.ids = {}
    /\ Files!Idle.pc = "idle"
BY DEF Files!Idle, FileSlot, Fitting

LEMMA GoSlot ==
    ASSUME Files!TypeOK, NEW r \in Requests, NEW n,
           NEW pc \in {"idle", "count", "sum", "store", "create", "deleteRow", "deleteTask",
                       "unlink"}, n = [freq[r] EXCEPT !.pc = pc]
    PROVE  n \in FileSlot /\ n.pc = pc /\ n.row = freq[r].row /\ n.ids = freq[r].ids
<1>1. freq[r] \in FileSlot
  BY FileTypes
<1>2. ASSUME NEW s \in FileSlot, n = [s EXCEPT !.pc = pc]
      PROVE  n \in FileSlot /\ n.pc = pc /\ n.row = s.row /\ n.ids = s.ids
  BY <1>2 DEF FileSlot
<1> QED  BY <1>1, <1>2

\* A request that answers has nothing left, or only what has no file.
LEMMA ReplyKept ==
    ASSUME FilesInv, NEW r \in Requests, Files!Reply(r),
           UNCHANGED <<ftask, frows, files, disturbed>>,
           freq[r].pc \in {"create", "unlink"} => freq[r].ids = {}
    PROVE  FilesInv'
<1> DEFINE n == Files!Idle
<1>1. freq' = [freq EXCEPT ![r] = n]
  BY DEF Files!Reply
<1>2. n \in FileSlot /\ Fitting(n) /\ n.ids = {} /\ n.pc = "idle"
  BY IdleFile
<1> HIDE DEF n
<1> QED  BY <1>1, <1>2, Aside

LEMMA FilePostKept ==
    ASSUME FilesInv, NEW r \in Requests, NEW kind \in Files!Kinds, NEW size \in Files!Sizes \cup {0},
           Files!Post(r, kind, size)
    PROVE  FilesInv'
<1> DEFINE row == [kind |-> kind, size |-> size]
           pc == IF kind = "comment" THEN "create" ELSE "count"
           n == [Files!Idle EXCEPT !.pc = pc, !.row = row]
<1>1. /\ freq[r] = Files!Idle /\ freq' = [freq EXCEPT ![r] = n]
      /\ UNCHANGED <<ftask, frows, files, disturbed>>
  BY DEF Files!Post
<1>2. row \in Files!Row /\ row.kind = kind
  BY DEF Files!Row
<1> HIDE DEF row
<1>3. n \in FileSlot /\ n.pc = pc /\ n.row = row /\ n.ids = {}
  BY <1>2 DEF FileSlot, Files!Idle
<1> HIDE DEF n
<1>4. Fitting(n)
  BY <1>2, <1>3 DEF Fitting
<1>5. pc \in {"create", "count"}
  OBVIOUS
<1> HIDE DEF pc
<1> QED  BY <1>1, <1>3, <1>4, <1>5, IdleFile, Aside

LEMMA CountKept ==
    ASSUME FilesInv, NEW r \in Requests, Files!Count(r)
    PROVE  FilesInv'
<1>1. freq[r].pc = "count" /\ UNCHANGED <<ftask, frows, files, disturbed>>
  BY DEF Files!Count
<1>2. CASE Files!Reply(r)
  BY <1>1, <1>2, ReplyKept
<1>3. CASE ~Files!Reply(r)
  <2> DEFINE pc == IF freq[r].row.kind = "link" THEN "create" ELSE "sum"
             n == [freq[r] EXCEPT !.pc = pc]
  <2>1. freq' = [freq EXCEPT ![r] = n]
    BY <1>3 DEF Files!Count, Files!Go
  <2>2. n \in FileSlot /\ n.pc = pc /\ n.row = freq[r].row /\ n.ids = freq[r].ids
    BY GoSlot DEF FilesInv
  <2> HIDE DEF n
  <2>3. Fitting(freq[r])
    BY DEF FilesInv
  <2>4. Fitting(n) /\ n.ids = {}
    BY <1>1, <2>2, <2>3 DEF Fitting
  <2>5. pc \in {"create", "sum"}
    OBVIOUS
  <2> HIDE DEF pc
  <2> QED  BY <1>1, <2>1, <2>2, <2>4, <2>5, Aside
<1> QED  BY <1>2, <1>3

LEMMA SumKept ==
    ASSUME FilesInv, NEW r \in Requests, Files!Sum(r)
    PROVE  FilesInv'
<1>1. freq[r].pc = "sum" /\ UNCHANGED <<ftask, frows, files, disturbed>>
  BY DEF Files!Sum
<1>2. CASE Files!Reply(r)
  BY <1>1, <1>2, ReplyKept
<1>3. CASE ~Files!Reply(r)
  <2> DEFINE pc == IF freq[r].row.kind = "upload" THEN "store" ELSE "create"
             n == [freq[r] EXCEPT !.pc = pc]
  <2>1. freq' = [freq EXCEPT ![r] = n]
    BY <1>3 DEF Files!Sum, Files!Go
  <2>2. n \in FileSlot /\ n.pc = pc /\ n.row = freq[r].row /\ n.ids = freq[r].ids
    BY GoSlot DEF FilesInv
  <2> HIDE DEF n
  <2>3. Fitting(freq[r])
    BY DEF FilesInv
  <2>4. Fitting(n) /\ n.ids = {}
    BY <1>1, <2>2, <2>3 DEF Fitting
  <2>5. pc \in {"store", "create"}
    OBVIOUS
  <2> HIDE DEF pc
  <2> QED  BY <1>1, <2>1, <2>2, <2>4, <2>5, Aside
<1> QED  BY <1>2, <1>3

\* The file is written, and the request goes on with it.
LEMMA StoredKept ==
    ASSUME FilesInv, NEW r \in Requests, NEW i \in Items, freq[r].pc = "store",
           Files!Fresh(i), files' = files \cup {i},
           freq' = [freq EXCEPT ![r].pc = "create", ![r].ids = {i}],
           UNCHANGED <<ftask, frows, disturbed>>
    PROVE  FilesInv'
<1>1. /\ Files!Fresh(i) /\ files' = files \cup {i}
      /\ freq' = [freq EXCEPT ![r].pc = "create", ![r].ids = {i}]
  OBVIOUS
<1>2. freq[r].pc = "store" /\ UNCHANGED <<ftask, frows, disturbed>>
  OBVIOUS
<1>3. /\ ftask \in {"there", "reserved", "deleted"}
      /\ frows \in [Items -> Files!Row \cup {None}] /\ files \subseteq Items
      /\ freq \in [Requests -> FileSlot] /\ disturbed \in SUBSET Losses
  BY FileTypes DEF FilesInv
<1> DEFINE n == [freq[r] EXCEPT !.pc = "create", !.ids = {i}]
<1>4. freq' = [freq EXCEPT ![r] = n]
  BY <1>1
<1>5. n \in FileSlot /\ n.pc = "create" /\ n.row = freq[r].row /\ n.ids = {i}
  <2>1. ASSUME NEW s \in FileSlot, NEW m, m = [s EXCEPT !.pc = "create", !.ids = {i}]
        PROVE  m \in FileSlot /\ m.pc = "create" /\ m.row = s.row /\ m.ids = {i}
    BY <2>1 DEF FileSlot
  <2> QED  BY <1>3, <2>1
<1> HIDE DEF n
<1>6. freq' \in [Requests -> FileSlot]
      /\ \A q \in Requests : freq'[q] = IF q = r THEN n ELSE freq[q]
  BY <1>3, <1>4, <1>5
<1>7. frows[i] = None /\ i \notin files /\ \A q \in Requests : i \notin freq[q].ids
  BY <1>1 DEF Files!Fresh
<1>8. Files!TypeOK'
  BY <1>1, <1>2, <1>3, <1>6, FileTypesAfter
<1>9. \A q \in Requests : Fitting(freq'[q])
  <2>1. Fitting(freq[r])
    BY DEF FilesInv
  <2>2. Fitting(n)
    BY <1>2, <1>5, <2>1 DEF Fitting
  <2> QED  BY <1>6, <2>2 DEF FilesInv
<1>10. OwnFile'
  BY <1>1, <1>2, <1>5, <1>6, <1>7 DEF FilesInv, OwnFile, Owns
<1>11. Doomed'
  BY <1>2, <1>5, <1>6 DEF FilesInv, Doomed
<1>12. Uploads' = Uploads
  BY <1>2 DEF Uploads, Files!Rows
<1>13. NoneLost'
  <2>1. \A j : SeenTo(j) => SeenTo(j)'
    BY <1>2, <1>6 DEF SeenTo
  <2>2. SeenTo(i)'
    BY <1>5, <1>6 DEF SeenTo
  <2> QED  BY <1>1, <1>2, <1>5, <1>6, <1>12, <2>1, <2>2 DEF FilesInv, NoneLost
<1>14. Named'
  BY <1>1, <1>2, <1>12 DEF FilesInv, Named
<1> QED  BY <1>8, <1>9, <1>10, <1>11, <1>13, <1>14 DEF FilesInv

LEMMA StoreKept ==
    ASSUME FilesInv, NEW r \in Requests, Files!Store(r)
    PROVE  FilesInv'
<1>1. freq[r].pc = "store" /\ UNCHANGED <<ftask, frows>>
  BY DEF Files!Store
<1>2. PICK i \in Items :
         /\ Files!Fresh(i)
         /\ \/ /\ files' = files \cup {i} /\ UNCHANGED disturbed
               /\ freq' = [freq EXCEPT ![r].pc = "create", ![r].ids = {i}]
            \/ UNCHANGED <<files, disturbed>> /\ Files!Reply(r)
            \/ /\ files' = files \cup {i} /\ Files!Reply(r)
               /\ disturbed' = disturbed \cup {"file"}
  BY DEF Files!Store
<1>3. CASE /\ files' = files \cup {i} /\ UNCHANGED disturbed
           /\ freq' = [freq EXCEPT ![r].pc = "create", ![r].ids = {i}]
  BY <1>1, <1>2, <1>3, StoredKept
<1>4. CASE UNCHANGED <<files, disturbed>> /\ Files!Reply(r)
  BY <1>1, <1>4, ReplyKept
<1>5. CASE files' = files \cup {i} /\ Files!Reply(r) /\ disturbed' = disturbed \cup {"file"}
  <2> DEFINE n == Files!Idle
  <2>1. freq' = [freq EXCEPT ![r] = n]
    BY <1>5 DEF Files!Reply
  <2>2. n \in FileSlot /\ Fitting(n) /\ n.ids = {} /\ n.pc = "idle"
    BY IdleFile
  <2> HIDE DEF n
  <2>3. files \subseteq Items
    BY FileTypes DEF FilesInv
  <2> QED  BY <1>1, <1>5, <2>1, <2>2, <2>3, LeftBehind
<1> QED  BY <1>2, <1>3, <1>4, <1>5

\* The row was not written: nothing is lost, an upload takes its file back.
LEMMA AbandonKept ==
    ASSUME FilesInv, NEW r \in Requests, freq[r].pc = "create", Files!Abandon(r),
           UNCHANGED <<ftask, frows, files, disturbed>>
    PROVE  FilesInv'
<1>1. CASE freq[r].ids = {}
  BY <1>1, ReplyKept DEF Files!Abandon
<1>2. CASE freq[r].ids # {}
  <2> DEFINE n == [freq[r] EXCEPT !.pc = "unlink"]
  <2>1. freq' = [freq EXCEPT ![r] = n]
    BY <1>2 DEF Files!Abandon, Files!Go
  <2>2. n \in FileSlot /\ n.pc = "unlink" /\ n.row = freq[r].row /\ n.ids = freq[r].ids
    BY GoSlot DEF FilesInv
  <2> HIDE DEF n
  <2>3. Fitting(n)
    BY <2>2 DEF Fitting
  <2>4. \A i \in n.ids : frows[i] = None
    BY <2>2 DEF FilesInv, OwnFile, Owns
  <2> QED  BY <2>1, <2>2, <2>3, <2>4, Aside
<1> QED  BY <1>1, <1>2

\* The row of an upload names the file the request has written; when the answer
\* was lost, the request is about to take the file back.
LEMMA CreateRowKept ==
    ASSUME FilesInv, NEW r \in Requests, freq[r].pc = "create", NEW i \in Items,
           IF freq[r].ids = {} THEN Files!Fresh(i) ELSE i \in freq[r].ids,
           frows' = [frows EXCEPT ![i] = freq[r].row],
           NEW n \in FileSlot, Fitting(n), freq' = [freq EXCEPT ![r] = n],
           n.pc \in {"idle", "unlink"}, n.ids \subseteq freq[r].ids,
           disturbed \cup Files!Unlisted(r) \subseteq disturbed', disturbed' \in SUBSET Losses,
           n.pc = "unlink" => "row" \in disturbed', UNCHANGED <<ftask, files>>
    PROVE  FilesInv'
<1>1. /\ ftask \in {"there", "reserved", "deleted"}
      /\ frows \in [Items -> Files!Row \cup {None}] /\ files \subseteq Items
      /\ freq \in [Requests -> FileSlot] /\ disturbed \in SUBSET Losses
  BY FileTypes DEF FilesInv
<1>2. /\ n.pc \notin {"create", "deleteTask"} /\ \A j \in n.ids : j \in freq[r].ids
      /\ n.pc = "unlink" => "row" \in disturbed'
  OBVIOUS
<1>4. freq' \in [Requests -> FileSlot]
      /\ \A q \in Requests : freq'[q] = IF q = r THEN n ELSE freq[q]
  BY <1>1
<1>5. Fitting(freq[r])
  BY DEF FilesInv
<1>6. freq[r].row \in Files!Row /\ freq[r].row # None
  BY <1>5, FilesAssumption DEF Fitting, Files!DefinitionsAssumption
<1>7. frows' \in [Items -> Files!Row \cup {None}]
      /\ \A j \in Items : frows'[j] = IF j = i THEN freq[r].row ELSE frows[j]
  BY <1>1, <1>6
<1>9. Files!TypeOK'
  BY <1>1, <1>4, <1>7, FileTypesAfter
<1>10. \A q \in Requests : Fitting(freq'[q])
  BY <1>2, <1>4 DEF FilesInv
<1>11. frows[i] = None /\ \A q \in Requests \ {r} : i \notin freq[q].ids
  BY DEF FilesInv, OwnFile, Owns, Files!Fresh
<1>12. OwnFile'
  <2> SUFFICES ASSUME NEW q \in Requests, freq'[q].pc = "create", NEW j \in freq'[q].ids
               PROVE  /\ j \in files' /\ frows'[j] = None
                      /\ \A p \in Requests \ {q} : j \notin freq'[p].ids
    BY DEF OwnFile, Owns
  <2>1. q # r /\ freq'[q] = freq[q] /\ j \in Items
    BY <1>1, <1>2, <1>4 DEF FileSlot
  <2>2. Owns(q, j) /\ j # i
    BY <1>11, <2>1 DEF FilesInv, OwnFile
  <2> QED  BY <1>2, <1>4, <1>7, <2>1, <2>2 DEF Owns
<1>13. Doomed'
  <2> SUFFICES ASSUME "row" \notin disturbed', NEW q \in Requests,
                      freq'[q].pc = "unlink", NEW j \in freq'[q].ids
               PROVE  frows'[j] = None
    BY DEF Doomed
  <2>1. q # r /\ freq'[q] = freq[q] /\ j \in Items /\ "row" \notin disturbed
    BY <1>1, <1>2, <1>4 DEF FileSlot
  <2>2. j # i /\ frows[j] = None
    BY <1>11, <2>1 DEF FilesInv, Doomed
  <2> QED  BY <1>7, <2>1, <2>2
\* An upload is new among the uploads, another row is not.
<1>14. /\ \A j : j \in Uploads' => j \in Uploads \/ (j = i /\ freq[r].ids # {})
       /\ \A j : j \in Uploads => j \in Uploads'
       /\ freq[r].ids # {} => i \in Uploads'
  <2>1. \A j : j \in Uploads' <=> j \in Items /\ frows'[j] # None /\ frows'[j].kind = "upload"
    BY DEF Uploads, Files!Rows
  <2>2. freq[r].row.kind = "upload" <=> freq[r].ids # {}
    BY <1>5 DEF Fitting
  <2> QED  BY <1>6, <1>7, <1>11, <2>1, <2>2, UploadsAre
<1>15. Named'
  <2>1. freq[r].ids # {} => i \in files
    BY DEF FilesInv, OwnFile, Owns
  <2> QED  BY <1>14, <2>1 DEF FilesInv, Named
<1>16. NoneLost'
  <2> SUFFICES ASSUME "file" \notin disturbed'
               PROVE  /\ \A j \in files' : j \in Uploads' \/ SeenTo(j)'
                      /\ \A q \in Requests : freq'[q].pc = "deleteTask"
                                             => Uploads' \subseteq freq'[q].ids
    BY DEF NoneLost
  <2>1. "file" \notin disturbed
        /\ \A q \in Requests : freq[q].pc = "deleteTask" => freq[r].ids = {}
    BY DEF Files!Unlisted
  <2>2. \A j : SeenTo(j) => SeenTo(j)' \/ (j \in freq[r].ids /\ freq[r].ids # {})
    BY <1>4 DEF SeenTo
  <2>3. \A j \in freq[r].ids : j = i
    BY <1>5 DEF Fitting
  <2>4. \A j \in files' : j \in Uploads' \/ SeenTo(j)'
    BY <1>14, <2>1, <2>2, <2>3 DEF FilesInv, NoneLost
  <2>5. \A q \in Requests : freq'[q].pc = "deleteTask" => Uploads' \subseteq freq'[q].ids
    BY <1>2, <1>4, <1>14, <2>1 DEF FilesInv, NoneLost
  <2> QED  BY <2>4, <2>5
<1> QED  BY <1>9, <1>10, <1>12, <1>13, <1>15, <1>16 DEF FilesInv

LEMMA FileCreateKept ==
    ASSUME FilesInv, NEW r \in Requests, Files!Create(r)
    PROVE  FilesInv'
<1>1. freq[r].pc = "create" /\ UNCHANGED <<ftask, files>>
  BY DEF Files!Create
<1>2. CASE Files!Abandon(r) /\ UNCHANGED <<frows, disturbed>>
  BY <1>1, <1>2, AbandonKept
<1>3. CASE ~(Files!Abandon(r) /\ UNCHANGED <<frows, disturbed>>)
  <2>1. PICK i \in Items : /\ IF freq[r].ids = {} THEN Files!Fresh(i) ELSE i \in freq[r].ids
                           /\ frows' = [frows EXCEPT ![i] = freq[r].row]
    BY <1>3 DEF Files!Create
  <2>2. disturbed \in SUBSET Losses /\ Files!Unlisted(r) \subseteq Losses
    BY FileTypes DEF FilesInv, Files!Unlisted, Losses
  <2>3. CASE Files!Reply(r) /\ disturbed' = disturbed \cup Files!Unlisted(r)
    <3> DEFINE n == Files!Idle
    <3>1. freq' = [freq EXCEPT ![r] = n]
      BY <2>3 DEF Files!Reply
    <3>2. n \in FileSlot /\ Fitting(n) /\ n.ids = {} /\ n.pc = "idle"
      BY IdleFile
    <3> HIDE DEF n
    <3> QED  BY <1>1, <2>1, <2>2, <2>3, <3>1, <3>2, CreateRowKept
  <2>4. CASE /\ freq[r].ids # {} /\ Files!Abandon(r)
             /\ disturbed' = disturbed \cup Files!Unlisted(r) \cup {"row"}
    <3> DEFINE n == [freq[r] EXCEPT !.pc = "unlink"]
    <3>1. freq' = [freq EXCEPT ![r] = n]
      BY <2>4 DEF Files!Abandon, Files!Go
    <3>2. n \in FileSlot /\ n.pc = "unlink" /\ n.row = freq[r].row /\ n.ids = freq[r].ids
      BY GoSlot DEF FilesInv
    <3> HIDE DEF n
    <3>3. Fitting(n)
      BY <3>2 DEF Fitting
    <3>4. disturbed' \in SUBSET Losses
      BY <2>2, <2>4 DEF Losses
    <3> QED  BY <1>1, <2>1, <2>2, <2>4, <3>1, <3>2, <3>3, <3>4, CreateRowKept
  <2> QED  BY <1>3, <2>3, <2>4 DEF Files!Create
<1> QED  BY <1>2, <1>3

LEMMA DeleteKept ==
    ASSUME FilesInv, NEW r \in Requests, NEW i \in Items, Files!Delete(r, i)
    PROVE  FilesInv'
<1> DEFINE n == [Files!Idle EXCEPT !.pc = "deleteRow", !.ids = {i}]
<1>1. /\ freq[r] = Files!Idle /\ frows[i] # None /\ freq' = [freq EXCEPT ![r] = n]
      /\ UNCHANGED <<ftask, frows, files, disturbed>>
  BY DEF Files!Delete
<1>2. n \in FileSlot /\ n.pc = "deleteRow" /\ n.ids = {i}
  BY DEF FileSlot, Files!Idle
<1> HIDE DEF n
<1>3. Fitting(n)
  BY <1>2 DEF Fitting
<1> QED  BY <1>1, <1>2, <1>3, IdleFile, Aside

LEMMA DeleteTaskReadKept ==
    ASSUME FilesInv, NEW r \in Requests, Files!DeleteTaskRead(r)
    PROVE  FilesInv'
<1> DEFINE n == [Files!Idle EXCEPT !.pc = "deleteTask", !.ids = Files!Rows({"upload"})]
<1>1. /\ freq[r] = Files!Idle /\ freq' = [freq EXCEPT ![r] = n]
      /\ UNCHANGED <<ftask, frows, files, disturbed>>
  BY DEF Files!DeleteTaskRead
<1>2. Files!Rows({"upload"}) \subseteq Items
  BY DEF Files!Rows
<1>3. n \in FileSlot /\ n.pc = "deleteTask" /\ n.ids = Uploads
  BY <1>2 DEF FileSlot, Files!Idle, Uploads
<1> HIDE DEF n
<1>4. Fitting(n)
  BY <1>3 DEF Fitting
<1>5. \A i \in n.ids : frows[i] # None
  BY <1>3, UploadsAre
<1> QED  BY <1>1, <1>3, <1>4, <1>5, IdleFile, Aside

\* Rows go, and with them the names of the files that the request then removes.
LEMMA RowsGo ==
    ASSUME FilesInv, NEW r \in Requests, freq[r].pc \in {"deleteRow", "deleteTask"},
           NEW n \in FileSlot, Fitting(n), freq' = [freq EXCEPT ![r] = n],
           n.pc \in {"idle", "unlink"}, n.ids \in {{}, freq[r].ids},
           NEW gone \in SUBSET Items,
           frows' = [i \in Items |-> IF i \in gone THEN None ELSE frows[i]],
           ftask' \in {"there", "reserved", "deleted"}, files' = files,
           disturbed' \in {disturbed, disturbed \cup {"file"}},
           n.pc = "unlink" => n.ids \subseteq gone,
           "file" \notin disturbed' =>
              \A i \in gone : i \in Uploads => i \in n.ids /\ n.pc = "unlink"
    PROVE  FilesInv'
<1>1. /\ frows \in [Items -> Files!Row \cup {None}] /\ files \subseteq Items
      /\ freq \in [Requests -> FileSlot] /\ disturbed \in SUBSET Losses
  BY FileTypes DEF FilesInv
<1>2. freq' \in [Requests -> FileSlot]
      /\ \A q \in Requests : freq'[q] = IF q = r THEN n ELSE freq[q]
  BY <1>1
<1>3. frows' \in [Items -> Files!Row \cup {None}]
      /\ \A i \in Items : frows'[i] = IF i \in gone THEN None ELSE frows[i]
  BY <1>1
<1>4. Files!TypeOK'
  <2>1. disturbed' \in SUBSET Losses
    BY <1>1 DEF Losses
  <2> QED  BY <1>1, <1>2, <1>3, <2>1, FileTypesAfter
<1>5. \A q \in Requests : Fitting(freq'[q])
  BY <1>2 DEF FilesInv
<1>6. \A q \in Requests : \A i \in freq[q].ids : i \in Items
  BY <1>1 DEF FileSlot
<1>7. OwnFile'
  <2> SUFFICES ASSUME NEW q \in Requests, freq'[q].pc = "create", NEW j \in freq'[q].ids
               PROVE  /\ j \in files' /\ frows'[j] = None
                      /\ \A p \in Requests \ {q} : j \notin freq'[p].ids
    BY DEF OwnFile, Owns
  <2>1. q # r /\ freq'[q] = freq[q] /\ j \in Items
    BY <1>2, <1>6
  <2>2. Owns(q, j)
    BY <2>1 DEF FilesInv, OwnFile
  <2>3. \A p \in Requests \ {q} : j \notin freq'[p].ids
    BY <1>2, <2>1, <2>2 DEF Owns
  <2> QED  BY <1>3, <2>1, <2>2, <2>3 DEF Owns
<1>8. Doomed'
  BY <1>2, <1>3, <1>6 DEF FilesInv, Doomed
<1>9. /\ \A i : i \in Uploads' => i \in Uploads
      /\ \A i : i \in Uploads => i \in Uploads' \/ i \in gone
  <2>1. \A i : i \in Uploads' <=> i \in Items /\ frows'[i] # None /\ frows'[i].kind = "upload"
    BY DEF Uploads, Files!Rows
  <2> QED  BY <1>3, <2>1, UploadsAre
<1>10. Named'
  BY <1>9 DEF FilesInv, Named
<1>11. NoneLost'
  <2>1. \A i : SeenTo(i) => SeenTo(i)'
    BY <1>2 DEF SeenTo
  <2>2. \A i : i \in n.ids /\ n.pc = "unlink" => SeenTo(i)'
    BY <1>2 DEF SeenTo
  <2> QED  BY <1>2, <1>9, <2>1, <2>2 DEF FilesInv, NoneLost
<1> QED  BY <1>4, <1>5, <1>7, <1>8, <1>10, <1>11 DEF FilesInv

\* The request goes on to the files whose rows are gone, or has lost its answer.
LEMMA RowsGoneKept ==
    ASSUME FilesInv, NEW r \in Requests, freq[r].pc \in {"deleteRow", "deleteTask"},
           NEW some, Files!RowsGone(r, some), NEW gone \in SUBSET Items,
           frows' = [i \in Items |-> IF i \in gone THEN None ELSE frows[i]],
           ftask' \in {"there", "reserved", "deleted"}, files' = files,
           freq[r].ids \subseteq gone,
           "file" \notin disturbed => \A i \in gone : i \in Uploads => some /\ i \in freq[r].ids
    PROVE  FilesInv'
<1>1. CASE some /\ Files!Go(r, "unlink") /\ disturbed' = disturbed
  <2> DEFINE n == [freq[r] EXCEPT !.pc = "unlink"]
  <2>1. freq' = [freq EXCEPT ![r] = n]
    BY <1>1 DEF Files!Go
  <2>2. n \in FileSlot /\ n.pc = "unlink" /\ n.row = freq[r].row /\ n.ids = freq[r].ids
    BY GoSlot DEF FilesInv
  <2> HIDE DEF n
  <2>3. Fitting(n)
    BY <2>2 DEF Fitting
  <2> QED  BY <1>1, <2>1, <2>2, <2>3, RowsGo
<1>2. CASE /\ Files!Reply(r)
           /\ \/ ~some /\ disturbed' = disturbed
              \/ disturbed' = disturbed \cup {"file"}
  <2> DEFINE n == Files!Idle
  <2>1. freq' = [freq EXCEPT ![r] = n]
    BY <1>2 DEF Files!Reply
  <2>2. n \in FileSlot /\ Fitting(n) /\ n.ids = {} /\ n.pc = "idle"
    BY IdleFile
  <2> HIDE DEF n
  <2> QED  BY <1>2, <2>1, <2>2, RowsGo
<1> QED  BY <1>1, <1>2 DEF Files!RowsGone

LEMMA DeleteRowKept ==
    ASSUME FilesInv, NEW r \in Requests, Files!DeleteRow(r)
    PROVE  FilesInv'
<1>1. PICK i \in freq[r].ids :
         \/ Files!Reply(r) /\ UNCHANGED <<frows, disturbed>>
         \/ /\ frows[i] # None /\ frows' = [frows EXCEPT ![i] = None]
            /\ Files!RowsGone(r, frows[i].kind = "upload")
  BY DEF Files!DeleteRow
<1>2. freq[r].pc = "deleteRow" /\ UNCHANGED <<ftask, files>>
  BY DEF Files!DeleteRow
<1>3. CASE Files!Reply(r) /\ UNCHANGED <<frows, disturbed>>
  BY <1>2, <1>3, ReplyKept
<1>4. CASE /\ frows[i] # None /\ frows' = [frows EXCEPT ![i] = None]
           /\ Files!RowsGone(r, frows[i].kind = "upload")
  <2>1. /\ frows \in [Items -> Files!Row \cup {None}]
        /\ freq[r] \in FileSlot /\ ftask \in {"there", "reserved", "deleted"}
    BY FileTypes DEF FilesInv
  <2>2. Fitting(freq[r])
    BY DEF FilesInv
  <2>3. i \in Items /\ \A j \in freq[r].ids : j = i
    BY <1>2, <2>1, <2>2 DEF FileSlot, Fitting
  <2>4. PICK gone : gone = {i}
    OBVIOUS
  <2>5. frows' = [j \in Items |-> IF j \in gone THEN None ELSE frows[j]]
    BY <1>4, <2>1, <2>3, <2>4
  <2>6. gone \in SUBSET Items /\ freq[r].ids \subseteq gone
    BY <2>3, <2>4
  <2>7. PICK some : some = (frows[i].kind = "upload")
    OBVIOUS
  <2>8. Files!RowsGone(r, some)
    BY <1>4, <2>7
  <2>9. \A j \in gone : j \in Uploads => some /\ j \in freq[r].ids
    BY <2>4, <2>7, UploadsAre
  <2> QED  BY <1>2, <2>1, <2>5, <2>6, <2>8, <2>9, RowsGoneKept
<1> QED  BY <1>1, <1>3, <1>4

LEMMA DeleteAllKept ==
    ASSUME FilesInv, NEW r \in Requests, Files!DeleteTask(r)
    PROVE  FilesInv'
<1>1. freq[r].pc = "deleteTask" /\ files' = files
  BY DEF Files!DeleteTask
<1>2. CASE Files!Reply(r) /\ UNCHANGED <<ftask, frows, disturbed>>
  BY <1>1, <1>2, ReplyKept
<1>3. CASE /\ ftask' = "deleted" /\ frows' = [i \in Items |-> None]
           /\ Files!RowsGone(r, freq[r].ids # {})
  <2>1. freq[r] \in FileSlot
    BY FileTypes DEF FilesInv
  <2>2. PICK gone : gone = Items
    OBVIOUS
  <2>3. frows' = [j \in Items |-> IF j \in gone THEN None ELSE frows[j]]
    BY <1>3, <2>2
  <2>4. gone \in SUBSET Items /\ freq[r].ids \subseteq gone
    BY <2>1, <2>2 DEF FileSlot
  <2>5. PICK some : some = (freq[r].ids # {})
    OBVIOUS
  <2>6. Files!RowsGone(r, some)
    BY <1>3, <2>5
  <2>7. "file" \notin disturbed => \A i \in gone : i \in Uploads => some /\ i \in freq[r].ids
    BY <1>1, <2>5 DEF FilesInv, NoneLost
  <2> QED  BY <1>1, <1>3, <2>3, <2>4, <2>6, <2>7, RowsGoneKept
<1> QED  BY <1>2, <1>3 DEF Files!DeleteTask

\* The file that goes is nobody's.
LEMMA RemovedKept ==
    ASSUME FilesInv, NEW r \in Requests, freq[r].pc = "unlink", NEW i \in freq[r].ids,
           files' = files \ {i}, UNCHANGED <<ftask, frows, disturbed>>,
           NEW n \in FileSlot, Fitting(n), freq' = [freq EXCEPT ![r] = n],
           n.ids = freq[r].ids \ {i}, n.pc \in {"idle", "unlink"},
           n.pc = "idle" => n.ids = {}
    PROVE  FilesInv'
<1>1. /\ ftask \in {"there", "reserved", "deleted"}
      /\ frows \in [Items -> Files!Row \cup {None}] /\ files \subseteq Items
      /\ freq \in [Requests -> FileSlot] /\ disturbed \in SUBSET Losses
  BY FileTypes DEF FilesInv
<1>2. freq' \in [Requests -> FileSlot]
      /\ \A q \in Requests : freq'[q] = IF q = r THEN n ELSE freq[q]
  BY <1>1
<1>3. Files!TypeOK'
  BY <1>1, <1>2, FileTypesAfter
<1>4. \A q \in Requests : Fitting(freq'[q])
  BY <1>2 DEF FilesInv
<1>5. "row" \notin disturbed => i \notin Uploads
  BY UploadsAre DEF FilesInv, Doomed
<1>6. \A q \in Requests : freq[q].pc = "create" => i \notin freq[q].ids
  BY DEF FilesInv, OwnFile, Owns
<1>7. OwnFile'
  BY <1>2, <1>6 DEF FilesInv, OwnFile, Owns
<1>8. Doomed'
  BY <1>2 DEF FilesInv, Doomed
<1>9. Uploads' = Uploads
  BY DEF Uploads, Files!Rows
<1>10. Named'
  BY <1>5, <1>9 DEF FilesInv, Named
<1>11. NoneLost'
  <2>1. \A j : SeenTo(j) /\ j # i => SeenTo(j)'
    <3> SUFFICES ASSUME NEW j, j # i, NEW q \in Requests,
                        freq[q].pc \in {"create", "unlink"}, j \in freq[q].ids
                 PROVE  SeenTo(j)'
      BY DEF SeenTo
    <3>1. CASE q = r
      <4>1. j \in n.ids /\ n.pc = "unlink"
        BY <3>1
      <4> QED  BY <1>2, <4>1 DEF SeenTo
    <3>2. CASE q # r
      BY <1>2, <3>2 DEF SeenTo
    <3> QED  BY <3>1, <3>2
  <2> QED  BY <1>2, <1>9, <2>1 DEF FilesInv, NoneLost
<1> QED  BY <1>3, <1>4, <1>7, <1>8, <1>10, <1>11 DEF FilesInv

LEMMA UnlinkKept ==
    ASSUME FilesInv, NEW r \in Requests, Files!Unlink(r)
    PROVE  FilesInv'
<1>1. PICK i \in freq[r].ids :
         /\ \/ files' = files \ {i} /\ UNCHANGED disturbed
            \/ i \in files /\ UNCHANGED files /\ disturbed' = disturbed \cup {"file"}
         /\ IF freq[r].ids = {i} THEN Files!Reply(r)
            ELSE freq' = [freq EXCEPT ![r].ids = @ \ {i}]
  BY DEF Files!Unlink
<1>2. freq[r].pc = "unlink" /\ UNCHANGED <<ftask, frows>>
  BY DEF Files!Unlink
<1>3. /\ ftask \in {"there", "reserved", "deleted"}
      /\ frows \in [Items -> Files!Row \cup {None}] /\ files \subseteq Items
      /\ freq \in [Requests -> FileSlot] /\ disturbed \in SUBSET Losses
  BY FileTypes DEF FilesInv
<1>4. PICK n \in FileSlot : /\ freq' = [freq EXCEPT ![r] = n] /\ Fitting(n)
                            /\ n.ids = freq[r].ids \ {i}
                            /\ n.pc = IF freq[r].ids = {i} THEN "idle" ELSE "unlink"
  <2>1. CASE freq[r].ids = {i}
    <3>1. freq' = [freq EXCEPT ![r] = Files!Idle]
      BY <1>1, <2>1 DEF Files!Reply
    <3> QED  BY <2>1, <3>1, IdleFile
  <2>2. CASE freq[r].ids # {i}
    <3> DEFINE m == [freq[r] EXCEPT !.ids = @ \ {i}]
    <3>1. freq' = [freq EXCEPT ![r] = m]
      BY <1>1, <2>2
    <3>2. m \in FileSlot /\ m.pc = "unlink" /\ m.ids = freq[r].ids \ {i}
      <4>1. ASSUME NEW s \in FileSlot, s.pc = "unlink"
            PROVE  /\ [s EXCEPT !.ids = @ \ {i}] \in FileSlot
                   /\ [s EXCEPT !.ids = @ \ {i}].pc = "unlink"
                   /\ [s EXCEPT !.ids = @ \ {i}].ids = s.ids \ {i}
        BY <4>1 DEF FileSlot
      <4> QED  BY <1>2, <1>3, <4>1
    <3> HIDE DEF m
    <3>3. Fitting(m)
      BY <3>2 DEF Fitting
    <3> QED  BY <2>2, <3>1, <3>2, <3>3
  <2> QED  BY <2>1, <2>2
<1>5. CASE i \in files /\ UNCHANGED files /\ disturbed' = disturbed \cup {"file"}
  BY <1>2, <1>3, <1>4, <1>5, LeftBehind
<1>6. CASE files' = files \ {i} /\ UNCHANGED disturbed
  <2>1. n.ids = freq[r].ids \ {i} /\ (n.pc = "idle" => n.ids = {})
    BY <1>4, IdleFile DEF Fitting
  <2> QED  BY <1>2, <1>4, <1>6, <2>1, RemovedKept
<1> QED  BY <1>1, <1>5, <1>6

LEMMA MergeKept == ASSUME FilesInv, Files!Merge PROVE FilesInv'
<1>1. /\ ftask' \in {"there", "reserved"} /\ UNCHANGED <<frows, files, freq, disturbed>>
  BY DEF Files!Merge
<1>2. Files!TypeOK'
  BY <1>1, FileTypes, FileTypesAfter DEF FilesInv
<1>3. Uploads' = Uploads /\ \A i : SeenTo(i)' = SeenTo(i)
  BY <1>1 DEF Uploads, Files!Rows, SeenTo
<1> QED  BY <1>1, <1>2, <1>3 DEF FilesInv, OwnFile, Owns, Doomed, Named, NoneLost

LEMMA FileCrashKept == ASSUME FilesInv, Files!Crash PROVE FilesInv'
<1>1. /\ freq' = [r \in Requests |-> Files!Idle] /\ disturbed' = disturbed \cup {"file"}
      /\ UNCHANGED <<ftask, frows, files>>
  BY DEF Files!Crash
<1>2. freq' \in [Requests -> FileSlot] /\ \A r \in Requests : freq'[r] = Files!Idle
  BY <1>1, IdleFile
<1>3. Files!TypeOK'
  <2>1. disturbed' \in SUBSET Losses
    BY <1>1, FileTypes DEF FilesInv, Losses
  <2> QED  BY <1>1, <1>2, <2>1, FileTypes, FileTypesAfter DEF FilesInv
<1>4. Uploads' = Uploads
  BY <1>1 DEF Uploads, Files!Rows
<1> QED  BY <1>1, <1>2, <1>3, <1>4, IdleFile DEF FilesInv, OwnFile, Doomed, Named, NoneLost

LEMMA FileStepKept == ASSUME FilesInv, [Files!Next]_(Files!vars) PROVE FilesInv'
<1>1. ASSUME NEW r \in Requests, NEW kind \in Files!Kinds, NEW size \in Files!Sizes \cup {0},
             Files!Post(r, kind, size)
      PROVE FilesInv'
  BY <1>1, FilePostKept
<1>2. ASSUME NEW r \in Requests,
             Files!Count(r) \/ Files!Sum(r) \/ Files!Store(r) \/ Files!Create(r)
      PROVE FilesInv'
  BY <1>2, CountKept, SumKept, StoreKept, FileCreateKept
<1>3. ASSUME NEW r \in Requests, NEW i \in Items, Files!Delete(r, i) PROVE FilesInv'
  BY <1>3, DeleteKept
<1>4. ASSUME NEW r \in Requests, \/ Files!DeleteRow(r) \/ Files!DeleteTaskRead(r)
                                 \/ Files!DeleteTask(r) \/ Files!Unlink(r)
      PROVE FilesInv'
  BY <1>4, DeleteRowKept, DeleteTaskReadKept, DeleteAllKept, UnlinkKept
<1>5. CASE UNCHANGED Files!vars
  <2>1. UNCHANGED <<ftask, frows, files, freq, disturbed>>
    BY <1>5 DEF Files!vars
  <2>2. Files!TypeOK'
    BY <2>1, FileTypes, FileTypesAfter DEF FilesInv
  <2>3. Uploads' = Uploads /\ \A i : SeenTo(i)' = SeenTo(i)
    BY <2>1 DEF Uploads, Files!Rows, SeenTo
  <2> QED  BY <2>1, <2>2, <2>3 DEF FilesInv, OwnFile, Owns, Doomed, Named, NoneLost
<1> QED  BY <1>1, <1>2, <1>3, <1>4, <1>5, MergeKept, FileCrashKept DEF Files!Next

LEMMA FilesStart == ASSUME Files!Init PROVE FilesInv
<1>1. /\ ftask = "there" /\ files = {} /\ disturbed = {}
      /\ frows = [i \in Items |-> None] /\ freq = [r \in Requests |-> Files!Idle]
  BY DEF Files!Init
<1>2. freq \in [Requests -> FileSlot] /\ \A r \in Requests : freq[r] = Files!Idle
  BY <1>1, IdleFile
<1>3. Files!TypeOK
  BY <1>1, <1>2, FileTypes
<1>4. Uploads = {}
  BY <1>1, UploadsAre
<1> QED  BY <1>1, <1>2, <1>3, <1>4, IdleFile DEF FilesInv, OwnFile, Doomed, Named, NoneLost

LEMMA FilesStay == Files!Spec => []FilesInv
<1>1. FilesInv /\ [Files!Next]_(Files!vars) => FilesInv'
  BY FileStepKept
<1> QED  BY <1>1, FilesStart, PTL DEF Files!Spec

\* The file is stored before its row and removed after it (attachments of
\* routes/tasks.ts): whatever the requests, their number and their order, and
\* whatever fails or dies, a row of an upload names a file that is there, unless
\* the answer to the write of such a row was lost; and a file is left behind only
\* by a death, a failure of the disk, a lost answer to a delete, or a deletion of
\* the task over an upload.
THEOREM FilesHaveRows == Files!Spec => []FilesMatchRows
<1>1. FilesInv => FilesMatchRows
  BY DEF FilesInv, Named, NoneLost, SeenTo, Uploads, FilesMatchRows, Files!FilesMatchRows
<1> QED  BY <1>1, FilesStay, PTL

-----------------------------------------------------------------------------
(* Caps.                                                                   *)

Families == {Files!Attachments, {"artifact"}}

\* The requests that have found room in a family and have not yet taken it.
Waiting(family) == {r \in Requests : /\ freq[r].pc \in {"sum", "store", "create"}
                                     /\ freq[r].row.kind \in family}

\* What waits comes on top of what there is.
RoomTaken(family) ==
    Cardinality(Files!Rows(family)) + Cardinality(Waiting(family))
        <= CountCap + Cardinality(Requests) - 1

\* Finite sets and their sizes are those of the module FiniteSets.
LEMMA FiniteIs == ASSUME NEW S PROVE Files!IsFiniteSet(S) <=> IsFiniteSet(S)
BY DEF Files!IsFiniteSet, IsFiniteSet

LEMMA SizeIs == ASSUME NEW S PROVE Files!Cardinality(S) = Cardinality(S)
BY DEF Files!Cardinality, Cardinality

LEMMA FamilyOf ==
    ASSUME NEW family \in Families, NEW kind \in family
    PROVE  Files!Family(kind) = family /\ kind # "comment"
BY DEF Families, Files!Family, Files!Attachments

LEMMA Counted ==
    ASSUME NEW family
    PROVE  /\ IsFiniteSet(Files!Rows(family)) /\ IsFiniteSet(Waiting(family))
           /\ Cardinality(Files!Rows(family)) \in Nat
           /\ Cardinality(Waiting(family)) \in Nat
           /\ Cardinality(Waiting(family)) <= Cardinality(Requests)
           /\ Cardinality(Requests) \in Nat /\ Cardinality(Requests) > 0
<1>1. IsFiniteSet(Items) /\ IsFiniteSet(Requests) /\ Requests # {}
  BY FilesAssumption, FiniteIs DEF Files!DefinitionsAssumption
<1>2. Files!Rows(family) \subseteq Items /\ Waiting(family) \subseteq Requests
  BY DEF Files!Rows, Waiting
<1> QED  BY <1>1, <1>2, FS_Subset, FS_CardinalityType, FS_EmptySet

LEMMA CountedAfter ==
    ASSUME NEW family
    PROVE  /\ IsFiniteSet(Files!Rows(family)') /\ IsFiniteSet(Waiting(family)')
           /\ Cardinality(Files!Rows(family)') \in Nat
           /\ Cardinality(Waiting(family)') \in Nat
           /\ Cardinality(Waiting(family)') <= Cardinality(Requests)
<1>1. IsFiniteSet(Items) /\ IsFiniteSet(Requests) /\ Requests # {}
  BY FilesAssumption, FiniteIs DEF Files!DefinitionsAssumption
<1>2. Files!Rows(family)' \subseteq Items /\ Waiting(family)' \subseteq Requests
  BY DEF Files!Rows, Waiting
<1> QED  BY <1>1, <1>2, FS_Subset, FS_CardinalityType

\* A step that adds no row and admits no request.
LEMMA NoneAdded ==
    ASSUME NEW family, RoomTaken(family), Files!Rows(family)' \subseteq Files!Rows(family),
           Waiting(family)' \subseteq Waiting(family)
    PROVE  RoomTaken(family)'
<1>1. /\ Cardinality(Files!Rows(family)') <= Cardinality(Files!Rows(family))
      /\ Cardinality(Waiting(family)') <= Cardinality(Waiting(family))
  BY Counted, FS_Subset
<1>2. CountCap \in Nat
  BY FilesAssumption DEF Files!DefinitionsAssumption
<1> QED  BY <1>1, <1>2, Counted, CountedAfter DEF RoomTaken

\* A request is admitted: there was room for one row, and every request may wait.
LEMMA OneAdmitted ==
    ASSUME NEW family, Cardinality(Files!Rows(family)) < CountCap,
           Files!Rows(family)' = Files!Rows(family)
    PROVE  RoomTaken(family)'
<1>1. CountCap \in Nat
  BY FilesAssumption DEF Files!DefinitionsAssumption
<1> QED  BY <1>1, Counted, CountedAfter DEF RoomTaken

\* The row of a request that waited.
LEMMA OneTaken ==
    ASSUME NEW family, RoomTaken(family), NEW i, NEW r \in Waiting(family),
           Files!Rows(family)' \subseteq Files!Rows(family) \cup {i},
           Waiting(family)' \subseteq Waiting(family) \ {r}
    PROVE  RoomTaken(family)'
<1>1. /\ Cardinality(Files!Rows(family) \cup {i}) <= Cardinality(Files!Rows(family)) + 1
      /\ IsFiniteSet(Files!Rows(family) \cup {i})
      /\ Cardinality(Files!Rows(family) \cup {i}) \in Nat
  <2>1. IsFiniteSet(Files!Rows(family)) /\ Cardinality(Files!Rows(family)) \in Nat
    BY Counted
  <2>2. /\ IsFiniteSet(Files!Rows(family) \cup {i})
        /\ Cardinality(Files!Rows(family) \cup {i})
              = IF i \in Files!Rows(family) THEN Cardinality(Files!Rows(family))
                                          ELSE Cardinality(Files!Rows(family)) + 1
    BY <2>1, FS_AddElement
  <2> QED  BY <2>1, <2>2
<1>2. /\ Cardinality(Waiting(family) \ {r}) = Cardinality(Waiting(family)) - 1
      /\ IsFiniteSet(Waiting(family) \ {r})
      /\ Cardinality(Waiting(family) \ {r}) \in Nat
  BY Counted, FS_RemoveElement, FS_CardinalityType
<1>3. /\ Cardinality(Files!Rows(family)') <= Cardinality(Files!Rows(family) \cup {i})
      /\ Cardinality(Waiting(family)') <= Cardinality(Waiting(family) \ {r})
  BY <1>1, <1>2, FS_Subset
<1>4. CountCap \in Nat
  BY FilesAssumption DEF Files!DefinitionsAssumption
<1> QED  BY <1>1, <1>2, <1>3, <1>4, Counted, CountedAfter DEF RoomTaken

\* A request that has found room goes on, or gives up: its kind stays.
LEMMA WaitsOn ==
    ASSUME FilesInv, NEW family, RoomTaken(family), NEW r \in Requests,
           NEW n \in FileSlot, freq' = [freq EXCEPT ![r] = n],
           \A i \in Items : frows'[i] \in {frows[i], None},
           n.pc \in {"sum", "store", "create"} =>
              /\ freq[r].pc \in {"sum", "store", "create"} \/ n.row.kind \notin family
              /\ n.row = freq[r].row \/ n.row.kind \notin family
    PROVE  RoomTaken(family)'
<1>1. freq \in [Requests -> FileSlot]
  BY FileTypes DEF FilesInv
<1>2. \A q \in Requests : freq'[q] = IF q = r THEN n ELSE freq[q]
  BY <1>1
<1>3. Waiting(family)' \subseteq Waiting(family)
  BY <1>2 DEF Waiting
<1>4. Files!Rows(family)' \subseteq Files!Rows(family)
  BY DEF Files!Rows
<1> QED  BY <1>3, <1>4, NoneAdded

LEMMA CountRoom ==
    ASSUME FilesInv, NEW family \in Families, RoomTaken(family), NEW r \in Requests,
           Files!Count(r)
    PROVE  RoomTaken(family)'
<1>1. freq[r].pc = "count" /\ UNCHANGED <<ftask, frows, files, disturbed>>
  BY DEF Files!Count
<1>2. freq \in [Requests -> FileSlot]
  BY FileTypes DEF FilesInv
<1>3. Files!Rows(family)' = Files!Rows(family)
  BY <1>1 DEF Files!Rows
<1>4. CASE ~Files!HasRoom(freq[r].row.kind)
  <2> DEFINE n == Files!Idle
  <2>1. freq' = [freq EXCEPT ![r] = n]
    BY <1>4 DEF Files!Count, Files!Reply
  <2>2. n \in FileSlot /\ n.pc = "idle"
    BY IdleFile
  <2> HIDE DEF n
  <2> QED  BY <1>1, <2>1, <2>2, WaitsOn
<1>5. CASE Files!HasRoom(freq[r].row.kind) /\ freq[r].row.kind \in family
  <2>1. Files!Family(freq[r].row.kind) = family
    BY <1>5, FamilyOf
  <2>2. Cardinality(Files!Rows(family)) < CountCap
    BY <1>5, <2>1, SizeIs DEF Files!HasRoom
  <2> QED  BY <1>3, <2>2, OneAdmitted
<1>6. CASE Files!HasRoom(freq[r].row.kind) /\ freq[r].row.kind \notin family
  <2> DEFINE pc == IF freq[r].row.kind = "link" THEN "create" ELSE "sum"
             n == [freq[r] EXCEPT !.pc = pc]
  <2>1. freq' = [freq EXCEPT ![r] = n]
    BY <1>6 DEF Files!Count, Files!Go
  <2>2. n \in FileSlot /\ n.pc = pc /\ n.row = freq[r].row /\ n.ids = freq[r].ids
    BY GoSlot DEF FilesInv
  <2> HIDE DEF n
  <2> QED  BY <1>1, <1>6, <2>1, <2>2, WaitsOn
<1> QED  BY <1>4, <1>5, <1>6

\* Whatever becomes of the row, the request ends, or takes its file back.
LEMMA CreateSlot ==
    ASSUME FilesInv, NEW r \in Requests, Files!Create(r)
    PROVE  /\ \E n \in FileSlot : freq' = [freq EXCEPT ![r] = n] /\ n.pc \in {"idle", "unlink"}
           /\ \/ UNCHANGED frows
              \/ \E i \in Items : frows' = [frows EXCEPT ![i] = freq[r].row]
<1>1. Files!Abandon(r) \/ Files!Reply(r)
  BY DEF Files!Create
<1>2. CASE Files!Reply(r)
  BY <1>2, IdleFile DEF Files!Create, Files!Reply
<1>3. CASE ~Files!Reply(r)
  <2> DEFINE m == [freq[r] EXCEPT !.pc = "unlink"]
  <2>1. freq' = [freq EXCEPT ![r] = m]
    BY <1>1, <1>3 DEF Files!Abandon, Files!Go
  <2>2. m \in FileSlot /\ m.pc = "unlink"
    BY GoSlot DEF FilesInv
  <2> HIDE DEF m
  <2> QED  BY <2>1, <2>2 DEF Files!Create
<1> QED  BY <1>2, <1>3

LEMMA CreateRoom ==
    ASSUME FilesInv, NEW family \in Families, RoomTaken(family), NEW r \in Requests,
           Files!Create(r)
    PROVE  RoomTaken(family)'
<1>1. freq[r].pc = "create" /\ freq[r] \in FileSlot /\ freq \in [Requests -> FileSlot]
      /\ frows \in [Items -> Files!Row \cup {None}]
  BY FileTypes DEF FilesInv, Files!Create
<1>2. CASE UNCHANGED frows
  <2>1. PICK n \in FileSlot : freq' = [freq EXCEPT ![r] = n] /\ n.pc \in {"idle", "unlink"}
    BY CreateSlot
  <2> QED  BY <1>2, <2>1, WaitsOn
<1>3. CASE ~UNCHANGED frows
  <2>1. PICK i \in Items : frows' = [frows EXCEPT ![i] = freq[r].row]
    BY <1>3, CreateSlot
  <2>2. PICK n \in FileSlot : freq' = [freq EXCEPT ![r] = n] /\ n.pc \in {"idle", "unlink"}
    BY CreateSlot
  <2>3. /\ \A q \in Requests \ {r} : freq'[q] = freq[q]
        /\ freq'[r].pc \in {"idle", "unlink"}
    BY <1>1, <2>2
  <2>4. Waiting(family)' \subseteq Waiting(family) \ {r}
    BY <2>3 DEF Waiting
  <2>5. \A j \in Items : frows'[j] = IF j = i THEN freq[r].row ELSE frows[j]
    BY <1>1, <2>1
  <2>6. CASE freq[r].row.kind \in family
    <3>1. r \in Waiting(family)
      BY <1>1, <2>6 DEF Waiting
    <3>2. Files!Rows(family)' \subseteq Files!Rows(family) \cup {i}
      BY <2>5 DEF Files!Rows
    <3> QED  BY <2>4, <3>1, <3>2, OneTaken
  <2>7. CASE freq[r].row.kind \notin family
    <3>1. Files!Rows(family)' \subseteq Files!Rows(family)
      BY <2>5, <2>7 DEF Files!Rows
    <3> QED  BY <2>4, <3>1, NoneAdded
  <2> QED  BY <2>6, <2>7
<1> QED  BY <1>2, <1>3

\* What a step does that neither checks a cap nor writes a row: it takes rows
\* away at most, and what waits for a cap, or has passed one, stays what it is.
\* Comments have no cap, and a link is counted but not weighed.
Shape(r, n) ==
    /\ n \in FileSlot /\ freq' = [freq EXCEPT ![r] = n]
    /\ \A i \in Items : frows'[i] \in {frows[i], None}
    /\ n.pc \in {"sum", "store", "create"} =>
          \/ n.row.kind = "comment"
          \/ freq[r].pc \in {"sum", "store", "create"} /\ n.row = freq[r].row
    /\ n.pc \in {"store", "create"} =>
          n.row.kind = "comment" \/ freq[r].pc \in {"store", "create"}
    /\ n.pc = "count" /\ n.row.kind = "link" => n.row.size = 0

LEMMA OthersShape ==
    ASSUME FilesInv, NEW r \in Requests,
           \/ Files!Store(r) \/ Files!DeleteRow(r) \/ Files!DeleteTaskRead(r)
           \/ Files!DeleteTask(r) \/ Files!Unlink(r)
           \/ \E kind \in Files!Kinds, size \in Files!Sizes \cup {0} : Files!Post(r, kind, size)
           \/ \E i \in Items : Files!Delete(r, i)
    PROVE  \E n : Shape(r, n)
<1>1. freq \in [Requests -> FileSlot] /\ frows \in [Items -> Files!Row \cup {None}]
  BY FileTypes DEF FilesInv
<1>2. ASSUME NEW n \in FileSlot, freq' = [freq EXCEPT ![r] = n],
             \A i \in Items : frows'[i] \in {frows[i], None},
             \/ n.pc \notin {"count", "sum", "store", "create"}
             \/ n.pc = "create" /\ freq[r].pc = "store" /\ n.row = freq[r].row
      PROVE  \E m : Shape(r, m)
  BY <1>2 DEF Shape
<1>3. ASSUME Files!Reply(r), \A i \in Items : frows'[i] \in {frows[i], None}
      PROVE  \E m : Shape(r, m)
  BY <1>2, <1>3, IdleFile DEF Files!Reply
<1>4. ASSUME Files!Go(r, "unlink"), \A i \in Items : frows'[i] \in {frows[i], None}
      PROVE  \E m : Shape(r, m)
  <2> DEFINE n == [freq[r] EXCEPT !.pc = "unlink"]
  <2>1. freq' = [freq EXCEPT ![r] = n]
    BY <1>4 DEF Files!Go
  <2>2. n \in FileSlot /\ n.pc = "unlink"
    BY GoSlot DEF FilesInv
  <2> HIDE DEF n
  <2> QED  BY <1>2, <1>4, <2>1, <2>2
<1>5. CASE Files!Store(r) /\ Files!Reply(r)
  BY <1>3, <1>5 DEF Files!Store
<1>6. CASE Files!Store(r) /\ ~Files!Reply(r)
  <2>1. PICK i \in Items : freq' = [freq EXCEPT ![r].pc = "create", ![r].ids = {i}]
    BY <1>6 DEF Files!Store
  <2> DEFINE n == [freq[r] EXCEPT !.pc = "create", !.ids = {i}]
  <2>2. freq' = [freq EXCEPT ![r] = n]
    BY <2>1
  <2>3. n \in FileSlot /\ n.row = freq[r].row /\ n.pc = "create"
    <3>1. ASSUME NEW s \in FileSlot, NEW m, m = [s EXCEPT !.pc = "create", !.ids = {i}]
          PROVE  m \in FileSlot /\ m.row = s.row /\ m.pc = "create"
      BY <3>1 DEF FileSlot
    <3> QED  BY <1>1, <3>1
  <2> HIDE DEF n
  <2>4. freq[r].pc = "store" /\ UNCHANGED frows
    BY <1>6 DEF Files!Store
  <2> QED  BY <1>2, <2>2, <2>3, <2>4
<1>7. CASE Files!DeleteRow(r)
  <2>1. PICK i \in freq[r].ids : frows' = frows \/ frows' = [frows EXCEPT ![i] = None]
    BY <1>7 DEF Files!DeleteRow
  <2>2. \A j \in Items : frows'[j] \in {frows[j], None}
    BY <1>1, <2>1
  <2>3. Files!Reply(r) \/ Files!Go(r, "unlink")
    BY <1>7 DEF Files!DeleteRow, Files!RowsGone
  <2> QED  BY <1>3, <1>4, <2>2, <2>3
<1>8. CASE Files!DeleteTask(r)
  <2>1. \A j \in Items : frows'[j] \in {frows[j], None}
    BY <1>8 DEF Files!DeleteTask
  <2>2. Files!Reply(r) \/ Files!Go(r, "unlink")
    BY <1>8 DEF Files!DeleteTask, Files!RowsGone
  <2> QED  BY <1>3, <1>4, <2>1, <2>2
<1>9. CASE Files!DeleteTaskRead(r)
  <2> DEFINE n == [Files!Idle EXCEPT !.pc = "deleteTask", !.ids = Files!Rows({"upload"})]
  <2>1. freq' = [freq EXCEPT ![r] = n] /\ UNCHANGED frows
    BY <1>9 DEF Files!DeleteTaskRead
  <2>2. Files!Rows({"upload"}) \subseteq Items
    BY DEF Files!Rows
  <2>3. n \in FileSlot /\ n.pc = "deleteTask"
    BY <2>2 DEF FileSlot, Files!Idle
  <2> HIDE DEF n
  <2> QED  BY <1>2, <2>1, <2>3
<1>10. CASE Files!Unlink(r)
  <2>1. PICK i \in freq[r].ids : IF freq[r].ids = {i} THEN Files!Reply(r)
                                 ELSE freq' = [freq EXCEPT ![r].ids = @ \ {i}]
    BY <1>10 DEF Files!Unlink
  <2>2. freq[r].pc = "unlink" /\ UNCHANGED frows
    BY <1>10 DEF Files!Unlink
  <2>3. CASE freq[r].ids = {i}
    BY <1>3, <2>1, <2>2, <2>3
  <2>4. CASE freq[r].ids # {i}
    <3> DEFINE n == [freq[r] EXCEPT !.ids = @ \ {i}]
    <3>1. freq' = [freq EXCEPT ![r] = n]
      BY <2>1, <2>4
    <3>2. n \in FileSlot /\ n.pc = freq[r].pc
      <4>1. ASSUME NEW s \in FileSlot, NEW m, m = [s EXCEPT !.ids = @ \ {i}]
            PROVE  m \in FileSlot /\ m.pc = s.pc
        BY <4>1 DEF FileSlot
      <4> QED  BY <1>1, <4>1
    <3> HIDE DEF n
    <3> QED  BY <1>2, <2>2, <3>1, <3>2
  <2> QED  BY <2>3, <2>4
<1>11. ASSUME NEW kind \in Files!Kinds, NEW size \in Files!Sizes \cup {0},
              Files!Post(r, kind, size)
       PROVE  \E m : Shape(r, m)
  <2> DEFINE row == [kind |-> kind, size |-> size]
             pc == IF kind = "comment" THEN "create" ELSE "count"
             n == [Files!Idle EXCEPT !.pc = pc, !.row = row]
  <2>1. freq' = [freq EXCEPT ![r] = n] /\ UNCHANGED frows /\ (kind = "link" => size = 0)
    BY <1>11 DEF Files!Post
  <2>2. row \in Files!Row /\ row.kind = kind /\ row.size = size
    BY DEF Files!Row
  <2> HIDE DEF row
  <2>3. n \in FileSlot /\ n.pc = pc /\ n.row = row
    BY <2>2 DEF FileSlot, Files!Idle
  <2> HIDE DEF n
  <2>4. Shape(r, n)
    BY <2>1, <2>2, <2>3 DEF Shape
  <2> QED  BY <2>4
<1>12. ASSUME NEW i \in Items, Files!Delete(r, i)
       PROVE  \E m : Shape(r, m)
  <2> DEFINE n == [Files!Idle EXCEPT !.pc = "deleteRow", !.ids = {i}]
  <2>1. freq' = [freq EXCEPT ![r] = n] /\ UNCHANGED frows
    BY <1>12 DEF Files!Delete
  <2>2. n \in FileSlot /\ n.pc = "deleteRow"
    BY DEF FileSlot, Files!Idle
  <2> HIDE DEF n
  <2> QED  BY <1>2, <2>1, <2>2
<1> QED  BY <1>5, <1>6, <1>7, <1>8, <1>9, <1>10, <1>11, <1>12

\* The sum of the bytes is checked: the slot goes on to write, or gives up.
LEMMA SumSlot ==
    ASSUME FilesInv, NEW r \in Requests, Files!Sum(r)
    PROVE  \E n \in FileSlot :
              /\ freq' = [freq EXCEPT ![r] = n] /\ UNCHANGED frows
              /\ \/ n.pc = "idle"
                 \/ /\ n.pc \in {"store", "create"} /\ n.row = freq[r].row
                    /\ Files!Fits(freq[r].row)
<1>1. CASE ~Files!Fits(freq[r].row)
  BY <1>1, IdleFile DEF Files!Sum, Files!Reply
<1>2. CASE Files!Fits(freq[r].row)
  <2> DEFINE pc == IF freq[r].row.kind = "upload" THEN "store" ELSE "create"
             n == [freq[r] EXCEPT !.pc = pc]
  <2>1. freq' = [freq EXCEPT ![r] = n] /\ UNCHANGED frows
    BY <1>2 DEF Files!Sum, Files!Go
  <2>2. n \in FileSlot /\ n.pc = pc /\ n.row = freq[r].row
    BY GoSlot DEF FilesInv
  <2> HIDE DEF n
  <2> QED  BY <1>2, <2>1, <2>2
<1> QED  BY <1>1, <1>2

LEMMA OthersRoom ==
    ASSUME FilesInv, NEW family \in Families, RoomTaken(family), NEW r \in Requests,
           Files!Sum(r) \/ \E n : Shape(r, n)
    PROVE  RoomTaken(family)'
<1>1. CASE \E n : Shape(r, n)
  <2>1. PICK n : Shape(r, n)
    BY <1>1
  <2>2. n.pc \in {"sum", "store", "create"} =>
           /\ freq[r].pc \in {"sum", "store", "create"} \/ n.row.kind \notin family
           /\ n.row = freq[r].row \/ n.row.kind \notin family
    BY <2>1, FamilyOf DEF Shape
  <2> QED  BY <2>1, <2>2, WaitsOn DEF Shape
<1>2. CASE Files!Sum(r)
  <2>1. PICK n \in FileSlot : /\ freq' = [freq EXCEPT ![r] = n] /\ UNCHANGED frows
                              /\ n.pc = "idle" \/ n.row = freq[r].row
    BY <1>2, SumSlot
  <2>2. freq[r].pc = "sum"
    BY <1>2 DEF Files!Sum
  <2> QED  BY <2>1, <2>2, WaitsOn
<1> QED  BY <1>1, <1>2

\* Every step of a request but the three that check a cap or write a row is of
\* that shape.
LEMMA StepShapes ==
    ASSUME FilesInv, [Files!Next]_(Files!vars)
    PROVE  \/ UNCHANGED <<frows, freq>>
           \/ UNCHANGED frows /\ \A r \in Requests : freq'[r] = Files!Idle
           \/ \E r \in Requests : \/ Files!Count(r) \/ Files!Sum(r) \/ Files!Create(r)
                                 \/ \E n : Shape(r, n)
<1>1. CASE Files!Merge \/ UNCHANGED Files!vars
  BY <1>1 DEF Files!Merge, Files!vars
<1>2. CASE Files!Crash
  BY <1>2 DEF Files!Crash
<1>3. ASSUME NEW r \in Requests,
             \/ \E kind \in Files!Kinds, size \in Files!Sizes \cup {0} : Files!Post(r, kind, size)
             \/ Files!Count(r) \/ Files!Sum(r) \/ Files!Store(r) \/ Files!Create(r)
             \/ \E i \in Items : Files!Delete(r, i)
             \/ Files!DeleteRow(r) \/ Files!DeleteTaskRead(r) \/ Files!DeleteTask(r)
             \/ Files!Unlink(r)
      PROVE  \/ Files!Count(r) \/ Files!Sum(r) \/ Files!Create(r)
             \/ \E n : Shape(r, n)
  BY <1>3, OthersShape
<1> QED  BY <1>1, <1>2, <1>3 DEF Files!Next

LEMMA RoomKept ==
    ASSUME FilesInv, NEW family \in Families, RoomTaken(family), [Files!Next]_(Files!vars)
    PROVE  RoomTaken(family)'
<1>1. CASE UNCHANGED <<frows, freq>>
  BY <1>1, NoneAdded DEF Files!Rows, Waiting
<1>2. CASE UNCHANGED frows /\ \A r \in Requests : freq'[r] = Files!Idle
  BY <1>2, IdleFile, NoneAdded DEF Files!Rows, Waiting
<1> QED  BY <1>1, <1>2, StepShapes, CountRoom, CreateRoom, OthersRoom

-----------------------------------------------------------------------------
(* Bytes.                                                                  *)

\* The bytes of a family, and those of the requests whose row was found to fit.
Stored(family) == {b \in Files!Rows(family) \X Files!Sizes : b[2] <= frows[b[1]].size}
Weighed(family) ==
    {b \in Requests \X Files!Sizes : /\ freq[b[1]].pc \in {"store", "create"}
                                     /\ freq[b[1]].row.kind \in family
                                     /\ b[2] <= freq[b[1]].row.size}

Slack == (Cardinality(Requests) - 1) * MaxSize

BytesTaken(family) ==
    Cardinality(Stored(family)) + Cardinality(Weighed(family)) <= BytesCap + Slack

\* A link, which goes from the count straight to the row, has no bytes.
LinksEmpty ==
    \A r \in Requests : freq[r].pc = "count" /\ freq[r].row.kind = "link" => freq[r].row.size = 0

LEMMA Caps ==
    /\ BytesCap \in Nat /\ MaxSize \in Nat /\ Cardinality(Requests) \in Nat \ {0}
    /\ Slack \in Nat
    /\ IsFiniteSet(Items) /\ IsFiniteSet(Requests)
    /\ IsFiniteSet(Files!Sizes) /\ Cardinality(Files!Sizes) = MaxSize
    /\ Files!Sizes \subseteq Nat \ {0}
<1>1. /\ BytesCap \in Nat /\ MaxSize \in Nat
      /\ IsFiniteSet(Items) /\ IsFiniteSet(Requests) /\ Requests # {}
  BY FilesAssumption, FiniteIs DEF Files!DefinitionsAssumption
<1>2. Cardinality(Requests) \in Nat \ {0}
  BY <1>1, FS_CardinalityType, FS_EmptySet
<1>3. Slack \in Nat
  <2>1. \A n \in Nat \ {0}, m \in Nat : (n - 1) * m \in Nat
    OBVIOUS
  <2> QED  BY <1>1, <1>2, <2>1 DEF Slack
<1>4. IsFiniteSet(Files!Sizes) /\ Cardinality(Files!Sizes) = MaxSize
  BY <1>1, FS_Interval DEF Files!Sizes
<1> QED  BY <1>1, <1>2, <1>3, <1>4 DEF Files!Sizes

LEMMA Weights ==
    ASSUME NEW family
    PROVE  /\ IsFiniteSet(Stored(family)) /\ IsFiniteSet(Weighed(family))
           /\ Cardinality(Stored(family)) \in Nat /\ Cardinality(Weighed(family)) \in Nat
<1>1. IsFiniteSet(Items \X Files!Sizes) /\ IsFiniteSet(Requests \X Files!Sizes)
  BY Caps, FS_Product
<1>2. /\ Stored(family) \subseteq Items \X Files!Sizes
      /\ Weighed(family) \subseteq Requests \X Files!Sizes
  BY DEF Stored, Weighed, Files!Rows
<1> QED  BY <1>1, <1>2, FS_Subset, FS_CardinalityType

LEMMA WeightsAfter ==
    ASSUME NEW family
    PROVE  /\ IsFiniteSet(Stored(family)') /\ IsFiniteSet(Weighed(family)')
           /\ Cardinality(Stored(family)') \in Nat /\ Cardinality(Weighed(family)') \in Nat
<1>1. IsFiniteSet(Items \X Files!Sizes) /\ IsFiniteSet(Requests \X Files!Sizes)
  BY Caps, FS_Product
<1>2. /\ Stored(family)' \subseteq Items \X Files!Sizes
      /\ Weighed(family)' \subseteq Requests \X Files!Sizes
  BY DEF Stored, Weighed, Files!Rows
<1> QED  BY <1>1, <1>2, FS_Subset, FS_CardinalityType

\* The bytes of one row, be it a request's or one of the task.
LEMMA RowBytes ==
    ASSUME NEW x, NEW size \in Files!Sizes \cup {0}
    PROVE  /\ IsFiniteSet({x} \X (1 .. size)) /\ Cardinality({x} \X (1 .. size)) = size
           /\ 1 .. size \subseteq Files!Sizes /\ size \in Nat
<1>1. size \in Nat /\ 1 .. size \subseteq Files!Sizes
  BY Caps DEF Files!Sizes
<1>2. IsFiniteSet(1 .. size) /\ Cardinality(1 .. size) = size
  BY <1>1, FS_Interval
<1>3. /\ IsFiniteSet({x} \X (1 .. size))
      /\ Cardinality({x} \X (1 .. size)) = Cardinality({x}) * Cardinality(1 .. size)
  BY <1>2, FS_Singleton, FS_Product
<1>4. Cardinality({x} \X (1 .. size)) = 1 * size
  BY <1>2, <1>3, FS_Singleton
<1> QED  BY <1>1, <1>3, <1>4

LEMMA NoByteAdded ==
    ASSUME NEW family, BytesTaken(family), Stored(family)' \subseteq Stored(family),
           Weighed(family)' \subseteq Weighed(family)
    PROVE  BytesTaken(family)'
<1>1. /\ Cardinality(Stored(family)') <= Cardinality(Stored(family))
      /\ Cardinality(Weighed(family)') <= Cardinality(Weighed(family))
  BY Weights, FS_Subset
<1> QED  BY <1>1, Weights, WeightsAfter, Caps DEF BytesTaken, Slack

\* A slot that does not come to hold what was found to fit: its row is of
\* another family, has no bytes, or was weighed before.
LEMMA BytesOn ==
    ASSUME FilesInv, NEW family, BytesTaken(family), NEW r \in Requests,
           NEW n \in FileSlot, freq' = [freq EXCEPT ![r] = n],
           \A i \in Items : frows'[i] \in {frows[i], None},
           n.pc \in {"store", "create"} =>
              \/ freq[r].pc \in {"store", "create"} /\ n.row = freq[r].row
              \/ n.row.kind \notin family
              \/ n.row.size = 0
    PROVE  BytesTaken(family)'
<1>1. \A q \in Requests : freq'[q] = IF q = r THEN n ELSE freq[q]
  BY FileTypes DEF FilesInv
<1>2. Weighed(family)' \subseteq Weighed(family)
  <2> SUFFICES ASSUME NEW q \in Requests, NEW k \in Files!Sizes,
                      freq'[q].pc \in {"store", "create"},
                      freq'[q].row.kind \in family, k <= freq'[q].row.size
               PROVE  <<q, k>> \in Weighed(family)
    BY DEF Weighed
  <2>1. CASE q = r
    <3>1. n.row.size # 0
      BY <1>1, <2>1, Caps
    <3> QED  BY <1>1, <2>1, <3>1 DEF Weighed
  <2>2. CASE q # r
    BY <1>1, <2>2 DEF Weighed
  <2> QED  BY <2>1, <2>2
<1>3. Stored(family)' \subseteq Stored(family)
  <2> SUFFICES ASSUME NEW i \in Items, NEW k \in Files!Sizes,
                      frows'[i] # None, frows'[i].kind \in family, k <= frows'[i].size
               PROVE  <<i, k>> \in Stored(family)
    BY DEF Stored, Files!Rows
  <2>1. frows'[i] = frows[i]
    OBVIOUS
  <2> QED  BY <2>1 DEF Stored, Files!Rows
<1> QED  BY <1>2, <1>3, NoByteAdded

\* A row is found to fit next to what is there; whatever waits beside it are the
\* rows of the other requests.
LEMMA SumBytes ==
    ASSUME FilesInv, NEW family \in Families, BytesTaken(family), NEW r \in Requests,
           Files!Sum(r)
    PROVE  BytesTaken(family)'
<1>1. PICK n \in FileSlot :
         /\ freq' = [freq EXCEPT ![r] = n] /\ UNCHANGED frows
         /\ \/ n.pc = "idle"
            \/ /\ n.pc \in {"store", "create"} /\ n.row = freq[r].row
               /\ Files!Fits(freq[r].row)
  BY SumSlot
<1>2. CASE n.pc = "idle" \/ n.row.kind \notin family
  BY <1>1, <1>2, BytesOn
<1>3. CASE n.pc # "idle" /\ n.row.kind \in family
  <2> DEFINE size == n.row.size
             mine == {r} \X (1 .. size)
             theirs == (Requests \ {r}) \X Files!Sizes
  <2>1. size \in Files!Sizes \cup {0}
    <3>1. freq[r].pc = "sum"
      BY DEF Files!Sum
    <3>2. n.row = freq[r].row /\ freq[r].row \in Files!Row
      BY <1>1, <1>3, <3>1 DEF FilesInv, Fitting
    <3> QED  BY <3>2 DEF Files!Row
  <2>2. Cardinality(Stored(family)) + size <= BytesCap
    <3>1. Files!Family(n.row.kind) = family
      BY <1>3, FamilyOf
    <3>2. Files!Cardinality(Stored(family)) + size <= BytesCap
      BY <1>1, <1>3, <3>1 DEF Files!Fits, Files!Bytes, Stored
    <3> QED  BY <3>2, SizeIs
  <2>3. Stored(family)' = Stored(family)
    BY <1>1 DEF Stored, Files!Rows
  <2>4. Weighed(family)' \subseteq mine \cup theirs
    <3>1. \A q \in Requests : freq'[q] = IF q = r THEN n ELSE freq[q]
      BY <1>1, FileTypes DEF FilesInv
    <3> SUFFICES ASSUME NEW q \in Requests, NEW k \in Files!Sizes, k <= freq'[q].row.size
                 PROVE  <<q, k>> \in mine \cup theirs
      BY DEF Weighed
    <3>2. CASE q = r
      BY <2>1, <3>1, <3>2, Caps
    <3>3. CASE q # r
      BY <3>3
    <3> QED  BY <3>2, <3>3
  <2>5. IsFiniteSet(mine) /\ Cardinality(mine) = size /\ size \in Nat
    BY <2>1, RowBytes
  <2>6. IsFiniteSet(theirs) /\ Cardinality(theirs) = Slack
    <3>1. /\ IsFiniteSet(Requests \ {r})
          /\ Cardinality(Requests \ {r}) = Cardinality(Requests) - 1
      BY Caps, FS_RemoveElement
    <3> QED  BY <3>1, Caps, FS_Product DEF Slack
  <2> HIDE DEF mine, theirs
  <2>7. /\ IsFiniteSet(mine \cup theirs)
        /\ Cardinality(mine \cup theirs) <= size + Slack
    <3>1. /\ IsFiniteSet(mine \cup theirs) /\ IsFiniteSet(mine \cap theirs)
          /\ Cardinality(mine \cup theirs)
                = Cardinality(mine) + Cardinality(theirs) - Cardinality(mine \cap theirs)
      BY <2>5, <2>6, FS_Union, FS_Intersection
    <3>2. Cardinality(mine \cap theirs) \in Nat
      BY <3>1, FS_CardinalityType
    <3> HIDE DEF size
    <3> QED  BY <2>5, <2>6, <3>1, <3>2, Caps
  <2>8. Cardinality(Weighed(family)') <= size + Slack
    <3>1. /\ Cardinality(Weighed(family)') <= Cardinality(mine \cup theirs)
          /\ Cardinality(mine \cup theirs) \in Nat
      BY <2>4, <2>7, FS_Subset, FS_CardinalityType
    <3> HIDE DEF size
    <3> QED  BY <2>5, <2>7, <3>1, Caps, WeightsAfter
  <2>9. Slack' = Slack
    BY DEF Slack
  <2> HIDE DEF size
  <2> QED  BY <2>2, <2>3, <2>5, <2>8, <2>9, Caps, Weights, WeightsAfter DEF BytesTaken
<1> QED  BY <1>2, <1>3

\* A request that weighed writes its row: its bytes are stored now.
LEMMA CreateBytes ==
    ASSUME FilesInv, NEW family \in Families, BytesTaken(family), NEW r \in Requests,
           Files!Create(r)
    PROVE  BytesTaken(family)'
<1>1. freq[r].pc = "create" /\ freq[r] \in FileSlot /\ freq \in [Requests -> FileSlot]
      /\ frows \in [Items -> Files!Row \cup {None}] /\ freq[r].row \in Files!Row
  BY FileTypes DEF FilesInv, Fitting, Files!Create
<1>2. CASE UNCHANGED frows
  <2>1. PICK n \in FileSlot : freq' = [freq EXCEPT ![r] = n] /\ n.pc \in {"idle", "unlink"}
    BY CreateSlot
  <2> QED  BY <1>2, <2>1, BytesOn
<1>3. CASE ~UNCHANGED frows
  <2>1. PICK i \in Items : frows' = [frows EXCEPT ![i] = freq[r].row]
    BY <1>3, CreateSlot
  <2>2. PICK n \in FileSlot : freq' = [freq EXCEPT ![r] = n] /\ n.pc \in {"idle", "unlink"}
    BY CreateSlot
  <2>3. (\A q \in Requests \ {r} : freq'[q] = freq[q]) /\ freq'[r].pc \in {"idle", "unlink"}
    BY <1>1, <2>2
  <2>4. \A j \in Items : frows'[j] = IF j = i THEN freq[r].row ELSE frows[j]
    BY <1>1, <2>1
  <2>5. CASE freq[r].row.kind \notin family
    <3>1. Weighed(family)' \subseteq Weighed(family)
      BY <2>3 DEF Weighed
    <3>2. Stored(family)' \subseteq Stored(family)
      <4> SUFFICES ASSUME NEW j \in Items, NEW k \in Files!Sizes,
                          frows'[j] # None, frows'[j].kind \in family, k <= frows'[j].size
                   PROVE  <<j, k>> \in Stored(family)
        BY DEF Stored, Files!Rows
      <4>1. frows'[j] = frows[j]
        BY <2>4, <2>5
      <4> QED  BY <4>1 DEF Stored, Files!Rows
    <3> QED  BY <3>1, <3>2, NoByteAdded
  <2>6. CASE freq[r].row.kind \in family
    <3> DEFINE size == freq[r].row.size
               mine == {r} \X (1 .. size)
               its == {i} \X (1 .. size)
    <3>1. size \in Files!Sizes \cup {0}
      BY <1>1 DEF Files!Row
    <3>2. /\ IsFiniteSet(mine) /\ Cardinality(mine) = size /\ size \in Nat
          /\ IsFiniteSet(its) /\ Cardinality(its) = size /\ 1 .. size \subseteq Files!Sizes
      BY <3>1, RowBytes
    <3>3. mine \subseteq Weighed(family)
      <4> SUFFICES ASSUME NEW k \in 1 .. size PROVE <<r, k>> \in Weighed(family)
        OBVIOUS
      <4>1. k \in Files!Sizes /\ k <= size
        BY <3>2
      <4> HIDE DEF mine, its
      <4> QED  BY <1>1, <2>6, <4>1 DEF Weighed
    <3>4. Weighed(family)' \subseteq Weighed(family) \ mine
      <4> SUFFICES ASSUME NEW q \in Requests, NEW k \in Files!Sizes,
                          freq'[q].pc \in {"store", "create"},
                          freq'[q].row.kind \in family, k <= freq'[q].row.size
                   PROVE  <<q, k>> \in Weighed(family) \ mine
        BY DEF Weighed
      <4>1. q # r
        BY <2>3
      <4> QED  BY <2>3, <4>1 DEF Weighed
    <3>5. Stored(family)' \subseteq Stored(family) \cup its
      <4> SUFFICES ASSUME NEW j \in Items, NEW k \in Files!Sizes,
                          frows'[j] # None, frows'[j].kind \in family, k <= frows'[j].size
                   PROVE  <<j, k>> \in Stored(family) \cup its
        BY DEF Stored, Files!Rows
      <4>1. CASE j = i
        <5>1. k \in 1 .. size
          BY <2>4, <3>2, <4>1, Caps
        <5> QED  BY <4>1, <5>1
      <4>2. CASE j # i
        BY <2>4, <4>2 DEF Stored, Files!Rows
      <4> QED  BY <4>1, <4>2
    <3> HIDE DEF size, mine, its
    <3>6. Cardinality(Weighed(family)') <= Cardinality(Weighed(family)) - size
      <4>1. Weighed(family) \cap mine = mine
        BY <3>3
      <4>2. /\ IsFiniteSet(Weighed(family) \ mine)
            /\ Cardinality(Weighed(family) \ mine)
                  = Cardinality(Weighed(family)) - Cardinality(Weighed(family) \cap mine)
        BY Weights, FS_Difference
      <4>3. Cardinality(Weighed(family)') <= Cardinality(Weighed(family) \ mine)
        BY <3>4, <4>2, FS_Subset
      <4>4. Cardinality(Weighed(family) \cap mine) = size
        BY <3>2, <4>1
      <4> QED  BY <4>2, <4>3, <4>4
    <3>7. Cardinality(Stored(family)') <= Cardinality(Stored(family)) + size
      <4>1. /\ IsFiniteSet(Stored(family) \cup its) /\ IsFiniteSet(Stored(family) \cap its)
            /\ Cardinality(Stored(family) \cup its)
                  = Cardinality(Stored(family)) + size - Cardinality(Stored(family) \cap its)
        BY <3>2, Weights, FS_Union, FS_Intersection
      <4>2. /\ Cardinality(Stored(family) \cap its) \in Nat
            /\ Cardinality(Stored(family)') <= Cardinality(Stored(family) \cup its)
            /\ Cardinality(Stored(family) \cup its) \in Nat
        BY <3>5, <4>1, FS_Subset, FS_CardinalityType
      <4> QED  BY <3>2, <4>1, <4>2, Weights, WeightsAfter
    <3>8. Slack' = Slack
      BY DEF Slack
    <3> QED  BY <3>2, <3>6, <3>7, <3>8, Caps, Weights, WeightsAfter DEF BytesTaken
  <2> QED  BY <2>5, <2>6
<1> QED  BY <1>2, <1>3

\* Only a link goes from the count to the row, and it has no bytes.
LEMMA CountBytes ==
    ASSUME FilesInv, LinksEmpty, NEW family, BytesTaken(family), NEW r \in Requests,
           Files!Count(r)
    PROVE  BytesTaken(family)'
<1>1. freq[r].pc = "count" /\ UNCHANGED frows
  BY DEF Files!Count
<1>2. CASE ~Files!HasRoom(freq[r].row.kind)
  <2> DEFINE n == Files!Idle
  <2>1. freq' = [freq EXCEPT ![r] = n]
    BY <1>2 DEF Files!Count, Files!Reply
  <2>2. n \in FileSlot /\ n.pc = "idle"
    BY IdleFile
  <2> HIDE DEF n
  <2> QED  BY <1>1, <2>1, <2>2, BytesOn
<1>3. CASE Files!HasRoom(freq[r].row.kind)
  <2> DEFINE pc == IF freq[r].row.kind = "link" THEN "create" ELSE "sum"
             n == [freq[r] EXCEPT !.pc = pc]
  <2>1. freq' = [freq EXCEPT ![r] = n]
    BY <1>3 DEF Files!Count, Files!Go
  <2>2. n \in FileSlot /\ n.pc = pc /\ n.row = freq[r].row
    BY GoSlot DEF FilesInv
  <2>3. n.pc \in {"store", "create"} => n.row.size = 0
    BY <1>1, <2>2 DEF LinksEmpty
  <2> HIDE DEF n
  <2> QED  BY <1>1, <2>1, <2>2, <2>3, BytesOn
<1> QED  BY <1>2, <1>3

LEMMA ShapeBytes ==
    ASSUME FilesInv, NEW family \in Families, BytesTaken(family), NEW r \in Requests,
           NEW n, Shape(r, n)
    PROVE  BytesTaken(family)'
<1>1. n.pc \in {"store", "create"} =>
         \/ freq[r].pc \in {"store", "create"} /\ n.row = freq[r].row
         \/ n.row.kind \notin family
  BY FamilyOf DEF Shape
<1> QED  BY <1>1, BytesOn DEF Shape

LEMMA LinksStayEmpty ==
    ASSUME FilesInv, LinksEmpty, [Files!Next]_(Files!vars)
    PROVE  LinksEmpty'
<1>1. freq \in [Requests -> FileSlot]
  BY FileTypes DEF FilesInv
<1>2. ASSUME NEW r \in Requests, NEW n, freq' = [freq EXCEPT ![r] = n],
             n.pc = "count" /\ n.row.kind = "link" => n.row.size = 0
      PROVE  LinksEmpty'
  <2>1. \A q \in Requests : freq'[q] = IF q = r THEN n ELSE freq[q]
    BY <1>1, <1>2
  <2> QED  BY <1>2, <2>1 DEF LinksEmpty
<1>3. CASE UNCHANGED <<frows, freq>>
  BY <1>3 DEF LinksEmpty
<1>4. CASE \A r \in Requests : freq'[r] = Files!Idle
  BY <1>4, IdleFile DEF LinksEmpty
<1>5. ASSUME NEW r \in Requests, \E n : Shape(r, n) PROVE LinksEmpty'
  BY <1>2, <1>5 DEF Shape
<1>6. ASSUME NEW r \in Requests, Files!Sum(r) PROVE LinksEmpty'
  <2>1. PICK n : freq' = [freq EXCEPT ![r] = n] /\ n.pc \in {"idle", "store", "create"}
    BY <1>6, SumSlot
  <2> QED  BY <1>2, <2>1
<1>7. ASSUME NEW r \in Requests, Files!Count(r) PROVE LinksEmpty'
  <2>1. CASE ~Files!HasRoom(freq[r].row.kind)
    BY <1>2, <1>7, <2>1, IdleFile DEF Files!Count, Files!Reply
  <2>2. CASE Files!HasRoom(freq[r].row.kind)
    <3> DEFINE pc == IF freq[r].row.kind = "link" THEN "create" ELSE "sum"
               n == [freq[r] EXCEPT !.pc = pc]
    <3>1. freq' = [freq EXCEPT ![r] = n]
      BY <1>7, <2>2 DEF Files!Count, Files!Go
    <3>2. n.pc = pc
      BY GoSlot DEF FilesInv
    <3> HIDE DEF n
    <3> QED  BY <1>2, <3>1, <3>2
  <2> QED  BY <2>1, <2>2
<1>8. ASSUME NEW r \in Requests, Files!Create(r) PROVE LinksEmpty'
  <2>1. PICK n : freq' = [freq EXCEPT ![r] = n] /\ n.pc \in {"idle", "unlink"}
    BY <1>8, CreateSlot
  <2> QED  BY <1>2, <2>1
<1> QED  BY <1>3, <1>4, <1>5, <1>6, <1>7, <1>8, StepShapes

LEMMA BytesKept ==
    ASSUME FilesInv, LinksEmpty, NEW family \in Families, BytesTaken(family),
           [Files!Next]_(Files!vars)
    PROVE  BytesTaken(family)'
<1>1. CASE UNCHANGED <<frows, freq>>
  BY <1>1, NoByteAdded DEF Stored, Weighed, Files!Rows
<1>2. CASE UNCHANGED frows /\ \A r \in Requests : freq'[r] = Files!Idle
  BY <1>2, IdleFile, NoByteAdded DEF Stored, Weighed, Files!Rows
<1> QED  BY <1>1, <1>2, StepShapes, CountBytes, SumBytes, CreateBytes, ShapeBytes

\* The caps are checked by no lock and not in the transaction of the row they
\* admit (attachments and artifacts of routes/tasks.ts), and still a task has at
\* most one row, and the bytes of one row, too many for each request that runs
\* at once but the first: whatever the caps, the sizes and the number of requests.
THEOREM CapsArePassedByOneEach == Files!Spec => []CapsHold
<1> DEFINE CapsInv == /\ LinksEmpty
                      /\ \A family \in Families : RoomTaken(family) /\ BytesTaken(family)
<1>1. Files!Init => CapsInv
  <2> SUFFICES ASSUME Files!Init PROVE CapsInv
    OBVIOUS
  <2>1. frows = [i \in Items |-> None] /\ freq = [r \in Requests |-> Files!Idle]
    BY DEF Files!Init
  <2>2. LinksEmpty
    BY <2>1, IdleFile DEF LinksEmpty
  <2>3. ASSUME NEW family \in Families
        PROVE  RoomTaken(family) /\ BytesTaken(family)
    <3>1. Files!Rows(family) = {} /\ Waiting(family) = {}
      BY <2>1, IdleFile DEF Files!Rows, Waiting
    <3>2. Stored(family) = {} /\ Weighed(family) = {}
      BY <2>1, <3>1, IdleFile DEF Stored, Weighed
    <3>3. CountCap \in Nat
      BY FilesAssumption DEF Files!DefinitionsAssumption
    <3>4. RoomTaken(family)
      BY <3>1, <3>3, Counted, FS_EmptySet DEF RoomTaken
    <3>5. BytesTaken(family)
      BY <3>2, Caps, FS_EmptySet DEF BytesTaken
    <3> QED  BY <3>4, <3>5
  <2> QED  BY <2>2, <2>3
<1>2. FilesInv /\ CapsInv /\ [Files!Next]_(Files!vars) => CapsInv'
  BY RoomKept, BytesKept, LinksStayEmpty
<1>3. CapsInv => CapsHold
  <2> SUFFICES ASSUME NEW family \in Families, RoomTaken(family), BytesTaken(family)
               PROVE  Files!CountHolds(family) /\ Files!BytesHold(family)
    BY DEF CapsHold, Files!CapsHold, Families
  <2>1. CountCap \in Nat
    BY FilesAssumption DEF Files!DefinitionsAssumption
  <2>2. Files!CountHolds(family)
    BY <2>1, Counted, SizeIs DEF RoomTaken, Files!CountHolds
  <2>3. Files!BytesHold(family)
    <3>1. Cardinality(Stored(family)) <= BytesCap + Slack
      BY Caps, Weights DEF BytesTaken
    <3>2. Files!Cardinality(Stored(family)) <= BytesCap + Slack
      BY <3>1, SizeIs
    <3> QED  BY <3>2, SizeIs DEF Files!BytesHold, Files!Bytes, Stored, Slack
  <2> QED  BY <2>2, <2>3
<1> HIDE DEF CapsInv
<1> QED  BY <1>1, <1>2, <1>3, FilesStay, PTL DEF Files!Spec

-----------------------------------------------------------------------------
(***************************************************************************)
(* Workflows.                                                              *)
(***************************************************************************)

Definitions == Offered \cup Legacy \cup {BuiltIn}
Statuses == {"open", "backlog", "abandoned"} \cup UNION {Workflows!States(d) : d \in Definitions}
Pins == Workflows!Rows \cup {0}

WorkflowRows == [Workflows!Rows -> Workflows!Row \cup {Workflows!NoRow}]

\* A pin that names a row there is, or none.
Pinnable(rs, pin) == pin \in Pins /\ (pin # 0 => rs[pin] # Workflows!NoRow)

\* The definition that a task with this pin follows.
FollowedAt(rs, pin) == Workflows!DefinitionOf(rs, Workflows!Follows(rs, pin))

\* What Grounding asks of the default rows before it reads one.
OneDefault(rs) == \A v, w \in Workflows!Rows : rs[v].default /\ rs[w].default => v = w

WorkflowTypes ==
    /\ wrows \in WorkflowRows
    /\ wtask \in [Followers -> [status : Statuses \cup {"none"}, pin : Pins]]
    /\ writer = [t \in Followers |-> writer[t]]
    /\ attempt = [t \in Followers |-> attempt[t]]
    /\ reserved \subseteq enrolled /\ enrolled \subseteq Followers

\* A task that is there has a status, and its row when it is pinned.
TasksStand ==
    \A t \in Followers : /\ Pinnable(wrows, wtask[t].pin)
                         /\ wtask[t].status = "none" => wtask[t].pin = 0

\* What a request will write is on the board of the definition it has read.
WritersOnBoard ==
    \A t \in Followers : writer[t] # Workflows!NoWriter =>
       /\ t \in enrolled => wtask[t].status # "none"
       /\ writer[t].to \in Statuses /\ writer[t].pin \in Pins
       /\ Workflows!OnBoard(writer[t].to, writer[t].def)

\* An attempt is one for the workflow its task follows, and as long as it
\* stands on the default row there is no second one.
AttemptsStand ==
    /\ \A t \in enrolled : attempt[t] # Workflows!NoAttempt =>
          /\ wtask[t].status # "none"
          /\ attempt[t] = Workflows!Named(wrows, wtask[t].pin)
          /\ wtask[t].pin = 0 => OneDefault(wrows)
    /\ \A t \in reserved : attempt[t] # Workflows!NoAttempt

WorkflowInv == WorkflowTypes /\ TasksStand /\ WritersOnBoard /\ AttemptsStand

-----------------------------------------------------------------------------
(* Definitions and default rows.                                           *)

\* A definition as it is read has its initial state, and an accepted one is
\* read as it is.
LEMMA ReadsAre ==
    ASSUME NEW d \in Definitions
    PROVE  LET s == Workflows!Sanitized(d) IN
           /\ s.initial \in Workflows!States(s) /\ "none" \notin Workflows!States(s)
           /\ Workflows!States(s) \subseteq Statuses
<1>1. d.initial \in Workflows!States(d) /\ "none" \notin Workflows!States(d)
  BY WorkflowsAssumption
  DEF Workflows!DefinitionsAssumption, Workflows!Accepted, Workflows!States, Definitions
<1>2. Workflows!States(d) \subseteq Statuses /\ "open" \in Statuses
  BY DEF Statuses
<1>3. CASE "backlog" \notin Workflows!States(d) \cup {d.initial}
  BY <1>1, <1>2, <1>3 DEF Workflows!Sanitized
<1>4. CASE "backlog" \in Workflows!States(d) \cup {d.initial}
  <2> DEFINE entered == d.initial = "backlog"
             i == IF entered THEN "open" ELSE d.initial
             w == (d.work \cup (IF entered THEN {"open"} \ d.final ELSE {})) \ {"backlog"}
             f == d.final \ {"backlog"}
  <2>1. Workflows!Sanitized(d) = [initial |-> i, work |-> w, final |-> f]
    BY <1>4 DEF Workflows!Sanitized
  <2>2. i \in w \cup f /\ "none" \notin w \cup f
    BY <1>1 DEF Workflows!States
  <2>3. w \cup f \subseteq Statuses
    BY <1>2 DEF Workflows!States
  <2> HIDE DEF i, w, f
  <2> QED  BY <2>1, <2>2, <2>3 DEF Workflows!States
<1> QED  BY <1>3, <1>4

LEMMA AcceptedAsIs ==
    ASSUME NEW d \in Offered \cup {BuiltIn} PROVE Workflows!Sanitized(d) = d
BY WorkflowsAssumption
DEF Workflows!DefinitionsAssumption, Workflows!Accepted, Workflows!States, Workflows!Reserved,
    Workflows!Sanitized

LEMMA NoDefNowhere == Workflows!NoDef \notin Definitions
<1>1. Workflows!States(Workflows!NoDef) = {} /\ Workflows!NoDef.initial = "none"
  BY DEF Workflows!States, Workflows!NoDef
<1> QED
  BY <1>1, WorkflowsAssumption
  DEF Workflows!DefinitionsAssumption, Workflows!Accepted, Definitions

LEMMA Least ==
    ASSUME NEW T \in SUBSET Nat, T # {}
    PROVE  \E m \in T : \A k \in T : m <= k
<1> DEFINE R == OpToRel(<, Nat)
<1>1. IsWellFoundedOn(R, Nat)
  BY NatLessThanWellFounded
<1>2. \A i, j \in Nat : j < i => <<j, i>> \in R
  BY DEF OpToRel
<1> HIDE DEF R
<1>3. PICK m \in T : \A k \in T : ~ (<<k, m>> \in R)
  BY <1>1, WFMin
<1>4. ASSUME NEW k \in T PROVE m <= k
  <2>1. ~ (k < m)
    BY <1>2, <1>3
  <2> QED  BY <2>1
<1> QED  BY <1>4

LEMMA RowsAreNumbers == Workflows!Rows \subseteq Nat \ {0} /\ 0 \notin Workflows!Rows
BY WorkflowsAssumption DEF Workflows!DefinitionsAssumption, Workflows!Rows

\* findFirstDefaultRow finds the oldest default row, when there is one.
LEMMA FirstDefaultIs ==
    ASSUME NEW rs
    PROVE  LET d == Workflows!FirstDefault(rs) IN
           \/ d = 0 /\ \A w \in Workflows!Rows : ~rs[w].default
           \/ /\ d \in Workflows!Rows /\ rs[d].default
              /\ \A w \in Workflows!Rows : rs[w].default => d <= w
<1> DEFINE D == {w \in Workflows!Rows : rs[w].default}
<1>1. CASE D = {}
  BY <1>1 DEF Workflows!FirstDefault, Workflows!Unpinned
<1>2. CASE D # {}
  <2>1. \E m \in D : \A k \in D : m <= k
    BY <1>2, Least, RowsAreNumbers
  <2>2. Workflows!FirstDefault(rs) = CHOOSE w \in D : \A v \in D : w <= v
    BY <1>2 DEF Workflows!FirstDefault
  <2> HIDE DEF D
  <2>3. /\ Workflows!FirstDefault(rs) \in D
        /\ \A w \in D : Workflows!FirstDefault(rs) <= w
    BY <2>1, <2>2
  <2> QED  BY <2>3 DEF D
<1> QED  BY <1>1, <1>2

LEMMA FirstDefaultOf ==
    ASSUME NEW rs, NEW d \in Workflows!Rows, rs[d].default,
           \A w \in Workflows!Rows : rs[w].default => d <= w
    PROVE  Workflows!FirstDefault(rs) = d
<1> DEFINE f == Workflows!FirstDefault(rs)
<1>1. f \in Workflows!Rows /\ f <= d /\ d <= f
  BY FirstDefaultIs
<1> HIDE DEF f
<1>2. f \in Nat /\ d \in Nat
  BY <1>1, RowsAreNumbers
<1>3. f = d
  BY <1>1, <1>2
<1> QED  BY <1>3 DEF f

\* Only the flags count.
LEMMA SameFlags ==
    ASSUME NEW rs, NEW qs, \A w \in Workflows!Rows : rs[w].default = qs[w].default
    PROVE  Workflows!FirstDefault(rs) = Workflows!FirstDefault(qs)
<1> DEFINE f == Workflows!FirstDefault(rs)
<1>1. CASE f = 0
  <2>1. \A w \in Workflows!Rows : ~qs[w].default
    BY <1>1, FirstDefaultIs, RowsAreNumbers
  <2> QED  BY <1>1, <2>1, FirstDefaultIs
<1>2. CASE f # 0
  <2>1. f \in Workflows!Rows /\ qs[f].default /\ \A w \in Workflows!Rows : qs[w].default => f <= w
    BY <1>2, FirstDefaultIs
  <2> HIDE DEF f
  <2>2. Workflows!FirstDefault(qs) = f
    BY <2>1, FirstDefaultOf
  <2> QED  BY <2>2 DEF f
<1> QED  BY <1>1, <1>2

-----------------------------------------------------------------------------
(* What an edit does to the tasks of each pin.                             *)

\* Where the tasks of a pin are pinned after an edit that takes one row away.
Repinned(pin, unpin) == IF pin = unpin THEN 0 ELSE pin

\* The edit ends the attempts of every pin whose workflow it changes, if there
\* was one default row, ...
Bound(pin, pins, newRows, unpin) ==
    \/ pin \in pins
    \/ pin = 0 /\ ~OneDefault(wrows)
    \/ /\ Repinned(pin, unpin) = pin
       /\ Workflows!Named(newRows, pin) = Workflows!Named(wrows, pin)

\* ... and judges stranding by the definitions that are followed before and after.
Judged(pin, groups, newRows, unpin) ==
    LET after == FollowedAt(newRows, Repinned(pin, unpin)) IN
    \/ after = FollowedAt(wrows, pin)
    \/ \E g \in groups : /\ pin \in g.pins /\ g.before = FollowedAt(wrows, pin)
                         /\ g.after = after

Sound(pins, groups, newRows, unpin) ==
    /\ newRows \in WorkflowRows
    /\ OneDefault(wrows) => OneDefault(newRows)
    /\ \A pin : Pinnable(wrows, pin) =>
          /\ Pinnable(newRows, Repinned(pin, unpin))
          /\ Bound(pin, pins, newRows, unpin)
          /\ Judged(pin, groups, newRows, unpin)

SoundEdit(pins, groups, changed, newRows, unpin) ==
    /\ Sound(pins, groups, newRows, unpin) /\ (changed \/ pins = {})
    /\ Workflows!Edit(Workflows!With(pins), groups, changed, newRows, unpin)

SomeSoundEdit ==
    \E pins, groups, changed, newRows, unpin : SoundEdit(pins, groups, changed, newRows, unpin)

LEMMA NamedIs ==
    ASSUME NEW rs, NEW pin
    PROVE  /\ pin # 0 => /\ Workflows!Named(rs, pin) = [row |-> pin, def |-> rs[pin].def]
                         /\ FollowedAt(rs, pin) = Workflows!Sanitized(rs[pin].def)
           /\ LET d == Workflows!FirstDefault(rs) IN
              /\ Workflows!Named(rs, 0)
                    = [row |-> d, def |-> IF d = 0 THEN BuiltIn ELSE rs[d].def]
              /\ FollowedAt(rs, 0) = IF d = 0 THEN BuiltIn ELSE Workflows!Sanitized(rs[d].def)
BY DEF Workflows!Named, Workflows!Follows, Workflows!Unpinned, FollowedAt,
       Workflows!DefinitionOf

\* A pinned task whose row keeps its definition.
LEMMA PinnedKept ==
    ASSUME NEW newRows, NEW pin, pin # 0, NEW unpin, pin # unpin, NEW pins, NEW groups,
           newRows[pin].def = wrows[pin].def
    PROVE  Bound(pin, pins, newRows, unpin) /\ Judged(pin, groups, newRows, unpin)
BY NamedIs DEF Bound, Judged, Repinned

\* Unpinned tasks whose default row and definition stay.
LEMMA UnpinnedKept ==
    ASSUME NEW newRows, NEW unpin, NEW pins, NEW groups,
           Workflows!FirstDefault(newRows) = Workflows!FirstDefault(wrows),
           LET d == Workflows!FirstDefault(wrows) IN d # 0 => newRows[d].def = wrows[d].def
    PROVE  Bound(0, pins, newRows, unpin) /\ Judged(0, groups, newRows, unpin)
BY NamedIs DEF Bound, Judged, Repinned

LEMMA NoRowIs ==
    /\ Workflows!NoRow.def = Workflows!NoDef /\ Workflows!NoRow.default = FALSE
    /\ [Workflows!NoRow EXCEPT !.default = FALSE] = Workflows!NoRow
<1>1. ASSUME NEW d, NEW r, r = [def |-> d, default |-> FALSE]
      PROVE  r.def = d /\ r.default = FALSE /\ [r EXCEPT !.default = FALSE] = r
  <2>1. ASSUME NEW b, r = [def |-> d, default |-> b]
        PROVE  r.def = d /\ r.default = b /\ [r EXCEPT !.default = b] = r
    BY <2>1
  <2>2. PICK b \in BOOLEAN : b = FALSE
    OBVIOUS
  <2>3. r = [def |-> d, default |-> b]
    BY <1>1, <2>2
  <2> QED  BY <2>1, <2>2, <2>3
<1>2. Workflows!NoRow = [def |-> Workflows!NoDef, default |-> FALSE]
  BY DEF Workflows!NoRow
<1> QED  BY <1>1, <1>2

LEMMA RowIs ==
    ASSUME NEW d \in Definitions, NEW b \in BOOLEAN, NEW row, row = [def |-> d, default |-> b]
    PROVE  /\ row \in Workflows!Row /\ row # Workflows!NoRow
           /\ row.def = d /\ row.default = b
<1>1. row \in Workflows!Row /\ row.def = d /\ row.default = b
  BY DEF Workflows!Row, Definitions
<1> QED  BY <1>1, NoRowIs, NoDefNowhere

LEMMA StoredIs ==
    ASSUME NEW rs \in WorkflowRows, NEW w \in Workflows!Rows
    PROVE  /\ rs[w].default \in BOOLEAN
           /\ rs[w].default => rs[w] # Workflows!NoRow
           /\ rs[w] # Workflows!NoRow => rs[w] \in Workflows!Row /\ rs[w].def \in Definitions
           /\ rs[w] = Workflows!NoRow => ~rs[w].default
<1>1. CASE rs[w] \in Workflows!Row
  <2>1. rs[w].default \in BOOLEAN /\ rs[w].def \in Definitions
    BY <1>1 DEF Workflows!Row, Definitions
  <2>2. rs[w] # Workflows!NoRow
    BY <2>1, NoRowIs, NoDefNowhere
  <2> QED  BY <1>1, <2>1, <2>2
<1>2. CASE rs[w] = Workflows!NoRow
  BY <1>2, NoRowIs
<1> QED  BY <1>1, <1>2 DEF WorkflowRows

\* A row that is no default any more.
LEMMA DemotedIs ==
    ASSUME NEW r \in Workflows!Row \cup {Workflows!NoRow},
           NEW n, n = [r EXCEPT !.default = FALSE]
    PROVE  /\ n \in Workflows!Row \cup {Workflows!NoRow}
           /\ n.def = r.def /\ n.default = FALSE
           /\ r # Workflows!NoRow => n # Workflows!NoRow
<1>1. CASE r \in Workflows!Row
  <2>1. n \in Workflows!Row /\ n.def = r.def /\ n.default = FALSE /\ r.def \in Definitions
    BY <1>1 DEF Workflows!Row, Definitions
  <2> QED  BY <2>1, NoRowIs, NoDefNowhere
<1>2. CASE r = Workflows!NoRow
  BY <1>2, NoRowIs
<1> QED  BY <1>1, <1>2

\* One row is the default one, the others keep their definition.
LEMMA SoleDefaultIs ==
    ASSUME wrows \in WorkflowRows, NEW w \in Workflows!Rows, NEW row \in Workflows!Row,
           NEW new, new = Workflows!SoleDefault(w, row), row.default
    PROVE  /\ new \in WorkflowRows /\ new[w] = row
           /\ \A v \in Workflows!Rows : v # w =>
                 /\ new[v].def = wrows[v].def /\ ~new[v].default
                 /\ wrows[v] # Workflows!NoRow => new[v] # Workflows!NoRow
           /\ OneDefault(new) /\ Workflows!FirstDefault(new) = w
<1>1. new = [v \in Workflows!Rows |-> IF v = w THEN row
                                      ELSE [wrows[v] EXCEPT !.default = FALSE]]
  BY DEF Workflows!SoleDefault
<1>4. ASSUME NEW v \in Workflows!Rows, v # w
      PROVE  /\ new[v] \in Workflows!Row \cup {Workflows!NoRow}
             /\ new[v].def = wrows[v].def /\ ~new[v].default
             /\ wrows[v] # Workflows!NoRow => new[v] # Workflows!NoRow
  <2>1. new[v] = [wrows[v] EXCEPT !.default = FALSE]
    BY <1>1, <1>4
  <2>2. wrows[v] \in Workflows!Row \cup {Workflows!NoRow}
    BY DEF WorkflowRows
  <2> QED  BY <2>1, <2>2, DemotedIs
<1>5. new[w] = row
  BY <1>1
<1>6. new \in WorkflowRows
  BY <1>1, <1>4, <1>5 DEF WorkflowRows
<1>7. \A v \in Workflows!Rows : new[v].default => v = w
  BY <1>4
<1>8. OneDefault(new)
  BY <1>7 DEF OneDefault
<1>9. \A v \in Workflows!Rows : new[v].default => w <= v
  BY <1>7, RowsAreNumbers
<1> QED  BY <1>4, <1>5, <1>6, <1>8, <1>9, FirstDefaultOf

-----------------------------------------------------------------------------
(* Each edit.                                                              *)

LEMMA NewRowIs ==
    ASSUME NEW w \in Workflows!Rows, Workflows!NewRow(w)
    PROVE  wrows[w] = Workflows!NoRow /\ \A v \in Workflows!Rows : v >= w => wrows[v] = Workflows!NoRow
<1>1. w \in Nat
  BY RowsAreNumbers
<1> QED  BY <1>1 DEF Workflows!NewRow

\* Without a default row a new one becomes it.
LEMMA FirstRowSound ==
    ASSUME wrows \in WorkflowRows, NEW w \in Workflows!Rows, Workflows!NewRow(w),
           Workflows!FirstDefault(wrows) = 0, NEW def \in Offered \cup {BuiltIn},
           NEW row, row = [def |-> def, default |-> TRUE],
           NEW new, new = [wrows EXCEPT ![w] = row], NEW groups,
           def = BuiltIn \/ [pins |-> {0}, before |-> BuiltIn, after |-> def] \in groups
    PROVE  Sound({0}, groups, new, 0)
<1>1. row \in Workflows!Row /\ row # Workflows!NoRow /\ row.def = def /\ row.default
  BY RowIs DEF Definitions
<1>2. new \in WorkflowRows /\ new[w] = row /\ \A v \in Workflows!Rows : v # w => new[v] = wrows[v]
  <2>1. row \in Workflows!Row \cup {Workflows!NoRow}
    BY <1>1
  <2>2. ASSUME NEW r \in Workflows!Row \cup {Workflows!NoRow}, new = [wrows EXCEPT ![w] = r]
        PROVE  /\ new \in WorkflowRows /\ new[w] = r
               /\ \A v \in Workflows!Rows : v # w => new[v] = wrows[v]
    BY <2>2 DEF WorkflowRows
  <2> QED  BY <2>1, <2>2
<1>3. \A v \in Workflows!Rows : ~wrows[v].default
  BY FirstDefaultIs, RowsAreNumbers
<1>4. Workflows!FirstDefault(new) = w
  <2>1. \A v \in Workflows!Rows : new[v].default => w <= v
    BY <1>2, <1>3, RowsAreNumbers
  <2> QED  BY <1>1, <1>2, <2>1, FirstDefaultOf
<1>5. OneDefault(new)
  BY <1>2, <1>3 DEF OneDefault
<1>6. w # 0 /\ wrows[w] = Workflows!NoRow
  BY NewRowIs, RowsAreNumbers
<1>7. Workflows!Sanitized(def) = def
  BY AcceptedAsIs
<1>8. Judged(0, groups, new, 0)
  <2>1. FollowedAt(new, 0) = def /\ FollowedAt(wrows, 0) = BuiltIn
    <3>1. FollowedAt(wrows, 0) = BuiltIn
      BY NamedIs
    <3>2. FollowedAt(new, 0) = Workflows!Sanitized(new[w].def)
      BY <1>4, <1>6, NamedIs
    <3> QED  BY <1>1, <1>2, <1>7, <3>1, <3>2
  <2>2. CASE def = BuiltIn
    BY <2>1, <2>2 DEF Judged, Repinned
  <2>3. CASE [pins |-> {0}, before |-> BuiltIn, after |-> def] \in groups
    <3>1. PICK g \in groups : g = [pins |-> {0}, before |-> BuiltIn, after |-> def]
      BY <2>3
    <3>2. g.pins = {0} /\ g.before = BuiltIn /\ g.after = def
      BY <3>1
    <3> QED  BY <2>1, <3>2 DEF Judged, Repinned
  <2> QED  BY <2>2, <2>3
<1>9. ASSUME NEW pin, Pinnable(wrows, pin), pin # 0
      PROVE  /\ Pinnable(new, pin) /\ Bound(pin, {0}, new, 0)
             /\ Judged(pin, groups, new, 0)
  <2>1. pin \in Workflows!Rows /\ pin # w
    BY <1>6, <1>9 DEF Pinnable, Pins
  <2> QED  BY <1>2, <1>9, <2>1, PinnedKept DEF Pinnable
<1>10. Pinnable(new, 0) /\ Bound(0, {0}, new, 0)
  BY DEF Pinnable, Pins, Bound
<1> QED  BY <1>2, <1>5, <1>8, <1>9, <1>10 DEF Sound, Repinned

\* POST .../customize.
LEMMA CustomizeSound ==
    ASSUME wrows \in WorkflowRows, NEW w \in Workflows!Rows, Workflows!Customize(w)
    PROVE  SomeSoundEdit
<1> DEFINE row == [def |-> BuiltIn, default |-> TRUE]
           new == [wrows EXCEPT ![w] = row]
<1>1. /\ Workflows!FirstDefault(wrows) = 0 /\ Workflows!NewRow(w)
      /\ Workflows!Edit(Workflows!With({0}), {}, TRUE, new, 0)
  BY DEF Workflows!Customize, Workflows!Unpinned
<1>2. Sound({0}, {}, new, 0)
  BY <1>1, FirstRowSound
<1> QED  BY <1>1, <1>2 DEF SomeSoundEdit, SoundEdit

\* A row keeps its flag; its definition may change.
LEMMA SameFlagSound ==
    ASSUME wrows \in WorkflowRows, NEW w \in Workflows!Rows, wrows[w] # Workflows!NoRow,
           NEW row \in Workflows!Row, row # Workflows!NoRow, row.default = wrows[w].default,
           NEW new, new = [wrows EXCEPT ![w] = row], NEW pins, NEW groups,
           row.def # wrows[w].def => /\ row.def \in Offered /\ w \in pins
                                     /\ wrows[w].default => 0 \in pins,
           row.def # wrows[w].def =>
              \E g \in groups : /\ w \in g.pins /\ g.after = row.def
                                /\ g.before = Workflows!Sanitized(wrows[w].def),
           row.def # wrows[w].def /\ Workflows!FirstDefault(wrows) = w =>
              \E g \in groups : /\ 0 \in g.pins /\ g.after = row.def
                                /\ g.before = Workflows!Sanitized(wrows[w].def)
    PROVE  Sound(pins, groups, new, 0)
<1>1. new \in WorkflowRows /\ new[w] = row /\ \A v \in Workflows!Rows : v # w => new[v] = wrows[v]
  BY DEF WorkflowRows
<1>2. \A v \in Workflows!Rows : new[v].default = wrows[v].default
  BY <1>1
<1>3. Workflows!FirstDefault(new) = Workflows!FirstDefault(wrows)
  BY <1>2, SameFlags
<1>4. OneDefault(wrows) => OneDefault(new)
  BY <1>2 DEF OneDefault
<1>5. ASSUME NEW pin, Pinnable(wrows, pin), pin # 0
      PROVE  /\ Pinnable(new, pin) /\ Bound(pin, pins, new, 0) /\ Judged(pin, groups, new, 0)
  <2>1. pin \in Workflows!Rows
    BY <1>5 DEF Pinnable, Pins
  <2>2. Pinnable(new, pin)
    BY <1>1, <1>5, <2>1 DEF Pinnable
  <2>3. CASE pin # w \/ row.def = wrows[w].def
    <3>1. new[pin].def = wrows[pin].def
      BY <1>1, <2>1, <2>3
    <3> QED  BY <1>5, <2>2, <3>1, PinnedKept
  <2>4. CASE pin = w /\ row.def # wrows[w].def
    <3>1. Workflows!Sanitized(row.def) = row.def
      BY <2>4, AcceptedAsIs
    <3>2. FollowedAt(new, w) = row.def
          /\ FollowedAt(wrows, w) = Workflows!Sanitized(wrows[w].def)
      <4>1. w # 0 /\ new[w].def = row.def
        BY <1>1, RowsAreNumbers
      <4>2. FollowedAt(new, w) = Workflows!Sanitized(new[w].def)
        BY <4>1, NamedIs
      <4>3. FollowedAt(wrows, w) = Workflows!Sanitized(wrows[w].def)
        BY <4>1, NamedIs
      <4> QED  BY <3>1, <4>1, <4>2, <4>3
    <3>3. Judged(pin, groups, new, 0)
      BY <1>5, <2>4, <3>2 DEF Judged, Repinned
    <3> QED  BY <2>2, <2>4, <3>3 DEF Bound
  <2> QED  BY <2>3, <2>4
<1>6. Pinnable(new, 0) /\ Bound(0, pins, new, 0) /\ Judged(0, groups, new, 0)
  <2> DEFINE d == Workflows!FirstDefault(wrows)
  <2>1. Pinnable(new, 0)
    BY DEF Pinnable, Pins
  <2>2. d # 0 => d \in Workflows!Rows /\ wrows[d].default
    BY FirstDefaultIs
  <2>3. CASE d # w \/ row.def = wrows[w].def
    <3>1. d # 0 => new[d].def = wrows[d].def
      BY <1>1, <2>2, <2>3
    <3> QED  BY <1>3, <2>1, <3>1, UnpinnedKept
  <2>4. CASE d = w /\ row.def # wrows[w].def
    <3>1. Workflows!Sanitized(row.def) = row.def /\ w # 0
      BY <2>4, AcceptedAsIs, RowsAreNumbers
    <3>2. FollowedAt(new, 0) = Workflows!Sanitized(new[w].def)
          /\ FollowedAt(wrows, 0) = Workflows!Sanitized(wrows[w].def)
      BY <1>3, <2>4, <3>1, NamedIs
    <3>3. Judged(0, groups, new, 0)
      BY <1>1, <2>4, <3>1, <3>2 DEF Judged, Repinned
    <3> QED  BY <2>1, <2>2, <2>4, <3>1, <3>3 DEF Bound
  <2> QED  BY <2>3, <2>4
<1> QED  BY <1>1, <1>4, <1>5, <1>6 DEF Sound, Repinned

LEMMA GroupIs ==
    ASSUME NEW pins, NEW before, NEW after
    PROVE  LET g == Workflows!Group(pins, before, after) IN
           g.pins = pins /\ g.before = before /\ g.after = after
BY DEF Workflows!Group

\* POST .../apply-template.
LEMMA ApplyTemplateSound ==
    ASSUME wrows \in WorkflowRows, NEW w \in Workflows!Rows, NEW def \in Templates,
           Workflows!ApplyTemplate(def, w)
    PROVE  SomeSoundEdit
<1> DEFINE d == Workflows!FirstDefault(wrows)
           row == [def |-> def, default |-> TRUE]
           new == [wrows EXCEPT ![w] = row]
           pins == {0, d}
           changed == d = 0 \/ wrows[d].def # def
           g == Workflows!Group(pins, Workflows!DefinitionOf(wrows, d), def)
<1>1. /\ IF d = 0 THEN Workflows!NewRow(w) ELSE w = d
      /\ Workflows!Edit(IF changed THEN Workflows!With(pins) ELSE {},
                        IF changed THEN {g} ELSE {}, changed, new, 0)
  BY DEF Workflows!ApplyTemplate, Workflows!Unpinned
<1>2. def \in Offered /\ def \in Definitions
  BY WorkflowsAssumption DEF Workflows!DefinitionsAssumption, Definitions
<1>3. row \in Workflows!Row /\ row # Workflows!NoRow /\ row.def = def /\ row.default = TRUE
  BY <1>2, RowIs
<1>4. CASE d = 0
  <2>1. Workflows!DefinitionOf(wrows, d) = BuiltIn
    BY <1>4 DEF Workflows!DefinitionOf, Workflows!Unpinned
  <2>2. g = [pins |-> {0}, before |-> BuiltIn, after |-> def]
    BY <1>4, <2>1 DEF Workflows!Group
  <2>3. Sound({0}, {g}, new, 0)
    BY <1>1, <1>2, <1>4, <2>2, FirstRowSound
  <2>4. Workflows!Edit(Workflows!With({0}), {g}, TRUE, new, 0)
    BY <1>1, <1>4
  <2> QED  BY <2>3, <2>4 DEF SomeSoundEdit, SoundEdit
<1>5. CASE d # 0
  <2>1. d = w /\ wrows[w].default /\ wrows[w] # Workflows!NoRow /\ wrows[w].default = TRUE
    BY <1>1, <1>5, FirstDefaultIs, StoredIs
  <2>2. Workflows!DefinitionOf(wrows, d) = Workflows!Sanitized(wrows[w].def)
    BY <1>5, <2>1 DEF Workflows!DefinitionOf, Workflows!Unpinned
  <2>3. g.pins = pins /\ g.before = Workflows!Sanitized(wrows[w].def) /\ g.after = def
    BY <2>2, GroupIs
  <2>4. CASE changed
    <3>1. \E e \in {g} : /\ w \in e.pins /\ e.after = def
                         /\ e.before = Workflows!Sanitized(wrows[w].def)
      BY <2>1, <2>3
    <3>2. \E e \in {g} : /\ 0 \in e.pins /\ e.after = def
                         /\ e.before = Workflows!Sanitized(wrows[w].def)
      BY <2>3
    <3>3. w \in pins /\ 0 \in pins
      BY <2>1
    <3>4. Workflows!Edit(Workflows!With(pins), {g}, TRUE, new, 0)
      BY <1>1, <2>4
    <3> HIDE DEF row, g, pins, d
    <3>5. Sound(pins, {g}, new, 0)
      BY <1>2, <1>3, <2>1, <3>1, <3>2, <3>3, SameFlagSound
    <3> QED  BY <3>4, <3>5 DEF SomeSoundEdit, SoundEdit
  <2>5. CASE ~changed
    <3>1. wrows[w].def = def
      BY <1>5, <2>1, <2>5
    <3>2. Workflows!Edit({}, {}, FALSE, new, 0)
      BY <1>1, <2>5
    <3>3. Workflows!With({}) = {}
      BY DEF Workflows!With
    <3> HIDE DEF row, d
    <3>4. Sound({}, {}, new, 0)
      BY <1>3, <2>1, <3>1, SameFlagSound
    <3> QED  BY <3>2, <3>3, <3>4 DEF SomeSoundEdit, SoundEdit
  <2> QED  BY <2>4, <2>5
<1> QED  BY <1>4, <1>5

\* What unpinned tasks follow when a row is no default any more.
LEMMA AfterDemotion ==
    ASSUME wrows \in WorkflowRows, NEW w \in Workflows!Rows, NEW new \in WorkflowRows,
           ~new[w].default, \A v \in Workflows!Rows : v # w => new[v] = wrows[v]
    PROVE  FollowedAt(new, 0) = Workflows!ResetTo(w)
<1> DEFINE dem == Workflows!Demoted(w)
           f == Workflows!FirstDefault(dem)
<1>1. /\ dem[w] = [wrows[w] EXCEPT !.default = FALSE]
      /\ \A v \in Workflows!Rows : v # w => dem[v] = wrows[v]
  BY DEF Workflows!Demoted, WorkflowRows
<1>2. wrows[w] \in Workflows!Row \cup {Workflows!NoRow}
  BY DEF WorkflowRows
<1>3. dem[w].default = FALSE
  BY <1>1, <1>2, DemotedIs
<1>4. new[w].default = FALSE
  BY StoredIs
<1> HIDE DEF dem
<1>5. \A v \in Workflows!Rows : dem[v].default = new[v].default
  BY <1>1, <1>3, <1>4
<1>6. Workflows!FirstDefault(new) = f
  BY <1>5, SameFlags
<1>7. f # 0 => f \in Workflows!Rows /\ f # w
  BY <1>3, FirstDefaultIs
<1>8. f # 0 => new[f].def = wrows[f].def
  BY <1>7
<1>9. FollowedAt(new, 0) = IF f = 0 THEN BuiltIn ELSE Workflows!Sanitized(new[f].def)
  BY <1>6, NamedIs
<1>10. Workflows!ResetTo(w) = IF f = 0 THEN BuiltIn ELSE Workflows!Sanitized(wrows[f].def)
  BY DEF Workflows!ResetTo, Workflows!DefinitionOf, Workflows!Unpinned, dem
<1> QED  BY <1>8, <1>9, <1>10

\* DELETE .../workflow.
LEMMA ResetSound ==
    ASSUME wrows \in WorkflowRows, Workflows!Reset
    PROVE  SomeSoundEdit
<1> DEFINE d == Workflows!FirstDefault(wrows)
           new == [wrows EXCEPT ![d] = Workflows!NoRow]
           pins == {0, d}
           g == Workflows!Group(pins, Workflows!DefinitionOf(wrows, d), Workflows!ResetTo(d))
<1>1. d # 0 /\ Workflows!Edit(Workflows!With(pins), {g}, TRUE, new, d)
  BY DEF Workflows!Reset, Workflows!Unpinned
<1>2. d \in Workflows!Rows /\ wrows[d].default
  BY <1>1, FirstDefaultIs
<1>3. /\ new \in WorkflowRows /\ new[d] = Workflows!NoRow
      /\ \A v \in Workflows!Rows : v # d => new[v] = wrows[v]
  BY <1>2 DEF WorkflowRows
<1>4. /\ g.pins = pins /\ g.before = Workflows!Sanitized(wrows[d].def)
      /\ g.after = Workflows!ResetTo(d)
  BY <1>1, GroupIs DEF Workflows!DefinitionOf, Workflows!Unpinned
<1> HIDE DEF d, new, g
<1>5. FollowedAt(new, 0) = Workflows!ResetTo(d)
  BY <1>2, <1>3, NoRowIs, AfterDemotion
<1>6. /\ FollowedAt(wrows, 0) = Workflows!Sanitized(wrows[d].def)
      /\ FollowedAt(wrows, d) = Workflows!Sanitized(wrows[d].def)
  BY <1>1, NamedIs DEF d
<1>7. OneDefault(wrows) => OneDefault(new)
  BY <1>3, NoRowIs DEF OneDefault
<1>8. ASSUME NEW pin, Pinnable(wrows, pin)
      PROVE  /\ Pinnable(new, Repinned(pin, d)) /\ Bound(pin, pins, new, d)
             /\ Judged(pin, {g}, new, d)
  <2>1. CASE pin \in pins
    <3>1. Repinned(pin, d) = 0
      BY <2>1 DEF Repinned
    <3>2. FollowedAt(wrows, pin) = Workflows!Sanitized(wrows[d].def)
      BY <1>6, <2>1
    <3>3. Judged(pin, {g}, new, d)
      BY <1>4, <1>5, <2>1, <3>1, <3>2 DEF Judged
    <3> QED  BY <2>1, <3>1, <3>3 DEF Bound, Pinnable, Pins
  <2>2. CASE pin \notin pins
    <3>1. pin # 0 /\ pin # d /\ pin \in Workflows!Rows
      BY <1>8, <2>2 DEF Pinnable, Pins
    <3>2. new[pin] = wrows[pin] /\ Repinned(pin, d) = pin
      BY <1>3, <3>1 DEF Repinned
    <3> QED  BY <1>8, <3>1, <3>2, PinnedKept DEF Pinnable
  <2> QED  BY <2>1, <2>2
<1>9. Sound(pins, {g}, new, d)
  BY <1>3, <1>7, <1>8 DEF Sound
<1> HIDE DEF pins
<1> QED  BY <1>1, <1>9 DEF SomeSoundEdit, SoundEdit

\* POST .../workflows: a row that is no default is followed by nobody yet.
LEMMA CreateRowSound ==
    ASSUME wrows \in WorkflowRows, NEW w \in Workflows!Rows, NEW def \in Offered,
           NEW default \in BOOLEAN, Workflows!CreateRow(w, def, default)
    PROVE  SomeSoundEdit
<1>1. /\ wrows[w] = Workflows!NoRow /\ def \in Definitions /\ w # 0
      /\ Workflows!Sanitized(def) = def
  <2>1. Workflows!NewRow(w)
    BY DEF Workflows!CreateRow
  <2> QED  BY <2>1, NewRowIs, AcceptedAsIs, RowsAreNumbers DEF Definitions
<1>2. wrows[w].default = FALSE
  BY <1>1, NoRowIs
<1>3. \A pin : Pinnable(wrows, pin) /\ pin # 0 => pin \in Workflows!Rows /\ pin # w
  BY <1>1 DEF Pinnable, Pins
<1>4. CASE default
  <2> DEFINE row == [def |-> def, default |-> TRUE]
             new == Workflows!SoleDefault(w, row)
             d == Workflows!FirstDefault(wrows)
             g == Workflows!Group({0}, Workflows!DefinitionOf(wrows, d), def)
  <2>1. Workflows!Edit(Workflows!With({0}), {g}, TRUE, new, 0)
    BY <1>4 DEF Workflows!CreateRow, Workflows!Unpinned
  <2>2. row \in Workflows!Row /\ row.def = def /\ row.default
    BY <1>1, RowIs
  <2>3. g.pins = {0} /\ g.before = Workflows!DefinitionOf(wrows, d) /\ g.after = def
    BY GroupIs
  <2> HIDE DEF row, g
  <2>4. /\ new \in WorkflowRows /\ new[w] = row
        /\ \A v \in Workflows!Rows : v # w =>
              /\ new[v].def = wrows[v].def
              /\ wrows[v] # Workflows!NoRow => new[v] # Workflows!NoRow
        /\ OneDefault(new) /\ Workflows!FirstDefault(new) = w
    BY <2>2, SoleDefaultIs
  <2> HIDE DEF new
  <2>5. FollowedAt(new, 0) = def
    <3>1. FollowedAt(new, 0) = Workflows!Sanitized(new[w].def)
      BY <1>1, <2>4, NamedIs
    <3> QED  BY <1>1, <2>2, <2>4, <3>1
  <2>6. FollowedAt(wrows, 0) = Workflows!DefinitionOf(wrows, d)
    BY DEF FollowedAt, Workflows!Follows, Workflows!Unpinned
  <2>7. Pinnable(new, 0) /\ Bound(0, {0}, new, 0) /\ Judged(0, {g}, new, 0)
    BY <2>3, <2>5, <2>6 DEF Pinnable, Pins, Bound, Judged, Repinned
  <2>8. ASSUME NEW pin, Pinnable(wrows, pin), pin # 0
        PROVE  Pinnable(new, pin) /\ Bound(pin, {0}, new, 0) /\ Judged(pin, {g}, new, 0)
    <3>1. new[pin].def = wrows[pin].def /\ new[pin] # Workflows!NoRow /\ pin \in Pins
      BY <1>3, <2>4, <2>8 DEF Pinnable
    <3> QED  BY <2>8, <3>1, PinnedKept DEF Pinnable
  <2>9. Sound({0}, {g}, new, 0)
    BY <2>4, <2>7, <2>8 DEF Sound, Repinned
  <2> QED  BY <2>1, <2>9 DEF SomeSoundEdit, SoundEdit
<1>5. CASE ~default
  <2> DEFINE row == [def |-> def, default |-> FALSE]
             new == [wrows EXCEPT ![w] = row]
  <2>1. Workflows!Edit({}, {}, FALSE, new, 0) /\ Workflows!With({}) = {}
    BY <1>5 DEF Workflows!CreateRow, Workflows!Unpinned, Workflows!With
  <2>2. row \in Workflows!Row /\ row.default = FALSE
    BY <1>1, RowIs
  <2> HIDE DEF row
  <2>3. /\ new \in WorkflowRows /\ new[w] = row
        /\ \A v \in Workflows!Rows : v # w => new[v] = wrows[v]
    BY <2>2 DEF WorkflowRows
  <2> HIDE DEF new
  <2>4. \A v \in Workflows!Rows : new[v].default = wrows[v].default
    BY <1>2, <2>2, <2>3
  <2>5. Workflows!FirstDefault(new) = Workflows!FirstDefault(wrows)
    BY <2>4, SameFlags
  <2>6. OneDefault(wrows) => OneDefault(new)
    BY <2>4 DEF OneDefault
  <2>7. Pinnable(new, 0) /\ Bound(0, {}, new, 0) /\ Judged(0, {}, new, 0)
    <3> DEFINE d == Workflows!FirstDefault(wrows)
    <3>1. d # 0 => d \in Workflows!Rows /\ d # w
      BY <1>2, FirstDefaultIs
    <3>2. d # 0 => new[d].def = wrows[d].def
      BY <2>3, <3>1
    <3> QED  BY <2>5, <3>2, UnpinnedKept DEF Pinnable, Pins
  <2>8. ASSUME NEW pin, Pinnable(wrows, pin), pin # 0
        PROVE  Pinnable(new, pin) /\ Bound(pin, {}, new, 0) /\ Judged(pin, {}, new, 0)
    <3>1. new[pin] = wrows[pin]
      BY <1>3, <2>3, <2>8
    <3> QED  BY <2>8, <3>1, PinnedKept DEF Pinnable
  <2>9. Sound({}, {}, new, 0)
    BY <2>3, <2>6, <2>7, <2>8 DEF Sound, Repinned
  <2> QED  BY <2>1, <2>9 DEF SomeSoundEdit, SoundEdit
<1> QED  BY <1>4, <1>5

\* The groups that an update is judged by.
SentGroups(w, def, default, flagSent) ==
    IF flagSent \/ (default /\ Workflows!FirstDefault(wrows) = w)
    THEN Workflows!UpdateGroups(w, def, default)
    ELSE {g \in Workflows!UpdateGroups(w, def, default) : g.pins = {w}}

HasGroup(groups, pin, before, after) ==
    \E g \in groups : pin \in g.pins /\ g.before = before /\ g.after = after

LEMMA SentGroupsAre ==
    ASSUME NEW w, NEW def, NEW default, NEW flagSent,
           NEW d, d = Workflows!FirstDefault(wrows),
           NEW before, before = Workflows!Sanitized(wrows[w].def),
           NEW groups, groups = SentGroups(w, def, default, flagSent)
    PROVE  /\ def # wrows[w].def => HasGroup(groups, w, before, def)
           /\ (flagSent \/ d = w) /\ default /\ (d # w \/ def # wrows[w].def) =>
                 HasGroup(groups, 0, Workflows!DefinitionOf(wrows, d),
                          IF def = wrows[w].def THEN before ELSE def)
<1> DEFINE after == IF def = wrows[w].def THEN before ELSE def
           all == Workflows!UpdateGroups(w, def, default)
           own == Workflows!Group({w}, before, after)
           free == Workflows!Group({0}, Workflows!DefinitionOf(wrows, d), after)
<1>1. /\ def # wrows[w].def => own \in all
      /\ default /\ (d # w \/ def # wrows[w].def) => free \in all
  BY DEF Workflows!UpdateGroups, Workflows!Unpinned
<1>2. /\ own.pins = {w} /\ own.before = before /\ own.after = after
      /\ free.pins = {0} /\ free.before = Workflows!DefinitionOf(wrows, d) /\ free.after = after
  BY GroupIs
<1>3. groups = IF flagSent \/ (default /\ d = w) THEN all ELSE {g \in all : g.pins = {w}}
  BY DEF SentGroups
<1> HIDE DEF own, free, all
<1>4. def # wrows[w].def => own \in groups
  BY <1>1, <1>2, <1>3
<1>5. (flagSent \/ d = w) /\ default /\ (d # w \/ def # wrows[w].def) => free \in groups
  BY <1>1, <1>3
<1>6. def # wrows[w].def => after = def
  OBVIOUS
<1> QED  BY <1>2, <1>4, <1>5, <1>6 DEF HasGroup

\* The one for the tasks that a demotion leaves without this default row.
LEMMA DemotedGroup ==
    ASSUME NEW w, w = Workflows!FirstDefault(wrows), NEW def, NEW default, ~default,
           NEW flagSent, flagSent
    PROVE  HasGroup(SentGroups(w, def, default, flagSent), 0,
                    Workflows!Sanitized(wrows[w].def), Workflows!ResetTo(w))
<1> DEFINE before == Workflows!Sanitized(wrows[w].def)
           g == Workflows!Group({0}, before, Workflows!ResetTo(w))
<1>1. g \in Workflows!UpdateGroups(w, def, default)
  BY DEF Workflows!UpdateGroups, Workflows!Unpinned
<1>2. g.pins = {0} /\ g.before = before /\ g.after = Workflows!ResetTo(w)
  BY GroupIs
<1> HIDE DEF g
<1> QED  BY <1>1, <1>2 DEF SentGroups, HasGroup

\* An update that makes a row the default one, and the only one.
LEMMA PromotionSound ==
    ASSUME wrows \in WorkflowRows, NEW w \in Workflows!Rows, wrows[w] # Workflows!NoRow,
           NEW def \in Offered \cup {wrows[w].def},
           NEW row \in Workflows!Row, row.def = def, row.default,
           NEW new, new = Workflows!SoleDefault(w, row), NEW pins,
           def # wrows[w].def => w \in pins,
           def # wrows[w].def \/ ~wrows[w].default => 0 \in pins,
           NEW default, default, NEW flagSent, flagSent,
           NEW groups, groups = SentGroups(w, def, default, flagSent)
    PROVE  Sound(pins, groups, new, 0)
<1> DEFINE d == Workflows!FirstDefault(wrows)
           before == Workflows!Sanitized(wrows[w].def)
<1>1. /\ new \in WorkflowRows /\ new[w] = row
      /\ \A v \in Workflows!Rows : v # w =>
            /\ new[v].def = wrows[v].def
            /\ wrows[v] # Workflows!NoRow => new[v] # Workflows!NoRow
      /\ OneDefault(new) /\ Workflows!FirstDefault(new) = w
  BY SoleDefaultIs
<1>2. w # 0 /\ row # Workflows!NoRow
  <2>1. wrows[w].def \in Definitions
    BY StoredIs
  <2>2. row.def \in Definitions
    BY <2>1 DEF Definitions
  <2> QED  BY <2>2, RowsAreNumbers, NoRowIs, NoDefNowhere
<1>3. Workflows!Sanitized(row.def) = IF def = wrows[w].def THEN before ELSE def
  BY AcceptedAsIs
<1>4. /\ FollowedAt(new, 0) = Workflows!Sanitized(row.def)
      /\ FollowedAt(new, w) = Workflows!Sanitized(row.def)
      /\ FollowedAt(wrows, w) = before
  <2>1. /\ FollowedAt(new, 0) = Workflows!Sanitized(new[w].def)
        /\ FollowedAt(new, w) = Workflows!Sanitized(new[w].def)
        /\ FollowedAt(wrows, w) = Workflows!Sanitized(wrows[w].def)
    BY <1>1, <1>2, NamedIs
  <2> QED  BY <1>1, <2>1
<1>5. FollowedAt(wrows, 0) = Workflows!DefinitionOf(wrows, d)
  BY DEF FollowedAt, Workflows!Follows, Workflows!Unpinned
<1>6. Judged(0, groups, new, 0)
  <2>1. CASE d # w \/ def # wrows[w].def
    <3>1. HasGroup(groups, 0, Workflows!DefinitionOf(wrows, d),
                   IF def = wrows[w].def THEN before ELSE def)
      BY <2>1, SentGroupsAre
    <3> QED  BY <1>3, <1>4, <1>5, <3>1 DEF Judged, Repinned, HasGroup
  <2>2. CASE d = w /\ def = wrows[w].def
    <3>1. FollowedAt(wrows, 0) = before
      BY <1>2, <2>2, NamedIs
    <3>2. FollowedAt(new, 0) = before
      BY <1>3, <1>4, <2>2
    <3> QED  BY <3>1, <3>2 DEF Judged, Repinned
  <2> QED  BY <2>1, <2>2
<1>7. Bound(0, pins, new, 0)
  <2>1. CASE 0 \in pins
    BY <2>1 DEF Bound
  <2>2. CASE ~OneDefault(wrows)
    BY <2>2 DEF Bound
  <2>3. CASE 0 \notin pins /\ OneDefault(wrows)
    <3>1. def = wrows[w].def /\ wrows[w].default
      BY <2>3
    <3>2. d = w
      <4>1. d \in Workflows!Rows /\ wrows[d].default
        BY <3>1, FirstDefaultIs
      <4> HIDE DEF d
      <4> QED  BY <2>3, <3>1, <4>1 DEF OneDefault
    <3>3. Workflows!Named(wrows, 0) = [row |-> w, def |-> wrows[w].def]
      BY <1>2, <3>2, NamedIs
    <3>4. Workflows!Named(new, 0) = [row |-> w, def |-> new[w].def]
      BY <1>1, <1>2, NamedIs
    <3> QED  BY <1>1, <3>1, <3>3, <3>4 DEF Bound, Repinned
  <2> QED  BY <2>1, <2>2, <2>3
<1>8. ASSUME NEW pin, Pinnable(wrows, pin), pin # 0
      PROVE  Pinnable(new, pin) /\ Bound(pin, pins, new, 0) /\ Judged(pin, groups, new, 0)
  <2>1. pin \in Workflows!Rows /\ wrows[pin] # Workflows!NoRow
    BY <1>8 DEF Pinnable, Pins
  <2>2. Pinnable(new, pin)
    BY <1>1, <1>2, <2>1 DEF Pinnable, Pins
  <2>3. CASE pin # w \/ def = wrows[w].def
    <3>1. new[pin].def = wrows[pin].def
      BY <1>1, <2>1, <2>3
    <3> QED  BY <1>8, <2>2, <3>1, PinnedKept
  <2>4. CASE pin = w /\ def # wrows[w].def
    <3>1. HasGroup(groups, w, before, def)
      BY <2>4, SentGroupsAre
    <3>2. FollowedAt(new, pin) = def /\ FollowedAt(wrows, pin) = before
      BY <1>3, <1>4, <2>4
    <3>3. Judged(pin, groups, new, 0)
      BY <1>8, <2>4, <3>1, <3>2 DEF Judged, Repinned, HasGroup
    <3> QED  BY <2>2, <2>4, <3>3 DEF Bound
  <2> QED  BY <2>3, <2>4
<1>9. Pinnable(new, 0)
  BY DEF Pinnable, Pins
<1> QED
  BY <1>1, <1>6, <1>7, <1>8, <1>9 DEF Sound, Repinned

\* An update that takes the default flag from a row.
LEMMA DemotionSound ==
    ASSUME wrows \in WorkflowRows, NEW w \in Workflows!Rows, wrows[w].default,
           NEW def \in Offered \cup {wrows[w].def},
           NEW row \in Workflows!Row, row # Workflows!NoRow, row.def = def, ~row.default,
           NEW new, new = [wrows EXCEPT ![w] = row], NEW pins,
           def # wrows[w].def => w \in pins, 0 \in pins,
           NEW default, ~default, NEW flagSent, flagSent,
           NEW groups, groups = SentGroups(w, def, default, flagSent)
    PROVE  Sound(pins, groups, new, 0)
<1> DEFINE d == Workflows!FirstDefault(wrows)
           before == Workflows!Sanitized(wrows[w].def)
<1>1. /\ new \in WorkflowRows /\ new[w] = row
      /\ \A v \in Workflows!Rows : v # w => new[v] = wrows[v]
  BY DEF WorkflowRows
<1>2. w # 0 /\ d \in Workflows!Rows /\ d # 0 /\ wrows[d].default
      /\ \A v \in Workflows!Rows : wrows[v].default => d <= v
  BY FirstDefaultIs, RowsAreNumbers
<1>3. OneDefault(wrows) => OneDefault(new)
  BY <1>1 DEF OneDefault
<1>4. /\ FollowedAt(wrows, w) = before
      /\ FollowedAt(wrows, 0) = Workflows!Sanitized(wrows[d].def)
  BY <1>2, NamedIs
<1>5. Judged(0, groups, new, 0)
  <2>1. CASE d = w
    <3>3. HasGroup(groups, 0, before, Workflows!ResetTo(w))
      BY <2>1, DemotedGroup
    <3>4. FollowedAt(new, 0) = Workflows!ResetTo(w)
      BY <1>1, AfterDemotion
    <3>5. FollowedAt(wrows, 0) = before
      BY <1>4, <2>1
    <3> QED  BY <3>3, <3>4, <3>5 DEF Judged, Repinned, HasGroup
  <2>2. CASE d # w
    <3>1. new[d] = wrows[d] /\ \A v \in Workflows!Rows : new[v].default => d <= v
      BY <1>1, <1>2, <2>2
    <3> HIDE DEF d
    <3>2. Workflows!FirstDefault(new) = d
      BY <1>2, <3>1, FirstDefaultOf
    <3>3. FollowedAt(new, 0) = Workflows!Sanitized(new[d].def)
      BY <1>2, <3>2, NamedIs
    <3> QED  BY <1>4, <3>1, <3>3 DEF Judged, Repinned
  <2> QED  BY <2>1, <2>2
<1>6. ASSUME NEW pin, Pinnable(wrows, pin), pin # 0
      PROVE  Pinnable(new, pin) /\ Bound(pin, pins, new, 0) /\ Judged(pin, groups, new, 0)
  <2>1. pin \in Workflows!Rows /\ wrows[pin] # Workflows!NoRow
    BY <1>6 DEF Pinnable, Pins
  <2>2. Pinnable(new, pin)
    BY <1>1, <2>1 DEF Pinnable, Pins
  <2>3. CASE pin # w \/ def = wrows[w].def
    <3>1. new[pin].def = wrows[pin].def
      BY <1>1, <2>1, <2>3
    <3> QED  BY <1>6, <2>2, <3>1, PinnedKept
  <2>4. CASE pin = w /\ def # wrows[w].def
    <3>1. HasGroup(groups, w, before, def)
      BY <2>4, SentGroupsAre
    <3>2. FollowedAt(new, w) = Workflows!Sanitized(new[w].def)
      BY <1>2, NamedIs
    <3>3. FollowedAt(new, pin) = def /\ FollowedAt(wrows, pin) = before
      BY <1>1, <1>4, <2>4, <3>2, AcceptedAsIs
    <3>4. Judged(pin, groups, new, 0)
      BY <1>6, <2>4, <3>1, <3>3 DEF Judged, Repinned, HasGroup
    <3> QED  BY <2>2, <2>4, <3>4 DEF Bound
  <2> QED  BY <2>3, <2>4
<1>7. Pinnable(new, 0) /\ Bound(0, pins, new, 0)
  BY DEF Pinnable, Pins, Bound
<1> QED
  BY <1>1, <1>3, <1>5, <1>6, <1>7 DEF Sound, Repinned

\* PUT /workflows/:id.
LEMMA UpdateRowSound ==
    ASSUME wrows \in WorkflowRows, NEW w \in Workflows!Rows,
           NEW def \in Offered \cup {wrows[w].def}, NEW default \in BOOLEAN,
           NEW flagSent \in BOOLEAN, Workflows!UpdateRow(w, def, default, flagSent)
    PROVE  SomeSoundEdit
<1> DEFINE row == [def |-> def, default |-> default]
           redefined == def # wrows[w].def
           flipped == default # wrows[w].default
           pins == (IF redefined THEN {w} ELSE {})
                      \cup (IF flipped \/ (redefined /\ wrows[w].default) THEN {0} ELSE {})
           groups == SentGroups(w, def, default, flagSent)
           new == IF flagSent /\ default THEN Workflows!SoleDefault(w, row)
                  ELSE [wrows EXCEPT ![w] = row]
<1>1. /\ wrows[w] # Workflows!NoRow /\ (~flagSent => default = wrows[w].default)
      /\ Workflows!Edit(Workflows!UpdateSelected(w, def, default), groups,
                        redefined \/ flipped, new, 0)
  BY DEF Workflows!UpdateRow, Workflows!Unpinned, SentGroups
<1>2. Workflows!UpdateSelected(w, def, default) = Workflows!With(pins)
  BY DEF Workflows!UpdateSelected, Workflows!With, Workflows!Unpinned
<1>3. /\ wrows[w].default \in BOOLEAN /\ wrows[w].def \in Definitions /\ def \in Definitions
      /\ w # 0
  BY <1>1, StoredIs, RowsAreNumbers DEF Definitions
<1>4. row \in Workflows!Row /\ row # Workflows!NoRow /\ row.def = def /\ row.default = default
  BY <1>3, RowIs
<1>5. /\ redefined \/ flipped \/ pins = {}
      /\ redefined => w \in pins
      /\ flipped \/ (redefined /\ wrows[w].default) => 0 \in pins
  OBVIOUS
<1> HIDE DEF row, pins, groups
<1>6. CASE flagSent /\ default
  <2>1. new = Workflows!SoleDefault(w, row) /\ groups = SentGroups(w, def, default, flagSent)
    BY <1>6 DEF groups
  <2>2. redefined \/ ~wrows[w].default => 0 \in pins
    BY <1>5, <1>6
  <2>3. Sound(pins, groups, new, 0)
    BY <1>1, <1>4, <1>5, <1>6, <2>1, <2>2, PromotionSound
  <2> QED  BY <1>1, <1>2, <1>5, <2>3 DEF SomeSoundEdit, SoundEdit
<1>7. CASE ~default /\ wrows[w].default
  <2>1. /\ new = [wrows EXCEPT ![w] = row] /\ groups = SentGroups(w, def, default, flagSent)
        /\ flagSent
    BY <1>1, <1>3, <1>7 DEF groups
  <2>2. 0 \in pins
    BY <1>5, <1>7
  <2>3. Sound(pins, groups, new, 0)
    BY <1>4, <1>5, <1>7, <2>1, <2>2, DemotionSound
  <2> QED  BY <1>1, <1>2, <1>5, <2>3 DEF SomeSoundEdit, SoundEdit
<1>8. CASE ~(flagSent /\ default) /\ ~(~default /\ wrows[w].default)
  <2>1. default = wrows[w].default /\ new = [wrows EXCEPT ![w] = row]
    BY <1>1, <1>3, <1>8
  <2>2. redefined => \E g \in groups : /\ w \in g.pins /\ g.after = def
                                       /\ g.before = Workflows!Sanitized(wrows[w].def)
    <3>1. redefined => HasGroup(groups, w, Workflows!Sanitized(wrows[w].def), def)
      BY SentGroupsAre DEF groups
    <3> QED  BY <3>1 DEF HasGroup
  <2>3. redefined /\ Workflows!FirstDefault(wrows) = w =>
           \E g \in groups : /\ 0 \in g.pins /\ g.after = def
                             /\ g.before = Workflows!Sanitized(wrows[w].def)
    <3> SUFFICES ASSUME redefined, Workflows!FirstDefault(wrows) = w
                 PROVE  \E g \in groups : /\ 0 \in g.pins /\ g.after = def
                                          /\ g.before = Workflows!Sanitized(wrows[w].def)
      OBVIOUS
    <3>1. default
      BY <1>3, <2>1, FirstDefaultIs
    <3>2. Workflows!DefinitionOf(wrows, w) = Workflows!Sanitized(wrows[w].def)
      BY <1>3 DEF Workflows!DefinitionOf, Workflows!Unpinned
    <3>3. HasGroup(groups, 0, Workflows!DefinitionOf(wrows, w),
                   IF def = wrows[w].def THEN Workflows!Sanitized(wrows[w].def) ELSE def)
      BY <3>1, SentGroupsAre DEF groups
    <3> QED  BY <3>2, <3>3 DEF HasGroup
  <2>4. redefined => def \in Offered
    OBVIOUS
  <2>5. Sound(pins, groups, new, 0)
    BY <1>1, <1>4, <1>5, <2>1, <2>2, <2>3, <2>4, SameFlagSound
  <2> QED  BY <1>1, <1>2, <1>5, <2>5 DEF SomeSoundEdit, SoundEdit
<1> QED  BY <1>6, <1>7, <1>8

\* Every edit is one of these.
LEMMA EditsSound == ASSUME WorkflowInv, Workflows!Edits \/ Workflows!Reset PROVE SomeSoundEdit
<1>1. wrows \in WorkflowRows
  BY DEF WorkflowInv, WorkflowTypes
<1>2. CASE Workflows!Reset
  BY <1>1, <1>2, ResetSound
<1>3. CASE Workflows!Edits
  <2>1. PICK w \in Workflows!Rows :
           \/ Workflows!Customize(w)
           \/ \E def \in Templates : Workflows!ApplyTemplate(def, w)
           \/ \E def \in Offered, default \in BOOLEAN : Workflows!CreateRow(w, def, default)
           \/ \E def \in Offered \cup {wrows[w].def}, default, flagSent \in BOOLEAN :
                 Workflows!UpdateRow(w, def, default, flagSent)
    BY <1>3 DEF Workflows!Edits
  <2> QED
    BY <1>1, <2>1, CustomizeSound, ApplyTemplateSound, CreateRowSound, UpdateRowSound
<1> QED  BY <1>2, <1>3

-----------------------------------------------------------------------------
(* A step of one task.                                                     *)

\* EditStrandsNobody and OnlyLateWritesStray, of one task.
StrandsNot(t) ==
    wtask'[t].status = wtask[t].status /\ wtask[t].status \in Workflows!Followed(t).work
       => Workflows!OnBoard(wtask[t].status, Workflows!Followed(t)')

StraysLate(t) ==
    wtask'[t].status # wtask[t].status
    /\ ~Workflows!OnBoard(wtask'[t].status, Workflows!Followed(t)')
       => /\ writer[t] # Workflows!NoWriter /\ writer[t].to = wtask'[t].status
          /\ writer[t].def # Workflows!Followed(t)'

StepGood == \A t \in Followers : StrandsNot(t) /\ StraysLate(t)

LEMMA FollowedIs ==
    ASSUME NEW t
    PROVE  /\ Workflows!Followed(t) = FollowedAt(wrows, wtask[t].pin)
           /\ Workflows!Followed(t)' = FollowedAt(wrows', wtask'[t].pin)
BY DEF Workflows!Followed, FollowedAt

LEMMA NoneIsNoStatus == "none" \notin Statuses
BY WorkflowsAssumption DEF Workflows!DefinitionsAssumption, Statuses, Definitions

\* What is followed has its initial state.
LEMMA FollowedHas ==
    ASSUME WorkflowInv, NEW pin, Pinnable(wrows, pin)
    PROVE  LET def == FollowedAt(wrows, pin) IN
           /\ def.initial \in Workflows!States(def) /\ "none" \notin Workflows!States(def)
           /\ Workflows!States(def) \subseteq Statuses
<1> DEFINE d == Workflows!Follows(wrows, pin)
<1>1. d = 0 \/ (d \in Workflows!Rows /\ wrows[d] # Workflows!NoRow)
  <2>1. wrows \in WorkflowRows
    BY DEF WorkflowInv, WorkflowTypes
  <2>2. CASE pin = 0
    <3>1. d = Workflows!FirstDefault(wrows)
      BY <2>2 DEF Workflows!Follows, Workflows!Unpinned
    <3> QED  BY <2>1, <3>1, FirstDefaultIs, StoredIs
  <2>3. CASE pin # 0
    BY <2>3 DEF Workflows!Follows, Workflows!Unpinned, Pinnable, Pins
  <2> QED  BY <2>2, <2>3
<1>2. \E def \in Definitions : FollowedAt(wrows, pin) = Workflows!Sanitized(def)
  <2>1. CASE d = 0
    <3>1. FollowedAt(wrows, pin) = BuiltIn /\ BuiltIn \in Definitions
      BY <2>1 DEF FollowedAt, Workflows!DefinitionOf, Workflows!Unpinned, Definitions
    <3> QED  BY <3>1, AcceptedAsIs
  <2>2. CASE d # 0
    <3>1. FollowedAt(wrows, pin) = Workflows!Sanitized(wrows[d].def)
      BY <2>2 DEF FollowedAt, Workflows!DefinitionOf, Workflows!Unpinned
    <3>2. wrows[d].def \in Definitions
      BY <1>1, <2>2, StoredIs DEF WorkflowInv, WorkflowTypes
    <3> QED  BY <3>1, <3>2
  <2> QED  BY <2>1, <2>2
<1> QED  BY <1>2, ReadsAre

\* A request moves a task to a state of the workflow that it has read.
LEMMA TargetsOnBoard ==
    ASSUME WorkflowInv, NEW t \in Followers,
           NEW to \in Workflows!Targets(wtask[t].status, Workflows!Followed(t))
                         \cup Workflows!RouteTargets(wtask[t].status, Workflows!Followed(t))
    PROVE  Workflows!OnBoard(to, Workflows!Followed(t)) /\ to \in Statuses
<1> DEFINE def == Workflows!Followed(t)
<1>1. Pinnable(wrows, wtask[t].pin) /\ def = FollowedAt(wrows, wtask[t].pin)
  BY FollowedIs DEF WorkflowInv, TasksStand
<1>2. /\ def.initial \in Workflows!States(def) /\ "none" \notin Workflows!States(def)
      /\ Workflows!States(def) \subseteq Statuses
  BY <1>1, FollowedHas
<1> HIDE DEF def
<1>3. to \in Workflows!States(def) \cup {"backlog", "abandoned"}
  BY <1>2 DEF Workflows!Targets, Workflows!RouteTargets, Workflows!Reserved, def
<1>4. to \in Statuses
  BY <1>2, <1>3 DEF Statuses
<1> QED
  BY <1>3, <1>4 DEF Workflows!OnBoard, Workflows!Reserved, def

\* A task that is there has a status.
LEMMA ThereIs ==
    ASSUME WorkflowInv, NEW t \in Followers, wtask[t] # Workflows!NotCreated
    PROVE  wtask[t].status # "none"
<1>1. wtask[t] \in [status : Statuses \cup {"none"}, pin : Pins]
  BY DEF WorkflowInv, WorkflowTypes
<1>2. wtask[t].status = "none" => wtask[t].pin = 0
  BY DEF WorkflowInv, TasksStand
<1> QED  BY <1>1, <1>2 DEF Workflows!NotCreated, Workflows!Unpinned

\* A task that keeps its pin, while the rows stay.
LEMMA StillOnBoard ==
    ASSUME wrows' = wrows, NEW t, wtask'[t].pin = wtask[t].pin
    PROVE  StrandsNot(t) /\ Workflows!Followed(t)' = Workflows!Followed(t)
BY FollowedIs DEF StrandsNot, Workflows!OnBoard, Workflows!States

\* One task gets a status and a pin.
LEMMA TaskWritten ==
    ASSUME WorkflowInv, wrows' = wrows, NEW t \in Followers, NEW s \in Statuses,
           NEW pin, Pinnable(wrows, pin),
           wtask' = [wtask EXCEPT ![t] = [status |-> s, pin |-> pin]]
    PROVE  /\ wtask' \in [Followers -> [status : Statuses \cup {"none"}, pin : Pins]]
           /\ TasksStand'
           /\ wtask'[t].status = s /\ wtask'[t].pin = pin
           /\ \A u \in Followers \ {t} : wtask'[u] = wtask[u]
           /\ \A u \in Followers \ {t} : StrandsNot(u) /\ StraysLate(u)
<1> DEFINE r == [status |-> s, pin |-> pin]
<1>1. r \in [status : Statuses \cup {"none"}, pin : Pins] /\ r.status = s /\ r.pin = pin
  BY DEF Pinnable
<1> HIDE DEF r
<1>2. /\ wtask' \in [Followers -> [status : Statuses \cup {"none"}, pin : Pins]]
      /\ wtask'[t] = r /\ \A u \in Followers \ {t} : wtask'[u] = wtask[u]
  BY <1>1 DEF WorkflowInv, WorkflowTypes, r
<1>3. ASSUME NEW u \in Followers
      PROVE  /\ Pinnable(wrows', wtask'[u].pin)
             /\ wtask'[u].status = "none" => wtask'[u].pin = 0
  <2>1. CASE u = t
    BY <1>1, <1>2, <2>1, NoneIsNoStatus
  <2>2. CASE u # t
    BY <1>2, <2>2 DEF WorkflowInv, TasksStand
  <2> QED  BY <2>1, <2>2
<1>4. TasksStand'
  BY <1>3 DEF TasksStand, Pinnable
<1>5. ASSUME NEW u \in Followers \ {t} PROVE StrandsNot(u) /\ StraysLate(u)
  BY <1>2, StillOnBoard DEF StraysLate
<1> QED  BY <1>1, <1>2, <1>4, <1>5

LEMMA StatusWritten ==
    ASSUME WorkflowInv, NEW t \in Followers, NEW s
    PROVE  [wtask EXCEPT ![t].status = s]
              = [wtask EXCEPT ![t] = [status |-> s, pin |-> wtask[t].pin]]
<1>1. wtask[t] \in [status : Statuses \cup {"none"}, pin : Pins]
  BY DEF WorkflowInv, WorkflowTypes
<1>2. [wtask[t] EXCEPT !.status = s] = [status |-> s, pin |-> wtask[t].pin]
  BY <1>1
<1> QED  BY <1>2

-----------------------------------------------------------------------------
(* What each step keeps.                                                   *)

LEMMA EditKept ==
    ASSUME WorkflowInv, NEW pins, NEW groups, NEW changed, NEW newRows, NEW unpin,
           SoundEdit(pins, groups, changed, newRows, unpin)
    PROVE  WorkflowInv' /\ StepGood
<1>1. /\ Sound(pins, groups, newRows, unpin) /\ (changed \/ pins = {})
      /\ Workflows!Stranded(groups) = {} /\ Workflows!With(pins) \cap reserved = {}
      /\ wrows' = newRows
      /\ wtask' = [t \in Followers |-> IF wtask[t].pin = unpin /\ unpin # 0
                                       THEN [wtask[t] EXCEPT !.pin = 0] ELSE wtask[t]]
      /\ attempt' = [t \in Followers |->
                        IF changed /\ t \in Workflows!With(pins) THEN Workflows!NoAttempt
                        ELSE attempt[t]]
      /\ writer' = writer /\ reserved' = reserved /\ enrolled' = enrolled
  BY DEF SoundEdit, Workflows!Edit, Workflows!Unpinned
<1>2. ASSUME NEW t \in Followers
      PROVE  /\ wtask'[t] \in [status : Statuses \cup {"none"}, pin : Pins]
             /\ wtask'[t].status = wtask[t].status
             /\ wtask'[t].pin = Repinned(wtask[t].pin, unpin)
  <2>1. wtask[t] \in [status : Statuses \cup {"none"}, pin : Pins] /\ 0 \in Pins
    BY DEF WorkflowInv, WorkflowTypes, Pins
  <2>2. CASE wtask[t].pin = unpin /\ unpin # 0
    <3>1. wtask'[t] = [wtask[t] EXCEPT !.pin = 0]
      BY <1>1, <2>2
    <3> QED  BY <2>1, <2>2, <3>1 DEF Repinned
  <2>3. CASE ~(wtask[t].pin = unpin /\ unpin # 0)
    <3>1. wtask'[t] = wtask[t]
      BY <1>1, <2>3
    <3> QED  BY <2>1, <2>3, <3>1 DEF Repinned
  <2> QED  BY <2>2, <2>3
<1>3. WorkflowTypes'
  <2>1. wrows' \in WorkflowRows
    BY <1>1 DEF Sound
  <2>2. wtask' \in [Followers -> [status : Statuses \cup {"none"}, pin : Pins]]
    BY <1>1, <1>2
  <2> QED  BY <1>1, <2>1, <2>2 DEF WorkflowInv, WorkflowTypes, WorkflowRows
<1>4. \A t \in Followers : /\ Pinnable(wrows, wtask[t].pin)
                           /\ wtask[t].status = "none" => wtask[t].pin = 0
  BY DEF WorkflowInv, TasksStand
<1>5. TasksStand'
  <2>1. ASSUME NEW t \in Followers
        PROVE  /\ Pinnable(wrows', wtask'[t].pin)
               /\ wtask'[t].status = "none" => wtask'[t].pin = 0
    BY <1>1, <1>2, <1>4 DEF Sound, Repinned
  <2> QED  BY <2>1 DEF TasksStand, Pinnable
<1>6. WritersOnBoard'
  BY <1>1 DEF WorkflowInv, WritersOnBoard
<1>7. ASSUME NEW t \in Followers, wtask[t].status # "none", t \notin Workflows!With(pins)
      PROVE  wtask[t].pin \notin pins
  <2>1. wtask[t] # Workflows!NotCreated
    BY <1>7 DEF Workflows!NotCreated
  <2> QED  BY <1>7, <2>1 DEF Workflows!With
<1>8. AttemptsStand'
  <2>1. ASSUME NEW t \in enrolled, attempt'[t] # Workflows!NoAttempt
        PROVE  /\ wtask'[t].status # "none"
               /\ attempt'[t] = Workflows!Named(wrows', wtask'[t].pin)
               /\ wtask'[t].pin = 0 => OneDefault(wrows')
    <3>1. t \in Followers
      BY DEF WorkflowInv, WorkflowTypes
    <3>2. attempt'[t] = attempt[t] /\ wtask[t].pin \notin pins
      <4>1. attempt'[t] = attempt[t] /\ ~(changed /\ t \in Workflows!With(pins))
        BY <1>1, <2>1, <3>1
      <4>2. wtask[t].status # "none"
        BY <2>1, <4>1 DEF WorkflowInv, AttemptsStand
      <4> QED  BY <1>1, <1>7, <3>1, <4>1, <4>2
    <3>3. /\ wtask[t].status # "none"
          /\ attempt[t] = Workflows!Named(wrows, wtask[t].pin)
          /\ wtask[t].pin = 0 => OneDefault(wrows)
      BY <2>1, <3>2 DEF WorkflowInv, AttemptsStand
    <3>4. Bound(wtask[t].pin, pins, newRows, unpin)
      BY <1>1, <1>4, <3>1 DEF Sound
    <3>5. /\ Repinned(wtask[t].pin, unpin) = wtask[t].pin
          /\ Workflows!Named(newRows, wtask[t].pin) = Workflows!Named(wrows, wtask[t].pin)
      BY <3>2, <3>3, <3>4 DEF Bound
    <3>6. wtask'[t].pin = wtask[t].pin /\ wtask'[t].status = wtask[t].status
      BY <1>2, <3>1, <3>5
    <3> QED  BY <1>1, <3>2, <3>3, <3>5, <3>6 DEF Sound
  <2>2. ASSUME NEW t \in reserved
        PROVE  attempt'[t] # Workflows!NoAttempt
    <3>1. t \in enrolled /\ t \in Followers /\ attempt[t] # Workflows!NoAttempt
      BY DEF WorkflowInv, WorkflowTypes, AttemptsStand
    <3> QED  BY <1>1, <3>1
  <2> QED  BY <1>1, <2>1, <2>2 DEF AttemptsStand, OneDefault
<1>9. ASSUME NEW t \in Followers PROVE StrandsNot(t) /\ StraysLate(t)
  <2> DEFINE before == FollowedAt(wrows, wtask[t].pin)
             after == FollowedAt(newRows, Repinned(wtask[t].pin, unpin))
  <2>1. Workflows!Followed(t) = before /\ Workflows!Followed(t)' = after
    BY <1>1, <1>2, FollowedIs
  <2>2. Judged(wtask[t].pin, groups, newRows, unpin)
    BY <1>1, <1>4 DEF Sound
  <2>3. wtask[t].status \in before.work => Workflows!OnBoard(wtask[t].status, after)
    <3>1. CASE after = before
      BY <3>1 DEF Workflows!OnBoard, Workflows!States
    <3>2. CASE after # before
      <4>1. PICK g \in groups : /\ wtask[t].pin \in g.pins
                                /\ g.before = before /\ g.after = after
        BY <2>2, <3>2 DEF Judged
      <4>2. wtask[t].status \notin g.before.work
                                   \ (Workflows!States(g.after) \cup Workflows!Reserved)
        BY <1>1, <4>1 DEF Workflows!Stranded
      <4> QED  BY <4>1, <4>2 DEF Workflows!OnBoard
    <3> QED  BY <3>1, <3>2
  <2> QED  BY <1>2, <2>1, <2>3 DEF StrandsNot, StraysLate
<1> QED  BY <1>3, <1>5, <1>6, <1>8, <1>9 DEF WorkflowInv, StepGood

\* A step that leaves the rows and the tasks as they are.
LEMMA NothingMoves ==
    ASSUME WorkflowInv, wrows' = wrows, wtask' = wtask, enrolled' = enrolled
    PROVE  /\ StepGood /\ TasksStand'
           /\ WorkflowTypes' <=> /\ writer' = [t \in Followers |-> writer'[t]]
                                 /\ attempt' = [t \in Followers |-> attempt'[t]]
                                 /\ reserved' \subseteq enrolled
<1>1. TasksStand'
  BY DEF WorkflowInv, TasksStand
<1>2. StepGood
  BY StillOnBoard DEF StepGood, StraysLate
<1> QED  BY <1>1, <1>2 DEF WorkflowInv, WorkflowTypes

\* A request reads.
LEMMA DecideKept ==
    ASSUME WorkflowInv, NEW t \in Followers,
           Workflows!Decide(t) \/ \E pin \in Pins : Workflows!DecideNew(t, pin)
    PROVE  WorkflowInv' /\ StepGood
<1>1. PICK to, pin, def :
         /\ to \in Statuses /\ pin \in Pins /\ Workflows!OnBoard(to, def)
         /\ t \in enrolled => wtask[t].status # "none"
         /\ writer' = [writer EXCEPT ![t] = [to |-> to, pin |-> pin, def |-> def]]
         /\ UNCHANGED <<wrows, wtask, attempt, reserved, enrolled>>
  <2>1. CASE Workflows!Decide(t)
    <3>1. PICK to \in Workflows!Targets(wtask[t].status, Workflows!Followed(t))
                        \cup Workflows!RouteTargets(wtask[t].status, Workflows!Followed(t)) :
             writer' = [writer EXCEPT ![t] = [to |-> to, pin |-> wtask[t].pin,
                                              def |-> Workflows!Followed(t)]]
      BY <2>1 DEF Workflows!Decide
    <3>2. wtask[t].pin \in Pins
      BY DEF WorkflowInv, WorkflowTypes
    <3>3. wtask[t].status # "none"
      BY <2>1, ThereIs DEF Workflows!Decide
    <3>4. UNCHANGED <<wrows, wtask, attempt, reserved, enrolled>>
      BY <2>1 DEF Workflows!Decide
    <3> QED  BY <3>1, <3>2, <3>3, <3>4, TargetsOnBoard
  <2>2. CASE \E pin \in Pins : Workflows!DecideNew(t, pin)
    <3>1. PICK pin \in Pins : Workflows!DecideNew(t, pin)
      BY <2>2
    <3> DEFINE def == Workflows!NewDefinition(pin)
    <3>2. Pinnable(wrows, pin)
      BY <3>1 DEF Workflows!DecideNew, Workflows!Pins, Workflows!Unpinned, Pinnable, Pins
    <3>3. def = FollowedAt(wrows, pin)
      BY DEF Workflows!NewDefinition, FollowedAt
    <3>4. Workflows!States(def) \cup {"backlog"} \subseteq Statuses
      BY <3>2, <3>3, FollowedHas DEF Statuses
    <3>5. PICK to \in Workflows!States(def) \cup {"backlog"} :
             writer' = [writer EXCEPT ![t] = [to |-> to, pin |-> pin, def |-> def]]
      BY <3>1 DEF Workflows!DecideNew
    <3> HIDE DEF def
    <3>6. Workflows!OnBoard(to, def) /\ to \in Statuses
      BY <3>4 DEF Workflows!OnBoard, Workflows!Reserved
    <3>7. t \notin enrolled /\ UNCHANGED <<wrows, wtask, attempt, reserved, enrolled>>
      BY <3>1 DEF Workflows!DecideNew
    <3> QED  BY <3>5, <3>6, <3>7
  <2> QED  BY <2>1, <2>2
<1> DEFINE w == [to |-> to, pin |-> pin, def |-> def]
<1>2. w.to = to /\ w.pin = pin /\ w.def = def
  OBVIOUS
<1> HIDE DEF w
<1>3. /\ writer'[t] = w /\ \A u \in Followers \ {t} : writer'[u] = writer[u]
      /\ writer' = [u \in Followers |-> writer'[u]]
  BY <1>1 DEF WorkflowInv, WorkflowTypes, w
<1>4. WritersOnBoard'
  <2>1. ASSUME NEW u \in Followers, writer'[u] # Workflows!NoWriter
        PROVE  /\ u \in enrolled => wtask'[u].status # "none"
               /\ writer'[u].to \in Statuses /\ writer'[u].pin \in Pins
               /\ Workflows!OnBoard(writer'[u].to, writer'[u].def)
    BY <1>1, <1>2, <1>3, <2>1 DEF WorkflowInv, WritersOnBoard
  <2> QED  BY <1>1, <2>1 DEF WritersOnBoard
<1>5. WorkflowTypes' /\ TasksStand' /\ StepGood
  BY <1>1, <1>3, NothingMoves DEF WorkflowInv, WorkflowTypes
<1>6. AttemptsStand'
  BY <1>1 DEF WorkflowInv, AttemptsStand
<1> QED  BY <1>4, <1>5, <1>6 DEF WorkflowInv

\* ... and writes, on the board that it has read.
LEMMA LandKept ==
    ASSUME WorkflowInv, NEW t \in Followers, Workflows!Land(t)
    PROVE  WorkflowInv' /\ StepGood
<1>1. /\ writer[t] # Workflows!NoWriter
      /\ t \in enrolled => wtask[t].status # "none"
      /\ writer[t].to \in Statuses /\ writer[t].pin \in Pins
      /\ Workflows!OnBoard(writer[t].to, writer[t].def)
  BY DEF Workflows!Land, WorkflowInv, WritersOnBoard
<1>2. /\ writer' = [writer EXCEPT ![t] = Workflows!NoWriter]
      /\ wtask' = [wtask EXCEPT ![t] = Workflows!Written(t)]
      /\ wrows' = wrows /\ reserved' = reserved /\ enrolled' = enrolled
  BY DEF Workflows!Land
<1>3. /\ writer'[t] = Workflows!NoWriter /\ \A u \in Followers \ {t} : writer'[u] = writer[u]
      /\ writer' = [u \in Followers |-> writer'[u]]
      /\ \A u \in Followers \ {t} : wtask'[u] = wtask[u]
  BY <1>2 DEF WorkflowInv, WorkflowTypes
<1>4. WritersOnBoard'
  <2>1. ASSUME NEW u \in Followers, writer'[u] # Workflows!NoWriter
        PROVE  /\ u \in enrolled => wtask'[u].status # "none"
               /\ writer'[u].to \in Statuses /\ writer'[u].pin \in Pins
               /\ Workflows!OnBoard(writer'[u].to, writer'[u].def)
    BY <1>3, <2>1 DEF WorkflowInv, WritersOnBoard
  <2> QED  BY <1>2, <2>1 DEF WritersOnBoard
\* The attempt of the task ends unless a merge holds it.
<1>5. /\ attempt' = [u \in Followers |-> attempt'[u]]
      /\ \A u \in Followers \ {t} : attempt'[u] = attempt[u]
      /\ attempt'[t] = IF t \in reserved THEN attempt[t] ELSE Workflows!NoAttempt
  BY DEF Workflows!Land, WorkflowInv, WorkflowTypes
<1>6. CASE wtask' = wtask
  <2>1. WorkflowTypes' /\ TasksStand' /\ StepGood
    BY <1>2, <1>3, <1>5, <1>6, NothingMoves DEF WorkflowInv, WorkflowTypes
  <2>2. \A u \in Followers :
           /\ attempt'[u] # Workflows!NoAttempt => attempt'[u] = attempt[u]
           /\ u \in reserved => attempt'[u] = attempt[u]
    BY <1>5
  <2>3. reserved \subseteq Followers /\ enrolled \subseteq Followers
    BY DEF WorkflowInv, WorkflowTypes
  <2>4. AttemptsStand'
    <3>1. ASSUME NEW u \in enrolled, attempt'[u] # Workflows!NoAttempt
          PROVE  /\ wtask'[u].status # "none"
                 /\ attempt'[u] = Workflows!Named(wrows', wtask'[u].pin)
                 /\ wtask'[u].pin = 0 => OneDefault(wrows')
      <4>1. attempt'[u] = attempt[u]
        BY <2>2, <2>3, <3>1
      <4> QED  BY <1>2, <1>6, <3>1, <4>1 DEF WorkflowInv, AttemptsStand
    <3>2. \A u \in reserved : attempt'[u] # Workflows!NoAttempt
      BY <2>2, <2>3 DEF WorkflowInv, AttemptsStand
    <3>3. reserved' = reserved /\ enrolled' = enrolled
      BY <1>2
    <3> QED  BY <3>1, <3>2, <3>3 DEF AttemptsStand, OneDefault
  <2> QED  BY <1>4, <2>1, <2>4 DEF WorkflowInv
<1>7. CASE wtask' # wtask
  <2>1. PICK pin :
           /\ Pinnable(wrows, pin)
           /\ wtask' = [wtask EXCEPT ![t] = [status |-> writer[t].to, pin |-> pin]]
           /\ wtask[t].status = "none" \/ pin = wtask[t].pin
           /\ t \notin reserved
    <3>1. Workflows!Written(t) # wtask[t]
      BY <1>2, <1>7 DEF WorkflowInv, WorkflowTypes
    <3>2. CASE wtask[t] # Workflows!NotCreated
      <4>1. /\ t \notin reserved
            /\ Workflows!Written(t) = [wtask[t] EXCEPT !.status = writer[t].to]
        BY <3>1, <3>2 DEF Workflows!Written
      <4>2. wtask' = [wtask EXCEPT ![t].status = writer[t].to]
        BY <1>2, <4>1
      <4> QED  BY <4>1, <4>2, StatusWritten DEF WorkflowInv, TasksStand
    <3>3. CASE wtask[t] = Workflows!NotCreated
      <4>1. wtask[t].status = "none"
        BY <3>3 DEF Workflows!NotCreated
      <4>2. /\ writer[t].pin \in Workflows!Pins
            /\ Workflows!Written(t) = [status |-> writer[t].to, pin |-> writer[t].pin]
        BY <3>1, <3>3 DEF Workflows!Written
      <4>3. Pinnable(wrows, writer[t].pin)
        BY <4>2 DEF Workflows!Pins, Workflows!Unpinned, Pinnable, Pins
      <4>4. t \notin reserved
        BY <1>1, <4>1 DEF WorkflowInv, WorkflowTypes
      <4> QED  BY <1>2, <4>1, <4>2, <4>3, <4>4
    <3> QED  BY <3>2, <3>3
  <2>2. /\ wtask' \in [Followers -> [status : Statuses \cup {"none"}, pin : Pins]]
        /\ TasksStand'
        /\ wtask'[t].status = writer[t].to /\ wtask'[t].pin = pin
        /\ \A u \in Followers \ {t} : wtask'[u] = wtask[u]
        /\ \A u \in Followers \ {t} : StrandsNot(u) /\ StraysLate(u)
    BY <1>1, <1>2, <2>1, TaskWritten
  <2>3. WorkflowTypes'
    BY <1>2, <1>3, <1>5, <2>2 DEF WorkflowInv, WorkflowTypes
  <2>4. AttemptsStand'
    <3>1. reserved \subseteq Followers \ {t} /\ enrolled \subseteq Followers
      BY <2>1 DEF WorkflowInv, WorkflowTypes
    <3>2. attempt'[t] = Workflows!NoAttempt
      BY <1>5, <2>1
    <3> QED  BY <1>2, <1>5, <2>2, <3>1, <3>2 DEF WorkflowInv, AttemptsStand
  <2>5. StrandsNot(t)
    <3>1. CASE pin = wtask[t].pin
      BY <1>2, <2>2, <3>1, StillOnBoard
    <3>2. CASE wtask[t].status = "none"
      <4>1. wtask[t].status # wtask'[t].status
        BY <1>1, <2>2, <3>2, NoneIsNoStatus
      <4> QED  BY <4>1 DEF StrandsNot
    <3> QED  BY <2>1, <3>1, <3>2
  <2>6. StraysLate(t)
    BY <1>1, <2>2 DEF StraysLate, Workflows!OnBoard
  <2> QED  BY <1>4, <2>2, <2>3, <2>4, <2>5, <2>6 DEF WorkflowInv, StepGood
<1> QED  BY <1>6, <1>7

\* Under the lock of the project what is written is what was read, and the task
\* has no attempt afterwards.
LEMMA WrittenUnderLock ==
    ASSUME WorkflowInv, NEW t \in enrolled, NEW s \in Statuses, NEW pin, Pinnable(wrows, pin),
           wtask' = [wtask EXCEPT ![t] = [status |-> s, pin |-> pin]],
           wtask[t].status = "none" \/ pin = wtask[t].pin,
           Workflows!OnBoard(s, FollowedAt(wrows, pin)),
           attempt' = [attempt EXCEPT ![t] = Workflows!NoAttempt],
           reserved' \subseteq reserved \ {t},
           writer' \in {writer, [writer EXCEPT ![t] = Workflows!NoWriter]},
           UNCHANGED <<wrows, enrolled>>
    PROVE  WorkflowInv' /\ StepGood
<1>1. t \in Followers
  BY DEF WorkflowInv, WorkflowTypes
<1>2. /\ wtask' \in [Followers -> [status : Statuses \cup {"none"}, pin : Pins]]
      /\ TasksStand'
      /\ wtask'[t].status = s /\ wtask'[t].pin = pin
      /\ \A u \in Followers \ {t} : wtask'[u] = wtask[u]
      /\ \A u \in Followers \ {t} : StrandsNot(u) /\ StraysLate(u)
  BY <1>1, TaskWritten
<1>3. /\ attempt'[t] = Workflows!NoAttempt
      /\ \A u \in Followers \ {t} : attempt'[u] = attempt[u]
      /\ attempt' = [u \in Followers |-> attempt'[u]]
  BY <1>1 DEF WorkflowInv, WorkflowTypes
<1>4. WorkflowTypes'
  <2>1. writer' = [u \in Followers |-> writer'[u]]
    BY DEF WorkflowInv, WorkflowTypes
  <2> QED  BY <1>2, <1>3, <2>1 DEF WorkflowInv, WorkflowTypes
<1>5. WritersOnBoard'
  <2>1. \A u \in Followers : writer'[u] \in {writer[u], Workflows!NoWriter}
    BY DEF WorkflowInv, WorkflowTypes
  <2>2. \A u \in Followers : wtask[u].status # "none" => wtask'[u].status # "none"
    BY <1>2, NoneIsNoStatus
  <2> QED  BY <2>1, <2>2 DEF WorkflowInv, WritersOnBoard
<1>6. AttemptsStand'
  <2>1. ASSUME NEW u \in enrolled, attempt'[u] # Workflows!NoAttempt
        PROVE  u \in Followers \ {t} /\ attempt'[u] = attempt[u] /\ wtask'[u] = wtask[u]
    BY <1>2, <1>3, <2>1 DEF WorkflowInv, WorkflowTypes
  <2>2. ASSUME NEW u \in reserved' PROVE attempt'[u] # Workflows!NoAttempt
    BY <1>3 DEF WorkflowInv, WorkflowTypes, AttemptsStand
  <2> QED  BY <2>1, <2>2 DEF WorkflowInv, AttemptsStand
<1>7. Workflows!Followed(t)' = FollowedAt(wrows, pin)
  BY <1>2, FollowedIs
<1>8. StraysLate(t)
  BY <1>2, <1>7 DEF StraysLate
<1>9. StrandsNot(t)
  BY <1>2, <1>7 DEF StrandsNot
<1> QED  BY <1>2, <1>4, <1>5, <1>6, <1>8, <1>9 DEF WorkflowInv, StepGood

LEMMA CreateEnrolledKept ==
    ASSUME WorkflowInv, NEW t \in Followers, NEW pin, Workflows!CreateEnrolled(t, pin)
    PROVE  WorkflowInv' /\ StepGood
<1> DEFINE def == FollowedAt(wrows, pin)
<1>1. /\ t \in enrolled /\ wtask[t].status = "none"
      /\ UNCHANGED <<wrows, writer, attempt, reserved, enrolled>>
  BY DEF Workflows!CreateEnrolled, Workflows!NotCreated
<1>2. Pinnable(wrows, pin)
  BY DEF Workflows!CreateEnrolled, Workflows!Pins, Workflows!Unpinned, Pinnable, Pins
<1>3. def = Workflows!NewDefinition(pin)
  BY DEF Workflows!NewDefinition, FollowedAt
<1> HIDE DEF def
<1>4. PICK s \in def.work \cup {"backlog"} :
         wtask' = [wtask EXCEPT ![t] = [status |-> s, pin |-> pin]]
  BY <1>3 DEF Workflows!CreateEnrolled
<1>5. Workflows!States(def) \subseteq Statuses
  BY <1>2, FollowedHas DEF def
<1>6. s \in Statuses /\ Workflows!OnBoard(s, FollowedAt(wrows, pin))
  BY <1>5 DEF Statuses, Workflows!States, Workflows!OnBoard, Workflows!Reserved, def
<1>7. attempt[t] = Workflows!NoAttempt
  BY <1>1 DEF WorkflowInv, AttemptsStand
<1>8. attempt' = [attempt EXCEPT ![t] = Workflows!NoAttempt]
  BY <1>1, <1>7 DEF WorkflowInv, WorkflowTypes
<1>9. reserved' \subseteq reserved \ {t}
  BY <1>1, <1>7 DEF WorkflowInv, AttemptsStand
<1> QED  BY <1>1, <1>2, <1>4, <1>6, <1>8, <1>9, WrittenUnderLock

LEMMA MoveEnrolledKept ==
    ASSUME WorkflowInv, NEW t \in Followers, Workflows!MoveEnrolled(t)
    PROVE  WorkflowInv' /\ StepGood
<1>1. PICK to \in Workflows!Targets(wtask[t].status, Workflows!Followed(t)) :
         wtask' = [wtask EXCEPT ![t].status = to]
  BY DEF Workflows!MoveEnrolled
<1>2. to \in Statuses /\ Workflows!OnBoard(to, FollowedAt(wrows, wtask[t].pin))
  BY <1>1, TargetsOnBoard, FollowedIs
<1>3. /\ t \in enrolled /\ t \notin reserved
      /\ attempt' = [attempt EXCEPT ![t] = Workflows!NoAttempt]
      /\ writer' = [writer EXCEPT ![t] = Workflows!NoWriter]
      /\ UNCHANGED <<wrows, reserved, enrolled>>
  BY DEF Workflows!MoveEnrolled
<1>4. wtask' = [wtask EXCEPT ![t] = [status |-> to, pin |-> wtask[t].pin]]
  BY <1>1, StatusWritten
<1>5. Pinnable(wrows, wtask[t].pin)
  BY DEF WorkflowInv, TasksStand
<1> QED  BY <1>2, <1>3, <1>4, <1>5, WrittenUnderLock

\* A merge ends the attempt, and the task stays or is done.
LEMMA EndMergeKept ==
    ASSUME WorkflowInv, NEW t \in Followers, Workflows!EndMerge(t)
    PROVE  WorkflowInv' /\ StepGood
<1> DEFINE def == Workflows!Followed(t)
<1>1. /\ t \in reserved /\ t \in enrolled /\ reserved' = reserved \ {t}
      /\ attempt' = [attempt EXCEPT ![t] = Workflows!NoAttempt]
      /\ UNCHANGED <<wrows, enrolled>>
  BY DEF Workflows!EndMerge, WorkflowInv, WorkflowTypes
<1>2. Pinnable(wrows, wtask[t].pin) /\ def = FollowedAt(wrows, wtask[t].pin)
  BY FollowedIs DEF WorkflowInv, TasksStand
<1>3. CASE UNCHANGED <<wtask, writer>>
  <2>1. /\ attempt'[t] = Workflows!NoAttempt
        /\ \A u \in Followers \ {t} : attempt'[u] = attempt[u]
        /\ attempt' = [u \in Followers |-> attempt'[u]]
    BY <1>1 DEF WorkflowInv, WorkflowTypes
  <2>2. reserved' \subseteq enrolled /\ enrolled \subseteq Followers
    BY <1>1 DEF WorkflowInv, WorkflowTypes
  <2>3. WorkflowTypes' /\ TasksStand' /\ StepGood
    BY <1>1, <1>3, <2>1, <2>2, NothingMoves DEF WorkflowInv, WorkflowTypes
  <2>4. WritersOnBoard'
    BY <1>1, <1>3 DEF WorkflowInv, WritersOnBoard
  <2>5. AttemptsStand'
    <3>1. \A u \in enrolled : u # t => attempt'[u] = attempt[u]
      BY <2>1, <2>2
    <3>2. \A u \in reserved' : u \in enrolled /\ u # t /\ u \in reserved
      BY <1>1, <2>2
    <3> QED  BY <1>1, <1>3, <2>1, <3>1, <3>2 DEF WorkflowInv, AttemptsStand
  <2> QED  BY <2>3, <2>4, <2>5 DEF WorkflowInv
<1>4. CASE /\ \E to \in def.final : wtask' = [wtask EXCEPT ![t].status = to]
           /\ writer' = [writer EXCEPT ![t] = Workflows!NoWriter]
  <2>1. PICK to \in def.final : wtask' = [wtask EXCEPT ![t].status = to]
    BY <1>4
  <2> HIDE DEF def
  <2>2. to \in Statuses /\ Workflows!OnBoard(to, def)
    <3>1. Workflows!States(def) \subseteq Statuses
      BY <1>2, FollowedHas
    <3> QED  BY <3>1 DEF Workflows!States, Workflows!OnBoard
  <2>3. wtask' = [wtask EXCEPT ![t] = [status |-> to, pin |-> wtask[t].pin]]
    BY <2>1, StatusWritten
  <2> QED  BY <1>1, <1>2, <1>4, <2>2, <2>3, WrittenUnderLock
<1> QED  BY <1>3, <1>4 DEF Workflows!EndMerge

\* An attempt is issued for the workflow as it stands.
LEMMA IssueKept ==
    ASSUME WorkflowInv, NEW t \in Followers, Workflows!Issue(t)
    PROVE  WorkflowInv' /\ StepGood
<1> DEFINE a == Workflows!Named(wrows, wtask[t].pin)
<1>1. /\ t \in enrolled \ reserved /\ Workflows!Unambiguous(wtask[t].pin)
      /\ wtask[t].status \in Workflows!Followed(t).work
      /\ attempt' = [attempt EXCEPT ![t] = a]
      /\ UNCHANGED <<wrows, wtask, writer, reserved, enrolled>>
  BY DEF Workflows!Issue
<1> HIDE DEF a
<1>2. /\ attempt'[t] = a /\ \A u \in Followers \ {t} : attempt'[u] = attempt[u]
      /\ attempt' = [u \in Followers |-> attempt'[u]]
  BY <1>1 DEF WorkflowInv, WorkflowTypes
<1>3. wtask[t].status # "none" /\ (wtask[t].pin = 0 => OneDefault(wrows))
  <2>1. Pinnable(wrows, wtask[t].pin)
    BY DEF WorkflowInv, TasksStand
  <2>2. "none" \notin Workflows!States(FollowedAt(wrows, wtask[t].pin))
    BY <2>1, FollowedHas
  <2>3. wtask[t].status \in Workflows!States(FollowedAt(wrows, wtask[t].pin))
    BY <1>1, FollowedIs DEF Workflows!States
  <2> QED
    BY <1>1, <2>2, <2>3 DEF Workflows!Unambiguous, Workflows!Unpinned, OneDefault
<1>4. WorkflowTypes' /\ TasksStand' /\ StepGood
  BY <1>1, <1>2, NothingMoves DEF WorkflowInv, WorkflowTypes
<1>5. WritersOnBoard'
  BY <1>1 DEF WorkflowInv, WritersOnBoard
<1>6. AttemptsStand'
  <2>1. \A u \in enrolled : u # t => attempt'[u] = attempt[u]
    BY <1>2 DEF WorkflowInv, WorkflowTypes
  <2>2. \A u \in reserved : u \in enrolled /\ u # t
    BY <1>1 DEF WorkflowInv, WorkflowTypes
  <2> QED  BY <1>1, <1>2, <1>3, <2>1, <2>2 DEF WorkflowInv, AttemptsStand, a
<1> QED  BY <1>4, <1>5, <1>6 DEF WorkflowInv

\* A merge holds a task with its attempt.
LEMMA ReserveKept ==
    ASSUME WorkflowInv, NEW t \in Followers, Workflows!Reserve(t)
    PROVE  WorkflowInv' /\ StepGood
<1>1. /\ t \in enrolled /\ attempt[t] # Workflows!NoAttempt /\ reserved' = reserved \cup {t}
      /\ UNCHANGED <<wrows, wtask, writer, attempt, enrolled>>
  BY DEF Workflows!Reserve
<1>2. reserved' \subseteq enrolled
  BY <1>1 DEF WorkflowInv, WorkflowTypes
<1>3. WorkflowTypes' /\ TasksStand' /\ StepGood
  BY <1>1, <1>2, NothingMoves DEF WorkflowInv, WorkflowTypes
<1>4. WritersOnBoard' /\ AttemptsStand'
  BY <1>1 DEF WorkflowInv, WritersOnBoard, AttemptsStand
<1> QED  BY <1>3, <1>4 DEF WorkflowInv

LEMMA WorkflowStepKept ==
    ASSUME WorkflowInv, [Workflows!Next]_(Workflows!vars)
    PROVE  WorkflowInv' /\ StepGood
<1>1. CASE UNCHANGED Workflows!vars
  <2>1. /\ wrows' = wrows /\ wtask' = wtask /\ writer' = writer /\ attempt' = attempt
        /\ reserved' = reserved /\ enrolled' = enrolled
    BY <1>1 DEF Workflows!vars
  <2>2. WorkflowTypes' /\ TasksStand' /\ StepGood
    BY <2>1, NothingMoves DEF WorkflowInv, WorkflowTypes
  <2>3. WritersOnBoard' /\ AttemptsStand'
    BY <2>1 DEF WorkflowInv, WritersOnBoard, AttemptsStand
  <2> QED  BY <2>2, <2>3 DEF WorkflowInv
<1>2. CASE Workflows!Edits \/ Workflows!Reset
  <2>1. PICK pins, groups, changed, newRows, unpin :
           SoundEdit(pins, groups, changed, newRows, unpin)
    BY <1>2, EditsSound DEF SomeSoundEdit
  <2> QED  BY <2>1, EditKept
<1>3. ASSUME NEW t \in Followers,
             \/ Workflows!Decide(t) \/ Workflows!Land(t) \/ Workflows!MoveEnrolled(t)
             \/ Workflows!Issue(t) \/ Workflows!Reserve(t) \/ Workflows!EndMerge(t)
             \/ \E pin \in Workflows!Rows \cup {Workflows!Unpinned} :
                   Workflows!DecideNew(t, pin) \/ Workflows!CreateEnrolled(t, pin)
      PROVE  WorkflowInv' /\ StepGood
  <2>1. CASE \E pin \in Workflows!Rows \cup {Workflows!Unpinned} :
                Workflows!DecideNew(t, pin) \/ Workflows!CreateEnrolled(t, pin)
    <3>1. PICK pin \in Pins : Workflows!DecideNew(t, pin) \/ Workflows!CreateEnrolled(t, pin)
      BY <2>1 DEF Pins, Workflows!Unpinned
    <3>2. CASE Workflows!DecideNew(t, pin)
      BY <3>2, DecideKept
    <3>3. CASE Workflows!CreateEnrolled(t, pin)
      BY <3>3, CreateEnrolledKept
    <3> QED  BY <3>1, <3>2, <3>3
  <2>2. CASE Workflows!Decide(t)
    BY <2>2, DecideKept
  <2>3. CASE Workflows!Land(t)
    BY <2>3, LandKept
  <2>4. CASE Workflows!MoveEnrolled(t)
    BY <2>4, MoveEnrolledKept
  <2>5. CASE Workflows!Issue(t)
    BY <2>5, IssueKept
  <2>6. CASE Workflows!Reserve(t)
    BY <2>6, ReserveKept
  <2>7. CASE Workflows!EndMerge(t)
    BY <2>7, EndMergeKept
  <2> QED  BY <1>3, <2>1, <2>2, <2>3, <2>4, <2>5, <2>6, <2>7
<1> QED  BY <1>1, <1>2, <1>3 DEF Workflows!Next

LEMMA WorkflowStart == ASSUME Workflows!Init PROVE WorkflowInv
<1>1. /\ wrows \in WorkflowRows
      /\ wtask = [t \in Followers |-> Workflows!NotCreated]
      /\ writer = [t \in Followers |-> Workflows!NoWriter]
      /\ attempt = [t \in Followers |-> Workflows!NoAttempt]
      /\ reserved = {} /\ enrolled \in SUBSET Followers
  BY DEF Workflows!Init, WorkflowRows
<1>2. /\ Workflows!NotCreated \in [status : Statuses \cup {"none"}, pin : Pins]
      /\ Workflows!NotCreated.status = "none" /\ Workflows!NotCreated.pin = 0
  BY DEF Workflows!NotCreated, Workflows!Unpinned, Pins
<1>3. WorkflowTypes
  BY <1>1, <1>2 DEF WorkflowTypes
<1>4. TasksStand
  BY <1>1, <1>2 DEF TasksStand, Pinnable, Pins
<1>5. WritersOnBoard /\ AttemptsStand
  BY <1>1 DEF WritersOnBoard, AttemptsStand
<1> QED  BY <1>3, <1>4, <1>5 DEF WorkflowInv

LEMMA WorkflowsStay == Workflows!Spec => []WorkflowInv
<1>1. Workflows!Init => WorkflowInv
  BY WorkflowStart
<1>2. WorkflowInv /\ [Workflows!Next]_(Workflows!vars) => WorkflowInv'
  BY WorkflowStepKept
<1> QED  BY <1>1, <1>2, PTL DEF Workflows!Spec

\* mutateGroundingContext and the attempts: for any number of rows, definitions,
\* tasks and edits, an active attempt names the row and the stored definition
\* that its task follows, and a merge holds no task without one.
THEOREM AttemptsBind == Workflows!Spec => []AttemptBindsCurrent
<1>1. WorkflowInv => AttemptBindsCurrent
  BY DEF WorkflowInv, AttemptsStand, AttemptBindsCurrent, Workflows!AttemptBindsCurrent
<1> QED  BY <1>1, WorkflowsStay, PTL

\* followerGroupsOfUpdate and findStrandedTasks: whatever the edit of a workflow,
\* and however many default rows older versions have left, an unfinished task
\* finds its state in the workflow that it follows afterwards.
THEOREM NobodyIsStranded == Workflows!Spec => EditStrandsNobody
<1>1. WorkflowInv /\ [Workflows!Next]_(Workflows!vars) =>
         [\A t \in Followers :
             wtask'[t].status = wtask[t].status
             /\ wtask[t].status \in Workflows!Followed(t).work
                => Workflows!OnBoard(wtask[t].status, Workflows!Followed(t)')]_(Workflows!vars)
  BY WorkflowStepKept DEF StepGood, StrandsNot
<1> QED
  BY <1>1, WorkflowsStay, PTL DEF Workflows!Spec, EditStrandsNobody, Workflows!EditStrandsNobody

\* The routes that read a workflow before they write a status (/start, /claim,
\* /release, PATCH and the others, on enrolled tasks and on others): only the late
\* write of what was decided by an earlier workflow puts a task outside its own;
\* a move that Grounding decides under the lock, a merge and an edit never do.
THEOREM StraysAreLate == Workflows!Spec => OnlyLateWritesStray
<1>1. WorkflowInv /\ [Workflows!Next]_(Workflows!vars) =>
         [\A t \in Followers :
             wtask'[t].status # wtask[t].status
             /\ ~Workflows!OnBoard(wtask'[t].status, Workflows!Followed(t)')
                => /\ writer[t] # Workflows!NoWriter /\ writer[t].to = wtask'[t].status
                   /\ writer[t].def # Workflows!Followed(t)']_(Workflows!vars)
  BY WorkflowStepKept DEF StepGood, StraysLate
<1> QED
  BY <1>1, WorkflowsStay, PTL
  DEF Workflows!Spec, OnlyLateWritesStray, Workflows!OnlyLateWritesStray

-----------------------------------------------------------------------------
(***************************************************************************)
(* Imports.                                                                *)
(***************************************************************************)

ImportSlot == [pc : {"new", "run", "answered", "cut"}, batch : Batches \cup {<<>>},
               todo : SUBSET Intake!Positions, created : SUBSET Intake!Entry, skipped : Nat,
               errors : SUBSET Intake!Entry]

ImportTypes == /\ irows \subseteq Intake!Row /\ deleted \subseteq Refs
               /\ ireq \in [Requests -> ImportSlot]

\* No two tasks for a reference.
OneEach == \A v, w \in irows : v.ref = w.ref /\ v.ref # NoRef => v = w

\* What an import has done and has left adds up to its batch.
Accounts(q) ==
    q.pc # "new" =>
       /\ q.batch \in Batches
       /\ q.todo \subseteq Intake!Kept(q.batch)
       /\ IsFiniteSet(q.created) /\ IsFiniteSet(q.errors)
       /\ \A e \in q.created \cup q.errors : e.item \notin q.todo
       /\ Cardinality(q.created) + q.skipped + Cardinality(q.errors) + Cardinality(q.todo)
             = Len(q.batch)
       /\ q.pc = "answered" => q.todo = {}

\* A reference that an import has dealt with has its task, or had it.
Seen(ref, rs, gone) == (\E row \in rs : row.ref = ref) \/ ref \in gone

Fulfilled(q, rs, gone) ==
    q.pc # "new" /\ q.errors = {} =>
       \A i \in Intake!Kept(q.batch) \ q.todo :
          IF q.batch[i] = NoRef THEN \E e \in q.created : e.item = i
          ELSE Seen(q.batch[i], rs, gone)

IntakeInv == /\ ImportTypes /\ OneEach
             /\ \A r \in Requests : Accounts(ireq[r]) /\ Fulfilled(ireq[r], irows, deleted)

LEMMA ImportSizeIs == ASSUME NEW S PROVE Intake!Cardinality(S) = Cardinality(S)
BY DEF Intake!Cardinality, Cardinality

\* What is kept of a batch are some of its items, and one for each reference.
LEMMA KeptIs ==
    ASSUME NEW b \in Batches
    PROVE  /\ Len(b) \in Nat /\ DOMAIN b = 1 .. Len(b)
           /\ \A i \in DOMAIN b : b[i] \in Refs \cup {NoRef}
           /\ Intake!Kept(b) \subseteq 1 .. Len(b)
           /\ IsFiniteSet(Intake!Kept(b))
           /\ Cardinality(Intake!Kept(b)) \in Nat
           /\ Cardinality(Intake!Kept(b)) <= Len(b)
<1>1. b \in Seq(Refs \cup {NoRef})
  BY IntakeAssumption DEF Intake!DefinitionsAssumption
<1>2. /\ Len(b) \in Nat /\ DOMAIN b = 1 .. Len(b)
      /\ \A i \in DOMAIN b : b[i] \in Refs \cup {NoRef}
  BY <1>1
<1>3. Intake!Kept(b) \subseteq 1 .. Len(b)
  BY <1>2 DEF Intake!Kept
<1>4. IsFiniteSet(1 .. Len(b)) /\ Cardinality(1 .. Len(b)) = Len(b)
  BY <1>2, FS_Interval
<1>5. /\ IsFiniteSet(Intake!Kept(b))
      /\ Cardinality(Intake!Kept(b)) <= Cardinality(1 .. Len(b))
  BY <1>3, <1>4, FS_Subset
<1>6. Cardinality(Intake!Kept(b)) \in Nat
  BY <1>5, FS_CardinalityType
<1> QED  BY <1>2, <1>3, <1>4, <1>5, <1>6

LEMMA KeptCovers ==
    ASSUME NEW b \in Batches, NEW i \in DOMAIN b
    PROVE  \E k \in Intake!Kept(b) : b[k] = b[i]
<1> DEFINE T == {j \in 1 .. Len(b) : b[j] = b[i]}
<1>1. i \in T /\ T \in SUBSET Nat
  BY KeptIs
<1> HIDE DEF T
<1>2. PICK m \in T : \A k \in T : m <= k
  BY <1>1, Least
<1>3. m \in DOMAIN b /\ b[m] = b[i] /\ m \in Nat
  BY KeptIs DEF T
<1>4. ASSUME NEW j \in 1 .. m - 1 PROVE b[j] # b[m]
  <2>1. j \in 1 .. Len(b) /\ ~ (m <= j)
    BY <1>3, KeptIs
  <2> QED  BY <1>2, <1>3, <2>1 DEF T
<1> QED  BY <1>3, <1>4 DEF Intake!Kept

\* A request takes a step; no task goes.
LEMMA ImportOn ==
    ASSUME IntakeInv, NEW r \in Requests, NEW n \in ImportSlot,
           ireq' = [ireq EXCEPT ![r] = n], irows \subseteq irows',
           irows' \subseteq Intake!Row, deleted' = deleted, OneEach',
           Accounts(n), Fulfilled(n, irows', deleted)
    PROVE  IntakeInv'
<1>1. ireq \in [Requests -> ImportSlot]
  BY DEF IntakeInv, ImportTypes
<1>2. \A q \in Requests : ireq'[q] = IF q = r THEN n ELSE ireq[q]
  BY <1>1
<1>3. ImportTypes'
  BY <1>1 DEF IntakeInv, ImportTypes
<1>4. ASSUME NEW q \in Requests
      PROVE  Accounts(ireq'[q]) /\ Fulfilled(ireq'[q], irows', deleted')
  <2>1. CASE q = r
    BY <1>2, <2>1
  <2>2. CASE q # r
    <3>1. Accounts(ireq[q]) /\ Fulfilled(ireq[q], irows, deleted) /\ ireq'[q] = ireq[q]
      BY <1>2, <2>2 DEF IntakeInv
    <3>2. \A ref : Seen(ref, irows, deleted) => Seen(ref, irows', deleted')
      BY DEF Seen
    <3>3. Fulfilled(ireq[q], irows', deleted')
      BY <3>1, <3>2 DEF Fulfilled
    <3> QED  BY <3>1, <3>3
  <2> QED  BY <2>1, <2>2
<1> HIDE DEF Accounts, Fulfilled
<1> QED  BY <1>3, <1>4 DEF IntakeInv

LEMMA BeginKept ==
    ASSUME IntakeInv, NEW r \in Requests, NEW b \in Batches, Intake!Begin(r, b)
    PROVE  IntakeInv'
<1> DEFINE kept == Intake!Kept(b)
           skipped == Len(b) - Intake!Cardinality(kept)
           n == [Intake!New EXCEPT !.pc = "run", !.batch = b, !.todo = kept,
                                   !.skipped = skipped]
<1>1. ireq' = [ireq EXCEPT ![r] = n] /\ UNCHANGED <<irows, deleted>>
  BY DEF Intake!Begin
<1>2. /\ kept \subseteq Intake!Positions /\ skipped \in Nat
      /\ Cardinality(kept) \in Nat /\ Len(b) \in Nat /\ IsFiniteSet(kept)
  BY KeptIs, ImportSizeIs DEF Intake!Positions
<1>3. skipped + Cardinality(kept) = Len(b)
  BY <1>2, ImportSizeIs
<1> HIDE DEF skipped
<1>4. /\ n \in ImportSlot /\ n.pc = "run" /\ n.batch = b /\ n.todo = kept
      /\ n.created = {} /\ n.errors = {} /\ n.skipped = skipped
  BY <1>2 DEF ImportSlot, Intake!New
<1> HIDE DEF n
<1>5. Accounts(n)
  <2>1. Cardinality({}) + skipped + Cardinality({}) + Cardinality(kept) = Len(b)
    BY <1>2, <1>3, FS_EmptySet
  <2> QED  BY <1>2, <1>4, <2>1, FS_EmptySet DEF Accounts
<1>6. Fulfilled(n, irows', deleted)
  BY <1>4 DEF Fulfilled
<1>7. OneEach' /\ irows' \subseteq Intake!Row
  BY <1>1 DEF IntakeInv, ImportTypes, OneEach
<1> QED  BY <1>1, <1>4, <1>5, <1>6, <1>7, ImportOn

LEMMA EndKept ==
    ASSUME IntakeInv, NEW r \in Requests, Intake!Answer(r) \/ Intake!CutOff(r)
    PROVE  IntakeInv'
<1>1. PICK pc \in {"answered", "cut"} :
         /\ ireq' = [ireq EXCEPT ![r].pc = pc] /\ UNCHANGED <<irows, deleted>>
         /\ ireq[r].pc = "run" /\ (pc = "answered" => ireq[r].todo = {})
  BY DEF Intake!Answer, Intake!CutOff
<1>2. ireq \in [Requests -> ImportSlot] /\ Accounts(ireq[r])
      /\ Fulfilled(ireq[r], irows, deleted)
  BY DEF IntakeInv, ImportTypes
<1> DEFINE n == [ireq[r] EXCEPT !.pc = pc]
<1>3. ireq' = [ireq EXCEPT ![r] = n]
  BY <1>1
<1>4. /\ n \in ImportSlot /\ n.pc = pc /\ n.batch = ireq[r].batch /\ n.todo = ireq[r].todo
      /\ n.created = ireq[r].created /\ n.skipped = ireq[r].skipped
      /\ n.errors = ireq[r].errors
  <2>1. ASSUME NEW q \in ImportSlot, NEW m, m = [q EXCEPT !.pc = pc]
        PROVE  /\ m \in ImportSlot /\ m.pc = pc /\ m.batch = q.batch /\ m.todo = q.todo
               /\ m.created = q.created /\ m.skipped = q.skipped /\ m.errors = q.errors
    BY <2>1 DEF ImportSlot
  <2> QED  BY <1>2, <2>1
<1> HIDE DEF n
<1>5. Accounts(n)
  BY <1>1, <1>2, <1>4 DEF Accounts
<1>6. Fulfilled(n, irows', deleted)
  BY <1>1, <1>2, <1>4 DEF Fulfilled
<1>7. OneEach' /\ irows' \subseteq Intake!Row
  BY <1>1 DEF IntakeInv, ImportTypes, OneEach
<1> QED  BY <1>1, <1>3, <1>4, <1>5, <1>6, <1>7, ImportOn

\* The items that were looked at: one fewer to do, and the answer says of each
\* what became of it.
LEMMA OneDone ==
    ASSUME NEW T, NEW i \in T, IsFiniteSet(T)
    PROVE  /\ Cardinality(T \ {i}) = Cardinality(T) - 1
           /\ Cardinality(T) \in Nat /\ Cardinality(T \ {i}) \in Nat
BY FS_RemoveElement, FS_CardinalityType

LEMMA OneNoted ==
    ASSUME NEW T, NEW e, e \notin T, IsFiniteSet(T)
    PROVE  /\ Cardinality(T \cup {e}) = Cardinality(T) + 1 /\ IsFiniteSet(T \cup {e})
           /\ Cardinality(T) \in Nat
BY FS_AddElement, FS_CardinalityType

LEMMA ToldIs ==
    ASSUME IntakeInv, NEW r \in Requests, ireq[r].pc # "new", NEW i \in ireq[r].todo
    PROVE  Intake!Told(r, i) \in Intake!Entry /\ Intake!Told(r, i).item = i
<1> DEFINE upTo == {j \in Intake!Kept(ireq[r].batch) : j <= i}
           index == IF selected THEN i ELSE Intake!Cardinality(upTo)
<1>1. ireq[r].batch \in Batches /\ i \in Intake!Kept(ireq[r].batch)
  BY DEF IntakeInv, Accounts
<1>2. i \in Nat \ {0}
  BY <1>1, KeptIs
<1>3. i \in upTo
  BY <1>1, <1>2
<1>4. IsFiniteSet(upTo)
  BY <1>1, KeptIs, FS_Subset
<1>5. Cardinality(upTo) \in Nat \ {0}
  BY <1>3, <1>4, FS_CardinalityType, FS_EmptySet
<1>6. index \in Intake!Positions /\ i \in Intake!Positions
  BY <1>2, <1>5, ImportSizeIs DEF Intake!Positions
<1>7. Intake!Told(r, i) = [index |-> index, item |-> i]
  BY DEF Intake!Told
<1> HIDE DEF index
<1> QED  BY <1>6, <1>7 DEF Intake!Entry

LEMMA ItemKept ==
    ASSUME IntakeInv, NEW r \in Requests, Intake!Item(r)
    PROVE  IntakeInv'
<1> DEFINE q == ireq[r]
<1>1. PICK i \in q.todo :
         /\ q.pc = "run" /\ deleted' = deleted
         /\ \/ /\ Intake!Taken(r, q.batch[i]) /\ UNCHANGED irows
               /\ ireq' = [[ireq EXCEPT ![r].todo = @ \ {i}] EXCEPT ![r].skipped = @ + 1]
            \/ /\ ~Intake!Taken(r, q.batch[i])
               /\ irows' = irows \cup {[ref |-> q.batch[i], by |-> r, item |-> i]}
               /\ ireq' = [[ireq EXCEPT ![r].todo = @ \ {i}]
                              EXCEPT ![r].created = @ \cup {Intake!Told(r, i)}]
            \/ /\ UNCHANGED irows
               /\ ireq' = [[ireq EXCEPT ![r].todo = @ \ {i}]
                              EXCEPT ![r].errors = @ \cup {Intake!Told(r, i)}]
  BY DEF Intake!Item
<1>2. /\ ireq \in [Requests -> ImportSlot] /\ q \in ImportSlot
      /\ Accounts(q) /\ Fulfilled(q, irows, deleted)
  BY DEF IntakeInv, ImportTypes
<1>3. /\ i \in Intake!Kept(q.batch) /\ q.batch \in Batches /\ i \in Nat \ {0}
      /\ q.batch[i] \in Refs \cup {NoRef} /\ IsFiniteSet(q.todo) /\ Len(q.batch) \in Nat
  <2>1. /\ i \in Intake!Kept(q.batch) /\ q.batch \in Batches
        /\ q.todo \subseteq Intake!Kept(q.batch)
    BY <1>1, <1>2 DEF Accounts
  <2> QED  BY <2>1, KeptIs, FS_Subset
<1> DEFINE told == Intake!Told(r, i)
<1>4. told \in Intake!Entry /\ told.item = i
  BY <1>1, ToldIs
<1>5. told \notin q.created /\ told \notin q.errors
  BY <1>1, <1>2, <1>4 DEF Accounts
<1>6. /\ Cardinality(q.todo \ {i}) = Cardinality(q.todo) - 1
      /\ Cardinality(q.todo) \in Nat /\ Cardinality(q.todo \ {i}) \in Nat
  BY <1>3, OneDone
<1>7. /\ IsFiniteSet(q.created) /\ IsFiniteSet(q.errors) /\ q.skipped \in Nat
      /\ Cardinality(q.created) \in Nat /\ Cardinality(q.errors) \in Nat
      /\ Cardinality(q.created) + q.skipped + Cardinality(q.errors) + Cardinality(q.todo)
            = Len(q.batch)
  BY <1>1, <1>2, FS_CardinalityType DEF Accounts, ImportSlot
<1> HIDE DEF told
<1>8. ASSUME NEW n \in ImportSlot, ireq' = [ireq EXCEPT ![r] = n],
             n.pc = "run", n.batch = q.batch, n.todo = q.todo \ {i},
             irows \subseteq irows', irows' \subseteq Intake!Row, OneEach',
             IsFiniteSet(n.created), IsFiniteSet(n.errors),
             q.created \subseteq n.created, n.created \subseteq q.created \cup {told},
             q.errors \subseteq n.errors, n.errors \subseteq q.errors \cup {told},
             Cardinality(n.created) + n.skipped + Cardinality(n.errors)
                = Cardinality(q.created) + q.skipped + Cardinality(q.errors) + 1,
             n.errors = {} => IF q.batch[i] = NoRef THEN told \in n.created
                              ELSE Seen(q.batch[i], irows', deleted)
      PROVE  IntakeInv'
  <2>1. Accounts(n)
    <3>1. Cardinality(n.created) + n.skipped + Cardinality(n.errors) + Cardinality(n.todo)
             = Len(n.batch)
      BY <1>3, <1>6, <1>7, <1>8
    <3>2. \A e \in n.created \cup n.errors : e.item \notin n.todo
      BY <1>1, <1>2, <1>4, <1>8 DEF Accounts
    <3>3. n.todo \subseteq Intake!Kept(n.batch) /\ n.batch \in Batches
      BY <1>1, <1>2, <1>8 DEF Accounts
    <3> QED  BY <1>8, <3>1, <3>2, <3>3 DEF Accounts
  <2>2. Fulfilled(n, irows', deleted)
    <3> SUFFICES ASSUME n.errors = {}, NEW k \in Intake!Kept(n.batch) \ n.todo
                 PROVE  IF n.batch[k] = NoRef THEN \E e \in n.created : e.item = k
                        ELSE Seen(n.batch[k], irows', deleted)
      BY DEF Fulfilled
    <3>1. CASE k = i
      BY <1>4, <1>8, <3>1
    <3>2. CASE k # i
      <4>1. q.errors = {} /\ k \in Intake!Kept(q.batch) \ q.todo
        BY <1>8, <3>2
      <4>2. IF q.batch[k] = NoRef THEN \E e \in q.created : e.item = k
            ELSE Seen(q.batch[k], irows, deleted)
        BY <1>1, <1>2, <4>1 DEF Fulfilled
      <4>3. Seen(q.batch[k], irows, deleted) => Seen(q.batch[k], irows', deleted)
        BY <1>8 DEF Seen
      <4> QED  BY <1>8, <4>2, <4>3
    <3> QED  BY <3>1, <3>2
  <2> HIDE DEF q
  <2> QED  BY <1>1, <1>8, <2>1, <2>2, ImportOn
<1>9. irows \subseteq Intake!Row /\ OneEach
  BY DEF IntakeInv, ImportTypes
<1>10. CASE /\ Intake!Taken(r, q.batch[i]) /\ UNCHANGED irows
            /\ ireq' = [[ireq EXCEPT ![r].todo = @ \ {i}] EXCEPT ![r].skipped = @ + 1]
  <2> DEFINE count == q.skipped + 1
             n == [q EXCEPT !.todo = @ \ {i}, !.skipped = count]
  <2>1. ireq' = [ireq EXCEPT ![r] = n]
    BY <1>2, <1>10
  <2>2. /\ n \in ImportSlot /\ n.pc = q.pc /\ n.batch = q.batch /\ n.todo = q.todo \ {i}
        /\ n.created = q.created /\ n.errors = q.errors /\ n.skipped = count
    <3>1. count \in Nat
      BY <1>7
    <3> HIDE DEF count
    <3>2. ASSUME NEW s \in ImportSlot, NEW m, m = [s EXCEPT !.todo = @ \ {i}, !.skipped = count]
          PROVE  /\ m \in ImportSlot /\ m.pc = s.pc /\ m.batch = s.batch
                 /\ m.todo = s.todo \ {i} /\ m.created = s.created /\ m.errors = s.errors
                 /\ m.skipped = count
      BY <3>1, <3>2 DEF ImportSlot
    <3> QED  BY <1>2, <3>2
  <2>3. q.batch[i] # NoRef /\ Seen(q.batch[i], irows', deleted)
    BY <1>10 DEF Intake!Taken, Seen
  <2>4. OneEach' /\ irows' \subseteq Intake!Row /\ irows \subseteq irows'
    BY <1>9, <1>10 DEF OneEach
  <2>5. Cardinality(n.created) + n.skipped + Cardinality(n.errors)
           = Cardinality(q.created) + q.skipped + Cardinality(q.errors) + 1
    <3> HIDE DEF n, q
    <3> QED  BY <1>7, <2>2
  <2> HIDE DEF n, q
  <2> QED  BY <1>1, <1>7, <1>8, <2>1, <2>2, <2>3, <2>4, <2>5
<1>11. CASE /\ ~Intake!Taken(r, q.batch[i])
            /\ irows' = irows \cup {[ref |-> q.batch[i], by |-> r, item |-> i]}
            /\ ireq' = [[ireq EXCEPT ![r].todo = @ \ {i}]
                           EXCEPT ![r].created = @ \cup {told}]
  <2> DEFINE n == [q EXCEPT !.todo = @ \ {i}, !.created = @ \cup {told}]
             row == [ref |-> q.batch[i], by |-> r, item |-> i]
  <2>1. ireq' = [ireq EXCEPT ![r] = n]
    BY <1>2, <1>11
  <2>2. /\ n \in ImportSlot /\ n.pc = q.pc /\ n.batch = q.batch /\ n.todo = q.todo \ {i}
        /\ n.created = q.created \cup {told} /\ n.errors = q.errors /\ n.skipped = q.skipped
    <3>1. ASSUME NEW s \in ImportSlot, NEW m,
                 m = [s EXCEPT !.todo = @ \ {i}, !.created = @ \cup {told}]
          PROVE  /\ m \in ImportSlot /\ m.pc = s.pc /\ m.batch = s.batch
                 /\ m.todo = s.todo \ {i} /\ m.created = s.created \cup {told}
                 /\ m.errors = s.errors /\ m.skipped = s.skipped
      BY <1>4, <3>1 DEF ImportSlot
    <3> QED  BY <1>2, <3>1
  <2>3. row \in Intake!Row /\ row.ref = q.batch[i]
    BY <1>3 DEF Intake!Row, Intake!Positions
  <2> HIDE DEF row
  <2>4. OneEach' /\ irows' \subseteq Intake!Row /\ irows \subseteq irows'
    BY <1>9, <1>11, <2>3 DEF OneEach, Intake!Taken, row
  <2>5. Seen(q.batch[i], irows', deleted)
    BY <1>11, <2>3 DEF Seen, row
  <2>6. /\ Cardinality(n.created) = Cardinality(q.created) + 1 /\ IsFiniteSet(n.created)
        /\ Cardinality(n.errors) = Cardinality(q.errors) /\ IsFiniteSet(n.errors)
    BY <1>5, <1>7, <2>2, OneNoted
  <2> HIDE DEF n, q
  <2>7. Cardinality(n.created) + n.skipped + Cardinality(n.errors)
           = Cardinality(q.created) + q.skipped + Cardinality(q.errors) + 1
    BY <1>7, <2>2, <2>6
  <2> QED  BY <1>1, <1>8, <2>1, <2>2, <2>4, <2>5, <2>6, <2>7
<1>12. CASE /\ UNCHANGED irows
            /\ ireq' = [[ireq EXCEPT ![r].todo = @ \ {i}]
                           EXCEPT ![r].errors = @ \cup {told}]
  <2> DEFINE n == [q EXCEPT !.todo = @ \ {i}, !.errors = @ \cup {told}]
  <2>1. ireq' = [ireq EXCEPT ![r] = n]
    BY <1>2, <1>12
  <2>2. /\ n \in ImportSlot /\ n.pc = q.pc /\ n.batch = q.batch /\ n.todo = q.todo \ {i}
        /\ n.created = q.created /\ n.errors = q.errors \cup {told} /\ n.skipped = q.skipped
    <3>1. ASSUME NEW s \in ImportSlot, NEW m,
                 m = [s EXCEPT !.todo = @ \ {i}, !.errors = @ \cup {told}]
          PROVE  /\ m \in ImportSlot /\ m.pc = s.pc /\ m.batch = s.batch
                 /\ m.todo = s.todo \ {i} /\ m.errors = s.errors \cup {told}
                 /\ m.created = s.created /\ m.skipped = s.skipped
      BY <1>4, <3>1 DEF ImportSlot
    <3> QED  BY <1>2, <3>1
  <2>4. OneEach' /\ irows' \subseteq Intake!Row /\ irows \subseteq irows'
    BY <1>9, <1>12 DEF OneEach
  <2>6. /\ Cardinality(n.errors) = Cardinality(q.errors) + 1 /\ IsFiniteSet(n.errors)
        /\ Cardinality(n.created) = Cardinality(q.created) /\ IsFiniteSet(n.created)
    BY <1>5, <1>7, <2>2, OneNoted
  <2> HIDE DEF n, q
  <2>7. Cardinality(n.created) + n.skipped + Cardinality(n.errors)
           = Cardinality(q.created) + q.skipped + Cardinality(q.errors) + 1
    BY <1>7, <2>2, <2>6
  <2> QED  BY <1>1, <1>8, <2>1, <2>2, <2>4, <2>6, <2>7
<1> QED  BY <1>1, <1>10, <1>11, <1>12 DEF told

\* A task that somebody deletes is remembered by its reference.
LEMMA ImportDeleteKept ==
    ASSUME IntakeInv, NEW row \in irows, Intake!DeleteTask(row)
    PROVE  IntakeInv'
<1>1. /\ irows' = irows \ {row} /\ deleted' = deleted \cup ({row.ref} \ {NoRef})
      /\ ireq' = ireq
  BY DEF Intake!DeleteTask
<1>2. row.ref \in Refs \cup {NoRef}
  BY DEF IntakeInv, ImportTypes, Intake!Row
<1>3. ImportTypes' /\ OneEach'
  BY <1>1, <1>2 DEF IntakeInv, ImportTypes, OneEach
<1>4. \A ref : ref # NoRef /\ Seen(ref, irows, deleted) => Seen(ref, irows', deleted')
  BY <1>1 DEF Seen
<1>5. ASSUME NEW r \in Requests
      PROVE  Accounts(ireq[r]) /\ Fulfilled(ireq[r], irows', deleted')
  <2>1. Accounts(ireq[r]) /\ Fulfilled(ireq[r], irows, deleted)
    BY DEF IntakeInv
  <2> QED  BY <1>4, <2>1 DEF Fulfilled
<1> HIDE DEF Accounts, Fulfilled
<1> QED  BY <1>1, <1>3, <1>5 DEF IntakeInv

LEMMA ImportStepKept == ASSUME IntakeInv, [Intake!Next]_(Intake!vars) PROVE IntakeInv'
<1>1. ASSUME NEW r \in Requests,
             (\E b \in Batches : Intake!Begin(r, b)) \/ Intake!Item(r)
                \/ Intake!Answer(r) \/ Intake!CutOff(r)
      PROVE  IntakeInv'
  BY <1>1, BeginKept, ItemKept, EndKept
<1>2. CASE UNCHANGED Intake!vars
  <2>1. UNCHANGED <<irows, deleted, ireq>>
    BY <1>2 DEF Intake!vars
  <2> QED  BY <2>1 DEF IntakeInv, ImportTypes, OneEach
<1> QED  BY <1>1, <1>2, ImportDeleteKept DEF Intake!Next

LEMMA ImportStart == ASSUME Intake!Init PROVE IntakeInv
<1>1. irows = {} /\ deleted = {} /\ ireq = [r \in Requests |-> Intake!New]
  BY DEF Intake!Init
<1>2. Intake!New \in ImportSlot /\ Intake!New.pc = "new"
  BY DEF Intake!New, ImportSlot
<1> QED  BY <1>1, <1>2 DEF IntakeInv, ImportTypes, OneEach, Accounts, Fulfilled

\* POST .../tasks/import and the route that answers in its place when the
\* grounding creation policy selects the project: however many imports overlap,
\* are cut off and sent again, with whatever batches, a reference has one task,
\* an answer accounts for every item of its batch, and one without an error says
\* the truth when it says that the batch is in.
THEOREM ImportsComplete == Intake!Spec => []ImportComplete
<1>1. IntakeInv /\ [Intake!Next]_(Intake!vars) => IntakeInv'
  BY ImportStepKept
<1>2. IntakeInv => ImportComplete
  <2> SUFFICES ASSUME IntakeInv PROVE ImportComplete
    OBVIOUS
  <2>1. ASSUME NEW ref \in Refs PROVE Intake!Cardinality(Intake!TasksOf(ref)) <= 1
    <3>1. \A v, w \in Intake!TasksOf(ref) : v = w
      BY IntakeAssumption DEF IntakeInv, OneEach, Intake!TasksOf, Intake!DefinitionsAssumption
    <3>2. CASE Intake!TasksOf(ref) = {}
      BY <3>2, FS_EmptySet, ImportSizeIs
    <3>3. CASE Intake!TasksOf(ref) # {}
      <4>1. PICK v : Intake!TasksOf(ref) = {v}
        BY <3>1, <3>3
      <4>2. Cardinality({v}) = 1
        BY FS_Singleton
      <4> QED  BY <4>1, <4>2, ImportSizeIs
    <3> QED  BY <3>2, <3>3
  <2>2. ASSUME NEW r \in Requests, ireq[r].pc = "answered"
        PROVE  Intake!Cardinality(ireq[r].created) + ireq[r].skipped
                  + Intake!Cardinality(ireq[r].errors) = Len(ireq[r].batch)
    <3> DEFINE q == ireq[r]
    <3>1. /\ q.todo = {} /\ IsFiniteSet(q.created) /\ IsFiniteSet(q.errors)
          /\ Cardinality(q.created) + q.skipped + Cardinality(q.errors) + Cardinality(q.todo)
                = Len(q.batch)
      BY <2>2 DEF IntakeInv, Accounts
    <3>2. Cardinality(q.todo) = 0
      BY <3>1, FS_EmptySet
    <3>3. q.skipped \in Nat /\ Cardinality(q.created) \in Nat /\ Cardinality(q.errors) \in Nat
      BY <3>1, FS_CardinalityType DEF IntakeInv, ImportTypes, ImportSlot
    <3> HIDE DEF q
    <3>4. Cardinality(q.created) + q.skipped + Cardinality(q.errors) = Len(q.batch)
      BY <3>1, <3>2, <3>3
    <3>5. /\ Intake!Cardinality(q.created) = Cardinality(q.created)
          /\ Intake!Cardinality(q.errors) = Cardinality(q.errors)
      BY ImportSizeIs
    <3>6. Intake!Cardinality(q.created) + q.skipped + Intake!Cardinality(q.errors) = Len(q.batch)
      BY <3>4, <3>5
    <3> QED  BY <3>6 DEF q
  <2>3. ASSUME NEW r \in Requests, ireq[r].pc = "answered", ireq[r].errors = {},
               NEW i \in DOMAIN ireq[r].batch
        PROVE  IF ireq[r].batch[i] = NoRef THEN \E e \in ireq[r].created : e.item = i
               ELSE Intake!TasksOf(ireq[r].batch[i]) # {} \/ ireq[r].batch[i] \in deleted
    <3>1. /\ ireq[r].batch \in Batches /\ ireq[r].todo = {}
          /\ Fulfilled(ireq[r], irows, deleted)
      BY <2>3 DEF IntakeInv, Accounts
    <3>2. CASE ireq[r].batch[i] = NoRef
      <4>1. i \in Intake!Kept(ireq[r].batch)
        BY <3>2 DEF Intake!Kept
      <4> QED  BY <2>3, <3>1, <3>2, <4>1 DEF Fulfilled
    <3>3. CASE ireq[r].batch[i] # NoRef
      <4>1. PICK k \in Intake!Kept(ireq[r].batch) : ireq[r].batch[k] = ireq[r].batch[i]
        BY <2>3, <3>1, KeptCovers
      <4>2. Seen(ireq[r].batch[i], irows, deleted)
        BY <2>3, <3>1, <3>3, <4>1 DEF Fulfilled
      <4> QED  BY <3>3, <4>2 DEF Seen, Intake!TasksOf
    <3> QED  BY <3>2, <3>3
  <2> QED  BY <2>1, <2>2, <2>3 DEF ImportComplete, Intake!ImportComplete
<1> QED  BY <1>1, <1>2, ImportStart, PTL DEF Intake!Spec

=============================================================================
