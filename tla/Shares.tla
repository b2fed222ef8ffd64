-------------------------------- MODULE Shares --------------------------------
(***************************************************************************)
(* Sharing a project by invitation (backend/src/routes/invites.ts) and the *)
(* governance it works under (PATCH of routes/projects.ts,                 *)
(* lib/governance-mode.ts).                                                *)
(*                                                                         *)
(* Accepting an invitation reads it, then writes the membership and marks  *)
(* the invitation in one transaction, then reads the project and takes it  *)
(* out of solo mode when the new member is its only one: four steps, none  *)
(* of which repeats what an earlier one looked at.  Removing a member and  *)
(* the PATCH are each one transaction that locks the project.              *)
(***************************************************************************)
EXTENDS Naturals, FiniteSets

CONSTANTS
    Users,     \* people outside the team that owns the project
    Invites,   \* invitations
    NoUser,    \* nobody
    NoInvite,  \* no invitation
    MaxDeaths  \* bound: handlers that die halfway

VARIABLES
    project,   \* its governance: the mode, and the two older flags
    invite,    \* per invitation: "none", "pending", "expired" or "consumed"
    members,   \* users with a grant on the project
    accept,    \* per user: the acceptance that runs
    task,      \* one task: its phase, its holders, whether a merge holds it
    admitted,  \* users with a running claim request that has passed its checks
    deaths,    \* handlers that died
    chosen,    \* history: an administrator chose the mode of the shared project
    missed,    \* history: an acceptance died, or overlapped with another
    excused    \* history: users who left with a claim that could come alive,
               \* or whose claim request ended after they had left

vars == <<project, invite, members, accept, task, admitted, deaths, chosen, missed, excused>>

Modes == {"REQUIRES_DISTINCT_REVIEWER", "AWAITS_CONFIRMATION", "AUTONOMOUS"}
Unset == "unset"  \* a row older than the column
Idle == [pc |-> "idle", invite |-> NoInvite]

\* deriveGovernanceModeFromFlags
Derived(solo, distinct) ==
    IF solo THEN "AUTONOMOUS"
    ELSE IF distinct THEN "REQUIRES_DISTINCT_REVIEWER" ELSE "AWAITS_CONFIRMATION"

\* legacyFlagsFromGovernanceMode
OfMode(mode) == [mode |-> mode, solo |-> mode = "AUTONOMOUS",
                 distinct |-> mode = "REQUIRES_DISTINCT_REVIEWER"]

\* resolveGovernanceMode
Resolved(p) == IF p.mode # Unset THEN p.mode ELSE Derived(p.solo, p.distinct)

TypeOK ==
    /\ project \in [mode : Modes \cup {Unset}, solo : BOOLEAN, distinct : BOOLEAN]
    /\ invite \in [Invites -> {"none", "pending", "expired", "consumed"}]
    /\ members \subseteq Users /\ admitted \subseteq Users /\ excused \subseteq Users
    /\ accept \in [Users -> [pc : {"idle", "checked", "joined", "flips"},
                           invite : Invites \cup {NoInvite}]]
    /\ task \in [phase : {"work", "review", "final"}, work : Users \cup {NoUser},
                 review : Users \cup {NoUser}, held : BOOLEAN]
    /\ deaths \in Nat /\ chosen \in BOOLEAN /\ missed \in BOOLEAN

\* The mode of a row is unset, or was derived from its flags by the migration.
Init ==
    /\ \E solo, distinct \in BOOLEAN, mode \in Modes \cup {Unset} :
          /\ mode \in {Unset, Derived(solo, distinct)}
          /\ project = [mode |-> mode, solo |-> solo, distinct |-> distinct]
    /\ invite = [i \in Invites |-> "none"]
    /\ members = {} /\ accept = [u \in Users |-> Idle]
    /\ task = [phase |-> "work", work |-> NoUser, review |-> NoUser, held |-> FALSE]
    /\ admitted = {} /\ deaths = 0
    /\ chosen = FALSE /\ missed = FALSE /\ excused = {}

-----------------------------------------------------------------------------
(* Invitations                                                             *)

SetInvite(i, from, to) ==
    /\ invite[i] = from /\ invite' = [invite EXCEPT ![i] = to]
    /\ UNCHANGED <<project, members, accept, task, admitted, deaths, chosen, missed, excused>>

\* POST /projects/:id/invites
Invite(i) == SetInvite(i, "none", "pending")

\* DELETE /projects/:id/invites/:inviteId, or its time has come.  One that has
\* been used stays used.
Revoke(i) == SetInvite(i, "pending", "expired")

At(u, pc) == accept[u].pc = pc

Go(u, pc, i) == accept' = [accept EXCEPT ![u] = [pc |-> pc, invite |-> i]]

\* POST /invites/accept reads the invitation and that the user has no access, ...
Check(u, i) ==
    /\ At(u, "idle") /\ invite[i] = "pending" /\ u \notin members
    /\ Go(u, "checked", i)
    /\ UNCHANGED <<project, invite, members, task, admitted, deaths, chosen, missed, excused>>

InJudgement(u) == accept[u].pc \in {"joined", "flips"}

\* ... makes the user a member and marks the invitation, whatever it has become;
\* the unique grant of a user rolls both back.
Join(u) ==
    /\ At(u, "checked")
    /\ IF u \in members
       THEN /\ accept' = [accept EXCEPT ![u] = Idle]
            /\ UNCHANGED <<invite, members, missed, excused>>
       ELSE /\ Go(u, "joined", NoInvite)
            /\ members' = members \cup {u}
            /\ invite' = [invite EXCEPT ![accept[u].invite] = "consumed"]
            /\ missed' = (missed \/ \E v \in Users : InJudgement(v))
            /\ excused' = excused \ {u}
    /\ UNCHANGED <<project, task, admitted, deaths, chosen>>

\* Mutant of FirstShare: the members are counted as if the grant came after.
FirstShareBefore == members = {}

\* The grant just written is the only one.
FirstShare == Cardinality(members) = 1

\* ... then reads the project ...
Judge(u) ==
    /\ At(u, "joined")
    /\ IF project.solo /\ FirstShare THEN Go(u, "flips", NoInvite)
       ELSE accept' = [accept EXCEPT ![u] = Idle]
    /\ UNCHANGED <<project, invite, members, task, admitted, deaths, chosen, missed, excused>>

\* ... and ends solo mode.
Flip(u) ==
    /\ At(u, "flips")
    /\ accept' = [accept EXCEPT ![u] = Idle]
    /\ project' = OfMode("REQUIRES_DISTINCT_REVIEWER")
    /\ chosen' = FALSE
    /\ UNCHANGED <<invite, members, task, admitted, deaths, missed, excused>>

\* The process dies with the acceptance.
Die(u) ==
    /\ ~At(u, "idle") /\ deaths < MaxDeaths
    /\ deaths' = deaths + 1
    /\ accept' = [accept EXCEPT ![u] = Idle]
    /\ missed' = (missed \/ InJudgement(u))
    /\ UNCHANGED <<project, invite, members, task, admitted, chosen, excused>>

-----------------------------------------------------------------------------
(* PATCH /projects/:id                                                     *)

Govern(p) ==
    /\ project' = p
    /\ chosen' = (members # {})
    /\ UNCHANGED <<invite, members, accept, task, admitted, deaths, missed, excused>>

PatchMode(mode) == Govern(OfMode(mode))

\* A flag is sent ({TRUE}, {FALSE}) or not ({}).
Value(flag, otherwise) == IF flag = {} THEN otherwise ELSE CHOOSE b \in flag : TRUE

\* Mutant of WithFlags: a flag that was not sent counts as false.
WithFlagsUnmerged(solo, distinct) ==
    [mode |-> Derived(Value(solo, FALSE), Value(distinct, FALSE)),
     solo |-> Value(solo, project.solo), distinct |-> Value(distinct, project.distinct)]

\* The older flags, merged with the stored ones.
WithFlags(solo, distinct) ==
    LET s == Value(solo, project.solo)
        d == Value(distinct, project.distinct)
    IN [mode |-> Derived(s, d), solo |-> s, distinct |-> d]

PatchFlags(solo, distinct) ==
    /\ solo # {} \/ distinct # {}
    /\ Govern(WithFlags(solo, distinct))

-----------------------------------------------------------------------------
(* Claims and the removal of a member                                      *)

\* A work claim counts until the task is finished, a review claim in review.
Live(u, t) == \/ t.work = u /\ t.phase # "final"
              \/ t.review = u /\ t.phase = "review"

\* Mutant of Selects: the removal looks at work claims only.
SelectsWork(u) == task.work = u /\ task.phase # "final"

\* The task is one whose claims the removal of u releases.
Selects(u) == Live(u, task)

Freed == [task EXCEPT !.work = NoUser, !.review = NoUser]

\* DELETE /projects/:id/members/:userId: refused when a merge holds a task whose
\* claim it would release, else both claims of the task go with the grant.
Remove(u) ==
    /\ u \in members
    /\ Selects(u) => ~task.held
    /\ task' = IF Selects(u) THEN Freed ELSE task
    /\ members' = members \ {u}
    /\ chosen' = (chosen /\ members' # {})
    /\ missed' = (missed /\ members' # {})
    /\ excused' = IF u = task.review /\ ~Live(u, task) THEN excused \cup {u} ELSE excused
    /\ UNCHANGED <<project, invite, accept, admitted, deaths>>

TaskStep(t) ==
    /\ task' = t
    /\ UNCHANGED <<project, invite, members, accept, admitted, deaths, chosen, missed, excused>>

\* A claim request passes its access check ...
Admit(u) ==
    /\ u \in members \ admitted
    /\ admitted' = admitted \cup {u}
    /\ UNCHANGED <<project, invite, members, accept, task, deaths, chosen, missed, excused>>

\* ... and takes what it finds free, or ends with nothing.
Claim(u) ==
    /\ u \in admitted
    /\ admitted' = admitted \ {u}
    /\ \/ /\ ~task.held /\ task.phase = "work" /\ task.work = NoUser
          /\ task' = [task EXCEPT !.work = u]
       \/ /\ ~task.held /\ task.phase = "review" /\ task.review = NoUser
          /\ task' = [task EXCEPT !.review = u]
       \/ UNCHANGED task
    /\ excused' = IF task' # task /\ u \notin members THEN excused \cup {u} ELSE excused
    /\ UNCHANGED <<project, invite, members, accept, deaths, chosen, missed>>

\* The task goes to review and back - a webhook leaves the review claim then -,
\* to its end, and back from there; a merge holds it for a while.
MoveTask ==
    \/ /\ task.phase = "work" /\ ~task.held /\ TaskStep([task EXCEPT !.phase = "review"])
    \/ /\ task.phase = "review" /\ ~task.held
       /\ \/ TaskStep([task EXCEPT !.phase = "work"])
          \/ TaskStep([task EXCEPT !.phase = "work", !.review = NoUser])
          \/ TaskStep([task EXCEPT !.held = TRUE])
    \/ /\ task.phase = "review" /\ task.held
       /\ \/ TaskStep([Freed EXCEPT !.phase = "final", !.held = FALSE])
          \/ TaskStep([task EXCEPT !.held = FALSE])
    \/ /\ task.phase = "final" /\ TaskStep([task EXCEPT !.phase = "work"])

Next ==
    \/ \E i \in Invites : Invite(i) \/ Revoke(i)
    \/ \E u \in Users :
          \/ \E i \in Invites : Check(u, i)
          \/ Join(u) \/ Judge(u) \/ Flip(u) \/ Die(u)
          \/ Remove(u) \/ Admit(u) \/ Claim(u)
    \/ \E mode \in Modes : PatchMode(mode)
    \/ \E solo, distinct \in {{}, {TRUE}, {FALSE}} : PatchFlags(solo, distinct)
    \/ MoveTask

Spec == Init /\ [][Next]_vars

-----------------------------------------------------------------------------
(* Properties                                                              *)

\* The readers of the mode and the readers of the older flags - POST /review is
\* one - apply the same governance, whatever writes of either kind and whatever
\* first shares came before.
FlagsAgree == Resolved(project) = Derived(project.solo, project.distinct)

Settled == members # {} /\ \A u \in Users : At(u, "idle")

\* "Auto-flip when a second human enters a soloMode project" (docs/events.md):
\* once nobody is joining, a shared project is not solo unless an administrator
\* chose so while it was shared.
SharedIsNotSolo == Settled /\ Resolved(project) = "AUTONOMOUS" => chosen

\* The flip is missed in no other way than by a death halfway or by a second
\* user who joins before the first one's acceptance has counted the members.
FlipMissedByOverlap == Settled /\ Resolved(project) = "AUTONOMOUS" => chosen \/ missed

\* Whoever has left the project holds no claim that counts, unless a request of
\* theirs was under way when they left, or their review claim was on a task that
\* was out of review then; a merge that holds the task keeps its holders in.
LeaversHoldNothing ==
    \A u \in Users \ (members \cup excused) : ~Live(u, task)
=============================================================================
