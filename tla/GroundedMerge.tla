---------------------------- MODULE GroundedMerge ----------------------------
(***************************************************************************)
(* Completion under external evidence (backend/src/services/grounding):    *)
(* a protected task leaves its status only under a signed receipt about    *)
(* exactly the task the signer saw, and a pull request is merged only with *)
(* the consent of every protected task linked to it.                       *)
(*                                                                         *)
(* Every service method runs in a serializable transaction that locks the  *)
(* projects and the tasks first, so one action is one transaction. What a  *)
(* transaction reads from GitHub it reads once: a push in the middle has   *)
(* the same effect as one before or after. The call that merges is made    *)
(* after the commit, may arrive late and may be lost.                      *)
(***************************************************************************)
EXTENDS Naturals, FiniteSets

CONSTANTS
    Tasks,        \* tasks whose pull requests live in one repository
    Protected,    \* the tasks enrolled with an external binding
    SpecOnly,     \* those whose receipts attest the task, not the code
    Actors,       \* users and agent tokens with write access
    Admins,       \* the human administrators: only they may override
    Prs,          \* the pull requests of the repository
    Ops,          \* operations: a task and an Idempotency-Key
    NoPr,         \* no pull request is linked
    NoOp,         \* nobody: no reservation, no fence owner
    Outside,      \* a merge made by somebody on GitHub
    MaxAttempts,  \* bound: attempts that are issued
    MaxHead,      \* bound: commits pushed to one pull request
    MaxRevision   \* bound: generations of the context of one task

VARIABLES
    row,      \* the task rows, as far as the context binds them
    binding,  \* per protected task: the active attempt and the context revision
    attempt,  \* the attempts issued so far, with their receipts
    expired,  \* the attempts whose time is over
    cohort,   \* per task: the operation that holds its reservation
    op,       \* the operations and merge groups
    fence,    \* the owner of the repository fence
    github,   \* per pull request: its head and the head it was merged at
    puts,     \* merge calls on their way to GitHub
    by,       \* history: who merged a pull request
    spent     \* history: the operations an attempt was spent on

db == <<row, binding, attempt, cohort, op, fence>>
vars == <<db, expired, github, puts, by, spent>>

AttemptIds == 1 .. MaxAttempts
NoAttempt == 0
NoHead == 0
NoDigest == [status |-> "none"]

Row == [status : {"work", "review", "done"}, holder : Actors, pr : Prs \cup {NoPr}]

\* The intents and the edges they ask for.
From == [finish |-> "work", approve |-> "review", merge |-> "review"]
To == [finish |-> "review", approve |-> "done", merge |-> "done"]
Intents == DOMAIN From

Digest == [status : {"work", "review"}, holder : Actors, pr : Prs \cup {NoPr},
           intent : Intents, head : 0 .. MaxHead]
Binding == [active : AttemptIds \cup {NoAttempt}, revision : Nat,
            digest : Digest \cup {NoDigest}]
Attempt == [task : Protected, state : {"active", "superseded", "consumed"},
            actor : Actors, digest : Digest, revision : Nat, receipt : BOOLEAN]

\* A group records the row and the evidence its decision about a member used.
Group == UNION {
    [state : {"reserved", "dispatched", "completed", "cancelled"}, seed : m,
     actor : Actors, override : BOOLEAN, pr : Prs, head : 1 .. MaxHead,
     was : [m -> Row], evidence : [m -> AttemptIds \cup {NoAttempt}]]
    : m \in (SUBSET Tasks) \ {{}} }
Local == [state : {"local"}, seed : Tasks, actor : Actors]
Unused == [state |-> "unused"]

Open(o) == op[o].state \in {"reserved", "dispatched"}
Members(o) == DOMAIN op[o].was

ASSUME EnrollmentAssumption ==
    /\ Protected \subseteq Tasks /\ SpecOnly \subseteq Protected
    /\ Admins \subseteq Actors
ASSUME NullsAssumption ==
    /\ NoPr \notin Prs /\ NoOp \notin Ops /\ Outside \notin Ops \cup {NoOp}
ASSUME BoundAssumption == MaxAttempts \in Nat /\ MaxHead \in Nat \ {0}
                          /\ MaxRevision \in Nat

TypeOK ==
    /\ row \in [Tasks -> Row]
    /\ binding \in [Protected -> Binding]
    /\ DOMAIN attempt \subseteq AttemptIds
    /\ \A a \in DOMAIN attempt : attempt[a] \in Attempt
    /\ expired \subseteq DOMAIN attempt
    /\ cohort \in [Tasks -> Ops \cup {NoOp}]
    /\ op \in [Ops -> {Unused} \cup Local \cup Group]
    /\ fence \in Ops \cup {NoOp}
    /\ github \in [Prs -> [head : 1 .. MaxHead, merged : 0 .. MaxHead]]
    /\ puts \subseteq Ops
    /\ by \in [Prs -> Ops \cup {NoOp, Outside}]
    /\ spent \in [AttemptIds -> SUBSET Ops]

Init ==
    /\ row \in [Tasks -> [status : {"review"}, holder : Actors, pr : Prs \cup {NoPr}]
                  \cup [status : {"work"}, holder : Actors, pr : {NoPr}]]
    /\ binding = [t \in Protected |->
                    [active |-> NoAttempt, revision |-> 1, digest |-> NoDigest]]
    /\ attempt = [a \in {} |-> NoAttempt]
    /\ expired = {}
    /\ cohort = [t \in Tasks |-> NoOp]
    /\ op = [o \in Ops |-> Unused]
    /\ fence = NoOp
    /\ github = [p \in Prs |-> [head |-> 1, merged |-> NoHead]]
    /\ puts = {}
    /\ by = [p \in Prs |-> NoOp]
    /\ spent = [a \in AttemptIds |-> {}]

-----------------------------------------------------------------------------
(* What the transactions share.                                            *)

\* The triggers refuse every write to a task of a fenced repository, its
\* binding, its cohort and its operations, unless the owner makes it.
Unfenced == fence = NoOp

Unreserved(t) == cohort[t] = NoOp

\* What a receipt binds. The digest of the canonical bytes is injective here.
Context(t, i) ==
    [status |-> row[t].status, holder |-> row[t].holder, pr |-> row[t].pr, intent |-> i,
     head |-> IF t \in SpecOnly \/ row[t].pr = NoPr THEN NoHead
              ELSE github[row[t].pr].head]

\* A receipt about code needs a pull request whose head can be read.
Projectable(t) == t \in SpecOnly \/ row[t].pr # NoPr

\* A merge may be asked for by every writer; the other intents by the holder.
May(t, u, i) == row[t].status = From[i] /\ (i = "merge" \/ row[t].holder = u)

Proves(a, t, u, i) ==
    /\ a # NoAttempt /\ a \notin expired
    /\ attempt[a].state = "active" /\ attempt[a].receipt /\ attempt[a].actor = u
    /\ attempt[a].revision = binding[t].revision /\ attempt[a].digest = Context(t, i)

Exempt(t, override) == t \notin Protected \/ override

Evidence(t, override) == IF Exempt(t, override) THEN NoAttempt ELSE binding[t].active

\* The decision of a success, in full.
Decides(t, u, i, override) ==
    /\ May(t, u, i)
    /\ override => u \in Admins
    /\ ~Exempt(t, override) => Projectable(t) /\ Proves(binding[t].active, t, u, i)

\* The attempts after those of ts that are active went to state s.
Retired(ts, s) ==
    [a \in DOMAIN attempt |->
        IF attempt[a].task \in ts /\ attempt[a].state = "active"
        THEN [attempt[a] EXCEPT !.state = s] ELSE attempt[a]]

NextGeneration(b) == [active |-> NoAttempt, revision |-> b.revision + 1,
                      digest |-> NoDigest]

\* The context of ts is superseded: older attempts and their receipts are void.
Invalidate(ts) ==
    /\ attempt' = Retired(ts, "superseded")
    /\ binding' = [t \in Protected |->
                     IF t \in ts THEN NextGeneration(binding[t]) ELSE binding[t]]

\* The evidence used is consumed; where none was used the context is superseded.
Settle(ts, ev) ==
    LET used == {ev[t] : t \in ts} IN
    /\ attempt' = [a \in DOMAIN attempt |->
                     IF a \in used THEN [attempt[a] EXCEPT !.state = "consumed"]
                     ELSE Retired({t \in ts : ev[t] = NoAttempt}, "superseded")[a]]
    /\ binding' = [t \in Protected |->
                     IF t \notin ts THEN binding[t]
                     ELSE IF ev[t] = NoAttempt THEN NextGeneration(binding[t])
                     ELSE [binding[t] EXCEPT !.active = NoAttempt]]

Spend(ts, ev, o) ==
    spent' = [a \in AttemptIds |->
                IF a \in {ev[t] : t \in ts} THEN spent[a] \cup {o} ELSE spent[a]]

Bounded(t) == t \in Protected => binding[t].revision < MaxRevision

-----------------------------------------------------------------------------
(* Attempts and receipts.                                                  *)

\* A new challenge replaces the active one of the task.
Issue(t, u, i) ==
    LET a == Cardinality(DOMAIN attempt) + 1  b == binding[t]
        revision == IF b.digest \notin {NoDigest, Context(t, i)}
                    THEN b.revision + 1 ELSE b.revision
    IN
    /\ a <= MaxAttempts /\ Bounded(t)
    /\ May(t, u, i) /\ Projectable(t) /\ Unreserved(t) /\ Unfenced
    /\ attempt' = [x \in DOMAIN attempt \cup {a} |->
                     IF x = a THEN [task |-> t, state |-> "active", actor |-> u,
                                    digest |-> Context(t, i), revision |-> revision,
                                    receipt |-> FALSE]
                     ELSE Retired({t}, "superseded")[x]]
    /\ binding' = [binding EXCEPT ![t] = [active |-> a, revision |-> revision,
                                          digest |-> Context(t, i)]]
    /\ UNCHANGED <<row, cohort, op, fence, expired, github, puts, by, spent>>

\* A receipt the verifier accepts for the challenge of a arrives. It is stored
\* if the challenge still stands; the same bytes again change nothing.
Ingest(a) ==
    LET r == attempt[a]  t == r.task IN
    /\ a \in DOMAIN attempt /\ ~r.receipt
    /\ May(t, r.actor, r.digest.intent) /\ Projectable(t) /\ Unreserved(t)
    /\ binding[t].active = a /\ r.state = "active" /\ a \notin expired
    /\ r.revision = binding[t].revision /\ r.digest = Context(t, r.digest.intent)
    /\ attempt' = [attempt EXCEPT ![a].receipt = TRUE]
    /\ UNCHANGED <<row, binding, cohort, op, fence, expired, github, puts, by, spent>>

\* Nobody asks for the time of an attempt that is no longer active.
Expire(a) ==
    /\ a \in DOMAIN attempt /\ attempt[a].state = "active"
    /\ expired' = expired \cup {a}
    /\ UNCHANGED <<db, github, puts, by, spent>>

-----------------------------------------------------------------------------
(* Local completion and disposal.                                          *)

CompleteLocally(o, t, u, i, override) ==
    LET ev == [x \in {t} |-> Evidence(t, override)] IN
    /\ op[o] = Unused /\ i # "merge" /\ Bounded(t)
    /\ Unreserved(t) /\ Unfenced /\ Decides(t, u, i, override)
    /\ row' = [row EXCEPT ![t].status = To[i]]
    /\ op' = [op EXCEPT ![o] = [state |-> "local", seed |-> t, actor |-> u]]
    /\ Settle({t}, ev) /\ Spend({t}, ev, o)
    /\ UNCHANGED <<cohort, fence, expired, github, puts, by>>

\* The reviewer asks for changes: no evidence is asked, and none survives.
RequestChanges(o, t, u) ==
    /\ op[o] = Unused /\ Bounded(t)
    /\ Unreserved(t) /\ Unfenced /\ May(t, u, "approve")
    /\ row' = [row EXCEPT ![t].status = "work"]
    /\ op' = [op EXCEPT ![o] = [state |-> "local", seed |-> t, actor |-> u]]
    /\ Invalidate({t})
    /\ UNCHANGED <<cohort, fence, expired, github, puts, by, spent>>

\* Any other route that changes what the context binds: claims, links.
Mutate(t, r) ==
    /\ row[t].status # "done" /\ r # row[t] /\ Bounded(t)
    /\ Unreserved(t) /\ Unfenced
    /\ row' = [row EXCEPT ![t] = r]
    /\ Invalidate({t})
    /\ UNCHANGED <<cohort, op, fence, expired, github, puts, by, spent>>

-----------------------------------------------------------------------------
(* The shared merge of the tasks linked to one pull request.               *)

\* Mutant of Discover: the merge is decided for the one task.
DiscoverSeed(t) == {t}

\* The seed and every enrolled task linked to the same pull request.
Discover(t) == {t} \cup {p \in Protected : row[p].pr = row[t].pr}

\* Everybody consents, then everybody is reserved, and the repository fenced.
ReserveMerge(o, t, u, override) ==
    LET ms == Discover(t)
        ov(m) == m = t /\ override
    IN
    /\ op[o] = Unused /\ Unfenced /\ row[t].pr # NoPr
    /\ \A m \in ms : Unreserved(m) /\ Decides(m, u, "merge", ov(m)) /\ Bounded(m)
    /\ op' = [op EXCEPT ![o] =
                [state |-> "reserved", seed |-> t, actor |-> u, override |-> override,
                 pr |-> row[t].pr, head |-> github[row[t].pr].head,
                 was |-> [m \in ms |-> row[m]],
                 evidence |-> [m \in ms |-> Evidence(m, ov(m))]]]
    /\ cohort' = [m \in Tasks |-> IF m \in ms THEN o ELSE cohort[m]]
    /\ fence' = o
    /\ UNCHANGED <<row, binding, attempt, expired, github, puts, by, spent>>

\* The member's reservation and its snapshot still stand.
MemberStands(o, m) ==
    /\ cohort[m] = o /\ row[m] = op[o].was[m]
    /\ Evidence(m, m = op[o].seed /\ op[o].override) = op[o].evidence[m]

Redecided(o) ==
    \A m \in Members(o) :
        /\ MemberStands(o, m)
        /\ Decides(m, op[o].actor, "merge", m = op[o].seed /\ op[o].override)

SameHead(o) == github[op[o].pr].head = op[o].head

Merged(o) == github[op[o].pr].merged = op[o].head

\* The claim to call GitHub is committed before the call: at most one is made.
DispatchMerge(o) ==
    /\ op[o].state = "reserved" /\ fence = o
    /\ Redecided(o) /\ SameHead(o)
    /\ github[op[o].pr].merged \in {NoHead, op[o].head}
    /\ op' = [op EXCEPT ![o].state = "dispatched"]
    /\ puts' = IF Merged(o) THEN puts ELSE puts \cup {o}
    /\ UNCHANGED <<row, binding, attempt, cohort, fence, expired, github, by, spent>>

Cancellable(o) == op[o].state = "reserved"

\* Mutant of Unreserve: the guards stay reserved.
UnreserveSeed(o) == cohort' = [cohort EXCEPT ![op[o].seed] = NoOp]

Unreserve(o) == cohort' = [m \in Tasks |-> IF cohort[m] = o THEN NoOp ELSE cohort[m]]

CancelMerge(o) ==
    /\ Cancellable(o) /\ fence = o
    /\ \A m \in Members(o) : cohort[m] = o
    /\ op' = [op EXCEPT ![o].state = "cancelled"]
    /\ Invalidate(Members(o))
    /\ Unreserve(o)
    /\ fence' = NoOp
    /\ UNCHANGED <<row, expired, github, puts, by, spent>>

\* Mutant of HistoricalProof: the evidence must still be fresh.
FreshProof(o, m) ==
    LET a == op[o].evidence[m] IN
    a # NoAttempt =>
        /\ attempt[a].state = "active" /\ binding[m].active = a /\ a \notin expired
        /\ attempt[a].digest.head \in {NoHead, op[o].head}

\* The receipt was signed for the head that was merged. Its time does not matter
\* any more.
HistoricalProof(o, m) ==
    LET a == op[o].evidence[m] IN
    a # NoAttempt =>
        /\ attempt[a].state = "active" /\ binding[m].active = a
        /\ binding[m].revision = attempt[a].revision
        /\ attempt[a].digest.head \in {NoHead, op[o].head}

MovedBy(o) == [row EXCEPT ![op[o].seed].status = To["merge"]]

\* GitHub reports the merge of that head. The seed moves; a guard only gives its
\* evidence, its completion needs evidence of its own.
RecoverMerge(o) ==
    LET ms == Members(o) IN
    /\ op[o].state = "dispatched" /\ fence = o /\ Merged(o)
    /\ \A m \in ms : MemberStands(o, m) /\ HistoricalProof(o, m)
    /\ row' = MovedBy(o)
    /\ op' = [op EXCEPT ![o].state = "completed"]
    /\ Settle(ms, op[o].evidence) /\ Spend(ms, op[o].evidence, o)
    /\ Unreserve(o)
    /\ fence' = NoOp
    /\ UNCHANGED <<expired, github, puts, by>>

-----------------------------------------------------------------------------
(* GitHub.                                                                 *)

PinnedHead(o) == github[op[o].pr].head = op[o].head

\* The call arrives, however late: it merges the commit it names or nothing.
MergeArrives(o) ==
    LET p == op[o].pr IN
    /\ o \in puts
    /\ puts' = puts \ {o}
    /\ IF github[p].merged = NoHead /\ PinnedHead(o)
       THEN /\ github' = [github EXCEPT ![p].merged = github[p].head]
            /\ by' = [by EXCEPT ![p] = o]
       ELSE UNCHANGED <<github, by>>
    /\ UNCHANGED <<db, expired, spent>>

MergeLost(o) ==
    /\ o \in puts
    /\ puts' = puts \ {o}
    /\ UNCHANGED <<db, expired, github, by, spent>>

Push(p) ==
    /\ github[p].merged = NoHead /\ github[p].head < MaxHead
    /\ github' = [github EXCEPT ![p].head = @ + 1]
    /\ UNCHANGED <<db, expired, puts, by, spent>>

MergeOutside(p) ==
    /\ github[p].merged = NoHead
    /\ github' = [github EXCEPT ![p].merged = github[p].head]
    /\ by' = [by EXCEPT ![p] = Outside]
    /\ UNCHANGED <<db, expired, puts, spent>>

-----------------------------------------------------------------------------

Service ==
    \/ \E t \in Protected, u \in Actors, i \in Intents : Issue(t, u, i)
    \/ \E a \in AttemptIds : Ingest(a) \/ Expire(a)
    \/ \E o \in Ops, t \in Tasks, u \in Actors, i \in Intents, override \in BOOLEAN :
          CompleteLocally(o, t, u, i, override)
    \/ \E o \in Ops, t \in Tasks, u \in Actors : RequestChanges(o, t, u)
    \/ \E t \in Tasks, r \in Row : r.status = row[t].status /\ Mutate(t, r)
    \/ \E o \in Ops, t \in Tasks, u \in Actors, override \in BOOLEAN :
          ReserveMerge(o, t, u, override)
    \/ \E o \in Ops : DispatchMerge(o) \/ CancelMerge(o) \/ RecoverMerge(o)

Next ==
    \/ Service
    \/ \E o \in Ops : MergeArrives(o) \/ MergeLost(o)
    \/ \E p \in Prs : Push(p) \/ MergeOutside(p)

Spec == Init /\ [][Next]_vars

\* A client repeats the merge request under its key until it has an answer.
FairSpec == Spec /\ \A o \in Ops : WF_vars(RecoverMerge(o))

-----------------------------------------------------------------------------
(* What a protected task is promised.                                      *)

\* At most one merge is under way in the repository, its owner holds the fence,
\* and exactly its members are reserved: no reservation is left behind by a
\* merge that ended, and none is missing from one that has not.
ReservationsOwned ==
    /\ \A o \in Ops : Open(o) <=> fence = o
    /\ \A t \in Tasks : cohort[t] # NoOp => Open(cohort[t]) /\ t \in Members(cohort[t])
    /\ \A o \in Ops : Open(o) => \A m \in Members(o) : cohort[m] = o

\* A merge this system causes is the merge of the very commit that every
\* enrolled task linked to the pull request consented to, at the moment it
\* happens: links, claims and commits that came later are not in it.
Consents(o, t) ==
    /\ t \in Members(o) /\ MemberStands(o, t)
    /\ ~(t = op[o].seed /\ op[o].override) =>
          LET a == op[o].evidence[t] IN
          /\ a # NoAttempt /\ attempt[a].receipt /\ attempt[a].state = "active"
          /\ attempt[a].actor = op[o].actor
          /\ attempt[a].digest = Context(t, "merge")

MergedWithConsent ==
    [][\A p \in Prs : by'[p] \in Ops /\ by[p] = NoOp =>
          \A t \in Protected : row[t].pr = p => Consents(by'[p], t)]_vars

\* Once GitHub has merged the commit, the task follows.
MergeFollowed ==
    \A o \in Ops : (op[o].state = "dispatched" /\ Merged(o)) ~> op[o].state = "completed"
=============================================================================
