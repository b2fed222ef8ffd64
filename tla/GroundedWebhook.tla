--------------------------- MODULE GroundedWebhook ---------------------------
(***************************************************************************)
(* Deliveries of the GitHub webhook with Grounding                         *)
(* (backend/src/services/grounding-github-webhook.ts,                      *)
(* grounding-github-observation-context.ts, grounding-hold.ts,             *)
(* grounding-transaction.ts, routes/grounding-github-webhooks.ts).         *)
(*                                                                         *)
(* The claim of the delivery id, all its effects and its stored result are *)
(* one serializable transaction, tried up to three times; its row locks    *)
(* keep the other writers out, so a try is one step.  Signals collected in *)
(* memory are pushed and the request answered after the commit.            *)
(***************************************************************************)
EXTENDS Naturals, FiniteSets

CONSTANTS
    Tasks,       \* tasks the pull request matches
    Deliveries,  \* delivery ids
    Event,       \* what each delivery reports
    Requests,    \* deliveries processed at the same time
    Confirms,    \* the project wants a review after a merge (not AUTONOMOUS)
    NoDelivery,  \* an idle request
    MaxSends,    \* bound: requests that GitHub sends
    MaxWrites    \* bound: writes by others and by the operator

Events == {"merged", "opened", "changes", "reopened", "issueClosed", "issueOpened", "other"}
Statuses == {"open", "work", "review", "done"}

\* The retries of groundingTransaction.
Tries == 3

\* Raw bodies; the same id with other bytes is another delivery.
Bodies == 1 .. 2

Heads == 1 .. 2

ASSUME EventAssumption == Event \in [Deliveries -> Events]
ASSUME NoDeliveryAssumption == NoDelivery \notin Deliveries
ASSUME BoundsAssumption == MaxSends \in Nat /\ MaxWrites \in Nat

VARIABLES
    row,      \* per task: status and whether it names the pull request
    enrolled, \* per task: "no", "valid" or "invalid"
    held,     \* tasks held for a migration
    reserved, \* tasks whose cohort is reserved for a completion
    attempt,  \* per task: the rows and heads that active attempts describe
    head,     \* head of the pull request
    stored,   \* per delivery: 0, or the body it was committed with
    req,      \* per request: the delivery under way
    sent,     \* number of requests GitHub has sent
    writes,   \* number of writes by others
    seen,     \* history: observations of a delivery on a task
    made,     \* history: the try that created the task of an opened issue
    pushed,   \* history: tries whose signal was pushed
    told      \* history: bodies answered with 200

task == <<row, enrolled, held, reserved, attempt, head>>
history == <<seen, made, pushed, told>>
vars == <<task, stored, req, sent, writes, history>>

Row == [status : Statuses, linked : BOOLEAN]

Idle == [of |-> NoDelivery, body |-> 0, try |-> 0, pc |-> "idle", signals |-> {}]

Underway == [of : Deliveries, body : Bodies, try : 0 .. Tries - 1, pc : {"try", "push"},
             signals : SUBSET (0 .. Tries - 1)]

TypeOK ==
    /\ row \in [Tasks -> Row]
    /\ enrolled \in [Tasks -> {"no", "valid", "invalid"}]
    /\ held \subseteq Tasks /\ reserved \subseteq Tasks
    /\ attempt \in [Tasks -> SUBSET [row : Row, head : Heads]]
    /\ head \in Heads
    /\ stored \in [Deliveries -> {0} \cup Bodies]
    /\ req \in [Requests -> {Idle} \cup Underway]
    /\ sent \in 0 .. MaxSends /\ writes \in 0 .. MaxWrites

Init ==
    /\ row \in [Tasks -> {[status |-> "work", linked |-> FALSE],
                          [status |-> "review", linked |-> TRUE]}]
    /\ enrolled \in [Tasks -> {"no", "valid", "invalid"}]
    /\ held = {} /\ reserved = {}
    /\ attempt = [t \in Tasks |-> {}]
    /\ head = 1
    /\ stored = [d \in Deliveries |-> 0]
    /\ req = [r \in Requests |-> Idle]
    /\ sent = 0
    /\ writes = 0
    /\ seen = [x \in Deliveries \X Tasks |-> 0]
    /\ made = [d \in Deliveries |-> {}]
    /\ pushed = [d \in Deliveries |-> {}]
    /\ told = [d \in Deliveries |-> {}]

-----------------------------------------------------------------------------
(* The effects of an event.                                                *)

\* prMatch: EXACT by number and address, otherwise WEAK by branch or title.
Exact(t) == row[t].linked

Positive(e) == e \in {"merged", "issueClosed"}

\* applyEvent skips a finished task that is not enrolled.
Skipped(t) == t \notin held /\ enrolled[t] = "no" /\ row[t].status = "done"

\* Only observed: the completion stays with an authenticated actor.
Pending(e, t) ==
    \/ t \in held
    \/ Positive(e) /\ enrolled[t] # "no"
    \/ e = "merged" /\ ~Exact(t)
    \/ enrolled[t] = "invalid"

Observed(e) ==
    IF e \in {"issueOpened", "other"} THEN {} ELSE {t \in Tasks : ~Skipped(t)}

\* The row an event puts a task in, the row itself when it changes nothing.
Effect(e, t) ==
    LET s == row[t].status IN
    CASE Pending(e, t) \/ t \notin Observed(e) -> row[t]
      [] OTHER ->
          CASE e = "opened" -> [row[t] EXCEPT !.linked = TRUE]
            [] e = "changes" /\ Exact(t) /\ s = "review" -> [row[t] EXCEPT !.status = "work"]
            [] e = "issueClosed" -> [row[t] EXCEPT !.status = "done"]
            [] e = "merged" /\ ~Confirms -> [row[t] EXCEPT !.status = "done"]
            [] e = "merged" /\ Confirms /\ s \in {"open", "work"} ->
                  [row[t] EXCEPT !.status = "review"]
            [] OTHER -> row[t]

\* changedHead: the active attempt describes another head than the event's.
HeadChanged(e, t) ==
    /\ e = "reopened" /\ Exact(t) /\ ~Pending(e, t)
    /\ \E a \in attempt[t] : a.head # head

Changes(e) == {t \in Observed(e) : Effect(e, t) # row[t] \/ HeadChanged(e, t)}

\* The whole delivery is refused with 409.
Refused(e) ==
    \/ e = "opened" /\ \E t \in Observed(e) : t \notin held /\ enrolled[t] = "invalid"
    \/ Changes(e) \cap reserved # {}

\* Mutant of Invalidated: only a written row ends the attempt.
InvalidatedByRow(e) ==
    [t \in Tasks |-> IF HeadChanged(e, t) THEN {} ELSE attempt[t]]

\* invalidateGroundingContext for every changed task.
Invalidated(e) == [t \in Tasks |-> IF t \in Changes(e) THEN {} ELSE attempt[t]]

-----------------------------------------------------------------------------
(* The request.                                                            *)

Receive(r, d, b) ==
    /\ req[r] = Idle /\ sent < MaxSends
    /\ sent' = sent + 1
    /\ req' = [req EXCEPT ![r] = [Idle EXCEPT !.of = d, !.body = b, !.pc = "try"]]
    /\ UNCHANGED <<task, stored, writes, history>>

At(r, pc) == req[r].of # NoDelivery /\ req[r].pc = pc

\* Mutant of Collected: what earlier tries collected stays.
CollectedAll(q) == q.signals \cup {q.try}

\* The signals in memory after this try has created its task.
Collected(q) == {q.try}

\* A serialization failure at any point of the transaction.
Fails(r) ==
    /\ At(r, "try")
    /\ LET q == req[r] IN
       \E signals \in {q.signals, {}} \cup
                      (IF Event[q.of] = "issueOpened" THEN {Collected(q)} ELSE {}) :
          req' = [req EXCEPT ![r] =
                     IF q.try + 1 < Tries
                     THEN [q EXCEPT !.try = @ + 1, !.signals = signals] ELSE Idle]
    /\ UNCHANGED <<task, stored, sent, writes, history>>

\* The id was committed with the same bytes: its stored result is the answer.
Replays(q) == stored[q.of] # 0 /\ stored[q.of] = q.body

\* The answer of a request that changes nothing.
Replay(r) ==
    /\ At(r, "try")
    /\ LET q == req[r] IN
       /\ Replays(q)
       /\ told' = [told EXCEPT ![q.of] = @ \cup {q.body}]
    /\ req' = [req EXCEPT ![r] = Idle]
    /\ UNCHANGED <<task, stored, sent, writes, seen, made, pushed>>

Refuse(r) ==
    /\ At(r, "try")
    /\ LET q == req[r] IN
       \/ stored[q.of] # 0 /\ ~Replays(q)
       \/ stored[q.of] = 0 /\ Refused(Event[q.of])
    /\ req' = [req EXCEPT ![r] = Idle]
    /\ UNCHANGED <<task, stored, sent, writes, history>>

Commit(r) ==
    /\ At(r, "try")
    /\ LET q == req[r]
           d == q.of
           e == Event[d]
       IN  /\ stored[d] = 0 /\ ~Refused(e)
           /\ stored' = [stored EXCEPT ![d] = q.body]
           /\ row' = [t \in Tasks |-> Effect(e, t)]
           /\ attempt' = Invalidated(e)
           /\ seen' = [x \in Deliveries \X Tasks |->
                          seen[x] + IF x[1] = d /\ x[2] \in Observed(e) THEN 1 ELSE 0]
           /\ made' = IF e = "issueOpened"
                      THEN [made EXCEPT ![d] = @ \cup {q.try}] ELSE made
           /\ req' = [req EXCEPT ![r].pc = "push",
                         ![r].signals = IF e = "issueOpened" THEN Collected(q) ELSE {}]
    /\ UNCHANGED <<enrolled, held, reserved, head, sent, writes, pushed, told>>

\* After the commit the notification webhooks are called and 200 is answered.
Push(r) ==
    /\ At(r, "push")
    /\ LET q == req[r] IN
       /\ pushed' = [pushed EXCEPT ![q.of] = @ \cup q.signals]
       /\ told' = [told EXCEPT ![q.of] = @ \cup {q.body}]
    /\ req' = [req EXCEPT ![r] = Idle]
    /\ UNCHANGED <<task, stored, sent, writes, seen, made>>

\* The process dies, before or after the commit.
Crash ==
    /\ \E r \in Requests : req[r] # Idle
    /\ req' = [r \in Requests |-> Idle]
    /\ UNCHANGED <<task, stored, sent, writes, history>>

-----------------------------------------------------------------------------
(* Others.  Every writer of a Grounding task refuses a reserved one and     *)
(* invalidates the context it changes.                                      *)

Others(t) ==
    /\ writes < MaxWrites /\ writes' = writes + 1
    /\ \/ \* an attempt about the task as it is
          /\ enrolled[t] = "valid" /\ t \notin held \cup reserved
          /\ attempt' = [attempt EXCEPT ![t] = {[row |-> row[t], head |-> head]}]
          /\ UNCHANGED <<row, enrolled, held, reserved, head>>
       \/ \* a status write of a handler
          /\ t \notin held \cup reserved
          /\ \E s \in Statuses \ {row[t].status} : row' = [row EXCEPT ![t].status = s]
          /\ attempt' = [attempt EXCEPT ![t] = {}]
          /\ UNCHANGED <<enrolled, held, reserved, head>>
       \/ \* a completion reserves the cohort and ends
          /\ enrolled[t] = "valid" /\ t \notin held
          /\ reserved' = IF t \in reserved THEN reserved \ {t} ELSE reserved \cup {t}
          /\ UNCHANGED <<row, enrolled, held, attempt, head>>
       \/ \* an operator holds the task for a migration
          /\ t \notin held \cup reserved /\ held' = held \cup {t}
          /\ UNCHANGED <<row, enrolled, reserved, attempt, head>>
       \/ \* commits are pushed to the branch
          /\ head < 2 /\ head' = head + 1
          /\ UNCHANGED <<row, enrolled, held, reserved, attempt>>
    /\ UNCHANGED <<stored, req, sent, history>>

Next ==
    \/ \E r \in Requests :
          \/ Fails(r) \/ Replay(r) \/ Refuse(r) \/ Commit(r) \/ Push(r)
          \/ \E d \in Deliveries, b \in Bodies : Receive(r, d, b)
    \/ Crash
    \/ \E t \in Tasks : Others(t)

Spec == Init /\ [][Next]_vars

-----------------------------------------------------------------------------

\* A delivery has its effects exactly when its result is stored, and once: a
\* failed try, a refusal or a crash leaves nothing, a copy adds nothing, only the
\* bytes that were committed are ever answered with 200, and the only pushed
\* signal is the one of the task that exists.
CommittedOnce ==
    \A d \in Deliveries :
       /\ \A t \in Tasks : seen[<<d, t>>] <= 1
       /\ stored[d] = 0 => /\ \A t \in Tasks : seen[<<d, t>>] = 0
                           /\ made[d] = {}
       /\ told[d] \subseteq {stored[d]} /\ 0 \notin told[d]
       /\ Cardinality(made[d]) <= 1 /\ pushed[d] \subseteq made[d]

\* A delivery is an observation: it neither sends an enrolled task to review nor
\* ends it, leaves held and reserved rows as they are, and an attempt that stays
\* active afterwards still describes its task.
WebhookObserves ==
    [][\A t \in Tasks :
          stored' # stored =>
             /\ row'[t].status # row[t].status /\ enrolled[t] # "no" =>
                   row'[t].status = "work"
             /\ t \in held \cup reserved => row'[t] = row[t]
             /\ \A a \in attempt'[t] : a.row = row'[t]]_vars

=============================================================================
