# A formal model of agent-tasks

agent-tasks is a task board that people and coding agents share. A task is a
database row. Clients (the web frontend, the command line, an MCP server) call
an HTTP interface; GitHub calls a webhook. Many requests are served at once and
little but the rows themselves orders them, so most handlers follow one scheme:
read, decide, and write on the condition that what the decision rests on is
still there. Some write without that condition, some inside a transaction that
locks its rows, some call GitHub in the middle. These modules model each of
these schemes and what it has to keep.

## Files

| file | what it holds |
| --- | --- |
| `Workflow` | workflow definitions and the questions handlers ask of them |
| `TaskLifecycle` | the task row under concurrent requests, GitHub, webhooks and crashes |
| `TaskBoard` | the abstract specification: the board the handlers implement, every operation atomic |
| `TaskProperties` | the properties of `TaskLifecycle` and the refinement mapping to `TaskBoard` |
| `KeyedAdvance` | retries of `/advance` under an idempotency key |
| `GroundedMerge` | completion of enrolled tasks under receipts, and the merge several of them share |
| `PrCreate` | grounded creation of a pull request with retries |
| `Signals` | signals to agents and people, their sweep and their pickup |
| `LegacyWebhook`, `GroundedWebhook` | the two receivers of GitHub deliveries |
| `Webhooks` | the receiver as `app.ts` mounts it, one or the other |
| `TaskGraph` | dependencies, their cycle check, and deletion of tasks |
| `TaskFiles` | attachments, artifacts, comments and their files on disk |
| `TaskIntake` | import of batches and creation of single tasks |
| `WorkflowEdit` | editing workflows over tasks that follow them |
| `Shares` | invitations, members, governance, and the claims of those who leave |
| `Project` | the last five together, each with its own variables |
| `MC*.tla`, `*.cfg` | instances for TLC |
| `TaskSteps`, `TaskPromises` | lemmas and theorems about the task lifecycle: its invariants, and what follows from them for the board |
| `KeyedAdvanceProofs`, `GroundedMergeProofs`, `PrCreateProofs`, `WebhooksProofs`, `SignalsProofs` | lemmas and theorems about the other modules |
| `ProjectProofs` | lemmas and theorems about the five parts of `Project` |
| `PROJECT.json` | components, runs, mutants, the map from definitions to source lines, findings, hazards, theorems |

A definition whose name is used nowhere and whose comment begins `Mutant of` is a
plausible bug of the definition after it; `PROJECT.json` says which property
refutes it.

## Inventory

Paths are below `backend/src/`, or from the root of the repository for `docs/` and
`CHANGELOG.md`.

| component | state | operations | interacts with | what makes it correct |
| --- | --- | --- | --- | --- |
| task routes (`routes/tasks.ts`) | the task row: status, status version, work claim, review lock, result | claim, start, release, abandon, review claim and release, review, finish, advance, transition, PATCH, creator-abandon, admin release and reassign, merge, pickup, submit-pr, respec | all of the below | one holder per claim, distinct roles, approvals by a distinct reviewer, moves only along the workflow, finished tasks unclaimed |
| status compare-and-swap (`services/task-status-cas.ts`) | `statusVersion` | conditional status write; the write after a merge with its re-reads and retries | every status writer | no write on a row that changed, round trips included; retries end |
| merge reservation (`services/task-merge-reservation.ts`) | three lease columns | reserve, allow own, release, lapse | merge paths; fences all claim writers | the gates' decision still stands when GitHub merges; never a permanent lock |
| GitHub merge (`services/github-merge.ts`, `routes/github.ts`) | the pull request, at GitHub | merge call with five kinds of outcome | reservation, status write | a merge cannot be undone: the status must follow it |
| GitHub webhook (`routes/webhooks.ts`, `services/github-webhook.ts`, `services/grounding-github-webhook.ts`) | delivery table, or stored results | claim, match, write with retries; or one transaction per delivery | races with every handler, redelivery | each delivery has its effect at most once per task, and is not dropped by one lost write |
| workflow definition (`services/default-workflow.ts`) | states and edges | classification, targets | every handler | targets are states of the definition; every lookup agrees with the others |
| workflow editing (`routes/workflows.ts`, `services/workflow-stranding.ts`) | workflow rows of a project, pins of tasks | save, reset, promote, delete, template, pin | handlers that have read the old definition, grounding attempts | no edit strands a task, only a late write strays; no attempt proves an answer to another workflow |
| gates (`services/review-gate.ts`, `lib/governance-mode.ts`) | governance mode and two older flags | distinct reviewer, approval, self-merge | review, merge, finish, claims | asked on what the write later compares; both readings of the mode agree |
| signals (`services/signal.ts` and its emitters) | rows per recipient | emit, sweep, pick up, acknowledge | after status writes, not awaited | everybody due is asked; no pickup hands out an ask about a finished task |
| idempotency (`services/idempotency.ts`) | stored responses by key | look up, execute, store, sweep | advance, the pull request routes | a retry finds the answer of what was done; nobody gets another's answer |
| grounding completion (`services/grounding-*.ts`) | attempts, receipts, cohorts, operations, a repository fence | issue, ingest, complete, override, reserve, dispatch, recover, cancel | database triggers, GitHub | a merge only with the consent of every linked enrolled task; it ends for all or none |
| grounded pull request creation (`services/grounding-github-create.ts`) | operations, fence | reserve, claim the POST, prove by marker, bind | fence of merges, GitHub | one pull request per operation, bound in the end |
| dependencies and deletion (`routes/tasks.ts`) | relation between tasks | add with a cycle check, remove, delete | start | no task waits for itself |
| attachments, artifacts, comments (`routes/tasks.ts`) | rows, files on disk | add under caps, delete, delete with the task | merge reservation | rows and files match as far as the disk and the database answer, caps are passed by a bounded amount |
| intake (`routes/tasks.ts`, `routes/grounding-creation.ts`) | rows with external references | create, import | retries, overlapping imports | one task per reference, a complete answer |
| projects, members, invitations (`routes/projects.ts`, `routes/invites.ts`) | governance, grants, invitations | PATCH, invite, accept, remove | claims, solo mode, merges | solo mode ends when the project is shared; leavers hold nothing |
| notification webhook, confidence, transition rules, boards, teams, sessions, tokens, single sign-on, audit, middleware | | | | not modelled, see below |
| frontend, command line, MCP server and bridge | | issue requests | the HTTP interface | clients |

What is hard here: two handlers between each other's read and write; claims of
two kinds guarded by different routes; a status that leaves and comes back; the
irreversible call to GitHub in the middle of a handler, with a crash, a timeout
or the webhook about it overtaking the handler; leases that lapse under a slow
call; rules over several rows (one active claim, blockers, cycles, caps, the
first share) checked outside any lock; emissions nobody awaits; deliveries,
imports and creations that are repeated. `PROJECT.json` lists each of these
hazards at its line with the properties that would catch it.

## How the models correspond to the code

### TaskLifecycle

**State.** `row[t]` keeps the columns some guard or write looks at. `version`
is `statusVersion`; `work` and `review` stand for the user/agent column pairs,
`NoActor` for null. `lock` is the request that holds a *live* merge
reservation: a lapsed reservation is treated by the code as an absent one, so
`Lapse` removes it. A lock whose holder died or gave up on an unknown outcome
belongs to `Gone`. `result` is who stored the result text (`Gone` for a PATCH)
and `sha` whether `autoMergeSha` is set. `pull[t]` is the pull request as
GitHub knows it: open, merged, or merged and delivered to the webhook.
`req[r]` is a running request: where it is (`pc`), the snapshot its write
compares (`snap`), the status it writes and the claims it drops.

**Granularity.** A handler reads the row once and decides: one `...Read`
action, whose guard is the conjunction of the code's early returns. Its write
is a second action. Claim handlers write under the grounding route lock
(`services/grounding-route-context.ts`), in one serializable transaction that
locks the project and task rows, re-validates and updates: one action whose
condition is the re-validation and the `WHERE` together. Status handlers write
by one `UPDATE` with the whole snapshot in its `WHERE` (`StatusWrite`), the
webhook by one that compares status and version (`WebhookWrite`). A write that
matches no row ends the request and changes nothing. Requests refused at their
read change nothing either and are not shown; nor are preconditions,
confidence, roles and scopes, which only refuse.

**The merge.** `Reserve` is the conditional update right before the GitHub
call. `GithubMerges`, `GithubAlreadyMerged` (405), `GithubRefuses` (4xx),
`GithubUnknown` (timeout or 5xx: merged now, or not) and `GithubCheckFails`
(the `prMerged` post-check of finish) are the outcomes of the call. Then
`RecordWrite`, `Reread`, `RetryWrite`, `RereadResult` follow
`casUpdateTaskStatusAfterMerge` statement by statement, and `Release` is the
release at the end of the request. `Crash` stops any request anywhere.

**Operations.** `Ops` names the operations clients issue in an instance, so a
run can combine the ones that interact in the question it asks. `MaxVersion`
is the one bound: no request starts on a row at that status version or later.
Requests already running may still write above it.

Left out: labels, texts, timestamps, the branch and pull request numbers,
signals, audit events, comments and responses; the governance mode, the workflow
and the dependencies do not change during a behaviour.

**Initial states.** `Init` is a task as created, on the board or in the
backlog. Runs that begin in review (`ReviewSpec`) start from a row whose work
`a1` has finished, with no reviewer or with `a2`: `lifecycle` reaches such rows
from `Init`, and status versions simply count from there, so that the bound is
spent on the merge.

### The abstract board

`TaskBoard` is what the handlers promise together: no requests, snapshots,
versions or reservations, and every operation in one step on the task as it is.
It says who may do what from which status, where it leads and which claims it
takes or drops, and leaves open what only refuses more (blockers, the single
active claim, preconditions). `TaskProperties` maps a row to its three visible
columns and the pull request to merged or not; requests, versions, leases,
results and deliveries are hidden. `HandlersAtomic` is the refinement: a read, a
crash, a lapse or a lost write is a stutter, and every write that lands is an
operation of the board at that moment, with the gates holding *then*.
`StepsAtomic` is its step part, for the runs that begin in review. Overrides are
part of the board only in runs that issue them (`Forcers`, `Reports`): otherwise
a write that skipped the approval gate would pass for a forced transition or for
the close of an issue.

### KeyedAdvance

`KeyedAdvance` puts `withIdempotency` around the `/advance` handler. The order
matters and is kept: the handler reads the task (`ReadTask`) *before* the key is
looked up (`Replay`, `Execute`), decides on the row it read, writes by
compare-and-swap (`Write`) and stores a successful answer last (`Store`). `Fail`
is every other end: a refusal, a lost write, a failed insert, the end of the
process. `OtherWrite` stands for all other routes that move the task or its
claim. `GiveUp` is the environment's side of the retention: 30 days are taken to
exceed any client's retries (`services/idempotency-sweep.ts:11-14`), so `Sweep`
deletes only what no client asks for again. `made`, `told`, `overlap` and `lost`
are history and appear in no guard.

The code stores the answer after the write and says so; the properties state
what is left. `MoveRemembered`: a retry finds the answer unless the earlier
attempt is between its write and its store at that moment or died there. In that
window the retry, which has read the row after the write, advances the task a
second time (a client that times out early is enough). `HotDuplicatesMoveOnce`:
attempts that read the row before the write cannot, because the compare-and-swap
stops them; so duplicates that start together are safe although the store does
not serialize them. `OncePerKey`: without overlap and without a lost answer
there is one move per key. `ToldTruth`: no refusal is ever replayed as a success,
and no caller is given the success of another caller, task or stage.

### GroundedMerge

An enrolled task (`Protected`) leaves its status only under a receipt about
exactly the task the signer saw. Every service method runs in a serializable
transaction that locks the projects and tasks first, so an action is a
transaction. `binding[t]` is the active attempt and the revision of the context;
`attempt[a]` an issued challenge, its digest (`Context`: status, holder, link,
intent, head of the pull request) and whether its receipt has arrived. `Issue`,
`Ingest`, `Expire`, `CompleteLocally` and `RequestChanges` are the life of one
task; `Mutate` is any other route that changes what a context binds, which
voids the attempt (`Invalidate`). A merge is decided for every enrolled task
linked to the pull request (`Discover`), reserves all of them and the repository
fence (`ReserveMerge`), commits its claim to call GitHub before the call
(`DispatchMerge`), and completes only on what GitHub reports (`RecoverMerge`);
`CancelMerge` is possible until the dispatch. The call itself (`puts`) may arrive
late (`MergeArrives`) or be lost; commits are pushed and merges are made outside
at any time. Signatures are abstracted: a receipt is there or not; the digest of
the canonical bytes is taken as injective. The database triggers of the fence
are the guard `Unfenced`.

### PrCreate

One creation is an operation (a task, a key and a request); several invocations
of it may run and stop anywhere (`Fail`). `Reserve` takes the fence, `Claim`
commits the right to one POST, `PostArrives`/`PostLost` are GitHub's side,
`Read` looks for the marker in the description, `Remember` and `Bind` are the
transactions that store the proof and link the task, and give the fence back.
People edit descriptions (`Edit`), relink tasks, issue attempts, and merges
compete for the fence (`MergeBegins`).

### Signals

One task and the writes to it (`Handle`, one disjunct per handler that emits or
sweeps); after the write a slot has still to sweep (`After`) and to insert one
row per recipient, a step each, which nobody awaits and which may fail
(`EmitFails`) or be cut off (`Crash`). Pickup is three steps: find, acknowledge,
answer. `due`, `broken`, `writes` and the fields `handed` and `late` are history.

### LegacyWebhook, GroundedWebhook and Webhooks

`backend/src/app.ts` mounts one of the two when the process starts (`Webhooks`).
`LegacyWebhook` claims the delivery id, answers, and then looks tasks up and
moves them by a compare-and-swap with three tries; each statement is a step, the
process may die, ids age and are swept. `GroundedWebhook` makes claim, effects
and stored result one transaction with three tries, collects signals in memory
and pushes them after the commit. `said`, `seen`, `made`, `pushed` and `told` are
history.

### TaskGraph, TaskFiles, TaskIntake, WorkflowEdit, Shares

`TaskGraph` keeps the walk of `wouldCreateCycle` query by query (`Walk`) with
its queue and visited set, in any order, and the insert after it as another step.
`TaskFiles` keeps a cap check, the file and the row of an upload as separate
steps (`count`, `sum`, `store`, `create`), and the deletion of a task as a read
of its files, the row and the unlinking. Each of them may fail: the write of the
file, perhaps halfway, outside the `try` that would remove it
(`routes/tasks.ts:6598`); the removal of a file, whose errors are swallowed
(6441, 6618, 6789); the database, which may refuse or write and lose its answer.
`disturbed` records what such a failure can leave behind. `TaskIntake` writes a batch item by item
on both routes, which differ in how they number items and treat copies; requests
are cut off after any item and sent again. `WorkflowEdit` makes an edit one
transaction (selection of the tasks it concerns, stranding check, end of their
attempts) beside requests that read the definition earlier (`writer`); a stored
definition is read through `Sanitized`, as by every reader. /start, /claim and
/release read it before the lock for enrolled tasks too (`routes/tasks.ts:2408`,
7341), and what is repeated under the lock (2540-2567, 7399-7413) is the access,
the status, the claims and the review holder, never the workflow: `Decide` and
`Land`, which ends the attempt. What Grounding decides itself (finish, review,
abandonment, a completed merge) is read and written under one lock:
`MoveEnrolled`, `CreateEnrolled`, `EndMerge`. `Shares` splits the
acceptance of an invitation into its four steps (check, transaction, count,
flip), and keeps both readings of the governance: the mode and the older flags.

## Runs

Twelve runs, each one question. `CHECK_DEADLOCK FALSE` everywhere because a
bounded instance stops: at its bound nobody starts a request. Symmetry is used
for interchangeable slots and ids in safety runs, never with liveness (`project`: requests and the
ids of rows and files).

| run | module | what it explores | properties |
| --- | --- | --- | --- |
| `lifecycle` | `MCTaskLifecycle` | 17 operations by two agents and an administrator under distinct reviewers, from the backlog to done, versions to 3 | `VersionIdentifiesStatus`, `TerminalUnclaimed`, `OffBoardUnclaimed`, `DistinctHolders`, `TerminalIsFinal`, `HandlersAtomic`, `ApprovedByDistinct`, `ClaimKept` |
| `merge` | `MCTaskLifecycle` | from review: all merge routes, review locks, reassignment, webhooks, crashes, lapses, versions to 2 | `ReservedSnapshotHolds`, `MergeGateStands`, `StepsAtomic` |
| `auto_merge` | `MCTaskLifecycle` | autonomous mode on `StagedWorkflow` (two work stages, two terminal states, an edge back), agent and person, versions to 4, under `FairSpec` | `ResultKept`, `ReservationEnds` |
| `two_tasks` | `MCTaskLifecycle` | two tasks, one waiting for the other, an agent and a person, versions to 3 | `ReassignKeepsSingleClaim`, `StartedUnblocked` |
| `keyed_advance` | `MCKeyedAdvance` | one task on three work stages in a row (a move can be made twice), two callers, two keys and unkeyed requests, two attempts at once, versions to 2 | `MoveRemembered`, `ToldTruth`, `OncePerKey`, `HotDuplicatesMoveOnce` |
| `grounded_merge` | `MCGroundedMerge` | two enrolled tasks, one of them attested without code, an administrator, one pull request with two commits, two operations, two attempts, two generations of a context, under `FairSpec` | `ReservationsOwned`, `MergedWithConsent`, `MergeFollowed` |
| `pr_create` | `MCPrCreate` | one creation, two invocations at once, two pull requests, two edited descriptions, under `FairSpec` | `OnePullRequest`, `CreationEnds` |
| `signals` | `MCSignals` | two agents and a person, two requests and a pickup at once, three writes by any of 14 handlers, a crash, from the creation of the task or from work | `LateAskNotHanded`, `ReviewersAsked` |
| `webhooks` | `MCWebhooks` | three deliveries (a merge, a review, an issue), two requests by GitHub (of one delivery or of two) processed at once, two to three writes by others; with and without Grounding | `OncePerTask`, `FactStands`, `CommittedOnce`, `WebhookObserves` |
| `project` | `MCProject` | `Project`: the modules `WorkflowEdit` (one task, two rows, four definitions), `TaskGraph` (three tasks, two requests), `TaskFiles` (three ids, two requests, caps of one row and one byte, sizes to `MaxSize` = 2), `TaskIntake` (two imports of four batches), `Shares` (two users, two invitations, one death) | `EditStrandsNobody`, `OnlyLateWritesStray`, `AttemptBindsCurrent`, `CyclesAreRaced`, `CapsHold`, `FilesMatchRows`, `ImportComplete`, `FlagsAgree`, `FlipMissedByOverlap`, `LeaversHoldNothing` |
| `already_merged`, `shares` | `MCTaskLifecycle`, `Shares` | the findings below | one each, violated |

`project` checks parts that share no state, so it takes them one after the
other: a variable `part`, fixed at the start, says which one moves. `Shares`
comes twice, once without claims and once with one governance, because joining
and leaving meet in the members only.

**Bounds.** Two concurrent requests are what a race needs: every guard is read by
one and invalidated by another; a third party that takes effect between them is
also possible, since a request may finish and its slot start another. A version
bound of 3 admits claim, review, change request and a second review in
`lifecycle`; 4 admits both work stages and the edge back in `auto_merge`; 2 is the
least that lets a key move a task twice in `keyed_advance`. Two commits are what a
receipt about an old head needs, two attempts what a superseded one needs, two
operations what a merge under another one's fence needs. Three writes admit an
ask, its answer and the write that makes the ask late. Three deliveries meet in
every pair of kinds. Three tasks are the shortest cycle that is not a pair. Caps
of one row are passed by the second request already. `TypeOK` of each module
documents its state and is not a property of a run; those of `TaskLifecycle`,
`KeyedAdvance`, `GroundedMerge`, `PrCreate`, `GroundedWebhook` and `Signals` are
theorems, and those of the parts of `Project` are parts of invariants that are proved.

Each property of a passing run has a mutant in `PROJECT.json`: a plausible bug
of the code (a guard not asked again under the lock, a version not bumped, a
lease that never ends) with which the same run refutes the property.

**Fairness.** `FairSpec` of `TaskLifecycle` assumes that a running request takes
its next step (a handler is awaited to its end, the GitHub call has a timeout; it
may still crash, which ends it) and that a lease ends (it is a comparison with
the clock). `FairSpec` of `GroundedMerge` assumes that the client repeats a merge
request under its key until it is answered, so `RecoverMerge` happens if it stays
possible; nothing is assumed of GitHub. `FairSpec` of `PrCreate` assumes the same
of the creation's client, that not every one of its retries is cut off at the
same step (strong fairness per operation, over the invocations), and the timeout
of the POST (`services/grounding-github-create-provider.ts:57`). The other runs assume
nothing.

## Findings

1. **A finish with `autoMerge` of a pull request that is merged already refuses
   itself** (`already_merged`). GitHub's 405 is taken as a success with a null
   sha; the finish handlers tell the status write about the merge only when the
   sha is not null; the write then runs as a plain compare-and-swap, and the
   reservation it refuses is the handler's own. The call answers
   `409 merge_in_progress`, every time, until the status is moved in another way.
   `services/task-merge-reservation.ts:126` promises the opposite.
2. **A project shared with two users at once stays solo** (`shares`). The
   acceptance counts the members after its transaction; two that overlap both
   count two, and neither ends solo mode (`routes/invites.ts:482`), against
   `docs/events.md:28`. `FlipMissedByOverlap` says that this, and a death between
   the two steps, are the only ways.

### Observations

Visible in the models, and not counted as findings.

Claims and status:
- A review lock is left on a finished task: `changes_requested` from GitHub moves
  it from review to work without clearing the lock, and an auto-merging finish
  from work into a terminal status clears only the work claim
  (`routes/tasks.ts:4033`; `services/task-claim-fields.ts:3` says both).
  `lifecycle` checks `TerminalUnclaimed` without auto-merge for this reason.
- Two starts of one agent on two tasks can both pass the single-claim check, which
  is outside the lock (`routes/tasks.ts:2373`), and `/claim` has none, while 2305
  calls it a hard limit. Reassignment does check inside.
- The status filter of the webhook lets abandoned tasks through
  (`services/github-webhook.ts:112`): closing the issue or merging moves them,
  against `routes/tasks.ts:5631`, also as the blocker of a task that is just being
  started. A late `changes_requested` after the merge takes
  a task that awaits confirmation back to work.
- The GitHub merge route moves a task in one terminal state to the first one of
  the workflow. A workflow whose first edge from `open` is into a terminal state
  lets `/claim` put a claim on a finished task. A transition from work back to
  `open` keeps the claim.
- A respec that lands between a start's gate and its write is not seen by the
  start. PATCH of the link and submit-pr update a row by its id only, also under
  a merge reservation (`routes/tasks.ts:5449`, 4509).

Signals:
- An ask that was written after its task had finished stays in the list of unread
  signals until it is acknowledged (`routes/signals.ts:25`, `services/signal.ts:150`);
  only pickup asks for the state of the task, and `LateAskNotHanded` is about pickup.
- Pickup acknowledges before its response has been received
  (`routes/tasks.ts:2140`): a lost response loses the signal.
- Two pickups at the same time can hand out one signal twice: the update names it
  by its id only (`routes/tasks.ts:2140`).
- A task that is demoted while emissions are under way still wakes somebody
  (`routes/tasks.ts:6006`); a slow sweep can take the signals of a later write.
- A forced transition reads its recipients after the claims were cleared, so the
  claimant of a finished task is not told (`services/force-transition-signal.ts:48`).
- A merge reported by the webhook moves a task to review and asks no reviewer
  (`services/github-webhook.ts:596`). Abandonment acknowledges no signals.
  `docs/events.md` describes the acknowledgement as unconditional.

GitHub:
- Without Grounding a delivery is processed at most once by design
  (`docs/webhook-setup.md:116-120`): a crash after the claim loses it. The two
  receivers remember deliveries in different tables, so switching between them
  admits a delivery again; `IDEMPOTENCY_TTL_DAYS` may be set to 1
  (`config/index.ts:57`), below the time GitHub may redeliver.
- A creation whose POST was lost keeps its operation dispatched and the fence of
  the repository held, until somebody ends it by hand: `CreationEnds` is about
  creations whose pull request exists (the contract,
  `docs/grounding-receipt-contract.md:472` and 550, says so).

Projects:
- One invitation can be consumed by two users: the check of its state
  (`routes/invites.ts:416`) is not repeated by the update (448), whose comment
  (434-437) names replay.
- The solo flip (`routes/invites.ts:485`) changes the governance that a signed
  context contains (`services/grounding-context.ts:264`) without ending active
  attempts, as PATCH does (`routes/projects.ts:564`).
- Removing a member clears both claims of a selected task, other people's too
  (`routes/invites.ts:276-288`), and keeps a review claim on a task that is out of
  review; a claim request admitted before the removal lands after it.
- The legacy import counts errors by the position after copies were removed
  (`routes/tasks.ts:1591`, 1621; the comment at 1533-1537 says the original);
  `routes/grounding-creation.ts:114` keeps the original. A retried import
  repeats items that have no reference, and reports a copy of a failed item as
  skipped.
- Caps on attachments and artifacts are best effort and say so
  (`routes/tasks.ts:6549`, 6906); `CapsHold` is the bound: one row for each
  concurrent request but one (the caps are constants there; lowering the cap of a
  project removes no rows). An upload that is recorded while its task is
  deleted, a crash, a failed write or removal on the disk, or a delete whose
  answer is lost leaves a file without a row (the upload removes its file when the
  insert fails, `routes/tasks.ts:6617`, and ignores a failure of that); an insert
  whose answer is lost leaves a row without its file.
- A start or a claim that has read the workflow before an edit puts a task, an
  enrolled one too, into a state the new workflow may lack
  (`services/workflow-stranding.ts:31-40` says so of all writers of a status).
- Two default workflows, which older data may have (`CHANGELOG.md:154`), make an
  update that promotes a row select by the oldest default only.

## What is proved

Every proof is for all values of the constants that the named assumptions
admit; the bounds of the runs (`MaxVersion`, `MaxDeaths`, `MaxWrites`, `MaxRows`,
the caps, the sets) are arbitrary in them.

| theorem | module | statement |
| --- | --- | --- |
| `TypeCorrect` | `TaskSteps` | `Spec => []TypeOK` |
| `RolesDistinct` | `TaskSteps` | `Spec => []DistinctHolders` |
| `VersionsNameStatus` | `TaskSteps` | `Spec => []VersionIdentifiesStatus` |
| `DecisionsHold` | `TaskSteps` | `Spec => []Decisions` |
| `HandlersImplementBoard` | `TaskPromises` | `Spec => HandlersAtomic`: the handlers implement `TaskBoard` |
| `StepsAreAtomic` | `TaskPromises` | `Spec => StepsAtomic` |
| `OffBoardFree` | `TaskPromises` | `Spec => []OffBoardUnclaimed` |
| `TerminalStays` | `TaskPromises` | `StartsWork` gives `Spec => TerminalIsFinal` |
| `TerminalFree` | `TaskPromises` | `StartsWork` and `LocksEnd` give `Spec => []TerminalUnclaimed` |
| `SnapshotsReserved` | `TaskPromises` | `Spec => []ReservedSnapshotHolds` |
| `GatesStand` | `TaskPromises` | `Spec => MergeGateStands` |
| `ApprovalsDistinct` | `TaskPromises` | `Spec => ApprovedByDistinct` |
| `ClaimsKept` | `TaskPromises` | `Spec => ClaimKept` |
| `ReassignSingle` | `TaskPromises` | `Spec => ReassignKeepsSingleClaim` |
| `ResultsKept` | `TaskPromises` | `Spec => ResultKept` |
| `StartsAreUnblocked` | `TaskPromises` | `Spec /\ DoneLasts => StartedUnblocked` |
| `StartsUnblocked` | `TaskPromises` | `StartsWork` and `NothingReturns` give `Spec => StartedUnblocked` |
| `KeyedTypeCorrect` | `KeyedAdvanceProofs` | `Spec => []TypeOK`, of `KeyedAdvance` |
| `AnswersAreTrue` | `KeyedAdvanceProofs` | `Spec => []ToldTruth` |
| `MovesAreRemembered` | `KeyedAdvanceProofs` | `Spec => []MoveRemembered` |
| `HotDuplicates` | `KeyedAdvanceProofs` | `Spec => []HotDuplicatesMoveOnce` |
| `KeyMovesOnce` | `KeyedAdvanceProofs` | `Spec => []OncePerKey` |
| `MergeTypes` | `GroundedMergeProofs` | `Spec => []TypeOK`, of `GroundedMerge` |
| `ReservationsHeld` | `GroundedMergeProofs` | `Spec => []ReservationsOwned` |
| `ConsentHeld` | `GroundedMergeProofs` | `Spec => MergedWithConsent` |
| `PrTypes` | `PrCreateProofs` | `Spec => []TypeOK`, of `PrCreate` |
| `OneRequest` | `PrCreateProofs` | `Spec => []OnePullRequest` |
| `OneUnfinishedCreation` | `PrCreateProofs` | always: an operation is unfinished exactly if it has the fence |
| `CompletedIsOwn` | `PrCreateProofs` | always: without an edited description, a completed creation has the pull request of its own request |
| `DeliveryTypes` | `WebhooksProofs` | `Spec => []TypeOK`, of `GroundedWebhook` |
| `StoredIsDone` | `WebhooksProofs` | `Spec => []CommittedOnce` |
| `OnlyObserves` | `WebhooksProofs` | `Spec => WebhookObserves` |
| `ClaimedIsShownOnce` | `WebhooksProofs` | `WebhooksSpec => []OncePerTask` |
| `FactsAreTold` | `WebhooksProofs` | `WebhooksSpec => FactStands` |
| `SignalTypes` | `SignalsProofs` | `LifeSpec => []TypeOK`, of `Signals` |
| `ReviewersAreAsked` | `SignalsProofs` | `LifeSpec => []ReviewersAsked` |
| `LateAsksNotHanded` | `SignalsProofs` | `LifeSpec => []LateAskNotHanded` |
| `OneGovernance` | `ProjectProofs` | `Spec => []FlagsAgree`, of `Shares` |
| `FlipsAreMissedByOverlap` | `ProjectProofs` | `Spec => []FlipMissedByOverlap` |
| `LeaversAreReleased` | `ProjectProofs` | `NoUser \notin Users` gives `Spec => []LeaversHoldNothing` |
| `CyclesNeedARace` | `ProjectProofs` | `Graph!Spec => []CyclesAreRaced` |
| `FilesHaveRows` | `ProjectProofs` | `Files!Spec => []FilesMatchRows` |
| `CapsArePassedByOneEach` | `ProjectProofs` | `Files!Spec => []CapsHold` |
| `AttemptsBind` | `ProjectProofs` | `Workflows!Spec => []AttemptBindsCurrent` |
| `NobodyIsStranded` | `ProjectProofs` | `Workflows!Spec => EditStrandsNobody` |
| `StraysAreLate` | `ProjectProofs` | `Workflows!Spec => OnlyLateWritesStray` |
| `ImportsComplete` | `ProjectProofs` | `Intake!Spec => []ImportComplete` |

### The task lifecycle

For every set of tasks, actors and requests, every governance mode and every
workflow that `WellFormed` admits (what `workflowDefinitionSchema` accepts), under
`ActorsAssumption`, `RequestsAssumption` and `ProjectAssumption`. There are some
fifty actions and the three proofs need the same few facts of each, so the case
analysis is made once. `TaskSteps` defines the *shape* of a step: every row keeps
its type, its version does not go down, its status moves only with its version,
roles that were distinct stay distinct; every request is unchanged, idle, or a
well-typed one whose snapshot has the version and status of the row before the
step. One lemma per action shows the shape, using the lookup lemmas at the head
of the module (a lookup returns a state of the definition or `NoTarget`), and
`NextShape` collects them. `TypeOK` is then inductive by itself; `DistinctHolders`
because both claim writers ask the gate of the row they write;
`VersionIdentifiesStatus` together with `TypeOK`, because a snapshot is taken from
the row and a version that comes back would have to go down.

### Decisions, and the board they implement

What makes a stale decision harmless is that the write compares the snapshot the
decision was taken on. `Decisions` (in `TaskSteps`) says of every running request, operation
by operation and without mentioning the row, what its handler found out about
its *snapshot*: an edge leads to the target, the approver is distinct from the
snapshot's claimant, the claim to drop is the actor's. Since it does not mention
the row, steps of others cannot disturb it; `DecisionsHold` needs one lemma for
each kind of step of the request itself. A recording request knows in
addition that the pull request is no longer open.

`HandlersImplementBoard` is the refinement. `OnBoard` forgets versions, leases and
results. Each write of `TaskLifecycle` compares the snapshot with the row, so the
decision, true of the snapshot, is true of the row at that moment, which is the guard of
the operation of `TaskBoard` the step is mapped to; lost writes, reads, GitHub
calls that merge nothing, lapses and crashes are stutters. There is one lemma
per action and one per way in which a post-merge write lands. The theorem covers
all operations, both kinds of overrides and any number of tasks, where the runs
have one or two.

`OffBoardFree`, `TerminalStays` and `TerminalFree` are then proved of the board's
columns: `Change` is what an operation may do to a task, and whatever holds through
`Change` holds through every step. Two of them need an assumption, and TLC shows each one
to be needed:

- `StartsWork`: the first edge out of the initial state does not lead to a
  terminal one. `workflowDefinitionSchema` (`routes/workflows.ts:161`) accepts such
  a workflow, and then a claim finishes the task it takes and a release reopens it.
- `LocksEnd`: no `changes_requested` arrives in an autonomous project. That webhook
  leaves the review lock on a task that goes back to work, and an auto-merging
  finish from work, which only such a project allows to end the task, drops the work claim
  alone (see the observations).

### Reservations of the lifecycle

`ReservedSnapshotHolds` is not inductive. `Reserved` adds that a live lease belongs to
a running request that merges this very task and is past its reservation
(`OwnersRun`), and says more of a row that is no longer the snapshot: it has a later version,
and its claims are the snapshot's, or a webhook finished it and dropped them (`MovedOn`). Every
writer but the webhook asks for the lease in the condition of its write, which is
the argument for all of them at once; the lemmas about the steps of the merge
follow the handler's own. `MergeGateStands` follows: the gates were asked of the
snapshot, and in each of the two cases the row has the same claims or none.

`ApprovedByDistinct` and `ClaimKept` come from one lemma (`EffectStep`): a write ends its
request, changes one row, and what it does to claims and status is bound by
what the request decided. `ReassignKeepsSingleClaim` is about the one claim check that is
made inside the transaction; `ResultKept` about the repeated write after a merge.

### Starts and blockers

The handlers that take a work claim look at the blockers before the row lock and the
write does not ask again, so `StartedUnblocked` cannot hold of every behaviour.
`StartsAreUnblocked` says exactly what it rests on: a blocker that is finished or
abandoned stays so (`DoneLasts`, an action property). The invariant is
`BlockersDone`, that what a running claim saw is still so; `NoNewClaims`, one
lemma per kind of step, says that no step but the two reads starts such a request,
and `EffectStep` that only such a request gives a free task a claimant.
`StartsUnblocked` then derives `DoneLasts` from conditions on an instance, `NothingReturns`:
no edge leads out of the terminal states, nobody PATCHes a status, and a merged
pull request does not bring an abandoned task back to review. The last part of the
proof is `TerminalStays`, `OffBoardFree` and what `EffectStep` says of an abandoned
row. The default workflow and the operations of `two_tasks` satisfy the conditions.
TLC shows the last two to be needed: with a PATCH, or with the merge webhook
outside of autonomous projects, added to `two_tasks`, `StartedUnblocked` is
violated within eight steps, by a blocker that comes back between a read and its write.

### Keyed advances

The assumptions are `NullsAssumption` (the null values are no keys, callers or
answers), `DefAssumption` and `BoundAssumption`. `ToldTruth` is strengthened to
`Truth`: not only what was told but what is stored, and what an attempt is about
to store, stands for a move; moves are never forgotten (`MadeGrows`), so only
the three steps that tell or store need an argument. `MoveRemembered` is
inductive as it stands. `HotDuplicatesMoveOnce` needs `Behind`: a move was made
at the version it was read at, and the row has left that version, which never
comes back (`VersionGrows`). `OncePerKey` needs `Single`: under a key without
overlap there is at most one attempt, and it writes only if the key has no move
yet; that a fresh attempt starts so is `MoveRemembered`.

### Merges of enrolled tasks

Under `EnrollmentAssumption`, `NullsAssumption` and `BoundAssumption` (enrolled tasks are
tasks, administrators are actors, the null values are no pull requests or operations). `ReservationsOwned`
says who owns the fence and that exactly the members are reserved. That alone does not carry
consent from the reservation to the call, which GitHub may receive much later:
`Pledges` says that as long as a merge is under way every enrolled task linked to
the pull request is a member, stands as the decision saw it, and its evidence, unless
exempt, is an active receipt of the same actor whose digest is the task's
context *at the group's head* (`Signed`). Nothing else may write such a row or
retire such an attempt, because each of these actions asks for the reservation. A
push may move the head of the pull request; the call names the head it was
reserved for, so then it merges nothing. `Calls` covers calls that arrive
when their operation has ended already: those can only find the pull request merged.

### Creation of pull requests

Under `NullsAssumption` and `BoundAssumption`. `PostedOnce`: before the
dispatch there is neither a request nor a pull request of the operation, and later
never both and never two; the state leaves `reserved` in the transaction that
commits the right to the POST and never returns. `FenceIsUnfinished` and
`CompletedSeen` are what the recovery rests on, and `OwnPullRequest` is what the
marker is for; the last holds while no description is edited: the service
cannot tell an edited one from its own.

### Deliveries

With Grounding, `Stored` ties the effects of a delivery, its stored result, the
pushed signals and the answers together: nothing has happened while nothing is stored,
including for requests that have collected signals in a transaction that may still
roll back; `Describes` says that an active attempt binds the row as it is, which
every effect of a delivery on a row has to keep. Without Grounding, `OneRun`
says that a delivery in work is claimed (or too old to be sent again) and
has one run; `Sound` says of what that run knows that every row it has read is the row of
its version, and that its tries are covered by writes of others: after `n` lost
tries the version it last saw is `n` above the first. Both theorems about the
legacy receiver are about `WebhooksSpec`, in which one of the two moves.

### Signals

Under `BoundAssumption`, for any agents, people, requests and pickups.
`ReviewersAsked` is carried by `Reached`: the reviewers of the last move to review
have their row or are on the list of an emission. A sweep only marks rows, an
insert turns an entry of a list into a row (`RowsKept`), and whatever ends a list
early is recorded in `broken`; so nobody else is lost (`StillAsked`). `LateAskNotHanded` needs `LateIsFinished`
(a row that came late found the task finished, and a finished task of these
handlers stays so) and `FoundInTime`: what a pickup holds was not late when it was
found. Fourteen handlers write; `WriteKept` is the argument for all, and each
has to show only that its row and its emissions are fit for it (`Fits`).

### Dependencies

No assumption on the constants is needed. The walk of a check visits tasks in any order; the
invariant (`IInv`) says of every request that has not been overtaken that what it
has visited or queued contains the task it asks about, that whoever waits for a
visited task is visited or queued, and that no visited task is the new blocker
(`WalkExplores`). When the queue is empty the visited set is closed. A cycle is a set of
tasks each of which waits for another one of the set, so no path has to be built
and nothing is proved by induction: if the new edge closed a cycle, cutting the
cycle by the visited set (`ClosedCut`) would leave one that was there before.
Removing edges or tasks makes no cycle (`FewerEdges`), a created task is waited
for by nobody (`NewTask`), and a write overtakes every other check
(`WriteOvertakes`).

### Sharing

`FlagsAgree` is inductive with `TypeOK`: the four writers of the governance set
mode and flags together. `FlipMissedByOverlap` follows from `FlipToCome`: a shared
project that is solo, by nobody's choice and with no flip missed, has exactly one
member, whose acceptance has still to judge; the count it will read is then 1
(`FS_Singleton`), and `FlagsAgree` makes the older flag it reads stand for the
mode. `LeaversHoldNothing` follows from `GoneHoldNothing`: who is gone holds
neither claim, live or not, and a finished task holds none that a return to work
could revive.

### Attachments and artifacts

Under `FilesAssumption` (the caps and `MaxSize` are numbers, ids and requests are
finite, the null value is no row). `FilesMatchRows` is a statement about rows and
files, and what makes it inductive is what the running requests know: a file
whose row is still to come is in the hands of its upload alone (`OwnFile`), no
row names a file that a request is about to remove (`Doomed`), and as long as nothing
was lost the one who deletes the task has all its files on the list (`NoneLost`).
`Doomed` ends with "row" in `disturbed`, an insert that was done and looks failed,
whose upload then removes the file of a row; `NoneLost` ends with "file", a death, a
failure of the disk, a lost answer to a delete, or a row that comes after the list of
the files. The property names both, and there are no other exceptions.

`CapsHold` counts what waits on top of what there is: rows, plus the requests
that have found room and not taken it, are at most the cap plus one for each
request but one (`RoomTaken`). The request that asks last is not among those
that wait, so at most all the others are; its own admission adds one to a sum
that was at most the cap less one, plus the others. Bytes are counted likewise, one by one
(`BytesTaken`: the pairs of a row and a byte of it, and those of the requests whose row was found to fit),
so that no sum over a set has to be unfolded, which would be an induction. A link, which is
weighed by nobody, has no bytes (`LinksEmpty`).

### Workflows

Under `WorkflowsAssumption`: what people save and the built-in definition are what
`workflowDefinitionSchema` accepts; templates are among them; an older definition
names its initial state among its states, which every shape that was ever accepted did
(`CHANGELOG.md:1180` for the fixed set of four, `services/default-workflow.ts:159`
for the backlog shape). Initial states admit any rows, malformed ones and several defaults too.

All five edits are one transaction (`mutateGroundingContext`) around different
selections, groups and rows, so what an edit must get right is said once: `Sound` asks of
it that the tasks of every pin whose workflow it changes are selected (`Bound`),
and that every pin whose followed definition changes has a group with the definitions before and after
(`Judged`). One lemma per route shows that its edit is `SoundEdit`, and one lemma that a sound edit
keeps the invariant and strands nobody. `AttemptsStand` is `AttemptBindsCurrent` and one
thing more, without which it is not inductive: as long as an attempt stands on the
default row there is no second default row. Grounding asks this when it reads a
workflow (`Unambiguous`), and an edit never makes a second one out of one; with two, an
update that promotes a row selects by the oldest only (see the observations).

`OnlyLateWritesStray` needs `WritersOnBoard`: a request writes a state of the
definition it has read, so if the task strays, the definition has changed since. For what is
decided under the lock (`WrittenUnderLock`) there is no such gap: the targets are
states of the definition followed at that moment.

### Imports

Under `IntakeAssumption` (batches are sequences of references, and the absence of one is none of
them). `Accounts`: created, skipped, failed and still to do add up to the batch, for every request that
has begun; the sum is of numbers and cardinalities only, since what is to do is a set.
`Fulfilled`: each item that was kept and dealt with has its task, or its reference was
taken, or deleted since. `OneEach` holds because the test of `Taken` and the insert are one step, which is the
unique index. That the items dropped as copies are accounted for too needs that the first item
with a reference is kept (`KeptCovers`); the first one is found by well-founded choice.

### Only model-checked

- Liveness: `ReservationEnds`, `MergeFollowed`, `CreationEnds`. Liveness under
  fairness and `ENABLED` are outside the prover's reach.
- The two violated properties, which are refuted.

No module declares a recursive operator: the lookups choose the least index of a
set of edges, sums of bytes and the accounts of an import are cardinalities.

## Not modelled, and why

- **submit-pr, respec, PATCH of the pull request's number**: a task has one pull
  request in `TaskLifecycle`; giving it several multiplies the merge instances.
  Links do change in `GroundedMerge` and `PrCreate`.
- **A change of the governance mode between a gate and its write**: the mode is
  a constant of `TaskLifecycle`; `Shares` has the writers of the mode.
- **Notification webhook**: two sends at most, a pause and a timeout, the result
  only audited; no state depends on it.
- **Confidence, transition rules, preconditions, roles, scopes, rate limits**:
  they only refuse.
- **Sessions, passwords, single sign-on, tokens**: the models take an actor who is
  signed in. **Teams' synchronization with GitHub** (`routes/teams.ts:228-380`),
  whose runs may overlap, is left out: it reads a list outside and upserts.
- **Boards, project columns, audit, enrollment and its telemetry, exports, search**:
  create, read, update and delete of rows on their own, or reads.
- **Frontend, command line, MCP server and bridge, `routes/docs.ts`**: clients or
  texts. They are the larger part of the lines of the repository, which is why the
  map covers a seventh of them.

## Plan

1. A task with several pull requests over time, for submit-pr and PATCH under a
   merge; the governance mode as a variable of `TaskLifecycle`.
2. Refinements of the recovery in `GroundedMerge` and `PrCreate` by abstract specifications
   (a merge, a creation, in one step), as for the board.
