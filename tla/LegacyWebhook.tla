---------------------------- MODULE LegacyWebhook ----------------------------
(***************************************************************************)
(* Deliveries of the GitHub webhook without Grounding                      *)
(* (backend/src/routes/webhooks.ts, services/github-webhook.ts,            *)
(* services/idempotency-sweep.ts).                                         *)
(*                                                                         *)
(* The route claims the delivery id, answers, and works on in the          *)
(* background: it looks the tasks up and takes them one after the other.   *)
(* A status write is a compare-and-swap on the row as it was looked up; a  *)
(* lost one is decided again on the fresh row.  Every statement is a step  *)
(* of its own and other writers of the tasks run in between.               *)
(***************************************************************************)
EXTENDS Integers, FiniteSets

CONSTANTS
    Tasks,       \* tasks bound to the pull request or the issue
    Deliveries,  \* delivery ids
    Kind,        \* what each delivery reports
    Runs,        \* deliveries processed at the same time
    Confirms,    \* the project wants a review after a merge (not AUTONOMOUS)
    NoDelivery,  \* a run without a delivery
    MaxSends,    \* bound: requests that GitHub sends
    MaxWrites    \* bound: status writes of each task by others

Kinds == {"merged", "closed", "changes", "review", "issueClosed", "issueOpened"}
Statuses == {"backlog", "open", "work", "review", "done"}

\* WEBHOOK_STATUS_WRITE_ATTEMPTS
Attempts == 3

\* No status to write.
None == "none"

VARIABLES
    row,      \* status and status version of each task
    claimed,  \* the rows of webhook_deliveries
    run,      \* per run: what it still has to do
    sent,     \* number of requests GitHub has sent
    old,      \* deliveries GitHub no longer sends again
    said      \* history: how often a delivery showed on a task (or project)

vars == <<row, claimed, run, sent, old, said>>

Row == [status : Statuses, ver : Nat]

Resting == [of |-> NoDelivery, pc |-> "idle", found |-> <<>>, task |-> NoDelivery,
            seen |-> [status |-> "open", ver |-> 0], first |-> 0, tries |-> 0]

Running == {r \in Runs : run[r].of # NoDelivery}

TypeOK ==
    /\ row \in [Tasks -> [status : Statuses, ver : 0 .. MaxWrites + Cardinality(Deliveries)]]
    /\ claimed \subseteq Deliveries
    /\ \A r \in Running :
          /\ run[r].of \in claimed \cup old
          /\ DOMAIN run[r].found \subseteq Tasks
          /\ run[r].tries < Attempts
          /\ run[r].pc \in {"find", "next", "write", "reread", "effect"}
          /\ run[r].pc \in {"write", "reread", "effect"} => run[r].task \in Tasks
    /\ \A r \in Runs \ Running : run[r] = Resting
    /\ sent \in 0 .. MaxSends
    /\ said \in [Deliveries \X Tasks -> 0 .. 2]

Init ==
    /\ row \in [Tasks -> [status : {"work", "review"}, ver : {0}]]
    /\ claimed = {} /\ old = {}
    /\ run = [r \in Runs |-> Resting]
    /\ sent = 0
    /\ said = [x \in Deliveries \X Tasks |-> 0]

-----------------------------------------------------------------------------
(* Decisions.                                                              *)

Closed == {"done", "backlog"}

\* The decide functions of the handlers.
Target(kind, s) ==
    CASE kind = "merged" /\ s \notin Closed /\ ~Confirms -> "done"
      [] kind = "merged" /\ s \notin Closed \cup {"review"} /\ Confirms -> "review"
      [] kind = "issueClosed" /\ s \notin Closed -> "done"
      [] kind = "changes" /\ s = "review" -> "work"
      [] OTHER -> None

\* openTaskStatusFilter; an opened issue makes a task in every linked project.
Concerned(d) ==
    IF Kind[d] = "issueOpened" THEN Tasks ELSE {t \in Tasks : row[t].status \notin Closed}

\* After the status: the comment and the audit row, which the issue handler
\* writes only for a task it moved.
Effect(q) ==
    IF Kind[q.of] = "issueClosed" THEN [q EXCEPT !.pc = "next"] ELSE [q EXCEPT !.pc = "effect"]

\* Mutant of Decided: the row of the lookup is not replaced by the fresh one.
DecidedOnce(q, seen) ==
    IF Target(Kind[q.of], q.seen.status) = None THEN Effect(q) ELSE [q EXCEPT !.pc = "write"]

\* The next round of writeWebhookStatus, on the row it has seen.
Decided(q, seen) ==
    IF Target(Kind[q.of], seen.status) = None
    THEN Effect([q EXCEPT !.seen = seen])
    ELSE [q EXCEPT !.seen = seen, !.pc = "write"]

-----------------------------------------------------------------------------
(* The route.                                                              *)

\* Mutant of Fresh: the duplicate is not looked for.
FreshAlways(d) == TRUE

\* claimWebhookDelivery: the insert succeeds.
Fresh(d) == d \notin claimed

\* A delivery arrives.  A duplicate is answered and nothing else; a fresh one is
\* claimed, answered and dispatched.
Receive(r, d) ==
    /\ sent < MaxSends /\ d \notin old
    /\ run[r] = Resting
    /\ sent' = sent + 1
    /\ IF Fresh(d)
       THEN /\ claimed' = claimed \cup {d}
            /\ run' = [run EXCEPT ![r] = [Resting EXCEPT !.of = d, !.pc = "find"]]
       ELSE UNCHANGED <<claimed, run>>
    /\ UNCHANGED <<row, old, said>>

At(r, pc) == run[r].of # NoDelivery /\ run[r].pc = pc

\* findTasksByPr, or the query of the issue handler.
Find(r) ==
    /\ At(r, "find")
    /\ run' = [run EXCEPT ![r].pc = "next",
                          ![r].found = [t \in Concerned(run[r].of) |-> row[t]]]
    /\ UNCHANGED <<row, claimed, sent, old, said>>

\* The loop takes the next of the tasks it found, as they were found.
Take(r) ==
    /\ At(r, "next")
    /\ \E t \in DOMAIN run[r].found :
          LET rest == [u \in DOMAIN run[r].found \ {t} |-> run[r].found[u]]
              q == [run[r] EXCEPT !.task = t, !.found = rest, !.tries = 0,
                                 !.first = run[r].found[t].ver]
          IN  run' = [run EXCEPT ![r] = Decided(q, run[r].found[t])]
    /\ UNCHANGED <<row, claimed, sent, old, said>>

\* taskStatusVersionWhere
Lands(q) == row[q.task] = q.seen

\* A write that lands ends the claims and the signals of a finished task too.
Write(r) ==
    /\ At(r, "write")
    /\ LET q == run[r] IN
       IF Lands(q)
       THEN /\ row' = [row EXCEPT ![q.task] =
                          [status |-> Target(Kind[q.of], q.seen.status), ver |-> @.ver + 1]]
            /\ run' = [run EXCEPT ![r].pc = "effect"]
       ELSE /\ run' = [run EXCEPT ![r].pc = "reread"]
            /\ UNCHANGED row
    /\ UNCHANGED <<claimed, sent, old, said>>

\* The row is read again; after the last attempt the write is given up.
Reread(r) ==
    /\ At(r, "reread")
    /\ LET q == run[r] IN
       run' = [run EXCEPT ![r] =
                  IF q.tries + 1 < Attempts
                  THEN Decided([q EXCEPT !.tries = @ + 1], row[q.task])
                  ELSE Effect([q EXCEPT !.seen = row[q.task]])]
    /\ UNCHANGED <<row, claimed, sent, old, said>>

\* The timeline comment and the audit row; or the new task of an opened issue.
Show(r) ==
    /\ At(r, "effect")
    /\ LET x == <<run[r].of, run[r].task>> IN
       /\ said[x] < 2
       /\ said' = [said EXCEPT ![x] = @ + 1]
    /\ run' = [run EXCEPT ![r].pc = "next"]
    /\ UNCHANGED <<row, claimed, sent, old>>

\* The loop is over, or a statement has thrown: the error is logged and the
\* delivery stays claimed.
End(r) ==
    /\ run[r].of # NoDelivery
    /\ run' = [run EXCEPT ![r] = Resting]
    /\ UNCHANGED <<row, claimed, sent, old, said>>

\* The process dies: nothing remembers what it had still to do.
Crash ==
    /\ Running # {}
    /\ run' = [r \in Runs |-> Resting]
    /\ UNCHANGED <<row, claimed, sent, old, said>>

-----------------------------------------------------------------------------
(* The world around.                                                       *)

\* Another handler moves the task.
OtherWrite(t) ==
    /\ row[t].ver < MaxWrites
    /\ \E s \in Statuses \ {row[t].status} :
          row' = [row EXCEPT ![t] = [status |-> s, ver |-> @.ver + 1]]
    /\ UNCHANGED <<claimed, run, sent, old, said>>

\* The days in which a delivery can be sent again have passed.
Age(d) ==
    /\ d \in claimed \ old
    /\ old' = old \cup {d}
    /\ UNCHANGED <<row, claimed, run, sent, said>>

\* sweepIdempotencyTables: the retention outlasts the days above.
Sweep ==
    /\ claimed \cap old # {}
    /\ claimed' = claimed \ old
    /\ UNCHANGED <<row, run, sent, old, said>>

Step(r) == Find(r) \/ Take(r) \/ Write(r) \/ Reread(r) \/ Show(r) \/ End(r)

Next ==
    \/ \E r \in Runs : Step(r) \/ \E d \in Deliveries : Receive(r, d)
    \/ Crash \/ Sweep
    \/ \E t \in Tasks : OtherWrite(t)
    \/ \E d \in Deliveries : Age(d)

Spec == Init /\ [][Next]_vars

-----------------------------------------------------------------------------

\* A delivery shows its effect at most once on every task, however often GitHub
\* sends it, whoever receives it at the same time and whenever the process dies;
\* and it never shows it without a claim that keeps the next copy out.
OncePerTask ==
    \A d \in Deliveries, t \in Tasks :
       /\ said[<<d, t>>] <= 1
       /\ said[<<d, t>>] = 1 => d \in claimed \cup old

\* The handler leaves a task only with the fact told: it moves it where the
\* fact puts a task of the status it has now, or the task it has just read needs
\* no move, or others wrote the status at least as often as the handler tried
\* since the task was looked up.  So one other writer never costs a merge its
\* effect, and no decision about an older status is written.
FactStands ==
    [][\A r \in Running :
          LET q == run[r]
              t == q.task
              to == Target(Kind[q.of], row[t].status)
          IN  q.pc \in {"write", "reread"} /\ run'[r].pc \in {"effect", "next"} =>
                 IF row' = row
                 THEN to = None \/ row[t].ver - q.first >= Attempts
                 ELSE row'[t] = [status |-> to, ver |-> row[t].ver + 1]]_vars

=============================================================================
