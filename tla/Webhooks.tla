------------------------------- MODULE Webhooks -------------------------------
(***************************************************************************)
(* The GitHub webhook as backend/src/app.ts mounts it: with Grounding      *)
(* configured the service of GroundedWebhook answers, otherwise the router *)
(* of LegacyWebhook.  The choice is made when the process starts and       *)
(* stays, so of the two handlers one moves and the other never does.       *)
(***************************************************************************)
EXTENDS GroundedWebhook

CONSTANTS
    Kind,            \* what each delivery reports, as LegacyWebhook names it
    MaxOtherWrites   \* bound: status writes of each task by others, legacy

VARIABLES
    mounted,                             \* "legacy" or "grounding"
    lrow, claimed, run, lsent, old, said \* the state of LegacyWebhook

Legacy == INSTANCE LegacyWebhook WITH
    row <- lrow, sent <- lsent, Runs <- Requests, MaxWrites <- MaxOtherWrites

ASSUME KindAssumption == Kind \in [Deliveries -> Legacy!Kinds]
ASSUME OtherWritesAssumption == MaxOtherWrites \in Nat

legacyVars == <<lrow, claimed, run, lsent, old, said>>
allVars == <<mounted, vars, legacyVars>>

WebhooksInit ==
    /\ mounted \in {"legacy", "grounding"}
    /\ Init /\ Legacy!Init
    \* the tables of the other handler are never used
    /\ mounted = "legacy" => \A t \in Tasks : enrolled[t] = "no" /\ row[t].linked
    /\ mounted = "grounding" => \A t \in Tasks : lrow[t].status = "review"

WebhooksNext ==
    /\ UNCHANGED mounted
    /\ \/ mounted = "grounding" /\ Next /\ UNCHANGED legacyVars
       \/ mounted = "legacy" /\ Legacy!Next /\ UNCHANGED vars

WebhooksSpec == WebhooksInit /\ [][WebhooksNext]_allVars

\* What LegacyWebhook promises of the handler mounted without Grounding.
OncePerTask == Legacy!OncePerTask
FactStands == Legacy!FactStands
=============================================================================
