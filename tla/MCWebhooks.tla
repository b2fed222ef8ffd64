------------------------------ MODULE MCWebhooks ------------------------------
(* Instances of Webhooks for TLC.                                          *)
EXTENDS Webhooks, TLC

CONSTANTS d1, d2, d3      \* deliveries

MCKind == [d \in Deliveries |-> CASE d = d1 -> "merged"
                                  [] d = d2 -> "changes"
                                  [] OTHER  -> "issueClosed"]

MCEvent == [d \in Deliveries |-> CASE d = d1 -> "issueOpened"
                                   [] d = d2 -> "changes"
                                   [] OTHER  -> "merged"]

Symmetry == Permutations(Requests)
=============================================================================
