--------------------------- MODULE DeliveryPolicy ---------------------------
(***************************************************************************)
(* The delivery-status vocabulary and transition policy of                 *)
(* src/backend/src/webhooks/webhooks.types.ts.                             *)
(***************************************************************************)
EXTENDS Integers

DeliveryStatus == {"PENDING", "SENT", "DELIVERED", "READ", "FAILED"}

\* FAILED has no rank: it is terminal rather than further along.
Rank == [PENDING |-> 0, SENT |-> 1, DELIVERED |-> 2, READ |-> 3]

\* The statuses of Meta the backend models.
WebhookStatusMap ==
  [sent |-> "SENT", delivered |-> "DELIVERED", read |-> "READ",
   failed |-> "FAILED", deleted |-> "FAILED"]

\* "other" stands for every status the map does not name.
RawStatus == DOMAIN WebhookStatusMap \cup {"other"}

\* Mutant: the rule that FAILED is terminal is missing.
AppliesAfterFailed(from, to) ==
  /\ to \in DeliveryStatus \ {"PENDING"}
  /\ \/ from \notin DOMAIN Rank
     \/ to = "FAILED"
     \/ Rank[to] > Rank[from]

\* Mutant: anything but a repeat is applied.
AppliesUnlessRepeat(from, to) ==
  /\ to \in DeliveryStatus \ {"PENDING"}
  /\ from # "FAILED"
  /\ from # to

\* resolveTransition decides to apply; otherwise the event is skipped, or
\* unsupported, and changes nothing either way.  A stored status without a
\* rank is legacy data and adopts whatever is reported.
Applies(from, to) ==
  /\ to \in DeliveryStatus \ {"PENDING"}
  /\ from # "FAILED"
  /\ \/ from \notin DOMAIN Rank
     \/ to = "FAILED"
     \/ to # "FAILED" /\ Rank[to] > Rank[from]
=============================================================================
