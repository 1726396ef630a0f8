---------------------------- MODULE CampaignButtons ----------------------------
(***************************************************************************)
(* The buttons the console shows for a campaign                            *)
(* (src/frontend/src/lib/campaign-utils.ts), against the engine.           *)
(***************************************************************************)
EXTENDS CampaignEngine

GetAvailableCampaignActions(status, failedCount) ==
  (CASE status \in {"DRAFT", "QUEUED"} -> {"start"}
     [] status = "RUNNING" -> {"pause", "stop"}
     [] status = "PAUSED" -> {"resume", "stop"}
     [] OTHER -> {})
  \cup (IF failedCount > 0 /\ status # "RUNNING" THEN {"retry"} ELSE {})

CanPerformCampaignAction(status, action, failedCount) ==
  action \in GetAvailableCampaignActions(status, failedCount)

\* An action that the buttons offer for the state the server reads is not refused,
\* but for two cases: a start, while an earlier runner of the campaign is still alive,
\* and the retry of a paused campaign, which retryFailed refuses only after it has put
\* the failed messages back in the queue.
OfferedActionIsTaken ==
  [][\A h \in Requests :
       /\ request[h].pc \in {"read", "claim", "requeue"} /\ request'[h].pc = "idle"
       /\ up' /\ budget'.faults = budget.faults
       => \/ /\ request[h].pc = "read"
             /\ ~CanPerformCampaignAction(campaign.status, request[h].op, Cardinality(RowsIn("FAILED")))
          \/ /\ request[h].pc = "claim"
             /\ \E r \in Engines : Live(r) /\ runner[r].engine = registered
          \/ request[h].pc = "requeue" /\ request[h].seen = "PAUSED"]_vars
=============================================================================
