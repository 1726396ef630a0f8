----------------------------- MODULE MessageLedger -----------------------------
(***************************************************************************)
(* The Message table as it is read while campaigns and webhooks change it: *)
(* the dashboard's numbers (src/backend/src/analytics/analytics.service.ts)*)
(* and the history page (src/frontend/src/app/messages/page.tsx over list  *)
(* of messages.service.ts).                                                *)
(*                                                                         *)
(* A row is its status; rows are kept in the order they were inserted and  *)
(* never deleted.                                                          *)
(***************************************************************************)
EXTENDS DeliveryPolicy, FiniteSets, Sequences

CONSTANTS
  HistoryPage,      \* PAGE_SIZE_DEFAULT, the page size of a list call without one
  MaxLedger,        \* bound: rows
  MaxTurns,         \* bound: changes of the table
  MaxListFailures,  \* bound: list calls that fail
  Unread            \* a call that is not under way

ASSUME LedgerAssumption ==
  /\ HistoryPage \in Nat \ {0}
  /\ MaxLedger \in Nat /\ MaxTurns \in Nat \ {0} /\ MaxListFailures \in Nat

VARIABLES
  ledger,    \* the rows' statuses, oldest first
  turn,      \* changes so far
  stats,     \* the answer of the last dashboard call, and the turn it was read in
  logPage,   \* the history page: rows and their turn, loading, refreshing, error
  reads,     \* its list calls: loadInitial, and fetchMessages of Refresh
  failures   \* list calls that failed so far

ledgerVars == <<ledger, turn, stats, logPage, reads, failures>>
readerVars == <<stats, logPage, reads, failures>>

\* How many rows have one of the statuses.
Tally(rows, statuses) == Cardinality({i \in DOMAIN rows : rows[i] \in statuses})

\* A share in tenths of a percent, rounded half up.
Share(part, whole) == IF whole = 0 THEN 0 ELSE (2000 * part + whole) \div (2 * whole)

-----------------------------------------------------------------------------
(* Campaigns, direct sends and webhooks.                                   *)

Turn(rows) == turn < MaxTurns /\ turn' = turn + 1 /\ ledger' = rows

\* A campaign queues a message, or a direct send records how it ended.
InsertMessage ==
  /\ Len(ledger) < MaxLedger
  /\ \E status \in {"PENDING", "SENT", "FAILED"} : Turn(Append(ledger, status))
  /\ UNCHANGED readerVars

\* The engine settles a message or queues a failed one again, or a status event
\* is applied.
MessageMoves ==
  /\ \E i \in DOMAIN ledger, status \in DeliveryStatus :
       /\ \/ ledger[i] = "PENDING" /\ status \in {"SENT", "FAILED"}
          \/ ledger[i] = "FAILED" /\ status = "PENDING"
          \/ Applies(ledger[i], status)
       /\ Turn([ledger EXCEPT ![i] = status])
  /\ UNCHANGED readerVars

-----------------------------------------------------------------------------
(* The dashboard's numbers.                                                *)

\* dashboard: the part that is read from the messages, one grouped count.
DashboardOf(rows) ==
  LET n(statuses) == Tally(rows, statuses)
      accepted == n({"SENT", "DELIVERED", "READ"})
  IN [total |-> accepted + n({"FAILED"}) + n({"PENDING"}), sent |-> accepted,
      failed |-> n({"FAILED"}), pending |-> n({"PENDING"}),
      delivered |-> n({"DELIVERED"}), read |-> n({"READ"}),
      successRate |-> Share(accepted, accepted + n({"FAILED"})),
      deliveryRate |-> Share(n({"DELIVERED", "READ"}), accepted),
      readRate |-> Share(n({"READ"}), accepted)]

Dashboard ==
  /\ stats.turn # turn
  /\ stats' = [turn |-> turn, of |-> DashboardOf(ledger)]
  /\ UNCHANGED <<ledger, turn, logPage, reads, failures>>

-----------------------------------------------------------------------------
(* The history page.                                                       *)

\* list without parameters: the newest rows, newest first.
FirstPage(rows) ==
  LET n == IF Len(rows) < HistoryPage THEN Len(rows) ELSE HistoryPage
  IN [i \in 1..n |-> rows[Len(rows) + 1 - i]]

\* The topbar's button waits for an earlier refresh, not for the initial load.
RefreshMessages ==
  /\ ~logPage.refreshing
  /\ logPage' = [logPage EXCEPT !.refreshing = TRUE]
  /\ reads' = [reads EXCEPT !["refresh"] = [at |-> "sent", turn |-> 0, rows |-> <<>>]]
  /\ UNCHANGED <<ledger, turn, stats, failures>>

ServeMessages(call) ==
  /\ reads[call] # Unread /\ reads[call].at = "sent"
  /\ reads' = [reads EXCEPT ![call] = [at |-> "answered", turn |-> turn, rows |-> FirstPage(ledger)]]
  /\ UNCHANGED <<ledger, turn, stats, logPage, failures>>

Finally(call, page) ==
  /\ logPage' = IF call = "initial" THEN [page EXCEPT !.loading = FALSE]
                ELSE [page EXCEPT !.loading = FALSE, !.refreshing = FALSE]
  /\ reads' = [reads EXCEPT ![call] = Unread]

\* Only a refresh takes the error of an earlier call away.
MessagesListed(call) ==
  /\ reads[call] # Unread /\ reads[call].at = "answered"
  /\ Finally(call, [logPage EXCEPT !.rows = reads[call].rows, !.turn = reads[call].turn,
                                   !.error = @ /\ call = "initial"])
  /\ UNCHANGED <<ledger, turn, stats, failures>>

MessagesFail(call) ==
  /\ reads[call] # Unread
  /\ failures < MaxListFailures /\ failures' = failures + 1
  /\ Finally(call, [logPage EXCEPT !.error = TRUE])
  /\ UNCHANGED <<ledger, turn, stats>>

\* Mutant: a message that was read does not count as delivered.
StatStripUnread ==
  LET n(status) == Tally(logPage.rows, {status})
  IN [total |-> Len(logPage.rows), accepted |-> n("SENT") + n("DELIVERED") + n("READ"),
      delivered |-> n("DELIVERED"), read |-> n("READ"),
      pending |-> n("PENDING"), failed |-> n("FAILED")]

\* The numbers above the table, of the rows of the page.
StatStrip ==
  LET n(status) == Tally(logPage.rows, {status})
  IN [total |-> Len(logPage.rows), accepted |-> n("SENT") + n("DELIVERED") + n("READ"),
      delivered |-> n("DELIVERED") + n("READ"), read |-> n("READ"),
      pending |-> n("PENDING"), failed |-> n("FAILED")]

LedgerStart(ledgers) ==
  /\ ledger \in ledgers /\ turn = 1
  /\ stats = [turn |-> 1, of |-> DashboardOf(ledger)]
  /\ logPage = [rows |-> <<>>, turn |-> 0, loading |-> TRUE, refreshing |-> FALSE, error |-> FALSE]
  /\ reads = [initial |-> [at |-> "sent", turn |-> 0, rows |-> <<>>], refresh |-> Unread]
  /\ failures = 0

LedgerInit == LedgerStart(UNION {[1..n -> DeliveryStatus] : n \in 0..MaxLedger})

LedgerNext ==
  \/ InsertMessage \/ MessageMoves \/ Dashboard \/ RefreshMessages
  \/ \E call \in {"initial", "refresh"} :
       ServeMessages(call) \/ MessagesListed(call) \/ MessagesFail(call)

LedgerSpec == LedgerInit /\ [][LedgerNext]_ledgerVars

-----------------------------------------------------------------------------
(* Properties.                                                             *)

ListRead == [at : {"sent", "answered"}, turn : 0..MaxTurns,
             rows : UNION {[1..n -> DeliveryStatus] : n \in 0..HistoryPage}]

LedgerTypeOK ==
  /\ ledger \in Seq(DeliveryStatus) /\ Len(ledger) <= MaxLedger /\ turn \in 1..MaxTurns
  /\ stats.turn \in 1..MaxTurns
  /\ stats.of \in [total : 0..MaxLedger, sent : 0..MaxLedger, failed : 0..MaxLedger,
                   pending : 0..MaxLedger, delivered : 0..MaxLedger, read : 0..MaxLedger,
                   successRate : 0..1000, deliveryRate : 0..1000, readRate : 0..1000]
  /\ logPage.rows \in Seq(DeliveryStatus) /\ Len(logPage.rows) <= HistoryPage
  /\ logPage.turn \in 0..MaxTurns
  /\ {logPage.loading, logPage.refreshing, logPage.error} \subseteq BOOLEAN
  /\ \A call \in DOMAIN reads : reads[call] \in ListRead \cup {Unread}
  /\ failures \in 0..MaxListFailures

\* The history page and the dashboard agree on what is sent, delivered, read,
\* pending and failed whenever they read the same table and it fits on the one
\* page the history page asks for, and the rates say no more than the counts.
StripAgreesWithDashboard ==
  logPage.turn = stats.turn /\ stats.of.total <= HistoryPage =>
    /\ StatStrip = [total |-> stats.of.total, accepted |-> stats.of.sent,
                    delivered |-> stats.of.delivered + stats.of.read, read |-> stats.of.read,
                    pending |-> stats.of.pending, failed |-> stats.of.failed]
    /\ stats.of.readRate <= stats.of.deliveryRate
=============================================================================
