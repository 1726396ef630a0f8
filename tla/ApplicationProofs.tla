---------------------------- MODULE ApplicationProofs ----------------------------
(***************************************************************************)
(* The areas put together, for every value of the constants: each of them  *)
(* runs by its own specification, so that the theorems of                  *)
(* CustomerImportProofs, ServerProofs and ConsoleProofs hold of it, and    *)
(* its state keeps its types.                                              *)
(***************************************************************************)
EXTENDS Application, CustomerImportProofs, ServerProofs, ConsoleProofs

-----------------------------------------------------------------------------
(* Each area runs by its own specification.                                *)

\* The areas start in states of their own specifications.
LEMMA AreasStart ==
  AppInit => /\ Init /\ SendInit /\ DeskInit /\ SessionInit /\ BoardInit /\ AiInit /\ PageInit
             /\ CustomersInit /\ LedgerInit /\ SettingsInit /\ PreviewInit /\ MonitorInit
             /\ GatewayPageInit
  <1>. SUFFICES ASSUME AppInit
                PROVE  /\ Init /\ SendInit /\ DeskInit /\ SessionInit /\ BoardInit /\ AiInit /\ PageInit
                       /\ CustomersInit /\ LedgerInit /\ SettingsInit /\ PreviewInit /\ MonitorInit
                       /\ GatewayPageInit
    OBVIOUS
  <1>1. Init /\ BoardInit /\ AiInit /\ PageInit /\ PreviewInit /\ MonitorInit  BY DEF AppInit
  <1>2. SendInit
    <2>1. [live |-> TRUE, configured |-> TRUE] \in Config  BY DEF Config
    <2>2. Either("send", Config, [live |-> TRUE, configured |-> TRUE]) \subseteq Config
      BY <2>1 DEF Either
    <2>. QED  BY <2>2 DEF AppInit, SendInit, SendStart
  <1>3. GatewayPageInit
    <2>1. [live |-> TRUE, configured |-> TRUE] \in Config  BY DEF Config
    <2>2. Either("gateway", Config, [live |-> TRUE, configured |-> TRUE]) \subseteq Config
      BY <2>1 DEF Either
    <2>. QED  BY <2>2 DEF AppInit, GatewayPageInit, GatewayPageStart
  <1>4. DeskInit
    <2>1. [id \in TemplateIds |-> Absent] \in DeskTables  BY DEF DeskTables
    <2>2. OneTemplate \subseteq DeskTables  BY DEF OneTemplate
    <2>3. Either("desk", OneTemplate, [id \in TemplateIds |-> Absent]) \subseteq DeskTables
      BY <2>1, <2>2 DEF Either
    <2>. QED  BY <2>3 DEF AppInit, DeskInit, DeskStart
  <1>5. SessionInit
    <2>1. Either("session", {0, 1}, 0) \subseteq {0, 1}  BY DEF Either
    <2>. QED  BY <2>1 DEF AppInit, SessionInit, SessionStart
  <1>6. CustomersInit
    <2>1. [f \in Filters |-> MaxFound] \in [Filters -> 0..MaxFound]  BY CustomersAssumption
    <2>. QED  BY <2>1 DEF AppInit, CustomersInit, CustomersStart
  <1>7. LedgerInit
    <2>. DEFINE tables == UNION {[1..n -> DeliveryStatus] : n \in 0..MaxLedger}
    <2>1. <<>> \in [1..0 -> DeliveryStatus] /\ 0 \in 0..MaxLedger  BY LedgerAssumption
    <2>2. <<>> \in tables  BY <2>1
    <2>3. ASSUME Len(<<"SENT", "SENT">>) <= MaxLedger PROVE <<"SENT", "SENT">> \in tables
      <3>1. 2 \in 0..MaxLedger  BY <2>3, LedgerAssumption
      <3>2. <<"SENT", "SENT">> \in [1..2 -> DeliveryStatus]  BY DEF DeliveryStatus
      <3>. QED  BY <3>1, <3>2
    <2>. HIDE DEF tables
    <2>4. Either("ledger", TwoMessages, <<>>) \subseteq tables  BY <2>2, <2>3 DEF Either, TwoMessages
    <2>. QED  BY <2>4 DEF AppInit, LedgerInit, LedgerStart, tables
  <1>8. SettingsInit
    <2>1. [k \in Keys |-> Unset] \in Bodies  BY SettingsAssumption DEF Bodies
    <2>2. Either("settings", Bodies, [k \in Keys |-> Unset]) \subseteq Bodies
      BY <2>1 DEF Either
    <2>. QED  BY <2>2 DEF AppInit, SettingsInit, SettingsStart
  <1>. QED  BY <1>1, <1>2, <1>3, <1>4, <1>5, <1>6, <1>7, <1>8

\* And a step is a step of the area, while the others rest.
LEMMA AreasStep ==
  [AppNext]_appVars =>
    /\ [Next]_vars /\ [SendNext]_sendVars /\ [DeskNext]_deskVars /\ [SessionNext]_sessionVars
    /\ [BoardNext]_boardVars /\ [AiNext]_aiVars /\ [PageNext]_pageVars
    /\ [CustomersNext]_customersVars /\ [LedgerNext]_ledgerVars /\ [SettingsNext]_settingsVars
    /\ [PreviewNext]_previewVars /\ [MonitorNext]_monitorVars /\ [GatewayPageNext]_gatewayPageVars
    /\ area' = area
  BY DEF AppNext, Steps, appVars

\* Whatever is proved of an area's specification holds of the areas put together:
\* each of them starts and runs by its own specification, in any behaviour.
THEOREM AreasRunByTheirSpecs ==
  AppSpec => /\ Spec /\ SendSpec /\ DeskSpec /\ SessionSpec /\ BoardSpec /\ AiSpec /\ PageSpec
             /\ CustomersSpec /\ LedgerSpec /\ SettingsSpec /\ PreviewSpec /\ MonitorSpec
             /\ GatewayPageSpec
  BY AreasStart, AreasStep, PTL
  DEF AppSpec, Spec, SendSpec, DeskSpec, SessionSpec, BoardSpec, AiSpec, PageSpec, CustomersSpec,
      LedgerSpec, SettingsSpec, PreviewSpec, MonitorSpec, GatewayPageSpec

-----------------------------------------------------------------------------
(* Types, where the invariants of the areas leave a bound out.             *)

\* The presses of the dashboard's button stay within their bound.
LEMMA BoardTyped == BoardSpec => []BoardTypeOK
  <1>1. BoardInit => presses \in 0..MaxPresses  BY PressesAssumption DEF BoardInit
  <1>2. presses \in 0..MaxPresses /\ [BoardNext]_boardVars => (presses \in 0..MaxPresses)'
    BY PressesAssumption DEF BoardNext, BoardRefresh, ApplyLoad, Settle, boardVars
  <1>3. BoardInv /\ presses \in 0..MaxPresses => BoardTypeOK  BY DEF BoardInv, BoardShape, BoardTypeOK
  <1>. QED  BY <1>1, <1>2, <1>3, BoardInvInit, BoardInvStep, PTL DEF BoardSpec

\* So do the tests, refreshes and failures of the connection page; and a test that Meta
\* took was sent.
GatewayCounts ==
  /\ testUsed \in [tests : 0..MaxTests, refreshes : 0..MaxStatusRefreshes, lost : 0..MaxLostAnswers]
  /\ test.call.at # "none" => testUsed.tests \in 1..MaxTests
  /\ reached \subseteq 1..MaxTests /\ statusAsked \subseteq {"initial", "refresh"}

LEMMA GatewayCountsStep ==
  ASSUME GatewayInv, GatewayCounts, [GatewayPageNext]_gatewayPageVars
  PROVE  GatewayCounts'
  <1>. USE GatewayPageAssumption DEF GatewayCounts
  <1>0. test \in [call : TestCall \cup {NoTest}, result : TestResult \cup {Unheard}]
    BY DEF GatewayInv, GatewayShape
  <1>1. CASE RefreshStatus  BY <1>1 DEF RefreshStatus
  <1>2. CASE FillTestForm  BY <1>2 DEF FillTestForm
  <1>3. CASE HandleSendTestMessage
    <2>1. testUsed'.tests = testUsed.tests + 1 /\ testUsed'.tests \in 1..MaxTests
      BY <1>3 DEF HandleSendTestMessage
    <2>. QED  BY <1>3, <2>1 DEF HandleSendTestMessage
  <1>4. CASE TestStaysHere \/ TestAnswered
    <2>1. test'.call = NoTest /\ UNCHANGED <<testUsed, reached, statusAsked>>
      BY <1>4 DEF TestStaysHere, TestAnswered, TestShows
    <2>. QED  BY <2>1 DEF NoTest
  <1>5. CASE MetaTakesTest
    <2>1. /\ reached' \subseteq reached \cup {testUsed.tests} /\ UNCHANGED <<testUsed, statusAsked>>
          /\ test.call.at # "none"
      BY <1>5 DEF MetaTakesTest
    <2>. QED  BY <2>1
  <1>6. CASE TestLost
    <2>1. test'.call = NoTest /\ UNCHANGED <<reached, statusAsked>>  BY <1>6 DEF TestLost, TestShows
    <2>2. testUsed' \in [tests : 0..MaxTests, refreshes : 0..MaxStatusRefreshes, lost : 0..MaxLostAnswers]
      BY <1>6 DEF TestLost, CallLost
    <2>. QED  BY <2>1, <2>2 DEF NoTest
  <1>7. ASSUME NEW call \in {"initial", "refresh"}, StatusHeard(call) \/ StatusFails(call)
        PROVE  GatewayCounts'
    <2>1. UNCHANGED <<test, reached>> /\ statusAsked' \subseteq statusAsked
      BY <1>7 DEF StatusHeard, StatusFails, StatusSettles
    <2>2. /\ testUsed' \in [tests : 0..MaxTests, refreshes : 0..MaxStatusRefreshes, lost : 0..MaxLostAnswers]
          /\ testUsed'.tests = testUsed.tests
      BY <1>7 DEF StatusHeard, StatusFails, CallLost
    <2>. QED  BY <2>1, <2>2
  <1>8. CASE UNCHANGED gatewayPageVars  BY <1>8 DEF gatewayPageVars
  <1>. QED  BY <1>1, <1>2, <1>3, <1>4, <1>5, <1>6, <1>7, <1>8 DEF GatewayPageNext

LEMMA GatewayTyped == GatewayPageSpec => []GatewayPageTypeOK
  <1>1. GatewayPageInit => GatewayCounts
    BY GatewayPageAssumption DEF GatewayPageInit, GatewayPageStart, GatewayCounts, NoTest
  <1>2. GatewayInv /\ GatewayCounts /\ [GatewayPageNext]_gatewayPageVars => GatewayCounts'
    BY GatewayCountsStep
  <1>3. GatewayInv /\ GatewayCounts => GatewayPageTypeOK
    <2>. SUFFICES ASSUME GatewayInv, GatewayCounts PROVE GatewayPageTypeOK  OBVIOUS
    <2>1. GatewayShape  BY DEF GatewayInv
    <2>2. test.call = NoTest \/ test.call \in [at : {"sent", "decided"}, number : TypedNumbers,
                                               mode : TestMode, verdict : Verdict]
      BY <2>1 DEF GatewayShape, TestCall, TestMode
    <2>. QED  BY <2>1, <2>2 DEF GatewayShape, GatewayCounts, GatewayPageTypeOK
  <1>. QED  BY <1>1, <1>2, <1>3, GatewayInvInit, GatewayInvStep, PTL DEF GatewayPageSpec

\* A table within its bound has numbers within it, and shares of a hundred percent at most.
Numbers == [total : 0..MaxLedger, sent : 0..MaxLedger, failed : 0..MaxLedger,
            pending : 0..MaxLedger, delivered : 0..MaxLedger, read : 0..MaxLedger,
            successRate : 0..1000, deliveryRate : 0..1000, readRate : 0..1000]

LEMMA ShareTyped ==
  ASSUME NEW part \in Nat, NEW whole \in Nat, part <= whole
  PROVE  Share(part, whole) \in 0..1000
  <1>1. CASE whole = 0  BY <1>1 DEF Share
  <1>2. CASE whole # 0
    <2>. DEFINE a == 2000 * part + whole
                d == 2 * whole
    <2>1. a \in Nat /\ d \in Nat \ {0} /\ a < 1001 * d  BY <1>2
    <2>2. Share(part, whole) = a \div d  BY <1>2 DEF Share
    <2>. HIDE DEF a, d
    <2>3. a \div d \in Nat /\ d * (a \div d) <= a  BY <2>1
    <2>. DEFINE q == a \div d
    <2>4. q \in Nat /\ d * q < 1001 * d
      <3>. DEFINE p == d * q
                  w == 1001 * d
      <3>1. p \in Int /\ w \in Int /\ p <= a /\ a < w  BY <2>1, <2>3
      <3>. HIDE DEF p, w
      <3>2. p < w  BY <2>1, <3>1
      <3>. QED  BY <2>3, <3>2 DEF p, w
    <2>. HIDE DEF q
    <2>5. q < 1001  BY <2>1, <2>4
    <2>. QED  BY <2>2, <2>4, <2>5 DEF q
  <1>. QED  BY <1>1, <1>2

LEMMA DashboardTyped ==
  ASSUME NEW table \in Seq(DeliveryStatus), Len(table) <= MaxLedger
  PROVE  DashboardOf(table) \in Numbers
  <1>. DEFINE n(S) == Tally(table, S)
  <1>1. /\ n({"READ"}) \in Nat /\ n({"DELIVERED"}) \in Nat /\ n({"SENT"}) \in Nat
        /\ n({"FAILED"}) \in Nat /\ n({"PENDING"}) \in Nat
    BY TallySums DEF DeliveryStatus
  <1>2. /\ n({"DELIVERED", "READ"}) = n({"DELIVERED"}) + n({"READ"})
        /\ n({"SENT", "DELIVERED", "READ"}) = n({"SENT"}) + n({"DELIVERED"}) + n({"READ"})
        /\ Len(table) = n({"SENT", "DELIVERED", "READ"}) + n({"FAILED"}) + n({"PENDING"})
    BY TallySums
  <1>. DEFINE sent == n({"SENT", "DELIVERED", "READ"})
              heard == n({"DELIVERED", "READ"})
              of == DashboardOf(table)
  <1>3. of = [total |-> sent + n({"FAILED"}) + n({"PENDING"}), sent |-> sent,
              failed |-> n({"FAILED"}), pending |-> n({"PENDING"}),
              delivered |-> n({"DELIVERED"}), read |-> n({"READ"}),
              successRate |-> Share(sent, sent + n({"FAILED"})),
              deliveryRate |-> Share(heard, sent), readRate |-> Share(n({"READ"}), sent)]
    BY DEF DashboardOf
  <1>. HIDE DEF n, of
  <1>4. /\ sent \in Nat /\ heard \in Nat /\ sent + n({"FAILED"}) \in Nat
        /\ sent <= sent + n({"FAILED"}) /\ heard <= sent /\ n({"READ"}) <= sent
    BY <1>1, <1>2
  <1>5. /\ sent + n({"FAILED"}) + n({"PENDING"}) \in 0..MaxLedger /\ sent \in 0..MaxLedger
        /\ n({"FAILED"}) \in 0..MaxLedger /\ n({"PENDING"}) \in 0..MaxLedger
        /\ n({"DELIVERED"}) \in 0..MaxLedger /\ n({"READ"}) \in 0..MaxLedger
    BY <1>1, <1>2, LedgerAssumption
  <1>6. /\ Share(sent, sent + n({"FAILED"})) \in 0..1000
        /\ Share(heard, sent) \in 0..1000 /\ Share(n({"READ"}), sent) \in 0..1000
    <2>. HIDE DEF sent, heard
    <2>1. Share(sent, sent + n({"FAILED"})) \in 0..1000  BY <1>4, ShareTyped
    <2>2. Share(heard, sent) \in 0..1000  BY <1>4, ShareTyped
    <2>3. Share(n({"READ"}), sent) \in 0..1000  BY <1>1, <1>4, ShareTyped
    <2>. QED  BY <2>1, <2>2, <2>3
  <1>. HIDE DEF sent, heard
  <1>7. of \in Numbers  BY <1>3, <1>5, <1>6 DEF Numbers
  <1>. QED  BY <1>7 DEF of

\* The first page is one that a list call may carry.
LEMMA PageTyped ==
  ASSUME NEW table \in Seq(DeliveryStatus)
  PROVE  \E n \in 0..HistoryPage : FirstPage(table) \in [1..n -> DeliveryStatus]
  <1>. DEFINE n == IF Len(table) < HistoryPage THEN Len(table) ELSE HistoryPage
  <1>1. table \in [1..Len(table) -> DeliveryStatus] /\ Len(table) \in Nat  BY LenProperties
  <1>2. n \in 0..HistoryPage /\ n <= Len(table)  BY <1>1, LedgerAssumption
  <1>3. FirstPage(table) = [i \in 1..n |-> table[Len(table) + 1 - i]]  BY DEF FirstPage
  <1>. HIDE DEF n
  <1>4. FirstPage(table) \in [1..n -> DeliveryStatus]  BY <1>1, <1>2, <1>3
  <1>. QED  BY <1>2, <1>4

\* The table, its turns and its readers stay within their bounds.
LedgerBounds ==
  /\ Len(ledger) <= MaxLedger /\ turn <= MaxTurns
  /\ stats.turn \in 1..MaxTurns /\ stats.of \in Numbers
  /\ Len(logPage.rows) <= HistoryPage /\ logPage.turn <= MaxTurns
  /\ \A call \in {"initial", "refresh"} : reads[call] \in ListRead \cup {Unread}
  /\ failures \in 0..MaxListFailures

LEMMA LedgerBoundsInit == LedgerInit => LedgerBounds
  <1>. SUFFICES ASSUME LedgerInit PROVE LedgerBounds  OBVIOUS
  <1>1. PICK n \in 0..MaxLedger : ledger \in [1..n -> DeliveryStatus]
    BY DEF LedgerInit, LedgerStart
  <1>2. n \in Nat /\ ledger \in Seq(DeliveryStatus) /\ Len(ledger) <= MaxLedger
    BY <1>1, LedgerAssumption
  <1>3. DashboardOf(ledger) \in Numbers  BY <1>2, DashboardTyped
  <1>4. [at |-> "sent", turn |-> 0, rows |-> <<>>] \in ListRead
    <2>1. 0 \in 0..HistoryPage /\ <<>> \in [1..0 -> DeliveryStatus]  BY LedgerAssumption
    <2>2. <<>> \in UNION {[1..m -> DeliveryStatus] : m \in 0..HistoryPage}  BY <2>1
    <2>3. 0 \in 0..MaxTurns  BY LedgerAssumption
    <2>. QED  BY <2>2, <2>3 DEF ListRead
  <1>5. stats.turn \in 1..MaxTurns /\ stats.of \in Numbers /\ turn <= MaxTurns
    BY <1>3, LedgerAssumption DEF LedgerInit, LedgerStart
  <1>6. Len(logPage.rows) <= HistoryPage /\ logPage.turn <= MaxTurns
    BY LedgerAssumption DEF LedgerInit, LedgerStart
  <1>7. \A call \in {"initial", "refresh"} : reads[call] \in ListRead \cup {Unread}
    BY <1>4 DEF LedgerInit, LedgerStart
  <1>8. failures \in 0..MaxListFailures  BY LedgerAssumption DEF LedgerInit, LedgerStart
  <1>. QED  BY <1>2, <1>5, <1>6, <1>7, <1>8 DEF LedgerBounds

LEMMA LedgerBoundsStep ==
  ASSUME LedgerInv, LedgerBounds, [LedgerNext]_ledgerVars
  PROVE  LedgerBounds'
  <1>. USE DEF LedgerBounds
  <1>t. LedgerTypes  BY DEF LedgerInv
  <1>1. CASE InsertMessage \/ MessageMoves
    <2>1. turn < MaxTurns /\ turn' = turn + 1 /\ UNCHANGED <<stats, logPage, reads, failures>>
      BY <1>1 DEF InsertMessage, MessageMoves, Turn, readerVars
    <2>2. Len(ledger') <= MaxLedger
      <3>1. CASE InsertMessage
        <4>1. PICK status \in DeliveryStatus : ledger' = Append(ledger, status)
          BY <3>1 DEF InsertMessage, Turn, DeliveryStatus
        <4>2. Len(ledger') = Len(ledger) + 1 /\ Len(ledger) \in Nat
          BY <1>t, <4>1, AppendProperties, LenProperties DEF LedgerTypes
        <4>. QED  BY <3>1, <4>2, LedgerAssumption DEF InsertMessage
      <3>2. CASE MessageMoves
        <4>1. PICK i \in DOMAIN ledger, status \in DeliveryStatus : ledger' = [ledger EXCEPT ![i] = status]
          BY <3>2 DEF MessageMoves, Turn
        <4>2. i \in 1..Len(ledger)  BY <1>t, LenProperties DEF LedgerTypes
        <4>3. Len(ledger') = Len(ledger)  BY <1>t, <4>1, <4>2, ExceptSeq DEF LedgerTypes
        <4>. QED  BY <4>3
      <3>. QED  BY <1>1, <3>1, <3>2
    <2>. QED  BY <1>t, <2>1, <2>2, LedgerAssumption DEF LedgerTypes
  <1>2. CASE Dashboard
    <2>1. stats' = [turn |-> turn, of |-> DashboardOf(ledger)] /\ UNCHANGED <<ledger, turn, logPage, reads, failures>>
      BY <1>2 DEF Dashboard
    <2>2. DashboardOf(ledger) \in Numbers  BY <1>t, DashboardTyped DEF LedgerTypes
    <2>3. stats'.turn \in 1..MaxTurns /\ stats'.of \in Numbers
      BY <1>t, <2>1, <2>2, LedgerAssumption DEF LedgerTypes
    <2>. QED  BY <2>1, <2>3
  <1>3. CASE RefreshMessages
    <2>. DEFINE call == [at |-> "sent", turn |-> 0, rows |-> <<>>]
    <2>1. call \in ListRead
      <3>1. 0 \in 0..HistoryPage /\ <<>> \in [1..0 -> DeliveryStatus]  BY LedgerAssumption
      <3>2. <<>> \in UNION {[1..m -> DeliveryStatus] : m \in 0..HistoryPage}  BY <3>1
      <3>3. 0 \in 0..MaxTurns  BY LedgerAssumption
      <3>. QED  BY <3>2, <3>3 DEF ListRead
    <2>2. /\ logPage' = [logPage EXCEPT !.refreshing = TRUE]
          /\ reads' = [reads EXCEPT !["refresh"] = call] /\ UNCHANGED <<ledger, turn, stats, failures>>
      BY <1>3 DEF RefreshMessages
    <2>. HIDE DEF call
    <2>3. \A c \in {"initial", "refresh"} : reads'[c] = IF c = "refresh" THEN call ELSE reads[c]
      BY <1>t, <2>2 DEF LedgerTypes
    <2>4. logPage'.rows = logPage.rows /\ logPage'.turn = logPage.turn
      BY <1>t, <2>2 DEF LedgerTypes, LogState
    <2>. QED  BY <2>1, <2>2, <2>3, <2>4
  <1>4. ASSUME NEW call \in {"initial", "refresh"}, ServeMessages(call) PROVE LedgerBounds'
    <2>. DEFINE answer == [at |-> "answered", turn |-> turn, rows |-> FirstPage(ledger)]
    <2>1. answer \in ListRead
      <3>1. \E n \in 0..HistoryPage : FirstPage(ledger) \in [1..n -> DeliveryStatus]
        BY <1>t, PageTyped DEF LedgerTypes
      <3>2. FirstPage(ledger) \in UNION {[1..m -> DeliveryStatus] : m \in 0..HistoryPage}  BY <3>1
      <3>3. turn \in 0..MaxTurns  BY <1>t, LedgerAssumption DEF LedgerTypes
      <3>. QED  BY <3>2, <3>3 DEF ListRead
    <2>2. reads' = [reads EXCEPT ![call] = answer] /\ UNCHANGED <<ledger, turn, stats, logPage, failures>>
      BY <1>4 DEF ServeMessages
    <2>. HIDE DEF answer
    <2>3. \A c \in {"initial", "refresh"} : reads'[c] = IF c = call THEN answer ELSE reads[c]
      BY <1>t, <2>2 DEF LedgerTypes
    <2>. QED  BY <2>1, <2>2, <2>3
  <1>5. ASSUME NEW call \in {"initial", "refresh"}, MessagesListed(call) \/ MessagesFail(call)
        PROVE  LedgerBounds'
    <2>1. /\ reads' = [reads EXCEPT ![call] = Unread] /\ UNCHANGED <<ledger, turn, stats>>
          /\ failures' \in 0..MaxListFailures
      BY <1>5, LedgerAssumption DEF MessagesListed, MessagesFail, Finally
    <2>2. \A c \in {"initial", "refresh"} : reads'[c] = IF c = call THEN Unread ELSE reads[c]
      BY <1>t, <2>1 DEF LedgerTypes
    <2>3. Len(logPage'.rows) <= HistoryPage /\ logPage'.turn <= MaxTurns
      <3>1. CASE MessagesListed(call)
        <4>1. reads[call] \in ListRead  BY <3>1 DEF MessagesListed
        <4>2. PICK n \in 0..HistoryPage : reads[call].rows \in [1..n -> DeliveryStatus]
          BY <4>1 DEF ListRead
        <4>3. n \in Nat /\ n <= HistoryPage  BY LedgerAssumption
        <4>4. reads[call].rows \in Seq(DeliveryStatus) /\ Len(reads[call].rows) = n
          <5>1. reads[call].rows \in Seq(DeliveryStatus)  BY <4>2, <4>3
          <5>2. DOMAIN reads[call].rows = 1..n  BY <4>2
          <5>. QED  BY <4>3, <5>1, <5>2
        <4>5. reads[call].turn \in 0..MaxTurns  BY <4>1 DEF ListRead
        <4>6. logPage'.rows = reads[call].rows /\ logPage'.turn = reads[call].turn
          <5>. DEFINE shown == [logPage EXCEPT !.rows = reads[call].rows, !.turn = reads[call].turn,
                                               !.error = @ /\ call = "initial"]
          <5>1. Finally(call, shown)  BY <3>1 DEF MessagesListed
          <5>0. (logPage.error /\ call = "initial") \in BOOLEAN /\ reads[call].turn \in Nat
            BY <4>5, LedgerAssumption
          <5>2. /\ shown \in [rows : Seq(DeliveryStatus), turn : Nat, loading : BOOLEAN,
                              refreshing : BOOLEAN, error : BOOLEAN]
                /\ shown.rows = reads[call].rows /\ shown.turn = reads[call].turn
            BY <1>t, <4>4, <5>0 DEF LedgerTypes, LogState
          <5>. HIDE DEF shown
          <5>. QED  BY <5>1, <5>2 DEF Finally
        <4>. QED  BY <4>3, <4>4, <4>5, <4>6, LedgerAssumption
      <3>2. CASE MessagesFail(call)
        <4>1. logPage'.rows = logPage.rows /\ logPage'.turn = logPage.turn
          BY <1>t, <3>2 DEF MessagesFail, Finally, LedgerTypes, LogState
        <4>. QED  BY <4>1
      <3>. QED  BY <1>5, <3>1, <3>2
    <2>. QED  BY <2>1, <2>2, <2>3
  <1>6. CASE UNCHANGED ledgerVars  BY <1>6 DEF ledgerVars
  <1>. QED  BY <1>1, <1>2, <1>3, <1>4, <1>5, <1>6 DEF LedgerNext

LEMMA LedgerTyped == LedgerSpec => []LedgerTypeOK
  <1>1. LedgerInv /\ LedgerBounds => LedgerTypeOK
    <2>. SUFFICES ASSUME LedgerInv, LedgerBounds PROVE LedgerTypeOK  OBVIOUS
    <2>1. LedgerTypes /\ DOMAIN reads = {"initial", "refresh"}  BY DEF LedgerInv, LedgerTypes
    <2>2. /\ ledger \in Seq(DeliveryStatus) /\ turn \in 1..MaxTurns
          /\ logPage.rows \in Seq(DeliveryStatus) /\ logPage.turn \in 0..MaxTurns
          /\ {logPage.loading, logPage.refreshing, logPage.error} \subseteq BOOLEAN
      BY <2>1, LedgerAssumption DEF LedgerTypes, LogState, LedgerBounds
    <2>. QED  BY <2>1, <2>2 DEF LedgerBounds, LedgerTypeOK, Numbers
  <1>2. LedgerInv /\ LedgerBounds /\ [LedgerNext]_ledgerVars => LedgerBounds'
    BY LedgerBoundsStep
  <1>. QED  BY <1>1, <1>2, LedgerInvInit, LedgerInvStep, LedgerBoundsInit, PTL DEF LedgerSpec

-----------------------------------------------------------------------------
(* The types of the application.                                           *)

\* In every area the state keeps its type, for any constants: no count passes its bound
\* and no page holds a value that its code does not know.
THEOREM AppTypeCorrect == AppSpec => []AppTypeOK
  <1>1. AppInit => area \in Areas  BY DEF AppInit
  <1>2. area \in Areas /\ [AppNext]_appVars => (area \in Areas)'  BY AreasStep
  <1>3. SettingsInv => SettingsTypeOK  BY DEF SettingsInv
  <1>4. DeskInv => DeskTypeOK  BY DEF DeskInv
  <1>5. SessionInv => SessionTypeOK  BY DEF SessionInv
  <1>6. AiInv => AiTypeOK  BY DEF AiInv
  <1>7. WizardInv => PageTypeOK  BY DEF WizardInv
  <1>8. CustomersInv => CustomersTypeOK  BY DEF CustomersInv, ListInv
  <1>9. PreviewInv => PreviewTypeOK  BY DEF PreviewInv
  <1>10. MonitorInv => MonitorTypeOK  BY DEF MonitorInv
  <1>11. DeskSpec => []DeskTypeOK  BY <1>4, DeskInvInit, DeskInvStep, PTL DEF DeskSpec
  <1>12. AiSpec => []AiTypeOK  BY <1>6, AiInvInit, AiInvStep, PTL DEF AiSpec
  <1>13. PageSpec => []PageTypeOK  BY <1>7, WizardInvInit, WizardInvStep, PTL DEF PageSpec
  <1>14. CustomersSpec => []CustomersTypeOK
    BY <1>8, CustomersInvInit, CustomersInvStep, PTL DEF CustomersSpec
  <1>15. PreviewSpec => []PreviewTypeOK  BY <1>9, PreviewInvInit, PreviewInvStep, PTL DEF PreviewSpec
  <1>16. MonitorSpec => []MonitorTypeOK  BY <1>10, MonitorInvInit, MonitorInvStep, PTL DEF MonitorSpec
  <1>17. SettingsSpec => []SettingsTypeOK  BY <1>3, SettingsInvHolds, PTL
  <1>18. SessionSpec => []SessionTypeOK  BY <1>5, SessionInvHolds, PTL
  <1>19. /\ area \in Areas /\ TypeOK /\ SendTypeOK /\ DeskTypeOK /\ SessionTypeOK /\ BoardTypeOK
         /\ AiTypeOK /\ PageTypeOK /\ CustomersTypeOK /\ LedgerTypeOK /\ SettingsTypeOK
         /\ PreviewTypeOK /\ MonitorTypeOK /\ GatewayPageTypeOK
         => AppTypeOK
    BY DEF AppTypeOK
  <1>20. AppSpec => [](area \in Areas)  BY <1>1, <1>2, PTL DEF AppSpec
  <1>. QED
    BY <1>11, <1>12, <1>13, <1>14, <1>15, <1>16, <1>17, <1>18, <1>19, <1>20, AreasRunByTheirSpecs,
       TypeCorrect, SendTypeCorrect, BoardTyped, GatewayTyped, LedgerTyped, PTL
=================================================================================
