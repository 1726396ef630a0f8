------------------------------ MODULE GatewayPage ------------------------------
(***************************************************************************)
(* The connection page, src/frontend/src/app/whatsapp/page.tsx, and the    *)
(* routes it calls, src/backend/src/whatsapp/whatsapp.controller.ts: what  *)
(* the operator is told about the gateway, and the test sends.  The server *)
(* reads its configuration at boot, so that it does not change here.       *)
(***************************************************************************)
EXTENDS WhatsAppGateway

CONSTANTS
  MaxTests,            \* bound: test sends
  MaxStatusRefreshes,  \* bound: refreshes
  MaxLostAnswers,      \* bound: calls of the page that fail
  Unheard              \* null

ASSUME GatewayPageAssumption ==
  /\ Unheard \notin Config
  /\ MaxTests \in Nat /\ MaxStatusRefreshes \in Nat /\ MaxLostAnswers \in Nat

VARIABLES
  gatewayConfig,   \* WHATSAPP_MODE and the credentials
  connection,      \* the page's status, loading, refreshing and error
  statusAsked,     \* the status calls in flight
  testForm,        \* the form: the number, and whether a template is named
  test,            \* the test send in flight, and testResult
  reached,         \* history: test sends that Meta took
  testUsed         \* tests, refreshes and failures so far

gatewayPageVars ==
  <<gatewayConfig, connection, statusAsked, testForm, test, reached, testUsed>>

\* Numbers the operator types: too short for the route, good, and too long for Meta.
TypedNumbers == {[digits |-> 8, zeros |-> 0], [digits |-> 10, zeros |-> 0], [digits |-> 16, zeros |-> 0]}
TestMode == {"dry", "text", "template"}
TestResult == [ok : BOOLEAN, mode : TestMode \cup {"none"}]
NoTest == [at |-> "none", mode |-> "none", verdict |-> "client"]

CallLost == testUsed.lost < MaxLostAnswers /\ testUsed' = [testUsed EXCEPT !.lost = @ + 1]

-----------------------------------------------------------------------------
(* The status.                                                             *)

\* The topbar's button waits for an earlier refresh, not for the initial load.
RefreshStatus ==
  /\ ~connection.refreshing
  /\ testUsed.refreshes < MaxStatusRefreshes
  /\ testUsed' = [testUsed EXCEPT !.refreshes = @ + 1]
  /\ connection' = [connection EXCEPT !.refreshing = TRUE]
  /\ statusAsked' = statusAsked \cup {"refresh"}
  /\ UNCHANGED <<gatewayConfig, testForm, test, reached>>

\* The answer to a call arrives, or it fails; only a refresh takes an error away.
StatusSettles(call, page) ==
  /\ call \in statusAsked /\ statusAsked' = statusAsked \ {call}
  /\ connection' = [page EXCEPT !.loading = FALSE, !.refreshing = @ /\ call = "initial"]
  /\ UNCHANGED <<gatewayConfig, testForm, test, reached>>

StatusHeard(call) ==
  /\ StatusSettles(call, [connection EXCEPT !.status = gatewayConfig,
                                            !.error = @ /\ call = "initial"])
  /\ UNCHANGED testUsed

StatusFails(call) ==
  CallLost /\ StatusSettles(call, [connection EXCEPT !.error = TRUE])

-----------------------------------------------------------------------------
(* The test send.                                                          *)

FillTestForm ==
  /\ \/ \E number \in TypedNumbers : testForm' = [testForm EXCEPT !.number = number]
     \/ testForm' = [testForm EXCEPT !.template = ~@]
  /\ testForm' # testForm
  /\ UNCHANGED <<gatewayConfig, connection, statusAsked, test, reached, testUsed>>

\* The button is disabled while a test is under way.
HandleSendTestMessage ==
  /\ testForm.number # Unheard /\ test.call.at = "none"
  /\ testUsed.tests < MaxTests /\ testUsed' = [testUsed EXCEPT !.tests = @ + 1]
  /\ test' = [call |-> [at |-> "sent", number |-> testForm.number, verdict |-> "client",
                        mode |-> IF testForm.template THEN "template" ELSE "text"],
              result |-> Unheard]
  /\ UNCHANGED <<gatewayConfig, connection, statusAsked, testForm, reached>>

\* The call ends and its result is shown.
TestShows(ok, mode) == test' = [call |-> NoTest, result |-> [ok |-> ok, mode |-> mode]]

\* TestSendDto refuses it, or sendText and sendTemplate settle it without a request.
TestStaysHere ==
  /\ test.call.at = "sent"
  /\ LET number == test.call.number
         result == WithoutRequest(gatewayConfig)
     IN \/ number.digits < 9 /\ TestShows(FALSE, "none")
        \/ /\ number.digits >= 9 /\ ~GoesOut(gatewayConfig, number, 2)
           /\ TestShows(result.ok, IF gatewayConfig.live THEN test.call.mode ELSE "dry")
  /\ UNCHANGED <<gatewayConfig, connection, statusAsked, testForm, reached, testUsed>>

MetaTakesTest ==
  /\ test.call.at = "sent"
  /\ test.call.number.digits >= 9 /\ GoesOut(gatewayConfig, test.call.number, 2)
  /\ \E verdict \in Verdict :
       /\ test' = [test EXCEPT !.call.at = "decided", !.call.verdict = verdict]
       /\ reached' = IF verdict = "accepted" THEN reached \cup {testUsed.tests} ELSE reached
  /\ UNCHANGED <<gatewayConfig, connection, statusAsked, testForm, testUsed>>

\* Meta's answer, or the failure of the exchange, becomes the result.
TestAnswered ==
  /\ test.call.at = "decided"
  /\ \E result \in FromResponse(test.call.verdict) \cup WithoutResponse :
       TestShows(result.ok, test.call.mode)
  /\ UNCHANGED <<gatewayConfig, connection, statusAsked, testForm, reached, testUsed>>

\* The page's own call fails, wherever the server is with it.
TestLost ==
  /\ test.call.at # "none"
  /\ CallLost
  /\ TestShows(FALSE, "none")
  /\ UNCHANGED <<gatewayConfig, connection, statusAsked, testForm, reached>>

GatewayPageStart(configs) ==
  /\ gatewayConfig \in configs
  /\ connection = [status |-> Unheard, loading |-> TRUE, refreshing |-> FALSE, error |-> FALSE]
  /\ statusAsked = {"initial"}
  /\ testForm = [number |-> Unheard, template |-> FALSE]
  /\ test = [call |-> NoTest, result |-> Unheard]
  /\ reached = {}
  /\ testUsed = [tests |-> 0, refreshes |-> 0, lost |-> 0]

GatewayPageInit == GatewayPageStart(Config)

GatewayPageNext ==
  \/ RefreshStatus \/ FillTestForm \/ HandleSendTestMessage
  \/ TestStaysHere \/ MetaTakesTest \/ TestAnswered \/ TestLost
  \/ \E call \in {"initial", "refresh"} : StatusHeard(call) \/ StatusFails(call)

GatewayPageSpec == GatewayPageInit /\ [][GatewayPageNext]_gatewayPageVars

-----------------------------------------------------------------------------
(* What the page tells.                                                    *)

IsConfigured == connection.status # Unheard /\ connection.status.configured

\* Mutant: a gateway without credentials is taken for the simulator.
IsDryRunUnlessReady == connection.status = Unheard \/ ~connection.status.live \/ ~IsConfigured

\* status?.dryRun, which the server always sends; before it is heard, the default.
IsDryRun == IF connection.status = Unheard THEN ~IsConfigured ELSE ~connection.status.live

EngineMode ==
  CASE ~IsDryRun /\ ~IsConfigured -> "NOT CONFIGURED"
    [] IsDryRun -> "DRY-RUN SIMULATOR"
    [] OTHER -> "LIVE GATEWAY"

-----------------------------------------------------------------------------
(* Properties.                                                             *)

GatewayPageTypeOK ==
  /\ gatewayConfig \in Config
  /\ connection \in [status : Config \cup {Unheard}, loading : BOOLEAN, refreshing : BOOLEAN,
                     error : BOOLEAN]
  /\ statusAsked \subseteq {"initial", "refresh"}
  /\ testForm \in [number : TypedNumbers \cup {Unheard}, template : BOOLEAN]
  /\ test.call = NoTest \/ test.call \in [at : {"sent", "decided"}, number : TypedNumbers,
                                          mode : TestMode, verdict : Verdict]
  /\ test.result \in TestResult \cup {Unheard}
  /\ reached \subseteq 1..MaxTests
  /\ testUsed \in [tests : 0..MaxTests, refreshes : 0..MaxStatusRefreshes, lost : 0..MaxLostAnswers]

\* Once the status was heard, the label agrees with what sends do: a send that
\* reached Meta was made under LIVE GATEWAY, and a test that the gateway answered was
\* simulated under DRY-RUN SIMULATOR, refused under NOT CONFIGURED, and dispatched
\* under LIVE GATEWAY only if Meta took it.
LabelTellsWhatSendsDo ==
  connection.status # Unheard =>
    /\ reached # {} => EngineMode = "LIVE GATEWAY"
    /\ test.result # Unheard /\ test.result.mode # "none" =>
         CASE EngineMode = "DRY-RUN SIMULATOR" -> test.result.ok /\ test.result.mode = "dry"
           [] EngineMode = "LIVE GATEWAY" -> /\ test.result.mode # "dry"
                                             /\ test.result.ok => testUsed.tests \in reached
           [] OTHER -> ~test.result.ok
=============================================================================
