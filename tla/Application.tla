------------------------------ MODULE Application ------------------------------
(***************************************************************************)
(* The areas of the console beside the campaign engine and the delivery    *)
(* webhooks, put together for checking.  They share no state the models    *)
(* keep, so a behaviour stays in one area and the others rest: what is     *)
(* checked is each area's own specification, in one run.                   *)
(***************************************************************************)
EXTENDS CustomerImport, DirectSend, TemplateDesk, BrowserSession, DashboardPage, AiDesk,
        CampaignsPage, CustomersPage, MessageLedger, AppSettings, TemplatePreview,
        CampaignMonitor, GatewayPage, TLC

VARIABLE area    \* the area this behaviour is about

appVars ==
  <<area, vars, sendVars, deskVars, sessionVars, boardVars, aiVars, pageVars, customersVars,
    ledgerVars, settingsVars, previewVars, monitorVars, gatewayPageVars>>

Areas == {"import", "send", "desk", "session", "board", "ai", "page", "customers", "ledger",
          "settings", "preview", "monitor", "gateway"}

-----------------------------------------------------------------------------
(* For the configuration.                                                  *)

TheProfiles == {{}, Placeholders}

-----------------------------------------------------------------------------
\* An area starts in any of its states when it is the one checked, else in one.
Either(name, starts, rest) == IF area = name THEN starts ELSE {rest}

\* The desk starts with one table that has a template and lacks one, and the ledger with
\* no message or two.
OneTemplate ==
  LET single == {table \in DeskTables : \E i, j \in TemplateIds : table[i] # Absent /\ table[j] = Absent}
  IN  {table \in single : table = CHOOSE first \in single : TRUE}

TwoMessages == {table \in {<<>>, <<"SENT", "SENT">>} : Len(table) <= MaxLedger}

AppInit ==
  /\ area \in Areas
  /\ Init /\ (area # "import" => stored = [m \in Mobiles |-> 0])
  /\ SendStart(Either("send", Config, [live |-> TRUE, configured |-> TRUE]))
  /\ DeskStart(Either("desk", OneTemplate, [id \in TemplateIds |-> Absent]))
  /\ SessionStart(Either("session", {0, 1}, 0))
  /\ BoardInit /\ AiInit /\ PageInit
  /\ CustomersStart({[f \in Filters |-> MaxFound]})
  /\ LedgerStart(Either("ledger", TwoMessages, <<>>))
  /\ SettingsStart(Either("settings", Bodies, [k \in Keys |-> Unset]))
  /\ PreviewInit /\ MonitorInit
  /\ GatewayPageStart(Either("gateway", Config, [live |-> TRUE, configured |-> TRUE]))

\* The area takes a step of its own, and the others rest.
Steps(name, step, rest) == IF area = name THEN step ELSE rest

AppNext ==
  /\ UNCHANGED area
  /\ Steps("import", Next, UNCHANGED vars)
  /\ Steps("send", SendNext, UNCHANGED sendVars)
  /\ Steps("desk", DeskNext, UNCHANGED deskVars)
  /\ Steps("session", SessionNext, UNCHANGED sessionVars)
  /\ Steps("board", BoardNext, UNCHANGED boardVars)
  /\ Steps("ai", AiNext, UNCHANGED aiVars)
  /\ Steps("page", PageNext, UNCHANGED pageVars)
  /\ Steps("customers", CustomersNext, UNCHANGED customersVars)
  /\ Steps("ledger", LedgerNext, UNCHANGED ledgerVars)
  /\ Steps("settings", SettingsNext, UNCHANGED settingsVars)
  /\ Steps("preview", PreviewNext, UNCHANGED previewVars)
  /\ Steps("monitor", MonitorNext, UNCHANGED monitorVars)
  /\ Steps("gateway", GatewayPageNext, UNCHANGED gatewayPageVars)

AppSpec == AppInit /\ [][AppNext]_appVars

\* The types of the state the area works on.
AppTypeOK ==
  /\ area \in Areas
  /\ area = "import" => TypeOK
  /\ area = "send" => SendTypeOK
  /\ area = "desk" => DeskTypeOK
  /\ area = "session" => SessionTypeOK
  /\ area = "board" => BoardTypeOK
  /\ area = "ai" => AiTypeOK
  /\ area = "page" => PageTypeOK
  /\ area = "customers" => CustomersTypeOK
  /\ area = "ledger" => LedgerTypeOK
  /\ area = "settings" => SettingsTypeOK
  /\ area = "preview" => PreviewTypeOK
  /\ area = "monitor" => MonitorTypeOK
  /\ area = "gateway" => GatewayPageTypeOK
=============================================================================
