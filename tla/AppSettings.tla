------------------------------ MODULE AppSettings ------------------------------
(***************************************************************************)
(* PUT and GET /settings: src/backend/src/settings (controller, service).  *)
(* Several updates may be served at once; every query is a step.  Keys     *)
(* that are not on the allow-list do not get past the validation and are   *)
(* left out.  The validation and the reading of the stored texts differ in *)
(* two cases, null and a name of blanks: both are stored, and then ignored.*)
(***************************************************************************)
EXTENDS Integers

CONSTANTS
  Keys,              \* SETTING_KEYS
  NameKey,           \* appName, of which the DTO only asks that it is not empty
  Values,            \* values of a key that get accepts, as they may be stored
  BlankName,         \* a name of blanks: accepted by the DTO, ignored by get
  Puts,              \* bound: updates
  MaxSettingFaults,  \* bound: queries that throw
  Null,              \* the value null, which is stored as an empty text
  Unset              \* a key that is left out, or was never stored

ASSUME SettingsAssumption ==
  /\ Values \cap {Null, BlankName, Unset} = {} /\ BlankName # Unset
  /\ MaxSettingFaults \in Nat

VARIABLES
  appSetting,      \* AppSetting: the text stored under each key
  put,             \* the updates: await point and locals
  settingFaults    \* queries that threw so far

settingsVars == <<appSetting, put, settingFaults>>

\* "default" is the value of the environment, or the built-in one.
Resolved == [Keys -> Values \cup {"default"}]
EnvDefaults == [k \in Keys |-> "default"]

IdlePut ==
  [pc |-> "idle", body |-> [k \in Keys |-> Unset], todo |-> {}, reply |-> "none",
   settings |-> EnvDefaults, overwritten |-> {}]

SettingFault == settingFaults < MaxSettingFaults /\ settingFaults' = settingFaults + 1

\* What the validation lets through for each key, and so what may be stored.
Bodies ==
  {body \in [Keys -> Values \cup {BlankName, Null, Unset}] :
     \A k \in Keys : body[k] = BlankName => k = NameKey}

\* What a stored text reads as: a text that get does not accept is ignored.
ReadsAs(text) == IF text \in Values THEN text ELSE "default"

\* get: stored values that are valid, over the defaults.
Overlay == [k \in Keys |-> ReadsAs(appSetting[k])]

PutSettings(p) ==
  /\ put[p].pc = "idle"
  /\ \E body \in Bodies :
       LET todo == {k \in Keys : body[k] # Unset}
       IN put' = [put EXCEPT ![p] = [IdlePut EXCEPT
                    !.pc = IF todo = {} THEN "get" ELSE "upsert", !.body = body, !.todo = todo]]
  /\ UNCHANGED <<appSetting, settingFaults>>

\* Key k is dealt with; the history of the other updates remembers a write.
KeyDone(p, k, written) ==
  LET todo == put[p].todo \ {k}
  IN [q \in Puts |->
        IF q = p THEN [put[p] EXCEPT !.todo = todo, !.pc = IF todo = {} THEN "get" ELSE "upsert",
                                     !.overwritten = IF written THEN @ \ {k} ELSE @]
        ELSE IF written THEN [put[q] EXCEPT !.overwritten = @ \cup {k}] ELSE put[q]]

\* The keys are written one by one, in the order of the body.
UpsertSetting(p) ==
  /\ put[p].pc = "upsert"
  /\ \E k \in put[p].todo :
       /\ appSetting' = [appSetting EXCEPT ![k] = put[p].body[k]]
       /\ put' = KeyDone(p, k, TRUE)
  /\ UNCHANGED settingFaults

\* Mutant: a key that could not be written is passed by.
UpsertFailsQuietly(p) ==
  /\ put[p].pc = "upsert"
  /\ SettingFault
  /\ \E k \in put[p].todo : put' = KeyDone(p, k, FALSE)
  /\ UNCHANGED appSetting

\* The keys written before stay written, and the one that failed may be.
UpsertFails(p) ==
  /\ put[p].pc = "upsert"
  /\ SettingFault
  /\ LET throws(puts) == put' = [puts EXCEPT ![p].pc = "answered", ![p].reply = "error"]
     IN \/ throws(put) /\ UNCHANGED appSetting
        \/ \E k \in put[p].todo :
             /\ appSetting' = [appSetting EXCEPT ![k] = put[p].body[k]]
             /\ throws(KeyDone(p, k, TRUE))

GetSettings(p) ==
  /\ put[p].pc = "get"
  /\ put' = [put EXCEPT ![p].pc = "answered", ![p].reply = "ok", ![p].settings = Overlay]
  /\ UNCHANGED <<appSetting, settingFaults>>

\* A read that throws is only logged: the answer is the defaults.
GetSettingsFails(p) ==
  /\ put[p].pc = "get"
  /\ SettingFault
  /\ put' = [put EXCEPT ![p].pc = "answered", ![p].reply = "defaults"]
  /\ UNCHANGED appSetting

SettingsStart(stored) ==
  /\ appSetting \in stored
  /\ put = [p \in Puts |-> IdlePut]
  /\ settingFaults = 0

SettingsInit == SettingsStart(Bodies)

SettingsNext ==
  \E p \in Puts :
    \/ PutSettings(p) \/ UpsertSetting(p) \/ UpsertFails(p)
    \/ GetSettings(p) \/ GetSettingsFails(p)

SettingsSpec == SettingsInit /\ [][SettingsNext]_settingsVars

-----------------------------------------------------------------------------
(* Properties.                                                             *)

SettingsTypeOK ==
  /\ appSetting \in [Keys -> Values \cup {BlankName, Null, Unset}]
  /\ put \in [Puts -> [pc : {"idle", "upsert", "get", "answered"},
                       body : Bodies, todo : SUBSET Keys,
                       reply : {"none", "ok", "defaults", "error"}, settings : Resolved,
                       overwritten : SUBSET Keys]]
  /\ settingFaults \in 0..MaxSettingFaults

\* An update that is answered without an error is stored in full, whatever other
\* updates are served between its writes: every key it named holds its text,
\* unless a later write of another update took its place, and the settings in
\* the answer are what those texts read as.  For null and a name of blanks that
\* is the default: stored, and not what is answered.
SavedSettingsAreStored ==
  \A p \in Puts : put[p].reply \in {"ok", "defaults"} =>
    \A k \in Keys : put[p].body[k] # Unset /\ k \notin put[p].overwritten =>
      /\ appSetting[k] = put[p].body[k]
      /\ put[p].reply = "ok" => put[p].settings[k] = ReadsAs(put[p].body[k])
=============================================================================
