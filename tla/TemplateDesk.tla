----------------------------- MODULE TemplateDesk -----------------------------
(***************************************************************************)
(* The template list and its editor in the browser, and the service behind *)
(* it: src/frontend/src/app/templates/page.tsx and                         *)
(* src/backend/src/templates/templates.service.ts.                         *)
(*                                                                         *)
(* The page does not wait: a call is sent, the server works on it between  *)
(* other calls, and its answer is delivered in any order, or lost.  A      *)
(* template's name and body are one Text; different texts have different   *)
(* names, which the table keeps unique.                                    *)
(***************************************************************************)
EXTENDS Integers

CONSTANTS
  TemplateIds,     \* template ids
  Texts,           \* what a template can say
  DeskSlots,       \* bound: calls of the page in flight
  MaxDeskCalls,    \* bound: calls in a behaviour
  MaxDeskFaults,   \* bound: failed queries, lost answers, changes made elsewhere
  Blank,           \* an empty form
  Absent           \* null

ASSUME DeskBounds == DeskSlots # {} /\ MaxDeskCalls \in Nat /\ MaxDeskFaults \in Nat
ASSUME DeskNames == Absent \notin TemplateIds \cup Texts /\ Blank \notin Texts

VARIABLES
  templates,     \* MessageTemplate: its text and isActive, Absent when not there
  desk,          \* the page's templates, loading and refreshing
  editor,        \* the editor: open, editingTemplateId, form, saveError, saving,
                 \* and the template it was opened for
  deskCalls,     \* the calls in flight
  deskMuddled,   \* history: refreshes crossed, or a call failed, since the last
                 \* refresh that began alone
  deskUsed       \* calls and faults so far

deskVars == <<templates, desk, editor, deskCalls, deskMuddled, deskUsed>>

TemplateRow == [text : Texts, active : BOOLEAN]
Table == [TemplateIds -> TemplateRow \cup {Absent}]
DeskCall ==
  [kind : {"initial", "list", "create", "update", "archive"}, id : TemplateIds \cup {Absent},
   for : TemplateIds \cup {Absent}, text : Texts \cup {Absent},
   at : {"sent", "checked", "answered"}, ok : BOOLEAN, rows : Table \cup {Absent}]

ASSUME AbsentAssumption == Absent \notin TemplateRow \cup Table \cup DeskCall

NewCall(kind, id, text) ==
  [kind |-> kind, id |-> id, for |-> editor.for, text |-> text, at |-> "sent",
   ok |-> FALSE, rows |-> Absent]

DeskInFlight(kinds) == {s \in DeskSlots : deskCalls[s] # Absent /\ deskCalls[s].kind \in kinds}
DeskSpend == deskUsed.calls < MaxDeskCalls /\ deskUsed' = [deskUsed EXCEPT !.calls = @ + 1]
DeskFault == deskUsed.faults < MaxDeskFaults /\ deskUsed' = [deskUsed EXCEPT !.faults = @ + 1]

\* fetchTemplatesAndCustomers starts, in a slot of its own or after the call that
\* was in slot s.
FetchTemplates(s) ==
  /\ deskCalls' = [deskCalls EXCEPT ![s] = NewCall("list", Absent, Absent)]
  /\ deskMuddled' = IF DeskInFlight({"initial", "list"}) \ {s} # {} THEN TRUE
                ELSE deskMuddled /\ DeskInFlight({"create", "update", "archive"}) \ {s} # {}

DeskAsk(kind, id, text) ==
  /\ DeskSpend
  /\ \E s \in DeskSlots : /\ deskCalls[s] = Absent
                          /\ deskCalls' = [deskCalls EXCEPT ![s] = NewCall(kind, id, text)]

-----------------------------------------------------------------------------
(* The operator.                                                           *)

\* The topbar's button is disabled while a refresh is under way.
DeskRefresh ==
  /\ ~editor.open /\ ~desk.refreshing
  /\ DeskSpend
  /\ desk' = [desk EXCEPT !.refreshing = TRUE]
  /\ \E s \in DeskSlots : deskCalls[s] = Absent /\ FetchTemplates(s)
  /\ UNCHANGED <<templates, editor>>

\* Mutant: the id of the template edited last is kept.
OpenCreateKeepsId ==
  /\ ~editor.open
  /\ editor' = [editor EXCEPT !.open = TRUE, !.form = Blank, !.error = FALSE, !.for = Absent]
  /\ UNCHANGED <<templates, desk, deskCalls, deskMuddled, deskUsed>>

OpenCreate ==
  /\ ~editor.open
  /\ editor' = [editor EXCEPT !.open = TRUE, !.id = Absent, !.form = Blank, !.error = FALSE,
                              !.for = Absent]
  /\ UNCHANGED <<templates, desk, deskCalls, deskMuddled, deskUsed>>

\* The form is filled from the list the page shows, which may be old.
OpenEdit(id) ==
  /\ ~editor.open
  /\ desk.list[id] # Absent
  /\ editor' = [editor EXCEPT !.open = TRUE, !.id = id, !.form = desk.list[id].text,
                              !.error = FALSE, !.for = id]
  /\ UNCHANGED <<templates, desk, deskCalls, deskMuddled, deskUsed>>

\* Typing, a preset or a variable chip.
EditText(text) ==
  /\ editor.open /\ editor.form # text
  /\ editor' = [editor EXCEPT !.form = text]
  /\ UNCHANGED <<templates, desk, deskCalls, deskMuddled, deskUsed>>

\* Cancel, Escape or the backdrop, also while a save is under way.
CloseEditor ==
  /\ editor.open
  /\ editor' = [editor EXCEPT !.open = FALSE]
  /\ UNCHANGED <<templates, desk, deskCalls, deskMuddled, deskUsed>>

\* A blank form is refused here; the button is disabled while a save runs.
SaveTemplate ==
  /\ editor.open /\ ~editor.saving
  /\ IF editor.form = Blank
     THEN /\ editor' = [editor EXCEPT !.error = TRUE]
          /\ UNCHANGED <<deskCalls, deskUsed>>
     ELSE /\ editor' = [editor EXCEPT !.saving = TRUE, !.error = FALSE]
          /\ DeskAsk(IF editor.id = Absent THEN "create" ELSE "update", editor.id, editor.form)
  /\ UNCHANGED <<templates, desk, deskMuddled>>

ArchiveTemplate(id) ==
  /\ ~editor.open
  /\ desk.list[id] # Absent
  /\ DeskAsk("archive", id, Absent)
  /\ UNCHANGED <<templates, desk, editor, deskMuddled>>

-----------------------------------------------------------------------------
(* The service.                                                            *)

DeskAnswer(s, ok) == deskCalls' = [deskCalls EXCEPT ![s].at = "answered", ![s].ok = ok]
TakenNames == {templates[id].text : id \in {i \in TemplateIds : templates[i] # Absent}}

\* list, and the list create reads before it inserts.
ServeList(s) ==
  /\ deskCalls[s].kind \in {"initial", "list"} /\ deskCalls[s].at = "sent"
  /\ deskCalls' = [deskCalls EXCEPT
       ![s].at = "answered", ![s].ok = TRUE, ![s].rows = templates]
  /\ UNCHANGED <<templates, desk, editor, deskMuddled, deskUsed>>

CheckName(s) ==
  /\ deskCalls[s].kind = "create" /\ deskCalls[s].at = "sent"
  /\ IF deskCalls[s].text \in TakenNames THEN DeskAnswer(s, FALSE)
     ELSE deskCalls' = [deskCalls EXCEPT ![s].at = "checked"]
  /\ UNCHANGED <<templates, desk, editor, deskMuddled, deskUsed>>

\* insertOne.  Its strategies are tried in turn until one answers; once a row of
\* this name is there, ours or another client's, none of them can.  ok tells
\* whether the answer of the insert that took effect reaches the service.
InsertTemplate(s, ok) ==
  /\ deskCalls[s].kind = "create" /\ deskCalls[s].at = "checked"
  /\ IF deskCalls[s].text \in TakenNames THEN ok /\ UNCHANGED templates /\ DeskAnswer(s, FALSE)
     ELSE /\ \E id \in TemplateIds :
               /\ templates[id] = Absent
               /\ templates' = [templates EXCEPT
                    ![id] = [text |-> deskCalls[s].text, active |-> TRUE]]
          /\ DeskAnswer(s, ok)

\* updateOne: a text whose name another row has is refused by the table.
UpdateTemplate(s, ok) ==
  /\ deskCalls[s].kind \in {"update", "archive"} /\ deskCalls[s].at = "sent"
  /\ LET id == deskCalls[s].id
         taken == deskCalls[s].kind = "update" /\ \E i \in TemplateIds \ {id} :
                    templates[i] # Absent /\ templates[i].text = deskCalls[s].text
     IN IF taken THEN ok /\ UNCHANGED templates /\ DeskAnswer(s, FALSE)
        ELSE /\ templates' = IF deskCalls[s].kind = "update"
                        THEN [templates EXCEPT ![id].text = deskCalls[s].text]
                        ELSE [templates EXCEPT ![id].active = FALSE]
             /\ DeskAnswer(s, ok)

DeskWrite(s) ==
  /\ InsertTemplate(s, TRUE) \/ UpdateTemplate(s, TRUE)
  /\ UNCHANGED <<desk, editor, deskMuddled, deskUsed>>

\* The change is made and its answer lost: in the driver, where every further
\* strategy fails, or on the way to the browser.
DeskWriteLost(s) ==
  /\ InsertTemplate(s, FALSE) \/ UpdateTemplate(s, FALSE)
  /\ DeskFault
  /\ UNCHANGED <<desk, editor, deskMuddled>>

\* A query throws, or the request never arrives.
DeskFails(s) ==
  /\ deskCalls[s].at \in {"sent", "checked"}
  /\ DeskFault
  /\ DeskAnswer(s, FALSE)
  /\ UNCHANGED <<templates, desk, editor, deskMuddled>>

\* Another client creates a template.
CreatedElsewhere ==
  /\ DeskFault
  /\ \E id \in TemplateIds, text \in Texts \ TakenNames :
       /\ templates[id] = Absent
       /\ templates' = [templates EXCEPT ![id] = [text |-> text, active |-> TRUE]]
  /\ deskMuddled' = TRUE
  /\ UNCHANGED <<desk, editor, deskCalls>>

-----------------------------------------------------------------------------
(* Answers reach the page.                                                 *)

\* allSettled: a list that failed leaves what is shown, without a word.
TemplatesListed(s) ==
  /\ deskCalls[s].kind \in {"initial", "list"} /\ deskCalls[s].at = "answered"
  /\ desk' = [list |-> IF deskCalls[s].ok THEN deskCalls[s].rows ELSE desk.list,
               loading |-> FALSE,
               refreshing |-> desk.refreshing /\ deskCalls[s].kind = "initial"]
  /\ deskMuddled' = (deskMuddled \/ ~deskCalls[s].ok)
  /\ deskCalls' = [deskCalls EXCEPT ![s] = Absent]
  /\ UNCHANGED <<templates, editor, deskUsed>>

\* A save that went well closes the editor, whatever is open in it by now.
TemplateSaved(s) ==
  /\ deskCalls[s].kind \in {"create", "update"} /\ deskCalls[s].at = "answered"
  /\ IF deskCalls[s].ok
     THEN editor' = [editor EXCEPT !.open = FALSE, !.saving = FALSE] /\ FetchTemplates(s)
     ELSE /\ editor' = [editor EXCEPT !.error = TRUE, !.saving = FALSE]
          /\ deskCalls' = [deskCalls EXCEPT ![s] = Absent]
          /\ deskMuddled' = TRUE
  /\ UNCHANGED <<templates, desk, deskUsed>>

\* Mutant: the list is not fetched again.
TemplateArchivedQuietly(s) ==
  /\ deskCalls[s].kind = "archive" /\ deskCalls[s].at = "answered"
  /\ deskCalls' = [deskCalls EXCEPT ![s] = Absent]
  /\ deskMuddled' = (deskMuddled \/ ~deskCalls[s].ok)
  /\ UNCHANGED <<templates, desk, editor, deskUsed>>

TemplateArchived(s) ==
  /\ deskCalls[s].kind = "archive" /\ deskCalls[s].at = "answered"
  /\ IF deskCalls[s].ok THEN FetchTemplates(s)
     ELSE deskCalls' = [deskCalls EXCEPT ![s] = Absent] /\ deskMuddled' = TRUE
  /\ UNCHANGED <<templates, desk, editor, deskUsed>>

\* The page is mounted on a table that may already have templates; loadInitial
\* is under way.
DeskTables ==
  {r \in [TemplateIds -> {[text |-> t, active |-> TRUE] : t \in Texts} \cup {Absent}] :
     \A i, j \in TemplateIds : r[i] # Absent /\ r[i] = r[j] => i = j}

DeskStart(tables) ==
  /\ templates \in tables
  /\ desk = [list |-> [id \in TemplateIds |-> Absent], loading |-> TRUE, refreshing |-> FALSE]
  /\ editor = [open |-> FALSE, id |-> Absent, form |-> Blank, error |-> FALSE, saving |-> FALSE,
               for |-> Absent]
  /\ LET first == CHOOSE s \in DeskSlots : TRUE
     IN  deskCalls = [s \in DeskSlots |->
                        IF s = first THEN NewCall("initial", Absent, Absent) ELSE Absent]
  /\ deskMuddled = FALSE
  /\ deskUsed = [calls |-> 0, faults |-> 0]

DeskInit == DeskStart(DeskTables)

DeskNext ==
  \/ DeskRefresh \/ OpenCreate \/ CloseEditor \/ SaveTemplate \/ CreatedElsewhere
  \/ \E id \in TemplateIds : OpenEdit(id) \/ ArchiveTemplate(id)
  \/ \E text \in Texts : EditText(text)
  \/ \E s \in {i \in DeskSlots : deskCalls[i] # Absent} :
       \/ ServeList(s) \/ CheckName(s) \/ DeskWrite(s) \/ DeskWriteLost(s) \/ DeskFails(s)
       \/ TemplatesListed(s) \/ TemplateSaved(s) \/ TemplateArchived(s)

DeskSpec == DeskInit /\ [][DeskNext]_deskVars

-----------------------------------------------------------------------------
(* Properties.                                                             *)

DeskTypeOK ==
  /\ templates \in Table
  /\ desk \in [list : Table, loading : BOOLEAN, refreshing : BOOLEAN]
  /\ editor \in [open : BOOLEAN, id : TemplateIds \cup {Absent}, form : Texts \cup {Blank},
                 error : BOOLEAN, saving : BOOLEAN, for : TemplateIds \cup {Absent}]
  /\ deskCalls \in [DeskSlots -> DeskCall \cup {Absent}]
  /\ deskMuddled \in BOOLEAN
  /\ deskUsed \in [calls : 0..MaxDeskCalls, faults : 0..MaxDeskFaults]

\* A template's text changes only by the save of an editor opened for it, to what
\* that editor said: however saves, closings and late answers interleave, no text
\* typed for one template lands in another.
SavedWhereShown ==
  [][\A id \in TemplateIds :
       templates[id] # Absent /\ templates'[id] # Absent /\ templates'[id].text # templates[id].text =>
       \E s \in DeskSlots :
         /\ deskCalls[s] # Absent /\ deskCalls'[s] # Absent /\ deskCalls'[s].at = "answered"
         /\ deskCalls[s].for = id /\ deskCalls[s].text = templates'[id].text]_deskVars

\* Once nothing is in flight the list shows the table, unless two refreshes
\* crossed, a call failed or another client made a change since.
ListCatchesUp ==
  (\A s \in DeskSlots : deskCalls[s] = Absent) /\ ~deskMuddled => desk.list = templates
=============================================================================
