---------------------------- MODULE TemplatePreview ----------------------------
(***************************************************************************)
(* The preview modal of src/frontend/src/app/templates/page.tsx, over      *)
(* preview of src/backend/src/templates/templates.service.ts.  A rendered  *)
(* text is the template and the customer it is of; the list of templates   *)
(* and the editor are TemplateDesk.                                        *)
(***************************************************************************)
EXTENDS Integers

CONSTANTS
  Viewed,             \* templates of the page
  Recipients,         \* customers, once they are loaded
  RenderSlots,        \* bound: previews under way
  RosterSlots,        \* bound: loads of the customers under way
  MaxRenders,         \* bound: previews asked for, and refreshes
  MaxRenderFaults,    \* bound: calls that fail
  Nobody              \* null, or the empty text

ASSUME PreviewAssumption ==
  /\ Nobody \notin Viewed \cup Recipients
  /\ MaxRenders \in Nat /\ MaxRenderFaults \in Nat

VARIABLES
  viewer,        \* the modal: open, its template, the customer selected, data, loading
  renders,       \* the previews under way
  rosters,       \* the loads of the customers under way, each with the customer that
                 \* was selected when its handler began
  crossed,       \* history: previews crossed, or the selection was reset, since the
                 \* last preview that began alone
  renderUsed     \* calls and faults so far

previewVars == <<viewer, renders, rosters, crossed, renderUsed>>

Rendering == [template : Viewed, customer : Recipients]
Roster == [seen : Recipients \cup {Nobody}]
RenderFault == renderUsed.faults < MaxRenderFaults /\ renderUsed' = [renderUsed EXCEPT !.faults = @ + 1]
RenderSpend == renderUsed.calls < MaxRenders /\ renderUsed' = [renderUsed EXCEPT !.calls = @ + 1]

\* api.templates.preview is called.
AskPreview(template, customer) ==
  \E s \in RenderSlots :
    /\ renders[s] = Nobody
    /\ renders' = [renders EXCEPT ![s] = [template |-> template, customer |-> customer]]
    /\ crossed' = (\E r \in RenderSlots : renders[r] # Nobody)

\* Without a customer the template's own text is shown.
HandleOpenPreview(template) ==
  /\ ~viewer.open
  /\ RenderSpend
  /\ viewer' = [viewer EXCEPT !.open = TRUE, !.template = template,
                              !.loading = viewer.customer # Nobody]
  /\ IF viewer.customer # Nobody THEN AskPreview(template, viewer.customer)
     ELSE UNCHANGED <<renders, crossed>>
  /\ UNCHANGED rosters

\* The select has the customers as options once they are loaded.
HandlePreviewCustomerChange(customer) ==
  /\ viewer.open /\ viewer.customer \notin {Nobody, customer}
  /\ RenderSpend
  /\ viewer' = [viewer EXCEPT !.customer = customer, !.loading = TRUE]
  /\ AskPreview(viewer.template, customer)
  /\ UNCHANGED rosters

ClosePreview ==
  /\ viewer.open
  /\ viewer' = [viewer EXCEPT !.open = FALSE]
  /\ UNCHANGED <<renders, rosters, crossed, renderUsed>>

\* The server has rendered, and the answer is shown whatever is selected by now.
PreviewRendered(s) ==
  /\ renders[s] # Nobody
  /\ viewer' = [viewer EXCEPT !.data = renders[s], !.loading = FALSE]
  /\ renders' = [renders EXCEPT ![s] = Nobody]
  /\ UNCHANGED <<rosters, crossed, renderUsed>>

\* Mutant: a preview that failed leaves what was rendered before.
PreviewFailsKeepingData(s) ==
  /\ renders[s] # Nobody
  /\ RenderFault
  /\ viewer' = [viewer EXCEPT !.loading = FALSE]
  /\ renders' = [renders EXCEPT ![s] = Nobody]
  /\ UNCHANGED <<rosters, crossed>>

\* The template or the customer is not there, or the call fails.
PreviewFails(s) ==
  /\ renders[s] # Nobody
  /\ RenderFault
  /\ viewer' = [viewer EXCEPT !.data = Nobody, !.loading = FALSE]
  /\ renders' = [renders EXCEPT ![s] = Nobody]
  /\ UNCHANGED <<rosters, crossed>>

-----------------------------------------------------------------------------
(* The customers of the select.                                            *)

\* handleRefresh, or a save or an archiving at whose end the list is fetched again:
\* the handler keeps the fetch of its render, and with it the customer selected
\* then.  Nothing keeps two of them apart, nor from the preview.
RefreshRecipients ==
  /\ RenderSpend
  /\ \E r \in RosterSlots :
       rosters[r] = Nobody /\ rosters' = [rosters EXCEPT ![r] = [seen |-> viewer.customer]]
  /\ UNCHANGED <<viewer, renders, crossed>>

\* A load selects the first customer if none was selected when it began, as none
\* is for the initial load: it takes back what was chosen meanwhile.  The list may
\* be empty, and it may have changed.
RecipientsLoaded(r) ==
  /\ rosters[r] # Nobody
  /\ \E first \in Recipients \cup {Nobody} :
       viewer' = IF first # Nobody /\ rosters[r].seen = Nobody
                 THEN [viewer EXCEPT !.customer = first] ELSE viewer
  /\ rosters' = [rosters EXCEPT ![r] = Nobody]
  /\ crossed' = (crossed \/ viewer.customer \notin {Nobody, viewer'.customer})
  /\ UNCHANGED <<renders, renderUsed>>

\* The call fails, or the save before it did.
RecipientsFail(r) ==
  /\ rosters[r] # Nobody
  /\ RenderFault
  /\ rosters' = [rosters EXCEPT ![r] = Nobody]
  /\ UNCHANGED <<viewer, renders, crossed>>

PreviewInit ==
  /\ viewer = [open |-> FALSE, template |-> Nobody, customer |-> Nobody, data |-> Nobody,
               loading |-> FALSE]
  /\ renders = [s \in RenderSlots |-> Nobody]
  /\ LET first == CHOOSE r \in RosterSlots : TRUE
     IN  rosters = [r \in RosterSlots |-> IF r = first THEN [seen |-> Nobody] ELSE Nobody]
  /\ crossed = FALSE
  /\ renderUsed = [calls |-> 0, faults |-> 0]

PreviewNext ==
  \/ \E template \in Viewed : HandleOpenPreview(template)
  \/ \E customer \in Recipients : HandlePreviewCustomerChange(customer)
  \/ ClosePreview \/ RefreshRecipients
  \/ \E s \in RenderSlots : PreviewRendered(s) \/ PreviewFails(s)
  \/ \E r \in RosterSlots : RecipientsLoaded(r) \/ RecipientsFail(r)

PreviewSpec == PreviewInit /\ [][PreviewNext]_previewVars

-----------------------------------------------------------------------------
(* Properties.                                                             *)

PreviewTypeOK ==
  /\ viewer \in [open : BOOLEAN, template : Viewed \cup {Nobody}, customer : Recipients \cup {Nobody},
                 data : Rendering \cup {Nobody}, loading : BOOLEAN]
  /\ renders \in [RenderSlots -> Rendering \cup {Nobody}]
  /\ rosters \in [RosterSlots -> Roster \cup {Nobody}]
  /\ crossed \in BOOLEAN
  /\ renderUsed \in [calls : 0..MaxRenders, faults : 0..MaxRenderFaults]

\* The bubble under a template's title never holds the text of another template, or
\* the name of another customer than the one selected, however the modal is
\* closed and opened again, its calls fail and the customers are loaded again
\* meanwhile, unless two previews crossed, or a load that began with nobody
\* selected, the initial one or a refresh during it, took the selection back.
PreviewIsOfItsTemplate ==
  viewer.open /\ ~viewer.loading /\ viewer.data # Nobody /\ ~crossed =>
    viewer.data = [template |-> viewer.template, customer |-> viewer.customer]
=============================================================================
