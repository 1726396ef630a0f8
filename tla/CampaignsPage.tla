----------------------------- MODULE CampaignsPage -----------------------------
(***************************************************************************)
(* The wizard of src/frontend/src/app/campaigns/page.tsx and the campaigns *)
(* it makes on the server.  The table's buttons follow rows that may be    *)
(* old in any way: start is offered for every campaign there is.  What a   *)
(* campaign does once it is started is CampaignEngine.                     *)
(***************************************************************************)
EXTENDS Integers, FiniteSets

CONSTANTS
  People,           \* the customers there are
  ListedPeople,     \* those api.customers.list() returns: the first page
  Campaigns,        \* bound: campaigns made
  Flights,          \* bound: submissions under way
  MaxOpenings,      \* bound: times the wizard is opened
  MaxPageFaults,    \* bound: calls that fail, or whose answer is lost
  Nothing           \* null

ASSUME PageAssumption ==
  /\ ListedPeople \subseteq People /\ IsFiniteSet(Campaigns)
  /\ MaxOpenings \in Nat /\ MaxPageFaults \in Nat

VARIABLES
  listed,      \* the customers the page knows
  wizard,      \* its state; opening counts how often it was opened
  flight,      \* handleCreateAndStartCampaign: await point and locals
  made,        \* Campaign: for whom, from which opening, and who started it
  pageFaults   \* history: faults so far, and the openings with a lost start

pageVars == <<listed, wizard, flight, made, pageFaults>>

Flight == [pc : {"creating", "starting", "fetching"}, auto : BOOLEAN,
           people : SUBSET People, opening : 1..MaxOpenings, id : Campaigns \cup {Nothing}]
CampaignRow == [people : SUBSET People, opening : 1..MaxOpenings,
                by : {"nobody", "wizard", "table"}]

\* loadInitial, handleRefresh and the polls: a list that failed leaves what is
\* shown, without a word.
ListLoaded ==
  /\ listed' \in {ListedPeople, listed}
  /\ UNCHANGED <<wizard, flight, made, pageFaults>>

-----------------------------------------------------------------------------
(* The wizard.                                                             *)

\* Every customer the page knows is selected, and its first template.
HandleOpenWizard ==
  /\ ~wizard.open /\ wizard.opening < MaxOpenings
  /\ \E template \in BOOLEAN :
       wizard' = [wizard EXCEPT !.open = TRUE, !.opening = @ + 1, !.step = 1, !.named = TRUE,
                                !.template = template, !.picked = listed, !.error = FALSE]
  /\ UNCHANGED <<listed, flight, made, pageFaults>>

\* Cancel, Escape, the backdrop, or the link to the templates, also while a
\* submission is under way, which goes on.
CloseWizard ==
  /\ wizard.open
  /\ wizard' = [wizard EXCEPT !.open = FALSE]
  /\ UNCHANGED <<listed, flight, made, pageFaults>>

\* Step 1: the name is typed or cleared, or a template of the list is chosen.
EditStep1 ==
  /\ wizard.open /\ wizard.step = 1
  /\ \/ wizard' = [wizard EXCEPT !.named = ~@]
     \/ wizard' = [wizard EXCEPT !.template = TRUE]
  /\ UNCHANGED <<listed, flight, made, pageFaults>>

\* toggleCustomer, and toggleSelectAllFiltered for what the search leaves over.
ToggleCustomers(filtered) ==
  /\ wizard.open /\ wizard.step = 2
  /\ wizard' = [wizard EXCEPT !.picked = IF filtered \subseteq @ THEN @ \ filtered ELSE @ \cup filtered]
  /\ UNCHANGED <<listed, flight, made, pageFaults>>

NextStep ==
  /\ wizard.open /\ wizard.step < 4
  /\ IF (wizard.step = 1 /\ ~wizard.template) \/ (wizard.step = 2 /\ wizard.picked = {})
     THEN wizard' = [wizard EXCEPT !.error = TRUE]
     ELSE wizard' = [wizard EXCEPT !.error = FALSE, !.step = @ + 1]
  /\ UNCHANGED <<listed, flight, made, pageFaults>>

Back ==
  /\ wizard.open /\ wizard.step > 1
  /\ wizard' = [wizard EXCEPT !.step = @ - 1]
  /\ UNCHANGED <<listed, flight, made, pageFaults>>

-----------------------------------------------------------------------------
(* Save as Draft and Start Broadcast Now.                                  *)

\* Mutant: the buttons stay enabled while a submission is under way.
SubmitEnabledAlways == wizard.open /\ wizard.step = 4

SubmitEnabled == wizard.open /\ wizard.step = 4 /\ ~wizard.creating

HandleCreateAndStart(auto) ==
  /\ SubmitEnabled
  /\ IF wizard.named /\ wizard.template /\ wizard.picked # {}
     THEN /\ wizard' = [wizard EXCEPT !.creating = TRUE, !.error = FALSE]
          /\ \E f \in Flights :
               /\ flight[f] = Nothing
               /\ flight' = [flight EXCEPT ![f] =
                    [pc |-> "creating", auto |-> auto, people |-> wizard.picked,
                     opening |-> wizard.opening, id |-> Nothing]]
     ELSE wizard' = [wizard EXCEPT !.error = TRUE] /\ UNCHANGED flight
  /\ UNCHANGED <<listed, made, pageFaults>>

\* The catch block: the wizard, whichever opening it is by now, shows the error.
SubmissionFails(f) ==
  /\ wizard' = [wizard EXCEPT !.error = TRUE, !.creating = FALSE]
  /\ flight' = [flight EXCEPT ![f] = Nothing]

\* Everything is done but the lists: the wizard is closed.
Fetch(f, id) ==
  /\ wizard' = [wizard EXCEPT !.open = FALSE]
  /\ flight' = [flight EXCEPT ![f].pc = "fetching", ![f].id = id]

Insert(f, id) ==
  made' = [made EXCEPT ![id] = [people |-> flight[f].people, opening |-> flight[f].opening,
                                by |-> "nobody"]]

\* POST /campaigns is served and answered.
Created(f) ==
  /\ flight[f].pc = "creating"
  /\ \E id \in Campaigns :
       /\ made[id] = Nothing /\ Insert(f, id)
       /\ IF flight[f].auto
          THEN /\ flight' = [flight EXCEPT ![f].pc = "starting", ![f].id = id]
               /\ UNCHANGED wizard
          ELSE Fetch(f, id)
  /\ UNCHANGED <<listed, pageFaults>>

\* POST /campaigns/:id/start is served and answered.  The table may have been
\* faster, in which case the server refuses.
Started(f) ==
  /\ flight[f].pc = "starting"
  /\ IF made[flight[f].id].by = "nobody"
     THEN made' = [made EXCEPT ![flight[f].id].by = "wizard"] /\ Fetch(f, flight[f].id)
     ELSE UNCHANGED made /\ SubmissionFails(f)
  /\ UNCHANGED <<listed, pageFaults>>

\* A call fails, with or without having been served.
CallFails(f) ==
  /\ pageFaults.count < MaxPageFaults
  /\ flight[f].pc \in {"creating", "starting"}
  /\ SubmissionFails(f)
  /\ \/ /\ UNCHANGED made
        /\ pageFaults' = [pageFaults EXCEPT !.count = @ + 1]
     \/ /\ flight[f].pc = "creating"
        /\ \E id \in Campaigns : made[id] = Nothing /\ Insert(f, id)
        /\ pageFaults' = [pageFaults EXCEPT !.count = @ + 1]
     \/ /\ flight[f].pc = "starting" /\ made[flight[f].id].by = "nobody"
        /\ made' = [made EXCEPT ![flight[f].id].by = "wizard"]
        /\ pageFaults' = [count |-> pageFaults.count + 1,
                          lost |-> pageFaults.lost \cup {flight[f].opening}]
  /\ UNCHANGED listed

\* fetchData and finally.
Fetched(f) ==
  /\ flight[f].pc = "fetching"
  /\ listed' \in {ListedPeople, listed}
  /\ wizard' = [wizard EXCEPT !.creating = FALSE]
  /\ flight' = [flight EXCEPT ![f] = Nothing]
  /\ UNCHANGED <<made, pageFaults>>

\* handleCampaignAction, start: the table's button does not wait for anything.
StartFromTable(id) ==
  /\ made[id] # Nothing /\ made[id].by = "nobody"
  /\ made' = [made EXCEPT ![id].by = "table"]
  /\ UNCHANGED <<listed, wizard, flight, pageFaults>>

PageInit ==
  /\ listed = {}
  /\ wizard = [open |-> FALSE, opening |-> 0, step |-> 1, named |-> FALSE, template |-> FALSE,
               picked |-> {}, creating |-> FALSE, error |-> FALSE]
  /\ flight = [f \in Flights |-> Nothing]
  /\ made = [id \in Campaigns |-> Nothing]
  /\ pageFaults = [count |-> 0, lost |-> {}]

PageNext ==
  \/ ListLoaded \/ HandleOpenWizard \/ CloseWizard \/ EditStep1 \/ NextStep \/ Back
  \/ \E filtered \in SUBSET listed : ToggleCustomers(filtered)
  \/ \E auto \in BOOLEAN : HandleCreateAndStart(auto)
  \/ \E f \in {g \in Flights : flight[g] # Nothing} :
       Created(f) \/ Started(f) \/ CallFails(f) \/ Fetched(f)
  \/ \E id \in Campaigns : StartFromTable(id)

PageSpec == PageInit /\ [][PageNext]_pageVars

-----------------------------------------------------------------------------
(* Properties.                                                             *)

PageTypeOK ==
  /\ listed \subseteq People
  /\ wizard \in [open : BOOLEAN, opening : 0..MaxOpenings, step : 1..4, named : BOOLEAN,
                 template : BOOLEAN, picked : SUBSET People, creating : BOOLEAN, error : BOOLEAN]
  /\ flight \in [Flights -> Flight \cup {Nothing}]
  /\ made \in [Campaigns -> CampaignRow \cup {Nothing}]
  /\ pageFaults \in [count : 0..MaxPageFaults, lost : SUBSET (1..MaxOpenings)]

\* One opening of the wizard starts one broadcast at most, however it is closed
\* and opened again under a submission and however calls fail and are repeated,
\* unless the answer to a start was lost.
WizardSendsOnce ==
  \A opening \in 1..MaxOpenings \ pageFaults.lost :
    Cardinality({id \in Campaigns : /\ made[id] # Nothing
                                    /\ made[id].opening = opening /\ made[id].by = "wizard"}) <= 1
=============================================================================
