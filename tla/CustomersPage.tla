----------------------------- MODULE CustomersPage -----------------------------
(***************************************************************************)
(* The customers page, src/frontend/src/app/customers/page.tsx: its list,  *)
(* the upload dialog and the quick send, over list of                      *)
(* src/backend/src/customers/customers.service.ts.                         *)
(*                                                                         *)
(* A query is a filter (search and status) and a page number, and of the   *)
(* table only the number of customers each filter finds is kept.  Pages    *)
(* hold one customer: a page is empty when it lies beyond the number.      *)
(***************************************************************************)
EXTENDS Integers

CONSTANTS
  Filters,        \* what can be searched and filtered for
  SheetFiles,     \* files the operator may choose
  MaxFound,       \* bound: customers a filter finds
  ListSlots,      \* bound: list calls in flight
  MaxActs,        \* bound: what the operator does on the page
  MaxDialogActs,  \* bound: and in the upload dialog
  MaxRowChanges,  \* bound: changes of the table, and failures
  Missing         \* null

ASSUME CustomersAssumption ==
  /\ Filters # {}
  /\ MaxFound \in Nat \ {0} /\ MaxActs \in Nat /\ MaxDialogActs \in Nat /\ MaxRowChanges \in Nat

VARIABLES
  found,       \* how many customers each filter finds now
  query,       \* appliedSearch, statusFilter and page
  due,         \* the query changed and the effect has not run
  rows,        \* customers and meta: what is shown, and the error banner
  lists,       \* the list calls in flight
  upload,      \* the state of the upload dialog
  work,        \* the preview, the import and the quick send in flight
  mixed,       \* history: an answer was overtaken, or asked for an old query
  swapped,     \* history: another file was chosen under a preview
  acts         \* how much of each bound is spent

customersVars == <<found, query, due, rows, lists, upload, work, mixed, swapped, acts>>
listVars == <<query, due, rows, lists, mixed>>
dialogVars == <<upload, swapped>>

Query == [filter : Filters, page : 1..MaxFound]
ListCall == [q : Query, total : 0..MaxFound, got : 0..1, newest : BOOLEAN,
             at : {"sent", "counted", "answered"}]

ASSUME MissingAssumption == Missing \notin ListCall \cup Query \cup SheetFiles

TotalPages(total) == IF total = 0 THEN 1 ELSE total

\* What the card of the list shows under its filters, and what the dialog shows under
\* the file that was chosen.
ListShows == IF rows.got = 0 THEN "empty" ELSE "table"
DialogShows ==
  CASE upload.result -> "result"
    [] ~upload.result /\ upload.report # Missing -> "report"
    [] OTHER -> "nothing"

\* The operator acts on the page, which the upload dialog covers, or in the dialog.
Act == ~upload.open /\ acts.page < MaxActs /\ acts' = [acts EXCEPT !.page = @ + 1]
DialogAct ==
  upload.open /\ acts.dialog < MaxDialogActs /\ acts' = [acts EXCEPT !.dialog = @ + 1]
Change == acts.changes < MaxRowChanges /\ acts' = [acts EXCEPT !.changes = @ + 1]
Listing == {s \in ListSlots : lists[s] # Missing}

\* fetchCustomers, of the render that knew query q, is called.
FetchCustomers(q) ==
  /\ Listing # ListSlots
  /\ LET s == CHOOSE t \in ListSlots : lists[t] = Missing
     IN lists' = [t \in ListSlots |->
          IF t = s THEN [q |-> q, total |-> 0, got |-> 0, newest |-> TRUE, at |-> "sent"]
          ELSE IF lists[t] = Missing THEN Missing ELSE [lists[t] EXCEPT !.newest = FALSE]]
  /\ mixed' = (q # query \/ (mixed /\ Listing # {}))

-----------------------------------------------------------------------------
(* The list.                                                               *)

\* Mutant: a new filter keeps the page, and the effect does not follow it.
SetQueryQuietly(filter, page) ==
  /\ query' = [filter |-> filter, page |-> page]
  /\ UNCHANGED due

SetQuery(filter, page) ==
  /\ query' = [filter |-> filter, page |-> page]
  /\ due' = (due \/ query' # query)

\* handleSearchSubmit, handleStatusChange and the page size: back to page 1.
ApplyFilter(filter) ==
  /\ Act
  /\ SetQuery(filter, 1)
  /\ UNCHANGED <<found, rows, lists, mixed, dialogVars, work>>

\* Prev and Next look at the page shown, not at the one asked for.
PrevPage ==
  /\ Act /\ rows.total > 0 /\ rows.q.page > 1
  /\ SetQuery(query.filter, IF query.page > 1 THEN query.page - 1 ELSE 1)
  /\ UNCHANGED <<found, rows, lists, mixed, dialogVars, work>>

\* Mutant: clicked twice, Next passes the last page.
NextPageUnclamped ==
  /\ Act /\ rows.total > 0 /\ rows.q.page < TotalPages(rows.total)
  /\ SetQuery(query.filter, query.page + 1)
  /\ UNCHANGED <<found, rows, lists, mixed, dialogVars, work>>

NextPage ==
  /\ Act /\ rows.total > 0 /\ rows.q.page < TotalPages(rows.total)
  /\ SetQuery(query.filter, IF query.page < TotalPages(rows.total) THEN query.page + 1
                            ELSE TotalPages(rows.total))
  /\ UNCHANGED <<found, rows, lists, mixed, dialogVars, work>>

\* The effect that follows the query.
FetchEffect ==
  /\ due /\ due' = FALSE
  /\ FetchCustomers(query)
  /\ UNCHANGED <<found, query, rows, dialogVars, work, acts>>

RefreshCustomers ==
  /\ Act
  /\ FetchCustomers(query)
  /\ UNCHANGED <<found, query, due, rows, dialogVars, work>>

\* list counts, and then reads the page.
CountRows(s) ==
  /\ lists[s].at = "sent"
  /\ lists' = [lists EXCEPT ![s].at = "counted", ![s].total = found[lists[s].q.filter]]
  /\ UNCHANGED <<found, query, due, rows, mixed, dialogVars, work, acts>>

ReadRows(s) ==
  /\ lists[s].at = "counted"
  /\ lists' = [lists EXCEPT ![s].at = "answered",
       ![s].got = IF lists[s].q.page <= found[lists[s].q.filter] THEN 1 ELSE 0]
  /\ UNCHANGED <<found, query, due, rows, mixed, dialogVars, work, acts>>

\* The answer is shown, whatever was asked since; beyond the last page the page
\* is set to the last.
CustomersFetched(s) ==
  /\ lists[s].at = "answered"
  /\ rows' = [q |-> lists[s].q, total |-> lists[s].total, got |-> lists[s].got, error |-> FALSE]
  /\ IF lists[s].q.page > TotalPages(lists[s].total)
     THEN SetQuery(query.filter, TotalPages(lists[s].total))
     ELSE UNCHANGED <<query, due>>
  /\ mixed' = (mixed \/ ~lists[s].newest)
  /\ lists' = [lists EXCEPT ![s] = Missing]
  /\ UNCHANGED <<found, dialogVars, work, acts>>

FetchFails(s) ==
  /\ Change
  /\ rows' = [rows EXCEPT !.error = TRUE]
  /\ lists' = [lists EXCEPT ![s] = Missing]
  /\ UNCHANGED <<found, query, due, mixed, dialogVars, work>>

\* An import elsewhere, or a send that changes the status of a customer.  A count
\* that has not been read out yet is then about another table than the page.
RowsChange ==
  /\ Change
  /\ \E f \in Filters, n \in 0..MaxFound : found' = [found EXCEPT ![f] = n]
  /\ mixed' = TRUE
  /\ UNCHANGED <<query, due, rows, lists, dialogVars, work>>

-----------------------------------------------------------------------------
(* The upload dialog: preview, then confirm.  Its error notice is left out. *)

NoReport == [open |-> TRUE, file |-> Missing, report |-> Missing, result |-> FALSE]

\* What is under way goes on under a dialog that is closed and opened again.
OpenUpload ==
  /\ Act
  /\ upload' = NoReport
  /\ swapped' = (swapped \/ work.preview # Missing)
  /\ UNCHANGED <<found, listVars, work>>

\* The button of an empty list shows the dialog as it was left.
ReopenUpload ==
  /\ Act /\ ListShows = "empty" /\ rows.total = 0
  /\ upload' = [upload EXCEPT !.open = TRUE]
  /\ UNCHANGED <<found, listVars, work, swapped>>

CloseUpload ==
  /\ DialogAct
  /\ upload' = [upload EXCEPT !.open = FALSE]
  /\ UNCHANGED <<found, listVars, work, swapped>>

\* Mutant: the report on the file chosen before stays.
HandleFileChangeKeepsReport(file) ==
  /\ DialogAct
  /\ upload' = [upload EXCEPT !.file = file, !.result = FALSE]
  /\ swapped' = (swapped \/ work.preview # Missing)
  /\ UNCHANGED <<found, listVars, work>>

HandleFileChange(file) ==
  /\ DialogAct
  /\ upload' = [NoReport EXCEPT !.file = file]
  /\ swapped' = (swapped \/ work.preview # Missing)
  /\ UNCHANGED <<found, listVars, work>>

\* Parse & Preview, and Re-preview; neither is shown beside a result.
HandlePreview ==
  /\ DialogAct /\ DialogShows # "result"
  /\ upload.file # Missing /\ work.preview = Missing
  /\ work' = [work EXCEPT !.preview = upload.file]
  /\ UNCHANGED <<found, listVars, dialogVars>>

Previewed(ok) ==
  /\ work.preview # Missing
  /\ IF ok THEN /\ upload' = [upload EXCEPT !.report = work.preview]
                /\ swapped' = (swapped /\ work.preview # upload.file)
                /\ UNCHANGED acts
     ELSE Change /\ UNCHANGED dialogVars
  /\ work' = [work EXCEPT !.preview = Missing]
  /\ UNCHANGED <<found, listVars>>

\* Confirm & Import, under a report with a valid row: the file chosen is sent.  The
\* closure keeps the query of this render.
HandleConfirmImport ==
  /\ DialogAct /\ DialogShows = "report"
  /\ work.import = Missing /\ upload.file # Missing
  /\ work' = [work EXCEPT !.import = query]
  /\ UNCHANGED <<found, listVars, dialogVars>>

\* Imported: the table grows, the result is shown and the list fetched again.
Imported ==
  /\ work.import # Missing
  /\ \E f \in Filters, n \in 0..MaxFound :
       found[f] <= n /\ found' = [found EXCEPT ![f] = n]
  /\ upload' = [upload EXCEPT !.result = TRUE]
  /\ FetchCustomers(work.import)
  /\ work' = [work EXCEPT !.import = Missing]
  /\ UNCHANGED <<query, due, rows, swapped, acts>>

\* The call fails; what it may have stored all the same, RowsChange covers.
ImportFails ==
  /\ work.import # Missing
  /\ Change
  /\ work' = [work EXCEPT !.import = Missing]
  /\ UNCHANGED <<found, listVars, dialogVars>>

-----------------------------------------------------------------------------
(* Details & Send.                                                         *)

\* A customer of the list is opened, a template is there, nothing is being sent.
HandleSendSingleMessage ==
  /\ Act /\ ListShows = "table"
  /\ work.send = Missing
  /\ work' = [work EXCEPT !.send = query]
  /\ UNCHANGED <<found, listVars, dialogVars>>

\* A send that went well fetches the list again; else there is only a notice.
SentSingle(ok) ==
  /\ work.send # Missing
  /\ IF ok THEN FetchCustomers(work.send) /\ UNCHANGED <<query, due, rows>>
     ELSE UNCHANGED listVars
  /\ work' = [work EXCEPT !.send = Missing]
  /\ UNCHANGED <<found, dialogVars, acts>>

CustomersStart(founds) ==
  /\ found \in founds
  /\ query = [filter |-> CHOOSE f \in Filters : TRUE, page |-> 1]
  /\ due = TRUE
  /\ rows = [q |-> query, total |-> 0, got |-> 0, error |-> FALSE]
  /\ lists = [s \in ListSlots |-> Missing]
  /\ upload = [NoReport EXCEPT !.open = FALSE]
  /\ work = [preview |-> Missing, import |-> Missing, send |-> Missing]
  /\ mixed = FALSE /\ swapped = FALSE
  /\ acts = [page |-> 0, dialog |-> 0, changes |-> 0]

CustomersInit == CustomersStart([Filters -> 0..MaxFound])

CustomersNext ==
  \/ \E filter \in Filters : ApplyFilter(filter)
  \/ PrevPage \/ NextPage \/ FetchEffect \/ RefreshCustomers \/ RowsChange
  \/ \E s \in Listing : CountRows(s) \/ ReadRows(s) \/ CustomersFetched(s) \/ FetchFails(s)
  \/ OpenUpload \/ ReopenUpload \/ CloseUpload
  \/ HandlePreview \/ HandleConfirmImport \/ Imported \/ ImportFails
  \/ \E file \in SheetFiles : HandleFileChange(file)
  \/ \E ok \in BOOLEAN : Previewed(ok) \/ SentSingle(ok)
  \/ HandleSendSingleMessage

CustomersSpec == CustomersInit /\ [][CustomersNext]_customersVars

-----------------------------------------------------------------------------
(* Properties.                                                             *)

Rows == [q : Query, total : 0..MaxFound, got : 0..1, error : BOOLEAN]
File == SheetFiles \cup {Missing}

CustomersTypeOK ==
  /\ found \in [Filters -> 0..MaxFound]
  /\ query \in Query /\ due \in BOOLEAN /\ rows \in Rows
  /\ lists \in [ListSlots -> ListCall \cup {Missing}]
  /\ upload \in [open : BOOLEAN, file : File, report : File, result : BOOLEAN]
  /\ work \in [preview : File, import : Query \cup {Missing}, send : Query \cup {Missing}]
  /\ mixed \in BOOLEAN /\ swapped \in BOOLEAN
  /\ acts \in [page : 0..MaxActs, dialog : 0..MaxDialogActs, changes : 0..MaxRowChanges]

\* Once nothing is under way the list answers the filter and the page that are
\* set, and is not an empty page of a list that has customers: unless an older
\* answer overtook, a closure asked for a former query, or the table changed
\* under the count.
ListFollowsQuery ==
  ~due /\ Listing = {} /\ ~mixed /\ ~rows.error =>
    rows.q = query /\ (rows.total > 0 => rows.got > 0)

\* What is imported is the file whose report was on the screen when the operator
\* confirmed, unless another file was chosen while a preview was under way.
ImportedWasPreviewed ==
  [][work.import = Missing /\ work'.import # Missing /\ ~swapped =>
       upload.report = upload.file]_customersVars
=============================================================================
