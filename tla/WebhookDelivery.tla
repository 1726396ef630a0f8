--------------------------- MODULE WebhookDelivery ---------------------------
(***************************************************************************)
(* Delivery status events of Meta applied to one Message row, next to the  *)
(* sender of that message:                                                 *)
(* src/backend/src/webhooks/webhooks.service.ts (process, applyStatusEvent)*)
(* and the writes of deliver and retryFailed in                            *)
(* campaigns/campaigns.service.ts.                                         *)
(*                                                                         *)
(* Meta may post any events of a send it accepted, in any order and any    *)
(* number of times, several POSTs at once.  The rows of a table do not     *)
(* interact here, so one row is enough.  One send and one retry run at a   *)
(* time.  For a direct send (messages/messages.service.ts), which inserts  *)
(* its row after the send, PENDING without an id stands for the row that   *)
(* is not there.                                                           *)
(***************************************************************************)
EXTENDS DeliveryPolicy, Sequences

CONSTANTS
  Posts,         \* POST slots: how many webhook calls may be processed at once
  MaxEvents,     \* MAX_EVENTS_PER_REQUEST
  PostSize,      \* bound: events in one POST
  MaxPosts,      \* bound: POSTs in a behaviour
  MaxSends,      \* bound: send attempts in a behaviour
  MaxRetries,    \* bound: retries of the row in a behaviour
  MaxFaults,     \* bound: database operations that throw
  MaxCrashes,    \* bound: crashes of the process
  Inherited,     \* TRUE: the row may be legacy data of an earlier version
  None           \* null

ASSUME LimitsAssumption == MaxEvents \in Nat \ {0} /\ PostSize \in Nat
ASSUME BoundsAssumption ==
  /\ MaxPosts \in Nat /\ MaxSends \in Nat /\ MaxRetries \in Nat
  /\ MaxFaults \in Nat /\ MaxCrashes \in Nat
ASSUME InheritedAssumption == Inherited \in BOOLEAN
ASSUME NoneAssumption == None \notin Nat /\ None \notin DeliveryStatus \cup {"LEGACY"}

VARIABLES
  row,       \* the Message row: status, whatsappId, lifecycle times
  sender,    \* the send attempt under way, the ids Meta has given out, and whether
             \* a retry has read the row as failed
  post,      \* the POST slots: await point and local variables
  budget,    \* how much of each bound is spent
  history    \* the status the sender left, and the statuses reported since

vars == <<row, sender, post, budget, history>>

Ids == 1..MaxSends
Event == [id : Ids \cup {None}, status : RawStatus]
Time == 0..MaxPosts      \* 0: written by the sender; n: the n-th POST

-----------------------------------------------------------------------------
(* The sender.                                                             *)

\* A PENDING row is fetched and its send goes out.
SendStart ==
  /\ sender.pc = "idle"
  /\ row.status = "PENDING"
  /\ budget.sends < MaxSends
  /\ sender' = [sender EXCEPT !.pc = "sending"]
  /\ budget' = [budget EXCEPT !.sends = @ + 1]
  /\ UNCHANGED <<row, post, history>>

\* Meta takes the message, gives it an id, and may post events about it.
MetaAccepts ==
  /\ sender.pc = "sending"
  /\ sender' = [sender EXCEPT !.pc = "accepted", !.ids = @ \cup {budget.sends}]
  /\ UNCHANGED <<row, post, budget, history>>

\* The sender writes what it knows: the row is SENT under its new id, or FAILED
\* (refused for good, exhausted, or the answer was lost), or PENDING again.
WriteRow(status, id, at) ==
  /\ row' = [status |-> status, id |-> id, at |-> at]
  /\ history' = [base |-> status, reports |-> {}]
  /\ sender' = [sender EXCEPT !.pc = "idle"]
  /\ UNCHANGED <<post, budget>>

\* The id is missing when the body of Meta's answer cannot be read.
RecordSent ==
  /\ sender.pc = "accepted"
  /\ \E id \in {budget.sends, None} : WriteRow("SENT", id, [row.at EXCEPT !["SENT"] = 0])

RecordUnsent ==
  \/ sender.pc = "accepted" /\ WriteRow("FAILED", row.id, row.at)
  \/ /\ sender.pc = "sending"
     /\ \E status \in {"FAILED", "PENDING"} : WriteRow(status, row.id, row.at)

\* The write throws: the send is forgotten and the row is still PENDING.
RecordLost ==
  /\ sender.pc # "idle"
  /\ budget.faults < MaxFaults
  /\ sender' = [sender EXCEPT !.pc = "idle"]
  /\ budget' = [budget EXCEPT !.faults = @ + 1]
  /\ UNCHANGED <<row, post, history>>

-----------------------------------------------------------------------------
(* The retry.                                                              *)

\* retryFailed reads the failed rows ...
ReadFailed ==
  /\ ~sender.retrying
  /\ row.status = "FAILED"
  /\ budget.retries < MaxRetries
  /\ sender' = [sender EXCEPT !.retrying = TRUE]
  /\ budget' = [budget EXCEPT !.retries = @ + 1]
  /\ UNCHANGED <<row, post, history>>

\* ... and puts each back in the queue, with the id of the send that failed.
Requeue ==
  /\ sender.retrying
  /\ row' = [row EXCEPT !.status = "PENDING"]
  /\ history' = [base |-> "PENDING", reports |-> {}]
  /\ sender' = [sender EXCEPT !.retrying = FALSE]
  /\ UNCHANGED <<post, budget>>

RequeueFails ==
  /\ sender.retrying
  /\ budget.faults < MaxFaults
  /\ sender' = [sender EXCEPT !.retrying = FALSE]
  /\ budget' = [budget EXCEPT !.faults = @ + 1]
  /\ UNCHANGED <<row, post, history>>

-----------------------------------------------------------------------------
(* The webhook.                                                            *)

IdlePost == [pc |-> "idle", events |-> <<>>, left |-> 0, time |-> 0, patch |-> None]

\* An authentic POST arrives; its events concern any send Meta accepted, or
\* carry a blank id.
Receive(p) ==
  /\ post[p].pc = "idle"
  /\ budget.posts < MaxPosts
  /\ \E n \in 1..PostSize :
     \E events \in [1..n -> [id : sender.ids \cup {None}, status : RawStatus]] :
       post' = [post EXCEPT ![p] =
         [pc |-> "next", events |-> events, left |-> MaxEvents,
          time |-> budget.posts + 1, patch |-> None]]
  /\ budget' = [budget EXCEPT !.posts = @ + 1]
  /\ UNCHANGED <<row, sender, history>>

\* The loop of process goes to the next event.
NextEvent(p) ==
  [post[p] EXCEPT !.pc = "next", !.events = Tail(@), !.left = @ - 1, !.patch = None]

\* Mutant: the ceiling is not looked at.
HandlingAll(p) == post[p].pc = "next" /\ post[p].events # <<>>

\* An event is at hand and the ceiling of the request is not reached.
Handling(p) == post[p].pc = "next" /\ post[p].events # <<>> /\ post[p].left > 0

\* It has a status the backend models, and an id to look up.
Usable(event) == event.status \in DOMAIN WebhookStatusMap /\ event.id # None

\* Any other event is counted and passed by.
PassBy(p) ==
  /\ Handling(p)
  /\ ~Usable(Head(post[p].events))
  /\ post' = [post EXCEPT ![p] = NextEvent(p)]
  /\ UNCHANGED <<row, sender, budget, history>>

\* Mutant: the time of reading is forgotten.
PatchUnread(next) == [status |-> next, stamp |-> next # "READ" /\ row.at[next] = None]

\* Mutant: a time is written whether or not there is one.
PatchRestamped(next) == [status |-> next, stamp |-> TRUE]

\* buildPatch: the status, and its time if the column is still empty.
Patch(next) == [status |-> next, stamp |-> row.at[next] = None]

\* findByWhatsappId, then the decision and the patch, from the row as found.
\* An event about an unknown id, or one the policy refuses, writes nothing.
Find(p) ==
  /\ Handling(p)
  /\ LET event == Head(post[p].events)
         next == WebhookStatusMap[event.status]
     IN  /\ Usable(event)
         /\ IF event.id = row.id /\ Applies(row.status, next)
              THEN /\ post' = [post EXCEPT ![p] = [@ EXCEPT !.pc = "update", !.patch = Patch(next)]]
                   /\ UNCHANGED history
              ELSE /\ post' = [post EXCEPT ![p] = NextEvent(p)]
                   /\ history' = IF event.id = row.id
                                   THEN [history EXCEPT !.reports = @ \cup {next}]
                                   ELSE history
  /\ UNCHANGED <<row, sender, budget>>

\* The update, by primary key and without a condition on the status.
Update(p) ==
  /\ post[p].pc = "update"
  /\ LET patch == post[p].patch
     IN  /\ row' = [row EXCEPT
               !.status = patch.status,
               !.at = IF patch.stamp THEN [@ EXCEPT ![patch.status] = post[p].time] ELSE @]
         /\ history' = [history EXCEPT !.reports = @ \cup {patch.status}]
  /\ post' = [post EXCEPT ![p] = NextEvent(p)]
  /\ UNCHANGED <<sender, budget>>

\* An update that throws is logged and the next event follows; a lookup that
\* throws ends the request with an error.
Fault(p) ==
  /\ budget.faults < MaxFaults
  /\ \/ post[p].pc = "update" /\ post' = [post EXCEPT ![p] = NextEvent(p)]
     \/ /\ Handling(p)
        /\ Usable(Head(post[p].events))
        /\ post' = [post EXCEPT ![p] = IdlePost]
  /\ budget' = [budget EXCEPT !.faults = @ + 1]
  /\ UNCHANGED <<row, sender, history>>

\* All events are handled, or the ceiling is reached: the answer is 200.
Reply(p) ==
  /\ post[p].pc = "next"
  /\ post[p].events = <<>> \/ post[p].left = 0
  /\ post' = [post EXCEPT ![p] = IdlePost]
  /\ UNCHANGED <<row, sender, budget, history>>

-----------------------------------------------------------------------------
\* The process dies and comes back: the send, the retry and the POSTs under way
\* are lost.
Crash ==
  /\ budget.crashes < MaxCrashes
  /\ sender' = [sender EXCEPT !.pc = "idle", !.retrying = FALSE]
  /\ post' = [p \in Posts |-> IdlePost]
  /\ budget' = [budget EXCEPT !.crashes = @ + 1]
  /\ UNCHANGED <<row, history>>

NoTimes == [s \in {"SENT", "DELIVERED", "READ", "FAILED"} |-> None]

\* A row to be sent, or legacy data that was sent in an earlier version.
Init ==
  /\ \/ /\ row = [status |-> "PENDING", id |-> None, at |-> NoTimes]
        /\ sender = [pc |-> "idle", ids |-> {}, retrying |-> FALSE]
        /\ budget = [sends |-> 0, posts |-> 0, retries |-> 0, faults |-> 0, crashes |-> 0]
     \/ /\ Inherited
        /\ MaxSends > 0
        /\ \E at \in {NoTimes, [NoTimes EXCEPT !["SENT"] = 0]} :
             row = [status |-> "LEGACY", id |-> 1, at |-> at]
        /\ sender = [pc |-> "idle", ids |-> {1}, retrying |-> FALSE]
        /\ budget = [sends |-> 1, posts |-> 0, retries |-> 0, faults |-> 0, crashes |-> 0]
  /\ post = [p \in Posts |-> IdlePost]
  /\ history = [base |-> row.status, reports |-> {}]

Next ==
  \/ SendStart \/ MetaAccepts \/ RecordSent \/ RecordUnsent \/ RecordLost
  \/ ReadFailed \/ Requeue \/ RequeueFails
  \/ \E p \in Posts : Receive(p) \/ PassBy(p) \/ Find(p) \/ Update(p) \/ Fault(p) \/ Reply(p)
  \/ Crash

Spec == Init /\ [][Next]_vars

-----------------------------------------------------------------------------
(* Properties.                                                             *)

Retried == budget.retries > 0

\* The status up to the first retry, which is of a failed row.
FirstLife == IF Retried THEN "FAILED" ELSE row.status

Lifecycle == INSTANCE MessageLifecycle WITH status <- FirstLife

Columns == {"SENT", "DELIVERED", "READ", "FAILED"}
PatchType == [status : Columns, stamp : BOOLEAN]

\* Types, and the ceiling on the events one request handles.
TypeOK ==
  /\ row \in [status : DeliveryStatus \cup {"LEGACY"}, id : Ids \cup {None},
              at : [Columns -> Time \cup {None}]]
  /\ sender \in [pc : {"idle", "sending", "accepted"}, ids : SUBSET Ids, retrying : BOOLEAN]
  /\ post \in [Posts -> [pc : {"idle", "next", "update"}, events : Seq(Event),
                         left : 0..MaxEvents, time : Time, patch : PatchType \cup {None}]]
  /\ budget \in [sends : 0..MaxSends, posts : 0..MaxPosts, retries : 0..MaxRetries,
                 faults : 0..MaxFaults, crashes : 0..MaxCrashes]
  /\ history \in [base : DeliveryStatus \cup {"LEGACY"}, reports : SUBSET Columns]

\* Until it is retried, the row ends up the same in whatever order the reports
\* are processed, and however often: at the furthest stage of what the sender
\* wrote and Meta reported since.
Converged ==
  LET stages == {history.base} \cup history.reports
  IN  ~Retried => row.status \in stages /\ \A s \in stages : ~Lifecycle!Later(row.status, s)

\* A time of delivery, reading or failure, once written, is never rewritten or
\* lost, however often the message is retried and whichever of its sends is
\* reported on; the time of sending stands until a retry.
TimesWrittenOnce ==
  [][\A c \in Columns : (c = "SENT" => ~Retried) /\ row.at[c] # None => row'.at[c] = row.at[c]]_vars

\* A row that is shown as delivered or read says since when.
StagesHaveTimes == row.status \in {"DELIVERED", "READ"} => row.at[row.status] # None

\* Until it is retried, the row follows the lifecycle that is promised for one
\* delivery, and what is retried has failed.
ImplementsLifecycle == Lifecycle!Spec

\* A retried message leaves the queue by its fresh attempt: the attempt that
\* failed is over, and no late or repeated report of it has an effect.
RetriedAwaitsItsAttempt ==
  [][row.status = "PENDING" /\ row.id # None /\ row'.status # "PENDING" => sender' # sender]_vars
=============================================================================
