------------------------------ MODULE DirectSend ------------------------------
(***************************************************************************)
(* POST /messages/send: src/backend/src/messages/messages.service.ts,      *)
(* wrapped in auditAction (audit/audit.service.ts) by the controller, with *)
(* the exchange of postMessages (whatsapp/whatsapp.service.ts) inside.     *)
(*                                                                         *)
(* Several requests are served at once; each await is a step.  All of them *)
(* are for one customer, whose status they overwrite.                      *)
(***************************************************************************)
EXTENDS WhatsAppGateway, FiniteSets

CONSTANTS
  Sends,           \* requests
  MaxSendFaults,   \* bound: database operations that throw
  MaxSendCrashes   \* bound: crashes of the process

ASSUME SendBounds == MaxSendFaults \in Nat /\ MaxSendCrashes \in Nat

VARIABLES
  gateway,    \* the gateway's environment
  send,       \* each request: await point and locals
  taken,      \* the requests whose message Meta accepted
  history,    \* Message rows: the request and the status inserted
  customer,   \* Customer.status, and the request that wrote it
  trail,      \* audit rows: the request and the status recorded
  spent       \* faults and crashes so far

sendVars == <<gateway, send, taken, history, customer, trail, spent>>

\* Numbers around the edges of normalizeE164, for a country code of 2 digits.
TriedNumbers == {[digits |-> 10, zeros |-> 0], [digits |-> 10, zeros |-> 1],
            [digits |-> 16, zeros |-> 0]}

\* The template found: complete for the customer, or with a variable missing.
FoundTemplate == {"complete", "incomplete", "none"}

SendAwaits == {"customers", "template", "posting", "deciding", "insert", "customer", "audit"}
SendReply == {"none", "sent", "failed", "error"}

IdleSend == [pc |-> "idle", result |-> Failed("client"), verdict |-> "client", reply |-> "none"]

SendGoto(r, pc) == send' = [send EXCEPT ![r].pc = pc]

\* The result of the gateway is at hand: next is the insert of the row.
SendSettled(r, result) == send' = [send EXCEPT ![r].pc = "insert", ![r].result = result]

\* fn() of auditAction returns or throws; the record of it is awaited next.
SendReturns(r, reply) == send' = [send EXCEPT ![r].pc = "audit", ![r].reply = reply]

SendFault == spent.faults < MaxSendFaults /\ spent' = [spent EXCEPT !.faults = @ + 1]

Post(r) ==
  /\ send[r].pc = "idle"
  /\ SendGoto(r, "customers")
  /\ UNCHANGED <<gateway, taken, history, customer, trail, spent>>

\* The customer is there, or the request is answered 404.
ReadCustomers(r) ==
  /\ send[r].pc = "customers"
  /\ SendGoto(r, "template") \/ SendReturns(r, "error")
  /\ UNCHANGED <<gateway, taken, history, customer, trail, spent>>

\* Without the template, or with a variable missing, nothing is sent.
ReadTemplate(r) ==
  /\ send[r].pc = "template"
  /\ \E found \in FoundTemplate, number \in TriedNumbers :
       CASE found # "complete" -> SendReturns(r, "error")
         [] GoesOut(gateway, number, 2) -> SendGoto(r, "posting")
         [] OTHER -> SendSettled(r, WithoutRequest(gateway))
  /\ UNCHANGED <<gateway, taken, history, customer, trail, spent>>

\* Meta reads the request and decides, whether or not its answer arrives.
MetaDecides(r) ==
  /\ send[r].pc = "posting"
  /\ \E verdict \in Verdict :
       /\ send' = [send EXCEPT ![r].pc = "deciding", ![r].verdict = verdict]
       /\ taken' = IF verdict = "accepted" THEN taken \cup {r} ELSE taken
  /\ UNCHANGED <<gateway, history, customer, trail, spent>>

MetaAnswers(r) ==
  /\ send[r].pc = "deciding"
  /\ \E result \in FromResponse(send[r].verdict) : SendSettled(r, result)
  /\ UNCHANGED <<gateway, taken, history, customer, trail, spent>>

\* The timer or the network ends the exchange, before or after Meta decided.
CutOff(r) ==
  /\ send[r].pc \in {"posting", "deciding"}
  /\ \E result \in WithoutResponse : SendSettled(r, result)
  /\ UNCHANGED <<gateway, taken, history, customer, trail, spent>>

SentStatus(r) == IF send[r].result.ok THEN "SENT" ELSE "FAILED"
RowOf(r) == [from |-> r, status |-> SentStatus(r), id |-> send[r].result.id]

InsertRow(r) ==
  /\ send[r].pc = "insert"
  /\ history' = history \cup {RowOf(r)}
  /\ SendGoto(r, "customer")
  /\ UNCHANGED <<gateway, taken, customer, trail, spent>>

\* Mutant: an insert that throws is logged and the send reported as it went.
InsertFailsQuietly(r) ==
  /\ send[r].pc = "insert"
  /\ SendFault
  /\ SendGoto(r, "customer")
  /\ UNCHANGED <<gateway, taken, history, customer, trail>>

\* The insert throws, with or without having stored the row.
InsertFails(r) ==
  /\ send[r].pc = "insert"
  /\ SendFault
  /\ \/ UNCHANGED history
     \/ history' = history \cup {RowOf(r)}
  /\ SendReturns(r, "error")
  /\ UNCHANGED <<gateway, taken, customer, trail>>

Report(r) == SendReturns(r, IF send[r].result.ok THEN "sent" ELSE "failed")

\* Mutant: the customer is marked as sent whatever the gateway said.
UpdateCustomerSent(r) ==
  /\ send[r].pc = "customer"
  /\ customer' = [status |-> "SENT", by |-> {r}]
  /\ Report(r)
  /\ UNCHANGED <<gateway, taken, history, trail, spent>>

\* updateOne of the customer: one of its strategies succeeds ...
UpdateCustomer(r) ==
  /\ send[r].pc = "customer"
  /\ customer' = [status |-> SentStatus(r), by |-> {r}]
  /\ Report(r)
  /\ UNCHANGED <<gateway, taken, history, trail, spent>>

\* ... or all of them fail, which is only logged; one may have taken effect.
UpdateFails(r) ==
  /\ send[r].pc = "customer"
  /\ SendFault
  /\ \/ UNCHANGED customer
     \/ customer' = [status |-> SentStatus(r), by |-> {r}]
  /\ Report(r)
  /\ UNCHANGED <<gateway, taken, history, trail>>

\* A query before the send throws.
ReadFails(r) ==
  /\ send[r].pc \in {"customers", "template"}
  /\ SendFault
  /\ SendReturns(r, "error")
  /\ UNCHANGED <<gateway, taken, history, customer, trail>>

\* record swallows its own failure; then the client is answered.
Audit(r) ==
  /\ send[r].pc = "audit"
  /\ \/ /\ trail' = trail \cup
             {[from |-> r, status |-> IF send[r].reply = "error" THEN "FAILURE" ELSE "SUCCESS"]}
        /\ UNCHANGED spent
     \/ SendFault /\ UNCHANGED trail
  /\ SendGoto(r, "answered")
  /\ UNCHANGED <<gateway, taken, history, customer>>

SendCrash ==
  /\ spent.crashes < MaxSendCrashes
  /\ \E r \in Sends : send[r].pc \in SendAwaits
  /\ spent' = [spent EXCEPT !.crashes = @ + 1]
  /\ send' = [r \in Sends |-> IF send[r].pc \in SendAwaits
                              THEN [IdleSend EXCEPT !.pc = "crashed"] ELSE send[r]]
  /\ UNCHANGED <<gateway, taken, history, customer, trail>>

SendStart(gateways) ==
  /\ gateway \in gateways
  /\ send = [r \in Sends |-> IdleSend]
  /\ taken = {} /\ history = {} /\ trail = {}
  /\ customer = [status |-> "PENDING", by |-> {}]
  /\ spent = [faults |-> 0, crashes |-> 0]

SendInit == SendStart(Config)

SendNext ==
  \/ \E r \in Sends :
       \/ Post(r) \/ ReadCustomers(r) \/ ReadTemplate(r) \/ ReadFails(r)
       \/ MetaDecides(r) \/ MetaAnswers(r) \/ CutOff(r)
       \/ InsertRow(r) \/ InsertFails(r) \/ UpdateCustomer(r) \/ UpdateFails(r) \/ Audit(r)
  \/ SendCrash

SendSpec == SendInit /\ [][SendNext]_sendVars

-----------------------------------------------------------------------------
(* Properties.                                                             *)

SendTypeOK ==
  /\ gateway \in Config
  /\ send \in [Sends -> [pc : SendAwaits \cup {"idle", "answered", "crashed"}, result : SendResult,
                         verdict : Verdict, reply : SendReply]]
  /\ taken \subseteq Sends
  /\ history \subseteq [from : Sends, status : {"SENT", "FAILED"}, id : BOOLEAN]
  /\ customer \in [status : {"PENDING", "SENT", "FAILED"}, by : SUBSET Sends]
  /\ trail \subseteq [from : Sends, status : {"SUCCESS", "FAILURE"}]
  /\ spent \in [faults : 0..MaxSendFaults, crashes : 0..MaxSendCrashes]

Recorded(r, status) == \E row \in history : row.from = r /\ row.status = status

\* A send that may be repeated without harm: Meta did not take the message.
\* postMessages calls a result retryable on this ground, and the campaign
\* engine sends such a message again by itself.
RetryableWasRefused ==
  \A r \in Sends : send[r].pc # "idle" /\ send[r].result.retryable => r \notin taken

\* What the client is told agrees with the history and with Meta: a reported
\* send was accepted (or simulated) and its row says so, a reported failure has
\* its row, and a message Meta took without a row was answered with an error
\* and audited as nothing but a failure, unless the process died under it.
AnswerAgreesWithHistory ==
  \A r \in Sends : send[r].pc \in {"audit", "answered"} =>
    /\ send[r].reply = "sent" => Recorded(r, "SENT") /\ (gateway.live => r \in taken)
    /\ send[r].reply = "failed" => Recorded(r, "FAILED") /\ ~Recorded(r, "SENT")
    /\ r \in taken /\ ~(\E row \in history : row.from = r) =>
         send[r].reply = "error" /\ [from |-> r, status |-> "SUCCESS"] \notin trail

\* The status a customer shows is that of a message in the history, and in live
\* mode a customer shown as SENT was sent a message Meta took.
CustomerShowsHistory ==
  \A r \in customer.by :
    /\ Recorded(r, customer.status)
    /\ gateway.live /\ customer.status = "SENT" => r \in taken
=============================================================================
