------------------------------ MODULE ServerProofs ------------------------------
(***************************************************************************)
(* Theorems about the other services of the backend and the pages that     *)
(* show their rows: the direct send and the settings, for every number of  *)
(* requests, faults and crashes and every configuration of the gateway, the*)
(* template list, and the message table as the dashboard and the history   *)
(* page read it.                                                           *)
(*                                                                         *)
(* The invariants of the sends and of the template calls speak of one call *)
(* at a time: a step of a call leaves what the invariant says of the others*)
(* alone, except for a crash, which ends all of them, and for a change of a*)
(* template, which outdates every answer at once.                          *)
(***************************************************************************)
EXTENDS DirectSend, AppSettings, TemplateDesk, MessageLedger, FiniteSetTheorems,
        SequenceTheorems, TLAPS

-----------------------------------------------------------------------------
(* Results of the gateway.                                                 *)

\* A refusal is a result without an id that is retryable only where Meta has
\* answered that it did not take the message (classifyHttpError).
LEMMA FailedTyped ==
  ASSUME NEW kind \in ErrorKind
  PROVE  /\ Failed(kind) \in SendResult
         /\ ~Failed(kind).ok
         /\ Failed(kind).retryable => kind \in {"rate_limited", "server"}
<1>1. (kind \in {"rate_limited", "server"}) \in BOOLEAN
  OBVIOUS
<1>2. Failed(kind) \in SendResult
  BY <1>1 DEF Failed, SendResult
<1>3. QED
  BY <1>2 DEF Failed

\* An accepted send is not retryable.
LEMMA AcceptedTyped ==
  ASSUME NEW id \in BOOLEAN
  PROVE  /\ Accepted(id) \in SendResult /\ Accepted(id).ok /\ ~Accepted(id).retryable
BY DEF Accepted, SendResult

\* What is settled without a request is never retryable, and in live mode never a
\* success.
LEMMA WithoutRequestSettles ==
  ASSUME NEW config \in Config
  PROVE  /\ WithoutRequest(config) \in SendResult
         /\ ~WithoutRequest(config).retryable
         /\ config.live => ~WithoutRequest(config).ok
<1>1. {"not_configured", "invalid_recipient"} \subseteq ErrorKind
  BY DEF ErrorKind
<1>2. QED
  BY <1>1, FailedTyped, AcceptedTyped DEF WithoutRequest, Failed, Accepted, Config

\* An answer is a success exactly if Meta took the message, and retryable only if
\* it did not.
LEMMA ResponseSettles ==
  ASSUME NEW verdict \in Verdict, NEW result \in FromResponse(verdict)
  PROVE  /\ result \in SendResult
         /\ result.ok <=> verdict = "accepted"
         /\ result.retryable => verdict # "accepted"
<1>1. CASE verdict = "accepted"
  BY <1>1, AcceptedTyped DEF FromResponse
<1>2. CASE verdict # "accepted"
  BY <1>2, FailedTyped DEF FromResponse, ErrorKind
<1>3. QED
  BY <1>1, <1>2

\* An exchange that was cut off is a failure that is not repeated.
LEMMA CutOffSettles ==
  ASSUME NEW result \in WithoutResponse
  PROVE  result \in SendResult /\ ~result.ok /\ ~result.retryable
<1>1. {"timeout", "network"} \subseteq ErrorKind
  BY DEF ErrorKind
<1>2. QED
  BY <1>1, FailedTyped DEF WithoutResponse

-----------------------------------------------------------------------------
(* The invariant.                                                          *)

Unsent == {"idle", "customers", "template", "posting"}
RowAwaits == {"customer", "audit", "answered", "crashed"}

\* Meta has not taken a message that was not posted, and while it decides the
\* verdict says whether it has.
Posted(r) ==
  /\ send[r].pc \in Unsent => r \notin taken
  /\ send[r].pc = "deciding" => (r \in taken <=> send[r].verdict = "accepted")

\* The result at hand agrees with what Meta did.
ResultTrue(r) ==
  /\ send[r].pc \in Unsent \cup {"deciding", "crashed"} => send[r].result = Failed("client")
  /\ send[r].result.retryable => r \notin taken
  /\ send[r].result.ok /\ gateway.live => r \in taken

\* The rows of a request are inserted once its result is at hand, with its status.
RowsTrue(r) ==
  /\ \A row \in history : row.from = r =>
       /\ send[r].pc \in RowAwaits
       /\ send[r].pc # "crashed" => row.status = SentStatus(r)
  /\ send[r].pc = "customer" => Recorded(r, SentStatus(r))

\* A reply other than an error is the result, which is recorded.
ReplyTrue(r) ==
  /\ send[r].pc \in {"audit", "answered"} =>
       \/ send[r].reply = "error"
       \/ /\ send[r].reply = IF send[r].result.ok THEN "sent" ELSE "failed"
          /\ Recorded(r, SentStatus(r))
  /\ [from |-> r, status |-> "SUCCESS"] \in trail =>
       send[r].pc = "answered" /\ send[r].reply # "error"

RequestInv(r) == Posted(r) /\ ResultTrue(r) /\ RowsTrue(r) /\ ReplyTrue(r)

SendInv == SendTypeOK /\ (\A r \in Sends : RequestInv(r)) /\ CustomerShowsHistory

\* A step has nothing to do with request q.
Untouched(q) ==
  /\ send'[q] = send[q] /\ gateway' = gateway
  /\ q \in taken' <=> q \in taken
  /\ \A row : row.from = q => (row \in history' <=> row \in history)
  /\ \A row : row.from = q => (row \in trail' <=> row \in trail)

\* A request that no step has touched keeps its part of the invariant.
LEMMA UntouchedKeeps ==
  ASSUME NEW q \in Sends, RequestInv(q), Untouched(q)
  PROVE  RequestInv(q)'
  <1>1. SentStatus(q)' = SentStatus(q)  BY DEF Untouched, SentStatus
  <1>2. \A status : Recorded(q, status)' <=> Recorded(q, status)
    BY DEF Untouched, Recorded
  <1>3. Posted(q)'  BY DEF RequestInv, Posted, Untouched
  <1>4. ResultTrue(q)'  BY DEF RequestInv, ResultTrue, Untouched
  <1>5. RowsTrue(q)'  BY <1>1, <1>2 DEF RequestInv, RowsTrue, Untouched
  <1>6. ReplyTrue(q)'
    <2>1. [from |-> q, status |-> "SUCCESS"] \in trail'
            <=> [from |-> q, status |-> "SUCCESS"] \in trail
      BY DEF Untouched
    <2>. QED  BY <1>1, <1>2, <2>1 DEF RequestInv, ReplyTrue, Untouched
  <1>. QED  BY <1>3, <1>4, <1>5, <1>6 DEF RequestInv

-----------------------------------------------------------------------------
(* Types.                                                                  *)

\* Nothing is under way at the start.
LEMMA SendTypeInit ==
  ASSUME SendInit
  PROVE  SendTypeOK
  <1>1. Failed("client") \in SendResult  BY FailedTyped DEF ErrorKind, Verdict
  <1>. QED
    BY <1>1, SendBounds DEF SendInit, SendStart, SendTypeOK, IdleSend, SendReply, Verdict

\* A request that is settled with a result goes on to its row.
LEMMA SettledTyped ==
  ASSUME SendTypeOK, NEW r \in Sends, NEW result \in SendResult, SendSettled(r, result)
  PROVE  send' \in [Sends -> [pc : SendAwaits \cup {"idle", "answered", "crashed"},
                              result : SendResult, verdict : Verdict, reply : SendReply]]
  BY DEF SendSettled, SendTypeOK, SendAwaits

\* Each step of a request, and the crash, keeps the types.
LEMMA SendTypeStep ==
  ASSUME SendTypeOK, [SendNext]_sendVars
  PROVE  SendTypeOK'
  <1>. USE DEF SendTypeOK
  <1>c. Failed("client") \in SendResult  BY FailedTyped DEF ErrorKind, Verdict
  <1>1. ASSUME NEW r \in Sends, Post(r) \/ ReadCustomers(r) \/ ReadFails(r)
        PROVE  SendTypeOK'
    BY <1>1, SendBounds
    DEF Post, ReadCustomers, ReadFails, SendGoto, SendReturns, SendFault, SendAwaits, SendReply
  <1>2. ASSUME NEW r \in Sends, ReadTemplate(r)
        PROVE  SendTypeOK'
    <2>1. WithoutRequest(gateway) \in SendResult  BY WithoutRequestSettles
    <2>. QED
      BY <1>2, <2>1, SettledTyped
      DEF ReadTemplate, SendGoto, SendReturns, SendAwaits, SendReply
  <1>3. ASSUME NEW r \in Sends, MetaDecides(r)
        PROVE  SendTypeOK'
    <2>1. PICK verdict \in Verdict :
            /\ send' = [send EXCEPT ![r].pc = "deciding", ![r].verdict = verdict]
            /\ taken' = IF verdict = "accepted" THEN taken \cup {r} ELSE taken
      BY <1>3 DEF MetaDecides
    <2>2. send'[r] \in [pc : SendAwaits \cup {"idle", "answered", "crashed"},
                       result : SendResult, verdict : Verdict, reply : SendReply]
      BY <2>1 DEF SendAwaits
    <2>3. taken' \subseteq Sends  BY <2>1
    <2>. QED  BY <1>3, <2>1, <2>2, <2>3 DEF MetaDecides
  <1>4. ASSUME NEW r \in Sends, MetaAnswers(r)
        PROVE  SendTypeOK'
    <2>1. \A result \in FromResponse(send[r].verdict) : result \in SendResult
      BY ResponseSettles
    <2>2. PICK result \in FromResponse(send[r].verdict) : SendSettled(r, result)
      BY <1>4 DEF MetaAnswers
    <2>. QED  BY <1>4, <2>1, <2>2, SettledTyped DEF MetaAnswers
  <1>5. ASSUME NEW r \in Sends, CutOff(r)
        PROVE  SendTypeOK'
    <2>1. PICK result \in WithoutResponse : SendSettled(r, result)  BY <1>5 DEF CutOff
    <2>2. result \in SendResult  BY CutOffSettles
    <2>. QED  BY <1>5, <2>1, <2>2, SettledTyped DEF CutOff
  <1>6. ASSUME NEW r \in Sends, InsertRow(r) \/ InsertFails(r)
        PROVE  SendTypeOK'
    <2>1. RowOf(r) \in [from : Sends, status : {"SENT", "FAILED"}, id : BOOLEAN]
      BY DEF RowOf, SentStatus, SendResult
    <2>. QED
      BY <1>6, <2>1, SendBounds
      DEF InsertRow, InsertFails, SendGoto, SendReturns, SendFault, SendAwaits, SendReply
  <1>7. ASSUME NEW r \in Sends, UpdateCustomer(r) \/ UpdateFails(r)
        PROVE  SendTypeOK'
    BY <1>7, SendBounds
    DEF UpdateCustomer, UpdateFails, Report, SendReturns, SendFault, SentStatus, SendAwaits,
        SendReply
  <1>8. ASSUME NEW r \in Sends, Audit(r)
        PROVE  SendTypeOK'
    BY <1>8, SendBounds DEF Audit, SendGoto, SendFault
  <1>9. CASE SendCrash
    BY <1>9, <1>c, SendBounds DEF SendCrash, IdleSend, SendReply, Verdict
  <1>10. CASE UNCHANGED sendVars
    BY <1>10 DEF sendVars
  <1>. QED
    BY <1>1, <1>2, <1>3, <1>4, <1>5, <1>6, <1>7, <1>8, <1>9, <1>10 DEF SendNext

-----------------------------------------------------------------------------
(* The steps of a request.                                                 *)

\* What a request does before it has a result.
LEMMA UnsentStep ==
  ASSUME SendInv, NEW r \in Sends,
         Post(r) \/ ReadCustomers(r) \/ ReadTemplate(r) \/ ReadFails(r)
  PROVE  RequestInv(r)' /\ \A q \in Sends \ {r} : Untouched(q)
  <1>. USE DEF SendInv, SendTypeOK
  <1>1. RequestInv(r) /\ send[r].pc \in Unsent
    BY DEF Post, ReadCustomers, ReadTemplate, ReadFails, Unsent
  <1>2. /\ taken' = taken /\ history' = history /\ trail' = trail /\ gateway' = gateway
        /\ r \notin taken
        /\ \A row \in history : row.from # r
        /\ [from |-> r, status |-> "SUCCESS"] \notin trail
    BY <1>1 DEF RequestInv, Posted, RowsTrue, ReplyTrue, Unsent, RowAwaits, Post,
                ReadCustomers, ReadTemplate, ReadFails
  <1>3. /\ \A q \in Sends \ {r} : send'[q] = send[q]
        /\ \/ send'[r].pc \in {"customers", "template", "posting"}
              /\ send'[r].result = send[r].result
           \/ send'[r].pc = "audit" /\ send'[r].result = send[r].result
              /\ send'[r].reply = "error"
           \/ send'[r].pc = "insert" /\ send'[r].result = WithoutRequest(gateway)
    <2>1. CASE Post(r) \/ ReadCustomers(r) \/ ReadFails(r)
      BY <2>1 DEF Post, ReadCustomers, ReadFails, SendGoto, SendReturns
    <2>2. CASE ReadTemplate(r)
      BY <2>2 DEF ReadTemplate, SendGoto, SendReturns, SendSettled
    <2>. QED  BY <2>1, <2>2
  <1>4. /\ send[r].result = Failed("client") /\ ~Failed("client").retryable
        /\ ~Failed("client").ok
    BY <1>1, FailedTyped DEF RequestInv, ResultTrue, Unsent, ErrorKind, Verdict
  <1>5. /\ ~WithoutRequest(gateway).retryable
        /\ gateway.live => ~WithoutRequest(gateway).ok
    BY WithoutRequestSettles
  <1>6. Posted(r)'  BY <1>2, <1>3 DEF Posted, Unsent
  <1>7. ResultTrue(r)'  BY <1>2, <1>3, <1>4, <1>5 DEF ResultTrue, Unsent
  <1>8. RowsTrue(r)'  BY <1>2, <1>3 DEF RowsTrue
  <1>9. ReplyTrue(r)'  BY <1>2, <1>3 DEF ReplyTrue
  <1>. QED
    BY <1>2, <1>3, <1>6, <1>7, <1>8, <1>9 DEF RequestInv, Untouched

\* The exchange with Meta.
LEMMA ExchangeStep ==
  ASSUME SendInv, NEW r \in Sends, MetaDecides(r) \/ MetaAnswers(r) \/ CutOff(r)
  PROVE  RequestInv(r)' /\ \A q \in Sends \ {r} : Untouched(q)
  <1>. USE DEF SendInv, SendTypeOK
  <1>1. RequestInv(r) /\ send[r].pc \in {"posting", "deciding"}
    BY DEF MetaDecides, MetaAnswers, CutOff
  <1>2. /\ history' = history /\ trail' = trail /\ gateway' = gateway
        /\ \A row \in history : row.from # r
        /\ [from |-> r, status |-> "SUCCESS"] \notin trail
    BY <1>1 DEF RequestInv, RowsTrue, ReplyTrue, RowAwaits, MetaDecides, MetaAnswers, CutOff
  <1>3. CASE MetaDecides(r)
    <2>1. PICK verdict \in Verdict :
            /\ send' = [send EXCEPT ![r].pc = "deciding", ![r].verdict = verdict]
            /\ taken' = IF verdict = "accepted" THEN taken \cup {r} ELSE taken
      BY <1>3 DEF MetaDecides
    <2>2. /\ send'[r].pc = "deciding" /\ send'[r].verdict = verdict
          /\ send'[r].result = Failed("client") /\ r \notin taken
          /\ \A q \in Sends \ {r} : send'[q] = send[q]
      BY <1>1, <1>3, <2>1 DEF MetaDecides, RequestInv, ResultTrue, Posted, Unsent
    <2>3. Posted(r)'  BY <2>1, <2>2 DEF Posted, Unsent
    <2>4. ResultTrue(r)'
      BY <2>2, FailedTyped DEF ResultTrue, ErrorKind, Verdict
    <2>5. RowsTrue(r)' /\ ReplyTrue(r)'  BY <1>2, <2>2 DEF RowsTrue, ReplyTrue
    <2>6. \A q \in Sends \ {r} : Untouched(q)  BY <1>2, <2>1, <2>2 DEF Untouched
    <2>. QED  BY <2>3, <2>4, <2>5, <2>6 DEF RequestInv
  <1>4. CASE MetaAnswers(r) \/ CutOff(r)
    <2>1. PICK result : /\ SendSettled(r, result) /\ taken' = taken
                        /\ result.retryable => r \notin taken
                        /\ result.ok => r \in taken
      <3>1. CASE MetaAnswers(r)
        <4>1. PICK result \in FromResponse(send[r].verdict) : SendSettled(r, result)
          BY <3>1 DEF MetaAnswers
        <4>2. r \in taken <=> send[r].verdict = "accepted"
          BY <1>1, <3>1 DEF MetaAnswers, RequestInv, Posted
        <4>. QED  BY <3>1, <4>1, <4>2, ResponseSettles DEF MetaAnswers
      <3>2. CASE CutOff(r)
        BY <3>2, CutOffSettles DEF CutOff
      <3>. QED  BY <1>4, <3>1, <3>2
    <2>2. /\ send'[r].pc = "insert" /\ send'[r].result = result
          /\ \A q \in Sends \ {r} : send'[q] = send[q]
      BY <2>1 DEF SendSettled
    <2>3. Posted(r)' /\ ResultTrue(r)'  BY <2>1, <2>2 DEF Posted, ResultTrue, Unsent
    <2>4. RowsTrue(r)' /\ ReplyTrue(r)'  BY <1>2, <2>2 DEF RowsTrue, ReplyTrue
    <2>5. \A q \in Sends \ {r} : Untouched(q)  BY <1>2, <2>1, <2>2 DEF Untouched
    <2>. QED  BY <2>3, <2>4, <2>5 DEF RequestInv
  <1>. QED  BY <1>3, <1>4

\* The row is inserted, or the insert throws.
LEMMA InsertStep ==
  ASSUME SendInv, NEW r \in Sends, InsertRow(r) \/ InsertFails(r)
  PROVE  RequestInv(r)' /\ \A q \in Sends \ {r} : Untouched(q)
  <1>. USE DEF SendInv, SendTypeOK
  <1>1. RequestInv(r) /\ send[r].pc = "insert"
    BY DEF InsertRow, InsertFails
  <1>2. /\ taken' = taken /\ trail' = trail /\ gateway' = gateway
        /\ history' = history \/ history' = history \cup {RowOf(r)}
        /\ \A row \in history : row.from # r
        /\ [from |-> r, status |-> "SUCCESS"] \notin trail
    BY <1>1 DEF RequestInv, RowsTrue, ReplyTrue, RowAwaits, InsertRow, InsertFails
  <1>3. /\ \A q \in Sends \ {r} : send'[q] = send[q]
        /\ send'[r].result = send[r].result
        /\ \/ send'[r].pc = "customer" /\ history' = history \cup {RowOf(r)}
           \/ send'[r].pc = "audit" /\ send'[r].reply = "error"
    BY DEF InsertRow, InsertFails, SendGoto, SendReturns
  <1>4. SentStatus(r)' = SentStatus(r)  BY <1>3 DEF SentStatus
  <1>5. RowOf(r).from = r /\ RowOf(r).status = SentStatus(r)  BY DEF RowOf
  <1>6. Posted(r)'  BY <1>3 DEF Posted, Unsent
  <1>7. ResultTrue(r)'  BY <1>1, <1>2, <1>3 DEF RequestInv, ResultTrue, Unsent
  <1>8. RowsTrue(r)'
    <2>1. \A row \in history' : row.from = r => row.status = SentStatus(r)  BY <1>2, <1>5
    <2>2. send'[r].pc = "customer" => Recorded(r, SentStatus(r))'
      BY <1>3, <1>4, <1>5 DEF Recorded
    <2>. QED  BY <1>3, <1>4, <2>1, <2>2 DEF RowsTrue, RowAwaits
  <1>9. ReplyTrue(r)'  BY <1>2, <1>3 DEF ReplyTrue
  <1>10. \A q \in Sends \ {r} : Untouched(q)
    BY <1>2, <1>3, <1>5 DEF Untouched
  <1>. QED  BY <1>6, <1>7, <1>8, <1>9, <1>10 DEF RequestInv

\* The customer's status is written, or not; the reply is the result.
LEMMA UpdateStep ==
  ASSUME SendInv, NEW r \in Sends, UpdateCustomer(r) \/ UpdateFails(r)
  PROVE  /\ RequestInv(r)' /\ \A q \in Sends \ {r} : Untouched(q)
         /\ CustomerShowsHistory'
  <1>. USE DEF SendInv, SendTypeOK
  <1>1. RequestInv(r) /\ send[r].pc = "customer"
    BY DEF UpdateCustomer, UpdateFails
  <1>2. /\ taken' = taken /\ trail' = trail /\ gateway' = gateway /\ history' = history
        /\ Recorded(r, SentStatus(r))
        /\ [from |-> r, status |-> "SUCCESS"] \notin trail
    BY <1>1 DEF RequestInv, RowsTrue, ReplyTrue, UpdateCustomer, UpdateFails
  <1>3. /\ \A q \in Sends \ {r} : send'[q] = send[q]
        /\ send'[r].result = send[r].result /\ send'[r].pc = "audit"
        /\ send'[r].reply = IF send[r].result.ok THEN "sent" ELSE "failed"
    BY DEF UpdateCustomer, UpdateFails, Report, SendReturns
  <1>4. SentStatus(r)' = SentStatus(r)  BY <1>3 DEF SentStatus
  <1>5. \A q, status : Recorded(q, status)' <=> Recorded(q, status)  BY <1>2 DEF Recorded
  <1>6. Posted(r)'  BY <1>3 DEF Posted, Unsent
  <1>7. ResultTrue(r)'  BY <1>1, <1>2, <1>3 DEF RequestInv, ResultTrue, Unsent
  <1>8. RowsTrue(r)'  BY <1>1, <1>2, <1>3, <1>4 DEF RequestInv, RowsTrue, RowAwaits
  <1>9. ReplyTrue(r)'  BY <1>2, <1>3, <1>4, <1>5 DEF ReplyTrue
  <1>10. \A q \in Sends \ {r} : Untouched(q)  BY <1>2, <1>3 DEF Untouched
  <1>11. CustomerShowsHistory'
    <2>1. customer' = customer \/ customer' = [status |-> SentStatus(r), by |-> {r}]
      BY DEF UpdateCustomer, UpdateFails
    <2>2. CASE customer' = customer
      BY <1>2, <1>5, <2>2 DEF CustomerShowsHistory
    <2>3. CASE customer' = [status |-> SentStatus(r), by |-> {r}]
      <3>1. gateway.live /\ SentStatus(r) = "SENT" => r \in taken
        BY <1>1 DEF RequestInv, ResultTrue, SentStatus
      <3>2. Recorded(r, SentStatus(r))'  BY <1>2, <1>4, <1>5
      <3>. QED  BY <1>2, <1>4, <1>5, <2>3, <3>1, <3>2 DEF CustomerShowsHistory
    <2>. QED  BY <2>1, <2>2, <2>3
  <1>. QED  BY <1>6, <1>7, <1>8, <1>9, <1>10, <1>11 DEF RequestInv

\* The audit record is written, or not, and the client answered.
LEMMA AuditStep ==
  ASSUME SendInv, NEW r \in Sends, Audit(r)
  PROVE  RequestInv(r)' /\ \A q \in Sends \ {r} : Untouched(q)
  <1>. USE DEF SendInv, SendTypeOK
  <1>. DEFINE entry == [from |-> r, status |-> IF send[r].reply = "error" THEN "FAILURE"
                                               ELSE "SUCCESS"]
  <1>1. RequestInv(r) /\ send[r].pc = "audit"  BY DEF Audit
  <1>2. /\ taken' = taken /\ gateway' = gateway /\ history' = history
        /\ trail' = trail \/ trail' = trail \cup {entry}
    BY DEF Audit
  <1>3. /\ \A q \in Sends \ {r} : send'[q] = send[q]
        /\ send'[r].result = send[r].result /\ send'[r].pc = "answered"
        /\ send'[r].reply = send[r].reply
    BY DEF Audit, SendGoto
  <1>4. SentStatus(r)' = SentStatus(r)  BY <1>3 DEF SentStatus
  <1>5. \A q, status : Recorded(q, status)' <=> Recorded(q, status)  BY <1>2 DEF Recorded
  <1>6. Posted(r)'  BY <1>3 DEF Posted, Unsent
  <1>7. ResultTrue(r)'  BY <1>1, <1>2, <1>3 DEF RequestInv, ResultTrue, Unsent
  <1>8. RowsTrue(r)'  BY <1>1, <1>2, <1>3, <1>4 DEF RequestInv, RowsTrue, RowAwaits
  <1>9. ReplyTrue(r)'
    <2>1. [from |-> r, status |-> "SUCCESS"] \in trail' => send[r].reply # "error"
      BY <1>1, <1>2 DEF RequestInv, ReplyTrue
    <2>. QED  BY <1>1, <1>3, <1>4, <1>5, <2>1 DEF RequestInv, ReplyTrue
  <1>10. \A q \in Sends \ {r} : Untouched(q)
    <2>1. \A row : row.from # r => (row \in trail' <=> row \in trail)  BY <1>2
    <2>. QED  BY <1>2, <1>3, <2>1 DEF Untouched
  <1>. QED  BY <1>6, <1>7, <1>8, <1>9, <1>10 DEF RequestInv

\* The process dies; what was answered stays as it was.
LEMMA CrashStep ==
  ASSUME SendInv, SendCrash, NEW q \in Sends
  PROVE  RequestInv(q)'
  <1>. USE DEF SendInv, SendTypeOK
  <1>1. /\ taken' = taken /\ trail' = trail /\ gateway' = gateway /\ history' = history
    BY DEF SendCrash
  <1>2. CASE send[q].pc \notin SendAwaits
    BY <1>1, <1>2, UntouchedKeeps DEF SendCrash, Untouched
  <1>3. CASE send[q].pc \in SendAwaits
    <2>1. send'[q].pc = "crashed" /\ send'[q].result = Failed("client")
      BY <1>3 DEF SendCrash, IdleSend
    <2>2. ~Failed("client").retryable /\ ~Failed("client").ok
      BY FailedTyped DEF ErrorKind, Verdict
    <2>3. Posted(q)' /\ ResultTrue(q)'  BY <2>1, <2>2 DEF Posted, ResultTrue, Unsent
    <2>4. RowsTrue(q)'  BY <2>1 DEF RowsTrue, RowAwaits
    <2>5. [from |-> q, status |-> "SUCCESS"] \notin trail
      BY <1>3 DEF RequestInv, ReplyTrue, SendAwaits
    <2>6. ReplyTrue(q)'  BY <1>1, <2>1, <2>5 DEF ReplyTrue
    <2>. QED  BY <2>3, <2>4, <2>6 DEF RequestInv
  <1>. QED  BY <1>2, <1>3

-----------------------------------------------------------------------------
(* The invariant holds.                                                    *)

\* At the start there is nothing to agree with.
LEMMA SendInvInit ==
  ASSUME SendInit
  PROVE  SendInv
  <1>1. SendTypeOK  BY SendTypeInit
  <1>2. ASSUME NEW r \in Sends
        PROVE  RequestInv(r)
    <2>1. send[r] = IdleSend /\ taken = {} /\ history = {} /\ trail = {}
      BY DEF SendInit, SendStart
    <2>2. ~Failed("client").retryable /\ ~Failed("client").ok
      BY FailedTyped DEF ErrorKind, Verdict
    <2>. QED
      BY <2>1, <2>2 DEF RequestInv, Posted, ResultTrue, RowsTrue, ReplyTrue, IdleSend
  <1>3. CustomerShowsHistory  BY DEF SendInit, SendStart, CustomerShowsHistory
  <1>. QED  BY <1>1, <1>2, <1>3 DEF SendInv

\* Rows are never deleted, and Meta does not give a message back.
LEMMA CustomerKept ==
  ASSUME CustomerShowsHistory, customer' = customer, gateway' = gateway,
         taken \subseteq taken', history \subseteq history'
  PROVE  CustomerShowsHistory'
  <1>1. \A r, status : Recorded(r, status) => Recorded(r, status)'  BY DEF Recorded
  <1>. QED  BY <1>1 DEF CustomerShowsHistory

\* Each step of a request keeps its own part, and touches no other.
LEMMA SendInvStep ==
  ASSUME SendInv, [SendNext]_sendVars
  PROVE  SendInv'
  <1>1. SendTypeOK'  BY SendTypeStep DEF SendInv
  <1>2. ASSUME NEW r \in Sends, RequestInv(r)', \A q \in Sends \ {r} : Untouched(q)
        PROVE  \A q \in Sends : RequestInv(q)'
    BY <1>2, UntouchedKeeps DEF SendInv
  <1>3. ASSUME NEW r \in Sends, Post(r) \/ ReadCustomers(r) \/ ReadTemplate(r) \/ ReadFails(r)
        PROVE  SendInv'
    <2>1. \A q \in Sends : RequestInv(q)'  BY <1>2, <1>3, UnsentStep
    <2>2. CustomerShowsHistory'
      BY <1>3, CustomerKept DEF Post, ReadCustomers, ReadTemplate, ReadFails, SendInv
    <2>. QED  BY <1>1, <2>1, <2>2 DEF SendInv
  <1>4. ASSUME NEW r \in Sends, MetaDecides(r) \/ MetaAnswers(r) \/ CutOff(r)
        PROVE  SendInv'
    <2>1. \A q \in Sends : RequestInv(q)'  BY <1>2, <1>4, ExchangeStep
    <2>2. CustomerShowsHistory'
      BY <1>4, CustomerKept DEF MetaDecides, MetaAnswers, CutOff, SendInv
    <2>. QED  BY <1>1, <2>1, <2>2 DEF SendInv
  <1>5. ASSUME NEW r \in Sends, InsertRow(r) \/ InsertFails(r)
        PROVE  SendInv'
    <2>1. \A q \in Sends : RequestInv(q)'  BY <1>2, <1>5, InsertStep
    <2>2. CustomerShowsHistory'
      BY <1>5, CustomerKept DEF InsertRow, InsertFails, SendInv
    <2>. QED  BY <1>1, <2>1, <2>2 DEF SendInv
  <1>6. ASSUME NEW r \in Sends, UpdateCustomer(r) \/ UpdateFails(r)
        PROVE  SendInv'
    <2>1. \A q \in Sends : RequestInv(q)'  BY <1>2, <1>6, UpdateStep
    <2>2. CustomerShowsHistory'  BY <1>6, UpdateStep
    <2>. QED  BY <1>1, <2>1, <2>2 DEF SendInv
  <1>7. ASSUME NEW r \in Sends, Audit(r)
        PROVE  SendInv'
    <2>1. \A q \in Sends : RequestInv(q)'  BY <1>2, <1>7, AuditStep
    <2>2. CustomerShowsHistory'  BY <1>7, CustomerKept DEF Audit, SendInv
    <2>. QED  BY <1>1, <2>1, <2>2 DEF SendInv
  <1>8. CASE SendCrash
    <2>1. \A q \in Sends : RequestInv(q)'  BY <1>8, CrashStep
    <2>2. CustomerShowsHistory'  BY <1>8, CustomerKept DEF SendCrash, SendInv
    <2>. QED  BY <1>1, <2>1, <2>2 DEF SendInv
  <1>9. CASE UNCHANGED sendVars
    <2>1. \A q \in Sends : RequestInv(q)'
      BY <1>9, UntouchedKeeps DEF sendVars, Untouched, SendInv
    <2>2. CustomerShowsHistory'  BY <1>9, CustomerKept DEF sendVars, SendInv
    <2>. QED  BY <1>1, <2>1, <2>2 DEF SendInv
  <1>. QED
    BY <1>3, <1>4, <1>5, <1>6, <1>7, <1>8, <1>9 DEF SendNext

\* The invariant of the direct send holds throughout.
LEMMA SendInvHolds == SendSpec => []SendInv
BY SendInvInit, SendInvStep, PTL DEF SendSpec

-----------------------------------------------------------------------------
(* The theorems.                                                           *)

\* Every request to the route is at an await of sendSingle with a result of the
\* gateway, and every row stored has a status the route writes.
THEOREM SendTypeCorrect == SendSpec => []SendTypeOK
  <1>1. SendInv => SendTypeOK  BY DEF SendInv
  <1>. QED  BY <1>1, SendInvHolds, PTL

\* What postMessages calls retryable was not taken by Meta, so that a send that is
\* repeated on this ground does not reach a customer twice.
THEOREM RetryableIsSafe == SendSpec => []RetryableWasRefused
  <1>1. SendInv => RetryableWasRefused
    BY DEF SendInv, RequestInv, ResultTrue, RetryableWasRefused
  <1>. QED  BY <1>1, SendInvHolds, PTL

\* What the client is told agrees with the history and with Meta, whatever other
\* requests do, whichever queries throw and whenever the process dies.
THEOREM AnswersAgree == SendSpec => []AnswerAgreesWithHistory
  <1>1. SendInv => AnswerAgreesWithHistory
    <2>1. SUFFICES ASSUME SendInv, NEW r \in Sends, send[r].pc \in {"audit", "answered"}
                   PROVE  /\ send[r].reply = "sent" =>
                               Recorded(r, "SENT") /\ (gateway.live => r \in taken)
                          /\ send[r].reply = "failed" =>
                               Recorded(r, "FAILED") /\ ~Recorded(r, "SENT")
                          /\ r \in taken /\ ~(\E row \in history : row.from = r) =>
                               /\ send[r].reply = "error"
                               /\ [from |-> r, status |-> "SUCCESS"] \notin trail
      BY DEF AnswerAgreesWithHistory
    <2>2. RequestInv(r)  BY <2>1 DEF SendInv
    <2>3. Recorded(r, SentStatus(r)) => \E row \in history : row.from = r
      BY DEF Recorded
    <2>4. Recorded(r, "SENT") => SentStatus(r) = "SENT"
      BY <2>1, <2>2 DEF Recorded, RequestInv, RowsTrue
    <2>5. CASE send[r].reply = "error"
      BY <2>2, <2>5 DEF RequestInv, ReplyTrue
    <2>6. CASE send[r].result.ok /\ send[r].reply = "sent" /\ Recorded(r, SentStatus(r))
      BY <2>2, <2>3, <2>6 DEF RequestInv, ResultTrue, SentStatus
    <2>7. CASE ~send[r].result.ok /\ send[r].reply = "failed" /\ Recorded(r, SentStatus(r))
      BY <2>3, <2>4, <2>7 DEF SentStatus
    <2>. QED  BY <2>1, <2>2, <2>5, <2>6, <2>7 DEF RequestInv, ReplyTrue
  <1>. QED  BY <1>1, SendInvHolds, PTL

\* The status a customer shows is that of a message in the history.
THEOREM CustomerIsHistory == SendSpec => []CustomerShowsHistory
  <1>1. SendInv => CustomerShowsHistory  BY DEF SendInv
  <1>. QED  BY <1>1, SendInvHolds, PTL

-----------------------------------------------------------------------------
(* The settings: what an update promises, for every set of keys and any    *)
(* number of updates and failures.                                         *)

\* The request records, apart from what SettingsTypeOK says of the rest.
PutType == [pc : {"idle", "upsert", "get", "answered"},
            body : Bodies, todo : SUBSET Keys,
            reply : {"none", "ok", "defaults", "error"}, settings : Resolved,
            overwritten : SUBSET Keys]

\* Where an update stands, what it has to write yet, and what it has answered.
Standing(r) ==
  /\ r.reply # "none" <=> r.pc = "answered"
  /\ r.pc = "get" \/ r.reply \in {"ok", "defaults"} => r.todo = {}

\* What it has written is stored, unless another update wrote the key since.
WrittenIsStored(r, store) ==
  r.reply # "error" =>
    \A k \in Keys : r.body[k] # Unset /\ k \notin r.todo /\ k \notin r.overwritten =>
      store[k] = r.body[k]

\* What it has answered is what its texts read as.
AnsweredIsWritten(r) ==
  r.reply = "ok" =>
    \A k \in Keys : r.body[k] # Unset /\ k \notin r.overwritten =>
      r.settings[k] = ReadsAs(r.body[k])

PutInv(r, store) ==
  r \in PutType /\ Standing(r) /\ WrittenIsStored(r, store) /\ AnsweredIsWritten(r)

SettingsInv == SettingsTypeOK /\ \A p \in Puts : PutInv(put[p], appSetting)

\* No update has begun.
LEMMA SettingsInvInit == SettingsInit => SettingsInv
<1> SUFFICES ASSUME SettingsInit PROVE SettingsInv
  OBVIOUS
<1>1. IdlePut \in PutType
  BY SettingsAssumption DEF IdlePut, PutType, Bodies, EnvDefaults, Resolved
<1>2. appSetting \in [Keys -> Values \cup {BlankName, Null, Unset}]
  BY DEF SettingsInit, SettingsStart, Bodies
<1>3. \A p \in Puts : put[p] = IdlePut
  BY DEF SettingsInit, SettingsStart
<1>4. put \in [Puts -> PutType]
  BY <1>1 DEF SettingsInit, SettingsStart
<1>5. SettingsTypeOK
  BY <1>2, <1>4, SettingsAssumption DEF SettingsInit, SettingsStart, SettingsTypeOK, PutType
<1>6. PutInv(IdlePut, appSetting)
  BY <1>1 DEF PutInv, IdlePut, Standing, WrittenIsStored, AnsweredIsWritten
<1> QED  BY <1>3, <1>5, <1>6 DEF SettingsInv

\* A key that is written: by this update, and over the others.
LEMMA KeyWritten ==
  ASSUME SettingsInv, NEW p \in Puts, put[p].pc = "upsert", NEW k \in put[p].todo,
         appSetting' = [appSetting EXCEPT ![k] = put[p].body[k]]
  PROVE  /\ appSetting' \in [Keys -> Values \cup {BlankName, Null, Unset}]
         /\ KeyDone(p, k, TRUE) \in [Puts -> PutType]
         /\ \A q \in Puts : PutInv(KeyDone(p, k, TRUE)[q], appSetting')
<1> DEFINE todo == put[p].todo \ {k}
           mine == [put[p] EXCEPT !.todo = todo, !.pc = IF todo = {} THEN "get" ELSE "upsert",
                                  !.overwritten = put[p].overwritten \ {k}]
           other(q) == [put[q] EXCEPT !.overwritten = put[q].overwritten \cup {k}]
<1>1. /\ put[p] \in PutType /\ Standing(put[p]) /\ WrittenIsStored(put[p], appSetting)
      /\ put[p].reply = "none" /\ k \in Keys /\ put[p].body[k] \in Values \cup {BlankName, Null, Unset}
  BY DEF SettingsInv, PutInv, PutType, Standing, Bodies
<1>2. appSetting \in [Keys -> Values \cup {BlankName, Null, Unset}]
  BY DEF SettingsInv, SettingsTypeOK
<1>3. appSetting' \in [Keys -> Values \cup {BlankName, Null, Unset}]
  BY <1>1, <1>2
<1>4. KeyDone(p, k, TRUE) = [q \in Puts |-> IF q = p THEN mine ELSE other(q)]
  BY DEF KeyDone
<1>5. mine \in PutType /\ PutInv(mine, appSetting')
  <2>1. mine \in PutType
    BY <1>1 DEF PutType
  <2>2. /\ mine.body = put[p].body /\ mine.reply = "none" /\ mine.todo = todo
        /\ mine.pc = (IF todo = {} THEN "get" ELSE "upsert")
        /\ mine.overwritten = put[p].overwritten \ {k}
    BY <1>1 DEF PutType
  <2> HIDE DEF mine
  <2>3. Standing(mine)
    BY <2>2 DEF Standing
  <2>4. WrittenIsStored(mine, appSetting')
    BY <1>1, <1>2, <2>2 DEF WrittenIsStored
  <2> QED  BY <2>1, <2>2, <2>3, <2>4 DEF PutInv, AnsweredIsWritten, PutType
<1>6. ASSUME NEW q \in Puts, q # p PROVE other(q) \in PutType /\ PutInv(other(q), appSetting')
  <2>1. /\ put[q] \in PutType /\ Standing(put[q])
        /\ WrittenIsStored(put[q], appSetting) /\ AnsweredIsWritten(put[q])
    BY DEF SettingsInv, PutInv
  <2>2. other(q) \in PutType
    BY <1>1, <2>1 DEF PutType
  <2>3. /\ other(q).body = put[q].body /\ other(q).reply = put[q].reply
        /\ other(q).todo = put[q].todo /\ other(q).pc = put[q].pc
        /\ other(q).settings = put[q].settings
        /\ other(q).overwritten = put[q].overwritten \cup {k}
    BY <2>1 DEF PutType
  <2> HIDE DEF other
  <2>4. Standing(other(q))
    BY <2>1, <2>3 DEF Standing
  <2>5. WrittenIsStored(other(q), appSetting')
    BY <1>1, <1>2, <2>1, <2>3 DEF WrittenIsStored
  <2>6. AnsweredIsWritten(other(q))
    BY <2>1, <2>3 DEF AnsweredIsWritten
  <2> QED  BY <2>2, <2>4, <2>5, <2>6 DEF PutInv, PutType
<1> HIDE DEF mine, other
<1> QED  BY <1>3, <1>4, <1>5, <1>6

\* An update that ends, or reads back the settings, while the store stays.
LEMMA OneAnswers ==
  ASSUME SettingsInv, NEW p \in Puts, NEW r \in PutType, PutInv(r, appSetting),
         appSetting' = appSetting, put' = [put EXCEPT ![p] = r],
         settingFaults' \in 0..MaxSettingFaults
  PROVE  SettingsInv'
<1>1. \A q \in Puts : put'[q] = IF q = p THEN r ELSE put[q]
  BY DEF SettingsInv, SettingsTypeOK
<1>2. put' \in [Puts -> PutType]
  BY DEF SettingsInv, SettingsTypeOK, PutType
<1>3. SettingsTypeOK'
  BY <1>2 DEF SettingsInv, SettingsTypeOK, PutType
<1> QED  BY <1>1, <1>3 DEF SettingsInv

\* A failure is counted.
LEMMA FaultCounted == ASSUME SettingsInv, SettingFault PROVE settingFaults' \in 0..MaxSettingFaults
BY SettingsAssumption DEF SettingsInv, SettingsTypeOK, SettingFault

\* What get answers is a value or the default for every key.
LEMMA OverlayTyped == SettingsTypeOK => Overlay \in Resolved
BY DEF SettingsTypeOK, Overlay, ReadsAs, Resolved

\* Each step of an update keeps the invariant.
LEMMA SettingsInvStep == SettingsInv /\ [SettingsNext]_settingsVars => SettingsInv'
<1> SUFFICES ASSUME SettingsInv, [SettingsNext]_settingsVars PROVE SettingsInv'
  OBVIOUS
<1>a. /\ appSetting \in [Keys -> Values \cup {BlankName, Null, Unset}]
      /\ put \in [Puts -> PutType]
      /\ settingFaults \in 0..MaxSettingFaults
  BY DEF SettingsInv, SettingsTypeOK, PutType
<1>b. \A p \in Puts : PutInv(put[p], appSetting)
  BY DEF SettingsInv
<1>1. ASSUME NEW p \in Puts, PutSettings(p) PROVE SettingsInv'
  <2>1. PICK body \in Bodies :
          put' = [put EXCEPT ![p] = [IdlePut EXCEPT
                   !.pc = IF {k \in Keys : body[k] # Unset} = {} THEN "get" ELSE "upsert",
                   !.body = body, !.todo = {k \in Keys : body[k] # Unset}]]
    BY <1>1 DEF PutSettings
  <2> DEFINE r == [IdlePut EXCEPT
                   !.pc = IF {k \in Keys : body[k] # Unset} = {} THEN "get" ELSE "upsert",
                   !.body = body, !.todo = {k \in Keys : body[k] # Unset}]
  <2>2. r \in PutType
    BY DEF IdlePut, PutType, EnvDefaults, Resolved
  <2>3. PutInv(r, appSetting)
    BY <2>2 DEF IdlePut, PutInv, Standing, WrittenIsStored, AnsweredIsWritten
  <2>4. appSetting' = appSetting /\ settingFaults' = settingFaults
    BY <1>1 DEF PutSettings
  <2> HIDE DEF r
  <2> QED  BY <1>a, <2>1, <2>2, <2>3, <2>4, OneAnswers DEF r
<1>2. ASSUME NEW p \in Puts, UpsertSetting(p) PROVE SettingsInv'
  <2>1. PICK k \in put[p].todo :
          /\ appSetting' = [appSetting EXCEPT ![k] = put[p].body[k]]
          /\ put' = KeyDone(p, k, TRUE)
    BY <1>2 DEF UpsertSetting
  <2>2. /\ appSetting' \in [Keys -> Values \cup {BlankName, Null, Unset}]
        /\ put' \in [Puts -> PutType]
        /\ \A q \in Puts : PutInv(put'[q], appSetting')
    BY <1>2, <2>1, KeyWritten DEF UpsertSetting
  <2>3. settingFaults' = settingFaults
    BY <1>2 DEF UpsertSetting
  <2> QED  BY <1>a, <2>2, <2>3 DEF SettingsInv, SettingsTypeOK, PutType
<1>3. ASSUME NEW p \in Puts, UpsertFails(p) PROVE SettingsInv'
  <2>1. settingFaults' \in 0..MaxSettingFaults
    BY <1>3, FaultCounted DEF UpsertFails
  <2>2. ASSUME NEW r, PutInv(r, appSetting)
        PROVE  [r EXCEPT !.pc = "answered", !.reply = "error"] \in PutType
    BY <2>2 DEF PutInv, PutType
  <2>3. ASSUME NEW r, NEW store, PutInv(r, store)
        PROVE  PutInv([r EXCEPT !.pc = "answered", !.reply = "error"], store)
    BY <2>3 DEF PutInv, PutType, Standing, WrittenIsStored, AnsweredIsWritten
  <2>4. CASE /\ put' = [put EXCEPT ![p].pc = "answered", ![p].reply = "error"]
             /\ UNCHANGED appSetting
    <3>1. put' = [put EXCEPT ![p] = [put[p] EXCEPT !.pc = "answered", !.reply = "error"]]
      BY <1>a, <2>4
    <3> QED  BY <1>b, <2>1, <2>2, <2>3, <2>4, <3>1, OneAnswers
  <2>5. ASSUME NEW k \in put[p].todo,
               appSetting' = [appSetting EXCEPT ![k] = put[p].body[k]],
               put' = [KeyDone(p, k, TRUE) EXCEPT ![p].pc = "answered", ![p].reply = "error"]
        PROVE  SettingsInv'
    <3> DEFINE done == KeyDone(p, k, TRUE)
    <3>1. /\ appSetting' \in [Keys -> Values \cup {BlankName, Null, Unset}]
          /\ done \in [Puts -> PutType]
          /\ \A q \in Puts : PutInv(done[q], appSetting')
      BY <1>3, <2>5, KeyWritten DEF UpsertFails
    <3>2. put' = [done EXCEPT ![p] = [done[p] EXCEPT !.pc = "answered", !.reply = "error"]]
      BY <2>5, <3>1
    <3>3. [done[p] EXCEPT !.pc = "answered", !.reply = "error"] \in PutType
      BY <3>1 DEF PutType
    <3>4. \A q \in Puts : PutInv(put'[q], appSetting')
      BY <2>3, <3>1, <3>2
    <3>5. put' \in [Puts -> PutType]
      BY <3>1, <3>2, <3>3
    <3> QED  BY <2>1, <3>1, <3>4, <3>5 DEF SettingsInv, SettingsTypeOK, PutType
  <2> QED  BY <1>3, <2>4, <2>5 DEF UpsertFails
<1>4. ASSUME NEW p \in Puts, GetSettings(p) PROVE SettingsInv'
  <2> DEFINE r == [put[p] EXCEPT !.pc = "answered", !.reply = "ok", !.settings = Overlay]
  <2>1. put' = [put EXCEPT ![p] = r] /\ appSetting' = appSetting /\ settingFaults' = settingFaults
    BY <1>a, <1>4 DEF GetSettings
  <2>2. put[p] \in PutType /\ put[p].pc = "get" /\ put[p].todo = {} /\ put[p].reply = "none"
    BY <1>b, <1>4 DEF GetSettings, PutInv, PutType, Standing
  <2>3. /\ r \in PutType /\ r.pc = "answered" /\ r.reply = "ok" /\ r.settings = Overlay
        /\ r.todo = {} /\ r.body = put[p].body /\ r.overwritten = put[p].overwritten
    BY <2>2, OverlayTyped DEF SettingsInv, PutType
  <2> HIDE DEF r
  <2>4. WrittenIsStored(put[p], appSetting)
    BY <1>b DEF PutInv
  <2>5. WrittenIsStored(r, appSetting)
    BY <2>2, <2>3, <2>4 DEF WrittenIsStored
  <2>6. AnsweredIsWritten(r)
    BY <2>3, <2>5, SMT DEF AnsweredIsWritten, WrittenIsStored, Overlay
  <2>7. PutInv(r, appSetting)
    BY <2>3, <2>5, <2>6 DEF PutInv, Standing
  <2> QED  BY <1>a, <2>1, <2>3, <2>7, OneAnswers
<1>5. ASSUME NEW p \in Puts, GetSettingsFails(p) PROVE SettingsInv'
  <2> DEFINE r == [put[p] EXCEPT !.pc = "answered", !.reply = "defaults"]
  <2>1. put' = [put EXCEPT ![p] = r] /\ appSetting' = appSetting
    BY <1>a, <1>5 DEF GetSettingsFails
  <2>2. /\ r \in PutType
        /\ PutInv(r, appSetting)
    BY <1>b, <1>5 DEF GetSettingsFails, PutInv, PutType, Standing, WrittenIsStored, AnsweredIsWritten
  <2>3. settingFaults' \in 0..MaxSettingFaults
    BY <1>5, FaultCounted DEF GetSettingsFails
  <2> HIDE DEF r
  <2> QED  BY <2>1, <2>2, <2>3, OneAnswers
<1>6. CASE UNCHANGED settingsVars
  BY <1>6 DEF settingsVars, SettingsInv, SettingsTypeOK
<1> QED  BY <1>1, <1>2, <1>3, <1>4, <1>5, <1>6 DEF SettingsNext

\* The invariant of the settings holds throughout.
LEMMA SettingsInvHolds == SettingsSpec => []SettingsInv
BY SettingsInvInit, SettingsInvStep, PTL DEF SettingsSpec

\* Whatever updates are served at once and whichever of their queries throw, what
\* an update was told is stored is stored, and what it was shown is what those
\* texts read as: update and get of settings.service.ts.
THEOREM UpdatesAreStored == SettingsSpec => []SavedSettingsAreStored
<1>1. SettingsInv => SavedSettingsAreStored
  <2> SUFFICES ASSUME SettingsInv, NEW p \in Puts, put[p].reply \in {"ok", "defaults"},
                      NEW k \in Keys, put[p].body[k] # Unset, k \notin put[p].overwritten
               PROVE  /\ appSetting[k] = put[p].body[k]
                      /\ put[p].reply = "ok" => put[p].settings[k] = ReadsAs(put[p].body[k])
    BY DEF SavedSettingsAreStored
  <2>1. PutInv(put[p], appSetting) /\ put[p].todo = {}
    BY DEF SettingsInv, PutInv, Standing
  <2>2. appSetting[k] = put[p].body[k]
    BY <2>1 DEF PutInv, WrittenIsStored
  <2> QED  BY <2>1, <2>2 DEF PutInv, AnsweredIsWritten
<1> QED  BY <1>1, SettingsInvHolds, PTL

-----------------------------------------------------------------------------
(* The templates page over its service.                                    *)

ListKinds == {"initial", "list"}
WriteKinds == {"create", "update", "archive"}

\* What a list shows is in the table: templates are never deleted.
Known(list, table) == \A id \in TemplateIds : list[id] # Absent => table[id] # Absent

\* What a call carries: the text to save, the template it is about, which is the one the
\* editor was opened for, and the rows that were listed.
CallShape(c, table) ==
  /\ c.kind \in {"create", "update"} => c.text \in Texts
  /\ c.kind \in {"update", "archive"} => c.id \in TemplateIds /\ table[c.id] # Absent
  /\ c.kind = "update" => c.for = c.id
  /\ c.rows # Absent => Known(c.rows, table)
  /\ c.kind \in ListKinds /\ c.at = "answered" /\ c.ok => c.rows # Absent
DeskShape ==
  /\ Known(desk.list, templates)
  /\ editor.id # Absent => templates[editor.id] # Absent /\ editor.for = editor.id
  /\ \A s \in DeskSlots : deskCalls[s] # Absent => CallShape(deskCalls[s], templates)

\* Unless the page is muddled, one list call is under way at most; and while no change
\* waits to be told, what is listed, and else what is shown, is the table.
Telling == \E s \in DeskSlots :
  deskCalls[s] # Absent /\ deskCalls[s].kind \in WriteKinds /\ deskCalls[s].at = "answered"
Catching ==
  ~deskMuddled =>
    /\ \A s, t \in DeskInFlight(ListKinds) : s = t
    /\ ~Telling =>
         /\ \A s \in DeskInFlight(ListKinds) :
              deskCalls[s].at = "answered" /\ deskCalls[s].ok => deskCalls[s].rows = templates
         /\ DeskInFlight(ListKinds) = {} => desk.list = templates
DeskInv == DeskTypeOK /\ DeskShape /\ Catching

\* The types of the parts.
DeskPage == [list : Table, loading : BOOLEAN, refreshing : BOOLEAN]
EditorState == [open : BOOLEAN, id : TemplateIds \cup {Absent}, form : Texts \cup {Blank},
                error : BOOLEAN, saving : BOOLEAN, for : TemplateIds \cup {Absent}]
DeskUsage == [calls : 0..MaxDeskCalls, faults : 0..MaxDeskFaults]

LEMMA DeskTypes ==
  DeskTypeOK <=> /\ templates \in Table /\ desk \in DeskPage /\ editor \in EditorState
                 /\ deskCalls \in [DeskSlots -> DeskCall \cup {Absent}]
                 /\ deskMuddled \in BOOLEAN /\ deskUsed \in DeskUsage
  BY DEF DeskTypeOK, DeskPage, EditorState, DeskUsage

\* Calls and faults are counted within the bounds.
LEMMA DeskCounted ==
  ASSUME DeskTypeOK, DeskSpend \/ DeskFault \/ deskUsed' = deskUsed
  PROVE  deskUsed' \in DeskUsage
  BY DeskBounds, DeskTypes DEF DeskUsage, DeskSpend, DeskFault

\* A new call, of a kind and about what its kind is about.
LEMMA NewCallShape ==
  ASSUME DeskTypeOK, NEW kind \in ListKinds \cup WriteKinds, NEW id \in TemplateIds \cup {Absent},
         NEW text \in Texts \cup {Absent}, NEW table
  PROVE  /\ NewCall(kind, id, text) \in DeskCall
         /\ NewCall(kind, id, text) # Absent
         /\ NewCall(kind, id, text).kind = kind /\ NewCall(kind, id, text).at = "sent"
         /\ (/\ kind \in {"create", "update"} => text \in Texts
             /\ kind \in {"update", "archive"} => id \in TemplateIds /\ table[id] # Absent
             /\ kind = "update" => editor.for = id)
            => CallShape(NewCall(kind, id, text), table)
  <1>1. NewCall(kind, id, text) \in DeskCall
    BY DeskTypes DEF NewCall, DeskCall, EditorState, ListKinds, WriteKinds
  <1>. QED  BY <1>1, AbsentAssumption DEF NewCall, CallShape

\* The page starts on a table, with the first list under way.
LEMMA DeskInvInit == DeskInit => DeskInv
  <1>. SUFFICES ASSUME DeskInit PROVE DeskInv  OBVIOUS
  <1>. DEFINE first == CHOOSE s \in DeskSlots : TRUE
              c == NewCall("initial", Absent, Absent)
  <1>0. first \in DeskSlots  BY DeskBounds
  <1>1. templates \in Table
    <2>1. ASSUME NEW t \in Texts PROVE [text |-> t, active |-> TRUE] \in TemplateRow  BY DEF TemplateRow
    <2>2. templates \in DeskTables  BY DEF DeskInit, DeskStart
    <2>. QED  BY <2>1, <2>2 DEF DeskTables, Table
  <1>2. /\ desk = [list |-> [id \in TemplateIds |-> Absent], loading |-> TRUE, refreshing |-> FALSE]
        /\ editor = [open |-> FALSE, id |-> Absent, form |-> Blank, error |-> FALSE, saving |-> FALSE,
                     for |-> Absent]
        /\ deskCalls = [s \in DeskSlots |-> IF s = first THEN c ELSE Absent]
        /\ deskMuddled = FALSE /\ deskUsed = [calls |-> 0, faults |-> 0]
    BY DEF DeskInit, DeskStart
  <1>3. desk \in DeskPage  BY <1>2 DEF DeskPage, Table
  <1>4. editor \in EditorState  BY <1>2 DEF EditorState
  <1>5. deskUsed \in DeskUsage  BY <1>2, DeskBounds DEF DeskUsage
  <1>6. c = [kind |-> "initial", id |-> Absent, for |-> Absent, text |-> Absent, at |-> "sent",
             ok |-> FALSE, rows |-> Absent]
    BY <1>2 DEF NewCall
  <1>7. c \in DeskCall /\ c # Absent /\ c.kind = "initial" /\ c.at = "sent" /\ c.rows = Absent
    <2>. HIDE DEF c
    <2>1. c \in DeskCall  BY <1>6 DEF DeskCall
    <2>2. c # Absent  BY <2>1, AbsentAssumption
    <2>. QED  BY <1>6, <2>1, <2>2
  <1>. HIDE DEF c, first
  <1>8. DeskTypeOK  BY <1>1, <1>2, <1>3, <1>4, <1>5, <1>7, DeskTypes
  <1>9. \A s \in DeskSlots : deskCalls[s] # Absent => s = first /\ deskCalls[s] = c  BY <1>2
  <1>10. deskCalls[first] = c  BY <1>0, <1>2
  <1>11. DeskShape
    <2>1. CallShape(c, templates)  BY <1>7 DEF CallShape
    <2>. QED  BY <1>2, <1>9, <2>1 DEF DeskShape, Known
  <1>12. Catching
    <2>1. DeskInFlight(ListKinds) = {first}  BY <1>0, <1>7, <1>9, <1>10 DEF DeskInFlight, ListKinds
    <2>. QED  BY <1>7, <1>10, <2>1 DEF Catching
  <1>. QED  BY <1>8, <1>11, <1>12 DEF DeskInv

\* Replacing one call, while templates are only added, keeps the others in shape.
LEMMA CallReplaced ==
  ASSUME DeskTypeOK, DeskShape, templates' \in Table, Known(templates, templates'),
         NEW s \in DeskSlots, NEW d \in DeskCall \cup {Absent},
         deskCalls' = [deskCalls EXCEPT ![s] = d], d # Absent => CallShape(d, templates')
  PROVE  /\ deskCalls' \in [DeskSlots -> DeskCall \cup {Absent}]
         /\ \A t \in DeskSlots : deskCalls'[t] # Absent => CallShape(deskCalls'[t], templates')
         /\ deskCalls'[s] = d /\ \A t \in DeskSlots : t # s => deskCalls'[t] = deskCalls[t]
  <1>1. deskCalls' \in [DeskSlots -> DeskCall \cup {Absent}]  BY DeskTypes
  <1>2. deskCalls'[s] = d /\ \A t \in DeskSlots : t # s => deskCalls'[t] = deskCalls[t]  BY DeskTypes
  <1>3. ASSUME NEW t \in DeskSlots, deskCalls'[t] # Absent, t # s
        PROVE  CallShape(deskCalls'[t], templates')
    <2>1. deskCalls'[t] = deskCalls[t] /\ CallShape(deskCalls[t], templates)  BY <1>2, <1>3 DEF DeskShape
    <2>. QED  BY <2>1 DEF CallShape, Known
  <1>. QED  BY <1>1, <1>2, <1>3

\* A list begins in a slot that is free or was a change's: it is the only one, or the
\* page is muddled.
LEMMA FetchStarts ==
  ASSUME DeskInv, NEW s \in DeskSlots, FetchTemplates(s), templates' = templates,
         deskCalls[s] = Absent \/ deskCalls[s].kind \in WriteKinds
  PROVE  /\ deskCalls' \in [DeskSlots -> DeskCall \cup {Absent}] /\ deskMuddled' \in BOOLEAN
         /\ \A t \in DeskSlots : deskCalls'[t] # Absent => CallShape(deskCalls'[t], templates')
         /\ Catching'
  <1>. DEFINE c == NewCall("list", Absent, Absent)
  <1>1. c \in DeskCall /\ c # Absent /\ c.kind = "list" /\ c.at = "sent" /\ CallShape(c, templates')
    BY NewCallShape DEF DeskInv, ListKinds
  <1>2. deskCalls' = [deskCalls EXCEPT ![s] = c]  BY DEF FetchTemplates
  <1>. HIDE DEF c
  <1>3. /\ deskCalls' \in [DeskSlots -> DeskCall \cup {Absent}]
        /\ \A t \in DeskSlots : deskCalls'[t] # Absent => CallShape(deskCalls'[t], templates')
        /\ deskCalls'[s] = c /\ \A t \in DeskSlots : t # s => deskCalls'[t] = deskCalls[t]
    BY <1>1, <1>2, CallReplaced, DeskTypes DEF DeskInv, Known
  <1>4. deskMuddled' \in BOOLEAN  BY DeskTypes DEF FetchTemplates, DeskInv
  <1>5. ASSUME ~deskMuddled' PROVE DeskInFlight(ListKinds)' = {s}
    <2>1. DeskInFlight({"initial", "list"}) \ {s} = {}  BY <1>5 DEF FetchTemplates
    <2>2. s \in DeskInFlight(ListKinds)'  BY <1>1, <1>3 DEF DeskInFlight, ListKinds
    <2>3. \A t \in DeskInFlight(ListKinds)' : t = s  BY <1>3, <2>1 DEF DeskInFlight, ListKinds
    <2>. QED  BY <2>2, <2>3
  <1>6. Catching'
    <2>. SUFFICES ASSUME ~deskMuddled'
                  PROVE  /\ \A t, u \in DeskInFlight(ListKinds)' : t = u
                         /\ \A t \in DeskInFlight(ListKinds)' : deskCalls'[t].at # "answered"
                         /\ DeskInFlight(ListKinds)' # {}
      BY DEF Catching
    <2>. QED  BY <1>1, <1>3, <1>5
  <1>. QED  BY <1>3, <1>4, <1>6

\* Mutes what waits to be told: a change was made or refused, and the page does not know.
LEMMA ToldLater ==
  ASSUME DeskInv, NEW s \in DeskSlots, deskCalls'[s] # Absent, deskCalls'[s].kind \in WriteKinds,
         deskCalls[s] # Absent, deskCalls[s].kind = deskCalls'[s].kind,
         deskCalls'[s].at = "answered", deskMuddled' = deskMuddled,
         \A t \in DeskSlots : t # s => deskCalls'[t] = deskCalls[t]
  PROVE  Catching'
  <1>1. Telling'  BY DEF Telling
  <1>2. DeskInFlight(ListKinds)' = DeskInFlight(ListKinds)  BY DEF DeskInFlight
  <1>. QED  BY <1>1, <1>2 DEF Catching, DeskInv

\* A call of the editor or an archive begins: nothing of the list is touched.
LEMMA ChangeAsked ==
  ASSUME DeskInv, NEW kind \in WriteKinds, NEW id \in TemplateIds \cup {Absent},
         NEW text \in Texts \cup {Absent}, DeskAsk(kind, id, text),
         UNCHANGED <<templates, deskMuddled>>, desk' = desk,
         kind \in {"create", "update"} => text \in Texts,
         kind \in {"update", "archive"} => id \in TemplateIds /\ templates[id] # Absent,
         kind = "update" => editor.for = id
  PROVE  /\ deskCalls' \in [DeskSlots -> DeskCall \cup {Absent}]
         /\ \A t \in DeskSlots : deskCalls'[t] # Absent => CallShape(deskCalls'[t], templates')
         /\ Catching'
  <1>. DEFINE c == NewCall(kind, id, text)
  <1>1. PICK s \in DeskSlots : deskCalls[s] = Absent /\ deskCalls' = [deskCalls EXCEPT ![s] = c]
    BY DEF DeskAsk
  <1>2. c \in DeskCall /\ c # Absent /\ c.kind = kind /\ c.at = "sent" /\ CallShape(c, templates')
    BY NewCallShape DEF DeskInv
  <1>. HIDE DEF c
  <1>3. /\ deskCalls' \in [DeskSlots -> DeskCall \cup {Absent}]
        /\ \A t \in DeskSlots : deskCalls'[t] # Absent => CallShape(deskCalls'[t], templates')
        /\ deskCalls'[s] = c /\ \A t \in DeskSlots : t # s => deskCalls'[t] = deskCalls[t]
    BY <1>1, <1>2, CallReplaced, DeskTypes DEF DeskInv, Known
  <1>4. DeskInFlight(ListKinds)' = DeskInFlight(ListKinds)
    BY <1>1, <1>2, <1>3 DEF DeskInFlight, ListKinds, WriteKinds
  <1>5. Telling' = Telling  BY <1>1, <1>2, <1>3 DEF Telling
  <1>6. \A t \in DeskInFlight(ListKinds) : deskCalls'[t] = deskCalls[t]
    BY <1>1, <1>3 DEF DeskInFlight
  <1>. QED  BY <1>3, <1>4, <1>5, <1>6 DEF Catching, DeskInv

\* What the operator does.
LEMMA OperatorStep ==
  ASSUME DeskInv,
         \/ DeskRefresh \/ OpenCreate \/ CloseEditor \/ SaveTemplate
         \/ \E id \in TemplateIds : OpenEdit(id) \/ ArchiveTemplate(id)
         \/ \E text \in Texts : EditText(text)
  PROVE  DeskInv'
  <1>t. /\ DeskTypeOK /\ templates \in Table /\ desk \in DeskPage /\ editor \in EditorState
        /\ deskCalls \in [DeskSlots -> DeskCall \cup {Absent}]
        /\ deskMuddled \in BOOLEAN /\ deskUsed \in DeskUsage
    BY DeskTypes DEF DeskInv
  <1>e. ASSUME editor' \in EditorState, UNCHANGED <<templates, desk, deskCalls, deskMuddled, deskUsed>>,
               editor'.id # Absent => templates[editor'.id] # Absent /\ editor'.for = editor'.id
        PROVE  DeskInv'
    <2>1. DeskTypeOK'  BY <1>t, <1>e DEF DeskTypeOK, DeskPage, EditorState, DeskUsage
    <2>2. DeskShape'  BY <1>e DEF DeskInv, DeskShape, Known, CallShape
    <2>3. Catching'  BY <1>e DEF DeskInv, Catching, Telling, DeskInFlight
    <2>. QED  BY <2>1, <2>2, <2>3 DEF DeskInv
  <1>s. editor.id # Absent => templates[editor.id] # Absent /\ editor.for = editor.id
    BY DEF DeskInv, DeskShape
  <1>1. CASE DeskRefresh
    <2>1. PICK s \in DeskSlots : deskCalls[s] = Absent /\ FetchTemplates(s)  BY <1>1 DEF DeskRefresh
    <2>2. desk' = [desk EXCEPT !.refreshing = TRUE] /\ UNCHANGED <<templates, editor>>
      BY <1>1 DEF DeskRefresh
    <2>3. desk' \in DeskPage /\ desk'.list = desk.list  BY <1>t, <2>2 DEF DeskPage
    <2>4. deskUsed' \in DeskUsage  BY <1>t, <1>1, DeskCounted DEF DeskRefresh
    <2>5. /\ deskCalls' \in [DeskSlots -> DeskCall \cup {Absent}] /\ deskMuddled' \in BOOLEAN
          /\ \A t \in DeskSlots : deskCalls'[t] # Absent => CallShape(deskCalls'[t], templates')
          /\ Catching'
      BY <2>1, <2>2, FetchStarts
    <2>6. DeskTypeOK'  BY <1>t, <2>2, <2>3, <2>4, <2>5 DEF DeskTypeOK, DeskPage, EditorState, DeskUsage
    <2>7. DeskShape'  BY <1>s, <2>2, <2>3, <2>5 DEF DeskInv, DeskShape, Known
    <2>. QED  BY <2>5, <2>6, <2>7 DEF DeskInv
  <1>2. CASE OpenCreate
    <2>1. editor' = [editor EXCEPT !.open = TRUE, !.id = Absent, !.form = Blank, !.error = FALSE,
                                   !.for = Absent]
      BY <1>2 DEF OpenCreate
    <2>2. editor' \in EditorState /\ editor'.id = Absent  BY <1>t, <2>1 DEF EditorState
    <2>. QED  BY <1>2, <1>e, <2>2 DEF OpenCreate
  <1>3. CASE CloseEditor
    <2>1. editor' = [editor EXCEPT !.open = FALSE]  BY <1>3 DEF CloseEditor
    <2>2. editor' \in EditorState /\ editor'.id = editor.id /\ editor'.for = editor.for
      BY <1>t, <2>1 DEF EditorState
    <2>. QED  BY <1>3, <1>e, <1>s, <2>2 DEF CloseEditor
  <1>4. ASSUME NEW text \in Texts, EditText(text) PROVE DeskInv'
    <2>1. editor' = [editor EXCEPT !.form = text]  BY <1>4 DEF EditText
    <2>2. editor' \in EditorState /\ editor'.id = editor.id /\ editor'.for = editor.for
      BY <1>t, <2>1 DEF EditorState
    <2>. QED  BY <1>4, <1>e, <1>s, <2>2 DEF EditText
  <1>5. ASSUME NEW id \in TemplateIds, OpenEdit(id) PROVE DeskInv'
    <2>1. /\ editor' = [editor EXCEPT !.open = TRUE, !.id = id, !.form = desk.list[id].text,
                                     !.error = FALSE, !.for = id]
          /\ desk.list[id] # Absent
      BY <1>5 DEF OpenEdit
    <2>2. desk.list[id] \in TemplateRow  BY <1>t, <2>1 DEF DeskPage, Table
    <2>3. desk.list[id].text \in Texts  BY <2>2 DEF TemplateRow
    <2>4. editor' \in EditorState /\ editor'.id = id /\ editor'.for = id
      BY <1>t, <2>1, <2>3 DEF EditorState
    <2>5. templates[id] # Absent  BY <2>1 DEF DeskInv, DeskShape, Known
    <2>. QED  BY <1>5, <1>e, <2>4, <2>5 DEF OpenEdit
  <1>6. CASE SaveTemplate
    <2>1. CASE editor.form = Blank
      <3>1. editor' = [editor EXCEPT !.error = TRUE] /\ UNCHANGED <<deskCalls, deskUsed>>
        BY <1>6, <2>1 DEF SaveTemplate
      <3>2. editor' \in EditorState /\ editor'.id = editor.id /\ editor'.for = editor.for
        BY <1>t, <3>1 DEF EditorState
      <3>. QED  BY <1>6, <1>e, <1>s, <3>1, <3>2 DEF SaveTemplate
    <2>2. CASE editor.form # Blank
      <3>. DEFINE kind == IF editor.id = Absent THEN "create" ELSE "update"
      <3>1. /\ editor' = [editor EXCEPT !.saving = TRUE, !.error = FALSE]
            /\ DeskAsk(kind, editor.id, editor.form)
            /\ UNCHANGED <<templates, desk, deskMuddled>>
        BY <1>6, <2>2 DEF SaveTemplate
      <3>2. editor' \in EditorState /\ editor'.id = editor.id /\ editor'.for = editor.for
        BY <1>t, <3>1 DEF EditorState
      <3>3. editor.id \in TemplateIds \cup {Absent} /\ editor.form \in Texts
        BY <1>t, <2>2 DEF EditorState
      <3>4. kind \in WriteKinds /\ kind # "archive" /\ (kind = "update" => editor.id # Absent)
        BY DEF WriteKinds
      <3>. HIDE DEF kind
      <3>5. /\ deskCalls' \in [DeskSlots -> DeskCall \cup {Absent}]
            /\ \A t \in DeskSlots : deskCalls'[t] # Absent => CallShape(deskCalls'[t], templates')
            /\ Catching'
        BY <1>s, <3>1, <3>3, <3>4, ChangeAsked
      <3>6. deskUsed' \in DeskUsage  BY <1>t, <3>1, DeskCounted DEF DeskAsk
      <3>7. DeskTypeOK'  BY <1>t, <3>1, <3>2, <3>5, <3>6 DEF DeskTypeOK, DeskPage, EditorState, DeskUsage
      <3>8. DeskShape'  BY <1>s, <3>1, <3>2, <3>5 DEF DeskInv, DeskShape, Known
      <3>. QED  BY <3>5, <3>7, <3>8 DEF DeskInv
    <2>. QED  BY <2>1, <2>2
  <1>7. ASSUME NEW id \in TemplateIds, ArchiveTemplate(id) PROVE DeskInv'
    <2>1. /\ DeskAsk("archive", id, Absent) /\ desk.list[id] # Absent
          /\ UNCHANGED <<templates, desk, editor, deskMuddled>>
      BY <1>7 DEF ArchiveTemplate
    <2>2. templates[id] # Absent  BY <2>1 DEF DeskInv, DeskShape, Known
    <2>3. /\ deskCalls' \in [DeskSlots -> DeskCall \cup {Absent}]
          /\ \A t \in DeskSlots : deskCalls'[t] # Absent => CallShape(deskCalls'[t], templates')
          /\ Catching'
      <3>1. "archive" \in WriteKinds  BY DEF WriteKinds
      <3>. QED  BY <2>1, <2>2, <3>1, ChangeAsked
    <2>4. deskUsed' \in DeskUsage  BY <1>t, <2>1, DeskCounted DEF DeskAsk
    <2>5. DeskTypeOK'  BY <1>t, <2>1, <2>3, <2>4 DEF DeskTypeOK, DeskPage, EditorState, DeskUsage
    <2>6. DeskShape'  BY <1>s, <2>1, <2>3 DEF DeskInv, DeskShape, Known
    <2>. QED  BY <2>3, <2>5, <2>6 DEF DeskInv
  <1>. QED  BY <1>1, <1>2, <1>3, <1>4, <1>5, <1>6, <1>7

\* What the service makes of a change: a new template in a free place, a new text or
\* another isActive.
LEMMA ChangeMade ==
  ASSUME DeskInv, NEW s \in DeskSlots, deskCalls[s] # Absent, NEW ok \in BOOLEAN,
         InsertTemplate(s, ok) \/ UpdateTemplate(s, ok)
  PROVE  /\ templates' \in Table /\ Known(templates, templates')
         /\ \E answer \in BOOLEAN : DeskAnswer(s, answer)
         /\ deskCalls[s].kind \in WriteKinds
         /\ \A id \in TemplateIds :
              templates[id] # Absent /\ templates'[id].text # templates[id].text =>
                deskCalls[s].kind = "update" /\ deskCalls[s].id = id /\ templates'[id].text = deskCalls[s].text
  <1>. DEFINE c == deskCalls[s]
  <1>t. templates \in Table /\ c \in DeskCall  BY DeskTypes DEF DeskInv
  <1>c. CallShape(c, templates)  BY DEF DeskInv, DeskShape
  <1>0. Known(templates, templates)  BY DEF Known
  <1>1. CASE templates' = templates
    BY <1>t, <1>0, <1>1 DEF InsertTemplate, UpdateTemplate, WriteKinds
  <1>2. CASE templates' # templates /\ InsertTemplate(s, ok)
    <2>1. PICK id \in TemplateIds :
            /\ templates[id] = Absent
            /\ templates' = [templates EXCEPT ![id] = [text |-> c.text, active |-> TRUE]]
      BY <1>2 DEF InsertTemplate
    <2>2. c.kind = "create" /\ DeskAnswer(s, ok)  BY <1>2 DEF InsertTemplate
    <2>3. c.text \in Texts  BY <1>c, <2>2 DEF CallShape
    <2>. DEFINE row == [text |-> c.text, active |-> TRUE]
    <2>4. row \in TemplateRow  BY <2>3 DEF TemplateRow
    <2>. HIDE DEF row
    <2>5. templates' = [templates EXCEPT ![id] = row]  BY <2>1 DEF row
    <2>6. templates' \in Table  BY <1>t, <2>4, <2>5 DEF Table
    <2>7. \A i \in TemplateIds : i # id => templates'[i] = templates[i]  BY <1>t, <2>5 DEF Table
    <2>. QED  BY <2>1, <2>2, <2>6, <2>7 DEF Known, WriteKinds
  <1>3. CASE templates' # templates /\ UpdateTemplate(s, ok)
    <2>. DEFINE id == c.id
    <2>1. c.kind \in {"update", "archive"} /\ DeskAnswer(s, ok)  BY <1>3 DEF UpdateTemplate
    <2>2. id \in TemplateIds /\ templates[id] # Absent  BY <1>c, <2>1 DEF CallShape
    <2>3. templates[id] \in TemplateRow  BY <1>t, <2>2 DEF Table
    <2>4. PICK row \in TemplateRow : /\ templates' = [templates EXCEPT ![id] = row]
                                     /\ row.text # templates[id].text => c.kind = "update" /\ row.text = c.text
      <3>1. CASE c.kind = "update"
        <4>1. templates' = [templates EXCEPT ![id].text = c.text]  BY <1>3, <3>1 DEF UpdateTemplate
        <4>. DEFINE row == [templates[id] EXCEPT !.text = c.text]
        <4>2. templates' = [templates EXCEPT ![id] = row]  BY <1>t, <4>1 DEF Table
        <4>3. c.text \in Texts  BY <1>c, <3>1 DEF CallShape
        <4>4. row \in TemplateRow /\ row.text = c.text  BY <2>3, <4>3 DEF TemplateRow
        <4>. QED  BY <3>1, <4>2, <4>4
      <3>2. CASE c.kind # "update"
        <4>1. templates' = [templates EXCEPT ![id].active = FALSE]  BY <1>3, <3>2 DEF UpdateTemplate
        <4>. DEFINE row == [templates[id] EXCEPT !.active = FALSE]
        <4>2. templates' = [templates EXCEPT ![id] = row]  BY <1>t, <4>1 DEF Table
        <4>3. row \in TemplateRow /\ row.text = templates[id].text  BY <2>3 DEF TemplateRow
        <4>. QED  BY <4>2, <4>3
      <3>. QED  BY <3>1, <3>2
    <2>5. row # Absent  BY AbsentAssumption
    <2>6. templates' \in Table  BY <1>t, <2>4 DEF Table
    <2>7. templates'[id] = row /\ \A i \in TemplateIds : i # id => templates'[i] = templates[i]
      BY <1>t, <2>2, <2>4 DEF Table
    <2>8. Known(templates, templates')  BY <2>5, <2>7 DEF Known
    <2>9. c.kind \in WriteKinds  BY <2>1 DEF WriteKinds
    <2>10. ASSUME NEW i \in TemplateIds, templates'[i].text # templates[i].text
           PROVE  c.kind = "update" /\ c.id = i /\ templates'[i].text = c.text
      BY <2>4, <2>7, <2>10
    <2>. QED  BY <2>1, <2>6, <2>8, <2>9, <2>10
  <1>. QED  BY <1>1, <1>2, <1>3

\* A call that is answered or checked keeps what it is about.
LEMMA CallWorkedOn ==
  ASSUME DeskInv, NEW s \in DeskSlots, deskCalls[s] # Absent, deskCalls[s].at # "answered",
         \/ \E ok \in BOOLEAN : DeskAnswer(s, ok) /\ (deskCalls[s].kind \in ListKinds => ~ok)
         \/ deskCalls[s].kind \in WriteKinds /\ deskCalls' = [deskCalls EXCEPT ![s].at = "checked"]
         \/ /\ deskCalls[s].kind \in ListKinds /\ templates' = templates
            /\ deskCalls' = [deskCalls EXCEPT ![s].at = "answered", ![s].ok = TRUE, ![s].rows = templates],
         templates' \in Table, Known(templates, templates'), desk' = desk, deskMuddled' = deskMuddled,
         templates' # templates => deskCalls[s].kind \in WriteKinds /\ \E ok \in BOOLEAN : DeskAnswer(s, ok)
  PROVE  /\ deskCalls' \in [DeskSlots -> DeskCall \cup {Absent}]
         /\ \A t \in DeskSlots : deskCalls'[t] # Absent => CallShape(deskCalls'[t], templates')
         /\ Catching'
  <1>. DEFINE c == deskCalls[s]
  <1>t. /\ templates \in Table /\ c \in DeskCall /\ DeskTypeOK /\ DeskShape
        /\ deskCalls \in [DeskSlots -> DeskCall \cup {Absent}]
    BY DeskTypes DEF DeskInv
  <1>c. CallShape(c, templates)  BY DEF DeskInv, DeskShape
  <1>k. c.kind \in ListKinds \cup WriteKinds  BY <1>t DEF DeskCall, ListKinds, WriteKinds
  <1>1. PICK d \in DeskCall :
          /\ deskCalls' = [deskCalls EXCEPT ![s] = d] /\ CallShape(d, templates')
          /\ d.kind = c.kind
          /\ \/ d.at = "answered" /\ (c.kind \in ListKinds => ~d.ok)
             \/ c.kind \in WriteKinds /\ d.at = "checked" /\ templates' = templates
             \/ c.kind \in ListKinds /\ d.rows = templates /\ templates' = templates
    <2>1. ASSUME NEW ok \in BOOLEAN, DeskAnswer(s, ok), c.kind \in ListKinds => ~ok
          PROVE  \E d \in DeskCall :
                   /\ deskCalls' = [deskCalls EXCEPT ![s] = d] /\ CallShape(d, templates')
                   /\ d.kind = c.kind /\ d.at = "answered" /\ (c.kind \in ListKinds => ~d.ok)
      <3>. DEFINE d == [c EXCEPT !.at = "answered", !.ok = ok]
      <3>1. deskCalls' = [deskCalls EXCEPT ![s] = d]  BY <1>t, <2>1 DEF DeskAnswer
      <3>. HIDE DEF c
      <3>2. /\ d \in DeskCall /\ d.kind = c.kind /\ d.at = "answered" /\ d.ok = ok
            /\ d.id = c.id /\ d.for = c.for /\ d.text = c.text /\ d.rows = c.rows
        BY <1>t DEF DeskCall
      <3>. HIDE DEF d
      <3>3. CallShape(d, templates')  BY <1>c, <2>1, <3>2 DEF CallShape, Known
      <3>. QED  BY <2>1, <3>1, <3>2, <3>3
    <2>2. ASSUME c.kind \in WriteKinds, deskCalls' = [deskCalls EXCEPT ![s].at = "checked"],
                 templates' = templates
          PROVE  \E d \in DeskCall :
                   /\ deskCalls' = [deskCalls EXCEPT ![s] = d] /\ CallShape(d, templates')
                   /\ d.kind = c.kind /\ d.at = "checked"
      <3>. DEFINE d == [c EXCEPT !.at = "checked"]
      <3>1. deskCalls' = [deskCalls EXCEPT ![s] = d]  BY <1>t, <2>2
      <3>. HIDE DEF c
      <3>2. /\ d \in DeskCall /\ d.kind = c.kind /\ d.at = "checked"
            /\ d.id = c.id /\ d.for = c.for /\ d.text = c.text /\ d.rows = c.rows
        BY <1>t DEF DeskCall
      <3>. HIDE DEF d
      <3>3. CallShape(d, templates')  BY <1>c, <2>2, <3>2 DEF CallShape
      <3>. QED  BY <3>1, <3>2, <3>3
    <2>3. ASSUME c.kind \in ListKinds, templates' = templates,
                 deskCalls' = [deskCalls EXCEPT ![s].at = "answered", ![s].ok = TRUE, ![s].rows = templates]
          PROVE  \E d \in DeskCall :
                   /\ deskCalls' = [deskCalls EXCEPT ![s] = d] /\ CallShape(d, templates')
                   /\ d.kind = c.kind /\ d.rows = templates
      <3>. DEFINE d == [c EXCEPT !.at = "answered", !.ok = TRUE, !.rows = templates]
      <3>1. deskCalls' = [deskCalls EXCEPT ![s] = d]  BY <1>t, <2>3
      <3>. HIDE DEF c
      <3>2. d \in DeskCall /\ d.kind = c.kind /\ d.rows = templates /\ d.at = "answered"
        BY <1>t DEF DeskCall
      <3>. HIDE DEF d
      <3>3. templates # Absent  BY <1>t, AbsentAssumption
      <3>4. CallShape(d, templates')
        BY <2>3, <3>2, <3>3 DEF CallShape, Known, ListKinds
      <3>. QED  BY <3>1, <3>2, <3>4
    <2>4. CASE templates' # templates
      <3>1. ~(c.kind \in ListKinds)  BY <2>4 DEF ListKinds, WriteKinds
      <3>2. \E ok \in BOOLEAN : DeskAnswer(s, ok)  BY <2>4
      <3>. QED  BY <2>1, <3>1, <3>2
    <2>5. CASE templates' = templates
      <3>. HIDE DEF c
      <3>. QED  BY <2>1, <2>2, <2>3, <2>5 DEF c
    <2>. QED  BY <2>4, <2>5
  <1>2. d # Absent  BY AbsentAssumption
  <1>3. /\ deskCalls' \in [DeskSlots -> DeskCall \cup {Absent}]
        /\ \A t \in DeskSlots : deskCalls'[t] # Absent => CallShape(deskCalls'[t], templates')
        /\ deskCalls'[s] = d /\ \A t \in DeskSlots : t # s => deskCalls'[t] = deskCalls[t]
    BY <1>t, <1>1, <1>2, CallReplaced
  <1>4. CASE c.kind \in WriteKinds /\ d.at = "answered"
    BY <1>1, <1>2, <1>3, <1>4, ToldLater
  <1>5. CASE ~(c.kind \in WriteKinds /\ d.at = "answered")
    <2>. SUFFICES Catching'  BY <1>3
    <2>1. DeskInFlight(ListKinds)' = DeskInFlight(ListKinds)  BY <1>1, <1>2, <1>3 DEF DeskInFlight
    <2>2. templates' = templates  BY <1>1, <1>5, <1>k DEF DeskAnswer
    <2>3. Telling => Telling'
      <3>. SUFFICES ASSUME NEW t \in DeskSlots, deskCalls[t] # Absent, deskCalls[t].kind \in WriteKinds,
                           deskCalls[t].at = "answered"
                    PROVE  Telling'
        BY DEF Telling
      <3>1. CASE t # s  BY <1>3, <3>1 DEF Telling
      <3>2. CASE t = s  BY <1>1, <1>2, <1>3, <1>5, <3>2 DEF Telling
      <3>. QED  BY <3>1, <3>2
    <2>4. ASSUME ~deskMuddled, ~Telling, NEW t \in DeskInFlight(ListKinds),
                 deskCalls'[t].at = "answered", deskCalls'[t].ok
          PROVE  deskCalls'[t].rows = templates'
      <3>1. CASE t # s
        <4>1. deskCalls'[t] = deskCalls[t]  BY <1>3, <3>1 DEF DeskInFlight
        <4>. QED  BY <2>2, <2>4, <4>1 DEF DeskInv, Catching
      <3>2. CASE t = s
        <4>1. c.kind \in ListKinds  BY <2>4, <3>2 DEF DeskInFlight
        <4>. QED  BY <1>1, <1>3, <2>4, <3>2, <4>1 DEF ListKinds, WriteKinds
      <3>. QED  BY <3>1, <3>2
    <2>. QED  BY <2>1, <2>2, <2>3, <2>4 DEF DeskInv, Catching
  <1>. QED  BY <1>3, <1>4, <1>5

\* What the service does, and what becomes of its answers on the way.
LEMMA DeskServiceStep ==
  ASSUME DeskInv, NEW s \in DeskSlots, deskCalls[s] # Absent,
         ServeList(s) \/ CheckName(s) \/ DeskWrite(s) \/ DeskWriteLost(s) \/ DeskFails(s)
  PROVE  DeskInv'
  <1>t. /\ DeskTypeOK /\ DeskShape /\ templates \in Table /\ desk \in DeskPage /\ editor \in EditorState
        /\ deskMuddled \in BOOLEAN /\ deskUsed \in DeskUsage /\ deskCalls[s] \in DeskCall
    BY DeskTypes DEF DeskInv
  <1>1. UNCHANGED <<desk, editor, deskMuddled>>
    BY DEF ServeList, CheckName, DeskWrite, DeskWriteLost, DeskFails
  <1>2. deskUsed' \in DeskUsage
    <2>1. DeskFault \/ deskUsed' = deskUsed
      BY DEF ServeList, CheckName, DeskWrite, DeskWriteLost, DeskFails
    <2>. QED  BY <1>t, <2>1, DeskCounted
  <1>3. deskCalls[s].at # "answered"
    BY DEF ServeList, CheckName, DeskWrite, DeskWriteLost, DeskFails, InsertTemplate, UpdateTemplate
  <1>4. /\ templates' \in Table /\ Known(templates, templates')
        /\ deskCalls' \in [DeskSlots -> DeskCall \cup {Absent}]
        /\ \A t \in DeskSlots : deskCalls'[t] # Absent => CallShape(deskCalls'[t], templates')
        /\ Catching'
    <2>0. Known(templates, templates)  BY DEF Known
    <2>1. CASE ServeList(s)
      <3>1. /\ deskCalls[s].kind \in ListKinds /\ templates' = templates
            /\ deskCalls' = [deskCalls EXCEPT ![s].at = "answered", ![s].ok = TRUE, ![s].rows = templates]
        BY <2>1 DEF ServeList, ListKinds
      <3>. QED  BY <1>t, <1>1, <1>3, <2>0, <3>1, CallWorkedOn
    <2>2. CASE CheckName(s)
      <3>1. /\ deskCalls[s].kind = "create" /\ templates' = templates
            /\ \/ DeskAnswer(s, FALSE)
               \/ deskCalls' = [deskCalls EXCEPT ![s].at = "checked"]
        BY <2>2 DEF CheckName
      <3>2. deskCalls[s].kind \in WriteKinds /\ ~(deskCalls[s].kind \in ListKinds)
        BY <3>1 DEF WriteKinds, ListKinds
      <3>. QED  BY <1>t, <1>1, <1>3, <2>0, <3>1, <3>2, CallWorkedOn
    <2>3. CASE DeskWrite(s) \/ DeskWriteLost(s)
      <3>1. PICK ok \in BOOLEAN : InsertTemplate(s, ok) \/ UpdateTemplate(s, ok)
        BY <2>3 DEF DeskWrite, DeskWriteLost
      <3>2. /\ templates' \in Table /\ Known(templates, templates')
            /\ \E answer \in BOOLEAN : DeskAnswer(s, answer)
            /\ deskCalls[s].kind \in WriteKinds
        BY <3>1, ChangeMade
      <3>3. ~(deskCalls[s].kind \in ListKinds)  BY <3>2 DEF WriteKinds, ListKinds
      <3>. QED  BY <1>1, <1>3, <3>2, <3>3, CallWorkedOn
    <2>4. CASE DeskFails(s)
      <3>1. DeskAnswer(s, FALSE) /\ templates' = templates  BY <2>4 DEF DeskFails
      <3>. QED  BY <1>t, <1>1, <1>3, <2>0, <3>1, CallWorkedOn
    <2>. QED  BY <2>1, <2>2, <2>3, <2>4
  <1>5. DeskTypeOK'  BY <1>t, <1>1, <1>2, <1>4 DEF DeskTypeOK, DeskPage, EditorState, DeskUsage
  <1>6. DeskShape'
    <2>1. editor.id \in TemplateIds \cup {Absent}  BY <1>t DEF EditorState
    <2>. QED  BY <1>t, <1>1, <1>4, <2>1 DEF DeskShape, Known
  <1>. QED  BY <1>4, <1>5, <1>6 DEF DeskInv

\* An answer is shown or told: a list that came in is the table, and a change that is
\* told makes the page list again, or muddles it.
LEMMA DeliveryStep ==
  ASSUME DeskInv, NEW s \in DeskSlots, deskCalls[s] # Absent,
         TemplatesListed(s) \/ TemplateSaved(s) \/ TemplateArchived(s)
  PROVE  DeskInv'
  <1>t. /\ DeskTypeOK /\ DeskShape /\ templates \in Table /\ desk \in DeskPage /\ editor \in EditorState
        /\ deskCalls \in [DeskSlots -> DeskCall \cup {Absent}]
        /\ deskMuddled \in BOOLEAN /\ deskUsed \in DeskUsage /\ deskCalls[s] \in DeskCall
    BY DeskTypes DEF DeskInv
  <1>s. /\ Known(desk.list, templates) /\ Known(templates, templates)
        /\ editor.id # Absent => templates[editor.id] # Absent /\ editor.for = editor.id
        /\ CallShape(deskCalls[s], templates)
    BY <1>t DEF DeskShape, Known
  <1>g. ASSUME deskCalls' = [deskCalls EXCEPT ![s] = Absent], templates' = templates
        PROVE  /\ deskCalls' \in [DeskSlots -> DeskCall \cup {Absent}]
               /\ \A t \in DeskSlots : deskCalls'[t] # Absent => CallShape(deskCalls'[t], templates')
               /\ deskCalls'[s] = Absent /\ \A t \in DeskSlots : t # s => deskCalls'[t] = deskCalls[t]
    BY <1>t, <1>s, <1>g, CallReplaced
  <1>1. CASE TemplatesListed(s)
    <2>. DEFINE c == deskCalls[s]
    <2>1. /\ c.kind \in ListKinds /\ c.at = "answered"
          /\ desk' = [list |-> IF c.ok THEN c.rows ELSE desk.list, loading |-> FALSE,
                      refreshing |-> desk.refreshing /\ c.kind = "initial"]
          /\ deskMuddled' = (deskMuddled \/ ~c.ok)
          /\ deskCalls' = [deskCalls EXCEPT ![s] = Absent]
          /\ UNCHANGED <<templates, editor, deskUsed>>
      BY <1>1 DEF TemplatesListed, ListKinds
    <2>2. c.ok => c.rows \in Table /\ Known(c.rows, templates)
      BY <1>t, <1>s, <2>1 DEF CallShape, DeskCall
    <2>3. desk'.list \in Table /\ Known(desk'.list, templates')
      BY <1>t, <1>s, <2>1, <2>2 DEF DeskPage
    <2>4. desk' \in DeskPage
      <3>1. (desk.refreshing /\ c.kind = "initial") \in BOOLEAN  BY <1>t DEF DeskPage
      <3>. QED  BY <2>1, <2>3, <3>1 DEF DeskPage
    <2>5. deskMuddled' \in BOOLEAN  BY <1>t, <2>1 DEF DeskCall
    <2>6. Catching'
      <3>. SUFFICES ASSUME ~deskMuddled' PROVE Catching'  BY DEF Catching
      <3>1. ~deskMuddled /\ c.ok  BY <2>1
      <3>2. s \in DeskInFlight(ListKinds)  BY <2>1 DEF DeskInFlight
      <3>3. \A t \in DeskInFlight(ListKinds) : t = s  BY <3>1, <3>2 DEF DeskInv, Catching
      <3>4. DeskInFlight(ListKinds)' = {}  BY <1>g, <2>1, <3>3 DEF DeskInFlight
      <3>5. Telling' = Telling  BY <1>g, <2>1 DEF Telling, ListKinds, WriteKinds
      <3>6. ~Telling => c.rows = templates  BY <2>1, <3>1, <3>2 DEF DeskInv, Catching
      <3>7. desk'.list = c.rows /\ templates' = templates  BY <2>1, <3>1
      <3>. QED  BY <3>4, <3>5, <3>6, <3>7 DEF Catching
    <2>7. DeskTypeOK'
      BY <1>t, <1>g, <2>1, <2>4, <2>5 DEF DeskTypeOK, DeskPage, EditorState, DeskUsage
    <2>8. DeskShape'  BY <1>s, <1>g, <2>1, <2>3 DEF DeskShape
    <2>. QED  BY <2>6, <2>7, <2>8 DEF DeskInv
  <1>2. CASE TemplateSaved(s) \/ TemplateArchived(s)
    <2>1. /\ deskCalls[s].kind \in WriteKinds
          /\ FetchTemplates(s) \/ (deskCalls' = [deskCalls EXCEPT ![s] = Absent] /\ deskMuddled' = TRUE)
          /\ UNCHANGED <<templates, desk, deskUsed>>
      BY <1>2 DEF TemplateSaved, TemplateArchived, WriteKinds
    <2>2. editor' \in EditorState /\ editor'.id = editor.id /\ editor'.for = editor.for
      <3>1. \/ editor' = editor
            \/ editor' = [editor EXCEPT !.open = FALSE, !.saving = FALSE]
            \/ editor' = [editor EXCEPT !.error = TRUE, !.saving = FALSE]
        BY <1>2 DEF TemplateSaved, TemplateArchived
      <3>. QED  BY <1>t, <3>1 DEF EditorState
    <2>3. /\ deskCalls' \in [DeskSlots -> DeskCall \cup {Absent}] /\ deskMuddled' \in BOOLEAN
          /\ \A t \in DeskSlots : deskCalls'[t] # Absent => CallShape(deskCalls'[t], templates')
          /\ Catching'
      <3>1. CASE FetchTemplates(s)  BY <2>1, <3>1, FetchStarts
      <3>2. CASE deskCalls' = [deskCalls EXCEPT ![s] = Absent] /\ deskMuddled' = TRUE
        BY <1>g, <2>1, <3>2 DEF Catching
      <3>. QED  BY <2>1, <3>1, <3>2
    <2>4. DeskTypeOK'  BY <1>t, <2>1, <2>2, <2>3 DEF DeskTypeOK, DeskPage, EditorState, DeskUsage
    <2>5. DeskShape'  BY <1>s, <2>1, <2>2, <2>3 DEF DeskShape
    <2>. QED  BY <2>3, <2>4, <2>5 DEF DeskInv
  <1>. QED  BY <1>1, <1>2

\* Every step of the page and its service keeps the invariant.
LEMMA DeskInvStep == DeskInv /\ [DeskNext]_deskVars => DeskInv'
  <1>. SUFFICES ASSUME DeskInv, [DeskNext]_deskVars PROVE DeskInv'  OBVIOUS
  <1>1. CASE CreatedElsewhere
    <2>t. /\ DeskTypeOK /\ DeskShape /\ templates \in Table /\ desk \in DeskPage /\ editor \in EditorState
          /\ deskCalls \in [DeskSlots -> DeskCall \cup {Absent}]
      BY DeskTypes DEF DeskInv
    <2>1. PICK id \in TemplateIds, text \in Texts :
            templates' = [templates EXCEPT ![id] = [text |-> text, active |-> TRUE]]
      BY <1>1 DEF CreatedElsewhere
    <2>. DEFINE row == [text |-> text, active |-> TRUE]
    <2>2. row \in TemplateRow  BY DEF TemplateRow
    <2>3. row # Absent  BY <2>2, AbsentAssumption
    <2>4. templates' = [templates EXCEPT ![id] = row]  BY <2>1
    <2>. HIDE DEF row
    <2>5. templates' \in Table  BY <2>t, <2>2, <2>4 DEF Table
    <2>6. Known(templates, templates')  BY <2>t, <2>3, <2>4 DEF Known, Table
    <2>7. UNCHANGED <<desk, editor, deskCalls>> /\ deskMuddled' = TRUE  BY <1>1 DEF CreatedElsewhere
    <2>8. deskUsed' \in DeskUsage  BY <1>1, <2>t, DeskCounted DEF CreatedElsewhere
    <2>9. DeskTypeOK'  BY <2>t, <2>5, <2>7, <2>8 DEF DeskTypeOK, DeskPage, EditorState, DeskUsage
    <2>10. DeskShape'
      <3>1. editor.id \in TemplateIds \cup {Absent}  BY <2>t DEF EditorState
      <3>2. ASSUME NEW s \in DeskSlots, deskCalls[s] # Absent PROVE CallShape(deskCalls[s], templates')
        <4>1. CallShape(deskCalls[s], templates)  BY <2>t, <3>2 DEF DeskShape
        <4>. QED  BY <2>6, <4>1 DEF CallShape, Known
      <3>. QED  BY <2>t, <2>6, <2>7, <3>1, <3>2 DEF DeskShape, Known
    <2>. QED  BY <2>7, <2>9, <2>10 DEF DeskInv, Catching
  <1>2. CASE DeskNext /\ ~CreatedElsewhere
    BY <1>2, OperatorStep, DeskServiceStep, DeliveryStep DEF DeskNext
  <1>3. CASE UNCHANGED deskVars
    <2>1. UNCHANGED <<templates, desk, editor, deskCalls, deskMuddled, deskUsed>>  BY <1>3 DEF deskVars
    <2>. QED  BY <2>1 DEF DeskInv, DeskTypeOK, DeskShape, Known, CallShape, Catching, Telling, DeskInFlight
  <1>. QED  BY <1>1, <1>2, <1>3

\* Once nothing is in flight the list shows the table, unless two refreshes crossed, a call
\* failed or another client made a change since: over any templates, calls and answers.
THEOREM ListIsTable == DeskSpec => []ListCatchesUp
  <1>1. DeskInv => ListCatchesUp
    <2>. SUFFICES ASSUME DeskInv, \A s \in DeskSlots : deskCalls[s] = Absent, ~deskMuddled
                  PROVE  desk.list = templates
      BY DEF ListCatchesUp
    <2>1. DeskInFlight(ListKinds) = {} /\ ~Telling  BY DEF DeskInFlight, Telling
    <2>. QED  BY <2>1 DEF DeskInv, Catching
  <1>. QED  BY <1>1, DeskInvInit, DeskInvStep, PTL DEF DeskSpec

\* A template's text changes only by the save of an editor that was opened for it, to what
\* that editor said.
THEOREM TextGoesToItsTemplate == DeskSpec => SavedWhereShown
  <1>1. ASSUME DeskInv, [DeskNext]_deskVars, NEW id \in TemplateIds, templates[id] # Absent,
               templates'[id] # Absent, templates'[id].text # templates[id].text
        PROVE  \E s \in DeskSlots :
                 /\ deskCalls[s] # Absent /\ deskCalls'[s] # Absent /\ deskCalls'[s].at = "answered"
                 /\ deskCalls[s].for = id /\ deskCalls[s].text = templates'[id].text
    <2>t. templates \in Table /\ deskCalls \in [DeskSlots -> DeskCall \cup {Absent}]
      BY <1>1, DeskTypes DEF DeskInv
    <2>1. ~CreatedElsewhere
      <3>. SUFFICES ASSUME CreatedElsewhere PROVE FALSE  OBVIOUS
      <3>1. PICK i \in TemplateIds : templates[i] = Absent /\ \E row : templates' = [templates EXCEPT ![i] = row]
        BY DEF CreatedElsewhere
      <3>. QED  BY <1>1, <2>t, <3>1 DEF Table
    <2>2. templates' # templates  BY <1>1
    <2>3. PICK s \in DeskSlots : deskCalls[s] # Absent /\ (DeskWrite(s) \/ DeskWriteLost(s))
      BY <1>1, <2>1, <2>2
         DEF DeskNext, deskVars, DeskRefresh, OpenCreate, CloseEditor, SaveTemplate, OpenEdit, ArchiveTemplate,
           EditText, ServeList, CheckName, DeskFails, TemplatesListed, TemplateSaved, TemplateArchived
    <2>4. PICK ok \in BOOLEAN : InsertTemplate(s, ok) \/ UpdateTemplate(s, ok)
      BY <2>3 DEF DeskWrite, DeskWriteLost
    <2>5. /\ deskCalls[s].kind = "update" /\ deskCalls[s].id = id /\ templates'[id].text = deskCalls[s].text
          /\ \E answer \in BOOLEAN : DeskAnswer(s, answer)
      BY <1>1, <2>3, <2>4, ChangeMade
    <2>6. deskCalls[s].for = id  BY <1>1, <2>3, <2>5 DEF DeskInv, DeskShape, CallShape
    <2>7. deskCalls'[s] # Absent /\ deskCalls'[s].at = "answered"
      <3>1. PICK answer \in BOOLEAN : DeskAnswer(s, answer)  BY <2>5
      <3>. DEFINE d == [deskCalls[s] EXCEPT !.at = "answered", !.ok = answer]
      <3>2. deskCalls[s] \in DeskCall  BY <2>t, <2>3
      <3>3. deskCalls'[s] = d  BY <2>t, <3>1 DEF DeskAnswer
      <3>4. d \in DeskCall /\ d.at = "answered"  BY <3>2 DEF DeskCall
      <3>. QED  BY <3>3, <3>4, AbsentAssumption
    <2>. QED  BY <2>3, <2>5, <2>6, <2>7
  <1>2. DeskInv /\ [DeskNext]_deskVars =>
          [\A id \in TemplateIds :
             templates[id] # Absent /\ templates'[id] # Absent /\ templates'[id].text # templates[id].text =>
               \E s \in DeskSlots :
                 /\ deskCalls[s] # Absent /\ deskCalls'[s] # Absent /\ deskCalls'[s].at = "answered"
                 /\ deskCalls[s].for = id /\ deskCalls[s].text = templates'[id].text]_deskVars
    BY <1>1
  <1>. QED  BY <1>2, DeskInvInit, DeskInvStep, PTL DEF DeskSpec, SavedWhereShown

-----------------------------------------------------------------------------
(* The dashboard and the history page.                                     *)

\* Rows are counted once: a count is finite, and counts of different statuses add up.
LEMMA TallyAdds ==
  ASSUME NEW rows \in Seq(DeliveryStatus), NEW A, NEW B, A \cap B = {}
  PROVE  /\ Tally(rows, A) \in Nat /\ Tally(rows, B) \in Nat
         /\ Tally(rows, A \cup B) = Tally(rows, A) + Tally(rows, B)
         /\ Tally(rows, DeliveryStatus) = Len(rows)
  <1>. DEFINE In(S) == {i \in DOMAIN rows : rows[i] \in S}
  <1>1. DOMAIN rows = 1..Len(rows) /\ Len(rows) \in Nat  BY LenProperties
  <1>2. IsFiniteSet(DOMAIN rows) /\ Cardinality(DOMAIN rows) = Len(rows)
    BY <1>1, FS_Interval
  <1>3. IsFiniteSet(In(A)) /\ IsFiniteSet(In(B))  BY <1>2, FS_Subset
  <1>4. In(A \cup B) = In(A) \cup In(B) /\ In(A) \cap In(B) = {}  OBVIOUS
  <1>5. In(DeliveryStatus) = DOMAIN rows  BY <1>1, ElementOfSeq
  <1>6. /\ Cardinality(In(A)) \in Nat /\ Cardinality(In(B)) \in Nat
    BY <1>3, FS_CardinalityType
  <1>7. Cardinality(In(A) \cup In(B)) = Cardinality(In(A)) + Cardinality(In(B))
    <2>. HIDE DEF In
    <2>1. Cardinality(In(A) \cup In(B)) =
            Cardinality(In(A)) + Cardinality(In(B)) - Cardinality(In(A) \cap In(B))
      BY <1>3, FS_Union
    <2>2. Cardinality(In(A) \cap In(B)) = 0  BY <1>4, FS_EmptySet
    <2>. QED  BY <1>6, <2>1, <2>2
  <1>. QED  BY <1>2, <1>4, <1>5, <1>6, <1>7 DEF Tally

\* Every count is a number, and every row has one of the statuses.
LEMMA TallyCounts ==
  ASSUME NEW rows \in Seq(DeliveryStatus)
  PROVE  (\A S : Tally(rows, S) \in Nat) /\ Tally(rows, DeliveryStatus) = Len(rows)
  <1>1. ASSUME NEW S PROVE Tally(rows, S) \in Nat
    <2>1. S \cap {} = {}  OBVIOUS
    <2>. QED  BY <2>1, TallyAdds
  <1>2. Tally(rows, DeliveryStatus) = Len(rows)
    <2>1. {} \cap {} = {}  OBVIOUS
    <2>. QED  BY <2>1, TallyAdds
  <1>. QED  BY <1>1, <1>2

\* The first page is a list of rows, and if it holds all of them it counts as they do.
LEMMA PageCounts ==
  ASSUME NEW rows \in Seq(DeliveryStatus)
  PROVE  /\ FirstPage(rows) \in Seq(DeliveryStatus)
         /\ Len(rows) <= HistoryPage =>
              /\ Len(FirstPage(rows)) = Len(rows)
              /\ \A S : Tally(FirstPage(rows), S) = Tally(rows, S)
  <1>. DEFINE n == IF Len(rows) < HistoryPage THEN Len(rows) ELSE HistoryPage
              page == [i \in 1..n |-> rows[Len(rows) + 1 - i]]
  <1>1. rows \in [1..Len(rows) -> DeliveryStatus] /\ Len(rows) \in Nat  BY LenProperties
  <1>2. n \in Nat /\ n <= Len(rows)  BY <1>1, LedgerAssumption
  <1>. HIDE DEF n
  <1>3. page \in [1..n -> DeliveryStatus]  BY <1>1, <1>2
  <1>4. page \in Seq(DeliveryStatus) /\ Len(page) = n
    <2>1. page \in Seq(DeliveryStatus)  BY <1>2, <1>3
    <2>2. DOMAIN page = 1..n  OBVIOUS
    <2>. QED  BY <1>2, <2>1, <2>2
  <1>5. FirstPage(rows) = page  BY DEF FirstPage, n
  <1>7. ASSUME Len(rows) <= HistoryPage PROVE n = Len(rows)
    <2>1. Len(rows) \in Nat /\ HistoryPage \in Nat  BY <1>1, LedgerAssumption
    <2>2. CASE Len(rows) < HistoryPage  BY <2>2 DEF n
    <2>3. CASE ~(Len(rows) < HistoryPage)
      <3>1. n = HistoryPage  BY <2>3 DEF n
      <3>. QED  BY <1>7, <2>1, <2>3, <3>1
    <2>. QED  BY <2>2, <2>3
  <1>6. ASSUME Len(rows) <= HistoryPage, NEW S PROVE Tally(page, S) = Tally(rows, S)
    <2>. DEFINE P == {i \in DOMAIN page : page[i] \in S}
                R == {i \in DOMAIN rows : rows[i] \in S}
                turned == [i \in P |-> n + 1 - i]
    <2>1. n = Len(rows)  BY <1>6, <1>7
    <2>2. DOMAIN page = 1..n /\ DOMAIN rows = 1..n  BY <1>1, <2>1
    <2>3. \A i \in 1..n : n + 1 - i \in 1..n /\ page[i] = rows[n + 1 - i]  BY <1>2, <2>1
    <2>4. IsFiniteSet(P)
      <3>1. IsFiniteSet(1..n)  BY <1>2, FS_Interval
      <3>. QED  BY <2>2, <3>1, FS_Subset
    <2>. HIDE DEF page
    <2>5. turned \in Injection(P, R)
      <3>1. turned \in [P -> R]  BY <2>2, <2>3
      <3>2. \A i, j \in P : turned[i] = turned[j] => i = j  BY <1>2, <2>2
      <3>. QED  BY <3>1, <3>2 DEF Injection, IsInjective
    <2>6. turned \in Surjection(P, R)
      <3>1. turned \in [P -> R]  BY <2>5 DEF Injection
      <3>2. ASSUME NEW j \in R PROVE \E i \in P : turned[i] = j
        <4>1. j \in 1..n /\ rows[j] \in S  BY <2>2
        <4>2. n + 1 - j \in 1..n /\ n + 1 - (n + 1 - j) = j  BY <1>2, <4>1
        <4>3. n + 1 - j \in P  BY <2>2, <2>3, <4>1, <4>2
        <4>. QED  BY <4>2, <4>3
      <3>. QED  BY <3>1, <3>2 DEF Surjection
    <2>7. ExistsBijection(P, R)  BY <2>5, <2>6 DEF ExistsBijection, Bijection
    <2>. HIDE DEF P, R
    <2>8. Cardinality(P) = Cardinality(R)  BY <2>4, <2>7, FS_Bijection
    <2>. QED  BY <2>8 DEF Tally, P, R
  <1>. HIDE DEF page
  <1>. QED  BY <1>4, <1>5, <1>6, <1>7

\* A larger part of the same whole has no smaller share.
LEMMA ShareGrows ==
  ASSUME NEW part \in Nat, NEW more \in Nat, NEW whole \in Nat, part <= more
  PROVE  Share(part, whole) <= Share(more, whole)
  <1>1. CASE whole = 0  BY <1>1 DEF Share
  <1>2. CASE whole # 0
    <2>. DEFINE a == 2000 * part + whole
                b == 2000 * more + whole
                d == 2 * whole
    <2>1. a \in Nat /\ b \in Nat /\ d \in Nat \ {0} /\ a <= b  BY <1>2
    <2>2. Share(part, whole) = a \div d /\ Share(more, whole) = b \div d  BY <1>2 DEF Share
    <2>. HIDE DEF a, b, d
    <2>3. a \div d \in Int /\ b \div d \in Int  BY <2>1
    <2>4. d * (a \div d) <= a /\ b < d * (b \div d) + d  BY <2>1
    <2>5. \A x, y \in Int : d * x < d * y + d => x <= y  BY <2>1
    <2>6. d * (a \div d) < d * (b \div d) + d
      <3>. DEFINE x == d * (a \div d)
                  y == d * (b \div d)
      <3>1. x \in Int /\ y \in Int  BY <2>1, <2>3
      <3>. HIDE DEF x, y
      <3>2. x <= a /\ b < y + d  BY <2>4 DEF x, y
      <3>3. x < y + d  BY <2>1, <3>1, <3>2
      <3>. QED  BY <3>3 DEF x, y
    <2>7. a \div d <= b \div d  BY <2>3, <2>5, <2>6
    <2>. QED  BY <2>2, <2>7
  <1>. QED  BY <1>1, <1>2

\* What the page and its calls hold.
LogState == [rows : Seq(DeliveryStatus), turn : Nat, loading : BOOLEAN, refreshing : BOOLEAN,
             error : BOOLEAN]
ReadState == [at : {"sent", "answered"}, turn : Nat, rows : Seq(DeliveryStatus)]
LedgerTypes ==
  /\ turn \in Nat \ {0} /\ ledger \in Seq(DeliveryStatus)
  /\ logPage \in LogState
  /\ reads \in [{"initial", "refresh"} -> ReadState \cup {Unread}]

\* There is one history of the table, turn by turn, and each of its readers shows what it
\* was at the turn in which it was read.
ReadFrom(versions) ==
  /\ versions \in [1..turn -> Seq(DeliveryStatus)] /\ versions[turn] = ledger
  /\ stats.turn \in 1..turn /\ stats.of = DashboardOf(versions[stats.turn])
  /\ logPage.turn # 0 => logPage.turn \in 1..turn /\ logPage.rows = FirstPage(versions[logPage.turn])
  /\ \A call \in {"initial", "refresh"} :
       reads[call] # Unread /\ reads[call].at = "answered" =>
         reads[call].turn \in 1..turn /\ reads[call].rows = FirstPage(versions[reads[call].turn])
LedgerInv == LedgerTypes /\ \E versions : ReadFrom(versions)

\* The dashboard starts with the table as it is, and the page with its list under way.
LEMMA LedgerInvInit == LedgerInit => LedgerInv
  <1>. SUFFICES ASSUME LedgerInit PROVE LedgerInv  OBVIOUS
  <1>1. /\ turn = 1 /\ stats = [turn |-> 1, of |-> DashboardOf(ledger)]
        /\ logPage = [rows |-> <<>>, turn |-> 0, loading |-> TRUE, refreshing |-> FALSE, error |-> FALSE]
        /\ reads = [initial |-> [at |-> "sent", turn |-> 0, rows |-> <<>>], refresh |-> Unread]
    BY DEF LedgerInit, LedgerStart
  <1>2. ledger \in Seq(DeliveryStatus)
    <2>1. PICK n \in 0..MaxLedger : ledger \in [1..n -> DeliveryStatus]
      BY DEF LedgerInit, LedgerStart
    <2>. QED  BY <2>1, LedgerAssumption
  <1>3. <<>> \in Seq(DeliveryStatus)  OBVIOUS
  <1>4. logPage \in LogState  BY <1>1, <1>3 DEF LogState
  <1>5. reads \in [{"initial", "refresh"} -> ReadState \cup {Unread}]
    <2>1. [at |-> "sent", turn |-> 0, rows |-> <<>>] \in ReadState  BY <1>3 DEF ReadState
    <2>. QED  BY <1>1, <2>1
  <1>6. ReadFrom([t \in 1..1 |-> ledger])
    <2>. DEFINE versions == [t \in 1..1 |-> ledger]
    <2>1. versions \in [1..turn -> Seq(DeliveryStatus)] /\ versions[1] = ledger  BY <1>1, <1>2
    <2>2. reads["initial"].at = "sent" /\ reads["refresh"] = Unread  BY <1>1
    <2>. HIDE DEF versions
    <2>3. ReadFrom(versions)  BY <1>1, <2>1, <2>2 DEF ReadFrom
    <2>. QED  BY <2>3 DEF versions
  <1>. QED  BY <1>1, <1>2, <1>4, <1>5, <1>6 DEF LedgerInv, LedgerTypes

\* The table changes: its history grows by one turn.
LEMMA HistoryGrows ==
  ASSUME LedgerInv, InsertMessage \/ MessageMoves
  PROVE  LedgerInv'
  <1>. USE DEF LedgerInv, LedgerTypes
  <1>1. turn' = turn + 1 /\ UNCHANGED <<stats, logPage, reads>>
    BY DEF InsertMessage, MessageMoves, Turn, readerVars
  <1>2. ledger' \in Seq(DeliveryStatus)
    <2>1. CASE InsertMessage
      <3>1. PICK status \in DeliveryStatus : ledger' = Append(ledger, status)
        BY <2>1 DEF InsertMessage, Turn, DeliveryStatus
      <3>. QED  BY <3>1
    <2>2. CASE MessageMoves
      <3>1. PICK i \in DOMAIN ledger, status \in DeliveryStatus : ledger' = [ledger EXCEPT ![i] = status]
        BY <2>2 DEF MessageMoves, Turn
      <3>2. i \in 1..Len(ledger)  BY LenProperties
      <3>. QED  BY <3>1, <3>2, ExceptSeq
    <2>. QED  BY <2>1, <2>2
  <1>3. PICK versions : ReadFrom(versions)  OBVIOUS
  <1>4. PICK longer :
        /\ longer \in [1..(turn + 1) -> Seq(DeliveryStatus)] /\ longer[turn + 1] = ledger'
        /\ \A t \in 1..turn : longer[t] = versions[t] /\ t \in 1..(turn + 1)
    <2>. DEFINE new == [t \in 1..(turn + 1) |-> IF t = turn + 1 THEN ledger' ELSE versions[t]]
    <2>1. /\ new \in [1..(turn + 1) -> Seq(DeliveryStatus)] /\ new[turn + 1] = ledger'
          /\ \A t \in 1..turn : new[t] = versions[t] /\ t \in 1..(turn + 1)
      BY <1>2, <1>3 DEF ReadFrom
    <2>. HIDE DEF new
    <2>. QED  BY <2>1
  <1>5. ReadFrom(longer)'
    <2>1. stats.turn \in 1..turn /\ stats.of = DashboardOf(longer[stats.turn])
      BY <1>3, <1>4 DEF ReadFrom
    <2>2. logPage.turn # 0 => logPage.turn \in 1..turn /\ logPage.rows = FirstPage(longer[logPage.turn])
      BY <1>3, <1>4 DEF ReadFrom
    <2>3. \A call \in {"initial", "refresh"} :
            reads[call] # Unread /\ reads[call].at = "answered" =>
              reads[call].turn \in 1..turn /\ reads[call].rows = FirstPage(longer[reads[call].turn])
      BY <1>3, <1>4 DEF ReadFrom
    <2>. QED  BY <1>1, <1>4, <2>1, <2>2, <2>3 DEF ReadFrom
  <1>. QED  BY <1>1, <1>2, <1>5

\* The dashboard, and the calls of the page: what is read is the present turn, and what
\* is shown was read.
LEMMA ReadersStep ==
  ASSUME LedgerInv,
         \/ Dashboard \/ RefreshMessages
         \/ \E call \in {"initial", "refresh"} :
              ServeMessages(call) \/ MessagesListed(call) \/ MessagesFail(call)
  PROVE  LedgerInv'
  <1>t. LedgerTypes /\ turn \in 1..turn  BY DEF LedgerInv, LedgerTypes
  <1>1. PICK versions : ReadFrom(versions)  BY DEF LedgerInv
  <1>2. UNCHANGED <<ledger, turn>>
    BY DEF Dashboard, RefreshMessages, ServeMessages, MessagesListed, MessagesFail
  <1>3. CASE Dashboard
    <2>1. stats' = [turn |-> turn, of |-> DashboardOf(ledger)] /\ UNCHANGED <<logPage, reads>>
      BY <1>3 DEF Dashboard
    <2>2. LedgerTypes'  BY <1>t, <1>2, <2>1 DEF LedgerTypes
    <2>3. ReadFrom(versions)'
      BY <1>t, <1>1, <1>2, <2>1 DEF ReadFrom
    <2>. QED  BY <2>2, <2>3 DEF LedgerInv
  <1>4. CASE RefreshMessages
    <2>. DEFINE call == [at |-> "sent", turn |-> 0, rows |-> <<>>]
    <2>1. /\ logPage' = [logPage EXCEPT !.refreshing = TRUE]
          /\ reads' = [reads EXCEPT !["refresh"] = call] /\ stats' = stats
      BY <1>4 DEF RefreshMessages
    <2>2. call \in ReadState /\ call.at = "sent"  BY DEF ReadState
    <2>. HIDE DEF call
    <2>3. logPage' \in LogState /\ logPage'.turn = logPage.turn /\ logPage'.rows = logPage.rows
      BY <1>t, <2>1 DEF LedgerTypes, LogState
    <2>4. LedgerTypes'  BY <1>t, <1>2, <2>1, <2>2, <2>3 DEF LedgerTypes
    <2>5. reads'["initial"] = reads["initial"] /\ reads'["refresh"] = call
      BY <1>t, <2>1 DEF LedgerTypes
    <2>6. ReadFrom(versions)'  BY <1>1, <1>2, <2>1, <2>2, <2>3, <2>5 DEF ReadFrom
    <2>. QED  BY <2>4, <2>6 DEF LedgerInv
  <1>5. ASSUME NEW call \in {"initial", "refresh"}, ServeMessages(call) PROVE LedgerInv'
    <2>. DEFINE answer == [at |-> "answered", turn |-> turn, rows |-> FirstPage(ledger)]
    <2>1. reads' = [reads EXCEPT ![call] = answer] /\ UNCHANGED <<stats, logPage>>
      BY <1>5 DEF ServeMessages
    <2>2. answer \in ReadState  BY <1>t, PageCounts DEF ReadState, LedgerTypes
    <2>3. answer.turn = turn /\ answer.rows = FirstPage(versions[turn])  BY <1>1 DEF ReadFrom
    <2>. HIDE DEF answer
    <2>4. LedgerTypes'  BY <1>t, <1>2, <2>1, <2>2 DEF LedgerTypes
    <2>5. \A c \in {"initial", "refresh"} : reads'[c] = IF c = call THEN answer ELSE reads[c]
      BY <1>t, <2>1 DEF LedgerTypes
    <2>6. ReadFrom(versions)'  BY <1>t, <1>1, <1>2, <2>1, <2>3, <2>5 DEF ReadFrom
    <2>. QED  BY <2>4, <2>6 DEF LedgerInv
  <1>6. ASSUME NEW call \in {"initial", "refresh"}, MessagesListed(call) PROVE LedgerInv'
    <2>. DEFINE shown == [logPage EXCEPT !.rows = reads[call].rows, !.turn = reads[call].turn,
                                         !.error = @ /\ call = "initial"]
    <2>1. Finally(call, shown) /\ stats' = stats /\ reads[call] # Unread /\ reads[call].at = "answered"
      BY <1>6 DEF MessagesListed
    <2>2. reads[call] \in ReadState  BY <1>t, <2>1 DEF LedgerTypes
    <2>3. (logPage.error /\ call = "initial") \in BOOLEAN  BY <1>t DEF LedgerTypes, LogState
    <2>4. shown \in LogState /\ shown.turn = reads[call].turn /\ shown.rows = reads[call].rows
      BY <1>t, <2>2, <2>3 DEF LedgerTypes, LogState, ReadState
    <2>. HIDE DEF shown
    <2>5. /\ logPage' \in LogState /\ logPage'.turn = shown.turn /\ logPage'.rows = shown.rows
          /\ reads' = [reads EXCEPT ![call] = Unread]
      BY <2>1, <2>4 DEF Finally, LogState
    <2>6. \A c \in {"initial", "refresh"} : reads'[c] = IF c = call THEN Unread ELSE reads[c]
      BY <1>t, <2>5 DEF LedgerTypes
    <2>7. LedgerTypes'  BY <1>t, <1>2, <2>5 DEF LedgerTypes
    <2>8. ReadFrom(versions)'  BY <1>1, <1>2, <2>1, <2>4, <2>5, <2>6 DEF ReadFrom
    <2>. QED  BY <2>7, <2>8 DEF LedgerInv
  <1>7. ASSUME NEW call \in {"initial", "refresh"}, MessagesFail(call) PROVE LedgerInv'
    <2>. DEFINE shown == [logPage EXCEPT !.error = TRUE]
    <2>1. Finally(call, shown) /\ stats' = stats  BY <1>7 DEF MessagesFail
    <2>2. shown \in LogState /\ shown.turn = logPage.turn /\ shown.rows = logPage.rows
      BY <1>t DEF LedgerTypes, LogState
    <2>. HIDE DEF shown
    <2>3. /\ logPage' \in LogState /\ logPage'.turn = shown.turn /\ logPage'.rows = shown.rows
          /\ reads' = [reads EXCEPT ![call] = Unread]
      BY <2>1, <2>2 DEF Finally, LogState
    <2>4. \A c \in {"initial", "refresh"} : reads'[c] = IF c = call THEN Unread ELSE reads[c]
      BY <1>t, <2>3 DEF LedgerTypes
    <2>5. LedgerTypes'  BY <1>t, <1>2, <2>3 DEF LedgerTypes
    <2>6. ReadFrom(versions)'  BY <1>1, <1>2, <2>1, <2>2, <2>3, <2>4 DEF ReadFrom
    <2>. QED  BY <2>5, <2>6 DEF LedgerInv
  <1>. QED  BY <1>3, <1>4, <1>5, <1>6, <1>7

LEMMA LedgerInvStep == LedgerInv /\ [LedgerNext]_ledgerVars => LedgerInv'
  <1>. SUFFICES ASSUME LedgerInv, [LedgerNext]_ledgerVars PROVE LedgerInv'  OBVIOUS
  <1>1. CASE LedgerNext  BY <1>1, HistoryGrows, ReadersStep DEF LedgerNext
  <1>2. CASE UNCHANGED ledgerVars
    <2>1. UNCHANGED <<ledger, turn, stats, logPage, reads>>  BY <1>2 DEF ledgerVars
    <2>2. PICK versions : ReadFrom(versions)  BY DEF LedgerInv
    <2>3. ReadFrom(versions)'  BY <2>1, <2>2 DEF ReadFrom
    <2>. QED  BY <2>1, <2>3 DEF LedgerInv, LedgerTypes
  <1>. QED  BY <1>1, <1>2

\* The statuses share the rows of a table among them.
LEMMA TallySums ==
  ASSUME NEW rows \in Seq(DeliveryStatus)
  PROVE  LET n(S) == Tally(rows, S)
         IN  /\ \A status \in DeliveryStatus : n({status}) \in Nat
             /\ n({"DELIVERED", "READ"}) = n({"DELIVERED"}) + n({"READ"})
             /\ n({"SENT", "DELIVERED", "READ"}) = n({"SENT"}) + n({"DELIVERED"}) + n({"READ"})
             /\ Len(rows) = n({"SENT", "DELIVERED", "READ"}) + n({"FAILED"}) + n({"PENDING"})
  <1>. DEFINE n(S) == Tally(rows, S)
  <1>0. \A status \in DeliveryStatus : n({status}) \in Nat  BY TallyCounts
  <1>1. /\ n({"READ"}) \in Nat /\ n({"DELIVERED"}) \in Nat /\ n({"SENT"}) \in Nat
        /\ n({"FAILED"}) \in Nat /\ n({"PENDING"}) \in Nat
        /\ n({"DELIVERED", "READ"}) \in Nat /\ n({"SENT", "DELIVERED", "READ"}) \in Nat
        /\ n({"SENT", "DELIVERED", "READ", "FAILED"}) \in Nat
    BY TallyCounts
  <1>2. n({"DELIVERED"} \cup {"READ"}) = n({"DELIVERED"}) + n({"READ"})  BY TallyAdds
  <1>3. n({"SENT"} \cup {"DELIVERED", "READ"}) = n({"SENT"}) + n({"DELIVERED", "READ"})  BY TallyAdds
  <1>4. n({"SENT", "DELIVERED", "READ"} \cup {"FAILED"}) = n({"SENT", "DELIVERED", "READ"}) + n({"FAILED"})
    BY TallyAdds
  <1>5. n({"SENT", "DELIVERED", "READ", "FAILED"} \cup {"PENDING"}) =
          n({"SENT", "DELIVERED", "READ", "FAILED"}) + n({"PENDING"})
    BY TallyAdds
  <1>6. n(DeliveryStatus) = Len(rows)  BY TallyCounts
  <1>7. /\ {"DELIVERED"} \cup {"READ"} = {"DELIVERED", "READ"}
        /\ {"SENT"} \cup {"DELIVERED", "READ"} = {"SENT", "DELIVERED", "READ"}
        /\ {"SENT", "DELIVERED", "READ"} \cup {"FAILED"} = {"SENT", "DELIVERED", "READ", "FAILED"}
        /\ {"SENT", "DELIVERED", "READ", "FAILED"} \cup {"PENDING"} = DeliveryStatus
    BY DEF DeliveryStatus
  <1>. HIDE DEF n
  <1>8. /\ n({"DELIVERED", "READ"}) = n({"DELIVERED"}) + n({"READ"})
        /\ n({"SENT", "DELIVERED", "READ"}) = n({"SENT"}) + n({"DELIVERED"}) + n({"READ"})
        /\ Len(rows) = n({"SENT", "DELIVERED", "READ"}) + n({"FAILED"}) + n({"PENDING"})
    <2>1. n({"DELIVERED", "READ"}) = n({"DELIVERED"}) + n({"READ"})  BY <1>2, <1>7, Zenon
    <2>2. n({"SENT", "DELIVERED", "READ"}) = n({"SENT"}) + n({"DELIVERED", "READ"})  BY <1>3, <1>7, Zenon
    <2>3. n({"SENT", "DELIVERED", "READ", "FAILED"}) = n({"SENT", "DELIVERED", "READ"}) + n({"FAILED"})
      BY <1>4, <1>7, Zenon
    <2>4. Len(rows) = n({"SENT", "DELIVERED", "READ", "FAILED"}) + n({"PENDING"})
      BY <1>5, <1>6, <1>7, Zenon
    <2>. QED  BY <1>1, <2>1, <2>2, <2>3, <2>4
  <1>. QED  BY <1>0, <1>8 DEF n

\* What the numbers of a table say, and what the strip says of a page that holds it.
LEMMA NumbersAgree ==
  ASSUME NEW rows \in Seq(DeliveryStatus), DashboardOf(rows).total <= HistoryPage,
         logPage.rows = FirstPage(rows)
  PROVE  LET of == DashboardOf(rows)
         IN  /\ StatStrip = [total |-> of.total, accepted |-> of.sent, delivered |-> of.delivered + of.read,
                             read |-> of.read, pending |-> of.pending, failed |-> of.failed]
             /\ of.readRate <= of.deliveryRate
  <1>. DEFINE n(S) == Tally(rows, S)
              of == DashboardOf(rows)
  <1>1. n({"READ"}) \in Nat /\ n({"DELIVERED"}) \in Nat /\ n({"SENT"}) \in Nat
    BY TallySums DEF DeliveryStatus
  <1>2. /\ n({"DELIVERED", "READ"}) = n({"DELIVERED"}) + n({"READ"})
        /\ n({"SENT", "DELIVERED", "READ"}) = n({"SENT"}) + n({"DELIVERED"}) + n({"READ"})
        /\ Len(rows) = n({"SENT", "DELIVERED", "READ"}) + n({"FAILED"}) + n({"PENDING"})
    BY TallySums
  <1>. HIDE DEF n
  <1>3. /\ of.total = Len(rows) /\ of.sent = n({"SENT", "DELIVERED", "READ"})
        /\ of.failed = n({"FAILED"}) /\ of.pending = n({"PENDING"})
        /\ of.delivered = n({"DELIVERED"}) /\ of.read = n({"READ"})
        /\ of.readRate = Share(n({"READ"}), n({"SENT", "DELIVERED", "READ"}))
        /\ of.deliveryRate = Share(n({"DELIVERED", "READ"}), n({"SENT", "DELIVERED", "READ"}))
    BY <1>2 DEF DashboardOf, n
  <1>. HIDE DEF of
  <1>4. Len(logPage.rows) = Len(rows) /\ \A S : Tally(logPage.rows, S) = n(S)
    BY <1>3, PageCounts DEF of, n
  <1>5. StatStrip = [total |-> of.total, accepted |-> of.sent, delivered |-> of.delivered + of.read,
                      read |-> of.read, pending |-> of.pending, failed |-> of.failed]
    BY <1>2, <1>3, <1>4 DEF StatStrip
  <1>6. of.readRate <= of.deliveryRate
    <2>. DEFINE part == n({"READ"})
                more == n({"DELIVERED", "READ"})
                whole == n({"SENT", "DELIVERED", "READ"})
    <2>1. part \in Nat /\ more \in Nat /\ whole \in Nat /\ part <= more  BY <1>1, <1>2
    <2>. HIDE DEF part, more, whole
    <2>2. Share(part, whole) <= Share(more, whole)  BY <2>1, ShareGrows
    <2>. QED  BY <1>3, <2>2 DEF part, more, whole
  <1>. QED  BY <1>5, <1>6 DEF of

\* The history page and the dashboard agree whenever they read the same table and it fits
\* on the page that is asked for, for any number of rows, changes, reads and failures.
THEOREM PageAgreesWithDashboard == LedgerSpec => []StripAgreesWithDashboard
  <1>1. LedgerInv => StripAgreesWithDashboard
    <2>. SUFFICES ASSUME LedgerInv, logPage.turn = stats.turn, stats.of.total <= HistoryPage
                  PROVE  /\ StatStrip = [total |-> stats.of.total, accepted |-> stats.of.sent,
                                         delivered |-> stats.of.delivered + stats.of.read,
                                         read |-> stats.of.read, pending |-> stats.of.pending,
                                         failed |-> stats.of.failed]
                         /\ stats.of.readRate <= stats.of.deliveryRate
      BY DEF StripAgreesWithDashboard
    <2>1. PICK versions : ReadFrom(versions)  BY DEF LedgerInv
    <2>. DEFINE rows == versions[stats.turn]
    <2>2. /\ rows \in Seq(DeliveryStatus) /\ stats.of = DashboardOf(rows)
          /\ logPage.rows = FirstPage(rows)
      BY <2>1 DEF ReadFrom
    <2>. HIDE DEF rows
    <2>. QED  BY <2>2, NumbersAgree
  <1>. QED  BY <1>1, LedgerInvInit, LedgerInvStep, PTL DEF LedgerSpec
===============================================================================
