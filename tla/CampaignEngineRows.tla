-------------------------- MODULE CampaignEngineRows --------------------------
(***************************************************************************)
(* What becomes of the campaign row and of the message rows, for every     *)
(* value of the constants: without pause no attempt is forgotten, and      *)
(* without retry nobody is sent a message twice but for lost outcomes;     *)
(* with one request at a time what is sent stays sent, and COMPLETED means *)
(* drained; if nobody stops or retries either, the counters add up and the *)
(* status moves along its table; and what the console offers is taken.     *)
(***************************************************************************)
EXTENDS CampaignEngineSafety, CampaignButtons

-----------------------------------------------------------------------------
(* What the steps do to the message rows.                                  *)

\* A fetch takes up a PENDING row, with the attempt count it has.
LEMMA FetchesRow ==
  ASSUME TypeInv, NEW r \in Engines, Fetch(r)
  PROVE  /\ UNCHANGED <<message, accepted, campaign>>
         /\ ~HoldsRow(r)
         /\ HoldsRow(r)' =>
              /\ runner'[r].msg \in RowsIn("PENDING")
              /\ runner'[r].attempts = message[runner'[r].msg].attempts
  <1>t. runner \in [Engines -> RunnerState]  BY DEF TypeInv, TypeOK
  <1>1. UNCHANGED <<message, accepted, campaign>> /\ ~HoldsRow(r)
    BY DEF Fetch, OnlyRunnerChanges, HoldsRow
  <1>2. CASE RowsIn("PENDING") = {}
    <2>1. ~HoldsRow(r)'  BY <1>t, <1>2 DEF Fetch, Goto, HoldsRow, RunnerState
    <2>. QED  BY <1>1, <2>1
  <1>3. CASE RowsIn("PENDING") # {}
    <2>. DEFINE m == Oldest(RowsIn("PENDING"))
                new == [runner[r] EXCEPT !.pc = "picked", !.msg = m, !.attempts = message[m].attempts]
    <2>1. m \in RowsIn("PENDING")  BY <1>3, OldestIn DEF RowsIn
    <2>2. new.msg = m /\ new.attempts = message[m].attempts  BY <1>t DEF RunnerState
    <2>3. runner' = [runner EXCEPT ![r] = new]  BY <1>3 DEF Fetch
    <2>. HIDE DEF new
    <2>4. runner'[r].msg = m /\ runner'[r].attempts = message[m].attempts  BY <1>t, <2>2, <2>3
    <2>. QED  BY <1>1, <2>1, <2>4
  <1>. QED  BY <1>2, <1>3

\* A runner settles the row it holds, and lets go of it.  It leaves the row
\* PENDING only after a refusal that may be retried.
LEMMA SettlesRow ==
  ASSUME TypeInv, NEW r \in Engines, SettleUnsent(r) \/ Record(r)
  PROVE  /\ HoldsRow(r) /\ ~HoldsRow(r)'
         /\ UNCHANGED <<campaign, accepted>>
         /\ runner[r].msg \in Messages
         /\ \A m \in Messages : m # runner[r].msg => message'[m] = message[m]
         /\ message'[runner[r].msg].status \in {"PENDING", "SENT", "FAILED"}
         /\ message'[runner[r].msg].status = "PENDING" => runner[r].pc = "record" /\ ~Settling(r)
         /\ message'[runner[r].msg].attempts \in {message[runner[r].msg].attempts, runner[r].attempts + 1}
  <1>. DEFINE w == runner[r].msg
  <1>t. /\ runner \in [Engines -> RunnerState]
        /\ message \in [Messages -> Row]
        /\ RunnerShape
    BY DEF TypeInv, TypeOK
  <1>1. CASE SettleUnsent(r)
    <2>1. w \in Messages  BY <1>t, <1>1 DEF SettleUnsent, HoldsRow, RunnerShape
    <2>2. message'[w].status = "FAILED" /\ message'[w].attempts = message[w].attempts
      BY <1>t, <1>1, <2>1 DEF SettleUnsent, Row
    <2>. QED  BY <1>t, <1>1, <2>1, <2>2 DEF SettleUnsent, Goto, HoldsRow, RunnerState
  <1>2. CASE Record(r)
    <2>1. w \in Messages /\ runner[r].result \in {"ok", "transient", "permanent"}
      BY <1>t, <1>2 DEF Record, HoldsRow, RunnerShape
    <2>2. message' = [message EXCEPT ![w] = Recorded(r)]  BY <1>2 DEF Record
    <2>3. /\ message'[w].status = SettledStatus(runner[r].result, runner[r].attempts + 1)
          /\ message'[w].attempts = runner[r].attempts + 1
      BY <1>t, <2>1, <2>2 DEF Recorded
    <2>4. /\ message'[w].status \in {"PENDING", "SENT", "FAILED"}
          /\ message'[w].status = "PENDING" => runner[r].result = "transient"
      BY <2>1, <2>3 DEF SettledStatus
    <2>5. ~HoldsRow(r)'
      <3>. DEFINE new == [runner[r] EXCEPT !.pc = "syncRead", !.attempted = TRUE, !.result = None]
      <3>1. new.pc = "syncRead"  BY <1>t DEF RunnerState
      <3>2. runner' = [runner EXCEPT ![r] = new]  BY <1>2 DEF Record
      <3>. HIDE DEF new
      <3>. QED  BY <1>t, <3>1, <3>2 DEF HoldsRow
    <2>6. HoldsRow(r) /\ UNCHANGED <<campaign, accepted>> /\ runner[r].pc = "record"
      BY <1>2 DEF Record, HoldsRow
    <2>. QED  BY <1>t, <2>1, <2>2, <2>3, <2>4, <2>5, <2>6 DEF Settling
  <1>. QED  BY <1>1, <1>2

\* A retry puts one of the rows it read back in the queue, with a new budget.
LEMMA RequeuesRow ==
  ASSUME TypeInv, NEW h \in Requests, Requeue(h)
  PROVE  /\ request[h].pc = "requeue" /\ request[h].op = "retry"
         /\ UNCHANGED <<campaign, accepted, runner>>
         /\ \E m \in request[h].rows :
              /\ m \in Messages
              /\ message'[m] = [status |-> "PENDING", attempts |-> 0]
              /\ \A n \in Messages : n # m => message'[n] = message[n]
              /\ request'[h].rows \subseteq request[h].rows \ {m}
         /\ request'[h].op \in {"retry", None}
  <1>t. /\ request \in [Requests -> RequestState]
        /\ message \in [Messages -> Row]
        /\ Fits(request[h])
    BY DEF TypeInv, TypeOK, RequestShape
  <1>. DEFINE rows == request[h].rows
              m == Oldest(rows)
  <1>1. /\ request[h].pc = "requeue" /\ request[h].op = "retry"
        /\ UNCHANGED <<campaign, accepted, runner>>
    BY <1>t DEF Requeue, Fits
  <1>2. rows \in SUBSET Messages /\ rows # {}  BY <1>t, <1>1 DEF RequestState, Fits
  <1>3. m \in rows /\ m \in Messages
    <2>. HIDE DEF rows
    <2>. QED  BY <1>2, OldestIn
  <1>4. message' = [message EXCEPT ![m] = [status |-> "PENDING", attempts |-> 0]]
    BY DEF Requeue
  <1>5. request'[h].rows \subseteq rows \ {m} /\ request'[h].op \in {"retry", None}
    <2>1. CASE request' = [request EXCEPT ![h].rows = rows \ {m}]
      <3>. HIDE DEF rows, m
      <3>. QED  BY <1>t, <1>1, <2>1 DEF RequestState
    <2>2. CASE Reply(h)  BY <1>t, <2>2 DEF Reply, IdleRequest
    <2>3. CASE request' = [request EXCEPT ![h] = [@ EXCEPT !.pc = AfterRequeue(h), !.rows = {}]]
      BY <1>t, <1>1, <2>3 DEF RequestState
    <2>. QED  BY <2>1, <2>2, <2>3 DEF Requeue
  <1>. HIDE DEF rows, m
  <1>6. /\ message'[m] = [status |-> "PENDING", attempts |-> 0]
        /\ \A n \in Messages : n # m => message'[n] = message[n]
    BY <1>t, <1>3, <1>4
  <1>. QED  BY <1>1, <1>3, <1>5, <1>6 DEF rows

\* A request inserts the rows, or puts some back.
LEMMA RequestMessages ==
  ASSUME NEW h \in Requests, RequestStep(h)
  PROVE  UNCHANGED message \/ InsertMessages(h) \/ Requeue(h)
  BY DEF RequestStep, InsertCampaign, Read, Claim, Flag, WriteStatus, Launch, ReadFailed,
     RequestSyncRead, RequestSyncWrite, OnlyRequestChanges

\* Nothing else changes a message row.
LEMMA MessageMoves ==
  ASSUME TypeInv, [Next]_vars
  PROVE  \/ UNCHANGED message
         \/ \E r \in Engines : SettleUnsent(r) \/ Record(r)
         \/ \E h \in Requests : InsertMessages(h) \/ Requeue(h)
  <1>1. ASSUME NEW r \in Engines, RunnerStep(r)
        PROVE  UNCHANGED message \/ SettleUnsent(r) \/ Record(r)
    <2>1. UNCHANGED message \/ Fetch(r) \/ MetaAccepts(r) \/ SettleUnsent(r) \/ Record(r)
      BY <1>1, RunnerEffects
    <2>. QED  BY <2>1 DEF Fetch, OnlyRunnerChanges, MetaAccepts
  <1>2. ASSUME NEW h \in Requests, RequestStep(h)
        PROVE  UNCHANGED message \/ InsertMessages(h) \/ Requeue(h)
    BY <1>2, RequestMessages
  <1>3. ASSUME \/ \E r \in Engines : RunnerFault(r)
               \/ \E h \in Requests : RequestFault(h) \/ (\E op \in Operations : Arrive(h, op))
               \/ Crash \/ Boot \/ BootFault \/ UNCHANGED vars
        PROVE  UNCHANGED message
    BY <1>3 DEF RunnerFault, RequestFault, Arrive, Crash, Boot, BootFault, vars
  <1>. QED  BY <1>1, <1>2, <1>3 DEF Next

\* A row that was inserted stays.
LEMMA RowsStay ==
  ASSUME TypeInv, [Next]_vars, NEW m \in Messages, message[m].status # "ABSENT"
  PROVE  message'[m].status # "ABSENT"
  <1>1. ASSUME NEW r \in Engines, SettleUnsent(r) \/ Record(r) PROVE message'[m].status # "ABSENT"
    BY <1>1, SettlesRow
  <1>2. ASSUME NEW h \in Requests, InsertMessages(h) PROVE message'[m].status # "ABSENT"
    BY <1>2 DEF InsertMessages
  <1>3. ASSUME NEW h \in Requests, Requeue(h) PROVE message'[m].status # "ABSENT"
    <2>1. PICK n : /\ message'[n] = [status |-> "PENDING", attempts |-> 0]
                   /\ \A k \in Messages : k # n => message'[k] = message[k]
      BY <1>3, RequeuesRow
    <2>. QED  BY <2>1
  <1>. QED  BY <1>1, <1>2, <1>3, MessageMoves

\* A runner is moved by its own steps, and by what starts, wakes or ends it.
LEMMA MovedFromOutside ==
  ASSUME MemoryInv, [Next]_vars, NEW r \in Engines, ~RunnerStep(r)
  PROVE  \/ runner'[r] = runner[r]
         \/ runner'[r].pc \in {"off", "load", "top", "failFind", "finally"}
  <1>t. TypeInv /\ runner \in [Engines -> RunnerState]  BY DEF MemoryInv, TypeInv, TypeOK
  <1>1. ASSUME NEW q \in Engines, q # r, RunnerStep(q) PROVE runner'[r] = runner[r]
    BY <1>t, <1>1, RunnerMoves
  <1>2. ASSUME NEW q \in Engines, RunnerFault(q)
        PROVE  runner'[r] = runner[r] \/ runner'[r].pc \in {"failFind", "finally"}
    <2>1. CASE q = r  BY <1>t, <1>2, <2>1 DEF RunnerFault, IdleRunner
    <2>2. CASE q # r  BY <1>t, <1>2, <2>2 DEF RunnerFault
    <2>. QED  BY <2>1, <2>2
  <1>3. ASSUME NEW h \in Requests, RequestStep(h)
        PROVE  runner'[r] = runner[r] \/ runner'[r].pc \in {"top", "load"}
    <2>1. UNCHANGED runner \/ Claim(h) \/ Flag(h) \/ Launch(h)  BY <1>t, <1>3, RequestMoves
    <2>2. CASE Claim(h)  BY <2>2 DEF Claim
    <2>3. CASE Flag(h)
      <3>1. runner' = runner \/ \E s : runner' = [runner EXCEPT ![s].pc = "top"]
        BY <2>3 DEF Flag
      <3>. QED  BY <1>t, <3>1 DEF RunnerState
    <2>4. CASE Launch(h)  BY <2>4, LaunchMemory DEF IdleRunner
    <2>. QED  BY <2>1, <2>2, <2>3, <2>4
  <1>4. CASE Crash  BY <1>4 DEF Crash, IdleRunner
  <1>5. CASE Boot  BY <1>5, BootMemory DEF IdleRunner
  <1>6. ASSUME \/ \E h \in Requests : RequestFault(h) \/ (\E op \in Operations : Arrive(h, op))
               \/ BootFault \/ UNCHANGED vars
        PROVE  runner'[r] = runner[r]
    BY <1>6 DEF RequestFault, Arrive, BootFault, vars
  <1>. QED  BY <1>1, <1>2, <1>3, <1>4, <1>5, <1>6 DEF Next

\* A runner takes up a row by fetching it only.
LEMMA HoldersKept ==
  ASSUME MemoryInv, [Next]_vars, NEW r \in Engines, HoldsRow(r)'
  PROVE  \/ Fetch(r)
         \/ /\ HoldsRow(r)
            /\ runner'[r].msg = runner[r].msg /\ runner'[r].attempts = runner[r].attempts
  <1>t. TypeInv /\ runner \in [Engines -> RunnerState]  BY DEF MemoryInv, TypeInv, TypeOK
  <1>1. CASE RunnerStep(r)
    <2>1. CASE MetaAccepts(r)
      BY <1>t, <2>1 DEF MetaAccepts, Goto, HoldsRow, RunnerState
    <2>2. ~SettleUnsent(r) /\ ~Record(r)  BY <1>t, SettlesRow
    <2>. QED  BY <1>t, <1>1, <2>1, <2>2, RunnerEffects
  <1>2. CASE ~RunnerStep(r)  BY <1>2, MovedFromOutside DEF HoldsRow
  <1>. QED  BY <1>1, <1>2

\* A request other than create is about a campaign, of which it leaves the rows
\* alone unless it is a retry.
LEMMA RequestKinds ==
  ASSUME TypeInv, NEW h \in Requests, RequestStep(h)
  PROVE  /\ UNCHANGED <<accepted, budget>>
         /\ \A g \in Requests : g # h => request'[g] = request[g]
         /\ \/ InsertCampaign(h)
            \/ InsertMessages(h)
            \/ /\ request[h].op \notin {None, "create"}
               /\ request'[h].op # "create"
               /\ campaign.status # None => campaign'.status # None
               /\ request'[h].rows \subseteq request[h].rows \cup RowsIn("FAILED")
               /\ UNCHANGED message \/ Requeue(h)
  <1>t. /\ Fits(request[h])
        /\ request \in [Requests -> RequestState]
        /\ campaign \in [status : CampaignStatus \cup {None}, counts : Counts]
    BY DEF TypeInv, TypeOK, RequestShape
  <1>0. /\ \A g \in Requests : g # h => request'[g] = request[g]
        /\ request[h].pc # "idle" /\ UNCHANGED budget
    BY RequestMoves
  <1>a. UNCHANGED accepted
    BY DEF RequestStep, InsertCampaign, InsertMessages, Read, Claim, Flag, WriteStatus, Launch,
       ReadFailed, Requeue, RequestSyncRead, RequestSyncWrite, OnlyRequestChanges
  <1>. USE <1>t, <1>0, <1>a, NoneAssumption
       DEF OnlyRequestChanges, RequestGoto, Reply, IdleRequest, RequestState, AllOperations
  <1>1. CASE InsertCampaign(h) \/ InsertMessages(h)  BY <1>1
  <1>2. CASE Read(h)
    <2>0. request[h].op \notin {None, "create"}  BY <1>2 DEF Read, Fits
    <2>1. CASE Reply(h)  BY <1>2, <2>0, <2>1 DEF Read
    <2>2. CASE \E pc \in {"claim", "flag"} : RequestGoto(h, pc)  BY <1>2, <2>0, <2>2 DEF Read
    <2>3. CASE request' = [request EXCEPT ![h].op = "start"]  BY <1>2, <2>0, <2>3 DEF Read
    <2>4. CASE request' = [request EXCEPT ![h] = [@ EXCEPT !.pc = "readFailed", !.seen = campaign.status]]
      BY <1>2, <2>0, <2>4 DEF Read
    <2>. HIDE DEF RequestGoto, Reply
    <2>. QED  BY <1>2, <2>1, <2>2, <2>3, <2>4 DEF Read, GotoIf
  <1>3. CASE Claim(h)
    <2>1. CASE Reply(h)  BY <1>3, <2>1 DEF Claim, Fits
    <2>2. CASE ~Reply(h)
      <3>. DEFINE e == NewEngine
      <3>1. request' = [request EXCEPT ![h] = [@ EXCEPT !.pc = "writeStatus", !.claim = e]]
        BY <1>3, <2>2 DEF Claim
      <3>. HIDE DEF e
      <3>2. request'[h].op = request[h].op /\ request'[h].rows = request[h].rows  BY <3>1
      <3>. QED  BY <1>3, <3>2 DEF Claim, Fits
    <2>. QED  BY <2>1, <2>2
  <1>4. CASE Flag(h)  BY <1>4 DEF Flag, Fits
  <1>5. CASE WriteStatus(h)
    <2>1. TargetStatus[request[h].op] # None
      BY <1>5 DEF WriteStatus, Fits, TargetStatus, CampaignStatus
    <2>. QED  BY <1>5, <2>1 DEF WriteStatus, Fits
  <1>6. CASE Launch(h)  BY <1>6 DEF Launch, Fits
  <1>7. CASE ReadFailed(h)
    <2>1. CASE Reply(h)  BY <1>7, <2>1 DEF ReadFailed, Fits
    <2>2. CASE request' = [request EXCEPT ![h] = [@ EXCEPT !.pc = "requeue", !.rows = RowsIn("FAILED")]]
      <3>. DEFINE rows == RowsIn("FAILED")
      <3>. HIDE DEF rows
      <3>1. request'[h].op = request[h].op /\ request'[h].rows = rows  BY <2>2 DEF rows
      <3>. QED  BY <1>7, <3>1 DEF ReadFailed, Fits, rows
    <2>. QED  BY <1>7, <2>1, <2>2 DEF ReadFailed
  <1>8. CASE Requeue(h)
    <2>1. request[h].op = "retry" /\ UNCHANGED campaign /\ request'[h].op \in {"retry", None}
      BY <1>8, RequeuesRow
    <2>2. request'[h].rows \subseteq request[h].rows  BY <1>8, RequeuesRow
    <2>. QED  BY <1>8, <2>1, <2>2
  <1>9. CASE RequestSyncRead(h)  BY <1>9 DEF RequestSyncRead, Fits
  <1>10. CASE RequestSyncWrite(h)  BY <1>10 DEF RequestSyncWrite, Fits
  <1>. QED
    BY <1>1, <1>2, <1>3, <1>4, <1>5, <1>6, <1>7, <1>8, <1>9, <1>10 DEF RequestStep

\* The rows a retry works on were read FAILED.
LEMMA RequestRows ==
  ASSUME TypeInv, [Next]_vars, NEW h \in Requests
  PROVE  request'[h].rows \subseteq request[h].rows \cup RowsIn("FAILED")
  <1>t. request \in [Requests -> RequestState]  BY DEF TypeInv, TypeOK
  <1>0. CASE request'[h].rows \subseteq request[h].rows  BY <1>0
  <1>1. CASE UNCHANGED request  BY <1>1
  <1>2. ASSUME NEW r \in Engines, RunnerStep(r) \/ RunnerFault(r) PROVE UNCHANGED request
    BY <1>2, RunnerKeepsRest DEF RunnerFault
  <1>3. ASSUME NEW g \in Requests, RequestStep(g)
        PROVE  request'[h].rows \subseteq request[h].rows \cup RowsIn("FAILED")
    <2>1. CASE g # h  BY <1>3, <2>1, RequestKinds
    <2>2. CASE g = h /\ (InsertCampaign(h) \/ InsertMessages(h))
      BY <1>t, <1>0, <2>2
      DEF InsertCampaign, InsertMessages, RequestGoto, Reply, IdleRequest, RequestState
    <2>. QED  BY <1>3, <2>1, <2>2, RequestKinds
  <1>4. ASSUME NEW g \in Requests, RequestFault(g) \/ (\E op \in Operations : Arrive(g, op))
        PROVE  request'[h].rows \subseteq request[h].rows
    <2>1. CASE RequestFault(g)  BY <1>t, <2>1 DEF RequestFault, Reply, IdleRequest
    <2>2. ASSUME NEW op \in Operations, Arrive(g, op) PROVE request'[h].rows = request[h].rows
      BY <1>t, <2>2 DEF Arrive, RequestState
    <2>. QED  BY <1>4, <2>1, <2>2
  <1>5. CASE Crash  BY <1>0, <1>5 DEF Crash, IdleRequest
  <1>6. CASE Boot \/ BootFault \/ UNCHANGED vars  BY <1>1, <1>6 DEF Boot, BootFault, vars
  <1>. QED  BY <1>0, <1>1, <1>2, <1>3, <1>4, <1>5, <1>6 DEF Next

-----------------------------------------------------------------------------
(* The rows come first.                                                    *)

\* The rows appear once, after the campaign row and before anything is sent.
CreateOrder ==
  /\ campaign.status = None =>
       /\ \A r \in Engines : ~Live(r)
       /\ \A h \in Requests : request[h].op \in {None, "create"}
  /\ \A h \in Requests : request[h].pc = "insertCampaign" => campaign.status = None
  /\ \A h \in Requests : request[h].pc = "insertMessages" => campaign.status # None
  /\ \A g, h \in Requests : request[g].op = "create" /\ request[h].op = "create" => g = h
  /\ campaign.status = None \/ (\E h \in Requests : request[h].pc = "insertMessages") =>
       \A m \in Messages : message[m].status = "ABSENT"

\* Only rows that were inserted are held, put back, or attempted.
RowsInserted ==
  /\ \A r \in Engines : HoldsRow(r) => message[runner[r].msg].status # "ABSENT"
  /\ \A h \in Requests : \A m \in request[h].rows : message[m].status # "ABSENT"
  /\ \A m \in Messages : message[m].status = "ABSENT" => message[m].attempts = 0

OrderInv == MemoryInv /\ CreateOrder /\ RowsInserted

\* In a new database nothing was inserted; in an inherited one everything was.
LEMMA OrderInit == Init => OrderInv
  <1>. SUFFICES ASSUME Init PROVE OrderInv  OBVIOUS
  <1>1. MemoryInv  BY MemoryInit
  <1>2. /\ \A r \in Engines : ~Live(r) /\ ~HoldsRow(r)
        /\ \A h \in Requests : request[h] = IdleRequest
        /\ \A h \in Requests : request[h].pc = "idle" /\ request[h].op = None /\ request[h].rows = {}
    BY DEF Init, IdleRunner, IdleRequest, Live, HoldsRow
  <1>3. CASE NewDatabase
    BY <1>1, <1>2, <1>3, NoneAssumption DEF NewDatabase, OrderInv, CreateOrder, RowsInserted, AllOperations
  <1>4. CASE InheritedDatabase
    <2>1. campaign.status # None
      BY <1>4, NoneAssumption DEF InheritedDatabase, CampaignStatus
    <2>2. \A m \in Messages : message[m].status # "ABSENT"
      BY <1>4 DEF InheritedDatabase, InheritedRow
    <2>. QED
      BY <1>1, <1>2, <2>1, <2>2, NoneAssumption DEF OrderInv, CreateOrder, RowsInserted, AllOperations
  <1>. QED  BY <1>3, <1>4 DEF Init

\* What was inserted stays, so who works on a row goes on working on an inserted one.
LEMMA InsertedStep ==
  ASSUME OrderInv, [Next]_vars
  PROVE  RowsInserted'
  <1>t. MemoryInv /\ TypeInv /\ RunnerShape /\ RowsInserted /\ request \in [Requests -> RequestState]
    BY DEF OrderInv, MemoryInv, TypeInv, TypeOK
  <1>1. ASSUME NEW r \in Engines, HoldsRow(r)'
        PROVE  message'[runner'[r].msg].status # "ABSENT"
    <2>1. CASE Fetch(r)  BY <1>t, <1>1, <2>1, FetchesRow DEF RowsIn
    <2>2. CASE HoldsRow(r) /\ runner'[r].msg = runner[r].msg
      BY <1>t, <2>2, RowsStay DEF RowsInserted, RunnerShape
    <2>. QED  BY <1>t, <1>1, <2>1, <2>2, HoldersKept
  <1>2. ASSUME NEW h \in Requests, NEW m \in request'[h].rows
        PROVE  message'[m].status # "ABSENT"
    <2>1. m \in request[h].rows \/ m \in RowsIn("FAILED")  BY <1>t, RequestRows
    <2>2. m \in Messages /\ message[m].status # "ABSENT"
      BY <1>t, <2>1 DEF RowsInserted, RowsIn, RequestState
    <2>. QED  BY <1>t, <2>2, RowsStay
  <1>3. ASSUME NEW m \in Messages, message'[m].status = "ABSENT"
        PROVE  message'[m].attempts = 0
    <2>1. message[m].status = "ABSENT" /\ message[m].attempts = 0
      BY <1>t, <1>3, RowsStay DEF RowsInserted
    <2>2. ASSUME NEW r \in Engines, SettleUnsent(r) \/ Record(r) PROVE message'[m] = message[m]
      BY <1>t, <2>1, <2>2, SettlesRow DEF RowsInserted
    <2>3. ASSUME NEW h \in Requests, InsertMessages(h) PROVE message'[m].attempts = 0
      BY <2>3 DEF InsertMessages
    <2>4. ASSUME NEW h \in Requests, Requeue(h) PROVE message'[m].attempts = 0
      <3>. PICK n : /\ message'[n] = [status |-> "PENDING", attempts |-> 0]
                    /\ \A k \in Messages : k # n => message'[k] = message[k]
        BY <1>t, <2>4, RequeuesRow
      <3>. QED  BY <2>1
    <2>. QED  BY <1>t, <2>1, <2>2, <2>3, <2>4, MessageMoves
  <1>. QED  BY <1>1, <1>2, <1>3 DEF RowsInserted

\* A runner is started for a campaign that exists, and works on inserted rows.
LEMMA CreateOrderRunner ==
  ASSUME OrderInv, NEW r \in Engines, RunnerStep(r)
  PROVE  CreateOrder'
  <1>t. /\ MemoryInv /\ TypeInv /\ RunnerShape /\ CreateOrder /\ RowsInserted
        /\ campaign \in [status : CampaignStatus \cup {None}, counts : Counts]
    BY DEF OrderInv, MemoryInv, TypeInv, TypeOK
  <1>1. UNCHANGED request  BY <1>t, RunnerKeepsRest
  <1>2. Live(r)  BY <1>t, RunnerMoves
  <1>3. campaign.status # None /\ campaign'.status # None
    <2>1. campaign.status # None  BY <1>t, <1>2 DEF CreateOrder
    <2>. QED  BY <1>t, <2>1, RunnerEffects, NoneAssumption DEF CampaignStatus
  <1>4. ASSUME NEW h \in Requests, request[h].pc = "insertMessages", NEW m \in Messages
        PROVE  message'[m].status = "ABSENT"
    <2>1. \A n \in Messages : message[n].status = "ABSENT"  BY <1>t, <1>4 DEF CreateOrder
    <2>2. ~HoldsRow(r)  BY <1>t, <2>1 DEF RowsInserted, RunnerShape
    <2>3. ~SettleUnsent(r) /\ ~Record(r)  BY <1>t, <2>2, SettlesRow
    <2>4. UNCHANGED message
      BY <1>t, <2>3, RunnerEffects, FetchesRow DEF MetaAccepts
    <2>. QED  BY <2>1, <2>4
  <1>. QED  BY <1>t, <1>1, <1>3, <1>4 DEF CreateOrder

\* Requests about a campaign come after its row; only create inserts.
LEMMA CreateOrderRequest ==
  ASSUME OrderInv, TypeInv', NEW h \in Requests, RequestStep(h)
  PROVE  CreateOrder'
  <1>t. /\ MemoryInv /\ TypeInv /\ CreateOrder /\ RowsInserted
        /\ \A g \in Requests : Fits(request[g]) /\ Fits(request'[g])
        /\ request \in [Requests -> RequestState]
    BY DEF OrderInv, MemoryInv, TypeInv, TypeOK, RequestShape
  <1>1. \A g \in Requests : g # h => request'[g] = request[g]  BY <1>t, RequestMoves
  <1>2. CASE InsertCampaign(h)
    <2>1. /\ request[h].pc = "insertCampaign" /\ request[h].op = "create"
          /\ UNCHANGED <<message, runner>>
          /\ campaign'.status # None
          /\ request'[h].pc = "insertMessages"
      BY <1>t, <1>2, NoneAssumption
      DEF InsertCampaign, RequestGoto, Fits, RequestState, CampaignStatus
    <2>2. \A m \in Messages : message[m].status = "ABSENT"
      BY <1>t, <2>1 DEF CreateOrder
    <2>3. \A g \in Requests : request[g].pc \in {"insertCampaign", "insertMessages"} => g = h
      BY <1>t, <2>1 DEF CreateOrder, Fits
    <2>4. \A g \in Requests : request'[g].op = "create" => g = h
      BY <1>t, <1>1, <2>1 DEF CreateOrder
    <2>. QED  BY <1>1, <2>1, <2>2, <2>3, <2>4 DEF CreateOrder
  <1>3. CASE InsertMessages(h)
    <2>1. /\ request[h].pc = "insertMessages" /\ request[h].op = "create"
          /\ UNCHANGED <<campaign, runner>>
          /\ request'[h].pc = "idle" /\ request'[h].op # "create"
      BY <1>t, <1>3, NoneAssumption DEF InsertMessages, Reply, IdleRequest, Fits, AllOperations
    <2>2. /\ campaign.status # None
          /\ \A g \in Requests : request[g].pc \in {"insertCampaign", "insertMessages"} => g = h
      BY <1>t, <2>1 DEF CreateOrder, Fits
    <2>. QED  BY <1>t, <1>1, <2>1, <2>2 DEF CreateOrder
  <1>4. CASE ~InsertCampaign(h) /\ ~InsertMessages(h)
    <2>1. /\ request[h].op \notin {None, "create"}
          /\ request'[h].op # "create"
          /\ campaign.status # None => campaign'.status # None
          /\ UNCHANGED message \/ Requeue(h)
      BY <1>t, <1>4, RequestKinds
    <2>2. campaign.status # None /\ campaign'.status # None
      BY <1>t, <2>1 DEF CreateOrder
    <2>3. \A g \in Requests : request'[g].pc \in {"insertCampaign", "insertMessages"} => g # h
      BY <1>t, <2>1 DEF Fits
    <2>4. ASSUME NEW g \in Requests, request'[g].pc = "insertMessages"
          PROVE  \A m \in Messages : message'[m].status = "ABSENT"
      <3>1. \A m \in Messages : message[m].status = "ABSENT"
        BY <1>t, <1>1, <2>3, <2>4 DEF CreateOrder
      <3>2. ~Requeue(h)
        <4>1. ASSUME Requeue(h) PROVE FALSE
          <5>1. \E m \in request[h].rows : m \in Messages  BY <1>t, <4>1, RequeuesRow
          <5>. QED  BY <1>t, <3>1, <5>1 DEF RowsInserted
        <4>. QED  BY <4>1
      <3>. QED  BY <2>1, <3>1, <3>2
    <2>. QED  BY <1>t, <1>1, <2>1, <2>2, <2>3, <2>4 DEF CreateOrder
  <1>. QED  BY <1>2, <1>3, <1>4

\* One create at a time; a crash or an error may cut it short.
LEMMA CreateOrderProcess ==
  ASSUME OrderInv, TypeInv',
         \/ \E r \in Engines : RunnerFault(r)
         \/ \E h \in Requests : RequestFault(h) \/ (\E op \in Operations : Arrive(h, op))
         \/ Crash \/ Boot \/ BootFault
         \/ UNCHANGED vars
  PROVE  CreateOrder'
  <1>t. /\ MemoryInv /\ TypeInv /\ CreateOrder
        /\ runner \in [Engines -> RunnerState]
        /\ request \in [Requests -> RequestState]
        /\ \A h \in Requests : Fits(request[h])
        /\ \A h \in Requests : Fits(request'[h])
    BY DEF OrderInv, MemoryInv, TypeInv, TypeOK, RequestShape
  <1>1. UNCHANGED <<campaign, message>>
    BY DEF RunnerFault, RequestFault, Arrive, Crash, Boot, BootFault, vars
  <1>2. ASSUME \A r \in Engines : Live(r)' => Live(r) \/ campaign.status # None,
               \A h \in Requests : request'[h] = request[h] \/ request'[h] = IdleRequest
        PROVE  CreateOrder'
    BY <1>t, <1>1, <1>2, NoneAssumption DEF CreateOrder, IdleRequest, AllOperations
  <1>3. CASE UNCHANGED vars  BY <1>2, <1>3 DEF vars, Live
  <1>4. ASSUME NEW r \in Engines, RunnerFault(r) PROVE CreateOrder'
    <2>1. UNCHANGED request /\ Live(r) /\ \A q \in Engines : q # r => runner'[q] = runner[q]
      BY <1>t, <1>4 DEF RunnerFault, Live, TryPcs, FailPcs
    <2>. QED  BY <1>2, <2>1 DEF Live
  <1>5. ASSUME NEW h \in Requests, RequestFault(h) PROVE CreateOrder'
    <2>1. UNCHANGED runner /\ request' = [request EXCEPT ![h] = IdleRequest]
      BY <1>5 DEF RequestFault, Reply
    <2>. QED  BY <1>t, <1>2, <2>1 DEF Live
  <1>6. ASSUME NEW h \in Requests, NEW op \in Operations, Arrive(h, op) PROVE CreateOrder'
    <2>1. /\ op = "create" => \A g \in Requests : request[g].op # "create"
          /\ (op = "create") <=> (campaign.status = None)
          /\ request'[h].op = op
          /\ request'[h].pc = IF op = "create" THEN "insertCampaign" ELSE "read"
          /\ \A g \in Requests : g # h => request'[g] = request[g]
          /\ request[h].pc = "idle"
          /\ UNCHANGED runner
      BY <1>t, <1>6 DEF Arrive, RequestState
    <2>2. \A r \in Engines : Live(r)' <=> Live(r)  BY <2>1 DEF Live
    <2>. QED  BY <1>t, <1>1, <2>1, <2>2 DEF CreateOrder
  <1>7. CASE Crash  BY <1>2, <1>7 DEF Crash, Live, IdleRunner
  <1>8. CASE Boot
    <2>1. UNCHANGED request /\ (campaign.status # "RUNNING" => UNCHANGED runner)
      BY <1>t, <1>8, BootMemory
    <2>2. "RUNNING" # None  BY NoneAssumption DEF CampaignStatus
    <2>. QED  BY <1>2, <2>1, <2>2 DEF Live
  <1>9. CASE BootFault  BY <1>2, <1>9 DEF BootFault, Live
  <1>. QED  BY <1>3, <1>4, <1>5, <1>6, <1>7, <1>8, <1>9

LEMMA OrderStep == OrderInv /\ [Next]_vars => OrderInv'
  <1>. SUFFICES ASSUME OrderInv, [Next]_vars PROVE OrderInv'  OBVIOUS
  <1>1. MemoryInv' /\ TypeInv'  BY MemoryStep DEF OrderInv, MemoryInv
  <1>2. CreateOrder'
    BY <1>1, CreateOrderRunner, CreateOrderRequest, CreateOrderProcess DEF Next
  <1>. QED  BY <1>1, <1>2, InsertedStep DEF OrderInv

-----------------------------------------------------------------------------
(* The row in hand, as long as nobody pauses.                              *)

\* The row a runner works on still waits for its outcome, and nobody else has
\* spent an attempt on it.
HeldInv ==
  \A r \in Engines : HoldsRow(r) =>
    /\ message[runner[r].msg].status = "PENDING"
    /\ message[runner[r].msg].attempts <= runner[r].attempts

RowInv == ExclusiveInv /\ OrderInv /\ HeldInv

LEMMA RowInit == Init => RowInv
  <1>1. ASSUME Init PROVE HeldInv
    BY <1>1 DEF Init, IdleRunner, HoldsRow, HeldInv
  <1>. QED  BY <1>1, ExclusiveInit, OrderInit DEF RowInv

\* The one runner settles its row itself; a retry gives a row its attempts back.
LEMMA HeldStep ==
  ASSUME RowInv, ExclusiveInv', [Next]_vars
  PROVE  HeldInv'
  <1>t. /\ MemoryInv /\ TypeInv /\ OneLiveRunner /\ RunnerShape /\ HeldInv
        /\ CreateOrder /\ RowsInserted
        /\ runner' \in [Engines -> RunnerState]
        /\ runner \in [Engines -> RunnerState]
        /\ message \in [Messages -> Row]
    BY DEF RowInv, ExclusiveInv, OneOwner, OrderInv, MemoryInv, TypeInv, TypeOK
  <1>. SUFFICES ASSUME NEW r \in Engines, HoldsRow(r)'
                PROVE  /\ message'[runner'[r].msg].status = "PENDING"
                       /\ message'[runner'[r].msg].attempts <= runner'[r].attempts
    BY DEF HeldInv
  <1>1. CASE Fetch(r)
    <2>1. /\ UNCHANGED message
          /\ runner'[r].msg \in RowsIn("PENDING")
          /\ runner'[r].attempts = message[runner'[r].msg].attempts
      BY <1>t, <1>1, FetchesRow
    <2>2. message[runner'[r].msg].attempts \in 0..MaxAttempts  BY <1>t, <2>1 DEF RowsIn, Row
    <2>. QED  BY <2>1, <2>2, MaxAttemptsAssumption DEF RowsIn
  <1>2. CASE ~Fetch(r)
    <2>. PICK w : w = runner[r].msg  OBVIOUS
    <2>1. /\ HoldsRow(r)
          /\ runner'[r].msg = w /\ runner'[r].attempts = runner[r].attempts
      BY <1>t, <1>2, HoldersKept
    <2>2. /\ w \in Messages
          /\ message[w].status = "PENDING" /\ message[w].attempts <= runner[r].attempts
      BY <1>t, <2>1 DEF RunnerShape, HeldInv
    <2>3. CASE message'[w] = message[w]  BY <2>1, <2>2, <2>3
    <2>4. ASSUME NEW q \in Engines, SettleUnsent(q) \/ Record(q) PROVE FALSE
      <3>1. HoldsRow(q) /\ ~HoldsRow(q)'  BY <1>t, <2>4, SettlesRow
      <3>2. q = r  BY <1>t, <2>1, <3>1 DEF OneLiveRunner, Live, HoldsRow
      <3>. QED  BY <3>1, <3>2
    <2>5. ASSUME NEW h \in Requests, InsertMessages(h) PROVE FALSE
      <3>1. message[w].status = "ABSENT"
        BY <1>t, <2>2, <2>5 DEF InsertMessages, CreateOrder
      <3>. QED  BY <2>2, <3>1
    <2>6. ASSUME NEW h \in Requests, Requeue(h)
          PROVE  message'[w] = message[w] \/ message'[w] = [status |-> "PENDING", attempts |-> 0]
      BY <1>t, <2>2, <2>6, RequeuesRow
    <2>7. CASE message'[w] = [status |-> "PENDING", attempts |-> 0]
      <3>1. runner[r].attempts \in 0..MaxAttempts  BY <1>t DEF RunnerState
      <3>. QED  BY <2>1, <2>7, <3>1, MaxAttemptsAssumption
    <2>. QED  BY <1>t, <2>3, <2>4, <2>5, <2>6, <2>7, MessageMoves
  <1>. QED  BY <1>1, <1>2

LEMMA RowStep ==
  ASSUME "pause" \notin Operations, RowInv, [Next]_vars
  PROVE  RowInv'
  <1>1. ExclusiveInv'  BY ExclusiveStep DEF RowInv
  <1>. QED  BY <1>1, OrderStep, HeldStep DEF RowInv

\* As long as nobody pauses, with any number of clients, crashes and database
\* errors, the attempts spent on a message are never forgotten: the count that
\* a runner writes is not older than the one in the row.
THEOREM AttemptsAreKept ==
  ASSUME "pause" \notin Operations
  PROVE  Spec => AttemptsOnlyForward
  <1>1. RowInv /\ [Next]_vars =>
          [\A m \in Messages :
             \/ message[m].attempts <= message'[m].attempts
             \/ \E h \in Requests : request[h].pc = "requeue" /\ m \in request[h].rows]_vars
    <2>. SUFFICES ASSUME RowInv, [Next]_vars, NEW m \in Messages
                  PROVE  \/ message[m].attempts <= message'[m].attempts
                         \/ \E h \in Requests : request[h].pc = "requeue" /\ m \in request[h].rows
      OBVIOUS
    <2>t. /\ TypeInv /\ CreateOrder /\ RowsInserted /\ HeldInv
          /\ runner \in [Engines -> RunnerState]
          /\ message \in [Messages -> Row]
      BY DEF RowInv, OrderInv, MemoryInv, TypeInv, TypeOK
    <2>0. message[m].attempts \in Nat  BY <2>t, MaxAttemptsAssumption DEF Row
    <2>1. message'[m] = message[m] => message[m].attempts <= message'[m].attempts  BY <2>0
    <2>2. ASSUME NEW r \in Engines, SettleUnsent(r) \/ Record(r)
          PROVE  message[m].attempts <= message'[m].attempts
      <3>1. CASE m # runner[r].msg  BY <2>t, <2>1, <2>2, <3>1, SettlesRow
      <3>2. CASE m = runner[r].msg
        <4>1. message[m].attempts <= runner[r].attempts  BY <2>t, <2>2, <3>2, SettlesRow DEF HeldInv
        <4>2. runner[r].attempts \in Nat  BY <2>t, MaxAttemptsAssumption DEF RunnerState
        <4>3. message'[m].attempts \in {message[m].attempts, runner[r].attempts + 1}
          BY <2>t, <2>2, <3>2, SettlesRow
        <4>. QED  BY <2>0, <4>1, <4>2, <4>3
      <3>. QED  BY <3>1, <3>2
    <2>3. ASSUME NEW h \in Requests, InsertMessages(h)
          PROVE  message[m].attempts <= message'[m].attempts
      <3>1. message[m].status = "ABSENT"  BY <2>t, <2>3 DEF InsertMessages, CreateOrder
      <3>2. message[m].attempts = 0  BY <2>t, <3>1 DEF RowsInserted
      <3>3. message'[m].attempts = 0  BY <2>3 DEF InsertMessages
      <3>. QED  BY <3>2, <3>3
    <2>4. ASSUME NEW h \in Requests, Requeue(h)
          PROVE  \/ message'[m] = message[m]
                 \/ request[h].pc = "requeue" /\ m \in request[h].rows
      BY <2>t, <2>4, RequeuesRow
    <2>. QED  BY <2>t, <2>1, <2>2, <2>3, <2>4, MessageMoves
  <1>2. Init => RowInv  BY RowInit
  <1>3. "pause" \notin Operations /\ RowInv /\ [Next]_vars => RowInv'  BY RowStep
  <1>. QED  BY <1>1, <1>2, <1>3, PTL DEF Spec, AttemptsOnlyForward

-----------------------------------------------------------------------------
(* One delivery, as long as nobody pauses or retries.                      *)

InFlight(m) == \E r \in Engines : Settling(r) /\ runner[r].msg = m

\* How many acceptances of a message may have gone unrecorded.
Lost == budget.crashes + budget.faults

\* A message that may still be sent was accepted only in attempts whose
\* outcome was lost.
Accounted ==
  \A m \in Messages :
    /\ accepted[m] <= 1 + Lost
    /\ message[m].status = "ABSENT" => accepted[m] = 0
    /\ message[m].status = "PENDING" /\ ~InFlight(m) => accepted[m] <= Lost

\* The rows stay accounted for when nothing is sent or settled.
LEMMA AccountedKept ==
  ASSUME Accounted, UNCHANGED <<message, accepted>>,
         budget \in [requests : 0..MaxRequests, crashes : 0..MaxCrashes, faults : 0..MaxFaults],
         accepted \in [Messages -> Nat], Lost' \in Nat,
         \/ Lost' = Lost /\ \A m \in Messages : InFlight(m) => InFlight(m)'
         \/ Lost' >= Lost + 1
  PROVE  Accounted'
  <1>1. Lost \in Nat  BY BoundsAssumption DEF Lost
  <1>2. ASSUME NEW m \in Messages
        PROVE  /\ accepted'[m] <= 1 + Lost'
               /\ message'[m].status = "ABSENT" => accepted'[m] = 0
               /\ message'[m].status = "PENDING" /\ ~InFlight(m)' => accepted'[m] <= Lost'
    <2>1. /\ accepted[m] \in Nat
          /\ accepted[m] <= 1 + Lost
          /\ message[m].status = "ABSENT" => accepted[m] = 0
          /\ message[m].status = "PENDING" /\ ~InFlight(m) => accepted[m] <= Lost
      BY DEF Accounted
    <2>2. CASE Lost' = Lost /\ (InFlight(m) => InFlight(m)')  BY <2>1, <2>2
    <2>3. CASE Lost' >= Lost + 1
      <3>1. accepted[m] <= Lost'  BY <1>1, <2>1, <2>3
      <3>2. accepted[m] <= 1 + Lost'  BY <2>1, <3>1
      <3>. QED  BY <2>1, <3>1, <3>2
    <2>. QED  BY <2>2, <2>3
  <1>. QED  BY <1>2 DEF Accounted

\* A runner sends a row only while it is unaccounted for, and settles it
\* when Meta may have taken it.
LEMMA AccountedRunner ==
  ASSUME RowInv, Accounted, NEW r \in Engines, RunnerStep(r)
  PROVE  Accounted'
  <1>t. /\ TypeInv /\ RunnerShape /\ OneLiveRunner /\ HeldInv
        /\ message \in [Messages -> Row]
        /\ runner \in [Engines -> RunnerState]
        /\ accepted \in [Messages -> Nat]
        /\ budget \in [requests : 0..MaxRequests, crashes : 0..MaxCrashes, faults : 0..MaxFaults]
    BY DEF RowInv, ExclusiveInv, OneOwner, MemoryInv, TypeInv, TypeOK
  <1>1. Lost \in Nat /\ Lost' = Lost  BY <1>t, RunnerKeepsRest, BoundsAssumption DEF Lost
  <1>2. /\ Live(r)
        /\ \A q \in Engines : q # r => runner'[q] = runner[q] /\ ~Live(q)
    BY <1>t, RunnerMoves DEF OneLiveRunner
  <1>3. /\ \A m : InFlight(m) <=> Settling(r) /\ runner[r].msg = m
        /\ \A m : InFlight(m)' <=> Settling(r)' /\ runner'[r].msg = m
    BY <1>2 DEF Live, Settling, InFlight
  <1>. PICK w : w = runner[r].msg  OBVIOUS
  <1>4. HoldsRow(r) => w \in Messages /\ message[w].status = "PENDING"
    BY <1>t DEF RunnerShape, HeldInv
  <1>5. CASE /\ UNCHANGED <<message, accepted>>
             /\ Settling(r) => Settling(r)' /\ runner'[r].msg = runner[r].msg
    BY <1>t, <1>1, <1>3, <1>5, AccountedKept
  <1>6. CASE Fetch(r)
    <2>1. UNCHANGED <<message, accepted>> /\ ~Settling(r)
      BY <1>t, <1>6, FetchesRow DEF Fetch, Settling
    <2>. QED  BY <1>5, <2>1
  <1>7. CASE MetaAccepts(r)
    <2>1. /\ HoldsRow(r) /\ ~Settling(r)
          /\ UNCHANGED message
          /\ accepted' = [accepted EXCEPT ![w] = accepted[w] + 1]
          /\ Settling(r)' /\ runner'[r].msg = w
      BY <1>t, <1>7 DEF MetaAccepts, Goto, HoldsRow, Settling, RunnerState
    <2>2. /\ w \in Messages /\ message[w].status = "PENDING"
          /\ ~InFlight(w) /\ InFlight(w)'
      BY <1>3, <1>4, <2>1
    <2>3. accepted[w] <= Lost  BY <2>2 DEF Accounted
    <2>4. accepted'[w] <= 1 + Lost'  BY <1>t, <1>1, <2>1, <2>2, <2>3
    <2>5. \A m \in Messages : m # w => accepted'[m] = accepted[m]  BY <1>t, <2>1
    <2>6. \A m \in Messages : m # w => (InFlight(m) => InFlight(m)')  BY <1>3, <2>1
    <2>. SUFFICES ASSUME NEW m \in Messages
                  PROVE  /\ accepted'[m] <= 1 + Lost'
                         /\ message'[m].status = "ABSENT" => accepted'[m] = 0
                         /\ message'[m].status = "PENDING" /\ ~InFlight(m)' => accepted'[m] <= Lost'
      BY DEF Accounted
    <2>7. CASE m = w  BY <2>1, <2>2, <2>4, <2>7
    <2>8. CASE m # w
      <3>1. /\ accepted[m] <= 1 + Lost
            /\ message[m].status = "ABSENT" => accepted[m] = 0
            /\ message[m].status = "PENDING" /\ ~InFlight(m) => accepted[m] <= Lost
        BY DEF Accounted
      <3>. QED  BY <1>1, <2>1, <2>5, <2>6, <2>8, <3>1
    <2>. QED  BY <2>7, <2>8
  <1>8. CASE SettleUnsent(r) \/ Record(r)
    <2>1. /\ w \in Messages /\ message[w].status = "PENDING"
          /\ UNCHANGED accepted
          /\ \A m \in Messages : m # w => message'[m] = message[m]
          /\ message'[w].status \in {"PENDING", "SENT", "FAILED"}
          /\ message'[w].status = "PENDING" => ~Settling(r)
      BY <1>t, <1>4, <1>8, SettlesRow
    <2>. SUFFICES ASSUME NEW m \in Messages
                  PROVE  /\ accepted'[m] <= 1 + Lost'
                         /\ message'[m].status = "ABSENT" => accepted'[m] = 0
                         /\ message'[m].status = "PENDING" /\ ~InFlight(m)' => accepted'[m] <= Lost'
      BY DEF Accounted
    <2>2. /\ accepted[m] <= 1 + Lost
          /\ message[m].status = "ABSENT" => accepted[m] = 0
          /\ message[m].status = "PENDING" /\ ~InFlight(m) => accepted[m] <= Lost
      BY DEF Accounted
    <2>3. CASE m = w
      <3>1. message'[m].status = "PENDING" => ~InFlight(m)  BY <1>3, <2>1, <2>3
      <3>. QED  BY <1>1, <2>1, <2>2, <2>3, <3>1
    <2>4. CASE m # w
      <3>1. ~InFlight(m)  BY <1>3, <2>4
      <3>. QED  BY <1>1, <2>1, <2>2, <2>4, <3>1
    <2>. QED  BY <2>3, <2>4
  <1>. QED  BY <1>t, <1>5, <1>6, <1>7, <1>8, RunnerEffects

\* Rows appear before anything is sent, and no request touches a row in flight.
LEMMA AccountedRequest ==
  ASSUME RowInv, Accounted, "retry" \notin Operations, NEW h \in Requests, RequestStep(h)
  PROVE  Accounted'
  <1>t. /\ MemoryInv /\ TypeInv /\ CreateOrder /\ Fits(request[h]) /\ Owned /\ WakeValid
        /\ engine \in [Engines -> EngineState]
        /\ runner \in [Engines -> RunnerState]
        /\ accepted \in [Messages -> Nat]
        /\ budget \in [requests : 0..MaxRequests, crashes : 0..MaxCrashes, faults : 0..MaxFaults]
    BY DEF RowInv, OrderInv, MemoryInv, TypeInv, TypeOK, RequestShape
  <1>1. UNCHANGED <<accepted, budget>>  BY <1>t, RequestKinds
  <1>2. Lost' = Lost /\ Lost' \in Nat  BY <1>t, <1>1, BoundsAssumption DEF Lost
  <1>3. CASE UNCHANGED message
    <2>1. ASSUME NEW r \in Engines, Settling(r) PROVE runner'[r] = runner[r]
      <3>1. CASE Flag(h)
        <4>. PICK s : s = engine[registered].wake  OBVIOUS
        <4>1. UNCHANGED runner \/ (registered # None /\ s # None /\ runner' = [runner EXCEPT ![s].pc = "top"])
          BY <3>1 DEF Flag
        <4>2. registered # None /\ s # None => s \in Engines /\ runner[s].pc = "sleep"
          BY <1>t DEF WakeValid, EngineState, TypeInv, TypeOK
        <4>. QED  BY <1>t, <2>1, <4>1, <4>2 DEF Settling
      <3>2. CASE Launch(h)  BY <1>t, <2>1, <3>2, LaunchMemory DEF Live, Settling
      <3>3. CASE Claim(h)  BY <3>3 DEF Claim
      <3>. QED  BY <1>t, <3>1, <3>2, <3>3, RequestMoves
    <2>2. \A m : InFlight(m) => InFlight(m)'  BY <2>1 DEF InFlight, Settling
    <2>. QED  BY <1>t, <1>1, <1>2, <1>3, <2>2, AccountedKept
  <1>4. CASE InsertMessages(h)
    <2>1. \A m \in Messages : message[m].status = "ABSENT"
      BY <1>t, <1>4 DEF InsertMessages, CreateOrder
    <2>2. \A m \in Messages : accepted'[m] = 0  BY <1>1, <2>1 DEF Accounted
    <2>3. 0 <= Lost' /\ 0 <= 1 + Lost'  BY <1>2
    <2>4. \A m \in Messages : message'[m].status = "PENDING"  BY <1>4 DEF InsertMessages
    <2>. QED  BY <2>2, <2>3, <2>4 DEF Accounted
  <1>5. ~Requeue(h)  BY <1>t, NoneAssumption DEF Requeue, Fits
  <1>. QED  BY <1>t, <1>3, <1>4, <1>5, RequestMessages

\* A crash or an error that loses an outcome is spent from a bound.
LEMMA AccountedProcess ==
  ASSUME MemoryInv, TypeInv', Accounted,
         \/ \E r \in Engines : RunnerFault(r)
         \/ \E h \in Requests : RequestFault(h) \/ (\E op \in Operations : Arrive(h, op))
         \/ Crash \/ Boot \/ BootFault
         \/ UNCHANGED vars
  PROVE  Accounted'
  <1>t. /\ accepted \in [Messages -> Nat]
        /\ budget \in [requests : 0..MaxRequests, crashes : 0..MaxCrashes, faults : 0..MaxFaults]
        /\ budget' \in [requests : 0..MaxRequests, crashes : 0..MaxCrashes, faults : 0..MaxFaults]
    BY DEF MemoryInv, TypeInv, TypeOK
  <1>0. Lost \in Nat /\ Lost' \in Nat  BY <1>t, BoundsAssumption DEF Lost
  <1>1. UNCHANGED <<message, accepted>>
    BY DEF RunnerFault, RequestFault, Arrive, Crash, Boot, BootFault, vars
  <1>2. CASE Lost' >= Lost + 1  BY <1>t, <1>0, <1>1, <1>2, AccountedKept
  <1>3. CASE Lost' = Lost /\ \A m : InFlight(m) => InFlight(m)'
    BY <1>t, <1>0, <1>1, <1>3, AccountedKept
  <1>4. CASE \/ \E r \in Engines : RunnerFault(r)
             \/ \E h \in Requests : RequestFault(h)
             \/ BootFault
    <2>1. budget' = [budget EXCEPT !.faults = @ + 1]
      BY <1>4 DEF RunnerFault, RequestFault, BootFault
    <2>. QED  BY <1>t, <1>2, <2>1, BoundsAssumption DEF Lost
  <1>5. CASE Crash
    <2>1. budget' = [budget EXCEPT !.crashes = @ + 1]  BY <1>5 DEF Crash
    <2>. QED  BY <1>t, <1>2, <2>1, BoundsAssumption DEF Lost
  <1>6. CASE (\E h \in Requests, op \in Operations : Arrive(h, op)) \/ UNCHANGED vars
    <2>1. UNCHANGED runner /\ budget'.crashes = budget.crashes /\ budget'.faults = budget.faults
      BY <1>t, <1>6 DEF Arrive, vars
    <2>. QED  BY <1>3, <2>1 DEF Lost, InFlight, Settling
  <1>7. CASE Boot
    <2>1. UNCHANGED budget /\ \A m : ~InFlight(m)
      BY <1>7, BootMemory DEF InFlight, Settling, Live
    <2>. QED  BY <1>3, <2>1 DEF Lost
  <1>. QED  BY <1>4, <1>5, <1>6, <1>7

\* Start, stop and recovery, with crashes and database errors at any time,
\* deliver no message twice except for the attempts whose outcome one of
\* those crashes or errors kept from being recorded.
THEOREM DeliveredOncePerLife ==
  ASSUME "pause" \notin Operations, "retry" \notin Operations
  PROVE  Spec => []AcceptedAtMostOncePerLife
  <1>1. Init => RowInv /\ Accounted
    <2>1. ASSUME Init PROVE Accounted
      <3>1. (\A m \in Messages : accepted[m] = 0) /\ Lost = 0  BY <2>1 DEF Init, Lost
      <3>. QED  BY <3>1 DEF Accounted
    <2>. QED  BY <2>1, RowInit
  <1>2. RowInv /\ Accounted /\ [Next]_vars => (RowInv /\ Accounted)'
    <2>. SUFFICES ASSUME RowInv, Accounted, [Next]_vars PROVE (RowInv /\ Accounted)'  OBVIOUS
    <2>1. RowInv'  BY RowStep
    <2>2. MemoryInv /\ TypeInv'  BY <2>1 DEF RowInv, OrderInv, MemoryInv
    <2>3. Accounted'
      BY <2>2, AccountedRunner, AccountedRequest, AccountedProcess DEF Next
    <2>. QED  BY <2>1, <2>3
  <1>3. RowInv /\ Accounted => AcceptedAtMostOncePerLife
    <2>. SUFFICES ASSUME RowInv, Accounted PROVE AcceptedAtMostOncePerLife  OBVIOUS
    <2>1. \A m \in Messages : accepted[m] <= 1 + Lost  BY DEF Accounted
    <2>2. /\ accepted \in [Messages -> Nat]
          /\ budget \in [requests : 0..MaxRequests, crashes : 0..MaxCrashes, faults : 0..MaxFaults]
      BY DEF RowInv, OrderInv, MemoryInv, TypeInv, TypeOK
    <2>. QED  BY <2>1, <2>2, BoundsAssumption DEF Lost, AcceptedAtMostOncePerLife
  <1>. QED  BY <1>1, <1>2, <1>3, PTL DEF Spec

-----------------------------------------------------------------------------
(* What was sent stays sent, as long as nobody pauses and the requests     *)
(* come one at a time.                                                     *)

\* The rows a retry has still to put back are FAILED.
RetriesFailed == \A h \in Requests : request[h].rows \subseteq RowsIn("FAILED")

\* Nobody but the retry itself moves them: the runner holds PENDING rows.
LEMMA RetriesStep ==
  ASSUME OneRequest, RowInv, RetriesFailed, [Next]_vars
  PROVE  RetriesFailed'
  <1>t. TypeInv /\ CreateOrder /\ HeldInv /\ RunnerShape
    BY DEF RowInv, OrderInv, MemoryInv, TypeInv
  <1>. SUFFICES ASSUME NEW h \in Requests, NEW m \in request'[h].rows
                PROVE  m \in Messages /\ message'[m].status = "FAILED"
    BY DEF RetriesFailed, RowsIn
  <1>1. m \in Messages /\ message[m].status = "FAILED"
    BY <1>t, RequestRows DEF RetriesFailed, RowsIn
  <1>2. ASSUME NEW r \in Engines, SettleUnsent(r) \/ Record(r) PROVE message'[m] = message[m]
    BY <1>t, <1>1, <1>2, SettlesRow DEF HeldInv
  <1>3. ASSUME NEW g \in Requests, InsertMessages(g) PROVE FALSE
    BY <1>t, <1>1, <1>3 DEF InsertMessages, CreateOrder
  <1>4. ASSUME NEW g \in Requests, Requeue(g) PROVE message'[m] = message[m]
    <2>1. g = h  BY DEF OneRequest
    <2>. QED  BY <1>t, <1>1, <1>4, <2>1, RequeuesRow
  <1>. QED  BY <1>t, <1>1, <1>2, <1>3, <1>4, MessageMoves

\* One operator who starts, stops and retries, with crashes and database errors
\* at any time, never has a message put back in the queue once it is recorded as
\* sent: the rows a retry has read cannot be sent before it has put them back.
THEOREM SentStaysSent ==
  ASSUME OneRequest, "pause" \notin Operations
  PROVE  Spec => SentIsFinal
  <1>1. Init => RowInv /\ RetriesFailed
    <2>1. ASSUME Init PROVE RetriesFailed  BY <2>1 DEF Init, IdleRequest, RetriesFailed
    <2>. QED  BY <2>1, RowInit
  <1>2. RowInv /\ RetriesFailed /\ [Next]_vars => (RowInv /\ RetriesFailed)'
    BY RowStep, RetriesStep
  <1>3. RowInv /\ RetriesFailed /\ [Next]_vars =>
          [\A m \in Messages : message[m].status = "SENT" => message'[m].status = "SENT"]_vars
    <2>. SUFFICES ASSUME RowInv, RetriesFailed, [Next]_vars,
                         NEW m \in Messages, message[m].status = "SENT"
                  PROVE  message'[m].status = "SENT"
      OBVIOUS
    <2>t. TypeInv /\ CreateOrder /\ HeldInv  BY DEF RowInv, OrderInv, MemoryInv
    <2>1. ASSUME NEW r \in Engines, SettleUnsent(r) \/ Record(r) PROVE message'[m] = message[m]
      BY <2>t, <2>1, SettlesRow DEF HeldInv
    <2>2. ASSUME NEW h \in Requests, InsertMessages(h) PROVE FALSE
      BY <2>t, <2>2 DEF InsertMessages, CreateOrder
    <2>3. ASSUME NEW h \in Requests, Requeue(h) PROVE message'[m] = message[m]
      BY <2>t, <2>3, RequeuesRow DEF RetriesFailed, RowsIn
    <2>. QED  BY <2>t, <2>1, <2>2, <2>3, MessageMoves
  <1>. QED  BY <1>1, <1>2, <1>3, PTL DEF Spec, SentIsFinal

-----------------------------------------------------------------------------
(* Completion, as long as nobody pauses or retries and the requests come   *)
(* one at a time.                                                          *)

\* A runner that has seen the queue empty and is about to complete the campaign.
Draining(r) == runner[r].pc \in {"drained", "completeFind", "completeCount", "completeWrite"}

\* What a runner does to the campaign row, and where it comes from when it does.
LEMMA RunnerCampaign ==
  ASSUME TypeInv, NEW r \in Engines, RunnerStep(r)
  PROVE  /\ Draining(r)' => Draining(r) \/ RowsIn("PENDING") = {}
         /\ runner'[r].pc = "completeWrite" => runner'[r].counts = RowCounts /\ UNCHANGED message
         /\ runner[r].pc = "finally" => ~Live(r)'
         /\ \/ UNCHANGED campaign
            \/ runner[r].pc = "syncWrite" /\ campaign'.status = campaign.status
            \/ /\ runner[r].pc = "completeWrite" /\ runner'[r].pc = "finally"
               /\ campaign' = [status |-> "COMPLETED", counts |-> runner[r].counts]
            \/ /\ runner[r].pc = "failWrite" /\ runner'[r].pc = "finally"
               /\ campaign'.status = "FAILED"
  <1>t. /\ runner \in [Engines -> RunnerState]
        /\ campaign \in [status : CampaignStatus \cup {None}, counts : Counts]
    BY DEF TypeInv, TypeOK
  <1>. USE <1>t DEF Goto, OnlyRunnerChanges, Draining, Live, RunnerState
  <1>1. CASE Load(r)  BY <1>1 DEF Load
  <1>2. CASE Top(r)  BY <1>2 DEF Top, HaltCheck
  <1>3. CASE Fetch(r)
    <2>1. CASE RowsIn("PENDING") = {}  BY <1>3, <2>1 DEF Fetch
    <2>2. CASE RowsIn("PENDING") # {}
      <3>. DEFINE m == Oldest(RowsIn("PENDING"))
                  new == [runner[r] EXCEPT !.pc = "picked", !.msg = m, !.attempts = message[m].attempts]
      <3>1. new.pc = "picked"  OBVIOUS
      <3>2. runner' = [runner EXCEPT ![r] = new]  BY <1>3, <2>2 DEF Fetch
      <3>. HIDE DEF new
      <3>. QED  BY <1>3, <3>1, <3>2 DEF Fetch
    <2>. QED  BY <2>1, <2>2
  <1>4. CASE Picked(r)  BY <1>4 DEF Picked, HaltCheck
  <1>5. CASE Prepare(r)  BY <1>5 DEF Prepare
  <1>6. CASE SettleUnsent(r)  BY <1>6 DEF SettleUnsent
  <1>7. CASE MetaAccepts(r)  BY <1>7 DEF MetaAccepts
  <1>8. CASE MetaAnswers(r)  BY <1>8 DEF MetaAnswers
  <1>9. CASE MetaRefuses(r)  BY <1>9 DEF MetaRefuses
  <1>10. CASE Record(r)
    <2>. DEFINE new == [runner[r] EXCEPT !.pc = "syncRead", !.attempted = TRUE, !.result = None]
    <2>1. new.pc = "syncRead"  OBVIOUS
    <2>2. runner' = [runner EXCEPT ![r] = new] /\ UNCHANGED campaign /\ runner[r].pc = "record"
      BY <1>10 DEF Record
    <2>. HIDE DEF new
    <2>. QED  BY <2>1, <2>2
  <1>11. CASE SyncRead(r)  BY <1>11 DEF SyncRead
  <1>12. CASE SyncWrite(r)  BY <1>12 DEF SyncWrite
  <1>13. CASE Synced(r)  BY <1>13 DEF Synced, HaltCheck
  <1>14. CASE LookAhead(r)  BY <1>14 DEF LookAhead
  <1>15. CASE Park(r)  BY <1>15 DEF Park
  <1>16. CASE Timer(r)  BY <1>16 DEF Timer
  <1>17. CASE Drained(r)  BY <1>17 DEF Drained, HaltCheck
  <1>18. CASE CompleteFind(r)  BY <1>18 DEF CompleteFind
  <1>19. CASE CompleteCount(r)
    <2>. PICK counts : counts = RowCounts  OBVIOUS
    <2>1. /\ runner' = [runner EXCEPT ![r] = [@ EXCEPT !.pc = "completeWrite", !.counts = counts]]
          /\ UNCHANGED <<campaign, message>> /\ runner[r].pc = "completeCount"
      BY <1>19 DEF CompleteCount
    <2>. QED  BY <2>1
  <1>20. CASE CompleteWrite(r)  BY <1>20 DEF CompleteWrite
  <1>21. CASE FailFind(r)  BY <1>21 DEF FailFind
  <1>22. CASE FailCount(r)  BY <1>22 DEF FailCount
  <1>23. CASE FailWrite(r)  BY <1>23 DEF FailWrite
  <1>24. CASE Finally(r)  BY <1>24 DEF Finally, IdleRunner
  <1>. QED
    BY <1>1, <1>2, <1>3, <1>4, <1>5, <1>6, <1>7, <1>8, <1>9, <1>10, <1>11, <1>12, <1>13,
       <1>14, <1>15, <1>16, <1>17, <1>18, <1>19, <1>20, <1>21, <1>22, <1>23, <1>24
    DEF RunnerStep

\* What a request does to the campaign row.
LEMMA RequestCampaign ==
  ASSUME TypeInv, NEW h \in Requests, RequestStep(h)
  PROVE  \/ UNCHANGED campaign
         \/ InsertCampaign(h)
         \/ WriteStatus(h) /\ campaign'.status \in {"RUNNING", "PAUSED", "STOPPED", "QUEUED"}
         \/ RequestSyncWrite(h) /\ campaign'.status = campaign.status
  <1>t. Fits(request[h]) /\ campaign \in [status : CampaignStatus \cup {None}, counts : Counts]
    BY DEF TypeInv, TypeOK, RequestShape
  <1>1. CASE WriteStatus(h)
    BY <1>t, <1>1 DEF WriteStatus, Fits, TargetStatus
  <1>2. CASE RequestSyncWrite(h)  BY <1>t, <1>2 DEF RequestSyncWrite
  <1>. QED
    BY <1>1, <1>2
    DEF RequestStep, InsertMessages, Read, Claim, Flag, Launch, ReadFailed, Requeue,
        RequestSyncRead, OnlyRequestChanges

\* While the rows of a new campaign are inserted, it is a draft without a runner.
InsertAlone ==
  \A h \in Requests : request[h].pc = "insertMessages" =>
    campaign.status = "DRAFT" /\ \A r \in Engines : ~Live(r)

\* There is no other request that could start one meanwhile.
LEMMA InsertAloneStep ==
  ASSUME OneRequest, OrderInv, OrderInv', InsertAlone, [Next]_vars
  PROVE  InsertAlone'
  <1>t. /\ MemoryInv /\ TypeInv /\ CreateOrder /\ DownEmpty
        /\ runner \in [Engines -> RunnerState]
        /\ request \in [Requests -> RequestState]
        /\ \A h \in Requests : Fits(request[h])
        /\ \A h \in Requests : Fits(request'[h])
    BY DEF OrderInv, MemoryInv, TypeInv, TypeOK, RequestShape
  <1>. SUFFICES ASSUME NEW h \in Requests, request'[h].pc = "insertMessages"
                PROVE  campaign'.status = "DRAFT" /\ \A r \in Engines : ~Live(r)'
    BY DEF InsertAlone
  <1>h. \A g \in Requests : g = h  BY DEF OneRequest
  <1>0. request[h].pc = "insertMessages" => campaign.status = "DRAFT" /\ \A r \in Engines : ~Live(r)
    BY DEF InsertAlone
  <1>1. ASSUME NEW r \in Engines, RunnerStep(r) \/ RunnerFault(r) PROVE FALSE
    <2>1. UNCHANGED request /\ Live(r)  BY <1>t, <1>1, RunnerMemory
    <2>. QED  BY <1>0, <2>1
  <1>2. ASSUME NEW g \in Requests, RequestStep(g)
        PROVE  campaign'.status = "DRAFT" /\ \A r \in Engines : ~Live(r)'
    <2>1. CASE InsertCampaign(g)
      <3>1. /\ campaign.status = None /\ campaign'.status = "DRAFT"
            /\ UNCHANGED runner
        BY <1>t, <2>1 DEF InsertCampaign, CreateOrder
      <3>. QED  BY <1>t, <3>1 DEF CreateOrder, Live
    <2>2. CASE InsertMessages(g)
      BY <1>t, <1>h, <2>2 DEF InsertMessages, Reply, IdleRequest
    <2>3. ~InsertCampaign(g) /\ ~InsertMessages(g) => request'[g].op # "create"
      BY <1>t, <1>2, RequestKinds
    <2>. QED  BY <1>t, <1>h, <2>1, <2>2, <2>3 DEF Fits
  <1>3. ASSUME NEW g \in Requests, RequestFault(g) \/ (\E op \in Operations : Arrive(g, op))
        PROVE  FALSE
    <2>1. request'[g].pc \in {"idle", "insertCampaign", "read"}
      <3>1. CASE RequestFault(g)  BY <1>t, <3>1 DEF RequestFault, Reply, IdleRequest
      <3>2. ASSUME NEW op \in Operations, Arrive(g, op)
            PROVE  request'[g].pc \in {"insertCampaign", "read"}
        BY <1>t, <3>2 DEF Arrive, RequestState
      <3>. QED  BY <1>3, <3>1, <3>2
    <2>. QED  BY <1>h, <2>1
  <1>4. ASSUME Crash PROVE FALSE  BY <1>4 DEF Crash, IdleRequest
  <1>5. ASSUME Boot \/ BootFault PROVE FALSE  BY <1>t, <1>5 DEF Boot, BootFault, DownEmpty
  <1>6. CASE UNCHANGED vars  BY <1>0, <1>6 DEF vars, Live
  <1>. QED  BY <1>1, <1>2, <1>3, <1>4, <1>5, <1>6 DEF Next

\* The queue of a campaign that is completed, or about to be, is empty.
DrainedInv ==
  campaign.status = "COMPLETED" \/ (\E r \in Engines : Draining(r)) => RowsIn("PENDING") = {}

LEMMA DrainedStep ==
  ASSUME "retry" \notin Operations, RowInv, InsertAlone, DrainedInv, [Next]_vars
  PROVE  DrainedInv'
  <1>t. /\ MemoryInv /\ TypeInv /\ HeldInv /\ RunnerShape
        /\ \A h \in Requests : Fits(request[h])
    BY DEF RowInv, OrderInv, MemoryInv, TypeInv, RequestShape
  <1>1. ASSUME RowsIn("PENDING") = {}, ~\E h \in Requests : InsertMessages(h)
        PROVE  RowsIn("PENDING")' = {}
    <2>1. ASSUME NEW r \in Engines, SettleUnsent(r) \/ Record(r) PROVE FALSE
      <3>1. HoldsRow(r)  BY <1>t, <2>1, SettlesRow
      <3>. QED  BY <1>t, <1>1, <3>1 DEF HeldInv, RunnerShape, RowsIn
    <2>2. ASSUME NEW h \in Requests, Requeue(h) PROVE FALSE
      BY <1>t, <2>2, NoneAssumption DEF Requeue, Fits
    <2>3. UNCHANGED message  BY <1>t, <1>1, <2>1, <2>2, MessageMoves
    <2>. QED  BY <1>1, <2>3 DEF RowsIn
  <1>2. ASSUME NEW h \in Requests, InsertMessages(h)
        PROVE  campaign'.status # "COMPLETED" /\ ~\E r \in Engines : Draining(r)'
    <2>1. campaign.status = "DRAFT" /\ \A r \in Engines : ~Live(r)
      BY <1>2 DEF InsertAlone, InsertMessages
    <2>. QED  BY <1>2, <2>1 DEF InsertMessages, Live, Draining
  <1>3. ASSUME NEW r \in Engines, Draining(r)' PROVE RowsIn("PENDING") = {}
    <2>1. CASE RunnerStep(r)  BY <1>t, <1>3, <2>1, RunnerCampaign DEF DrainedInv
    <2>2. CASE ~RunnerStep(r)
      <3>1. Draining(r)  BY <1>t, <1>3, <2>2, MovedFromOutside DEF Draining
      <3>. QED  BY <3>1 DEF DrainedInv
    <2>. QED  BY <2>1, <2>2
  <1>4. ASSUME campaign'.status = "COMPLETED" PROVE RowsIn("PENDING") = {}
    <2>1. CASE campaign.status = "COMPLETED"  BY <2>1 DEF DrainedInv
    <2>2. ASSUME NEW r \in Engines, RunnerStep(r), campaign.status # "COMPLETED"
          PROVE  Draining(r)
      BY <1>t, <1>4, <2>2, RunnerCampaign DEF Draining
    <2>3. ASSUME NEW h \in Requests, RequestStep(h) PROVE campaign.status = "COMPLETED"
      BY <1>t, <1>4, <2>3, RequestCampaign DEF InsertCampaign
    <2>4. ASSUME \/ \E r \in Engines : RunnerFault(r)
                 \/ \E h \in Requests : RequestFault(h) \/ (\E op \in Operations : Arrive(h, op))
                 \/ Crash \/ Boot \/ BootFault \/ UNCHANGED vars
          PROVE  UNCHANGED campaign
      BY <2>4 DEF RunnerFault, RequestFault, Arrive, Crash, Boot, BootFault, vars
    <2>. QED  BY <1>4, <2>1, <2>2, <2>3, <2>4 DEF Next, DrainedInv
  <1>. QED  BY <1>1, <1>2, <1>3, <1>4 DEF DrainedInv

\* One operator who creates, starts and stops, with crashes, recoveries and database
\* errors at any time: a campaign that is marked COMPLETED has no message left to
\* send, also when the runner completes it after a stop has overtaken its checks.
THEOREM CompletedMeansDrained ==
  ASSUME OneRequest, "pause" \notin Operations, "retry" \notin Operations
  PROVE  Spec => []CompletedIsDrained
  <1>1. Init => RowInv /\ InsertAlone /\ DrainedInv
    <2>1. ASSUME Init PROVE InsertAlone /\ DrainedInv
      BY <2>1, NoneAssumption
      DEF Init, NewDatabase, InheritedDatabase, IdleRunner, IdleRequest, InsertAlone, DrainedInv,
          Draining, CampaignStatus
    <2>. QED  BY <2>1, RowInit
  <1>2. RowInv /\ InsertAlone /\ DrainedInv /\ [Next]_vars =>
          (RowInv /\ InsertAlone /\ DrainedInv)'
    <2>. SUFFICES ASSUME RowInv, InsertAlone, DrainedInv, [Next]_vars
                  PROVE  (RowInv /\ InsertAlone /\ DrainedInv)'
      OBVIOUS
    <2>1. RowInv'  BY RowStep
    <2>. QED  BY <2>1, InsertAloneStep, DrainedStep DEF RowInv
  <1>3. DrainedInv => CompletedIsDrained  BY DEF DrainedInv, CompletedIsDrained
  <1>. QED  BY <1>1, <1>2, <1>3, PTL DEF Spec

-----------------------------------------------------------------------------
(* The status and the counters, as long as campaigns are only created,     *)
(* started and resumed, one request at a time.                             *)

Unattended == OneRequest /\ Operations \subseteq {"create", "start", "resume"}

\* A runner works for a RUNNING campaign; it may have ended it just now.  What
\* a start has read of the status holds until it writes it.
TableInv ==
  /\ \A r \in Engines : Live(r) =>
       /\ campaign.status \in {"RUNNING", "COMPLETED", "FAILED"}
       /\ runner[r].pc # "finally" => campaign.status = "RUNNING"
  /\ \A h \in Requests :
       request[h].pc \in {"claim", "writeStatus"} => campaign.status \in {"DRAFT", "QUEUED", "PAUSED"}
  /\ \A h \in Requests : request[h].pc = "launch" => campaign.status = "RUNNING"

\* Of the requests, start alone gets beyond its reads.
LEMMA OnlyStarts ==
  ASSUME Unattended, TypeInv, NEW h \in Requests
  PROVE  /\ request[h].pc \in
              {"idle", "insertCampaign", "insertMessages", "read", "claim", "writeStatus", "launch"}
         /\ request[h].pc = "writeStatus" => request[h].op = "start"
  BY NoneAssumption DEF Unattended, TypeInv, TypeOK, RequestShape, Fits, RequestState, RequestPc

LEMMA TableRunner ==
  ASSUME RowInv, TableInv, NEW r \in Engines, RunnerStep(r) \/ RunnerFault(r)
  PROVE  TableInv'
  <1>t. /\ MemoryInv /\ TypeInv /\ OneOwner /\ OneLiveRunner
        /\ \A h \in Requests : Fits(request[h])
        /\ runner \in [Engines -> RunnerState]
        /\ campaign \in [status : CampaignStatus \cup {None}, counts : Counts]
    BY DEF RowInv, ExclusiveInv, OneOwner, MemoryInv, TypeInv, TypeOK, RequestShape
  <1>1. /\ UNCHANGED request /\ Live(r)
        /\ \A q \in Engines : q # r => runner'[q] = runner[q] /\ ~Live(q)
    BY <1>t, RunnerMemory DEF OneLiveRunner
  <1>2. \A h \in Requests : request[h].pc \notin {"claim", "writeStatus", "launch"}
    BY <1>t, <1>1 DEF TableInv, OneOwner, Claiming, Fits
  <1>3. ASSUME Live(r)'
        PROVE  /\ campaign'.status \in {"RUNNING", "COMPLETED", "FAILED"}
               /\ runner'[r].pc # "finally" => campaign'.status = "RUNNING"
    <2>0. /\ campaign.status \in {"RUNNING", "COMPLETED", "FAILED"}
          /\ runner[r].pc # "finally" => campaign.status = "RUNNING"
      BY <1>1 DEF TableInv
    <2>1. CASE RunnerStep(r)  BY <1>t, <1>3, <2>0, <2>1, RunnerCampaign
    <2>2. CASE RunnerFault(r)
      <3>1. UNCHANGED campaign /\ runner[r].pc # "finally"
        BY <2>2 DEF RunnerFault, TryPcs, FailPcs
      <3>. QED  BY <2>0, <3>1
    <2>. QED  BY <2>1, <2>2
  <1>. QED  BY <1>1, <1>2, <1>3 DEF TableInv, Live

LEMMA TableRequest ==
  ASSUME Unattended, RowInv, TableInv, NEW h \in Requests, RequestStep(h)
  PROVE  TableInv'
  <1>t. /\ MemoryInv /\ TypeInv /\ OneOwner /\ CreateOrder
        /\ Fits(request[h])
        /\ runner \in [Engines -> RunnerState]
        /\ request \in [Requests -> RequestState]
        /\ campaign \in [status : CampaignStatus \cup {None}, counts : Counts]
    BY DEF RowInv, ExclusiveInv, OrderInv, MemoryInv, TypeInv, TypeOK, RequestShape
  <1>h. \A g \in Requests : g = h  BY DEF Unattended, OneRequest
  <1>0. request[h].pc \notin {"flag", "readFailed", "requeue", "syncRead", "syncWrite"}
    BY <1>t, OnlyStarts
  <1>1. CASE InsertCampaign(h)
    <2>1. /\ \A r \in Engines : ~Live(r)
          /\ UNCHANGED runner
          /\ request'[h].pc = "insertMessages"
      BY <1>t, <1>1 DEF InsertCampaign, CreateOrder, RequestGoto, RequestState
    <2>. QED  BY <1>h, <2>1 DEF TableInv, Live
  <1>2. ASSUME UNCHANGED <<campaign, runner>>,
               request'[h].pc \in {"claim", "writeStatus"} =>
                 campaign.status \in {"DRAFT", "QUEUED", "PAUSED"},
               request'[h].pc # "launch"
        PROVE  TableInv'
    BY <1>h, <1>2 DEF TableInv, Live
  <1>3. CASE InsertMessages(h)
    BY <1>t, <1>2, <1>3 DEF InsertMessages, Reply, IdleRequest
  <1>4. CASE Read(h)
    <2>1. request[h].op \in {"resume", "start"}
      BY <1>t, <1>4, NoneAssumption DEF Read, Fits, Unattended
    <2>2. CASE Reply(h)  BY <1>t, <1>2, <1>4, <2>2 DEF Read, Reply, IdleRequest, OnlyRequestChanges
    <2>3. CASE request' = [request EXCEPT ![h].op = "start"]
      BY <1>t, <1>2, <1>4, <2>3 DEF Read, OnlyRequestChanges, RequestState
    <2>4. CASE RequestGoto(h, "claim") /\ Allowed(campaign.status, "RUNNING")
      BY <1>t, <1>2, <1>4, <2>4
      DEF Read, OnlyRequestChanges, RequestGoto, RequestState, Allowed, Transitions
    <2>. QED  BY <1>4, <2>1, <2>2, <2>3, <2>4 DEF Read, GotoIf
  <1>5. CASE Claim(h)
    <2>1. request'[h].pc \in {"idle", "writeStatus"}
      <3>1. CASE CanClaim  BY <1>t, <1>5, <3>1, ClaimMemory
      <3>2. CASE ~CanClaim  BY <1>t, <1>5, <3>2 DEF Claim, Reply, IdleRequest
      <3>. QED  BY <3>1, <3>2
    <2>. QED  BY <1>2, <1>5, <2>1 DEF Claim, TableInv
  <1>6. CASE WriteStatus(h)
    <2>1. campaign'.status = "RUNNING" /\ UNCHANGED runner /\ request'[h].pc = "launch"
      BY <1>t, <1>6, OnlyStarts DEF WriteStatus, RequestGoto, RequestState, TargetStatus
    <2>. QED  BY <1>h, <2>1 DEF TableInv
  <1>7. CASE Launch(h)
    <2>1. /\ UNCHANGED campaign /\ campaign.status = "RUNNING"
          /\ request'[h].pc = "idle"
      BY <1>t, <1>7 DEF Launch, TableInv, Reply, IdleRequest
    <2>. QED  BY <1>h, <2>1 DEF TableInv
  <1>. QED
    BY <1>0, <1>1, <1>3, <1>4, <1>5, <1>6, <1>7
    DEF RequestStep, Flag, ReadFailed, Requeue, RequestSyncRead, RequestSyncWrite

LEMMA TableProcess ==
  ASSUME RowInv, TableInv,
         \/ \E h \in Requests : RequestFault(h) \/ (\E op \in Operations : Arrive(h, op))
         \/ Crash \/ Boot \/ BootFault
         \/ UNCHANGED vars
  PROVE  TableInv'
  <1>t. /\ MemoryInv /\ TypeInv
        /\ runner \in [Engines -> RunnerState]
        /\ request \in [Requests -> RequestState]
    BY DEF RowInv, OrderInv, MemoryInv, TypeInv, TypeOK
  <1>1. UNCHANGED campaign  BY DEF RequestFault, Arrive, Crash, Boot, BootFault, vars
  <1>2. ASSUME UNCHANGED runner,
               \A h \in Requests :
                 request'[h].pc \in {request[h].pc, "idle", "insertCampaign", "read"}
        PROVE  TableInv'
    BY <1>1, <1>2 DEF TableInv, Live
  <1>3. ASSUME NEW h \in Requests, RequestFault(h) PROVE TableInv'
    BY <1>t, <1>2, <1>3 DEF RequestFault, Reply, IdleRequest
  <1>4. ASSUME NEW h \in Requests, NEW op \in Operations, Arrive(h, op) PROVE TableInv'
    BY <1>t, <1>2, <1>4 DEF Arrive, RequestState
  <1>5. CASE Crash  BY <1>5 DEF Crash, TableInv, Live, IdleRunner, IdleRequest
  <1>6. CASE Boot
    <2>1. CASE campaign.status # "RUNNING"
      <3>1. UNCHANGED <<runner, request>>  BY <1>t, <1>6, <2>1, BootMemory
      <3>. QED  BY <1>2, <3>1
    <2>2. CASE campaign.status = "RUNNING"
      <3>1. \A h \in Requests : request'[h].pc = "idle"  BY <1>t, <1>6, BootMemory
      <3>. QED  BY <1>1, <2>2, <3>1 DEF TableInv
    <2>. QED  BY <2>1, <2>2
  <1>7. CASE BootFault \/ UNCHANGED vars  BY <1>2, <1>7 DEF BootFault, vars
  <1>. QED  BY <1>3, <1>4, <1>5, <1>6, <1>7

\* The stored counters of a campaign that has ended are those of its rows, and
\* so are the ones with which a runner is about to complete it.
CountInv ==
  /\ campaign.status \in {"STOPPED", "COMPLETED"} => campaign.counts = RowCounts
  /\ \A r \in Engines : runner[r].pc = "completeWrite" => runner[r].counts = RowCounts

\* No row moves once the counters are taken: the only runner is past its last row.
LEMMA CountStep ==
  ASSUME Unattended, RowInv, InsertAlone, TableInv, CountInv, [Next]_vars
  PROVE  CountInv'
  <1>t. /\ MemoryInv /\ TypeInv /\ OneLiveRunner
        /\ \A h \in Requests : Fits(request[h])
        /\ campaign \in [status : CampaignStatus \cup {None}, counts : Counts]
    BY DEF RowInv, ExclusiveInv, OneOwner, MemoryInv, TypeInv, TypeOK, RequestShape
  <1>0. UNCHANGED message => RowCounts' = RowCounts  BY DEF RowCounts, RowsIn
  <1>1. ASSUME \/ campaign.status \in {"STOPPED", "COMPLETED"}
               \/ \E r \in Engines : runner[r].pc = "completeWrite"
        PROVE  UNCHANGED message
    <2>1. ASSUME NEW r \in Engines, SettleUnsent(r) \/ Record(r) PROVE FALSE
      <3>1. HoldsRow(r)  BY <1>t, <2>1, SettlesRow
      <3>2. campaign.status = "RUNNING" /\ Live(r)
        BY <3>1 DEF HoldsRow, Live, TableInv
      <3>3. \A q \in Engines : runner[q].pc # "completeWrite"
        BY <1>t, <3>1, <3>2 DEF OneLiveRunner, Live, HoldsRow
      <3>. QED  BY <1>1, <3>2, <3>3
    <2>2. ASSUME NEW h \in Requests, InsertMessages(h) PROVE FALSE
      BY <1>1, <2>2 DEF InsertMessages, InsertAlone, Live
    <2>3. ASSUME NEW h \in Requests, Requeue(h) PROVE FALSE
      BY <1>t, <2>3, OnlyStarts DEF Requeue
    <2>. QED  BY <1>t, <2>1, <2>2, <2>3, MessageMoves
  <1>2. ASSUME NEW r \in Engines, runner'[r].pc = "completeWrite"
        PROVE  runner'[r].counts = RowCounts'
    <2>1. CASE RunnerStep(r)  BY <1>t, <1>0, <1>2, <2>1, RunnerCampaign
    <2>2. CASE ~RunnerStep(r)
      <3>1. runner'[r] = runner[r]  BY <1>t, <1>2, <2>2, MovedFromOutside
      <3>. QED  BY <1>0, <1>1, <1>2, <3>1 DEF CountInv
    <2>. QED  BY <2>1, <2>2
  <1>3. ASSUME campaign'.status \in {"STOPPED", "COMPLETED"}
        PROVE  campaign'.counts = RowCounts'
    <2>1. CASE UNCHANGED campaign  BY <1>0, <1>1, <1>3, <2>1 DEF CountInv
    <2>2. ASSUME NEW r \in Engines, RunnerStep(r), ~UNCHANGED campaign
          PROVE  campaign'.counts = RowCounts'
      <3>1. runner[r].pc = "syncWrite" => campaign.status = "RUNNING"
        BY DEF TableInv, Live
      <3>2. runner[r].pc = "completeWrite" /\ campaign'.counts = runner[r].counts
        BY <1>t, <1>3, <2>2, <3>1, RunnerCampaign
      <3>. QED  BY <1>0, <1>1, <3>2 DEF CountInv
    <2>3. ASSUME NEW h \in Requests, RequestStep(h) PROVE UNCHANGED campaign
      <3>1. ~InsertCampaign(h)  BY <1>3 DEF InsertCampaign
      <3>2. ~WriteStatus(h)
        BY <1>t, <1>3, OnlyStarts DEF WriteStatus, TargetStatus
      <3>3. ~RequestSyncWrite(h)  BY <1>t, OnlyStarts DEF RequestSyncWrite
      <3>. QED  BY <1>t, <2>3, <3>1, <3>2, <3>3, RequestCampaign
    <2>4. ASSUME \/ \E r \in Engines : RunnerFault(r)
                 \/ \E h \in Requests : RequestFault(h) \/ (\E op \in Operations : Arrive(h, op))
                 \/ Crash \/ Boot \/ BootFault \/ UNCHANGED vars
          PROVE  UNCHANGED campaign
      BY <2>4 DEF RunnerFault, RequestFault, Arrive, Crash, Boot, BootFault, vars
    <2>. QED  BY <2>1, <2>2, <2>3, <2>4 DEF Next
  <1>. QED  BY <1>2, <1>3 DEF CountInv

UnattendedInv == RowInv /\ InsertAlone /\ TableInv /\ CountInv

LEMMA UnattendedInit == Init => UnattendedInv
  <1>. SUFFICES ASSUME Init PROVE UnattendedInv  OBVIOUS
  <1>1. /\ \A r \in Engines : runner[r].pc = "off"
        /\ \A h \in Requests : request[h].pc = "idle"
    BY DEF Init, IdleRunner, IdleRequest
  <1>2. campaign.status \in {"STOPPED", "COMPLETED"} => campaign.counts = RowCounts
    BY NoneAssumption DEF Init, NewDatabase, InheritedDatabase, CampaignStatus
  <1>. QED  BY <1>1, <1>2, RowInit DEF UnattendedInv, InsertAlone, TableInv, CountInv, Live

LEMMA UnattendedStep ==
  ASSUME Unattended, UnattendedInv, [Next]_vars
  PROVE  UnattendedInv'
  <1>1. OneRequest /\ "pause" \notin Operations  BY DEF Unattended
  <1>2. RowInv'  BY <1>1, RowStep DEF UnattendedInv
  <1>3. InsertAlone'  BY <1>1, <1>2, InsertAloneStep DEF UnattendedInv, RowInv
  <1>4. TableInv'
    BY TableRunner, TableRequest, TableProcess DEF UnattendedInv, Next
  <1>. QED  BY <1>2, <1>3, <1>4, CountStep DEF UnattendedInv

\* A campaign that is started, crashes, is recovered, fails and is started again,
\* any number of times, is left with counters that agree with its message rows
\* once it is completed.
THEOREM CountersAddUp ==
  ASSUME Unattended
  PROVE  Spec => []CountersAgree
  <1>1. UnattendedInv => CountersAgree  BY DEF UnattendedInv, CountInv, CountersAgree
  <1>. QED  BY <1>1, UnattendedInit, UnattendedStep, PTL DEF Spec

\* And its status moves along the table of transitions only, although neither the
\* runner nor the launch looks at the status again when it writes it.
THEOREM StatusMovesAlongTable ==
  ASSUME Unattended
  PROVE  Spec => StatusFollowsTable
  <1>1. ASSUME UnattendedInv, [Next]_vars
        PROVE  [\/ campaign.status \in {None, campaign'.status}
                \/ Allowed(campaign.status, campaign'.status)]_vars
    <2>t. TypeInv /\ CreateOrder /\ TableInv
      BY <1>1 DEF UnattendedInv, RowInv, OrderInv, MemoryInv
    <2>1. ASSUME NEW r \in Engines, RunnerStep(r)
          PROVE  campaign'.status = campaign.status \/ Allowed(campaign.status, campaign'.status)
      BY <2>t, <2>1, RunnerCampaign DEF TableInv, Live, Allowed, Transitions
    <2>2. ASSUME NEW h \in Requests, RequestStep(h)
          PROVE  \/ campaign.status \in {None, campaign'.status}
                 \/ Allowed(campaign.status, campaign'.status)
      <3>1. CASE InsertCampaign(h)  BY <2>t, <3>1 DEF InsertCampaign, CreateOrder
      <3>2. CASE WriteStatus(h)
        <4>1. campaign.status \in {"DRAFT", "QUEUED", "PAUSED"} /\ request[h].op = "start"
          BY <2>t, <3>2, OnlyStarts DEF WriteStatus, TableInv
        <4>2. campaign'.status = "RUNNING"
          BY <2>t, <3>2, <4>1 DEF WriteStatus, TargetStatus, TypeInv, TypeOK
        <4>. QED  BY <4>1, <4>2 DEF Allowed, Transitions
      <3>. QED  BY <2>t, <2>2, <3>1, <3>2, RequestCampaign
    <2>3. ASSUME \/ \E r \in Engines : RunnerFault(r)
                 \/ \E h \in Requests : RequestFault(h) \/ (\E op \in Operations : Arrive(h, op))
                 \/ Crash \/ Boot \/ BootFault \/ UNCHANGED vars
          PROVE  UNCHANGED campaign
      BY <2>3 DEF RunnerFault, RequestFault, Arrive, Crash, Boot, BootFault, vars
    <2>. QED  BY <1>1, <2>1, <2>2, <2>3 DEF Next
  <1>. QED  BY <1>1, UnattendedInit, UnattendedStep, PTL DEF Spec, StatusFollowsTable

-----------------------------------------------------------------------------
(* The buttons, as long as the requests come one at a time and no query    *)
(* fails.                                                                  *)

\* A draft has no runner and no failed message, so a retry that has failed
\* messages to put back has not read a draft.
DraftFresh ==
  /\ campaign.status = "DRAFT" => RowsIn("FAILED") = {} /\ \A r \in Engines : ~Live(r)
  /\ \A h \in Requests :
       /\ request[h].pc = "launch" => campaign.status # "DRAFT"
       /\ request[h].pc = "readFailed" /\ request[h].seen = "DRAFT" => campaign.status = "DRAFT"
       /\ request[h].pc \in {"readFailed", "requeue"} => request[h].seen # None
       /\ request[h].pc = "requeue" => request[h].seen # "DRAFT"

\* A campaign is a draft once only.
LEMMA DraftRequest ==
  ASSUME OneRequest, OrderInv, DraftFresh, NEW h \in Requests, RequestStep(h)
  PROVE  DraftFresh'
  <1>t. /\ MemoryInv /\ TypeInv /\ CreateOrder
        /\ Fits(request[h])
        /\ runner \in [Engines -> RunnerState]
        /\ request \in [Requests -> RequestState]
        /\ campaign \in [status : CampaignStatus \cup {None}, counts : Counts]
    BY DEF OrderInv, MemoryInv, TypeInv, TypeOK, RequestShape
  <1>h. \A g \in Requests : g = h  BY DEF OneRequest
  <1>0. ASSUME campaign'.status = "DRAFT" => campaign.status = "DRAFT",
               \A r \in Engines : Live(r)' => Live(r),
               RowsIn("FAILED")' \subseteq RowsIn("FAILED"),
               request'[h].pc \notin {"launch", "readFailed", "requeue"}
        PROVE  DraftFresh'
    BY <1>h, <1>0 DEF DraftFresh
  <1>r. UNCHANGED message => RowsIn("FAILED")' = RowsIn("FAILED")  BY DEF RowsIn
  <1>1. CASE InsertCampaign(h)
    <2>1. /\ \A r \in Engines : ~Live(r)
          /\ \A m \in Messages : message[m].status = "ABSENT"
          /\ UNCHANGED <<runner, message>>
          /\ request'[h].pc = "insertMessages"
      BY <1>t, <1>1 DEF InsertCampaign, CreateOrder, RequestGoto, RequestState
    <2>. QED  BY <1>h, <2>1 DEF DraftFresh, Live, RowsIn
  <1>2. CASE InsertMessages(h)
    <2>1. UNCHANGED <<campaign, runner>> /\ request'[h].pc = "idle"
      BY <1>t, <1>2 DEF InsertMessages, Reply, IdleRequest
    <2>2. RowsIn("FAILED")' = {}  BY <1>2 DEF InsertMessages, RowsIn
    <2>. QED  BY <1>0, <2>1, <2>2 DEF Live
  <1>3. CASE Read(h)
    <2>0. UNCHANGED <<campaign, runner, message>> /\ request[h].pc = "read" /\ request[h].op # None
      BY <1>t, <1>3 DEF Read, OnlyRequestChanges, Fits
    <2>1. request'[h].pc \notin {"launch", "requeue"}
          /\ (request'[h].pc = "readFailed" => request'[h].seen = campaign.status)
      <3>1. CASE Reply(h)  BY <1>t, <3>1 DEF Reply, IdleRequest
      <3>2. CASE \E pc \in {"claim", "flag"} : RequestGoto(h, pc)
        BY <1>t, <3>2 DEF RequestGoto, RequestState
      <3>3. CASE request' = [request EXCEPT ![h].op = "start"]  BY <1>t, <2>0, <3>3 DEF RequestState
      <3>4. CASE request' = [request EXCEPT ![h] = [@ EXCEPT !.pc = "readFailed", !.seen = campaign.status]]
        BY <1>t, <3>4 DEF RequestState
      <3>. QED  BY <1>3, <3>1, <3>2, <3>3, <3>4 DEF Read, GotoIf
    <2>2. campaign.status # None
      <3>1. request[h].op # "create"  BY <1>t, <2>0 DEF Fits
      <3>. QED  BY <1>t, <2>0, <3>1 DEF CreateOrder
    <2>. QED  BY <1>h, <1>r, <2>0, <2>1, <2>2 DEF DraftFresh, Live
  <1>4. CASE Claim(h)
    <2>1. request'[h].pc \in {"idle", "writeStatus"}
      <3>1. CASE CanClaim  BY <1>t, <1>4, <3>1, ClaimMemory
      <3>2. CASE ~CanClaim  BY <1>t, <1>4, <3>2 DEF Claim, Reply, IdleRequest
      <3>. QED  BY <3>1, <3>2
    <2>. QED  BY <1>0, <1>4, <1>r, <2>1 DEF Claim, Live
  <1>5. CASE Flag(h)
    <2>1. request'[h].pc = "writeStatus" /\ \A r \in Engines : Live(r)' <=> Live(r)
      BY <1>t, <1>5, FlagMemory
    <2>. QED  BY <1>0, <1>5, <1>r, <2>1 DEF Flag
  <1>6. CASE WriteStatus(h)
    <2>1. /\ campaign'.status # "DRAFT"
          /\ UNCHANGED <<runner, message>>
          /\ request'[h].pc \in {"launch", "syncRead"}
      BY <1>t, <1>6
      DEF WriteStatus, Fits, TargetStatus, RequestGoto, RequestState
    <2>. QED  BY <1>h, <2>1 DEF DraftFresh
  <1>7. CASE Launch(h)
    <2>1. UNCHANGED campaign /\ campaign.status # "DRAFT" /\ request'[h].pc = "idle"
      BY <1>t, <1>7 DEF Launch, DraftFresh, Reply, IdleRequest
    <2>. QED  BY <1>h, <2>1 DEF DraftFresh
  <1>8. CASE ReadFailed(h)
    <2>1. /\ UNCHANGED <<campaign, runner, message>>
          /\ request[h].pc = "readFailed" /\ request[h].seen # None
          /\ request[h].seen = "DRAFT" => RowsIn("FAILED") = {}
      BY <1>8 DEF ReadFailed, OnlyRequestChanges, DraftFresh
    <2>2. CASE Reply(h)
      BY <1>t, <1>0, <1>r, <2>1, <2>2 DEF Reply, IdleRequest, Live
    <2>3. CASE RowsIn("FAILED") # {} /\ ~Reply(h)
      <3>. PICK rows : rows = RowsIn("FAILED")  OBVIOUS
      <3>1. request' = [request EXCEPT ![h] = [@ EXCEPT !.pc = "requeue", !.rows = rows]]
        BY <1>8, <2>3 DEF ReadFailed
      <3>2. request'[h].pc = "requeue" /\ request'[h].seen = request[h].seen
        BY <1>t, <3>1 DEF RequestState
      <3>. QED  BY <1>h, <1>r, <2>1, <2>3, <3>2 DEF DraftFresh, Live
    <2>. QED  BY <1>8, <2>2, <2>3 DEF ReadFailed
  <1>9. CASE Requeue(h)
    <2>1. UNCHANGED <<campaign, runner>> /\ request[h].pc = "requeue"
      BY <1>t, <1>9, RequeuesRow
    <2>2. RowsIn("FAILED")' \subseteq RowsIn("FAILED")
      BY <1>t, <1>9, RequeuesRow DEF RowsIn
    <2>3. \/ request'[h].pc \in {"idle", "syncRead", "writeStatus"}
          \/ request'[h].pc = "requeue" /\ request'[h].seen = request[h].seen
      <3>1. CASE Reply(h)  BY <1>t, <3>1 DEF Reply, IdleRequest
      <3>2. ASSUME NEW rows, request' = [request EXCEPT ![h].rows = rows]
            PROVE  request'[h].pc = "requeue" /\ request'[h].seen = request[h].seen
        BY <1>t, <2>1, <3>2 DEF RequestState
      <3>3. CASE request' = [request EXCEPT ![h] = [@ EXCEPT !.pc = AfterRequeue(h), !.rows = {}]]
        BY <1>t, <3>3 DEF AfterRequeue, RequestState
      <3>. QED  BY <1>9, <3>1, <3>2, <3>3 DEF Requeue
    <2>. QED  BY <1>h, <2>1, <2>2, <2>3 DEF DraftFresh, Live
  <1>10. CASE RequestSyncRead(h) \/ RequestSyncWrite(h)
    <2>1. campaign'.status = campaign.status /\ UNCHANGED <<runner, message>>
      BY <1>t, <1>10 DEF RequestSyncRead, RequestSyncWrite, OnlyRequestChanges
    <2>2. request'[h].pc \in {"idle", "syncWrite"}
      <3>1. CASE RequestSyncRead(h)
        <4>. PICK counts : counts = RowCounts  OBVIOUS
        <4>1. request' = [request EXCEPT ![h] = [@ EXCEPT !.pc = "syncWrite", !.counts = counts]]
          BY <3>1 DEF RequestSyncRead
        <4>. QED  BY <1>t, <4>1 DEF RequestState
      <3>2. CASE RequestSyncWrite(h)
        BY <1>t, <3>2 DEF RequestSyncWrite, Reply, IdleRequest
      <3>. QED  BY <1>10, <3>1, <3>2
    <2>. QED  BY <1>0, <1>r, <2>1, <2>2 DEF Live
  <1>. QED
    BY <1>1, <1>2, <1>3, <1>4, <1>5, <1>6, <1>7, <1>8, <1>9, <1>10 DEF RequestStep

\* A runner that is alive is not one of a draft, and no other step makes a draft.
LEMMA DraftStep ==
  ASSUME OneRequest, OrderInv, DraftFresh, [Next]_vars
  PROVE  DraftFresh'
  <1>t. /\ MemoryInv /\ TypeInv /\ CreateOrder
        /\ runner \in [Engines -> RunnerState]
        /\ request \in [Requests -> RequestState]
        /\ campaign \in [status : CampaignStatus \cup {None}, counts : Counts]
    BY DEF OrderInv, MemoryInv, TypeInv, TypeOK
  <1>1. ASSUME NEW r \in Engines, RunnerStep(r) \/ RunnerFault(r) PROVE DraftFresh'
    <2>1. UNCHANGED request /\ Live(r)  BY <1>t, <1>1, RunnerMemory
    <2>2. campaign.status # "DRAFT"  BY <2>1 DEF DraftFresh
    <2>3. campaign'.status # "DRAFT"
      BY <1>t, <1>1, <2>2, RunnerCampaign DEF RunnerFault
    <2>. QED  BY <2>1, <2>2, <2>3 DEF DraftFresh
  <1>2. ASSUME UNCHANGED <<campaign, message>>,
               \A r \in Engines : Live(r)' => Live(r) \/ campaign.status # "DRAFT",
               \A h \in Requests :
                 \/ request'[h] = request[h]
                 \/ request'[h].pc \in {"idle", "insertCampaign", "read"}
        PROVE  DraftFresh'
    BY <1>2 DEF DraftFresh, RowsIn
  <1>3. ASSUME NEW h \in Requests, RequestFault(h) PROVE DraftFresh'
    BY <1>t, <1>2, <1>3 DEF RequestFault, Reply, IdleRequest, Live
  <1>4. ASSUME NEW h \in Requests, NEW op \in Operations, Arrive(h, op) PROVE DraftFresh'
    BY <1>t, <1>2, <1>4 DEF Arrive, RequestState, Live
  <1>5. CASE Crash  BY <1>2, <1>5 DEF Crash, Live, IdleRunner, IdleRequest
  <1>6. CASE Boot  BY <1>t, <1>2, <1>6, BootMemory DEF Live
  <1>7. CASE BootFault \/ UNCHANGED vars  BY <1>2, <1>7 DEF BootFault, vars, Live
  <1>. QED  BY <1>1, <1>3, <1>4, <1>5, <1>6, <1>7, DraftRequest DEF Next

\* An operator who works through the buttons of the console, one request at a time,
\* is refused in the two known cases only: whatever the runner, a crash or an earlier
\* pause, stop or retry has made of the campaign, what the console offers for the
\* status that the server reads is admitted, as long as no query fails.
THEOREM OfferedMeansTaken ==
  ASSUME OneRequest, MaxFaults = 0
  PROVE  Spec => OfferedActionIsTaken
  <1>. DEFINE IInv == OrderInv /\ ClaimServed /\ DraftFresh
              Taken(h) ==
                /\ request[h].pc \in {"read", "claim", "requeue"} /\ request'[h].pc = "idle"
                /\ up' /\ budget'.faults = budget.faults
                => \/ /\ request[h].pc = "read"
                      /\ ~CanPerformCampaignAction(campaign.status, request[h].op, Cardinality(RowsIn("FAILED")))
                   \/ /\ request[h].pc = "claim"
                      /\ \E r \in Engines : Live(r) /\ runner[r].engine = registered
                   \/ request[h].pc = "requeue" /\ request[h].seen = "PAUSED"
  <1>1. Init => IInv
    <2>1. ASSUME Init PROVE ClaimServed /\ DraftFresh
      BY <2>1, NoneAssumption
      DEF Init, NewDatabase, InheritedDatabase, IdleRunner, IdleRequest, ClaimServed, DraftFresh,
          CampaignStatus
    <2>. QED  BY <2>1, OrderInit
  <1>2. IInv /\ [Next]_vars => IInv'
    BY OrderStep, ServedStep, DraftStep DEF OrderInv
  <1>3. ASSUME IInv, [Next]_vars, NEW h \in Requests PROVE Taken(h)
    <2>. SUFFICES ASSUME request[h].pc \in {"read", "claim", "requeue"}, request'[h].pc = "idle",
                         up', budget'.faults = budget.faults
                  PROVE  \/ /\ request[h].pc = "read"
                            /\ ~CanPerformCampaignAction(campaign.status, request[h].op, Cardinality(RowsIn("FAILED")))
                         \/ /\ request[h].pc = "claim"
                            /\ \E r \in Engines : Live(r) /\ runner[r].engine = registered
                         \/ request[h].pc = "requeue" /\ request[h].seen = "PAUSED"
      OBVIOUS
    <2>t. /\ MemoryInv /\ TypeInv /\ CreateOrder /\ DownEmpty /\ Owned
          /\ Fits(request[h])
          /\ request \in [Requests -> RequestState]
          /\ campaign \in [status : CampaignStatus \cup {None}, counts : Counts]
          /\ budget \in [requests : 0..MaxRequests, crashes : 0..MaxCrashes, faults : 0..MaxFaults]
      BY <1>3 DEF OrderInv, MemoryInv, TypeInv, TypeOK, RequestShape
    <2>h. \A g \in Requests : g = h  BY DEF OneRequest
    <2>1. RequestStep(h)
      <3>1. ASSUME NEW r \in Engines, RunnerStep(r) \/ RunnerFault(r) PROVE FALSE
        BY <2>t, <3>1, RunnerMemory
      <3>2. ~Crash  BY DEF Crash
      <3>3. ~Boot /\ ~BootFault  BY <2>t DEF Boot, BootFault, DownEmpty
      <3>4. ASSUME NEW g \in Requests, RequestFault(g) PROVE FALSE
        BY <2>t, <3>4, BoundsAssumption DEF RequestFault
      <3>5. ASSUME NEW g \in Requests, NEW op \in Operations, Arrive(g, op) PROVE FALSE
        BY <2>h, <3>5 DEF Arrive
      <3>6. ~UNCHANGED vars  BY DEF vars
      <3>. QED  BY <1>3, <2>h, <3>1, <3>2, <3>3, <3>4, <3>5, <3>6 DEF Next
    <2>2. CASE request[h].pc = "read"
      <3>1. Read(h)
        BY <2>1, <2>2
        DEF RequestStep, InsertCampaign, InsertMessages, Claim, Flag, WriteStatus, Launch,
            ReadFailed, Requeue, RequestSyncRead, RequestSyncWrite
      <3>2. \/ request[h].op = "resume" /\ campaign.status # "PAUSED"
            \/ request[h].op = "start" /\ ~Allowed(campaign.status, "RUNNING")
            \/ request[h].op = "pause" /\ ~Allowed(campaign.status, "PAUSED")
            \/ request[h].op = "stop" /\ ~Allowed(campaign.status, "STOPPED")
        <4>1. ~RequestGoto(h, "claim") /\ ~RequestGoto(h, "flag")
          BY <2>t DEF RequestGoto, RequestState
        <4>2. request' # [request EXCEPT ![h].op = "start"]  BY <2>t, <2>2 DEF RequestState
        <4>3. ASSUME request' = [request EXCEPT ![h] = [@ EXCEPT !.pc = "readFailed", !.seen = campaign.status]]
              PROVE  FALSE
          <5>1. request'[h].pc = "readFailed"  BY <2>t, <4>3 DEF RequestState
          <5>. QED  BY <5>1
        <4>. QED  BY <3>1, <4>1, <4>2, <4>3 DEF Read, GotoIf, TargetStatus
      <3>3. request[h].op \notin GetAvailableCampaignActions(campaign.status, Cardinality(RowsIn("FAILED")))
        BY <2>t, <3>2 DEF GetAvailableCampaignActions, Allowed, Transitions, CampaignStatus
      <3>. QED  BY <2>2, <3>3 DEF CanPerformCampaignAction
    <2>3. CASE request[h].pc = "claim"
      <3>1. Claim(h)
        BY <2>1, <2>3
        DEF RequestStep, InsertCampaign, InsertMessages, Read, Flag, WriteStatus, Launch,
            ReadFailed, Requeue, RequestSyncRead, RequestSyncWrite
      <3>2. ~CanClaim  BY <2>t, <3>1, ClaimMemory
      <3>3. registered # None /\ engine[registered].running /\ budget.faults = 0
        BY <2>t, <3>2 DEF CanClaim
      <3>4. \A g \in Requests : ~Claiming(g)  BY <2>h, <2>3 DEF Claiming
      <3>. QED  BY <1>3, <2>3, <3>3, <3>4 DEF ClaimServed
    <2>4. CASE request[h].pc = "requeue"
      <3>1. Requeue(h)
        BY <2>1, <2>4
        DEF RequestStep, InsertCampaign, InsertMessages, Read, Claim, Flag, WriteStatus, Launch,
            ReadFailed, RequestSyncRead, RequestSyncWrite
      <3>2. AfterRequeue(h) = "writeStatus" /\ ~Allowed(request[h].seen, "QUEUED")
        <4>1. \A rows : request' # [request EXCEPT ![h].rows = rows]
          BY <2>t, <2>4 DEF RequestState
        <4>2. ASSUME request' = [request EXCEPT ![h] = [@ EXCEPT !.pc = AfterRequeue(h), !.rows = {}]]
              PROVE  FALSE
          <5>1. request'[h].pc = AfterRequeue(h)  BY <2>t, <4>2 DEF RequestState
          <5>. QED  BY <5>1 DEF AfterRequeue
        <4>. QED  BY <3>1, <4>1, <4>2 DEF Requeue
      <3>3. request[h].seen \notin {None, "DRAFT"}  BY <1>3, <2>4 DEF DraftFresh
      <3>4. request[h].seen \in CampaignStatus  BY <2>t, <3>3 DEF RequestState
      <3>5. request[h].seen = "PAUSED"
        BY <3>2, <3>3, <3>4 DEF AfterRequeue, Allowed, Transitions, CampaignStatus
      <3>. QED  BY <2>4, <3>5
    <2>. QED  BY <2>2, <2>3, <2>4
  <1>4. IInv /\ [Next]_vars => [\A h \in Requests : Taken(h)]_vars  BY <1>3
  <1>. QED  BY <1>1, <1>2, <1>4, PTL DEF Spec, OfferedActionIsTaken

=============================================================================
