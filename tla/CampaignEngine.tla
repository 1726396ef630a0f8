--------------------------- MODULE CampaignEngine ---------------------------
(***************************************************************************)
(* The campaign engine of src/backend/src/campaigns/campaigns.service.ts,  *)
(* for one campaign: the operator's requests (create, start, pause,        *)
(* resume, stop, retry), the in-process runner that sends the messages,    *)
(* crash and restart, and database errors.                                 *)
(*                                                                         *)
(* The backend is one Node process.  A handler or a runner executes        *)
(* without interruption up to its next await, so an action is either       *)
(*   - one awaited database or gateway operation taking effect, or         *)
(*   - one synchronous stretch that reads or writes the shared memory      *)
(*     (the engines map and its EngineState objects).                      *)
(* pc names the await, or the synchronous stretch, the actor is at.        *)
(* Campaigns share neither rows nor engines, so one campaign is enough.    *)
(***************************************************************************)
EXTENDS Integers, FiniteSets

CONSTANTS
  Messages,      \* message rows of the campaign, numbered in createdAt order
  MaxAttempts,   \* MAX_ATTEMPTS: automatic send attempts per message
  Engines,       \* EngineState objects; a runner is named after the object its launcher claimed
  Requests,      \* request slots: how many API calls may be served at once
  Operations,    \* the API operations the clients use
  MaxRequests,   \* bound: API calls made in a behaviour
  MaxCrashes,    \* bound: crashes of the process in a behaviour
  MaxFaults,     \* bound: database operations that throw in a behaviour
  Inherited,     \* TRUE: the database may already hold a campaign at the first boot
  None           \* null or undefined

AllOperations == {"create", "start", "pause", "resume", "stop", "retry"}
CampaignStatus == {"DRAFT", "QUEUED", "RUNNING", "PAUSED", "STOPPED", "COMPLETED", "FAILED"}

ASSUME MessagesAssumption == Messages \subseteq Nat /\ IsFiniteSet(Messages)
ASSUME MaxAttemptsAssumption == MaxAttempts \in Nat \ {0}
ASSUME OperationsAssumption == Operations \subseteq AllOperations
ASSUME BoundsAssumption == MaxRequests \in Nat /\ MaxCrashes \in Nat /\ MaxFaults \in Nat
ASSUME InheritedAssumption == Inherited \in BOOLEAN
ASSUME NoneAssumption ==
  None \notin Messages /\ None \notin Engines /\ None \notin AllOperations \cup CampaignStatus

VARIABLES
  up,          \* the process has booted and serves requests
  campaign,    \* the Campaign row: status and stored counters
  message,     \* the Message rows: status and attemptCount
  registered,  \* engines.get(id)
  engine,      \* the EngineState objects
  runner,      \* the runLoop activations: await point and local variables
  request,     \* the request slots: await point and local variables
  budget,      \* how much of each bound is spent
  accepted     \* history: how often Meta accepted each message

vars == <<up, campaign, message, registered, engine, runner, request, budget, accepted>>

-----------------------------------------------------------------------------
(* The table of the status changes the engine may make.                    *)
Transitions ==
  { <<"DRAFT", "RUNNING">>, <<"QUEUED", "RUNNING">>,
    <<"RUNNING", "PAUSED">>, <<"RUNNING", "STOPPED">>,
    <<"RUNNING", "COMPLETED">>, <<"RUNNING", "FAILED">>,
    <<"PAUSED", "RUNNING">>, <<"PAUSED", "STOPPED">>,
    <<"STOPPED", "QUEUED">>, <<"COMPLETED", "QUEUED">>, <<"FAILED", "QUEUED">> }

Allowed(from, to) == <<from, to>> \in Transitions

\* The status an operation writes when it is admitted.
TargetStatus ==
  [start |-> "RUNNING", pause |-> "PAUSED", stop |-> "STOPPED", retry |-> "QUEUED"]

-----------------------------------------------------------------------------
(* Message rows.  ABSENT stands for a row not inserted yet.  DELIVERED and *)
(* READ, which only the webhooks write, count as SENT here.                *)

MessageStatus == {"ABSENT", "PENDING", "SENT", "FAILED"}

RowsIn(status) == {m \in Messages : message[m].status = status}

Oldest(rows) == CHOOSE m \in rows : \A n \in rows : m <= n

\* computeCounters: one grouped aggregate over the rows (total is their sum).
RowCounts ==
  [sent    |-> Cardinality(RowsIn("SENT")),
   failed  |-> Cardinality(RowsIn("FAILED")),
   pending |-> Cardinality(RowsIn("PENDING"))]

NoCounts == [sent |-> 0, failed |-> 0, pending |-> 0]

\* Mutant: the ceiling is off by one.
ExhaustedLate(attempts) == attempts > MaxAttempts

\* A row that already spent its budget is retired without a send.
Exhausted(attempts) == attempts >= MaxAttempts

\* Mutant: ambiguous outcomes are retried like a refusal.
SettledByBudget(result, attempts) ==
  IF result = "ok" THEN "SENT" ELSE IF Exhausted(attempts) THEN "FAILED" ELSE "PENDING"

\* Where one send attempt leaves the row.  "permanent" covers the refusals
\* that cannot be retried and the ambiguous outcomes (timeout, lost connection).
SettledStatus(result, attempts) ==
  IF result = "ok" THEN "SENT"
  ELSE IF Exhausted(attempts) \/ result = "permanent" THEN "FAILED"
  ELSE "PENDING"

-----------------------------------------------------------------------------
(* In-process memory.                                                      *)

FreshEngine ==
  [claimed |-> FALSE, paused |-> FALSE, stopped |-> FALSE, running |-> FALSE, wake |-> None]
LiveEngine ==
  [claimed |-> TRUE, paused |-> FALSE, stopped |-> FALSE, running |-> TRUE, wake |-> None]

IdleRunner ==
  [pc |-> "off", engine |-> None, msg |-> None, attempts |-> 0, result |-> None,
   attempted |-> FALSE, counts |-> NoCounts]

IdleRequest ==
  [pc |-> "idle", op |-> None, seen |-> None, claim |-> None, rows |-> {}, counts |-> NoCounts]

\* haltReason: why the loop must stop right now.
Halted(e) == engine[e].stopped \/ engine[e].paused

\* Mutant: the registered runner is not looked at.
ClaimAlways == TRUE

\* Mutant: a stopped runner is replaced as well.
ClaimFromStopped ==
  registered = None \/ ~engine[registered].running \/ engine[registered].stopped

\* claimRunner admits a new runner unless a live, unpaused one is registered.
CanClaim ==
  \/ registered = None
  \/ ~engine[registered].running
  \/ engine[registered].paused

Unclaimed == {e \in Engines : ~engine[e].claimed}
NewEngine == CHOOSE e \in Unclaimed : TRUE

\* What pause() and stop() do to the registered state.
Flagged(e, op) ==
  IF op = "pause" THEN [e EXCEPT !.paused = TRUE, !.wake = None]
  ELSE [e EXCEPT !.stopped = TRUE, !.paused = FALSE, !.wake = None]

-----------------------------------------------------------------------------
(* The runner.  Its await points, in the order of runLoop and deliver.     *)

TryPcs ==      \* awaited inside the try block: an error leads to failCampaign
  {"load", "fetch", "retire", "prepare", "block", "record", "syncRead", "syncWrite",
   "lookahead", "completeFind", "completeCount", "completeWrite"}
FailPcs == {"failFind", "failCount", "failWrite"}    \* awaited inside failCampaign
SyncPcs == {"top", "picked", "drained", "synced", "parking", "finally"}
RunnerPc == TryPcs \cup FailPcs \cup SyncPcs \cup {"off", "send", "accepted", "sleep"}

OnlyRunnerChanges ==
  UNCHANGED <<up, campaign, message, registered, engine, request, budget, accepted>>

Goto(r, pc) == runner' = [runner EXCEPT ![r].pc = pc]

\* A synchronous halt check: to pc when the state is not halted, out otherwise.
HaltCheck(r, out, pc) ==
  Goto(r, IF Halted(runner[r].engine) THEN out ELSE pc)

Load(r) ==
  /\ runner[r].pc = "load"
  /\ Goto(r, "top")
  /\ OnlyRunnerChanges

\* Top of the while loop.
Top(r) ==
  /\ runner[r].pc = "top"
  /\ HaltCheck(r, "finally", "fetch")
  /\ OnlyRunnerChanges

\* nextPendingMessage: the oldest PENDING row, with its attemptCount.
Fetch(r) ==
  /\ runner[r].pc = "fetch"
  /\ IF RowsIn("PENDING") = {}
       THEN Goto(r, "drained")
       ELSE LET m == Oldest(RowsIn("PENDING")) IN
            runner' = [runner EXCEPT ![r] =
              [@ EXCEPT !.pc = "picked", !.msg = m, !.attempts = message[m].attempts]]
  /\ OnlyRunnerChanges

\* Mutant: deliver does not look at the state again.
PickedUnchecked(r) ==
  /\ runner[r].pc = "picked"
  /\ Goto(r, IF Exhausted(runner[r].attempts) THEN "retire" ELSE "prepare")
  /\ OnlyRunnerChanges

\* The retry ceiling, then the halt check deliver starts with: a halted
\* deliver reports that nothing was attempted.
Picked(r) ==
  /\ runner[r].pc = "picked"
  /\ IF Exhausted(runner[r].attempts) THEN Goto(r, "retire")
     ELSE HaltCheck(r, "syncRead", "prepare")
  /\ OnlyRunnerChanges

\* Customer lookup, rendering, and storing the content: the customer or a
\* template variable may be missing.
Prepare(r) ==
  /\ runner[r].pc = "prepare"
  /\ \E pc \in {"send", "block"} : Goto(r, pc)
  /\ OnlyRunnerChanges

\* Mutant: a row settled without a send gets its attempts back.
SettleUnsentReset(r) ==
  /\ runner[r].pc \in {"retire", "block"}
  /\ message' = [message EXCEPT ![runner[r].msg] = [status |-> "FAILED", attempts |-> 0]]
  /\ Goto(r, "syncRead")
  /\ UNCHANGED <<up, campaign, registered, engine, request, budget, accepted>>

\* A row settled without a send keeps its attempt count.
SettleUnsent(r) ==
  /\ runner[r].pc \in {"retire", "block"}
  /\ message' = [message EXCEPT ![runner[r].msg].status = "FAILED"]
  /\ Goto(r, "syncRead")
  /\ UNCHANGED <<up, campaign, registered, engine, request, budget, accepted>>

\* Meta takes the message; the answer is still on its way.
MetaAccepts(r) ==
  /\ runner[r].pc = "send"
  /\ accepted' = [accepted EXCEPT ![runner[r].msg] = @ + 1]
  /\ Goto(r, "accepted")
  /\ UNCHANGED <<up, campaign, message, registered, engine, request, budget>>

\* The answer arrives, or the request times out or breaks first: that is
\* classified as not retryable, because the message may have gone out.
MetaAnswers(r) ==
  /\ runner[r].pc = "accepted"
  /\ \E result \in {"ok", "permanent"} :
       runner' = [runner EXCEPT ![r] = [@ EXCEPT !.pc = "record", !.result = result]]
  /\ OnlyRunnerChanges

\* Meta refuses (429 and 5xx may be retried, other errors may not), or the
\* request is lost before Meta takes it.
MetaRefuses(r) ==
  /\ runner[r].pc = "send"
  /\ \E result \in {"transient", "permanent"} :
       runner' = [runner EXCEPT ![r] = [@ EXCEPT !.pc = "record", !.result = result]]
  /\ OnlyRunnerChanges

\* The outcome of the attempt, written from the row as it was fetched.
Recorded(r) ==
  LET attempts == runner[r].attempts + 1
  IN  [status |-> SettledStatus(runner[r].result, attempts), attempts |-> attempts]

Record(r) ==
  /\ runner[r].pc = "record"
  /\ message' = [message EXCEPT ![runner[r].msg] = Recorded(r)]
  /\ runner' = [runner EXCEPT ![r] =
       [@ EXCEPT !.pc = "syncRead", !.attempted = TRUE, !.result = None]]
  /\ UNCHANGED <<up, campaign, registered, engine, request, budget, accepted>>

\* syncCounters: aggregate, then write.  The runner then forgets the message.
SyncRead(r) ==
  /\ runner[r].pc = "syncRead"
  /\ runner' = [runner EXCEPT ![r] =
       [@ EXCEPT !.pc = "syncWrite", !.counts = RowCounts, !.msg = None, !.attempts = 0]]
  /\ OnlyRunnerChanges

SyncWrite(r) ==
  /\ runner[r].pc = "syncWrite"
  /\ campaign' = [campaign EXCEPT !.counts = runner[r].counts]
  /\ runner' = [runner EXCEPT ![r] =
       [@ EXCEPT !.pc = IF runner[r].attempted THEN "synced" ELSE "top",
                 !.attempted = FALSE, !.counts = NoCounts]]
  /\ UNCHANGED <<up, message, registered, engine, request, budget, accepted>>

Synced(r) ==
  /\ runner[r].pc = "synced"
  /\ HaltCheck(r, "finally", "lookahead")
  /\ OnlyRunnerChanges

LookAhead(r) ==
  /\ runner[r].pc = "lookahead"
  /\ Goto(r, IF RowsIn("PENDING") = {} THEN "drained" ELSE "parking")
  /\ OnlyRunnerChanges

\* sleepInterruptible: register the wake callback and wait for the timer.
Park(r) ==
  /\ runner[r].pc = "parking"
  /\ engine' = [engine EXCEPT ![runner[r].engine].wake = r]
  /\ Goto(r, "sleep")
  /\ UNCHANGED <<up, campaign, message, registered, request, budget, accepted>>

Timer(r) ==
  /\ runner[r].pc = "sleep"
  /\ engine' = [engine EXCEPT ![runner[r].engine].wake = None]
  /\ Goto(r, "top")
  /\ UNCHANGED <<up, campaign, message, registered, request, budget, accepted>>

\* complete: halt check, read the row, aggregate, write COMPLETED.
Drained(r) ==
  /\ runner[r].pc = "drained"
  /\ HaltCheck(r, "finally", "completeFind")
  /\ OnlyRunnerChanges

CompleteFind(r) ==
  /\ runner[r].pc = "completeFind"
  /\ Goto(r, IF campaign.status = "RUNNING" THEN "completeCount" ELSE "finally")
  /\ OnlyRunnerChanges

CompleteCount(r) ==
  /\ runner[r].pc = "completeCount"
  /\ runner' = [runner EXCEPT ![r] = [@ EXCEPT !.pc = "completeWrite", !.counts = RowCounts]]
  /\ OnlyRunnerChanges

\* Mutant: only the status is written.
CompleteStatusOnly(r) ==
  /\ runner[r].pc = "completeWrite"
  /\ campaign' = [campaign EXCEPT !.status = "COMPLETED"]
  /\ Goto(r, "finally")
  /\ UNCHANGED <<up, message, registered, engine, request, budget, accepted>>

CompleteWrite(r) ==
  /\ runner[r].pc = "completeWrite"
  /\ campaign' = [status |-> "COMPLETED", counts |-> runner[r].counts]
  /\ Goto(r, "finally")
  /\ UNCHANGED <<up, message, registered, engine, request, budget, accepted>>

\* failCampaign: the same three operations after an engine-level error.
FailFind(r) ==
  /\ runner[r].pc = "failFind"
  /\ Goto(r, IF Allowed(campaign.status, "FAILED") THEN "failCount" ELSE "finally")
  /\ OnlyRunnerChanges

FailCount(r) ==
  /\ runner[r].pc = "failCount"
  /\ runner' = [runner EXCEPT ![r] = [@ EXCEPT !.pc = "failWrite", !.counts = RowCounts]]
  /\ OnlyRunnerChanges

\* Mutant: a faulted campaign is reported as finished.
FailAsCompleted(r) ==
  /\ runner[r].pc = "failWrite"
  /\ campaign' = [status |-> "COMPLETED", counts |-> runner[r].counts]
  /\ Goto(r, "finally")
  /\ UNCHANGED <<up, message, registered, engine, request, budget, accepted>>

FailWrite(r) ==
  /\ runner[r].pc = "failWrite"
  /\ campaign' = [status |-> "FAILED", counts |-> runner[r].counts]
  /\ Goto(r, "finally")
  /\ UNCHANGED <<up, message, registered, engine, request, budget, accepted>>

\* Mutant: the claim is never released.
FinallyKeeps(r) ==
  /\ runner[r].pc = "finally"
  /\ runner' = [runner EXCEPT ![r] = IdleRunner]
  /\ UNCHANGED <<up, campaign, message, registered, engine, request, budget, accepted>>

\* The claim is released only while this state is still the registered one.
Finally(r) ==
  /\ runner[r].pc = "finally"
  /\ engine' = IF registered = runner[r].engine
                 THEN [engine EXCEPT ![registered].running = FALSE]
                 ELSE engine
  /\ runner' = [runner EXCEPT ![r] = IdleRunner]
  /\ UNCHANGED <<up, campaign, message, registered, request, budget, accepted>>

\* A database operation throws: out of the try block, or out of failCampaign.
RunnerFault(r) ==
  /\ budget.faults < MaxFaults
  /\ runner[r].pc \in TryPcs \cup FailPcs
  /\ runner' = [runner EXCEPT ![r] =
       [IdleRunner EXCEPT !.pc = IF runner[r].pc \in TryPcs THEN "failFind" ELSE "finally",
                          !.engine = runner[r].engine]]
  /\ budget' = [budget EXCEPT !.faults = @ + 1]
  /\ UNCHANGED <<up, campaign, message, registered, engine, request, accepted>>

RunnerStep(r) ==
  \/ Load(r) \/ Top(r) \/ Fetch(r) \/ Picked(r) \/ Prepare(r) \/ SettleUnsent(r)
  \/ MetaAccepts(r) \/ MetaAnswers(r) \/ MetaRefuses(r) \/ Record(r)
  \/ SyncRead(r) \/ SyncWrite(r) \/ Synced(r) \/ LookAhead(r) \/ Park(r) \/ Timer(r)
  \/ Drained(r) \/ CompleteFind(r) \/ CompleteCount(r) \/ CompleteWrite(r)
  \/ FailFind(r) \/ FailCount(r) \/ FailWrite(r) \/ Finally(r)

-----------------------------------------------------------------------------
(* The API requests.  A validation that reads only the handler's own       *)
(* locals belongs to the database read before it; an early return or an    *)
(* exception is Reply.                                                     *)

RequestPc ==
  {"idle", "insertCampaign", "insertMessages", "read", "claim", "writeStatus", "launch",
   "flag", "readFailed", "requeue", "syncRead", "syncWrite"}

\* An await in a handler whose database operation may throw.  At launch the
\* status was written and only the answer of the database is lost.
RequestFaultPcs == RequestPc \ {"idle", "claim", "flag"}

OnlyRequestChanges ==
  UNCHANGED <<up, campaign, message, registered, engine, runner, budget, accepted>>

RequestGoto(h, pc) == request' = [request EXCEPT ![h].pc = pc]
Reply(h) == request' = [request EXCEPT ![h] = IdleRequest]
\* Mutant: a rejected operation goes on.
GotoAnyway(h, admitted, pc) == RequestGoto(h, pc)
GotoIf(h, admitted, pc) == IF admitted THEN RequestGoto(h, pc) ELSE Reply(h)

\* A client calls the API.  The campaign has an id only once its row exists.
Arrive(h, op) ==
  /\ up
  /\ request[h].pc = "idle"
  /\ budget.requests < MaxRequests
  /\ op = "create" => \A g \in Requests : request[g].op # "create"
  /\ (op = "create") <=> (campaign.status = None)
  /\ request' = [request EXCEPT ![h] =
       [@ EXCEPT !.op = op, !.pc = IF op = "create" THEN "insertCampaign" ELSE "read"]]
  /\ budget' = [budget EXCEPT !.requests = @ + 1]
  /\ UNCHANGED <<up, campaign, message, registered, engine, runner, accepted>>

\* create: the campaign row, then all message rows in one insert.
InsertCampaign(h) ==
  /\ request[h].pc = "insertCampaign"
  /\ campaign' = [status |-> "DRAFT",
                  counts |-> [NoCounts EXCEPT !.pending = Cardinality(Messages)]]
  /\ RequestGoto(h, "insertMessages")
  /\ UNCHANGED <<up, message, registered, engine, runner, budget, accepted>>

InsertMessages(h) ==
  /\ request[h].pc = "insertMessages"
  /\ message' = [m \in Messages |-> [status |-> "PENDING", attempts |-> 0]]
  /\ Reply(h)
  /\ UNCHANGED <<up, campaign, registered, engine, runner, budget, accepted>>

\* getCampaignOrThrow, and the check each operation makes on the status read.
\* resume is start after a check of its own, and start reads the row again.
Read(h) ==
  /\ request[h].pc = "read"
  /\ LET status == campaign.status
         op == request[h].op
     IN  \/ op = "resume" /\ status = "PAUSED" /\ request' = [request EXCEPT ![h].op = "start"]
         \/ op = "resume" /\ status # "PAUSED" /\ Reply(h)
         \/ op = "start" /\ GotoIf(h, Allowed(status, "RUNNING"), "claim")
         \/ op \in {"pause", "stop"} /\ GotoIf(h, Allowed(status, TargetStatus[op]), "flag")
         \/ /\ op = "retry"
            /\ request' = [request EXCEPT ![h] = [@ EXCEPT !.pc = "readFailed", !.seen = status]]
  /\ OnlyRequestChanges

\* start: claimRunner, or "already running".
Claim(h) ==
  /\ request[h].pc = "claim"
  /\ IF CanClaim
       THEN /\ Unclaimed # {}
            /\ registered' = NewEngine
            /\ engine' = [engine EXCEPT ![NewEngine] = LiveEngine]
            /\ request' = [request EXCEPT ![h] =
                 [@ EXCEPT !.pc = "writeStatus", !.claim = NewEngine]]
       ELSE /\ Reply(h)
            /\ UNCHANGED <<registered, engine>>
  /\ UNCHANGED <<up, campaign, message, runner, budget, accepted>>

\* pause and stop: flag the registered state and end its throttle sleep.
Flag(h) ==
  /\ request[h].pc = "flag"
  /\ IF registered = None
       THEN UNCHANGED <<engine, runner>>
       ELSE LET sleeper == engine[registered].wake IN
            /\ engine' = [engine EXCEPT ![registered] = Flagged(@, request[h].op)]
            /\ runner' = IF sleeper = None THEN runner ELSE [runner EXCEPT ![sleeper].pc = "top"]
  /\ RequestGoto(h, "writeStatus")
  /\ UNCHANGED <<up, campaign, message, registered, budget, accepted>>

\* updateCampaign with the new status.
WriteStatus(h) ==
  /\ request[h].pc = "writeStatus"
  /\ campaign' = [campaign EXCEPT !.status = TargetStatus[request[h].op]]
  /\ RequestGoto(h, IF request[h].op = "start" THEN "launch" ELSE "syncRead")
  /\ UNCHANGED <<up, message, registered, engine, runner, budget, accepted>>

\* launch: the new runner gets whichever state is registered by now.
Launched(r, e) == [runner EXCEPT ![r] = [IdleRunner EXCEPT !.pc = "load", !.engine = e]]

Launch(h) ==
  /\ request[h].pc = "launch"
  /\ runner' = Launched(request[h].claim, registered)
  /\ Reply(h)
  /\ UNCHANGED <<up, campaign, message, registered, engine, budget, accepted>>

\* Mutant: every settled row is put back.
ReadSettled(h) ==
  /\ request[h].pc = "readFailed"
  /\ LET rows == RowsIn("FAILED") \cup RowsIn("SENT")
     IN  IF rows = {} THEN Reply(h)
         ELSE request' = [request EXCEPT ![h] = [@ EXCEPT !.pc = "requeue", !.rows = rows]]
  /\ OnlyRequestChanges

\* retryFailed: read the FAILED rows, reset them one by one, and move the
\* campaign to QUEUED unless it was RUNNING or QUEUED when it was read.
ReadFailed(h) ==
  /\ request[h].pc = "readFailed"
  /\ IF RowsIn("FAILED") = {} THEN Reply(h)
     ELSE request' = [request EXCEPT ![h] = [@ EXCEPT !.pc = "requeue", !.rows = RowsIn("FAILED")]]
  /\ OnlyRequestChanges

AfterRequeue(h) ==
  IF request[h].seen \in {"RUNNING", "QUEUED"} THEN "syncRead" ELSE "writeStatus"

Requeue(h) ==
  /\ request[h].pc = "requeue"
  /\ LET m == Oldest(request[h].rows)
         rest == request[h].rows \ {m}
     IN  /\ message' = [message EXCEPT ![m] = [status |-> "PENDING", attempts |-> 0]]
         /\ IF rest # {} THEN request' = [request EXCEPT ![h].rows = rest]
            ELSE IF AfterRequeue(h) = "writeStatus" /\ ~Allowed(request[h].seen, "QUEUED")
              THEN Reply(h)
            ELSE request' = [request EXCEPT ![h] = [@ EXCEPT !.pc = AfterRequeue(h), !.rows = {}]]
  /\ UNCHANGED <<up, campaign, registered, engine, runner, budget, accepted>>

\* syncCounters at the end of pause, stop and retry.
RequestSyncRead(h) ==
  /\ request[h].pc = "syncRead"
  /\ request' = [request EXCEPT ![h] = [@ EXCEPT !.pc = "syncWrite", !.counts = RowCounts]]
  /\ OnlyRequestChanges

RequestSyncWrite(h) ==
  /\ request[h].pc = "syncWrite"
  /\ campaign' = [campaign EXCEPT !.counts = request[h].counts]
  /\ Reply(h)
  /\ UNCHANGED <<up, message, registered, engine, runner, budget, accepted>>

\* A database operation throws and the client gets an error.
RequestFault(h) ==
  /\ budget.faults < MaxFaults
  /\ request[h].pc \in RequestFaultPcs
  /\ Reply(h)
  /\ budget' = [budget EXCEPT !.faults = @ + 1]
  /\ UNCHANGED <<up, campaign, message, registered, engine, runner, accepted>>

RequestStep(h) ==
  \/ InsertCampaign(h) \/ InsertMessages(h) \/ Read(h) \/ Claim(h) \/ Flag(h)
  \/ WriteStatus(h) \/ Launch(h) \/ ReadFailed(h) \/ Requeue(h)
  \/ RequestSyncRead(h) \/ RequestSyncWrite(h)

-----------------------------------------------------------------------------
(* The process.                                                            *)

\* All memory, runners and requests are lost; what Meta accepted is not.
Crash ==
  /\ up
  /\ budget.crashes < MaxCrashes
  /\ up' = FALSE
  /\ registered' = None
  /\ engine' = [e \in Engines |-> FreshEngine]
  /\ runner' = [r \in Engines |-> IdleRunner]
  /\ request' = [h \in Requests |-> IdleRequest]
  /\ budget' = [budget EXCEPT !.crashes = @ + 1]
  /\ UNCHANGED <<campaign, message, accepted>>

\* Mutant: nothing is recovered.
BootIdle ==
  /\ ~up
  /\ up' = TRUE
  /\ UNCHANGED <<campaign, message, registered, engine, runner, request, budget, accepted>>

\* Recovery runs before the first request is served: a campaign persisted as
\* RUNNING gets a runner, every other status is left alone.
Boot ==
  /\ ~up
  /\ up' = TRUE
  /\ IF campaign.status = "RUNNING" /\ CanClaim
       THEN /\ Unclaimed # {}
            /\ registered' = NewEngine
            /\ engine' = [engine EXCEPT ![NewEngine] = LiveEngine]
            /\ runner' = Launched(NewEngine, NewEngine)
       ELSE UNCHANGED <<registered, engine, runner>>
  /\ UNCHANGED <<campaign, message, request, budget, accepted>>

\* The recovery query throws: it is logged, and the process serves requests.
BootFault ==
  /\ ~up
  /\ budget.faults < MaxFaults
  /\ up' = TRUE
  /\ budget' = [budget EXCEPT !.faults = @ + 1]
  /\ UNCHANGED <<campaign, message, registered, engine, runner, request, accepted>>

-----------------------------------------------------------------------------
\* The database as an earlier run of the backend may have left it.
NewDatabase ==
  /\ campaign = [status |-> None, counts |-> NoCounts]
  /\ message = [m \in Messages |-> [status |-> "ABSENT", attempts |-> 0]]

InheritedRow ==
  [status : {"PENDING"}, attempts : 0..MaxAttempts]
    \cup [status : {"SENT", "FAILED"}, attempts : {MaxAttempts}]

InheritedDatabase ==
  /\ Inherited
  /\ message \in [Messages -> InheritedRow]
  /\ campaign \in [status : {"QUEUED", "RUNNING", "PAUSED", "STOPPED"}, counts : {RowCounts}]

Init ==
  /\ up = FALSE
  /\ NewDatabase \/ InheritedDatabase
  /\ registered = None
  /\ engine = [e \in Engines |-> FreshEngine]
  /\ runner = [r \in Engines |-> IdleRunner]
  /\ request = [h \in Requests |-> IdleRequest]
  /\ budget = [requests |-> 0, crashes |-> 0, faults |-> 0]
  /\ accepted = [m \in Messages |-> 0]

Next ==
  \/ \E r \in Engines : RunnerStep(r) \/ RunnerFault(r)
  \/ \E h \in Requests : RequestStep(h) \/ RequestFault(h) \/ (\E op \in Operations : Arrive(h, op))
  \/ Crash \/ Boot \/ BootFault

Spec == Init /\ [][Next]_vars

\* The event loop serves every runner and request; the gateway timeout and
\* the throttle timer bound their waits; a supervisor restarts the process.
Fairness ==
  /\ \A r \in Engines : WF_vars(RunnerStep(r))
  /\ \A h \in Requests : WF_vars(RequestStep(h))
  /\ WF_vars(Boot)

FairSpec == Spec /\ Fairness

-----------------------------------------------------------------------------
(* Properties.                                                             *)

Counts == [sent : Nat, failed : Nat, pending : Nat]
Row == [status : MessageStatus, attempts : 0..MaxAttempts]
EngineState ==
  [claimed : BOOLEAN, paused : BOOLEAN, stopped : BOOLEAN, running : BOOLEAN,
   wake : Engines \cup {None}]
RunnerState ==
  [pc : RunnerPc, engine : Engines \cup {None}, msg : Messages \cup {None},
   attempts : 0..MaxAttempts, result : {"ok", "transient", "permanent", None},
   attempted : BOOLEAN, counts : Counts]
RequestState ==
  [pc : RequestPc, op : AllOperations \cup {None}, seen : CampaignStatus \cup {None},
   claim : Engines \cup {None}, rows : SUBSET Messages, counts : Counts]

\* A runner about to send a row, or waiting on it, has budget for the attempt.
AttemptBudget ==
  \A r \in Engines :
    runner[r].pc \in {"prepare", "send", "accepted", "record"} => runner[r].attempts < MaxAttempts

\* Types, among them that attemptCount never exceeds MAX_ATTEMPTS, which
\* rests on the retry ceiling of the loop.
TypeOK ==
  /\ up \in BOOLEAN
  /\ campaign \in [status : CampaignStatus \cup {None}, counts : Counts]
  /\ message \in [Messages -> Row]
  /\ registered \in Engines \cup {None}
  /\ engine \in [Engines -> EngineState]
  /\ runner \in [Engines -> RunnerState]
  /\ request \in [Requests -> RequestState]
  /\ budget \in [requests : 0..MaxRequests, crashes : 0..MaxCrashes, faults : 0..MaxFaults]
  /\ accepted \in [Messages -> Nat]
  /\ AttemptBudget

Live(r) == runner[r].pc # "off"
Delivering(r) == runner[r].pc \in {"prepare", "block", "send", "accepted", "record"}
Quiet == (\A r \in Engines : ~Live(r)) /\ (\A h \in Requests : request[h].pc = "idle")

\* Two runners of one campaign are never both free to take messages: the
\* claim hands the campaign over only from a runner that is halted or gone.
OneActiveRunner ==
  \A q, r \in Engines :
    /\ Live(q) /\ ~Halted(runner[q].engine)
    /\ Live(r) /\ ~Halted(runner[r].engine)
    => q = r

\* Stronger, and only without pause: at most one runner is alive at all.
OneLiveRunner == \A q, r \in Engines : Live(q) /\ Live(r) => q = r

\* A runner whose state was halted while it delivered nothing never delivers
\* again: pause and stop let through at most the message in hand.
WindingDown(r) == Live(r) /\ ~Delivering(r) /\ Halted(runner[r].engine)
WindingDownIsFinal ==
  [][\A r \in Engines : WindingDown(r) => WindingDown(r)' \/ ~Live(r)']_vars

\* No recipient gets a message twice, but for the attempts whose outcome a
\* crash or a database error kept from being recorded.
AcceptedAtMostOncePerLife ==
  \A m \in Messages : accepted[m] <= 1 + budget.crashes + budget.faults

\* A message recorded as sent is never put back in the queue.
SentIsFinal ==
  [][\A m \in Messages : message[m].status = "SENT" => message'[m].status = "SENT"]_vars

\* attemptCount only moves forward, except when a retry grants a new budget.
AttemptsOnlyForward ==
  [][\A m \in Messages :
       \/ message[m].attempts <= message'[m].attempts
       \/ \E h \in Requests : request[h].pc = "requeue" /\ m \in request[h].rows]_vars

\* COMPLETED means that every message reached a terminal state.
CompletedIsDrained ==
  campaign.status = "COMPLETED" => RowsIn("PENDING") = {}

\* The same once nothing runs any more: no message is left behind for good.
NothingStranded == Quiet => CompletedIsDrained

\* Once nothing runs, the stored counters agree with the message rows.
CountersAgree ==
  Quiet /\ up /\ campaign.status \in {"STOPPED", "COMPLETED"} => campaign.counts = RowCounts

\* The campaign status changes only along the table of transitions.
StatusFollowsTable ==
  [][\/ campaign.status \in {None, campaign'.status}
     \/ Allowed(campaign.status, campaign'.status)]_vars

\* A registered state that refuses new claims has a runner, or one on its way.
ClaimHasRunner ==
  ~CanClaim =>
    \/ \E r \in Engines : Live(r) /\ runner[r].engine = registered
    \/ \E h \in Requests : request[h].claim # None

\* When nothing runs and nobody asks for anything, a campaign shown as RUNNING is
\* the trace of a database error: a launch, a crash and the recovery at boot, and
\* the end of a runner, in whatever order, never lose a running campaign.
RunningHasRunner == Quiet /\ up /\ campaign.status = "RUNNING" => budget.faults > 0

\* A running campaign ends up completed, failed, paused or stopped.
RunningSettles == campaign.status = "RUNNING" ~> campaign.status # "RUNNING"

=============================================================================
