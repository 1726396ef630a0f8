------------------------ MODULE CampaignEngineProofs ------------------------
(***************************************************************************)
(* Theorems about CampaignEngine, for every value of its constants.        *)
(***************************************************************************)
EXTENDS CampaignEngine, FiniteSetTheorems, WellFoundedInduction, TLAPS

\* The aggregate over the rows is a triple of naturals.
LEMMA CountsType == RowCounts \in Counts
  <1>1. \A status : Cardinality(RowsIn(status)) \in Nat
    <2>1. TAKE status
    <2>2. RowsIn(status) \subseteq Messages  BY DEF RowsIn
    <2>3. IsFiniteSet(RowsIn(status))  BY <2>2, FS_Subset, MessagesAssumption
    <2>. QED  BY <2>3, FS_CardinalityType
  <1>. QED  BY <1>1 DEF RowCounts, Counts

\* So is the initial one.
LEMMA NoCountsType == NoCounts \in Counts
  BY DEF NoCounts, Counts

\* The oldest row of a non-empty set of rows is one of them.
LEMMA OldestIn == ASSUME NEW rows \in SUBSET Messages, rows # {} PROVE Oldest(rows) \in rows
  <1>. DEFINE Less == {ss \in Nat \X Nat : ss[1] < ss[2]}
  <1>1. IsWellFoundedOn(Less, Nat)  BY NatLessThanWellFounded DEF OpToRel
  <1>2. rows \subseteq Nat  BY MessagesAssumption
  <1>3. \E m \in rows : \A n \in rows : ~(<<n, m>> \in Less)
    <2>. HIDE DEF Less
    <2>. QED  BY <1>1, <1>2, WFMin
  <1>4. \E m \in rows : \A n \in rows : m <= n
    <2>1. PICK m \in rows : \A n \in rows : ~(<<n, m>> \in Less)  BY <1>3
    <2>2. ASSUME NEW n \in rows PROVE m <= n
      <3>1. n \in Nat /\ m \in Nat  BY <1>2
      <3>2. n < m => <<n, m>> \in Less  BY <3>1
      <3>3. ~(n < m)  BY <3>2, <2>1
      <3>. QED  BY <3>1, <3>3
    <2>. QED  BY <2>2
  <1>. QED  BY <1>4 DEF Oldest

-----------------------------------------------------------------------------
(* Type correctness.                                                       *)

\* Which operation a request at each of its awaits can belong to.
Fits(q) ==
  /\ q.op \in Operations \cup {"start", None}
  /\ q.pc = "idle" <=> q.op = None
  /\ q.pc \in {"insertCampaign", "insertMessages"} <=> q.op = "create"
  /\ q.pc \in {"claim", "launch"} => q.op = "start"
  /\ q.pc = "flag" => q.op \in {"pause", "stop"}
  /\ q.pc = "writeStatus" => q.op \in {"start", "pause", "stop", "retry"}
  /\ q.pc \in {"readFailed", "requeue"} => q.op = "retry"
  /\ q.pc = "requeue" => q.rows # {}
  /\ q.pc \in {"syncRead", "syncWrite"} => q.op \in {"pause", "stop", "retry"}
RequestShape == \A h \in Requests : Fits(request[h])

\* A runner between fetching a row and settling it holds that row.
HoldsRow(r) ==
  runner[r].pc \in {"picked", "retire", "prepare", "block", "send", "accepted", "record"}
RunnerShape ==
  \A r \in Engines :
    /\ HoldsRow(r) => runner[r].msg \in Messages
    /\ runner[r].pc = "record" => runner[r].result \in {"ok", "transient", "permanent"}

TypeInv == TypeOK /\ RequestShape /\ RunnerShape

\* Actors and objects that are not in use are well typed.
LEMMA IdleTypes ==
  /\ IdleRunner \in RunnerState
  /\ IdleRequest \in RequestState
  /\ FreshEngine \in EngineState
  <1>1. IdleRunner \in RunnerState
    BY NoCountsType, MaxAttemptsAssumption DEF IdleRunner, RunnerState, RunnerPc
  <1>2. IdleRequest \in RequestState
    BY NoCountsType DEF IdleRequest, RequestState, RequestPc
  <1>3. FreshEngine \in EngineState
    BY DEF FreshEngine, EngineState
  <1>. QED  BY <1>1, <1>2, <1>3

\* The type invariant holds initially, in a new and in an inherited database.
LEMMA TypeInit == Init => TypeInv
  <1>. SUFFICES ASSUME Init PROVE TypeInv  OBVIOUS
  <1>4. /\ campaign \in [status : CampaignStatus \cup {None}, counts : Counts]
        /\ message \in [Messages -> Row]
    BY CountsType, MaxAttemptsAssumption
    DEF Init, NewDatabase, InheritedDatabase, InheritedRow, Row, MessageStatus,
        CampaignStatus, NoCounts, Counts
  <1>5. TypeOK
    <2>1. /\ engine \in [Engines -> EngineState]
          /\ runner \in [Engines -> RunnerState]
          /\ request \in [Requests -> RequestState]
      BY IdleTypes DEF Init
    <2>2. AttemptBudget  BY DEF Init, AttemptBudget, IdleRunner
    <2>3. /\ up \in BOOLEAN
          /\ registered \in Engines \cup {None}
          /\ accepted \in [Messages -> Nat]
      BY DEF Init
    <2>4. budget \in [requests : 0..MaxRequests, crashes : 0..MaxCrashes, faults : 0..MaxFaults]
      BY BoundsAssumption DEF Init
    <2>. QED  BY <1>4, <2>1, <2>2, <2>3, <2>4 DEF TypeOK
  <1>6. RequestShape
    <2>1. \A h \in Requests : request[h].op = None /\ request[h].pc = "idle"
      BY DEF Init, IdleRequest
    <2>. QED  BY <2>1, NoneAssumption DEF RequestShape, Fits, AllOperations
  <1>7. RunnerShape
    BY DEF Init, RunnerShape, HoldsRow, IdleRunner
  <1>. QED  BY <1>5, <1>6, <1>7 DEF TypeInv

\* What each await point needs of RunnerPc, which stays unexpanded.
LEMMA RunnerPcs ==
  /\ "off" \in RunnerPc /\ "load" \in RunnerPc /\ "top" \in RunnerPc /\ "fetch" \in RunnerPc
  /\ "picked" \in RunnerPc /\ "retire" \in RunnerPc /\ "prepare" \in RunnerPc
  /\ "block" \in RunnerPc /\ "send" \in RunnerPc /\ "accepted" \in RunnerPc
  /\ "record" \in RunnerPc /\ "syncRead" \in RunnerPc /\ "syncWrite" \in RunnerPc
  /\ "synced" \in RunnerPc /\ "lookahead" \in RunnerPc /\ "parking" \in RunnerPc
  /\ "sleep" \in RunnerPc /\ "drained" \in RunnerPc /\ "finally" \in RunnerPc
  /\ "completeFind" \in RunnerPc /\ "completeCount" \in RunnerPc /\ "completeWrite" \in RunnerPc
  /\ "failFind" \in RunnerPc /\ "failCount" \in RunnerPc /\ "failWrite" \in RunnerPc
  BY DEF RunnerPc, TryPcs, FailPcs, SyncPcs

\* Replacing one runner by a well-typed one keeps the runners well typed.
LEMMA RunnerUpdate ==
  ASSUME runner \in [Engines -> RunnerState], NEW r \in Engines, NEW new \in RunnerState,
         runner' = [runner EXCEPT ![r] = new]
  PROVE  runner' \in [Engines -> RunnerState]
  OBVIOUS

\* A runner step keeps the runners well typed.
LEMMA RunnerKeepsRunners ==
  ASSUME TypeInv, NEW r \in Engines, RunnerStep(r)
  PROVE  runner' \in [Engines -> RunnerState]
  <1>t. runner \in [Engines -> RunnerState]  BY DEF TypeInv, TypeOK
  <1>. USE <1>t, RunnerPcs DEF Goto, RunnerState
  <1>1. CASE Load(r)  BY <1>1 DEF Load
  <1>2. CASE Top(r)  BY <1>2 DEF Top, HaltCheck
  <1>3. CASE Fetch(r)
    <2>1. CASE RowsIn("PENDING") = {}  BY <1>3, <2>1 DEF Fetch
    <2>2. CASE RowsIn("PENDING") # {}
      <3>. DEFINE m == Oldest(RowsIn("PENDING"))
                  new == [runner[r] EXCEPT !.pc = "picked", !.msg = m, !.attempts = message[m].attempts]
      <3>1. m \in Messages  BY <2>2, OldestIn DEF RowsIn
      <3>2. message[m].attempts \in 0..MaxAttempts  BY <3>1 DEF TypeInv, TypeOK, Row
      <3>3. new \in RunnerState  BY <3>1, <3>2
      <3>4. runner' = [runner EXCEPT ![r] = new]  BY <1>3, <2>2 DEF Fetch
      <3>. HIDE DEF new
      <3>. QED  BY <3>3, <3>4, RunnerUpdate
    <2>. QED  BY <2>1, <2>2
  <1>4. CASE Picked(r)  BY <1>4 DEF Picked, HaltCheck
  <1>5. CASE Prepare(r)  BY <1>5 DEF Prepare
  <1>6. CASE SettleUnsent(r)  BY <1>6 DEF SettleUnsent
  <1>7. CASE MetaAccepts(r)  BY <1>7 DEF MetaAccepts
  <1>8. CASE MetaAnswers(r)
    <2>1. \A result \in {"ok", "permanent"} : [runner[r] EXCEPT !.pc = "record", !.result = result] \in RunnerState
      OBVIOUS
    <2>. QED  BY <1>8, <2>1 DEF MetaAnswers
  <1>9. CASE MetaRefuses(r)
    <2>1. \A result \in {"transient", "permanent"} : [runner[r] EXCEPT !.pc = "record", !.result = result] \in RunnerState
      OBVIOUS
    <2>. QED  BY <1>9, <2>1 DEF MetaRefuses
  <1>10. CASE Record(r)
    <2>1. [runner[r] EXCEPT !.pc = "syncRead", !.attempted = TRUE, !.result = None] \in RunnerState
      OBVIOUS
    <2>. QED  BY <1>10, <2>1 DEF Record
  <1>11. CASE SyncRead(r)
    <2>1. [runner[r] EXCEPT !.pc = "syncWrite", !.counts = RowCounts, !.msg = None, !.attempts = 0] \in RunnerState
      <3>1. ASSUME NEW x \in RunnerState, NEW c \in Counts
            PROVE  [x EXCEPT !.pc = "syncWrite", !.counts = c] \in RunnerState
        OBVIOUS
      <3>2. ASSUME NEW x \in RunnerState, NEW m \in Messages \cup {None}, NEW n \in 0..MaxAttempts
            PROVE  [x EXCEPT !.msg = m, !.attempts = n] \in RunnerState
        OBVIOUS
      <3>3. [[runner[r] EXCEPT !.pc = "syncWrite", !.counts = RowCounts] EXCEPT !.msg = None, !.attempts = 0] \in RunnerState
        <4>1. [runner[r] EXCEPT !.pc = "syncWrite", !.counts = RowCounts] \in RunnerState
          BY <3>1, CountsType
        <4>2. None \in Messages \cup {None} /\ 0 \in 0..MaxAttempts
          BY MaxAttemptsAssumption
        <4>. QED  BY <3>2, <4>1, <4>2
      <3>. QED  BY <3>3
    <2>. QED  BY <1>11, <2>1 DEF SyncRead
  <1>12. CASE SyncWrite(r)
    <2>1. [runner[r] EXCEPT !.pc = IF runner[r].attempted THEN "synced" ELSE "top", !.attempted = FALSE, !.counts = NoCounts] \in RunnerState
      BY NoCountsType
    <2>. QED  BY <1>12, <2>1 DEF SyncWrite
  <1>13. CASE Synced(r)  BY <1>13 DEF Synced, HaltCheck
  <1>14. CASE LookAhead(r)  BY <1>14 DEF LookAhead
  <1>15. CASE Park(r)  BY <1>15 DEF Park
  <1>16. CASE Timer(r)  BY <1>16 DEF Timer
  <1>17. CASE Drained(r)  BY <1>17 DEF Drained, HaltCheck
  <1>18. CASE CompleteFind(r)  BY <1>18 DEF CompleteFind
  <1>19. CASE CompleteCount(r)
    <2>1. [runner[r] EXCEPT !.pc = "completeWrite", !.counts = RowCounts] \in RunnerState
      BY CountsType
    <2>. QED  BY <1>19, <2>1 DEF CompleteCount
  <1>20. CASE CompleteWrite(r)  BY <1>20 DEF CompleteWrite
  <1>21. CASE FailFind(r)  BY <1>21 DEF FailFind
  <1>22. CASE FailCount(r)
    <2>1. [runner[r] EXCEPT !.pc = "failWrite", !.counts = RowCounts] \in RunnerState
      BY CountsType
    <2>. QED  BY <1>22, <2>1 DEF FailCount
  <1>23. CASE FailWrite(r)  BY <1>23 DEF FailWrite
  <1>24. CASE Finally(r)
    <2>1. IdleRunner \in RunnerState
      BY IdleTypes
    <2>. QED  BY <1>24, <2>1 DEF Finally
  <1>. QED
    BY <1>1, <1>2, <1>3, <1>4, <1>5, <1>6, <1>7, <1>8, <1>9, <1>10, <1>11, <1>12, <1>13,
       <1>14, <1>15, <1>16, <1>17, <1>18, <1>19, <1>20, <1>21, <1>22, <1>23, <1>24 DEF
       RunnerStep

\* A runner step keeps every runner holding what its await point needs.
LEMMA RunnerKeepsShape ==
  ASSUME TypeInv, NEW r \in Engines, RunnerStep(r)
  PROVE  AttemptBudget' /\ RunnerShape'
  <1>t. /\ runner \in [Engines -> RunnerState]
        /\ AttemptBudget
        /\ RunnerShape
    BY DEF TypeInv, TypeOK
  <1>. USE <1>t DEF Goto, AttemptBudget, RunnerShape, HoldsRow, RunnerState
  <1>1. CASE Load(r)  BY <1>1 DEF Load
  <1>2. CASE Top(r)  BY <1>2 DEF Top, HaltCheck
  <1>3. CASE Fetch(r)
    <2>1. CASE RowsIn("PENDING") = {}  BY <1>3, <2>1 DEF Fetch
    <2>2. CASE RowsIn("PENDING") # {}
      <3>1. Oldest(RowsIn("PENDING")) \in Messages  BY <2>2, OldestIn DEF RowsIn
      <3>. QED  BY <1>3, <2>2, <3>1 DEF Fetch
    <2>. QED  BY <2>1, <2>2
  <1>4. CASE Picked(r)  BY <1>4, MaxAttemptsAssumption DEF Picked, HaltCheck, Exhausted
  <1>5. CASE Prepare(r)  BY <1>5 DEF Prepare
  <1>6. CASE SettleUnsent(r)  BY <1>6 DEF SettleUnsent
  <1>7. CASE MetaAccepts(r)  BY <1>7 DEF MetaAccepts
  <1>8. CASE MetaAnswers(r)  BY <1>8 DEF MetaAnswers
  <1>9. CASE MetaRefuses(r)  BY <1>9 DEF MetaRefuses
  <1>10. CASE Record(r)  BY <1>10 DEF Record
  <1>11. CASE SyncRead(r)  BY <1>11 DEF SyncRead
  <1>12. CASE SyncWrite(r)  BY <1>12 DEF SyncWrite
  <1>13. CASE Synced(r)  BY <1>13 DEF Synced, HaltCheck
  <1>14. CASE LookAhead(r)  BY <1>14 DEF LookAhead
  <1>15. CASE Park(r)  BY <1>15 DEF Park
  <1>16. CASE Timer(r)  BY <1>16 DEF Timer
  <1>17. CASE Drained(r)  BY <1>17 DEF Drained, HaltCheck
  <1>18. CASE CompleteFind(r)  BY <1>18 DEF CompleteFind
  <1>19. CASE CompleteCount(r)  BY <1>19 DEF CompleteCount
  <1>20. CASE CompleteWrite(r)  BY <1>20 DEF CompleteWrite
  <1>21. CASE FailFind(r)  BY <1>21 DEF FailFind
  <1>22. CASE FailCount(r)  BY <1>22 DEF FailCount
  <1>23. CASE FailWrite(r)  BY <1>23 DEF FailWrite
  <1>24. CASE Finally(r)  BY <1>24 DEF Finally, IdleRunner
  <1>. QED
    BY <1>1, <1>2, <1>3, <1>4, <1>5, <1>6, <1>7, <1>8, <1>9, <1>10, <1>11, <1>12, <1>13,
       <1>14, <1>15, <1>16, <1>17, <1>18, <1>19, <1>20, <1>21, <1>22, <1>23, <1>24 DEF
       RunnerStep

\* A runner step keeps everything but the runners well typed.
LEMMA RunnerKeepsRest ==
  ASSUME TypeInv, NEW r \in Engines, RunnerStep(r)
  PROVE  /\ campaign' \in [status : CampaignStatus \cup {None}, counts : Counts]
         /\ message' \in [Messages -> Row]
         /\ engine' \in [Engines -> EngineState]
         /\ accepted' \in [Messages -> Nat]
         /\ UNCHANGED <<up, registered, request, budget>>
  <1>t. /\ campaign \in [status : CampaignStatus \cup {None}, counts : Counts]
        /\ message \in [Messages -> Row]
        /\ engine \in [Engines -> EngineState]
        /\ accepted \in [Messages -> Nat]
        /\ runner[r].counts \in Counts
        /\ runner[r].attempts \in 0..MaxAttempts
        /\ runner[r].pc \in {"record", "accepted", "send"} => runner[r].attempts < MaxAttempts
        /\ HoldsRow(r) => runner[r].msg \in Messages
    BY DEF TypeInv, TypeOK, RunnerState, AttemptBudget, RunnerShape
  <1>. USE <1>t DEF OnlyRunnerChanges, HoldsRow
  <1>1. CASE Load(r)  BY <1>1 DEF Load
  <1>2. CASE Top(r)  BY <1>2 DEF Top
  <1>3. CASE Fetch(r)  BY <1>3 DEF Fetch
  <1>4. CASE Picked(r)  BY <1>4 DEF Picked
  <1>5. CASE Prepare(r)  BY <1>5 DEF Prepare
  <1>6. CASE SettleUnsent(r)  BY <1>6 DEF SettleUnsent, Row, MessageStatus
  <1>7. CASE MetaAccepts(r)  BY <1>7 DEF MetaAccepts
  <1>8. CASE MetaAnswers(r)  BY <1>8 DEF MetaAnswers
  <1>9. CASE MetaRefuses(r)  BY <1>9 DEF MetaRefuses
  <1>10. CASE Record(r)
    <2>1. Recorded(r) \in Row
      <3>1. runner[r].attempts + 1 \in 0..MaxAttempts
        BY <1>10, MaxAttemptsAssumption DEF Record
      <3>2. \A n : SettledStatus(runner[r].result, n) \in MessageStatus
        BY DEF SettledStatus, MessageStatus
      <3>. QED  BY <3>1, <3>2 DEF Recorded, Row
    <2>. QED  BY <1>10, <2>1 DEF Record
  <1>11. CASE SyncRead(r)  BY <1>11 DEF SyncRead
  <1>12. CASE SyncWrite(r)  BY <1>12 DEF SyncWrite, Counts
  <1>13. CASE Synced(r)  BY <1>13 DEF Synced
  <1>14. CASE LookAhead(r)  BY <1>14 DEF LookAhead
  <1>15. CASE Park(r)  BY <1>15 DEF Park, EngineState
  <1>16. CASE Timer(r)  BY <1>16 DEF Timer, EngineState
  <1>17. CASE Drained(r)  BY <1>17 DEF Drained
  <1>18. CASE CompleteFind(r)  BY <1>18 DEF CompleteFind
  <1>19. CASE CompleteCount(r)  BY <1>19 DEF CompleteCount
  <1>20. CASE CompleteWrite(r)  BY <1>20 DEF CompleteWrite, CampaignStatus
  <1>21. CASE FailFind(r)  BY <1>21 DEF FailFind
  <1>22. CASE FailCount(r)  BY <1>22 DEF FailCount
  <1>23. CASE FailWrite(r)  BY <1>23 DEF FailWrite, CampaignStatus
  <1>24. CASE Finally(r)  BY <1>24 DEF Finally, EngineState
  <1>. QED
    BY <1>1, <1>2, <1>3, <1>4, <1>5, <1>6, <1>7, <1>8, <1>9, <1>10, <1>11, <1>12, <1>13,
       <1>14, <1>15, <1>16, <1>17, <1>18, <1>19, <1>20, <1>21, <1>22, <1>23, <1>24 DEF
       RunnerStep

\* A runner step preserves the type invariant.
LEMMA RunnerTypes ==
  ASSUME TypeInv, NEW r \in Engines, RunnerStep(r)
  PROVE  TypeInv'
  <1>1. TypeOK'  BY RunnerKeepsRunners, RunnerKeepsShape, RunnerKeepsRest DEF TypeInv, TypeOK
  <1>2. RequestShape'  BY RunnerKeepsRest DEF TypeInv, RequestShape
  <1>. QED  BY <1>1, <1>2, RunnerKeepsShape DEF TypeInv

\* What each await point of a request needs of RequestPc.
LEMMA RequestPcs ==
  /\ "idle" \in RequestPc /\ "insertCampaign" \in RequestPc /\ "insertMessages" \in RequestPc
  /\ "read" \in RequestPc /\ "claim" \in RequestPc /\ "writeStatus" \in RequestPc
  /\ "launch" \in RequestPc /\ "flag" \in RequestPc /\ "readFailed" \in RequestPc
  /\ "requeue" \in RequestPc /\ "syncRead" \in RequestPc /\ "syncWrite" \in RequestPc
  BY DEF RequestPc

\* A claim takes an object of Engines.
LEMMA NewEngineIn ==
  ASSUME Unclaimed # {}
  PROVE  NewEngine \in Engines /\ ~engine[NewEngine].claimed
  <1>1. NewEngine \in Unclaimed  BY DEF NewEngine
  <1>. QED  BY <1>1 DEF Unclaimed

\* A launched runner is well typed.
LEMMA LaunchedTypes ==
  ASSUME runner \in [Engines -> RunnerState], NEW r, NEW e \in Engines \cup {None}
  PROVE  Launched(r, e) \in [Engines -> RunnerState]
  <1>1. [IdleRunner EXCEPT !.pc = "load", !.engine = e] \in RunnerState
    BY IdleTypes, RunnerPcs DEF RunnerState
  <1>. QED  BY <1>1 DEF Launched

\* A request step keeps the requests well typed.
LEMMA RequestKeepsRequests ==
  ASSUME TypeInv, NEW h \in Requests, RequestStep(h)
  PROVE  request' \in [Requests -> RequestState]
  <1>t. request \in [Requests -> RequestState]  BY DEF TypeInv, TypeOK
  <1>o. campaign.status \in CampaignStatus \cup {None}  BY DEF TypeInv, TypeOK
  <1>. USE <1>t, RequestPcs, IdleTypes DEF RequestGoto, Reply, RequestState
  <1>1. CASE InsertCampaign(h)  BY <1>1 DEF InsertCampaign
  <1>2. CASE InsertMessages(h)  BY <1>2 DEF InsertMessages
  <1>3. CASE Read(h)
    <2>1. [request[h] EXCEPT !.op = "start"] \in RequestState  BY DEF AllOperations
    <2>2. [request[h] EXCEPT !.pc = "readFailed", !.seen = campaign.status] \in RequestState
      BY <1>o
    <2>3. CASE Reply(h)  BY <2>3
    <2>4. CASE \E pc \in {"claim", "flag"} : RequestGoto(h, pc)  BY <2>4
    <2>5. CASE request' = [request EXCEPT ![h].op = "start"]  BY <2>5, <2>1
    <2>6. CASE request' = [request EXCEPT ![h] = [@ EXCEPT !.pc = "readFailed", !.seen = campaign.status]]
      BY <2>6, <2>2
    <2>. HIDE DEF RequestGoto, Reply, RequestState
    <2>. QED  BY <1>3, <2>3, <2>4, <2>5, <2>6 DEF Read, GotoIf
  <1>4. CASE Claim(h)
    <2>1. \A e \in Engines : [request[h] EXCEPT !.pc = "writeStatus", !.claim = e] \in RequestState
      OBVIOUS
    <2>. QED  BY <1>4, <2>1, NewEngineIn DEF Claim
  <1>5. CASE Flag(h)  BY <1>5 DEF Flag
  <1>6. CASE WriteStatus(h)  BY <1>6 DEF WriteStatus
  <1>7. CASE Launch(h)  BY <1>7 DEF Launch
  <1>8. CASE ReadFailed(h)
    <2>1. RowsIn("FAILED") \in SUBSET Messages  BY DEF RowsIn
    <2>2. [request[h] EXCEPT !.pc = "requeue", !.rows = RowsIn("FAILED")] \in RequestState
      BY <2>1
    <2>. QED  BY <1>8, <2>2 DEF ReadFailed
  <1>9. CASE Requeue(h)
    <2>. DEFINE rest == request[h].rows \ {Oldest(request[h].rows)}
    <2>1. [request[h] EXCEPT !.rows = rest] \in RequestState  OBVIOUS
    <2>2. AfterRequeue(h) \in RequestPc  BY DEF AfterRequeue
    <2>3. [request[h] EXCEPT !.pc = AfterRequeue(h), !.rows = {}] \in RequestState  BY <2>2
    <2>. QED  BY <1>9, <2>1, <2>3 DEF Requeue
  <1>10. CASE RequestSyncRead(h)
    <2>1. [request[h] EXCEPT !.pc = "syncWrite", !.counts = RowCounts] \in RequestState
      BY CountsType
    <2>. QED  BY <1>10, <2>1 DEF RequestSyncRead
  <1>11. CASE RequestSyncWrite(h)  BY <1>11 DEF RequestSyncWrite
  <1>. QED
    BY <1>1, <1>2, <1>3, <1>4, <1>5, <1>6, <1>7, <1>8, <1>9, <1>10, <1>11 DEF RequestStep

\* Replacing one request by a fitting one keeps all of them fitting.
LEMMA FitsUpdate ==
  ASSUME RequestShape, NEW h \in Requests, request \in [Requests -> RequestState],
         NEW new, Fits(new), request' = [request EXCEPT ![h] = new]
  PROVE  RequestShape'
  BY DEF RequestShape

\* A free slot holds nothing, and needs nothing.
LEMMA IdleFits == Fits(IdleRequest)
  BY NoneAssumption DEF Fits, IdleRequest, AllOperations

\* Moving on to an await point that asks for nothing new keeps a request fitting.
LEMMA GotoFits ==
  ASSUME NEW q \in RequestState, Fits(q), NEW pc,
         \/ pc \in {"claim", "launch"} /\ q.op = "start"
         \/ pc = "writeStatus" /\ q.op \in {"start", "pause", "stop"}
         \/ pc = "flag" /\ q.op \in {"pause", "stop"}
         \/ pc = "syncRead" /\ q.op \in {"pause", "stop", "retry"}
         \/ pc = "insertMessages" /\ q.op = "create"
  PROVE  Fits([q EXCEPT !.pc = pc])
  BY NoneAssumption DEF Fits, RequestState, AllOperations

\* A request step keeps every request holding what its await point needs.
LEMMA RequestKeepsShape ==
  ASSUME TypeInv, NEW h \in Requests, RequestStep(h)
  PROVE  RequestShape'
  <1>. DEFINE q == request[h]
  <1>t. /\ request \in [Requests -> RequestState]
        /\ RequestShape
        /\ q \in RequestState
        /\ Fits(q)
    BY DEF TypeInv, TypeOK, RequestShape
  <1>r. ASSUME Reply(h) PROVE RequestShape'  BY <1>t, <1>r, IdleFits, FitsUpdate DEF Reply
  <1>g. ASSUME NEW pc, RequestGoto(h, pc), Fits([q EXCEPT !.pc = pc]) PROVE RequestShape'
    BY <1>t, <1>g, FitsUpdate DEF RequestGoto
  <1>1. CASE InsertCampaign(h)
    <2>1. Fits([q EXCEPT !.pc = "insertMessages"])
      BY <1>1, <1>t, GotoFits DEF InsertCampaign, Fits
    <2>. QED  BY <1>1, <1>g, <2>1 DEF InsertCampaign
  <1>2. CASE InsertMessages(h)  BY <1>2, <1>r DEF InsertMessages
  <1>3. CASE Read(h)
    <2>. USE DEF Read, GotoIf
    <2>1. CASE Reply(h)  BY <2>1, <1>r
    <2>2. CASE q.op = "start" /\ RequestGoto(h, "claim")
      <3>1. Fits([q EXCEPT !.pc = "claim"])  BY <2>2, <1>t, GotoFits
      <3>. QED  BY <2>2, <1>g, <3>1
    <2>3. CASE q.op \in {"pause", "stop"} /\ RequestGoto(h, "flag")
      <3>1. Fits([q EXCEPT !.pc = "flag"])  BY <2>3, <1>t, GotoFits
      <3>. QED  BY <2>3, <1>g, <3>1
    <2>4. CASE q.op = "resume" /\ request' = [request EXCEPT ![h].op = "start"]
      <3>1. Fits([q EXCEPT !.op = "start"])
        BY <1>3, <1>t, NoneAssumption DEF Fits, RequestState, AllOperations
      <3>. QED  BY <1>t, <2>4, <3>1, FitsUpdate
    <2>5. CASE /\ q.op = "retry"
               /\ request' = [request EXCEPT ![h] = [@ EXCEPT !.pc = "readFailed", !.seen = campaign.status]]
      <3>1. Fits([q EXCEPT !.pc = "readFailed", !.seen = campaign.status])
        BY <1>3, <1>t, <2>5, NoneAssumption DEF Fits, RequestState, AllOperations
      <3>. QED  BY <1>t, <2>5, <3>1, FitsUpdate
    <2>. QED  BY <1>3, <2>1, <2>2, <2>3, <2>4, <2>5
  <1>4. CASE Claim(h)
    <2>1. CASE Reply(h)  BY <2>1, <1>r
    <2>2. CASE request' = [request EXCEPT ![h] = [@ EXCEPT !.pc = "writeStatus", !.claim = NewEngine]]
      <3>1. Fits([q EXCEPT !.pc = "writeStatus", !.claim = NewEngine])
        BY <1>4, <1>t, NoneAssumption DEF Claim, Fits, RequestState, AllOperations
      <3>. QED  BY <1>t, <2>2, <3>1, FitsUpdate
    <2>. QED  BY <1>4, <2>1, <2>2 DEF Claim
  <1>5. CASE Flag(h)
    <2>1. Fits([q EXCEPT !.pc = "writeStatus"])  BY <1>5, <1>t, GotoFits DEF Flag, Fits
    <2>. QED  BY <1>5, <1>g, <2>1 DEF Flag
  <1>6. CASE WriteStatus(h)
    <2>1. CASE q.op = "start"
      <3>1. Fits([q EXCEPT !.pc = "launch"])  BY <2>1, <1>t, GotoFits
      <3>. QED  BY <1>6, <1>g, <2>1, <3>1 DEF WriteStatus
    <2>2. CASE q.op # "start"
      <3>1. Fits([q EXCEPT !.pc = "syncRead"])
        BY <1>6, <2>2, <1>t, GotoFits DEF WriteStatus, Fits
      <3>. QED  BY <1>6, <1>g, <2>2, <3>1 DEF WriteStatus
    <2>. QED  BY <2>1, <2>2
  <1>7. CASE Launch(h)  BY <1>7, <1>r DEF Launch
  <1>8. CASE ReadFailed(h)
    <2>1. CASE Reply(h)  BY <2>1, <1>r
    <2>2. CASE /\ RowsIn("FAILED") # {}
               /\ request' = [request EXCEPT ![h] = [@ EXCEPT !.pc = "requeue", !.rows = RowsIn("FAILED")]]
      <3>1. Fits([q EXCEPT !.pc = "requeue", !.rows = RowsIn("FAILED")])
        BY <1>8, <1>t, <2>2, NoneAssumption DEF ReadFailed, Fits, RequestState, AllOperations
      <3>. QED  BY <1>t, <2>2, <3>1, FitsUpdate
    <2>. QED  BY <1>8, <2>1, <2>2 DEF ReadFailed
  <1>9. CASE Requeue(h)
    <2>. DEFINE rest == q.rows \ {Oldest(q.rows)}
    <2>1. CASE Reply(h)  BY <2>1, <1>r
    <2>2. CASE rest # {} /\ request' = [request EXCEPT ![h].rows = rest]
      <3>1. Fits([q EXCEPT !.rows = rest])
        BY <1>9, <1>t, <2>2 DEF Requeue, Fits, RequestState
      <3>. QED  BY <1>t, <2>2, <3>1, FitsUpdate
    <2>3. CASE request' = [request EXCEPT ![h] = [@ EXCEPT !.pc = AfterRequeue(h), !.rows = {}]]
      <3>1. Fits([q EXCEPT !.pc = AfterRequeue(h), !.rows = {}])
        BY <1>9, <1>t, NoneAssumption DEF Requeue, AfterRequeue, Fits, RequestState,
           AllOperations
      <3>. QED  BY <1>t, <2>3, <3>1, FitsUpdate
    <2>. QED  BY <1>9, <2>1, <2>2, <2>3 DEF Requeue
  <1>10. CASE RequestSyncRead(h)
    <2>1. Fits([q EXCEPT !.pc = "syncWrite", !.counts = RowCounts])
      BY <1>10, <1>t, NoneAssumption DEF RequestSyncRead, Fits, RequestState, AllOperations
    <2>. QED  BY <1>10, <1>t, <2>1, FitsUpdate DEF RequestSyncRead
  <1>11. CASE RequestSyncWrite(h)  BY <1>11, <1>r DEF RequestSyncWrite
  <1>. QED
    BY <1>1, <1>2, <1>3, <1>4, <1>5, <1>6, <1>7, <1>8, <1>9, <1>10, <1>11 DEF RequestStep

\* Starting a runner, or waking one, leaves the others as they are.
LEMMA RunnerShapeUpdate ==
  ASSUME TypeInv, NEW r, NEW new \in RunnerState, new.pc \in {"load", "top", "failFind", "finally", "off"},
         runner' = [runner EXCEPT ![r] = new]
  PROVE  runner' \in [Engines -> RunnerState] /\ AttemptBudget' /\ RunnerShape'
  <1>1. runner \in [Engines -> RunnerState] /\ AttemptBudget /\ RunnerShape
    BY DEF TypeInv, TypeOK
  <1>2. \A q \in Engines : runner'[q] = runner[q] \/ runner'[q] = new
    BY <1>1
  <1>3. runner' \in [Engines -> RunnerState]
    BY <1>1
  <1>4. AttemptBudget'  BY <1>1, <1>2 DEF AttemptBudget
  <1>5. RunnerShape'  BY <1>1, <1>2 DEF RunnerShape, HoldsRow
  <1>. QED  BY <1>3, <1>4, <1>5

\* A request step keeps everything but the requests well typed.
LEMMA RequestKeepsRest ==
  ASSUME TypeInv, NEW h \in Requests, RequestStep(h)
  PROVE  /\ campaign' \in [status : CampaignStatus \cup {None}, counts : Counts]
         /\ message' \in [Messages -> Row]
         /\ registered' \in Engines \cup {None}
         /\ engine' \in [Engines -> EngineState]
         /\ runner' \in [Engines -> RunnerState] /\ AttemptBudget' /\ RunnerShape'
         /\ UNCHANGED <<up, budget, accepted>>
  <1>t. /\ campaign \in [status : CampaignStatus \cup {None}, counts : Counts]
        /\ message \in [Messages -> Row]
        /\ registered \in Engines \cup {None}
        /\ engine \in [Engines -> EngineState]
        /\ runner \in [Engines -> RunnerState] /\ AttemptBudget /\ RunnerShape
        /\ request[h] \in RequestState
        /\ Fits(request[h])
    BY DEF TypeInv, TypeOK, RequestShape
  <1>s. ASSUME UNCHANGED runner
        PROVE  runner' \in [Engines -> RunnerState] /\ AttemptBudget' /\ RunnerShape'
    BY <1>s, <1>t DEF AttemptBudget, RunnerShape, HoldsRow
  <1>. USE <1>t DEF OnlyRequestChanges
  <1>1. CASE InsertCampaign(h)
    <2>1. [NoCounts EXCEPT !.pending = Cardinality(Messages)] \in Counts
      BY FS_CardinalityType, MessagesAssumption DEF NoCounts, Counts
    <2>. QED  BY <1>1, <1>s, <2>1 DEF InsertCampaign, CampaignStatus
  <1>2. CASE InsertMessages(h)
    <2>1. [status |-> "PENDING", attempts |-> 0] \in Row
      BY MaxAttemptsAssumption DEF Row, MessageStatus
    <2>. QED  BY <1>2, <1>s, <2>1 DEF InsertMessages
  <1>3. CASE Read(h)  BY <1>3, <1>s DEF Read
  <1>4. CASE Claim(h)
    <2>1. LiveEngine \in EngineState  BY DEF LiveEngine, EngineState
    <2>. QED  BY <1>4, <1>s, <2>1, NewEngineIn DEF Claim
  <1>5. CASE Flag(h)
    <2>1. CASE registered = None  BY <1>5, <1>s, <2>1 DEF Flag
    <2>2. CASE registered # None
      <3>1. registered \in Engines  BY <2>2
      <3>2. Flagged(engine[registered], request[h].op) \in EngineState
        BY <3>1 DEF Flagged, EngineState
      <3>3. engine' \in [Engines -> EngineState]  BY <1>5, <2>2, <3>1, <3>2 DEF Flag
      <3>. DEFINE sleeper == engine[registered].wake
      <3>4. CASE sleeper = None  BY <1>5, <1>s, <2>2, <3>3, <3>4 DEF Flag
      <3>5. CASE sleeper # None
        <4>1. sleeper \in Engines  BY <3>1, <3>5 DEF EngineState
        <4>2. [runner[sleeper] EXCEPT !.pc = "top"] \in RunnerState
          BY <4>1, RunnerPcs DEF RunnerState
        <4>3. [runner[sleeper] EXCEPT !.pc = "top"].pc = "top"  BY <4>1 DEF RunnerState
        <4>4. runner' = [runner EXCEPT ![sleeper] = [runner[sleeper] EXCEPT !.pc = "top"]]
          BY <1>5, <2>2, <3>5 DEF Flag
        <4>5. runner' \in [Engines -> RunnerState] /\ AttemptBudget' /\ RunnerShape'
          <5>. HIDE DEF sleeper
          <5>. QED  BY <4>2, <4>3, <4>4, RunnerShapeUpdate
        <4>. QED  BY <1>5, <2>2, <3>3, <4>5 DEF Flag
      <3>. QED  BY <3>4, <3>5
    <2>. QED  BY <2>1, <2>2
  <1>6. CASE WriteStatus(h)
    <2>1. TargetStatus[request[h].op] \in CampaignStatus
      BY <1>6 DEF WriteStatus, Fits, TargetStatus, CampaignStatus
    <2>. QED  BY <1>6, <1>s, <2>1 DEF WriteStatus
  <1>7. CASE Launch(h)
    <2>. DEFINE new == [IdleRunner EXCEPT !.pc = "load", !.engine = registered]
    <2>1. new \in RunnerState  BY IdleTypes, RunnerPcs DEF RunnerState
    <2>2. new.pc = "load"  BY DEF IdleRunner
    <2>3. runner' = [runner EXCEPT ![request[h].claim] = new]  BY <1>7 DEF Launch, Launched
    <2>. HIDE DEF new
    <2>4. runner' \in [Engines -> RunnerState] /\ AttemptBudget' /\ RunnerShape'
      BY <2>1, <2>2, <2>3, RunnerShapeUpdate
    <2>. QED  BY <1>7, <2>4 DEF Launch
  <1>8. CASE ReadFailed(h)  BY <1>8, <1>s DEF ReadFailed
  <1>9. CASE Requeue(h)
    <2>1. [status |-> "PENDING", attempts |-> 0] \in Row
      BY MaxAttemptsAssumption DEF Row, MessageStatus
    <2>. QED  BY <1>9, <1>s, <2>1 DEF Requeue
  <1>10. CASE RequestSyncRead(h)  BY <1>10, <1>s DEF RequestSyncRead
  <1>11. CASE RequestSyncWrite(h)
    <2>1. request[h].counts \in Counts  BY DEF RequestState
    <2>. QED  BY <1>11, <1>s, <2>1 DEF RequestSyncWrite
  <1>. QED
    BY <1>1, <1>2, <1>3, <1>4, <1>5, <1>6, <1>7, <1>8, <1>9, <1>10, <1>11 DEF RequestStep

\* A request step preserves the type invariant.
LEMMA RequestTypes ==
  ASSUME TypeInv, NEW h \in Requests, RequestStep(h)
  PROVE  TypeInv'
  <1>1. TypeOK'  BY RequestKeepsRequests, RequestKeepsRest DEF TypeInv, TypeOK
  <1>. QED  BY <1>1, RequestKeepsShape, RequestKeepsRest DEF TypeInv

Budgets == [requests : 0..MaxRequests, crashes : 0..MaxCrashes, faults : 0..MaxFaults]

\* Spending one unit of a bound that is not used up stays within the bound.
LEMMA BudgetTypes ==
  ASSUME budget \in Budgets
  PROVE  /\ budget.requests < MaxRequests => [budget EXCEPT !.requests = @ + 1] \in Budgets
         /\ budget.crashes < MaxCrashes => [budget EXCEPT !.crashes = @ + 1] \in Budgets
         /\ budget.faults < MaxFaults => [budget EXCEPT !.faults = @ + 1] \in Budgets
  <1>1. budget.requests \in Nat /\ budget.crashes \in Nat /\ budget.faults \in Nat
    BY BoundsAssumption DEF Budgets
  <1>2. budget.requests < MaxRequests => budget.requests + 1 \in 0..MaxRequests
    BY <1>1, BoundsAssumption
  <1>3. budget.crashes < MaxCrashes => budget.crashes + 1 \in 0..MaxCrashes
    BY <1>1, BoundsAssumption
  <1>4. budget.faults < MaxFaults => budget.faults + 1 \in 0..MaxFaults
    BY <1>1, BoundsAssumption
  <1>. QED  BY <1>2, <1>3, <1>4 DEF Budgets

\* Leaving the runners alone leaves their shape alone.
LEMMA RunnerShapeKept ==
  ASSUME TypeInv, UNCHANGED runner
  PROVE  runner' \in [Engines -> RunnerState] /\ AttemptBudget' /\ RunnerShape'
  BY DEF TypeInv, TypeOK, AttemptBudget, RunnerShape, HoldsRow

\* Faults, arrivals, crashes and boots preserve the type invariant.
LEMMA ProcessTypes ==
  ASSUME TypeInv,
         \/ \E r \in Engines : RunnerFault(r)
         \/ \E h \in Requests : RequestFault(h) \/ (\E op \in Operations : Arrive(h, op))
         \/ Crash \/ Boot \/ BootFault
         \/ UNCHANGED vars
  PROVE  TypeInv'
  <1>t. /\ request \in [Requests -> RequestState]
        /\ RequestShape
        /\ budget \in Budgets
    BY DEF TypeInv, TypeOK, Budgets
  <1>1. ASSUME NEW r \in Engines, RunnerFault(r) PROVE TypeInv'
    <2>. DEFINE new == [IdleRunner EXCEPT !.pc = IF runner[r].pc \in TryPcs THEN "failFind" ELSE "finally",
                                         !.engine = runner[r].engine]
    <2>1. runner[r].engine \in Engines \cup {None}  BY DEF TypeInv, TypeOK, RunnerState
    <2>2. new \in RunnerState  BY <2>1, IdleTypes, RunnerPcs DEF RunnerState
    <2>3. new.pc \in {"failFind", "finally"}  BY DEF IdleRunner
    <2>4. runner' = [runner EXCEPT ![r] = new]  BY <1>1 DEF RunnerFault
    <2>. HIDE DEF new
    <2>5. runner' \in [Engines -> RunnerState] /\ AttemptBudget' /\ RunnerShape'
      BY <2>2, <2>3, <2>4, RunnerShapeUpdate
    <2>6. budget' \in Budgets  BY <1>1, <1>t, BudgetTypes DEF RunnerFault
    <2>7. UNCHANGED <<up, campaign, message, registered, engine, request, accepted>>
      BY <1>1 DEF RunnerFault
    <2>8. TypeOK'  BY <2>5, <2>6, <2>7 DEF TypeInv, TypeOK, Budgets
    <2>. QED  BY <1>t, <2>5, <2>7, <2>8 DEF TypeInv, RequestShape
  <1>2. ASSUME NEW h \in Requests, RequestFault(h) PROVE TypeInv'
    <2>1. UNCHANGED <<up, campaign, message, registered, engine, runner, accepted>>
      BY <1>2 DEF RequestFault
    <2>2. budget' \in Budgets  BY <1>2, <1>t, BudgetTypes DEF RequestFault
    <2>3. request' \in [Requests -> RequestState]
      BY <1>2, <1>t, IdleTypes DEF RequestFault, Reply
    <2>4. RequestShape'  BY <1>2, <1>t, IdleFits, FitsUpdate DEF RequestFault, Reply
    <2>5. TypeOK'  BY <2>1, <2>2, <2>3, RunnerShapeKept DEF TypeInv, TypeOK, Budgets
    <2>. QED  BY <2>1, <2>4, <2>5, RunnerShapeKept DEF TypeInv
  <1>3. ASSUME NEW h \in Requests, NEW op \in Operations, Arrive(h, op) PROVE TypeInv'
    <2>. DEFINE new == [request[h] EXCEPT !.op = op, !.pc = IF op = "create" THEN "insertCampaign" ELSE "read"]
    <2>1. UNCHANGED <<up, campaign, message, registered, engine, runner, accepted>>
      BY <1>3 DEF Arrive
    <2>2. budget' \in Budgets  BY <1>3, <1>t, BudgetTypes DEF Arrive
    <2>3. op \in AllOperations  BY OperationsAssumption
    <2>4. new \in RequestState  BY <1>t, <2>3, RequestPcs DEF RequestState
    <2>5. Fits(new)  BY <1>t, <2>3, NoneAssumption DEF Fits, RequestState, AllOperations
    <2>6. request' = [request EXCEPT ![h] = new]  BY <1>3 DEF Arrive
    <2>. HIDE DEF new
    <2>7. request' \in [Requests -> RequestState]  BY <1>t, <2>4, <2>6
    <2>8. RequestShape'  BY <1>t, <2>5, <2>6, FitsUpdate
    <2>9. TypeOK'  BY <2>1, <2>2, <2>7, RunnerShapeKept DEF TypeInv, TypeOK, Budgets
    <2>. QED  BY <2>1, <2>8, <2>9, RunnerShapeKept DEF TypeInv
  <1>4. ASSUME Crash PROVE TypeInv'
    <2>1. UNCHANGED <<campaign, message, accepted>>  BY <1>4 DEF Crash
    <2>2. budget' \in Budgets  BY <1>4, <1>t, BudgetTypes DEF Crash
    <2>3. /\ up' \in BOOLEAN
          /\ registered' \in Engines \cup {None}
          /\ engine' \in [Engines -> EngineState]
          /\ runner' \in [Engines -> RunnerState]
          /\ request' \in [Requests -> RequestState]
      BY <1>4, IdleTypes DEF Crash
    <2>4. AttemptBudget' /\ RunnerShape'
      <3>1. \A r \in Engines : runner'[r].pc = "off"  BY <1>4 DEF Crash, IdleRunner
      <3>. QED  BY <3>1 DEF AttemptBudget, RunnerShape, HoldsRow
    <2>5. RequestShape'
      <3>1. \A h \in Requests : request'[h] = IdleRequest  BY <1>4 DEF Crash
      <3>. QED  BY <3>1, IdleFits DEF RequestShape
    <2>6. TypeOK'  BY <2>1, <2>2, <2>3, <2>4 DEF TypeInv, TypeOK, Budgets
    <2>. QED  BY <2>4, <2>5, <2>6 DEF TypeInv
  <1>5. ASSUME Boot PROVE TypeInv'
    <2>1. UNCHANGED <<campaign, message, request, budget, accepted>> /\ up' \in BOOLEAN
      BY <1>5 DEF Boot
    <2>2. /\ registered' \in Engines \cup {None}
          /\ engine' \in [Engines -> EngineState]
          /\ runner' \in [Engines -> RunnerState] /\ AttemptBudget' /\ RunnerShape'
      <3>1. CASE UNCHANGED <<registered, engine, runner>>
        BY <3>1, RunnerShapeKept DEF TypeInv, TypeOK
      <3>2. CASE ~UNCHANGED <<registered, engine, runner>>
        <4>. DEFINE new == [IdleRunner EXCEPT !.pc = "load", !.engine = NewEngine]
        <4>1. /\ Unclaimed # {}
              /\ registered' = NewEngine
              /\ engine' = [engine EXCEPT ![NewEngine] = LiveEngine]
              /\ runner' = [runner EXCEPT ![NewEngine] = new]
          BY <1>5, <3>2 DEF Boot, Launched
        <4>2. new \in RunnerState  BY <4>1, NewEngineIn, IdleTypes, RunnerPcs DEF RunnerState
        <4>3. new.pc = "load"  BY DEF IdleRunner
        <4>. HIDE DEF new
        <4>4. runner' \in [Engines -> RunnerState] /\ AttemptBudget' /\ RunnerShape'
          BY <4>1, <4>2, <4>3, RunnerShapeUpdate
        <4>5. engine' \in [Engines -> EngineState]
          BY <4>1 DEF LiveEngine, EngineState, TypeInv, TypeOK
        <4>. QED  BY <4>1, <4>4, <4>5, NewEngineIn
      <3>. QED  BY <3>1, <3>2
    <2>3. TypeOK'  BY <2>1, <2>2 DEF TypeInv, TypeOK
    <2>. QED  BY <1>t, <2>1, <2>2, <2>3 DEF TypeInv, RequestShape
  <1>6. ASSUME BootFault PROVE TypeInv'
    <2>1. UNCHANGED <<campaign, message, registered, engine, runner, request, accepted>> /\ up' \in BOOLEAN
      BY <1>6 DEF BootFault
    <2>2. budget' \in Budgets  BY <1>6, <1>t, BudgetTypes DEF BootFault
    <2>3. TypeOK'  BY <2>1, <2>2, RunnerShapeKept DEF TypeInv, TypeOK, Budgets
    <2>. QED  BY <1>t, <2>1, <2>3, RunnerShapeKept DEF TypeInv, RequestShape
  <1>7. ASSUME UNCHANGED vars PROVE TypeInv'
    <2>1. UNCHANGED <<up, campaign, message, registered, engine, runner, request, budget, accepted>>
      BY <1>7 DEF vars
    <2>2. TypeOK'  BY <2>1, RunnerShapeKept DEF TypeInv, TypeOK
    <2>. QED  BY <1>t, <2>1, <2>2, RunnerShapeKept DEF TypeInv, RequestShape
  <1>. QED  BY <1>1, <1>2, <1>3, <1>4, <1>5, <1>6, <1>7

\* Every step preserves the type invariant.
LEMMA TypeStep == TypeInv /\ [Next]_vars => TypeInv'
  BY RunnerTypes, RequestTypes, ProcessTypes DEF Next

\* The engine keeps its rows and memory well typed: in particular no row's
\* attemptCount ever exceeds MAX_ATTEMPTS, whatever the requests, crashes
\* and database errors.
THEOREM TypeCorrect == Spec => []TypeOK
  <1>1. Init => TypeInv  BY TypeInit
  <1>2. TypeInv /\ [Next]_vars => TypeInv'  BY TypeStep
  <1>3. TypeInv => TypeOK  BY DEF TypeInv
  <1>. QED  BY <1>1, <1>2, <1>3, PTL DEF Spec

-----------------------------------------------------------------------------
(* Memory: who owns the state objects.                                     *)

\* A request between its claim and its launch.
Claiming(h) == request[h].op = "start" /\ request[h].pc \in {"writeStatus", "launch"}

\* Every object in use was claimed, a claim in progress has its runner still
\* to come, and a wake callback belongs to a runner asleep on that object.
Owned ==
  /\ registered # None => engine[registered].claimed
  /\ \A r \in Engines : Live(r) =>
       /\ engine[r].claimed
       /\ runner[r].engine \in Engines
       /\ engine[runner[r].engine].claimed
  /\ \A h \in Requests : Claiming(h) =>
       /\ request[h].claim \in Engines
       /\ engine[request[h].claim].claimed
       /\ ~Live(request[h].claim)
       /\ registered # None
  /\ \A g, h \in Requests :
       Claiming(g) /\ Claiming(h) /\ request[g].claim = request[h].claim => g = h
WakeValid ==
  \A e \in Engines : engine[e].wake # None =>
    runner[engine[e].wake].pc = "sleep" /\ runner[engine[e].wake].engine = e

\* A process that is down has no memory.
DownEmpty ==
  ~up =>
    /\ registered = None
    /\ \A r \in Engines : ~Live(r)
    /\ \A h \in Requests : request[h].pc = "idle"

MemoryInv == TypeInv /\ Owned /\ WakeValid /\ DownEmpty

\* A runner step moves that runner alone, and only three kinds of step touch
\* the memory it shares.
LEMMA RunnerMoves ==
  ASSUME TypeInv, NEW r \in Engines, RunnerStep(r)
  PROVE  /\ \A q \in Engines : q # r => runner'[q] = runner[q]
         /\ Live(r)
         /\ \/ /\ Live(r)'
               /\ runner'[r].engine = runner[r].engine
               /\ runner[r].pc # "sleep"
               /\ UNCHANGED engine
            \/ Park(r) \/ Timer(r) \/ Finally(r)
  <1>t. runner \in [Engines -> RunnerState]  BY DEF TypeInv, TypeOK
  <1>. USE <1>t DEF Goto, OnlyRunnerChanges, Live, RunnerState
  <1>1. CASE Load(r)  BY <1>1 DEF Load
  <1>2. CASE Top(r)  BY <1>2 DEF Top, HaltCheck
  <1>3. CASE Fetch(r)  BY <1>3 DEF Fetch
  <1>4. CASE Picked(r)  BY <1>4 DEF Picked, HaltCheck
  <1>5. CASE Prepare(r)  BY <1>5 DEF Prepare
  <1>6. CASE SettleUnsent(r)  BY <1>6 DEF SettleUnsent
  <1>7. CASE MetaAccepts(r)  BY <1>7 DEF MetaAccepts
  <1>8. CASE MetaAnswers(r)  BY <1>8 DEF MetaAnswers
  <1>9. CASE MetaRefuses(r)  BY <1>9 DEF MetaRefuses
  <1>10. CASE Record(r)  BY <1>10 DEF Record
  <1>11. CASE SyncRead(r)  BY <1>11 DEF SyncRead
  <1>12. CASE SyncWrite(r)  BY <1>12 DEF SyncWrite
  <1>13. CASE Synced(r)  BY <1>13 DEF Synced, HaltCheck
  <1>14. CASE LookAhead(r)  BY <1>14 DEF LookAhead
  <1>15. CASE Park(r)  BY <1>15 DEF Park
  <1>16. CASE Timer(r)  BY <1>16 DEF Timer
  <1>17. CASE Drained(r)  BY <1>17 DEF Drained, HaltCheck
  <1>18. CASE CompleteFind(r)  BY <1>18 DEF CompleteFind
  <1>19. CASE CompleteCount(r)  BY <1>19 DEF CompleteCount
  <1>20. CASE CompleteWrite(r)  BY <1>20 DEF CompleteWrite
  <1>21. CASE FailFind(r)  BY <1>21 DEF FailFind
  <1>22. CASE FailCount(r)  BY <1>22 DEF FailCount
  <1>23. CASE FailWrite(r)  BY <1>23 DEF FailWrite
  <1>24. CASE Finally(r)  BY <1>24 DEF Finally, IdleRunner
  <1>. QED
    BY <1>1, <1>2, <1>3, <1>4, <1>5, <1>6, <1>7, <1>8, <1>9, <1>10, <1>11, <1>12, <1>13,
       <1>14, <1>15, <1>16, <1>17, <1>18, <1>19, <1>20, <1>21, <1>22, <1>23, <1>24 DEF
       RunnerStep

\* Nothing is claimed before the first boot.
LEMMA MemoryInit == Init => MemoryInv
  <1>. SUFFICES ASSUME Init PROVE MemoryInv  OBVIOUS
  <1>1. /\ \A r \in Engines : ~Live(r) /\ engine[r].wake = None
        /\ \A h \in Requests : request[h].pc = "idle" /\ ~Claiming(h)
        /\ registered = None
    BY DEF Init, IdleRunner, IdleRequest, FreshEngine, Live, Claiming
  <1>. QED  BY <1>1, TypeInit DEF MemoryInv, Owned, WakeValid, DownEmpty

\* A runner step preserves the memory invariant.
LEMMA MemoryRunner ==
  ASSUME MemoryInv, NEW r \in Engines, RunnerStep(r) \/ RunnerFault(r)
  PROVE  (Owned /\ WakeValid /\ DownEmpty)'
  <1>t. /\ TypeInv /\ Owned /\ WakeValid /\ DownEmpty
        /\ runner \in [Engines -> RunnerState]
        /\ engine \in [Engines -> EngineState]
        /\ registered \in Engines \cup {None}
    BY DEF MemoryInv, TypeInv, TypeOK
  <1>1. UNCHANGED <<up, registered, request>>
    BY <1>t, RunnerKeepsRest DEF RunnerFault
  <1>2. /\ \A q \in Engines : q # r => runner'[q] = runner[q]
        /\ Live(r)
        /\ \/ /\ Live(r)'
              /\ runner'[r].engine = runner[r].engine
              /\ runner[r].pc # "sleep"
              /\ UNCHANGED engine
           \/ Park(r) \/ Timer(r) \/ Finally(r)
    <2>1. CASE RunnerStep(r)  BY <1>t, <2>1, RunnerMoves
    <2>2. CASE RunnerFault(r)
      BY <1>t, <2>2 DEF RunnerFault, IdleRunner, Live, RunnerState, TryPcs, FailPcs
    <2>. QED  BY <2>1, <2>2
  <1>3. up  BY <1>t, <1>2 DEF DownEmpty
  <1>4. CASE Live(r)' /\ runner'[r].engine = runner[r].engine /\ runner[r].pc # "sleep" /\ UNCHANGED engine
    <2>1. Owned'  BY <1>t, <1>1, <1>2, <1>4 DEF Owned, Live, Claiming
    <2>2. WakeValid'
      <3>1. \A e \in Engines : engine[e].wake # r  BY <1>t, <1>4, NoneAssumption DEF WakeValid
      <3>2. \A e \in Engines : engine[e].wake \in Engines \cup {None}  BY <1>t DEF EngineState
      <3>. QED  BY <1>t, <1>2, <1>4, <3>1, <3>2 DEF WakeValid
    <2>. QED  BY <1>1, <1>3, <2>1, <2>2 DEF DownEmpty
  <1>5. CASE Park(r)
    <2>1. /\ runner'[r].pc = "sleep" /\ runner'[r].engine = runner[r].engine
          /\ runner[r].pc = "parking"
          /\ runner[r].engine \in Engines
          /\ \A e \in Engines : engine'[e].claimed = engine[e].claimed
          /\ engine'[runner[r].engine].wake = r
          /\ \A e \in Engines : e # runner[r].engine => engine'[e].wake = engine[e].wake
      BY <1>t, <1>2, <1>5 DEF Park, Goto, RunnerState, EngineState, Owned
    <2>2. Owned'  BY <1>t, <1>1, <1>2, <2>1 DEF Owned, Live, Claiming
    <2>3. WakeValid'
      <3>1. \A e \in Engines : engine[e].wake # r  BY <1>t, <2>1, NoneAssumption DEF WakeValid
      <3>2. \A e \in Engines : engine[e].wake \in Engines \cup {None}  BY <1>t DEF EngineState
      <3>. QED  BY <1>t, <1>2, <2>1, <3>1, <3>2 DEF WakeValid
    <2>. QED  BY <1>1, <1>3, <2>2, <2>3 DEF DownEmpty
  <1>6. CASE Timer(r)
    <2>1. /\ runner'[r].pc = "top" /\ runner'[r].engine = runner[r].engine
          /\ runner[r].engine \in Engines
          /\ \A e \in Engines : engine'[e].claimed = engine[e].claimed
          /\ engine'[runner[r].engine].wake = None
          /\ \A e \in Engines : e # runner[r].engine => engine'[e].wake = engine[e].wake
      BY <1>t, <1>2, <1>6 DEF Timer, Goto, RunnerState, EngineState, Owned
    <2>2. Owned'  BY <1>t, <1>1, <1>2, <2>1 DEF Owned, Live, Claiming
    <2>3. WakeValid'
      <3>1. \A e \in Engines : e # runner[r].engine => engine[e].wake # r
        BY <1>t, NoneAssumption DEF WakeValid
      <3>2. \A e \in Engines : engine[e].wake \in Engines \cup {None}  BY <1>t DEF EngineState
      <3>. QED  BY <1>t, <1>2, <2>1, <3>1, <3>2 DEF WakeValid
    <2>. QED  BY <1>1, <1>3, <2>2, <2>3 DEF DownEmpty
  <1>7. CASE Finally(r)
    <2>1. /\ runner'[r].pc = "off" /\ runner[r].pc = "finally"
          /\ \A e \in Engines : engine'[e].claimed = engine[e].claimed /\ engine'[e].wake = engine[e].wake
      BY <1>t, <1>7 DEF Finally, IdleRunner, EngineState
    <2>2. Owned'  BY <1>t, <1>1, <1>2, <2>1 DEF Owned, Live, Claiming
    <2>3. WakeValid'
      <3>1. \A e \in Engines : engine[e].wake # r  BY <1>t, <2>1, NoneAssumption DEF WakeValid
      <3>2. \A e \in Engines : engine[e].wake \in Engines \cup {None}  BY <1>t DEF EngineState
      <3>. QED  BY <1>t, <1>2, <2>1, <3>1, <3>2 DEF WakeValid
    <2>. QED  BY <1>1, <1>3, <2>2, <2>3 DEF DownEmpty
  <1>. QED  BY <1>2, <1>4, <1>5, <1>6, <1>7

\* A request step moves that request alone.
LEMMA RequestMoves ==
  ASSUME TypeInv, NEW h \in Requests, RequestStep(h)
  PROVE  /\ \A g \in Requests : g # h => request'[g] = request[g]
         /\ request[h].pc # "idle"
         /\ UNCHANGED <<up, budget>>
         /\ \/ UNCHANGED <<registered, engine, runner>> /\ (Claiming(h)' => Claiming(h) /\ request'[h].claim = request[h].claim)
            \/ Claim(h) \/ Flag(h) \/ Launch(h)
  <1>t. /\ request \in [Requests -> RequestState]
        /\ Fits(request[h])
    BY DEF TypeInv, TypeOK, RequestShape
  <1>. USE <1>t, NoneAssumption
       DEF RequestGoto, Reply, OnlyRequestChanges, Claiming, RequestState, IdleRequest, Fits, AllOperations
  <1>1. CASE InsertCampaign(h)  BY <1>1 DEF InsertCampaign
  <1>2. CASE InsertMessages(h)  BY <1>2 DEF InsertMessages
  <1>3. CASE Read(h)
    <2>1. CASE Reply(h)  BY <1>3, <2>1 DEF Read
    <2>2. CASE \E pc \in {"claim", "flag"} : RequestGoto(h, pc)  BY <1>3, <2>2 DEF Read
    <2>3. CASE request' = [request EXCEPT ![h].op = "start"]  BY <1>3, <2>3 DEF Read
    <2>4. CASE request' = [request EXCEPT ![h] = [@ EXCEPT !.pc = "readFailed", !.seen = campaign.status]]
      BY <1>3, <2>4 DEF Read
    <2>. HIDE DEF RequestGoto, Reply, RequestState
    <2>. QED  BY <1>3, <2>1, <2>2, <2>3, <2>4 DEF Read, GotoIf
  <1>4. CASE Claim(h)  BY <1>4 DEF Claim
  <1>5. CASE Flag(h)  BY <1>5 DEF Flag
  <1>6. CASE WriteStatus(h)  BY <1>6 DEF WriteStatus
  <1>7. CASE Launch(h)  BY <1>7 DEF Launch
  <1>8. CASE ReadFailed(h)
    <2>1. CASE Reply(h)  BY <1>8, <2>1 DEF ReadFailed
    <2>2. CASE request' = [request EXCEPT ![h] = [@ EXCEPT !.pc = "requeue", !.rows = RowsIn("FAILED")]]
      BY <1>8, <2>2 DEF ReadFailed
    <2>. QED  BY <1>8, <2>1, <2>2 DEF ReadFailed
  <1>9. CASE Requeue(h)
    <2>. DEFINE rest == request[h].rows \ {Oldest(request[h].rows)}
    <2>1. CASE Reply(h)  BY <1>9, <2>1 DEF Requeue
    <2>2. CASE request' = [request EXCEPT ![h].rows = rest]
      <3>1. request'[h].pc = "requeue"  BY <1>9, <2>2 DEF Requeue
      <3>2. \A g \in Requests : g # h => request'[g] = request[g]  BY <2>2
      <3>. QED  BY <1>9, <3>1, <3>2 DEF Requeue
    <2>3. CASE request' = [request EXCEPT ![h] = [@ EXCEPT !.pc = AfterRequeue(h), !.rows = {}]]
      <3>1. request'[h].op = "retry"  BY <1>9, <2>3 DEF Requeue
      <3>2. \A g \in Requests : g # h => request'[g] = request[g]  BY <2>3
      <3>. QED  BY <1>9, <3>1, <3>2 DEF Requeue
    <2>. QED  BY <1>9, <2>1, <2>2, <2>3 DEF Requeue
  <1>10. CASE RequestSyncRead(h)  BY <1>10 DEF RequestSyncRead
  <1>11. CASE RequestSyncWrite(h)  BY <1>11 DEF RequestSyncWrite
  <1>. QED
    BY <1>1, <1>2, <1>3, <1>4, <1>5, <1>6, <1>7, <1>8, <1>9, <1>10, <1>11 DEF RequestStep

\* A request step preserves the memory invariant.
LEMMA MemoryRequest ==
  ASSUME MemoryInv, NEW h \in Requests, RequestStep(h)
  PROVE  (Owned /\ WakeValid /\ DownEmpty)'
  <1>t. /\ TypeInv /\ Owned /\ WakeValid /\ DownEmpty
        /\ runner \in [Engines -> RunnerState]
        /\ engine \in [Engines -> EngineState]
        /\ registered \in Engines \cup {None}
        /\ request \in [Requests -> RequestState]
        /\ Fits(request[h])
    BY DEF MemoryInv, TypeInv, TypeOK, RequestShape
  <1>1. /\ \A g \in Requests : g # h => request'[g] = request[g]
        /\ request[h].pc # "idle"
        /\ UNCHANGED <<up, budget>>
        /\ \/ UNCHANGED <<registered, engine, runner>> /\ (Claiming(h)' => Claiming(h) /\ request'[h].claim = request[h].claim)
           \/ Claim(h) \/ Flag(h) \/ Launch(h)
    BY <1>t, RequestMoves
  <1>2. DownEmpty'  BY <1>t, <1>1 DEF DownEmpty
  <1>3. CASE UNCHANGED <<registered, engine, runner>> /\ (Claiming(h)' => Claiming(h) /\ request'[h].claim = request[h].claim)
    <2>1. Owned'  BY <1>t, <1>1, <1>3 DEF Owned, Live, Claiming
    <2>2. WakeValid'  BY <1>t, <1>3 DEF WakeValid
    <2>. QED  BY <1>2, <2>1, <2>2
  <1>4. CASE Claim(h) /\ CanClaim
    <2>. DEFINE e == NewEngine
    <2>1. /\ e \in Engines /\ ~engine[e].claimed
          /\ registered' = e /\ engine' = [engine EXCEPT ![e] = LiveEngine]
          /\ request'[h].claim = e
          /\ UNCHANGED runner
      <3>1. Unclaimed # {}  BY <1>4 DEF Claim
      <3>2. request' = [request EXCEPT ![h] = [@ EXCEPT !.pc = "writeStatus", !.claim = e]]
        BY <1>4 DEF Claim
      <3>3. request'[h].claim = e  BY <1>t, <3>2 DEF RequestState
      <3>. QED  BY <1>4, <3>1, <3>3, NewEngineIn DEF Claim
    <2>. HIDE DEF e
    <2>2. /\ engine'[e].claimed /\ engine'[e].wake = None
          /\ \A d \in Engines : d # e => engine'[d] = engine[d]
      BY <1>t, <2>1 DEF LiveEngine
    <2>3. ~Live(e) /\ \A g \in Requests : Claiming(g) => request[g].claim # e
      BY <1>t, <2>1 DEF Owned
    <2>4. Owned'  BY <1>t, <1>1, <2>1, <2>2, <2>3, NoneAssumption DEF Owned, Live, Claiming
    <2>5. WakeValid'  BY <1>t, <2>1, <2>2 DEF WakeValid
    <2>. QED  BY <1>2, <2>4, <2>5
  <1>5. CASE Claim(h) /\ ~CanClaim
    <2>1. UNCHANGED <<registered, engine, runner>> /\ ~Claiming(h)'
      BY <1>t, <1>5, NoneAssumption DEF Claim, Reply, IdleRequest, Claiming
    <2>2. Owned'  BY <1>t, <1>1, <2>1 DEF Owned, Live, Claiming
    <2>3. WakeValid'  BY <1>t, <2>1 DEF WakeValid
    <2>. QED  BY <1>2, <2>2, <2>3
  <1>6. CASE Flag(h)
    <2>1. ~Claiming(h)' /\ UNCHANGED registered
      BY <1>t, <1>6 DEF Flag, RequestGoto, Claiming, Fits, RequestState
    <2>2. CASE registered = None
      <3>1. UNCHANGED <<engine, runner>>  BY <1>6, <2>2 DEF Flag
      <3>2. Owned'  BY <1>t, <1>1, <2>1, <3>1 DEF Owned, Live, Claiming
      <3>3. WakeValid'  BY <1>t, <3>1 DEF WakeValid
      <3>. QED  BY <1>2, <3>2, <3>3
    <2>3. CASE registered # None
      <3>. DEFINE s == engine[registered].wake
      <3>1. registered \in Engines  BY <1>t, <2>3
      <3>2. /\ \A e \in Engines : engine'[e].claimed = engine[e].claimed
            /\ engine'[registered].wake = None
            /\ \A e \in Engines : e # registered => engine'[e] = engine[e]
        <4>. DEFINE new == Flagged(engine[registered], request[h].op)
        <4>1. new.wake = None /\ new.claimed = engine[registered].claimed
          BY <1>t, <3>1 DEF Flagged, EngineState
        <4>2. engine' = [engine EXCEPT ![registered] = new]  BY <1>6, <2>3 DEF Flag
        <4>. HIDE DEF new
        <4>. QED  BY <1>t, <3>1, <4>1, <4>2
      <3>3. s = None => UNCHANGED runner  BY <1>6, <2>3 DEF Flag
      <3>4. s # None =>
              /\ s \in Engines /\ runner[s].pc = "sleep" /\ runner[s].engine = registered
              /\ runner'[s].pc = "top" /\ runner'[s].engine = runner[s].engine
              /\ \A q \in Engines : q # s => runner'[q] = runner[q]
        BY <1>t, <1>6, <2>3, <3>1 DEF Flag, WakeValid, EngineState, RunnerState
      <3>. HIDE DEF s
      <3>5. \A q \in Engines : (Live(q)' <=> Live(q)) /\ runner'[q].engine = runner[q].engine
        BY <3>3, <3>4 DEF Live
      <3>6. Owned'  BY <1>t, <1>1, <2>1, <3>2, <3>5 DEF Owned, Claiming
      <3>7. WakeValid'
        <4>1. ASSUME NEW e \in Engines, engine'[e].wake # None
              PROVE  runner'[engine'[e].wake].pc = "sleep" /\ runner'[engine'[e].wake].engine = e
          <5>1. e # registered /\ engine'[e] = engine[e]  BY <3>2, <4>1
          <5>2. engine[e].wake \in Engines  BY <1>t, <4>1, <5>1 DEF EngineState
          <5>3. runner[engine[e].wake].pc = "sleep" /\ runner[engine[e].wake].engine = e
            BY <1>t, <4>1, <5>1 DEF WakeValid
          <5>4. runner'[engine[e].wake] = runner[engine[e].wake]
            BY <3>3, <3>4, <5>1, <5>2, <5>3
          <5>. QED  BY <5>1, <5>3, <5>4
        <4>. QED  BY <4>1 DEF WakeValid
      <3>. QED  BY <1>2, <3>6, <3>7
    <2>. QED  BY <2>2, <2>3
  <1>7. CASE Launch(h)
    <2>. DEFINE r == request[h].claim
    <2>1. Claiming(h)  BY <1>t, <1>7 DEF Launch, Claiming, Fits
    <2>2. /\ r \in Engines /\ engine[r].claimed /\ ~Live(r)
          /\ registered \in Engines /\ engine[registered].claimed
      BY <1>t, <2>1 DEF Owned
    <2>3. /\ UNCHANGED <<registered, engine>>
          /\ runner'[r].pc = "load" /\ runner'[r].engine = registered
          /\ \A q \in Engines : q # r => runner'[q] = runner[q]
          /\ ~Claiming(h)'
      BY <1>t, <1>7, <2>2, NoneAssumption
      DEF Launch, Launched, Reply, IdleRequest, IdleRunner, Claiming, RunnerState
    <2>4. \A g \in Requests : g # h /\ Claiming(g) => request[g].claim # r
      BY <1>t, <2>1 DEF Owned
    <2>. HIDE DEF r
    <2>5. Owned'  BY <1>t, <1>1, <2>2, <2>3, <2>4 DEF Owned, Live, Claiming
    <2>6. WakeValid'
      <3>1. \A e \in Engines : engine[e].wake # r
        BY <1>t, <2>2, NoneAssumption DEF WakeValid, Live
      <3>2. \A e \in Engines : engine[e].wake \in Engines \cup {None}  BY <1>t DEF EngineState
      <3>. QED  BY <1>t, <2>3, <3>1, <3>2 DEF WakeValid
    <2>. QED  BY <1>2, <2>5, <2>6
  <1>. QED  BY <1>1, <1>3, <1>4, <1>5, <1>6, <1>7

\* Faults, arrivals, crashes and boots preserve the memory invariant.
LEMMA MemoryProcess ==
  ASSUME MemoryInv,
         \/ \E h \in Requests : RequestFault(h) \/ (\E op \in Operations : Arrive(h, op))
         \/ Crash \/ Boot \/ BootFault
         \/ UNCHANGED vars
  PROVE  (Owned /\ WakeValid /\ DownEmpty)'
  <1>t. /\ TypeInv /\ Owned /\ WakeValid /\ DownEmpty
        /\ engine \in [Engines -> EngineState]
        /\ runner \in [Engines -> RunnerState]
        /\ request \in [Requests -> RequestState]
    BY DEF MemoryInv, TypeInv, TypeOK
  <1>1. ASSUME NEW h \in Requests,
               /\ \A g \in Requests : g # h => request'[g] = request[g]
               /\ ~Claiming(h)'
               /\ up \/ request[h].pc # "idle"
               /\ UNCHANGED <<up, registered, engine, runner>>
        PROVE  (Owned /\ WakeValid /\ DownEmpty)'
    <2>1. Owned'  BY <1>t, <1>1 DEF Owned, Live, Claiming
    <2>2. WakeValid'  BY <1>t, <1>1 DEF WakeValid
    <2>3. DownEmpty'  BY <1>t, <1>1 DEF DownEmpty
    <2>. QED  BY <2>1, <2>2, <2>3
  <1>2. ASSUME NEW h \in Requests, RequestFault(h) PROVE (Owned /\ WakeValid /\ DownEmpty)'
    BY <1>t, <1>1, <1>2, NoneAssumption DEF RequestFault, RequestFaultPcs, Reply,
       IdleRequest, Claiming
  <1>3. ASSUME NEW h \in Requests, NEW op \in Operations, Arrive(h, op)
        PROVE  (Owned /\ WakeValid /\ DownEmpty)'
    <2>1. request'[h].pc \in {"insertCampaign", "read"}  BY <1>t, <1>3 DEF Arrive, RequestState
    <2>. QED  BY <1>t, <1>1, <1>3, <2>1 DEF Arrive, Claiming
  <1>4. ASSUME Crash PROVE (Owned /\ WakeValid /\ DownEmpty)'
    <2>1. /\ \A r \in Engines : ~Live(r)' /\ engine'[r].wake = None
          /\ \A h \in Requests : request'[h].pc = "idle" /\ ~Claiming(h)'
          /\ registered' = None
      BY <1>4 DEF Crash, IdleRunner, IdleRequest, FreshEngine, Live, Claiming
    <2>. QED  BY <2>1 DEF Owned, WakeValid, DownEmpty
  <1>5. ASSUME Boot PROVE (Owned /\ WakeValid /\ DownEmpty)'
    <2>1. /\ registered = None
          /\ \A r \in Engines : ~Live(r)
          /\ \A h \in Requests : request[h].pc = "idle"
          /\ up' /\ UNCHANGED request
      BY <1>t, <1>5 DEF Boot, DownEmpty
    <2>2. CASE UNCHANGED <<registered, engine, runner>>
      BY <1>t, <2>1, <2>2 DEF Owned, WakeValid, DownEmpty, Live, Claiming
    <2>3. CASE ~UNCHANGED <<registered, engine, runner>>
      <3>. DEFINE e == NewEngine
      <3>1. /\ Unclaimed # {}
            /\ registered' = e
            /\ engine' = [engine EXCEPT ![e] = LiveEngine]
            /\ runner' = Launched(e, e)
        BY <1>5, <2>3 DEF Boot
      <3>2. e \in Engines  BY <3>1, NewEngineIn
      <3>. HIDE DEF e
      <3>3. /\ engine'[e].claimed /\ engine'[e].wake = None
            /\ \A d \in Engines : d # e => engine'[d] = engine[d]
            /\ runner'[e].engine = e
            /\ \A d \in Engines : d # e => runner'[d] = runner[d]
        BY <1>t, <3>1, <3>2 DEF LiveEngine, Launched, IdleRunner
      <3>4. \A d \in Engines : engine[d].wake = None
        <4>1. \A d \in Engines : engine[d].wake \in Engines \cup {None}  BY <1>t DEF EngineState
        <4>. QED  BY <1>t, <2>1, <4>1 DEF WakeValid, Live
      <3>5. Owned'  BY <2>1, <3>1, <3>2, <3>3 DEF Owned, Live, Claiming
      <3>6. WakeValid'  BY <3>3, <3>4 DEF WakeValid
      <3>. QED  BY <2>1, <3>5, <3>6 DEF DownEmpty
    <2>. QED  BY <2>2, <2>3
  <1>6. ASSUME BootFault PROVE (Owned /\ WakeValid /\ DownEmpty)'
    BY <1>t, <1>6 DEF BootFault, Owned, WakeValid, DownEmpty, Live, Claiming
  <1>7. ASSUME UNCHANGED vars PROVE (Owned /\ WakeValid /\ DownEmpty)'
    BY <1>t, <1>7 DEF vars, Owned, WakeValid, DownEmpty, Live, Claiming
  <1>. QED  BY <1>2, <1>3, <1>4, <1>5, <1>6, <1>7

\* Every step preserves the memory invariant.
LEMMA MemoryStep == MemoryInv /\ [Next]_vars => MemoryInv'
  <1>. SUFFICES ASSUME MemoryInv, [Next]_vars PROVE MemoryInv'  OBVIOUS
  <1>1. TypeInv'  BY TypeStep DEF MemoryInv
  <1>2. (Owned /\ WakeValid /\ DownEmpty)'
    BY MemoryRunner, MemoryRequest, MemoryProcess DEF Next
  <1>. QED  BY <1>1, <1>2 DEF MemoryInv

=============================================================================
