------------------------- MODULE CampaignEngineSafety -------------------------
(***************************************************************************)
(* What the runners of a campaign may never do, for every value of the     *)
(* constants: a halted runner takes no further message; as long as nobody  *)
(* pauses there is one runner, and as long as the requests come one at a   *)
(* time there is one active runner; a claim and a RUNNING campaign have a  *)
(* runner, as long as no query fails.                                      *)
(***************************************************************************)
EXTENDS CampaignEngineProofs

-----------------------------------------------------------------------------
(* What the steps do to the memory of the process and to the rows.         *)

\* A runner step moves that runner and clears, at its end, the running flag of
\* its own object, if that one is still registered.
LEMMA RunnerMemory ==
  ASSUME MemoryInv, NEW r \in Engines, RunnerStep(r) \/ RunnerFault(r)
  PROVE  /\ UNCHANGED <<up, registered, request>>
         /\ up /\ Live(r) /\ runner[r].engine \in Engines
         /\ \A q \in Engines : q # r => runner'[q] = runner[q]
         /\ \A e \in Engines : Halted(e)' <=> Halted(e)
         /\ \/ /\ Live(r)' /\ runner'[r].engine = runner[r].engine
               /\ \A e \in Engines : engine'[e].running = engine[e].running
            \/ /\ Finally(r) /\ ~Live(r)'
               /\ runner[r].engine = registered => ~engine'[registered].running
               /\ \A e \in Engines :
                    e # registered \/ e # runner[r].engine => engine'[e].running = engine[e].running
  <1>t. /\ TypeInv /\ Owned /\ DownEmpty
        /\ engine \in [Engines -> EngineState]
        /\ runner \in [Engines -> RunnerState]
    BY DEF MemoryInv, TypeInv, TypeOK
  <1>1. UNCHANGED <<up, registered, request>>
    BY <1>t, RunnerKeepsRest DEF RunnerFault
  <1>2. /\ \A q \in Engines : q # r => runner'[q] = runner[q]
        /\ Live(r)
        /\ \/ Live(r)' /\ runner'[r].engine = runner[r].engine /\ UNCHANGED engine
           \/ Park(r) \/ Timer(r) \/ Finally(r)
    <2>1. CASE RunnerStep(r)  BY <1>t, <2>1, RunnerMoves
    <2>2. CASE RunnerFault(r)
      BY <1>t, <2>2 DEF RunnerFault, IdleRunner, Live, RunnerState, TryPcs, FailPcs
    <2>. QED  BY <2>1, <2>2
  <1>3. up /\ runner[r].engine \in Engines  BY <1>t, <1>2 DEF DownEmpty, Owned
  <1>4. CASE Live(r)' /\ runner'[r].engine = runner[r].engine /\ UNCHANGED engine
    BY <1>1, <1>2, <1>3, <1>4 DEF Halted
  <1>5. CASE Park(r) \/ Timer(r)
    <2>1. /\ runner'[r].engine = runner[r].engine /\ runner'[r].pc # "off"
          /\ \A e \in Engines :
               /\ engine'[e].paused = engine[e].paused /\ engine'[e].stopped = engine[e].stopped
               /\ engine'[e].running = engine[e].running
      BY <1>t, <1>5 DEF Park, Timer, Goto, RunnerState, EngineState
    <2>. QED  BY <1>1, <1>2, <1>3, <2>1 DEF Halted, Live
  <1>6. CASE Finally(r)
    <2>1. /\ runner'[r].pc = "off"
          /\ \A e \in Engines :
               engine'[e].paused = engine[e].paused /\ engine'[e].stopped = engine[e].stopped
          /\ runner[r].engine = registered => ~engine'[registered].running
          /\ \A e \in Engines :
               e # registered \/ e # runner[r].engine => engine'[e].running = engine[e].running
      BY <1>t, <1>3, <1>6 DEF Finally, IdleRunner, EngineState
    <2>. QED  BY <1>1, <1>2, <1>3, <1>6, <2>1 DEF Halted, Live
  <1>. QED  BY <1>2, <1>4, <1>5, <1>6

\* A claim that is admitted registers a fresh object.
LEMMA ClaimMemory ==
  ASSUME MemoryInv, NEW h \in Requests, Claim(h)
  PROVE  /\ UNCHANGED runner
         /\ \/ /\ ~CanClaim /\ ~Claiming(h)'
               /\ UNCHANGED <<registered, engine>>
            \/ /\ CanClaim /\ Claiming(h)'
               /\ registered' \in Engines /\ ~engine[registered'].claimed
               /\ engine'[registered'] = LiveEngine
               /\ \A e \in Engines : e # registered' => engine'[e] = engine[e]
               /\ request'[h].claim = registered'
               /\ request'[h].pc = "writeStatus"
  <1>t. /\ TypeInv
        /\ engine \in [Engines -> EngineState]
        /\ request \in [Requests -> RequestState]
        /\ Fits(request[h])
    BY DEF MemoryInv, TypeInv, TypeOK, RequestShape
  <1>1. CASE ~CanClaim
    BY <1>t, <1>1, NoneAssumption DEF Claim, Reply, IdleRequest, Claiming
  <1>2. CASE CanClaim
    <2>. DEFINE e == NewEngine
                new == [request[h] EXCEPT !.pc = "writeStatus", !.claim = e]
    <2>1. /\ Unclaimed # {}
          /\ registered' = e
          /\ engine' = [engine EXCEPT ![e] = LiveEngine]
          /\ request' = [request EXCEPT ![h] = new]
          /\ UNCHANGED runner
      BY <1>2 DEF Claim
    <2>2. e \in Engines /\ ~engine[e].claimed  BY <2>1, NewEngineIn
    <2>3. new.pc = "writeStatus" /\ new.claim = e /\ new.op = "start"
      BY <1>t, <1>2 DEF Claim, Fits, RequestState
    <2>. HIDE DEF e, new
    <2>. QED  BY <1>t, <1>2, <2>1, <2>2, <2>3 DEF Claiming
  <1>. QED  BY <1>1, <1>2

\* A flag halts the registered object, and at most wakes its runner.
LEMMA FlagMemory ==
  ASSUME MemoryInv, NEW h \in Requests, Flag(h)
  PROVE  /\ UNCHANGED registered /\ ~Claiming(h) /\ ~Claiming(h)'
         /\ request'[h].pc = "writeStatus"
         /\ \A r \in Engines : (Live(r)' <=> Live(r)) /\ runner'[r].engine = runner[r].engine
         /\ \A e \in Engines : engine'[e].running = engine[e].running
         /\ \A e \in Engines : Halted(e) => Halted(e)'
         /\ registered # None => Halted(registered)'
  <1>t. /\ TypeInv /\ WakeValid
        /\ engine \in [Engines -> EngineState]
        /\ runner \in [Engines -> RunnerState]
        /\ request \in [Requests -> RequestState]
        /\ registered \in Engines \cup {None}
        /\ Fits(request[h])
    BY DEF MemoryInv, TypeInv, TypeOK, RequestShape
  <1>1. UNCHANGED registered /\ ~Claiming(h) /\ ~Claiming(h)' /\ request'[h].pc = "writeStatus"
    BY <1>t DEF Flag, RequestGoto, Claiming, Fits, RequestState
  <1>2. CASE registered = None
    BY <1>1, <1>2 DEF Flag, Halted, Live
  <1>3. CASE registered # None
    <2>. DEFINE new == Flagged(engine[registered], request[h].op)
                s == engine[registered].wake
    <2>1. /\ new.running = engine[registered].running
          /\ new.paused \/ new.stopped
      BY <1>t, <1>3 DEF Flagged, EngineState
    <2>2. engine' = [engine EXCEPT ![registered] = new]  BY <1>3 DEF Flag
    <2>3. runner' = IF s = None THEN runner ELSE [runner EXCEPT ![s].pc = "top"]
      BY <1>3 DEF Flag
    <2>4. s # None => s \in Engines /\ runner[s].pc = "sleep"
      BY <1>t, <1>3 DEF WakeValid, EngineState
    <2>. HIDE DEF new, s
    <2>5. \A r \in Engines : (Live(r)' <=> Live(r)) /\ runner'[r].engine = runner[r].engine
      BY <1>t, <2>3, <2>4 DEF Live, RunnerState
    <2>6. /\ engine'[registered] = new
          /\ \A e \in Engines : e # registered => engine'[e] = engine[e]
      BY <1>t, <1>3, <2>2
    <2>. QED  BY <1>1, <2>1, <2>5, <2>6 DEF Halted
  <1>. QED  BY <1>2, <1>3

\* A launch starts the runner of the claim on whatever object is registered.
LEMMA LaunchMemory ==
  ASSUME MemoryInv, NEW h \in Requests, Launch(h)
  PROVE  /\ UNCHANGED <<registered, engine>>
         /\ Claiming(h) /\ ~Claiming(h)'
         /\ registered \in Engines
         /\ request[h].claim \in Engines /\ ~Live(request[h].claim)
         /\ runner'[request[h].claim] = [IdleRunner EXCEPT !.pc = "load", !.engine = registered]
         /\ \A q \in Engines : q # request[h].claim => runner'[q] = runner[q]
  <1>t. /\ TypeInv /\ Owned
        /\ runner \in [Engines -> RunnerState]
        /\ request \in [Requests -> RequestState]
        /\ registered \in Engines \cup {None}
        /\ Fits(request[h])
    BY DEF MemoryInv, TypeInv, TypeOK, RequestShape
  <1>1. Claiming(h)  BY <1>t DEF Launch, Claiming, Fits
  <1>2. /\ request[h].claim \in Engines /\ ~Live(request[h].claim) /\ registered \in Engines
    BY <1>t, <1>1 DEF Owned
  <1>3. ~Claiming(h)'  BY <1>t, NoneAssumption DEF Launch, Reply, IdleRequest, Claiming
  <1>. QED  BY <1>t, <1>1, <1>2, <1>3 DEF Launch, Launched

\* The boot finds an empty memory, and leaves it empty unless the campaign is RUNNING.
LEMMA BootMemory ==
  ASSUME MemoryInv, Boot
  PROVE  /\ registered = None
         /\ \A r \in Engines : ~Live(r)
         /\ \A h \in Requests : request[h].pc = "idle" /\ ~Claiming(h)
         /\ UNCHANGED <<campaign, message, request, budget, accepted>>
         /\ \/ campaign.status # "RUNNING" /\ UNCHANGED <<registered, engine, runner>>
            \/ /\ campaign.status = "RUNNING"
               /\ registered' \in Engines
               /\ engine'[registered'] = LiveEngine
               /\ \A e \in Engines : e # registered' => engine'[e] = engine[e]
               /\ runner'[registered'] = [IdleRunner EXCEPT !.pc = "load", !.engine = registered']
               /\ \A q \in Engines : q # registered' => runner'[q] = runner[q]
  <1>t. /\ TypeInv /\ DownEmpty
        /\ engine \in [Engines -> EngineState]
        /\ runner \in [Engines -> RunnerState]
    BY DEF MemoryInv, TypeInv, TypeOK
  <1>1. /\ registered = None
        /\ \A r \in Engines : ~Live(r)
        /\ \A h \in Requests : request[h].pc = "idle" /\ ~Claiming(h)
    BY <1>t DEF Boot, DownEmpty, Claiming
  <1>2. CASE campaign.status # "RUNNING"  BY <1>1, <1>2 DEF Boot
  <1>3. CASE campaign.status = "RUNNING"
    <2>. DEFINE e == NewEngine
    <2>1. /\ Unclaimed # {}
          /\ registered' = e
          /\ engine' = [engine EXCEPT ![e] = LiveEngine]
          /\ runner' = Launched(e, e)
      BY <1>1, <1>3 DEF Boot, CanClaim
    <2>2. e \in Engines  BY <2>1, NewEngineIn
    <2>. HIDE DEF e
    <2>. QED  BY <1>t, <1>1, <1>3, <2>1, <2>2 DEF Launched, Boot
  <1>. QED  BY <1>2, <1>3

\* A runner whose attempt Meta may have accepted, about to settle the row.
Settling(r) ==
  \/ runner[r].pc = "accepted"
  \/ runner[r].pc = "record" /\ runner[r].result # "transient"

\* Four kinds of runner step pick up, send or settle a row.
LEMMA RunnerEffects ==
  ASSUME TypeInv, NEW r \in Engines, RunnerStep(r)
  PROVE  /\ \/ /\ UNCHANGED <<message, accepted>>
               /\ HoldsRow(r)' =>
                    /\ HoldsRow(r)
                    /\ runner'[r].msg = runner[r].msg /\ runner'[r].attempts = runner[r].attempts
               /\ Settling(r) => Settling(r)' /\ runner'[r].msg = runner[r].msg
            \/ Fetch(r) \/ MetaAccepts(r) \/ SettleUnsent(r) \/ Record(r)
         /\ campaign'.status \in {campaign.status, "COMPLETED", "FAILED"}
  <1>t. /\ runner \in [Engines -> RunnerState]
        /\ campaign \in [status : CampaignStatus \cup {None}, counts : Counts]
    BY DEF TypeInv, TypeOK
  <1>. USE <1>t DEF Goto, OnlyRunnerChanges, HoldsRow, Settling, RunnerState
  <1>1. CASE Load(r)  BY <1>1 DEF Load
  <1>2. CASE Top(r)  BY <1>2 DEF Top, HaltCheck
  <1>3. CASE Fetch(r)  BY <1>3 DEF Fetch
  <1>4. CASE Picked(r)  BY <1>4 DEF Picked, HaltCheck
  <1>5. CASE Prepare(r)  BY <1>5 DEF Prepare
  <1>6. CASE SettleUnsent(r)  BY <1>6 DEF SettleUnsent
  <1>7. CASE MetaAccepts(r)  BY <1>7 DEF MetaAccepts
  <1>8. CASE MetaAnswers(r)  BY <1>8 DEF MetaAnswers
  <1>9. CASE MetaRefuses(r)  BY <1>9 DEF MetaRefuses
  <1>10. CASE Record(r)  BY <1>10 DEF Record
  <1>11. CASE SyncRead(r)  BY <1>11 DEF SyncRead
  <1>12. CASE SyncWrite(r)  BY <1>12 DEF SyncWrite
  <1>13. CASE Synced(r)  BY <1>13 DEF Synced, HaltCheck
  <1>14. CASE LookAhead(r)  BY <1>14 DEF LookAhead
  <1>15. CASE Park(r)  BY <1>15 DEF Park
  <1>16. CASE Timer(r)  BY <1>16 DEF Timer
  <1>17. CASE Drained(r)  BY <1>17 DEF Drained, HaltCheck
  <1>18. CASE CompleteFind(r)  BY <1>18 DEF CompleteFind
  <1>19. CASE CompleteCount(r)  BY <1>19 DEF CompleteCount
  <1>20. CASE CompleteWrite(r)  BY <1>20 DEF CompleteWrite
  <1>21. CASE FailFind(r)  BY <1>21 DEF FailFind
  <1>22. CASE FailCount(r)  BY <1>22 DEF FailCount
  <1>23. CASE FailWrite(r)  BY <1>23 DEF FailWrite
  <1>24. CASE Finally(r)  BY <1>24 DEF Finally, IdleRunner
  <1>. QED
    BY <1>1, <1>2, <1>3, <1>4, <1>5, <1>6, <1>7, <1>8, <1>9, <1>10, <1>11, <1>12, <1>13,
       <1>14, <1>15, <1>16, <1>17, <1>18, <1>19, <1>20, <1>21, <1>22, <1>23, <1>24
    DEF RunnerStep

-----------------------------------------------------------------------------
(* Halting is final.                                                       *)

\* No step clears the halt of an object in use: a claim installs a fresh one.
LEMMA HaltStable ==
  ASSUME MemoryInv, [Next]_vars, ~(Crash), NEW e \in Engines, engine[e].claimed, Halted(e)
  PROVE  Halted(e)'
  <1>t. /\ TypeInv
        /\ engine \in [Engines -> EngineState]
        /\ runner \in [Engines -> RunnerState]
        /\ registered \in Engines \cup {None}
    BY DEF MemoryInv, TypeInv, TypeOK
  <1>0. ASSUME engine'[e].paused = engine[e].paused, engine'[e].stopped = engine[e].stopped
        PROVE  Halted(e)'
    BY <1>0 DEF Halted
  <1>1. ASSUME NEW r \in Engines, RunnerStep(r) PROVE Halted(e)'
    <2>1. engine' = engine \/ Park(r) \/ Timer(r) \/ Finally(r)  BY <1>t, <1>1, RunnerMoves
    <2>2. CASE engine' = engine  BY <1>0, <2>2
    <2>3. CASE Park(r)  BY <1>t, <1>0, <2>3 DEF Park, EngineState
    <2>4. CASE Timer(r)  BY <1>t, <1>0, <2>4 DEF Timer, EngineState
    <2>5. CASE Finally(r)  BY <1>t, <1>0, <2>5 DEF Finally, EngineState
    <2>. QED  BY <2>1, <2>2, <2>3, <2>4, <2>5
  <1>2. ASSUME NEW h \in Requests, RequestStep(h) PROVE Halted(e)'
    <2>1. engine' = engine \/ Claim(h) \/ Flag(h) \/ Launch(h)  BY <1>t, <1>2, RequestMoves
    <2>2. CASE engine' = engine  BY <1>0, <2>2
    <2>3. CASE Claim(h)
      <3>1. CASE UNCHANGED engine  BY <1>0, <3>1
      <3>2. CASE Unclaimed # {} /\ engine' = [engine EXCEPT ![NewEngine] = LiveEngine]
        <4>1. NewEngine # e  BY <3>2, NewEngineIn
        <4>. QED  BY <1>t, <1>0, <3>2, <4>1
      <3>. QED  BY <2>3, <3>1, <3>2 DEF Claim
    <2>4. CASE Flag(h)
      <3>1. CASE UNCHANGED engine  BY <1>0, <3>1
      <3>2. CASE registered # None
        <4>. DEFINE new == Flagged(engine[registered], request[h].op)
        <4>1. new.paused \/ new.stopped  BY <1>t, <3>2 DEF Flagged, EngineState
        <4>2. engine' = [engine EXCEPT ![registered] = new]  BY <2>4, <3>2 DEF Flag
        <4>. HIDE DEF new
        <4>3. CASE e = registered  BY <1>t, <4>1, <4>2, <4>3 DEF Halted
        <4>4. CASE e # registered  BY <1>t, <1>0, <4>2, <4>4
        <4>. QED  BY <4>3, <4>4
      <3>. QED  BY <2>4, <3>1, <3>2 DEF Flag
    <2>5. CASE Launch(h)  BY <1>0, <2>5 DEF Launch
    <2>. QED  BY <2>1, <2>2, <2>3, <2>4, <2>5
  <1>3. ASSUME Boot PROVE Halted(e)'
    <2>1. CASE UNCHANGED engine  BY <1>0, <2>1
    <2>2. CASE Unclaimed # {} /\ engine' = [engine EXCEPT ![NewEngine] = LiveEngine]
      <3>1. NewEngine # e  BY <2>2, NewEngineIn
      <3>. QED  BY <1>t, <1>0, <2>2, <3>1
    <2>. QED  BY <1>3, <2>1, <2>2 DEF Boot
  <1>4. ASSUME \/ \E r \in Engines : RunnerFault(r)
               \/ \E h \in Requests : RequestFault(h) \/ (\E op \in Operations : Arrive(h, op))
               \/ BootFault \/ UNCHANGED vars
        PROVE  Halted(e)'
    BY <1>0, <1>4 DEF RunnerFault, RequestFault, Arrive, BootFault, vars
  <1>. QED  BY <1>1, <1>2, <1>3, <1>4 DEF Next

\* The halted runner's own steps lead away from the next message.
LEMMA HaltedSteps ==
  ASSUME TypeInv, NEW r \in Engines, RunnerStep(r) \/ RunnerFault(r), WindingDown(r)
  PROVE  /\ runner'[r].pc = "off" \/ runner'[r].engine = runner[r].engine
         /\ ~Delivering(r)'
  <1>t. runner \in [Engines -> RunnerState]  BY DEF TypeInv, TypeOK
  <1>. USE <1>t DEF Goto, WindingDown, Delivering, RunnerState
  <1>1. CASE Load(r)  BY <1>1 DEF Load
  <1>2. CASE Top(r)  BY <1>2 DEF Top, HaltCheck
  <1>3. CASE Fetch(r)
    <2>1. CASE RowsIn("PENDING") = {}  BY <1>3, <2>1 DEF Fetch
    <2>2. CASE RowsIn("PENDING") # {}
      <3>. DEFINE m == Oldest(RowsIn("PENDING"))
                  new == [runner[r] EXCEPT !.pc = "picked", !.msg = m, !.attempts = message[m].attempts]
      <3>1. new.pc = "picked" /\ new.engine = runner[r].engine  OBVIOUS
      <3>2. runner' = [runner EXCEPT ![r] = new]  BY <1>3, <2>2 DEF Fetch
      <3>. HIDE DEF new
      <3>. QED  BY <3>1, <3>2
    <2>. QED  BY <2>1, <2>2
  <1>4. CASE Picked(r)  BY <1>4 DEF Picked, HaltCheck
  <1>5. CASE Prepare(r)  BY <1>5 DEF Prepare
  <1>6. CASE SettleUnsent(r)  BY <1>6 DEF SettleUnsent
  <1>7. CASE MetaAccepts(r)  BY <1>7 DEF MetaAccepts
  <1>8. CASE MetaAnswers(r)  BY <1>8 DEF MetaAnswers
  <1>9. CASE MetaRefuses(r)  BY <1>9 DEF MetaRefuses
  <1>10. CASE Record(r)  BY <1>10 DEF Record
  <1>11. CASE SyncRead(r)  BY <1>11 DEF SyncRead
  <1>12. CASE SyncWrite(r)  BY <1>12 DEF SyncWrite
  <1>13. CASE Synced(r)  BY <1>13 DEF Synced, HaltCheck
  <1>14. CASE LookAhead(r)  BY <1>14 DEF LookAhead
  <1>15. CASE Park(r)  BY <1>15 DEF Park
  <1>16. CASE Timer(r)  BY <1>16 DEF Timer
  <1>17. CASE Drained(r)  BY <1>17 DEF Drained, HaltCheck
  <1>18. CASE CompleteFind(r)  BY <1>18 DEF CompleteFind
  <1>19. CASE CompleteCount(r)  BY <1>19 DEF CompleteCount
  <1>20. CASE CompleteWrite(r)  BY <1>20 DEF CompleteWrite
  <1>21. CASE FailFind(r)  BY <1>21 DEF FailFind
  <1>22. CASE FailCount(r)  BY <1>22 DEF FailCount
  <1>23. CASE FailWrite(r)  BY <1>23 DEF FailWrite
  <1>24. CASE Finally(r)  BY <1>24 DEF Finally, IdleRunner
  <1>25. CASE RunnerFault(r)  BY <1>25 DEF RunnerFault, IdleRunner
  <1>. QED
    BY <1>1, <1>2, <1>3, <1>4, <1>5, <1>6, <1>7, <1>8, <1>9, <1>10, <1>11, <1>12, <1>13,
       <1>14, <1>15, <1>16, <1>17, <1>18, <1>19, <1>20, <1>21, <1>22, <1>23, <1>24, <1>25
       DEF RunnerStep

\* pause and stop let through at most the message in hand: a runner that was
\* halted while it delivered nothing never delivers again.
THEOREM HaltIsFinal == Spec => WindingDownIsFinal
  <1>1. Init => MemoryInv  BY MemoryInit
  <1>2. MemoryInv /\ [Next]_vars => MemoryInv'  BY MemoryStep
  <1>3. ASSUME MemoryInv, [Next]_vars, NEW r \in Engines, WindingDown(r)
        PROVE  WindingDown(r)' \/ ~Live(r)'
    <2>t. /\ TypeInv /\ Owned /\ WakeValid /\ DownEmpty
          /\ runner \in [Engines -> RunnerState]
          /\ engine \in [Engines -> EngineState]
      BY <1>3 DEF MemoryInv, TypeInv, TypeOK
    <2>. PICK e \in Engines : e = runner[r].engine
      BY <1>3, <2>t DEF WindingDown, Owned
    <2>0. /\ Live(r) /\ Halted(e) /\ ~Delivering(r)
          /\ e \in Engines /\ e = runner[r].engine /\ engine[e].claimed
      BY <1>3, <2>t DEF WindingDown, Owned
    <2>1. CASE Crash  BY <2>1 DEF Crash, IdleRunner, Live
    <2>2. CASE ~Crash
      <3>1. Halted(e)'  BY <1>3, <2>0, <2>2, HaltStable
      <3>2. ASSUME runner'[r].engine = e, ~Delivering(r)'
            PROVE  WindingDown(r)' \/ ~Live(r)'
        BY <3>1, <3>2 DEF WindingDown, Halted
      <3>3. CASE runner'[r] = runner[r]
        BY <2>0, <3>2, <3>3 DEF Delivering
      <3>4. ASSUME NEW q \in Engines, RunnerStep(q) \/ RunnerFault(q) PROVE WindingDown(r)' \/ ~Live(r)'
        <4>1. CASE q = r
          <5>1. /\ runner'[r].pc = "off" \/ runner'[r].engine = e
                /\ ~Delivering(r)'
            BY <1>3, <2>t, <3>4, <4>1, HaltedSteps
          <5>. QED  BY <3>2, <5>1 DEF Live
        <4>2. CASE q # r
          <5>1. runner'[r] = runner[r]
            BY <2>t, <3>4, <4>2, RunnerMoves DEF RunnerFault
          <5>. QED  BY <3>3, <5>1
        <4>. QED  BY <4>1, <4>2
      <3>5. ASSUME NEW h \in Requests, RequestStep(h) PROVE WindingDown(r)' \/ ~Live(r)'
        <4>1. UNCHANGED runner \/ Claim(h) \/ Flag(h) \/ Launch(h)  BY <2>t, <3>5, RequestMoves
        <4>2. CASE UNCHANGED runner  BY <3>3, <4>2
        <4>3. CASE Claim(h)  BY <3>3, <4>3 DEF Claim
        <4>4. CASE Flag(h)
          <5>1. runner' = runner \/ \E s : runner' = [runner EXCEPT ![s].pc = "top"]
            BY <4>4 DEF Flag
          <5>2. runner'[r].engine = e /\ (runner'[r].pc = "top" \/ runner'[r].pc = runner[r].pc)
            BY <2>t, <5>1 DEF RunnerState
          <5>. QED  BY <2>0, <3>2, <5>2 DEF Delivering
        <4>5. CASE Launch(h)
          <5>1. Claiming(h)  BY <2>t, <4>5 DEF Launch, Claiming, TypeInv, RequestShape, Fits
          <5>2. request[h].claim # r  BY <2>0, <2>t, <5>1 DEF Owned
          <5>. QED  BY <2>t, <3>3, <4>5, <5>2 DEF Launch, Launched
        <4>. QED  BY <4>1, <4>2, <4>3, <4>4, <4>5
      <3>6. CASE Boot  BY <2>0, <2>t, <3>6 DEF Boot, DownEmpty
      <3>7. ASSUME \/ \E h \in Requests : RequestFault(h) \/ (\E op \in Operations : Arrive(h, op))
                   \/ BootFault \/ UNCHANGED vars
            PROVE  WindingDown(r)' \/ ~Live(r)'
        BY <3>3, <3>7 DEF RequestFault, Arrive, BootFault, vars
      <3>. QED  BY <1>3, <2>2, <3>4, <3>5, <3>6, <3>7 DEF Next
    <2>. QED  BY <2>1, <2>2
  <1>4. MemoryInv /\ [Next]_vars => [\A r \in Engines : WindingDown(r) => WindingDown(r)' \/ ~Live(r)']_vars
    BY <1>3
  <1>. QED  BY <1>1, <1>2, <1>4, PTL DEF Spec, WindingDownIsFinal

-----------------------------------------------------------------------------
(* One runner, as long as nobody pauses.                                   *)

\* Without pause no object is ever paused, and the registered object says
\* running as long as a runner works on it or a request is about to launch
\* one: of these there is at most one.
OneOwner ==
  /\ \A e \in Engines : ~engine[e].paused
  /\ \A r \in Engines : Live(r) => runner[r].engine = registered /\ engine[registered].running
  /\ \A h \in Requests : Claiming(h) => engine[registered].running
  /\ OneLiveRunner
  /\ \A g, h \in Requests : Claiming(g) /\ Claiming(h) => g = h
  /\ \A r \in Engines, h \in Requests : ~(Live(r) /\ Claiming(h))

ExclusiveInv == MemoryInv /\ OneOwner

\* The owner is left alone by a step that installs no object and starts no
\* runner.
LEMMA OwnerKept ==
  ASSUME ExclusiveInv, UNCHANGED registered,
         \A e \in Engines :
           engine'[e].paused = engine[e].paused /\ engine'[e].running = engine[e].running,
         \A r \in Engines : Live(r)' => Live(r) /\ runner'[r].engine = runner[r].engine,
         \A h \in Requests : Claiming(h)' => Claiming(h)
  PROVE  OneOwner'
  <1>1. /\ OneOwner
        /\ registered \in Engines \cup {None}
        /\ \A r \in Engines : Live(r) => registered \in Engines
        /\ \A h \in Requests : Claiming(h) => registered \in Engines
    BY DEF ExclusiveInv, OneOwner, MemoryInv, TypeInv, TypeOK, Owned
  <1>. QED  BY <1>1 DEF OneOwner, OneLiveRunner

\* A runner keeps the campaign to itself until it releases the claim.
LEMMA OwnerRunner ==
  ASSUME ExclusiveInv, NEW r \in Engines, RunnerStep(r) \/ RunnerFault(r)
  PROVE  OneOwner'
  <1>t. /\ TypeInv /\ OneOwner /\ Owned
        /\ engine \in [Engines -> EngineState]
        /\ runner \in [Engines -> RunnerState]
    BY DEF ExclusiveInv, MemoryInv, TypeInv, TypeOK
  <1>1. UNCHANGED <<registered, request>>
    BY <1>t, RunnerKeepsRest DEF RunnerFault
  <1>2. \A h \in Requests : Claiming(h)' <=> Claiming(h)  BY <1>1 DEF Claiming
  <1>3. /\ \A q \in Engines : q # r => runner'[q] = runner[q]
        /\ Live(r)
        /\ \/ Live(r)' /\ runner'[r].engine = runner[r].engine /\ UNCHANGED engine
           \/ Park(r) \/ Timer(r) \/ Finally(r)
    <2>1. CASE RunnerStep(r)  BY <1>t, <2>1, RunnerMoves
    <2>2. CASE RunnerFault(r)
      BY <1>t, <2>2 DEF RunnerFault, IdleRunner, Live, RunnerState, TryPcs, FailPcs
    <2>. QED  BY <2>1, <2>2
  <1>4. CASE Live(r)' /\ runner'[r].engine = runner[r].engine /\ UNCHANGED engine
    BY <1>1, <1>2, <1>3, <1>4, OwnerKept DEF Live
  <1>5. CASE Park(r) \/ Timer(r)
    <2>1. /\ runner'[r].engine = runner[r].engine
          /\ \A e \in Engines :
               engine'[e].paused = engine[e].paused /\ engine'[e].running = engine[e].running
      BY <1>t, <1>5 DEF Park, Timer, Goto, RunnerState, EngineState
    <2>. QED  BY <1>1, <1>2, <1>3, <2>1, OwnerKept DEF Live
  <1>6. CASE Finally(r)
    <2>1. /\ \A q \in Engines : ~Live(q)'
          /\ \A h \in Requests : ~Claiming(h)'
          /\ \A e \in Engines : engine'[e].paused = engine[e].paused
      <3>1. ~Live(r)'  BY <1>t, <1>6 DEF Finally, IdleRunner, Live
      <3>2. \A q \in Engines : q # r => ~Live(q)'
        BY <1>t, <1>3 DEF Live, OneOwner, OneLiveRunner
      <3>3. \A h \in Requests : ~Claiming(h)'  BY <1>t, <1>2, <1>3 DEF OneOwner
      <3>4. \A e \in Engines : engine'[e].paused = engine[e].paused
        BY <1>t, <1>6 DEF Finally, EngineState
      <3>. QED  BY <3>1, <3>2, <3>3, <3>4
    <2>. QED  BY <1>t, <2>1 DEF OneOwner, OneLiveRunner
  <1>. QED  BY <1>3, <1>4, <1>5, <1>6

\* A request takes the campaign over only when nobody owns it.
LEMMA OwnerRequest ==
  ASSUME ExclusiveInv, "pause" \notin Operations, NEW h \in Requests, RequestStep(h)
  PROVE  OneOwner'
  <1>t. /\ TypeInv /\ OneOwner /\ Owned
        /\ Fits(request[h])
        /\ engine \in [Engines -> EngineState]
        /\ runner \in [Engines -> RunnerState]
        /\ request \in [Requests -> RequestState]
        /\ registered \in Engines \cup {None}
    BY DEF ExclusiveInv, MemoryInv, TypeInv, TypeOK, RequestShape
  <1>1. /\ \A g \in Requests : g # h => request'[g] = request[g]
        /\ \/ UNCHANGED <<registered, engine, runner>> /\ (Claiming(h)' => Claiming(h))
           \/ Claim(h) \/ Flag(h) \/ Launch(h)
    BY <1>t, RequestMoves
  <1>2. \A g \in Requests : g # h => (Claiming(g)' <=> Claiming(g))  BY <1>1 DEF Claiming
  <1>3. CASE UNCHANGED <<registered, engine, runner>> /\ (Claiming(h)' => Claiming(h))
    BY <1>2, <1>3, OwnerKept DEF Live
  <1>4. CASE Claim(h)
    <2>1. CASE ~CanClaim
      <3>1. Claiming(h)' => Claiming(h)
        BY <1>t, <1>4, <2>1 DEF Claim, Reply, IdleRequest, Claiming
      <3>2. UNCHANGED <<registered, engine, runner>>  BY <1>4, <2>1 DEF Claim
      <3>. QED  BY <1>3, <3>1, <3>2
    <2>2. CASE CanClaim
      <3>. DEFINE e == NewEngine
      <3>1. /\ Unclaimed # {}
            /\ registered' = e
            /\ engine' = [engine EXCEPT ![e] = LiveEngine]
            /\ UNCHANGED runner
        BY <1>4, <2>2 DEF Claim
      <3>2. e \in Engines  BY <3>1, NewEngineIn
      <3>. HIDE DEF e
      <3>3. /\ engine'[e].running /\ ~engine'[e].paused
            /\ \A d \in Engines : d # e => engine'[d] = engine[d]
        BY <1>t, <3>1, <3>2 DEF LiveEngine
      <3>4. /\ \A r \in Engines : ~Live(r)
            /\ \A g \in Requests : ~Claiming(g)
        <4>1. CASE registered = None  BY <1>t, <4>1, NoneAssumption DEF OneOwner, Owned
        <4>2. CASE registered # None
          <5>1. ~engine[registered].running
            BY <1>t, <2>2, <4>2 DEF CanClaim, OneOwner
          <5>. QED  BY <1>t, <5>1 DEF OneOwner
        <4>. QED  BY <4>1, <4>2
      <3>. QED
        BY <1>t, <1>2, <3>1, <3>2, <3>3, <3>4 DEF OneOwner, OneLiveRunner, Live
    <2>. QED  BY <2>1, <2>2
  <1>5. CASE Flag(h)
    <2>1. request[h].op = "stop"
      BY <1>t, <1>5, NoneAssumption DEF Flag, Fits, AllOperations
    <2>2. \A e \in Engines :
            engine'[e].paused = engine[e].paused /\ engine'[e].running = engine[e].running
      <3>1. CASE UNCHANGED engine  BY <3>1
      <3>2. CASE registered # None
        <4>. DEFINE new == Flagged(engine[registered], request[h].op)
        <4>1. new.paused = FALSE /\ new.running = engine[registered].running
          BY <1>t, <2>1, <3>2 DEF Flagged, EngineState
        <4>2. engine' = [engine EXCEPT ![registered] = new]  BY <1>5, <3>2 DEF Flag
        <4>3. engine[registered].paused = FALSE  BY <1>t, <3>2 DEF OneOwner, EngineState
        <4>. HIDE DEF new
        <4>4. /\ engine'[registered] = new
              /\ \A e \in Engines : e # registered => engine'[e] = engine[e]
          BY <1>t, <3>2, <4>2
        <4>. QED  BY <4>1, <4>3, <4>4
      <3>. QED  BY <1>5, <3>1, <3>2 DEF Flag
    <2>3. \A r \in Engines : Live(r)' => Live(r) /\ runner'[r].engine = runner[r].engine
      <3>1. CASE UNCHANGED runner  BY <3>1 DEF Live
      <3>2. CASE registered # None /\ engine[registered].wake # None
        <4>. DEFINE s == engine[registered].wake
        <4>1. s \in Engines /\ Live(s)
          BY <1>t, <3>2 DEF ExclusiveInv, MemoryInv, WakeValid, EngineState, Live
        <4>2. runner' = [runner EXCEPT ![s].pc = "top"]  BY <1>5, <3>2 DEF Flag
        <4>. QED  BY <1>t, <4>1, <4>2 DEF Live, RunnerState
      <3>. QED  BY <1>5, <3>1, <3>2 DEF Flag
    <2>4. \A g \in Requests : Claiming(g)' => Claiming(g)
      BY <1>t, <1>2, <1>5, <2>1 DEF Flag, RequestGoto, Claiming, RequestState
    <2>5. UNCHANGED registered  BY <1>5 DEF Flag
    <2>. QED  BY <2>2, <2>3, <2>4, <2>5, OwnerKept
  <1>6. CASE Launch(h)
    <2>. DEFINE c == request[h].claim
    <2>1. Claiming(h)  BY <1>t, <1>6 DEF Launch, Claiming, Fits
    <2>2. c \in Engines /\ registered \in Engines  BY <1>t, <2>1 DEF Owned
    <2>3. /\ UNCHANGED <<registered, engine>>
          /\ runner' = Launched(c, registered)
      BY <1>6 DEF Launch
    <2>4. ~Claiming(h)'  BY <1>t, <1>6, NoneAssumption DEF Launch, Reply, IdleRequest, Claiming
    <2>. HIDE DEF c
    <2>5. /\ runner'[c].engine = registered
          /\ \A r \in Engines : r # c => runner'[r] = runner[r]
      BY <1>t, <2>2, <2>3 DEF Launched, IdleRunner
    <2>6. /\ \A r \in Engines : Live(r)' => r = c
          /\ \A g \in Requests : ~Claiming(g)'
          /\ engine[registered].running
      <3>1. \A r \in Engines : r # c => ~Live(r)'
        BY <1>t, <2>1, <2>5 DEF OneOwner, Live
      <3>2. \A g \in Requests : ~Claiming(g)'
        BY <1>t, <1>2, <2>1, <2>4 DEF OneOwner
      <3>3. engine[registered].running  BY <1>t, <2>1 DEF OneOwner
      <3>. QED  BY <3>1, <3>2, <3>3
    <2>. QED  BY <1>t, <2>3, <2>5, <2>6 DEF OneOwner, OneLiveRunner
  <1>. QED  BY <1>1, <1>3, <1>4, <1>5, <1>6

\* Recovery finds an empty memory.
LEMMA OwnerProcess ==
  ASSUME ExclusiveInv,
         \/ \E h \in Requests : RequestFault(h) \/ (\E op \in Operations : Arrive(h, op))
         \/ Crash \/ Boot \/ BootFault
         \/ UNCHANGED vars
  PROVE  OneOwner'
  <1>t. /\ OneOwner /\ DownEmpty
        /\ engine \in [Engines -> EngineState]
        /\ runner \in [Engines -> RunnerState]
        /\ request \in [Requests -> RequestState]
    BY DEF ExclusiveInv, MemoryInv, TypeInv, TypeOK
  <1>1. ASSUME UNCHANGED <<registered, engine, runner>>,
               \A h \in Requests : Claiming(h)' => Claiming(h)
        PROVE  OneOwner'
    BY <1>1, OwnerKept DEF Live
  <1>2. ASSUME NEW h \in Requests, RequestFault(h) PROVE OneOwner'
    <2>1. \A g \in Requests : Claiming(g)' => Claiming(g)
      BY <1>t, <1>2, NoneAssumption DEF RequestFault, Reply, IdleRequest, Claiming
    <2>. QED  BY <1>1, <1>2, <2>1 DEF RequestFault
  <1>3. ASSUME NEW h \in Requests, NEW op \in Operations, Arrive(h, op) PROVE OneOwner'
    <2>1. \A g \in Requests : Claiming(g)' => Claiming(g)
      <3>1. request'[h].pc \in {"insertCampaign", "read"}
        BY <1>t, <1>3 DEF Arrive, RequestState
      <3>2. \A g \in Requests : g # h => request'[g] = request[g]
        BY <1>t, <1>3 DEF Arrive
      <3>. QED  BY <3>1, <3>2 DEF Claiming
    <2>. QED  BY <1>1, <1>3, <2>1 DEF Arrive
  <1>4. ASSUME Crash PROVE OneOwner'
    <2>1. /\ \A r \in Engines : ~Live(r)' /\ ~engine'[r].paused
          /\ \A h \in Requests : ~Claiming(h)'
      BY <1>4, NoneAssumption DEF Crash, IdleRunner, IdleRequest, FreshEngine, Live, Claiming
    <2>. QED  BY <2>1 DEF OneOwner, OneLiveRunner
  <1>5. ASSUME Boot PROVE OneOwner'
    <2>1. /\ registered = None
          /\ \A r \in Engines : ~Live(r)
          /\ \A h \in Requests : ~Claiming(h) /\ ~Claiming(h)'
      BY <1>t, <1>5 DEF Boot, DownEmpty, Claiming
    <2>2. CASE UNCHANGED <<registered, engine, runner>>  BY <1>1, <2>1, <2>2
    <2>3. CASE ~UNCHANGED <<registered, engine, runner>>
      <3>. DEFINE e == NewEngine
      <3>1. /\ Unclaimed # {}
            /\ registered' = e
            /\ engine' = [engine EXCEPT ![e] = LiveEngine]
            /\ runner' = Launched(e, e)
        BY <1>5, <2>3 DEF Boot
      <3>2. e \in Engines  BY <3>1, NewEngineIn
      <3>. HIDE DEF e
      <3>3. /\ engine'[e].running /\ ~engine'[e].paused
            /\ \A d \in Engines : d # e => engine'[d] = engine[d]
            /\ runner'[e].engine = e
            /\ \A d \in Engines : d # e => runner'[d] = runner[d]
        BY <1>t, <3>1, <3>2 DEF LiveEngine, Launched, IdleRunner
      <3>. QED  BY <1>t, <2>1, <3>1, <3>2, <3>3 DEF OneOwner, OneLiveRunner, Live
    <2>. QED  BY <2>2, <2>3
  <1>6. ASSUME BootFault \/ UNCHANGED vars PROVE OneOwner'
    BY <1>1, <1>6 DEF BootFault, vars, Claiming
  <1>. QED  BY <1>2, <1>3, <1>4, <1>5, <1>6

\* Nobody owns the campaign before the first boot.
LEMMA ExclusiveInit == Init => ExclusiveInv
  <1>. SUFFICES ASSUME Init PROVE ExclusiveInv  OBVIOUS
  <1>1. MemoryInv  BY MemoryInit
  <1>2. OneOwner
    BY NoneAssumption
    DEF Init, FreshEngine, IdleRunner, IdleRequest, OneOwner, OneLiveRunner, Live, Claiming
  <1>. QED  BY <1>1, <1>2 DEF ExclusiveInv

\* Every step keeps the owner unique, when nobody pauses.
LEMMA ExclusiveStep ==
  ASSUME "pause" \notin Operations, ExclusiveInv, [Next]_vars
  PROVE  ExclusiveInv'
  <1>1. MemoryInv'  BY MemoryStep DEF ExclusiveInv
  <1>2. OneOwner'  BY OwnerRunner, OwnerRequest, OwnerProcess DEF Next
  <1>. QED  BY <1>1, <1>2 DEF ExclusiveInv

\* Start, stop, retry and recovery, at any time and in any order, never give
\* a campaign two runners: only pause lets a new runner in beside an old one.
THEOREM WithoutPauseOneRunner ==
  ASSUME "pause" \notin Operations
  PROVE  Spec => []OneLiveRunner
  <1>1. Init => ExclusiveInv  BY ExclusiveInit
  <1>2. ExclusiveInv /\ [Next]_vars => ExclusiveInv'  BY ExclusiveStep
  <1>3. ExclusiveInv => OneLiveRunner  BY DEF ExclusiveInv, OneOwner
  <1>. QED  BY <1>1, <1>2, <1>3, PTL DEF Spec

-----------------------------------------------------------------------------
(* A claim that refuses new runners has one, as long as no query fails.    *)

\* The runner of a registered object that says running is alive, or still to
\* be launched.  A pause does not change that: it may be undone by a stop,
\* which clears the paused flag of the same object.
ClaimServed ==
  budget.faults = 0 /\ registered # None /\ engine[registered].running =>
    \/ \E r \in Engines : Live(r) /\ runner[r].engine = registered
    \/ \E h \in Requests : Claiming(h)

\* Every step keeps the claim served.
LEMMA ServedStep ==
  ASSUME MemoryInv, ClaimServed, [Next]_vars
  PROVE  ClaimServed'
  <1>t. /\ TypeInv
        /\ engine \in [Engines -> EngineState]
        /\ runner \in [Engines -> RunnerState]
        /\ request \in [Requests -> RequestState]
        /\ registered \in Engines \cup {None}
        /\ budget \in [requests : 0..MaxRequests, crashes : 0..MaxCrashes, faults : 0..MaxFaults]
    BY DEF MemoryInv, TypeInv, TypeOK
  <1>f. budget.faults \in Nat  BY <1>t, BoundsAssumption
  <1>1. ASSUME NEW r \in Engines, RunnerStep(r) \/ RunnerFault(r) PROVE ClaimServed'
    <2>1. /\ UNCHANGED <<registered, request>>
          /\ \A q \in Engines : q # r => runner'[q] = runner[q]
          /\ Live(r)
          /\ \/ /\ Live(r)' /\ runner'[r].engine = runner[r].engine
                /\ \A e \in Engines : engine'[e].running = engine[e].running
             \/ /\ ~Live(r)'
                /\ runner[r].engine = registered => ~engine'[registered].running
                /\ \A e \in Engines :
                     e # registered \/ e # runner[r].engine => engine'[e].running = engine[e].running
      BY <1>1, RunnerMemory
    <2>2. budget'.faults = 0 => budget.faults = 0
      BY <1>t, <1>f, <1>1, RunnerKeepsRest DEF RunnerFault
    <2>3. \A h \in Requests : Claiming(h)' <=> Claiming(h)  BY <2>1 DEF Claiming
    <2>. QED  BY <1>t, <2>1, <2>2, <2>3 DEF ClaimServed, Live
  <1>2. ASSUME NEW h \in Requests, RequestStep(h) PROVE ClaimServed'
    <2>1. /\ \A g \in Requests : g # h => request'[g] = request[g]
          /\ UNCHANGED budget
          /\ \/ UNCHANGED <<registered, engine, runner>>
             \/ Claim(h) \/ Flag(h) \/ Launch(h)
      BY <1>t, <1>2, RequestMoves
    <2>2. \A g \in Requests : g # h => (Claiming(g)' <=> Claiming(g))  BY <2>1 DEF Claiming
    <2>3. CASE Claim(h)
      <3>1. CASE ~CanClaim
        <4>1. ~Claiming(h) /\ UNCHANGED <<registered, engine, runner>>
          BY <2>3, <3>1, ClaimMemory DEF Claim, Claiming
        <4>. QED  BY <2>1, <2>2, <4>1 DEF ClaimServed, Live
      <3>2. CASE CanClaim
        <4>1. Claiming(h)'  BY <2>3, <3>2, ClaimMemory
        <4>. QED  BY <4>1 DEF ClaimServed
      <3>. QED  BY <3>1, <3>2
    <2>4. CASE Flag(h)
      <3>1. /\ UNCHANGED registered /\ ~Claiming(h)
            /\ \A r \in Engines : (Live(r)' <=> Live(r)) /\ runner'[r].engine = runner[r].engine
            /\ \A e \in Engines : engine'[e].running = engine[e].running
        BY <2>4, FlagMemory
      <3>. QED  BY <1>t, <2>1, <2>2, <3>1 DEF ClaimServed
    <2>5. CASE Launch(h)
      <3>1. /\ UNCHANGED registered
            /\ request[h].claim \in Engines
            /\ runner'[request[h].claim] = [IdleRunner EXCEPT !.pc = "load", !.engine = registered]
        BY <2>5, LaunchMemory
      <3>2. runner'[request[h].claim].pc = "load" /\ runner'[request[h].claim].engine = registered'
        BY <3>1 DEF IdleRunner
      <3>. QED  BY <3>1, <3>2 DEF ClaimServed, Live
    <2>6. CASE UNCHANGED <<registered, engine, runner>> /\ ~Claim(h) /\ ~Launch(h) /\ ~Flag(h)
      <3>1. Claiming(h) => Claiming(h)'
        BY <1>t, <1>2, <2>6
        DEF TypeInv, RequestShape, Fits, Claiming, RequestStep, InsertCampaign, InsertMessages,
            Read, WriteStatus, RequestGoto, ReadFailed, Requeue, RequestSyncRead,
            RequestSyncWrite, RequestState
      <3>. QED  BY <2>1, <2>2, <2>6, <3>1 DEF ClaimServed, Live
    <2>. QED  BY <2>1, <2>3, <2>4, <2>5, <2>6
  <1>3. ASSUME NEW h \in Requests, RequestFault(h) PROVE ClaimServed'
    BY <1>t, <1>f, <1>3 DEF RequestFault, ClaimServed
  <1>4. ASSUME NEW h \in Requests, NEW op \in Operations, Arrive(h, op) PROVE ClaimServed'
    <2>1. /\ UNCHANGED <<registered, engine, runner>>
          /\ budget'.faults = budget.faults
          /\ \A g \in Requests : g # h => request'[g] = request[g]
          /\ ~Claiming(h)
      BY <1>t, <1>4 DEF Arrive, Claiming
    <2>. QED  BY <2>1 DEF ClaimServed, Live, Claiming
  <1>5. CASE Crash  BY <1>5 DEF Crash, ClaimServed
  <1>6. CASE Boot
    <2>1. \/ UNCHANGED <<registered, engine, runner>>
          \/ runner'[registered'] = [IdleRunner EXCEPT !.pc = "load", !.engine = registered']
             /\ registered' \in Engines
      BY <1>6, BootMemory
    <2>2. UNCHANGED <<request, budget>>  BY <1>6, BootMemory
    <2>. QED  BY <2>1, <2>2 DEF ClaimServed, Live, Claiming, IdleRunner
  <1>7. CASE BootFault  BY <1>t, <1>f, <1>7 DEF BootFault, ClaimServed
  <1>8. CASE UNCHANGED vars  BY <1>8 DEF vars, ClaimServed, Live, Claiming
  <1>. QED  BY <1>1, <1>2, <1>3, <1>4, <1>5, <1>6, <1>7, <1>8 DEF Next

\* As long as no query fails, a start is refused as "already running" only
\* while a runner is alive or about to be launched: any number of clients,
\* pauses, stops, retries and crashes leak no claim.
THEOREM ClaimsAreServed ==
  ASSUME MaxFaults = 0
  PROVE  Spec => []ClaimHasRunner
  <1>1. Init => MemoryInv /\ ClaimServed  BY MemoryInit DEF Init, ClaimServed
  <1>2. MemoryInv /\ ClaimServed /\ [Next]_vars => (MemoryInv /\ ClaimServed)'
    BY MemoryStep, ServedStep
  <1>3. MemoryInv /\ ClaimServed => ClaimHasRunner
    <2>. SUFFICES ASSUME MemoryInv, ClaimServed, ~CanClaim PROVE ClaimHasRunner
      BY DEF ClaimHasRunner
    <2>1. /\ registered # None /\ engine[registered].running
          /\ budget.faults = 0
      BY DEF CanClaim, MemoryInv, TypeInv, TypeOK
    <2>2. \A h \in Requests : Claiming(h) => request[h].claim # None
      BY NoneAssumption DEF MemoryInv, Owned
    <2>. QED  BY <2>1, <2>2 DEF ClaimServed, ClaimHasRunner
  <1>. QED  BY <1>1, <1>2, <1>3, PTL DEF Spec

-----------------------------------------------------------------------------
(* One active runner, as long as the requests come one at a time.          *)

OneRequest == \A g, h \in Requests : g = h

\* The active runner is the one of the registered object: all others are
\* halted, it has that object to itself, and a request that is about to launch
\* a runner has just registered an object nobody works on.
SoloOwner ==
  /\ \A r \in Engines : Live(r) /\ runner[r].engine # registered => Halted(runner[r].engine)
  /\ \A q, r \in Engines : Live(q) /\ Live(r) /\ runner[q].engine = runner[r].engine => q = r
  /\ \A r \in Engines : Live(r) /\ runner[r].engine = registered => engine[registered].running
  /\ \A h \in Requests : Claiming(h) =>
       /\ request[h].claim = registered
       /\ engine[registered].running /\ ~Halted(registered)
       /\ \A r \in Engines : Live(r) => runner[r].engine # registered

SoloInv == MemoryInv /\ SoloOwner

\* The owner is left alone by a step that starts no runner and registers, halts
\* and releases no object.
LEMMA SoloKept ==
  ASSUME SoloInv, UNCHANGED <<registered, engine>>,
         \A r \in Engines : Live(r)' => Live(r) /\ runner'[r].engine = runner[r].engine,
         \A h \in Requests : Claiming(h)' => Claiming(h) /\ request'[h].claim = request[h].claim
  PROVE  SoloOwner'
  BY DEF SoloInv, SoloOwner, Halted

\* A runner step leaves the campaign to its owner, or gives it up.
LEMMA SoloRunner ==
  ASSUME SoloInv, NEW r \in Engines, RunnerStep(r) \/ RunnerFault(r)
  PROVE  SoloOwner'
  <1>t. MemoryInv /\ SoloOwner /\ Owned  BY DEF SoloInv, MemoryInv
  <1>1. /\ UNCHANGED <<registered, request>>
        /\ Live(r) /\ runner[r].engine \in Engines
        /\ \A q \in Engines : q # r => runner'[q] = runner[q]
        /\ \A e \in Engines : Halted(e)' <=> Halted(e)
        /\ \/ /\ Live(r)' /\ runner'[r].engine = runner[r].engine
              /\ \A e \in Engines : engine'[e].running = engine[e].running
           \/ /\ ~Live(r)'
              /\ \A e \in Engines :
                   e # registered \/ e # runner[r].engine => engine'[e].running = engine[e].running
    BY <1>t, RunnerMemory
  <1>2. \A q \in Engines : Live(q)' => Live(q) /\ runner'[q].engine = runner[q].engine
    BY <1>1 DEF Live
  <1>3. \A q \in Engines : Live(q) => runner[q].engine \in Engines  BY <1>t DEF Owned
  <1>4. \A h \in Requests : Claiming(h)' => Claiming(h) /\ request'[h] = request[h]
    BY <1>1 DEF Claiming
  <1>5. \A h \in Requests : Claiming(h) => registered \in Engines
    BY <1>t DEF SoloOwner, Owned
  <1>6. \A q \in Engines : Live(q)' /\ runner'[q].engine = registered => engine'[registered].running
    <2>. SUFFICES ASSUME NEW q \in Engines, Live(q)', runner'[q].engine = registered
                  PROVE  engine'[registered].running
      OBVIOUS
    <2>1. Live(q) /\ runner[q].engine = registered /\ engine[registered].running
      BY <1>t, <1>2 DEF SoloOwner
    <2>2. registered \in Engines  BY <1>3, <2>1
    <2>3. ~Live(r)' => runner[r].engine # registered  BY <1>t, <1>1, <2>1 DEF SoloOwner
    <2>. QED  BY <1>1, <2>1, <2>2, <2>3
  <1>7. \A h \in Requests : Claiming(h)' =>
          /\ request'[h].claim = registered
          /\ engine'[registered].running /\ ~Halted(registered)'
          /\ \A q \in Engines : Live(q)' => runner'[q].engine # registered
    <2>. SUFFICES ASSUME NEW h \in Requests, Claiming(h)'
                  PROVE  /\ request'[h].claim = registered
                         /\ engine'[registered].running /\ ~Halted(registered)'
                         /\ \A q \in Engines : Live(q)' => runner'[q].engine # registered
      OBVIOUS
    <2>1. /\ Claiming(h) /\ request'[h] = request[h]
          /\ request[h].claim = registered
          /\ engine[registered].running /\ ~Halted(registered)
          /\ \A q \in Engines : Live(q) => runner[q].engine # registered
          /\ registered \in Engines
      BY <1>t, <1>4, <1>5 DEF SoloOwner
    <2>. QED  BY <1>1, <1>2, <2>1
  <1>8. \A q \in Engines : Live(q)' /\ runner'[q].engine # registered => Halted(runner[q].engine)'
    BY <1>t, <1>1, <1>2, <1>3 DEF SoloOwner
  <1>9. \A p, q \in Engines : Live(p)' /\ Live(q)' /\ runner'[p].engine = runner'[q].engine => p = q
    BY <1>t, <1>2 DEF SoloOwner
  <1>. QED  BY <1>1, <1>6, <1>7, <1>8, <1>9 DEF SoloOwner, Halted

\* A request replaces a halted runner, or none.
LEMMA SoloRequest ==
  ASSUME SoloInv, OneRequest, NEW h \in Requests, RequestStep(h)
  PROVE  SoloOwner'
  <1>t. /\ MemoryInv /\ TypeInv /\ SoloOwner /\ Owned
        /\ registered \in Engines \cup {None}
    BY DEF SoloInv, MemoryInv, TypeInv, TypeOK
  <1>0. \A r \in Engines : Live(r) => runner[r].engine \in Engines /\ engine[runner[r].engine].claimed
    BY <1>t DEF Owned
  <1>h. \A g \in Requests : g = h  BY DEF OneRequest
  <1>1. \/ /\ UNCHANGED <<registered, engine, runner>>
           /\ Claiming(h)' => Claiming(h) /\ request'[h].claim = request[h].claim
        \/ Claim(h) \/ Flag(h) \/ Launch(h)
    BY <1>t, RequestMoves
  <1>2. CASE /\ UNCHANGED <<registered, engine, runner>>
             /\ Claiming(h)' => Claiming(h) /\ request'[h].claim = request[h].claim
    BY <1>h, <1>2, SoloKept DEF Live
  <1>3. CASE Claim(h)
    <2>1. CASE ~CanClaim
      <3>1. UNCHANGED <<registered, engine, runner>> /\ ~Claiming(h)'
        BY <1>t, <1>3, <2>1, ClaimMemory
      <3>. QED  BY <1>2, <3>1
    <2>2. CASE CanClaim
      <3>. DEFINE e == registered'
      <3>1. /\ UNCHANGED runner
            /\ e \in Engines /\ ~engine[e].claimed
            /\ engine'[e] = LiveEngine
            /\ \A d \in Engines : d # e => engine'[d] = engine[d]
            /\ request'[h].claim = e
        BY <1>t, <1>3, <2>2, ClaimMemory
      <3>2. \A r \in Engines : Live(r)' =>
              Live(r) /\ runner'[r].engine = runner[r].engine /\ runner[r].engine # e
        BY <1>0, <3>1 DEF Live
      <3>3. \A r \in Engines : Live(r) => Halted(runner[r].engine)
        <4>. SUFFICES ASSUME NEW r \in Engines, Live(r) PROVE Halted(runner[r].engine)
          OBVIOUS
        <4>1. CASE runner[r].engine # registered  BY <1>t, <4>1 DEF SoloOwner
        <4>2. CASE runner[r].engine = registered
          <5>1. engine[registered].running /\ registered # None
            BY <1>t, <1>0, <4>2, NoneAssumption DEF SoloOwner
          <5>. QED  BY <2>2, <4>2, <5>1 DEF CanClaim, Halted
        <4>. QED  BY <4>1, <4>2
      <3>4. engine'[e].running /\ ~engine'[e].paused /\ ~engine'[e].stopped
        BY <3>1 DEF LiveEngine
      <3>5. \A r \in Engines : Live(r)' => Halted(runner[r].engine)'
        BY <1>0, <3>1, <3>2, <3>3 DEF Halted
      <3>6. \A p, q \in Engines : Live(p)' /\ Live(q)' /\ runner'[p].engine = runner'[q].engine => p = q
        BY <1>t, <3>2 DEF SoloOwner
      <3>. QED
        BY <1>h, <3>1, <3>2, <3>4, <3>5, <3>6 DEF SoloOwner, Halted
    <2>. QED  BY <2>1, <2>2
  <1>4. CASE Flag(h)
    <2>1. /\ UNCHANGED registered /\ ~Claiming(h)'
          /\ \A r \in Engines : (Live(r)' <=> Live(r)) /\ runner'[r].engine = runner[r].engine
          /\ \A e \in Engines : engine'[e].running = engine[e].running
          /\ \A e \in Engines : Halted(e) => Halted(e)'
      BY <1>t, <1>4, FlagMemory
    <2>2. \A r \in Engines : Live(r)' /\ runner'[r].engine # registered => Halted(runner[r].engine)'
      BY <1>t, <1>0, <2>1 DEF SoloOwner
    <2>3. \A p, q \in Engines : Live(p)' /\ Live(q)' /\ runner'[p].engine = runner'[q].engine => p = q
      BY <1>t, <2>1 DEF SoloOwner
    <2>4. \A r \in Engines : Live(r)' /\ runner'[r].engine = registered => engine'[registered].running
      BY <1>t, <1>0, <2>1 DEF SoloOwner
    <2>. QED  BY <1>h, <2>1, <2>2, <2>3, <2>4 DEF SoloOwner, Halted
  <1>5. CASE Launch(h)
    <2>. DEFINE c == request[h].claim
    <2>1. /\ UNCHANGED <<registered, engine>>
          /\ Claiming(h) /\ ~Claiming(h)'
          /\ c \in Engines
          /\ runner'[c] = [IdleRunner EXCEPT !.pc = "load", !.engine = registered]
          /\ \A q \in Engines : q # c => runner'[q] = runner[q]
      BY <1>t, <1>5, LaunchMemory
    <2>2. runner'[c].engine = registered  BY <2>1 DEF IdleRunner
    <2>. HIDE DEF c
    <2>3. /\ engine[registered].running
          /\ \A r \in Engines : Live(r) => runner[r].engine # registered
      BY <1>t, <2>1 DEF SoloOwner
    <2>4. \A r \in Engines : Live(r)' /\ r # c => Live(r) /\ runner'[r].engine = runner[r].engine
      BY <2>1 DEF Live
    <2>5. \A p, q \in Engines : Live(p)' /\ Live(q)' /\ runner'[p].engine = runner'[q].engine => p = q
      BY <1>t, <2>2, <2>3, <2>4 DEF SoloOwner
    <2>6. \A r \in Engines : Live(r)' /\ runner'[r].engine # registered => Halted(runner'[r].engine)
      BY <1>t, <2>2, <2>4 DEF SoloOwner
    <2>. QED  BY <1>h, <2>1, <2>3, <2>5, <2>6 DEF SoloOwner, Halted
  <1>. QED  BY <1>1, <1>2, <1>3, <1>4, <1>5

\* Faults, arrivals, crashes and boots give no runner a companion.
LEMMA SoloProcess ==
  ASSUME SoloInv,
         \/ \E h \in Requests : RequestFault(h) \/ (\E op \in Operations : Arrive(h, op))
         \/ Crash \/ Boot \/ BootFault
         \/ UNCHANGED vars
  PROVE  SoloOwner'
  <1>t. /\ MemoryInv /\ SoloOwner
        /\ request \in [Requests -> RequestState]
    BY DEF SoloInv, MemoryInv, TypeInv, TypeOK
  <1>1. ASSUME NEW h \in Requests, RequestFault(h) PROVE SoloOwner'
    <2>1. /\ ~Claiming(h)'
          /\ \A g \in Requests : g # h => request'[g] = request[g]
      BY <1>t, <1>1, NoneAssumption DEF RequestFault, Reply, IdleRequest, Claiming
    <2>. QED  BY <1>1, <2>1, SoloKept DEF RequestFault, Live, Claiming
  <1>2. ASSUME NEW h \in Requests, NEW op \in Operations, Arrive(h, op) PROVE SoloOwner'
    <2>1. /\ ~Claiming(h)'
          /\ \A g \in Requests : g # h => request'[g] = request[g]
      <3>1. request'[h].pc \in {"insertCampaign", "read"}
        BY <1>t, <1>2 DEF Arrive, RequestState
      <3>. QED  BY <1>t, <1>2, <3>1 DEF Arrive, Claiming
    <2>. QED  BY <1>2, <2>1, SoloKept DEF Arrive, Live, Claiming
  <1>3. CASE Crash
    BY <1>3, NoneAssumption DEF Crash, IdleRunner, IdleRequest, Live, Claiming, SoloOwner
  <1>4. CASE Boot
    <2>1. /\ \A r \in Engines : ~Live(r)
          /\ \A h \in Requests : ~Claiming(h)
          /\ UNCHANGED request
          /\ \/ UNCHANGED <<registered, engine, runner>>
             \/ /\ registered' \in Engines
                /\ engine'[registered'] = LiveEngine
                /\ runner'[registered'] = [IdleRunner EXCEPT !.pc = "load", !.engine = registered']
                /\ \A q \in Engines : q # registered' => runner'[q] = runner[q]
      BY <1>t, <1>4, BootMemory
    <2>2. \A h \in Requests : ~Claiming(h)'  BY <2>1 DEF Claiming
    <2>3. CASE UNCHANGED <<registered, engine, runner>>
      BY <2>1, <2>2, <2>3, SoloKept DEF Live
    <2>4. CASE /\ registered' \in Engines
               /\ engine'[registered'] = LiveEngine
               /\ runner'[registered'] = [IdleRunner EXCEPT !.pc = "load", !.engine = registered']
               /\ \A q \in Engines : q # registered' => runner'[q] = runner[q]
      <3>1. \A q \in Engines : Live(q)' => q = registered'  BY <2>1, <2>4 DEF Live
      <3>2. runner'[registered'].engine = registered' /\ engine'[registered'].running
        BY <2>4 DEF IdleRunner, LiveEngine
      <3>. QED  BY <2>2, <3>1, <3>2 DEF SoloOwner
    <2>. QED  BY <2>1, <2>3, <2>4
  <1>5. CASE BootFault \/ UNCHANGED vars
    BY <1>5, SoloKept DEF BootFault, vars, Live, Claiming
  <1>. QED  BY <1>1, <1>2, <1>3, <1>4, <1>5

\* Every step keeps the active runner unique, when requests come one at a time.
LEMMA SoloStep ==
  ASSUME OneRequest, SoloInv, [Next]_vars
  PROVE  SoloInv'
  <1>1. MemoryInv'  BY MemoryStep DEF SoloInv
  <1>2. SoloOwner'  BY SoloRunner, SoloRequest, SoloProcess DEF Next
  <1>. QED  BY <1>1, <1>2 DEF SoloInv

\* Nobody owns the campaign before the first boot.
LEMMA SoloInit == Init => SoloInv
  BY MemoryInit, NoneAssumption
  DEF Init, SoloInv, SoloOwner, IdleRunner, IdleRequest, Live, Claiming

\* While the requests come one at a time, two runners are never both free to
\* take messages, whatever is paused, resumed, stopped and retried, and
\* whatever crashes or fails: a claim hands the campaign over only from a
\* runner that is halted or gone.
THEOREM SoloOneActive ==
  ASSUME OneRequest
  PROVE  Spec => []OneActiveRunner
  <1>1. Init => SoloInv  BY SoloInit
  <1>2. SoloInv /\ [Next]_vars => SoloInv'  BY SoloStep
  <1>3. SoloInv => OneActiveRunner  BY DEF SoloInv, SoloOwner, OneActiveRunner
  <1>. QED  BY <1>1, <1>2, <1>3, PTL DEF Spec

-----------------------------------------------------------------------------
(* A campaign that is RUNNING has its runner, as long as no query fails.   *)

\* The runner of the registered object, free to take messages and not yet at
\* its end, or a request about to write another status or to launch one.
Attending(r) ==
  /\ Live(r) /\ runner[r].pc # "finally"
  /\ runner[r].engine = registered /\ ~Halted(registered)
Attended ==
  budget.faults = 0 /\ up /\ campaign.status = "RUNNING" =>
    \/ \E r \in Engines : Attending(r)
    \/ \E h \in Requests : request[h].pc \in {"writeStatus", "launch"}

\* A runner comes to its end when it is halted, when it settles the status, and
\* when it finds the status settled.
LEMMA RunnerEnds ==
  ASSUME TypeInv, NEW r \in Engines, RunnerStep(r), campaign'.status = "RUNNING",
         runner[r].pc # "finally", ~Halted(runner[r].engine)
  PROVE  /\ campaign.status = "RUNNING"
         /\ runner'[r].pc # "finally"
  <1>t. /\ runner \in [Engines -> RunnerState]
        /\ campaign \in [status : CampaignStatus \cup {None}, counts : Counts]
    BY DEF TypeInv, TypeOK
  <1>. USE <1>t DEF Goto, OnlyRunnerChanges, RunnerState
  <1>1. CASE Load(r)  BY <1>1 DEF Load
  <1>2. CASE Top(r)  BY <1>2 DEF Top, HaltCheck
  <1>3. CASE Fetch(r)
    <2>1. CASE RowsIn("PENDING") = {}  BY <1>3, <2>1 DEF Fetch
    <2>2. CASE RowsIn("PENDING") # {}
      <3>. DEFINE m == Oldest(RowsIn("PENDING"))
                  new == [runner[r] EXCEPT !.pc = "picked", !.msg = m, !.attempts = message[m].attempts]
      <3>1. new.pc = "picked"  OBVIOUS
      <3>2. runner' = [runner EXCEPT ![r] = new]  BY <1>3, <2>2 DEF Fetch
      <3>. HIDE DEF new
      <3>. QED  BY <1>3, <3>1, <3>2 DEF Fetch
    <2>. QED  BY <2>1, <2>2
  <1>4. CASE Picked(r)  BY <1>4 DEF Picked, HaltCheck
  <1>5. CASE Prepare(r)  BY <1>5 DEF Prepare
  <1>6. CASE SettleUnsent(r)  BY <1>6 DEF SettleUnsent
  <1>7. CASE MetaAccepts(r)  BY <1>7 DEF MetaAccepts
  <1>8. CASE MetaAnswers(r)  BY <1>8 DEF MetaAnswers
  <1>9. CASE MetaRefuses(r)  BY <1>9 DEF MetaRefuses
  <1>10. CASE Record(r)
    <2>. DEFINE new == [runner[r] EXCEPT !.pc = "syncRead", !.attempted = TRUE, !.result = None]
    <2>1. new.pc = "syncRead"  OBVIOUS
    <2>2. runner' = [runner EXCEPT ![r] = new] /\ UNCHANGED campaign  BY <1>10 DEF Record
    <2>. HIDE DEF new
    <2>. QED  BY <2>1, <2>2
  <1>11. CASE SyncRead(r)  BY <1>11 DEF SyncRead
  <1>12. CASE SyncWrite(r)  BY <1>12 DEF SyncWrite
  <1>13. CASE Synced(r)  BY <1>13 DEF Synced, HaltCheck
  <1>14. CASE LookAhead(r)  BY <1>14 DEF LookAhead
  <1>15. CASE Park(r)  BY <1>15 DEF Park
  <1>16. CASE Timer(r)  BY <1>16 DEF Timer
  <1>17. CASE Drained(r)  BY <1>17 DEF Drained, HaltCheck
  <1>18. CASE CompleteFind(r)  BY <1>18 DEF CompleteFind
  <1>19. CASE CompleteCount(r)  BY <1>19 DEF CompleteCount
  <1>20. CASE CompleteWrite(r)  BY <1>20 DEF CompleteWrite
  <1>21. CASE FailFind(r)  BY <1>21 DEF FailFind, Allowed, Transitions
  <1>22. CASE FailCount(r)  BY <1>22 DEF FailCount
  <1>23. CASE FailWrite(r)  BY <1>23 DEF FailWrite
  <1>24. CASE Finally(r)  BY <1>24 DEF Finally
  <1>. QED
    BY <1>1, <1>2, <1>3, <1>4, <1>5, <1>6, <1>7, <1>8, <1>9, <1>10, <1>11, <1>12, <1>13,
       <1>14, <1>15, <1>16, <1>17, <1>18, <1>19, <1>20, <1>21, <1>22, <1>23, <1>24
    DEF RunnerStep

\* Every step keeps a RUNNING campaign attended.
LEMMA AttendedStep ==
  ASSUME OneRequest, SoloInv, Attended, [Next]_vars
  PROVE  Attended'
  <1>t. /\ MemoryInv /\ TypeInv /\ SoloOwner
        /\ runner \in [Engines -> RunnerState]
        /\ request \in [Requests -> RequestState]
        /\ campaign \in [status : CampaignStatus \cup {None}, counts : Counts]
        /\ registered \in Engines \cup {None}
        /\ budget \in [requests : 0..MaxRequests, crashes : 0..MaxCrashes, faults : 0..MaxFaults]
    BY DEF SoloInv, MemoryInv, TypeInv, TypeOK
  <1>f. budget.faults \in Nat  BY <1>t, BoundsAssumption
  <1>h. \A g, h \in Requests : g = h  BY DEF OneRequest
  <1>0. ASSUME UNCHANGED <<up, registered, engine, runner, budget>>,
               campaign'.status = "RUNNING" => campaign.status = "RUNNING",
               \A h \in Requests : request[h].pc \in {"writeStatus", "launch"} =>
                 request'[h].pc \in {"writeStatus", "launch"}
        PROVE  Attended'
    BY <1>0 DEF Attended, Attending, Live, Halted
  <1>1. ASSUME NEW r \in Engines, RunnerStep(r) PROVE Attended'
    <2>. SUFFICES ASSUME budget'.faults = 0, up', campaign'.status = "RUNNING"
                  PROVE  \/ \E q \in Engines : Attending(q)'
                         \/ \E h \in Requests : request'[h].pc \in {"writeStatus", "launch"}
      BY DEF Attended
    <2>1. /\ UNCHANGED <<up, registered, request>>
          /\ \A q \in Engines : q # r => runner'[q] = runner[q]
          /\ \A e \in Engines : Halted(e)' <=> Halted(e)
          /\ \/ Live(r)' /\ runner'[r].engine = runner[r].engine
             \/ Finally(r)
      BY <1>t, <1>1, RunnerMemory
    <2>2. UNCHANGED budget  BY <1>t, <1>1, RunnerKeepsRest
    <2>3. campaign.status = "RUNNING"
      BY <1>t, <1>1, RunnerEffects DEF CampaignStatus
    <2>4. CASE \E h \in Requests : request[h].pc \in {"writeStatus", "launch"}
      BY <2>1, <2>4
    <2>5. ASSUME NEW q \in Engines, Attending(q) PROVE Attending(q)'
      <3>0. registered \in Engines /\ (Halted(registered)' <=> Halted(registered))
        <4>1. registered \in Engines
          BY <1>t, <2>5, NoneAssumption DEF Attending, MemoryInv, Owned
        <4>. QED  BY <2>1, <4>1
      <3>1. CASE q # r  BY <2>1, <2>5, <3>0, <3>1 DEF Attending, Live
      <3>2. CASE q = r
        <4>1. runner'[r].pc # "finally"
          BY <1>t, <1>1, <2>5, <3>2, RunnerEnds DEF Attending
        <4>2. ~Finally(r)  BY <2>5, <3>2 DEF Attending, Finally
        <4>. QED  BY <2>1, <2>5, <3>0, <3>2, <4>1, <4>2 DEF Attending
      <3>. QED  BY <3>1, <3>2
    <2>. QED  BY <2>1, <2>2, <2>3, <2>4, <2>5 DEF Attended
  <1>2. ASSUME NEW h \in Requests, RequestStep(h) PROVE Attended'
    <2>1. /\ UNCHANGED <<up, budget>>
          /\ UNCHANGED <<registered, engine, runner>> \/ Claim(h) \/ Flag(h) \/ Launch(h)
      BY <1>t, <1>2, RequestMoves
    <2>2. CASE Claim(h)
      <3>1. CASE ~CanClaim
        <4>1. UNCHANGED <<registered, engine, runner, campaign>> /\ request[h].pc = "claim"
          BY <1>t, <2>2, <3>1, ClaimMemory DEF Claim
        <4>. QED  BY <1>0, <1>h, <2>1, <4>1
      <3>2. CASE CanClaim
        <4>1. request'[h].pc = "writeStatus"  BY <1>t, <2>2, <3>2, ClaimMemory
        <4>. QED  BY <4>1 DEF Attended
      <3>. QED  BY <3>1, <3>2
    <2>3. CASE Flag(h)
      <3>1. request'[h].pc = "writeStatus"  BY <1>t, <2>3, FlagMemory
      <3>. QED  BY <3>1 DEF Attended
    <2>4. CASE Launch(h)
      <3>. PICK c \in Engines : c = request[h].claim  BY <1>t, <2>4, LaunchMemory
      <3>1. /\ UNCHANGED <<registered, engine>>
            /\ Claiming(h)
            /\ runner'[c] = [IdleRunner EXCEPT !.pc = "load", !.engine = registered]
        BY <1>t, <2>4, LaunchMemory
      <3>2. runner'[c].pc = "load" /\ runner'[c].engine = registered
        BY <3>1 DEF IdleRunner
      <3>3. ~Halted(registered)  BY <1>t, <3>1 DEF SoloOwner
      <3>4. Attending(c)'  BY <3>1, <3>2, <3>3 DEF Attending, Live, Halted
      <3>. QED  BY <3>1, <3>4 DEF Attended
    <2>5. CASE WriteStatus(h)
      <3>1. CASE request[h].op = "start"
        <4>1. request'[h].pc = "launch"
          BY <1>t, <2>5, <3>1 DEF WriteStatus, RequestGoto, RequestState
        <4>. QED  BY <4>1 DEF Attended
      <3>2. CASE request[h].op # "start"
        <4>1. request[h].op \in {"pause", "stop", "retry"}
          BY <1>t, <2>5, <3>2 DEF WriteStatus, TypeInv, RequestShape, Fits
        <4>2. campaign'.status # "RUNNING"  BY <1>t, <2>5, <4>1 DEF WriteStatus, TargetStatus
        <4>. QED  BY <4>2 DEF Attended
      <3>. QED  BY <3>1, <3>2
    <2>6. CASE InsertCampaign(h)  BY <2>6 DEF InsertCampaign, Attended
    <2>7. CASE \/ InsertMessages(h) \/ Read(h) \/ ReadFailed(h) \/ Requeue(h)
               \/ RequestSyncRead(h) \/ RequestSyncWrite(h)
      <3>1. /\ UNCHANGED <<up, registered, engine, runner, budget>>
            /\ campaign'.status = campaign.status
            /\ request[h].pc \notin {"writeStatus", "launch"}
        BY <1>t, <2>7
        DEF InsertMessages, Read, ReadFailed, Requeue, RequestSyncRead, RequestSyncWrite,
            OnlyRequestChanges
      <3>. QED  BY <1>0, <1>h, <3>1
    <2>. QED  BY <1>2, <2>2, <2>3, <2>4, <2>5, <2>6, <2>7 DEF RequestStep
  <1>3. ASSUME \/ \E r \in Engines : RunnerFault(r)
               \/ \E h \in Requests : RequestFault(h)
               \/ BootFault
        PROVE  Attended'
    <2>1. budget' = [budget EXCEPT !.faults = @ + 1]
      BY <1>3 DEF RunnerFault, RequestFault, BootFault
    <2>2. budget'.faults # 0  BY <1>t, <1>f, <2>1
    <2>. QED  BY <2>2 DEF Attended
  <1>4. ASSUME NEW h \in Requests, NEW op \in Operations, Arrive(h, op) PROVE Attended'
    <2>1. /\ UNCHANGED <<up, campaign, registered, engine, runner>>
          /\ budget'.faults = budget.faults
          /\ request[h].pc = "idle"
      BY <1>t, <1>4 DEF Arrive
    <2>. QED  BY <1>h, <2>1 DEF Attended, Attending, Live, Halted
  <1>5. CASE Crash  BY <1>5 DEF Crash, Attended
  <1>6. CASE Boot
    <2>1. /\ UNCHANGED campaign
          /\ \/ campaign.status # "RUNNING"
             \/ /\ registered' \in Engines
                /\ engine'[registered'] = LiveEngine
                /\ runner'[registered'] = [IdleRunner EXCEPT !.pc = "load", !.engine = registered']
      BY <1>t, <1>6, BootMemory
    <2>2. CASE campaign.status # "RUNNING"  BY <2>1, <2>2 DEF Attended
    <2>3. CASE campaign.status = "RUNNING"
      <3>0. PICK e \in Engines : e = registered'  BY <2>1, <2>3
      <3>1. engine'[e] = LiveEngine /\ runner'[e] = [IdleRunner EXCEPT !.pc = "load", !.engine = e]
        BY <2>1, <2>3, <3>0
      <3>2. /\ runner'[e].pc = "load" /\ runner'[e].engine = e
            /\ ~engine'[e].paused /\ ~engine'[e].stopped
        BY <3>1 DEF IdleRunner, LiveEngine
      <3>. QED  BY <3>0, <3>2 DEF Attended, Attending, Live, Halted
    <2>. QED  BY <2>2, <2>3
  <1>7. CASE UNCHANGED vars  BY <1>0, <1>7 DEF vars
  <1>. QED  BY <1>1, <1>2, <1>3, <1>4, <1>5, <1>6, <1>7 DEF Next

\* While the requests come one at a time, a campaign that is shown as RUNNING
\* when nothing runs is the trace of a failed query: in whatever order launches,
\* pauses, stops, the end of runners, crashes and recoveries come, they never
\* lose a running campaign.
THEOREM RunningIsAttended ==
  ASSUME OneRequest
  PROVE  Spec => []RunningHasRunner
  <1>1. Init => SoloInv /\ Attended  BY SoloInit DEF Init, Attended
  <1>2. SoloInv /\ Attended /\ [Next]_vars => (SoloInv /\ Attended)'
    BY SoloStep, AttendedStep
  <1>3. SoloInv /\ Attended => RunningHasRunner
    <2>. SUFFICES ASSUME SoloInv, Attended, Quiet, up, campaign.status = "RUNNING"
                  PROVE  budget.faults > 0
      BY DEF RunningHasRunner
    <2>1. budget.faults # 0  BY DEF Attended, Attending, Quiet
    <2>2. budget \in [requests : 0..MaxRequests, crashes : 0..MaxCrashes, faults : 0..MaxFaults]
      BY DEF SoloInv, MemoryInv, TypeInv, TypeOK
    <2>. QED  BY <2>1, <2>2, BoundsAssumption
  <1>. QED  BY <1>1, <1>2, <1>3, PTL DEF Spec

=============================================================================
