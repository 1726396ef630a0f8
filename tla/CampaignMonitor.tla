---------------------------- MODULE CampaignMonitor ----------------------------
(***************************************************************************)
(* The monitor drawer of src/frontend/src/app/campaigns/page.tsx: the poll *)
(* of a campaign's progress every 2.5 seconds, and the control buttons of  *)
(* the drawer and of the table, which fetch the progress too.  What the    *)
(* numbers are is left out; whose they are is not.                         *)
(***************************************************************************)
EXTENDS Integers

CONSTANTS
  Monitorable,       \* campaigns of the table
  ProgressSlots,     \* bound: calls under way
  MaxDrawers,        \* bound: times the drawer is opened
  MaxProgressCalls,  \* bound: polls and control actions
  NoCampaign         \* null

ASSUME MonitorAssumption ==
  NoCampaign \notin Monitorable /\ MaxDrawers \in Nat /\ MaxProgressCalls \in Nat

VARIABLES
  drawer,       \* monitoredCampaignId, monitorProgress and actionLoading; opening counts
                \* how often it was opened
  intervals,    \* the campaigns an interval polls
  progressing,  \* the polls and the control actions under way
  asks          \* polls and control actions so far

monitorVars == <<drawer, intervals, progressing, asks>>

ProgressCall == [of : Monitorable, opening : 0..MaxDrawers, control : BOOLEAN,
                 at : {"acting", "progress", "list"}]

AskProgress(campaign, opening, control) ==
  /\ asks < MaxProgressCalls /\ asks' = asks + 1
  /\ \E s \in ProgressSlots :
       /\ progressing[s] = NoCampaign
       /\ progressing' = [progressing EXCEPT ![s] =
            [of |-> campaign, opening |-> opening, control |-> control,
             at |-> IF control THEN "acting" ELSE "progress"]]

\* Mutant: the interval of the campaign monitored before is not cleared.
PollsLeaking(campaign) == intervals \cup ({campaign} \ {NoCampaign})

\* The effect of monitoredCampaignId clears its interval and sets the next one.
Polls(campaign) == {campaign} \ {NoCampaign}

\* The table's Monitor button, or the wizard that has made the campaign, whatever is
\* monitored by then; the first poll goes out at once.
OpenMonitor(campaign) ==
  /\ drawer.campaign # campaign /\ drawer.opening < MaxDrawers
  /\ drawer' = [drawer EXCEPT !.campaign = campaign, !.opening = @ + 1]
  /\ intervals' = Polls(campaign)
  /\ AskProgress(campaign, drawer.opening + 1, FALSE)

CloseMonitor ==
  /\ drawer.campaign # NoCampaign
  /\ drawer' = [drawer EXCEPT !.campaign = NoCampaign]
  /\ intervals' = Polls(NoCampaign)
  /\ UNCHANGED <<progressing, asks>>

\* A tick of an interval does not wait for the poll before it.
PollProgress(campaign) ==
  /\ campaign \in intervals
  /\ AskProgress(campaign, drawer.opening, FALSE)
  /\ UNCHANGED <<drawer, intervals>>

\* handleCampaignAction: from the table at any time, which the open drawer covers;
\* from the drawer when no other action is under way.
HandleCampaignAction(campaign) ==
  /\ drawer.campaign = NoCampaign \/ (drawer.campaign = campaign /\ ~drawer.acting)
  /\ AskProgress(campaign, drawer.opening, TRUE)
  /\ drawer' = [drawer EXCEPT !.acting = TRUE]
  /\ UNCHANGED intervals

Acted(s) ==
  /\ progressing[s] # NoCampaign /\ progressing[s].at = "acting"
  /\ progressing' = [progressing EXCEPT ![s].at = "progress"]
  /\ UNCHANGED <<drawer, intervals, asks>>

\* The progress is shown, whatever is monitored by now; the list is fetched next.
ProgressHeard(s) ==
  /\ progressing[s] # NoCampaign /\ progressing[s].at = "progress"
  /\ drawer' = [drawer EXCEPT !.progress =
                  [of |-> progressing[s].of, opening |-> progressing[s].opening]]
  /\ progressing' = [progressing EXCEPT ![s].at = "list"]
  /\ UNCHANGED <<intervals, asks>>

\* The list arrives, or any of the calls fails: a poll says nothing of it, an action
\* ends with an alert.
ProgressDone(s) ==
  /\ progressing[s] # NoCampaign
  /\ drawer' = [drawer EXCEPT !.acting = @ /\ ~progressing[s].control]
  /\ progressing' = [progressing EXCEPT ![s] = NoCampaign]
  /\ UNCHANGED <<intervals, asks>>

MonitorInit ==
  /\ drawer = [campaign |-> NoCampaign, progress |-> NoCampaign, acting |-> FALSE, opening |-> 0]
  /\ intervals = {}
  /\ progressing = [s \in ProgressSlots |-> NoCampaign]
  /\ asks = 0

MonitorNext ==
  \/ \E campaign \in Monitorable :
       OpenMonitor(campaign) \/ PollProgress(campaign) \/ HandleCampaignAction(campaign)
  \/ CloseMonitor
  \/ \E s \in ProgressSlots : Acted(s) \/ ProgressHeard(s) \/ ProgressDone(s)

MonitorSpec == MonitorInit /\ [][MonitorNext]_monitorVars

\* The bar and the boxes: the progress heard last, else the row of the list.
NumbersOf == IF drawer.progress # NoCampaign THEN drawer.progress.of ELSE drawer.campaign

-----------------------------------------------------------------------------
(* Properties.                                                             *)

MonitorTypeOK ==
  /\ drawer \in [campaign : Monitorable \cup {NoCampaign}, acting : BOOLEAN,
                 progress : [of : Monitorable, opening : 0..MaxDrawers] \cup {NoCampaign},
                 opening : 0..MaxDrawers]
  /\ intervals \subseteq Monitorable
  /\ progressing \in [ProgressSlots -> ProgressCall \cup {NoCampaign}]
  /\ asks \in 0..MaxProgressCalls

\* The numbers under a campaign's name are its own, or were asked for before the
\* drawer was opened on it: nothing that is asked while it is open, by the polls
\* that overlap or by its buttons, brings another campaign's numbers.
NumbersAreItsOwnOrOld ==
  drawer.campaign # NoCampaign =>
    NumbersOf = drawer.campaign \/ drawer.progress.opening < drawer.opening
=============================================================================
