----------------------------- MODULE DashboardPage -----------------------------
(***************************************************************************)
(* The dashboard of the console: src/frontend/src/app/page.tsx with the    *)
(* cards and panels of components/dashboard and the topbar's button.       *)
(*                                                                         *)
(* A load asks four sources at once (Promise.allSettled) and is applied    *)
(* when each has answered or failed.  What a source says is left out: the  *)
(* page is what it has heard of each source, and what it shows of it.      *)
(***************************************************************************)
EXTENDS Integers

CONSTANT MaxPresses      \* bound: presses of Refresh

ASSUME PressesAssumption == MaxPresses \in Nat

VARIABLES
  loads,       \* the loads under way, and how each source settled
  board,       \* the state of DashboardPage
  presses      \* presses of Refresh so far

boardVars == <<loads, board, presses>>

Sources == {"health", "campaigns", "messages", "whatsapp"}
Loads == {"initial", "refresh"}
Settled == [Sources -> {"waiting", "ok", "failed"}]

Idle == [s \in Sources |-> "waiting"]

\* The sources that settled as how.
Which(got, how) == {s \in Sources : got[s] = how}

\* The page's own button waits for the initial load; the topbar's looks at
\* refreshing only, so that a refresh may overtake the initial load.
BoardRefresh ==
  /\ ~board.refreshing
  /\ presses < MaxPresses /\ presses' = presses + 1
  /\ board' = [board EXCEPT !.refreshing = TRUE]
  /\ loads' = [loads EXCEPT !["refresh"] = [active |-> TRUE, got |-> Idle]]

\* One source answers, or fails: it throws, or the server is not there.
Settle(l, s) ==
  /\ loads[l].active /\ loads[l].got[s] = "waiting"
  /\ \E how \in {"ok", "failed"} : loads' = [loads EXCEPT ![l].got[s] = how]
  /\ UNCHANGED <<board, presses>>

\* Mutant: a source that failed in the initial load is not marked.
AppliedUnmarked(got, initial) ==
  [board EXCEPT !.heard = @ \cup Which(got, "ok"), !.error = @ \ Which(got, "ok")]

\* applyResults.  Only the initial load marks a source as failed, and only it
\* sets or clears the banner.  The number of campaigns has a second source.
Applied(got, initial) ==
  [board EXCEPT
     !.heard = @ \cup Which(got, "ok"),
     !.error = (@ \cup (IF initial THEN Which(got, "failed") ELSE {})) \ Which(got, "ok"),
     !.counted = @ \/ got["campaigns"] = "ok" \/ (initial /\ got["health"] = "ok"),
     !.banner = IF initial THEN Which(got, "failed") = Sources ELSE @]

ApplyLoad(l) ==
  LET got == loads[l].got
      applied == Applied(got, l = "initial")
  IN /\ loads[l].active /\ Which(got, "waiting") = {}
     /\ board' = IF l = "initial" THEN [applied EXCEPT !.loading = FALSE]
                 ELSE [applied EXCEPT !.refreshing = FALSE]
     /\ loads' = [loads EXCEPT ![l] = [active |-> FALSE, got |-> Idle]]
     /\ UNCHANGED presses

BoardInit ==
  /\ loads = [l \in Loads |-> [active |-> l = "initial", got |-> Idle]]
  /\ board = [loading |-> TRUE, refreshing |-> FALSE, banner |-> FALSE,
              heard |-> {}, error |-> {}, counted |-> FALSE]
  /\ presses = 0

BoardNext ==
  \/ BoardRefresh
  \/ \E l \in Loads : ApplyLoad(l) \/ \E s \in Sources : Settle(l, s)

BoardSpec == BoardInit /\ [][BoardNext]_boardVars

-----------------------------------------------------------------------------
(* What is on the screen.                                                  *)

\* While the page loads the cards and the panels show a skeleton.  After that a
\* panel whose source is marked shows a notice in place of its list.
StatCard == {"customers", "campaigns", "totals"}
Panel == {"campaigns", "messages"}

StatCardSource == [customers |-> "health", campaigns |-> "campaigns", totals |-> "campaigns"]

\* The number on a card: what was heard, or the zero it starts from.
StatCardValue(card) ==
  IF (IF card = "campaigns" THEN board.counted ELSE StatCardSource[card] \in board.heard)
  THEN "heard" ELSE "zero"

\* A marked card is greyed over "Unable to load", and its label reads a dash; the
\* number it shows to the eye stays the one it has.
StatCardMarked(card) ==
  StatCardSource[card] \in board.error /\ (card = "campaigns" => ~board.counted)

PanelShows(panel) == ~board.loading /\ panel \notin board.error

-----------------------------------------------------------------------------
(* Properties.                                                             *)

BoardTypeOK ==
  /\ loads \in [Loads -> [active : BOOLEAN, got : Settled]]
  /\ board \in [loading : BOOLEAN, refreshing : BOOLEAN, banner : BOOLEAN,
                heard : SUBSET Sources, error : SUBSET Sources, counted : BOOLEAN]
  /\ presses \in 0..MaxPresses

\* The zero a card starts from never stands unmarked, and a panel never says that
\* there is nothing yet, as if the backend had said so: in whatever order the
\* initial load and a refresh that overtakes it fail and answer.  A marked card
\* does show that zero, in grey over "Unable to load".
UnheardIsMarked ==
  /\ ~board.loading =>
       \A card \in StatCard : StatCardValue(card) = "zero" => StatCardMarked(card)
  /\ \A panel \in Panel : PanelShows(panel) => panel \in board.heard
=============================================================================
