-------------------------- MODULE MessageLifecycle --------------------------
(***************************************************************************)
(* What the delivery tracking promises for one send of a message: its      *)
(* status only moves forward, stages may be skipped, and FAILED is the     *)
(* last stage.  Who moves it, and when, is left open.                      *)
(***************************************************************************)
EXTENDS Integers

VARIABLE status

\* LEGACY is any stored status the backend does not know.
Stage == [LEGACY |-> 0, PENDING |-> 1, SENT |-> 2, DELIVERED |-> 3, READ |-> 4, FAILED |-> 5]
Later(s, t) == Stage[s] < Stage[t]

Init == status \in {"LEGACY", "PENDING"}

Advance == \E t \in {"SENT", "DELIVERED", "READ", "FAILED"} : Later(status, t) /\ status' = t

Spec == Init /\ [][Advance]_status
=============================================================================
