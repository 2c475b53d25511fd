------------------------------ MODULE WriteLedger ------------------------------
(***************************************************************************)
(* What one chat turn promises about the changes it makes, independently   *)
(* of rounds, streams and failures: "no write claim without a write        *)
(* receipt".  A turn performs effects while it is open.  It is closed      *)
(* once; from then on it performs nothing, and the claims it has published *)
(* are all about effects that really happened.                             *)
(***************************************************************************)
CONSTANT Calls          \* every tool call a turn could be asked for

VARIABLES open,         \* the turn may still perform effects
          effects,      \* calls whose change was really made
          claimed       \* calls the stored receipt presents as EXECUTED

ledger == <<open, effects, claimed>>

Init ==
  /\ open = TRUE
  /\ effects = {}
  /\ claimed = {}

\* One tool call changes something.
Perform ==
  /\ open
  /\ \E c \in Calls : effects' = effects \cup {c}
  /\ UNCHANGED <<open, claimed>>

\* The turn ends, publishing a receipt or none.
Close ==
  /\ open
  /\ open' = FALSE
  /\ \E S \in SUBSET effects : claimed' = S
  /\ UNCHANGED effects

Next == Perform \/ Close

Spec == Init /\ [][Next]_ledger
================================================================================
