--------------------------- MODULE MCStatementImport ---------------------------
(***************************************************************************)
(* Two exports of one account that overlap.  "coffee" is a category by     *)
(* that name, "gym" waits for one, "savings" looks internal.  The bank     *)
(* gave one id to two lines of the second export.                          *)
(***************************************************************************)
EXTENDS StatementImport, TLC

CONSTANTS july, august, r1, r2

Strong(id, group) == [kind |-> "strong", what |-> id, group |-> group]
Bare(buy, group) == [kind |-> "heuristic", what |-> buy, group |-> group]

Unread == [kind |-> "invalid", what |-> "?", group |-> "?"]

Overlapping ==
  [f \in {july, august} |->
     IF f = july
     THEN <<Bare("5.00", "coffee"), Bare("5.00", "coffee"), Strong("z", "gym"), Unread>>
     ELSE <<Bare("5.00", "coffee"), Strong("y", "coffee"), Strong("y", "savings")>>]

Repeated ==
  [f \in {july} |-> <<Strong("x", "coffee"), Strong("x", "coffee"), Strong("y", "gym")>>]

Symmetry == Permutations(Runners)
================================================================================
