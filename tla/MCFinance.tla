-------------------------------- MODULE MCFinance --------------------------------
(* The months of FinanceMonths and the transactions of FinanceLedger: the  *)
(* two share no table, so each behaviour moves one and rests the other.    *)
(* Two months, of two days and one day; one entry; an expense and an       *)
(* income category, with room for a purchase in two or a transfer and a    *)
(* row or two more; two calls.                                             *)
EXTENDS FinanceMonths, FinanceLedger, TLC

CONSTANTS e1, c1, c2, food, pay

VARIABLE part

Lengths == <<2, 1>>
Rent == [amount |-> 1, day |-> 2, recurs |-> "monthly", due |-> 0, status |-> "active",
         from |-> 1, until |-> 0, varies |-> FALSE]
Ending == [Rent EXCEPT !.amount = 2, !.day = 1, !.recurs = "annual", !.due = 1,
                       !.until = 1, !.varies = TRUE]
Unsaid == [Rent EXCEPT !.recurs = "annual"]
Says == {Rent, Ending, Unsaid}

Sides == (food :> "expense") @@ (pay :> "income")

TwoCallers == Permutations(Callers)

MCInit ==
  /\ MonthsInit /\ LedgerInit /\ part \in {"months", "ledger"}
  /\ part = "ledger" => \A e \in Entries : entries[e] = Absent
MCNext ==
  /\ part' = part
  /\ \/ part = "months" /\ MonthsNext /\ UNCHANGED ledgerVars
     \/ part = "ledger" /\ LedgerNext /\ UNCHANGED monthsVars
MCSpec == MCInit /\ [][MCNext]_<<monthsVars, ledgerVars, part>>
================================================================================
