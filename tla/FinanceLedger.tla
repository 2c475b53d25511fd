------------------------------ MODULE FinanceLedger ------------------------------
(***************************************************************************)
(* The ledger of finance: transactions, transfers between two categories   *)
(* and purchases in instalments (internal/finance/app/transactions.go,     *)
(* transfers.go, purchaseplans.go over adapters/repo).                     *)
(*                                                                         *)
(* A step is one SQL statement, or a transaction that only inserts: nobody *)
(* sees its rows before it commits, and a category's type never changes,   *)
(* so when it was read does not matter.  A row an open transaction changed *)
(* makes another writer of it wait.  Imported rows are those of            *)
(* StatementImport.                                                        *)
(***************************************************************************)
EXTENDS Naturals, Sequences, FiniteSets, Functions

CONSTANTS
  Categories,  \* categories of the workspace
  TypeOf,      \* category -> income or expense
  Prices,      \* amounts a transaction or transfer may have
  Totals,      \* totals a purchase may have
  Parts,       \* numbers of instalments a purchase may have
  Clients,     \* calls that may be under way together
  MaxRows,     \* bound: transactions ever written
  MaxPlans     \* bound: purchases ever made

ASSUME LedgerAssumption ==
  /\ IsFiniteSet(Categories)
  /\ TypeOf \in [Categories -> {"income", "expense"}]
  /\ Prices \subseteq Nat \ {0} /\ Totals \subseteq Nat \ {0}
  /\ Parts \subseteq 2..360
  /\ MaxRows \in Nat /\ MaxPlans \in Nat

VARIABLES
  txs,      \* finance.transactions, in the order they were written
  plans,    \* finance.purchase_plans
  request   \* caller -> the operation it is making

ledgerVars == <<txs, plans, request>>

Status == {"paid", "pending", "scheduled"}

NoRow == [status |-> "none"]
NoRequest == [at |-> "idle", id |-> 0, row |-> NoRow, plan |-> 0, held |-> {}]

LedgerInit ==
  /\ txs = <<>> /\ plans = <<>>
  /\ request = [c \in Clients |-> NoRequest]

--------------------------------------------------------------------------------

\* pair is 0 but in a transfer's legs; plan and number are 0 but in instalments.
Transaction(cat, amount, status, pair, plan, number) ==
  [cat |-> cat, type |-> TypeOf[cat], amount |-> amount, status |-> status,
   pair |-> pair, plan |-> plan, number |-> number, deleted |-> FALSE]

ValidStatus(t) == t.status \in Status                          \* faulty
ValidTransaction(t) == t.amount > 0 /\ t.status \in Status

\* The composite foreign key (category_id, type); it does not see deleted_at.
References(t) == t.type = TypeOf[t.cat]

LiveRows == {i \in DOMAIN txs : ~txs[i].deleted}

\* Rows an open cancellation has deleted: their other writers wait.
Locked == UNION {request[c].held : c \in Clients}

Begin(c, next) ==
  /\ request[c].at = "idle"
  /\ request' = [request EXCEPT ![c] = next]
  /\ UNCHANGED <<txs, plans>>

\* Every row is validated before any is inserted; one that fails undoes the others.
FirstRow(rows) == <<Head(rows)>>                               \* faulty
Committed(rows) == rows
InsertRows(rows) ==
  /\ Len(txs) + Len(rows) <= MaxRows
  /\ \A k \in DOMAIN rows : ValidTransaction(rows[k]) /\ References(rows[k])
  /\ txs' = txs \o Committed(rows)
  /\ UNCHANGED request

--------------------------------------------------------------------------------
(* Transactions.                                                           *)

\* The type is the category's.
CreateTransaction ==
  /\ \E cat \in Categories, a \in Prices, s \in {"paid", "pending"} :
       InsertRows(<<Transaction(cat, a, s, 0, 0, 0)>>)
  /\ UNCHANGED plans

\* The row is read, patched in memory - amount, status, category and with it the
\* type - and written back whole.
Patches(t) ==
  {[t EXCEPT !.amount = a] : a \in Prices}
    \cup {[t EXCEPT !.status = s] : s \in Status}
    \cup {[t EXCEPT !.cat = x, !.type = TypeOf[x]] : x \in Categories}

BeginUpdate(c) ==
  \E i \in LiveRows : \E t \in Patches(txs[i]) \ {txs[i]} :
    /\ ValidTransaction(t)
    /\ Begin(c, [NoRequest EXCEPT !.at = "update", !.id = i, !.row = t])

\* UPDATE ... WHERE deleted_at IS NULL; it sets neither the pair nor the plan.
MatchesAnyRow(i) == TRUE                                       \* faulty
MatchesLive(i) == ~txs[i].deleted
UpdateTransaction(c) ==
  /\ request[c].at = "update"
  /\ LET i == request[c].id
         t == request[c].row IN
     /\ i \notin Locked /\ MatchesLive(i) /\ References(t)
     /\ txs' = [txs EXCEPT ![i].cat = t.cat, ![i].type = t.type,
                           ![i].amount = t.amount, ![i].status = t.status]
  /\ request' = [request EXCEPT ![c] = NoRequest]
  /\ UNCHANGED plans

\* A leg of a transfer is not deleted on its own.
DeletesAnyRow(t) == TRUE                                       \* faulty
DeletesAlone(t) == t.pair = 0
BeginDelete(c) ==
  \E i \in LiveRows :
    /\ DeletesAlone(txs[i])
    /\ Begin(c, [NoRequest EXCEPT !.at = "delete", !.id = i])

SoftDeleteTransaction(c) ==
  /\ request[c].at = "delete"
  /\ request[c].id \in LiveRows \ Locked
  /\ txs' = [txs EXCEPT ![request[c].id].deleted = TRUE]
  /\ request' = [request EXCEPT ![c] = NoRequest]
  /\ UNCHANGED plans

--------------------------------------------------------------------------------
(* Transfers: from an expense category to an income one, the two legs in   *)
(* one transaction.  A pair is named by its first row.                     *)

Pairs == {txs[i].pair : i \in DOMAIN txs} \ {0}
Legs(p) == {i \in DOMAIN txs : txs[i].pair = p}

CreateTransfer ==
  /\ \E from, to \in Categories, a \in Prices :
       /\ TypeOf[from] = "expense" /\ TypeOf[to] = "income"
       /\ LET pair == Len(txs) + 1 IN
          InsertRows(<<Transaction(from, a, "paid", pair, 0, 0), Transaction(to, a, "paid", pair, 0, 0)>>)
  /\ UNCHANGED plans

DeleteTransfer ==
  /\ \E p \in Pairs :
       /\ Legs(p) \cap LiveRows # {}
       /\ txs' = [i \in DOMAIN txs |-> IF i \in Legs(p) THEN [txs[i] EXCEPT !.deleted = TRUE]
                                                        ELSE txs[i]]
  /\ UNCHANGED <<plans, request>>

--------------------------------------------------------------------------------
(* Purchases in instalments.                                               *)

Instalments(p) == {i \in DOMAIN txs : txs[i].plan = p}

\* Even parts, the last with what the division leaves.
EvenParts(total, n) == [k \in 1..n |-> total \div n]           \* faulty
Split(total, n) ==
  [k \in 1..n |-> total \div n + (IF k = n THEN total % n ELSE 0)]

\* An instalment of nothing is refused, and the purchase with it.
CreatePurchasePlan ==
  /\ Len(plans) < MaxPlans
  /\ \E cat \in Categories, total \in Totals, n \in Parts :
       /\ TypeOf[cat] = "expense"
       /\ InsertRows([k \in 1..n |-> Transaction(cat, Split(total, n)[k], "scheduled", 0, Len(plans) + 1, k)])
       /\ plans' = Append(plans, [total |-> total, parts |-> n, remaining |-> n])

\* CancelFutureInstallments: its first statement deletes what is scheduled then,
CancelsUnpaid(t) == t.status # "paid"                          \* faulty
Cancels(t) == t.status = "scheduled"
CancelInstalments(c) ==
  \E p \in DOMAIN plans :
    LET held == {i \in Instalments(p) \cap LiveRows : Cancels(txs[i])} IN
    /\ held \cap Locked = {}
    /\ Begin(c, [NoRequest EXCEPT !.at = "recount", !.plan = p, !.held = held])

\* and its second counts what is left, when the transaction ends.
OfTheOriginal(p, held) == plans[p].parts - Cardinality(held)   \* faulty
LeftOver(p, held) ==
  Cardinality({i \in (Instalments(p) \cap LiveRows) \ held : txs[i].status # "paid"})
RecountRemaining(c) ==
  /\ request[c].at = "recount"
  /\ LET p == request[c].plan
         held == request[c].held IN
     /\ plans' = [plans EXCEPT ![p].remaining = LeftOver(p, held)]
     /\ txs' = [i \in DOMAIN txs |-> IF i \in held THEN [txs[i] EXCEPT !.deleted = TRUE]
                                                   ELSE txs[i]]
  /\ request' = [request EXCEPT ![c] = NoRequest]

--------------------------------------------------------------------------------

\* A refusal, an error, a timeout: an open transaction leaves nothing.
RequestFails(c) ==
  /\ request[c].at # "idle"
  /\ request' = [request EXCEPT ![c] = NoRequest]
  /\ UNCHANGED <<txs, plans>>

LedgerNext ==
  \/ CreateTransaction \/ CreateTransfer \/ DeleteTransfer \/ CreatePurchasePlan
  \/ \E c \in Clients :
       \/ BeginUpdate(c) \/ UpdateTransaction(c)
       \/ BeginDelete(c) \/ SoftDeleteTransaction(c)
       \/ CancelInstalments(c) \/ RecountRemaining(c)
       \/ RequestFails(c)

LedgerSpec == LedgerInit /\ [][LedgerNext]_ledgerVars

--------------------------------------------------------------------------------
(* Totals of a window that holds every row: the first instalment is due,   *)
(* the later ones are not, every other row is in the past.                 *)

CentsOf(ids) == SumFunctionOnSet([i \in ids |-> txs[i].amount], ids)

CountsAll(i) == TRUE                                           \* faulty
CountsInTotals(i) == txs[i].pair = 0
ByStatus(s, type) == CentsOf({i \in LiveRows : CountsInTotals(i) /\ txs[i].status = s /\ txs[i].type = type})
ByCategory(cat, type) == CentsOf({i \in LiveRows : CountsInTotals(i) /\ txs[i].cat = cat /\ txs[i].type = type})
Bucket(i) ==
  IF txs[i].pair # 0 THEN "excluded"
  ELSE IF txs[i].status = "paid" /\ txs[i].number <= 1 THEN "realized" ELSE "projected"
ByRealization(b, type) == CentsOf({i \in LiveRows : Bucket(i) = b /\ txs[i].type = type})

--------------------------------------------------------------------------------

TransactionRow ==
  {t \in [cat : Categories, type : {"income", "expense"}, amount : Nat \ {0}, status : Status,
          pair : Nat, plan : Nat, number : Nat, deleted : BOOLEAN] : References(t)}

Purchase == [total : Nat \ {0}, parts : Parts, remaining : Nat]

Request == [at : {"idle", "update", "delete", "recount"}, id : Nat,
            row : TransactionRow \cup {NoRow}, plan : Nat, held : SUBSET Nat]

\* A row's type is its category's, whatever was patched, and by calls that read
\* the category and wrote the row at different times.
LedgerTypeOK ==
  /\ txs \in Seq(TransactionRow) /\ Len(txs) <= MaxRows
  /\ plans \in Seq(Purchase) /\ Len(plans) <= MaxPlans
  /\ \A p \in DOMAIN plans : plans[p].remaining <= plans[p].parts
  /\ request \in [Clients -> Request]

\* A transfer is two rows, and they are there together or deleted together: no
\* sequence of calls leaves one leg without the other.
LegsTogether ==
  \A p \in Pairs : /\ Cardinality(Legs(p)) = 2
                   /\ Cardinality(Legs(p) \cap LiveRows) \in {0, 2}

\* A purchase is seen with all its instalments or not at all: each position once,
\* whatever failed while it was made and whatever was deleted or paid since.
PlanIsWhole ==
  \A p \in DOMAIN plans :
    /\ Cardinality(Instalments(p)) = plans[p].parts
    /\ {txs[i].number : i \in Instalments(p)} = 1..plans[p].parts

\* A purchase is split without losing or inventing a cent.
PlanAddsUp ==
  [][\A p \in DOMAIN plans' \ DOMAIN plans :
       plans'[p].total = CentsOf(Instalments(p))']_ledgerVars

\* Cancelling keeps history: what disappears was scheduled to the last, an
\* instalment paid or set pending while the cancellation ran included.
CancelKeepsHistory ==
  [][plans' # plans =>
       \A i \in DOMAIN txs : ~txs[i].deleted /\ txs'[i].deleted => txs[i].status = "scheduled"]_ledgerVars

\* A cancellation reports what is still owed: the rows that live and are not paid.
CancelCountsWhatIsLeft ==
  [][\A p \in DOMAIN plans :
       (\E c \in Clients : request[c].plan = p /\ RecountRemaining(c)) =>
         plans'[p].remaining =
           Cardinality({i \in Instalments(p)' : ~txs'[i].deleted /\ txs'[i].status # "paid"})]_ledgerVars

\* A purchase, from its split into instalments to its cancellation.
PurchaseIsExact == PlanAddsUp /\ CancelKeepsHistory /\ CancelCountsWhatIsLeft

\* A deleted row is history: no write that read it before changes it or brings it
\* back after.
DeletedIsFinal ==
  [][\A i \in DOMAIN txs : txs[i].deleted => txs'[i] = txs[i]]_ledgerVars

\* What was bought, paid and deleted stays what it was.
HistoryIsExact == PurchaseIsExact /\ DeletedIsFinal

\* The totals tell one story: by status, by category and by realisation they are
\* the same money, and a transfer is in none of them.
TotalsAgree ==
  \A type \in {"income", "expense"} :
    LET all == SumFunctionOnSet([s \in Status |-> ByStatus(s, type)], Status) IN
    /\ all = SumFunctionOnSet([cat \in Categories |-> ByCategory(cat, type)], Categories)
    /\ all = ByRealization("realized", type) + ByRealization("projected", type)

\* A transfer keeps its two legs, a purchase its instalments, and the totals of the
\* ledger tell one story whichever way they are cut, side-by-side calls and failures
\* included.
LedgerIsSound == LedgerTypeOK /\ LegsTogether /\ PlanIsWhole /\ TotalsAgree

\* How the rows of a transfer and of a purchase lie in the ledger: the two legs one
\* behind the other, of one fate; the instalments in a row, numbered from 1.
RowFollows(i) ==
  /\ txs[i].plan \in 0..Len(plans)
  /\ txs[i].pair # 0 =>
       LET pair == txs[i].pair IN
       /\ txs[i].plan = 0
       /\ i \in {pair, pair + 1} /\ {pair, pair + 1} \subseteq Legs(pair)
       /\ \A j \in Legs(pair) : txs[j].deleted = txs[i].deleted
PartsFollow(p) ==
  \E f \in 0..Len(txs) :
    /\ Instalments(p) = (f + 1)..(f + plans[p].parts)
    /\ \A i \in Instalments(p) : txs[i].number = i - f
RowsFollow ==
  /\ \A i \in DOMAIN txs : RowFollows(i)
  /\ \A p \in DOMAIN plans : PartsFollow(p)

\* What a request under way knows of the row it read, and that what an open
\* cancellation holds is nobody else's and as it was.
KnowsRows(c) ==
  LET r == request[c] IN
  /\ r.at \in {"update", "delete"} => r.id \in DOMAIN txs
  /\ r.at = "update" => r.row \in TransactionRow
  /\ r.at = "delete" => txs[r.id].pair = 0
  /\ r.at # "recount" => r.held = {}
  /\ r.at = "recount" =>
       /\ r.plan \in DOMAIN plans
       /\ r.held \subseteq Instalments(r.plan) \cap LiveRows
       /\ \A i \in r.held : txs[i].status = "scheduled"

HeldApart == \A c, d \in Clients : c # d => request[c].held \cap request[d].held = {}

LedgerInvariant ==
  /\ LedgerTypeOK /\ RowsFollow /\ HeldApart
  /\ \A c \in Clients : KnowsRows(c)

\* TransferPair (domain/transfer.go): "always exactly two rows, one expense + one
\* income with equal amount_cents and equal occurred_at", enforced by the service.
PairIsEven ==
  \A p \in Pairs : \A i, j \in Legs(p) \cap LiveRows :
    /\ txs[i].amount = txs[j].amount
    /\ i # j => txs[i].type # txs[j].type
================================================================================
