------------------------------ MODULE FinanceMonths ------------------------------
(***************************************************************************)
(* Recurring entries of finance and the obligations they leave in each     *)
(* month: internal/finance/app/recurringentries.go and                     *)
(* recurringoccurrences.go over adapters/repo of the same names.           *)
(*                                                                         *)
(* A month is recorded when it is first read.  Screens and chat tools call  *)
(* these operations side by side; a step is one SQL statement, and what a  *)
(* transaction wrote is seen by others when it commits (READ COMMITTED).   *)
(* An edit that also applies to a month holds its entry's row meanwhile.   *)
(*                                                                         *)
(* Days are counted from the first of month 1.  No operation writes a      *)
(* transaction id, so the link to a transaction is left out.               *)
(***************************************************************************)
EXTENDS Naturals, FiniteSets, Functions

CONSTANTS
  Entries,      \* recurring entries that may be created
  Definitions,  \* what an entry may say
  Amounts,      \* amounts a month may be set to
  Callers,      \* calls that may be under way together
  LastMonth,    \* bound: months that are read
  MonthLength,  \* month -> its days
  LastDay       \* bound: days the clock reaches

Months == 1..LastMonth

\* due and until are 0 where the column is null.
IsDefinition(d) ==
  /\ DOMAIN d = {"amount", "day", "recurs", "due", "status", "from", "until", "varies"}
  /\ {d.amount, d.day, d.from} \subseteq Nat \ {0}
  /\ {d.due, d.until} \subseteq Nat
  /\ d.recurs \in {"monthly", "annual"} /\ d.status \in {"active", "paused"}
  /\ d.varies \in BOOLEAN

ASSUME MonthsAssumption ==
  /\ IsFiniteSet(Entries)
  /\ LastMonth \in Nat \ {0} /\ LastDay \in Nat \ {0}
  /\ MonthLength \in [Months -> Nat \ {0}]
  /\ Amounts \subseteq Nat \ {0}
  /\ \A d \in Definitions : IsDefinition(d)

VARIABLES
  clock,    \* the database's day
  entries,  \* recurring_entries: entry -> its definition, Absent before it is created
  gone,     \* those with deleted_at set
  rows,     \* recurring_occurrences
  calls     \* caller -> the operation it is making

monthsVars == <<clock, entries, gone, rows, calls>>

Absent == [recurs |-> "absent"]
NoMonth == [status |-> "none"]
NoCall == [at |-> "idle", entry |-> "none", period |-> 0, now |-> 0, wanted |-> {},
           row |-> NoMonth, amount |-> 0, def |-> Absent]

MonthsInit ==
  /\ clock = 1 /\ gone = {} /\ rows = {}
  \* an annual entry written before the due month existed may say none
  /\ entries \in [Entries -> {Absent} \cup {d \in Definitions : d.recurs = "annual" /\ d.due = 0}]
  /\ calls = [c \in Callers |-> NoCall]

--------------------------------------------------------------------------------
(* Months and definitions.                                                 *)

FirstDay(p) == 1 + SumFunctionOnSet(MonthLength, 1..(p - 1))
PeriodOf(day) ==
  IF \E p \in Months : day \in FirstDay(p)..(FirstDay(p) + MonthLength[p] - 1)
  THEN CHOOSE p \in Months : day \in FirstDay(p)..(FirstDay(p) + MonthLength[p] - 1)
  ELSE LastMonth + 1

Contains(p, day) == PeriodOf(day) = p

\* A due day the month does not have falls on its last one.
DueOn(p, dueDay) ==
  FirstDay(p) - 1 + (IF dueDay > MonthLength[p] THEN MonthLength[p] ELSE dueDay)

\* The part of Validate that relates fields; every definition has the rest.
Valid(d) ==
  /\ d.recurs = "monthly" => d.due = 0
  /\ d.recurs = "annual" => d.due # 0
  /\ d.until # 0 => d.until >= d.from

EndedBy(d, day) == d.until # 0 /\ d.until <= day
NeedsDueMonth(d) == d.recurs = "annual" /\ d.due = 0
OccursIn(d, p) == d.recurs = "monthly" \/ d.due = p

\* The month decides, not the day: an entry that ends or starts within it is owed.
ActiveIn(d, p) ==
  /\ d.status = "active" /\ OccursIn(d, p)
  /\ p >= PeriodOf(d.from)
  /\ d.until # 0 => p <= PeriodOf(d.until)

Unplaceable(d, now) == NeedsDueMonth(d) /\ d.status = "active" /\ ~EndedBy(d, now)

MonthlyShare(e, d, p, now) ==                                  \* faulty
  [entry |-> e, period |-> p, amount |-> IF d.recurs = "annual" THEN d.amount \div 12 ELSE d.amount,
   due |-> DueOn(p, d.day), estimated |-> TRUE, status |-> "pending", paid |-> 0]
NewOccurrence(e, d, p, now) ==
  [entry |-> e, period |-> p, amount |-> d.amount, due |-> DueOn(p, d.day),
   estimated |-> d.varies \/ p # PeriodOf(now), status |-> "pending", paid |-> 0]

ValidRow(o) == Contains(o.period, o.due) /\ (o.status = "paid" <=> o.paid # 0)

LiveEntries == {e \in Entries : entries[e] # Absent} \ gone
SameMonth(o, u) == o.entry = u.entry /\ o.period = u.period

--------------------------------------------------------------------------------
(* GetMonthlyCommitment.                                                   *)

ProjectMonth(p, now) ==
  {NewOccurrence(e, entries[e], p, now) :
     e \in {x \in LiveEntries : ~Unplaceable(entries[x], now) /\ ActiveIn(entries[x], p)}}

\* A month that has not begun is a projection, and nothing of it is written.
RecordsAnyMonth(p, now) == TRUE                                \* faulty
Records(p, now) == p <= PeriodOf(now)

\* The clock and the entries are read before the transaction.
BeginRead(c) ==
  /\ calls[c].at = "idle"
  /\ \E p \in Months :
       /\ Records(p, clock)
       /\ calls' = [calls EXCEPT ![c] =
            [NoCall EXCEPT !.at = "read", !.period = p, !.now = clock, !.wanted = ProjectMonth(p, clock)]]
  /\ UNCHANGED <<clock, entries, gone, rows>>

\* INSERT ... ON CONFLICT (recurring_entry_id, period) DO NOTHING.
OverwriteMonth(wanted) ==                                      \* faulty
  {o \in rows : \A w \in wanted : ~SameMonth(o, w)} \cup wanted
InsertMonth(wanted) == rows \cup wanted                        \* faulty
EnsureMissing(wanted) ==
  rows \cup {w \in wanted : \A o \in rows : ~SameMonth(o, w)}

\* Every occurrence is validated before any is inserted.
ReadMonth(c) ==
  /\ calls[c].at = "read"
  /\ \A w \in calls[c].wanted : ValidRow(w)
  /\ rows' = EnsureMissing(calls[c].wanted)
  /\ calls' = [calls EXCEPT ![c] = NoCall]
  /\ UNCHANGED <<clock, entries, gone>>

\* What the call then lists: the month's rows of entries that are not deleted.
ListByPeriod(p, table) == {o \in table : o.period = p /\ o.entry \notin gone}

Cents(lines) == SumFunctionOnSet([o \in lines |-> o.amount], lines)
OfStatus(lines, s) == {o \in lines : o.status = s}
Overdue(o, today) == o.status = "pending" /\ o.due < today
OnlyDueLater(lines, today) ==                                  \* faulty
  [committed |-> Cents(lines), paid |-> Cents(OfStatus(lines, "paid")),
   remaining |-> Cents({o \in lines : ~Overdue(o, today)}) - Cents(OfStatus(lines, "paid")),
   overdue |-> Cardinality({o \in lines : Overdue(o, today)})]
SummarizeOccurrences(lines, today) ==
  [committed |-> Cents(lines), paid |-> Cents(OfStatus(lines, "paid")),
   remaining |-> Cents(lines) - Cents(OfStatus(lines, "paid")),
   overdue |-> Cardinality({o \in lines : Overdue(o, today)})]

--------------------------------------------------------------------------------
(* MarkOccurrencePaid, UnmarkOccurrencePaid and SetOccurrenceAmount: the   *)
(* row is read, changed in memory and written back whole.                  *)

\* settleableOccurrence, then what each asks of the status it found: a month
\* already as asked is answered and not written.
SettleableOccurrence(c, next, found, amount) ==
  /\ calls[c].at = "idle"
  /\ \E o \in rows :
       /\ o.period <= PeriodOf(clock) /\ o.entry \notin gone
       /\ o.status = found
       /\ calls' = [calls EXCEPT ![c] =
            [NoCall EXCEPT !.at = next, !.row = o, !.now = clock, !.amount = amount]]
  /\ UNCHANGED <<clock, entries, gone, rows>>

BeginPay(c) == SettleableOccurrence(c, "pay", "pending", 0)
BeginUnpay(c) == SettleableOccurrence(c, "unpay", "paid", 0)
BeginSetAmount(c) == \E a \in Amounts : SettleableOccurrence(c, "set", "pending", a)

MarkPaid(o, at) == [o EXCEPT !.status = "paid", !.paid = at]
UnmarkPaid(o) == [o EXCEPT !.status = "pending", !.paid = 0]
SetAmountCents(o, cents) == [o EXCEPT !.amount = cents, !.estimated = FALSE]

\* UPDATE by id: period and due date stay the row's own.
UpdateRow(o, u) ==
  [o EXCEPT !.amount = u.amount, !.estimated = u.estimated, !.status = u.status, !.paid = u.paid]
UpdateOccurrence(u) == {IF SameMonth(o, u) THEN UpdateRow(o, u) ELSE o : o \in rows}

WriteBack(c, at, u) ==
  /\ calls[c].at = at
  /\ ValidRow(u)
  /\ rows' = UpdateOccurrence(u)
  /\ calls' = [calls EXCEPT ![c] = NoCall]
  /\ UNCHANGED <<clock, entries, gone>>

Pay(c) == WriteBack(c, "pay", MarkPaid(calls[c].row, calls[c].now))
Unpay(c) == WriteBack(c, "unpay", UnmarkPaid(calls[c].row))
SetAmount(c) == WriteBack(c, "set", SetAmountCents(calls[c].row, calls[c].amount))

--------------------------------------------------------------------------------
(* The entries.                                                            *)

CreateRecurringEntry ==
  /\ \E e \in Entries, d \in Definitions :
       /\ entries[e] = Absent /\ Valid(d)
       /\ entries' = [entries EXCEPT ![e] = d]
  /\ UNCHANGED <<clock, gone, rows, calls>>

\* The row an edit holds from its UPDATE to the end of its transaction.
Held(e) == \E c \in Callers : calls[c].entry = e /\ calls[c].at \in {"find", "apply"}

\* FindByID; a period other than 0 opens a transaction, whose now() is its start.
\* Only the current month takes an edit.
AppliesTo(p, now) == p = PeriodOf(now)
BeginEdit(c) ==
  /\ calls[c].at = "idle"
  /\ \E e \in LiveEntries, d \in Definitions, p \in 0..LastMonth :
       /\ Valid(d)
       /\ p # 0 => AppliesTo(p, clock)
       /\ calls' = [calls EXCEPT ![c] =
            [NoCall EXCEPT !.at = "edit", !.entry = e, !.def = d, !.period = p, !.now = clock]]
  /\ UNCHANGED <<clock, entries, gone, rows>>

WriteEntry(c) ==
  /\ calls[c].at = "edit" /\ calls[c].entry \in LiveEntries /\ ~Held(calls[c].entry)
  /\ IF calls[c].period = 0
     THEN /\ entries' = [entries EXCEPT ![calls[c].entry] = calls[c].def]
          /\ calls' = [calls EXCEPT ![c] = NoCall]
     ELSE /\ calls' = [calls EXCEPT ![c].at = "find"]
          /\ UNCHANGED entries
  /\ UNCHANGED <<clock, gone, rows>>

\* The month is there and, as read, not paid.
FindByEntryPeriod(c) ==
  /\ calls[c].at = "find"
  /\ \E o \in rows :
       /\ o.entry = calls[c].entry /\ o.period = calls[c].period
       /\ o.status = "pending"
       /\ calls' = [calls EXCEPT ![c].at = "apply", ![c].row = o]
  /\ UNCHANGED <<clock, entries, gone, rows>>

\* UPDATE ... WHERE status = 'pending': missing the row undoes the whole edit.
TakesAnyStatus(o) == TRUE                                      \* faulty
TakesDefinition(o) == o.status = "pending"
Applied(o, d) ==
  [o EXCEPT !.amount = d.amount, !.estimated = d.varies, !.due = DueOn(o.period, d.day)]
AmountOnly(u, d) ==                                            \* faulty
  {IF SameMonth(o, u) THEN [o EXCEPT !.amount = d.amount] ELSE o : o \in rows}
ApplyToRow(u, d) == {IF SameMonth(o, u) THEN Applied(o, d) ELSE o : o \in rows}

ApplyDefinition(c) ==
  /\ calls[c].at = "apply"
  /\ ValidRow(Applied(calls[c].row, calls[c].def))
  /\ \A o \in rows : SameMonth(o, calls[c].row) => TakesDefinition(o)
  /\ rows' = ApplyToRow(calls[c].row, calls[c].def)
  /\ entries' = [entries EXCEPT ![calls[c].entry] = calls[c].def]
  /\ calls' = [calls EXCEPT ![c] = NoCall]
  /\ UNCHANGED <<clock, gone>>

DeleteRecurringEntry ==
  /\ \E e \in LiveEntries : ~Held(e) /\ gone' = gone \cup {e}
  /\ UNCHANGED <<clock, entries, rows, calls>>

\* A refusal, an error, a timeout: an open transaction leaves nothing.
CallFails(c) ==
  /\ calls[c].at # "idle"
  /\ calls' = [calls EXCEPT ![c] = NoCall]
  /\ UNCHANGED <<clock, entries, gone, rows>>

Tick ==
  /\ clock < LastDay
  /\ clock' = clock + 1
  /\ UNCHANGED <<entries, gone, rows, calls>>

MonthsNext ==
  \/ Tick \/ CreateRecurringEntry \/ DeleteRecurringEntry
  \/ \E c \in Callers :
       \/ BeginRead(c) \/ ReadMonth(c)
       \/ BeginPay(c) \/ Pay(c) \/ BeginUnpay(c) \/ Unpay(c)
       \/ BeginSetAmount(c) \/ SetAmount(c)
       \/ BeginEdit(c) \/ WriteEntry(c) \/ FindByEntryPeriod(c) \/ ApplyDefinition(c)
       \/ CallFails(c)

MonthsSpec == MonthsInit /\ [][MonthsNext]_monthsVars

--------------------------------------------------------------------------------

MonthRow == [entry : Entries, period : Months, amount : Nat \ {0}, due : Nat,
             estimated : BOOLEAN, status : {"pending", "paid"}, paid : Nat]

MonthCall == [at : {"idle", "read", "pay", "unpay", "set", "edit", "find", "apply"},
              entry : Entries \cup {"none"}, period : 0..LastMonth, now : Nat,
              wanted : SUBSET MonthRow, row : MonthRow \cup {NoMonth}, amount : Nat,
              def : Definitions \cup {Absent}]

MonthsTypeOK ==
  /\ clock \in 1..LastDay
  /\ entries \in [Entries -> Definitions \cup {Absent}]
  /\ gone \subseteq Entries
  /\ rows \subseteq MonthRow
  /\ calls \in [Callers -> MonthCall]

\* An entry owes a month once, however many calls record that month together and
\* whatever edits of the entry fall between their reading and their writing.
OneObligation == \A o, u \in rows : SameMonth(o, u) => o = u

\* Every row is one the table's checks accept - due inside its own month, paid
\* exactly when it has a date - although it is written from a copy that may be
\* old; and no month is recorded before it began.
RowsAreSound ==
  \A o \in rows : ValidRow(o) /\ o.period <= PeriodOf(clock)

\* The months recorded are sound: typed, one for each entry, as the table wants them.
MonthsAreSound == MonthsTypeOK /\ OneObligation /\ RowsAreSound

\* Reading a month records what is missing and changes nothing that is there: not
\* an amount that was set, nor a payment made while it read.
ReadingKeepsMonths ==
  [][\A c \in Callers : ReadMonth(c) => rows \subseteq rows']_monthsVars

\* A month answered is whole: each entry that was owed when the call began and is
\* not deleted since has its line, and what remains is what its pending lines come
\* to, overdue or not.
MonthIsWhole ==
  [][\A c \in Callers :
       ReadMonth(c) =>
         LET lines == ListByPeriod(calls[c].period, rows')
         IN /\ \A w \in calls[c].wanted : w.entry \notin gone => \E o \in lines : SameMonth(o, w)
            /\ SummarizeOccurrences(lines, clock).remaining = Cents(OfStatus(lines, "pending"))]_monthsVars

\* A month that is read is whole, and reading it changed nothing that was there.
ReadingIsWhole == ReadingKeepsMonths /\ MonthIsWhole

\* Editing an entry rewrites no settled history: a paid month is as it was, even
\* when it was paid while the edit was under way, and so is every month but the
\* one that was current when the edit began.
EditKeepsHistory ==
  [][entries' # entries =>
       \A o \in rows \ rows' :
         /\ o.status = "pending"
         /\ \E c \in Callers : calls[c].at = "apply" /\ SameMonth(o, calls[c].row)
                               /\ o.period = PeriodOf(calls[c].now)]_monthsVars

\* An edit that also applies to a month does both or neither: no step of it changes
\* the entry unless the month then says what the entry says.
EditAppliesBoth ==
  [][\A c \in Callers :
       (/\ calls[c].at \in {"edit", "find", "apply"} /\ calls[c].period # 0
        /\ calls'[c] # calls[c] /\ entries' # entries) =>
         \E o \in rows' :
           /\ o.entry = calls[c].entry /\ o.period = calls[c].period
           /\ o = Applied(o, entries'[calls[c].entry])]_monthsVars

\* An edit does all it was asked, to nothing but what it was asked for.
EditIsSound == EditKeepsHistory /\ EditAppliesBoth

\* What was recorded of a month survives reading it and editing its entry.
MonthsAreKept == ReadingIsWhole /\ EditIsSound

\* What a call under way knows: what it projected is of one month that has begun,
\* a row each; an edit of a month is of the one current when it began; and the row
\* it found there is still in the table, whatever its status is now.
KnowsMonth(c) ==
  LET k == calls[c] IN
  /\ k.now <= clock
  /\ k.at = "read" =>
       /\ IsFiniteSet(k.wanted) /\ k.period <= PeriodOf(clock)
       /\ \A v, w \in k.wanted : w.period = k.period /\ (SameMonth(v, w) => v = w)
  /\ k.at \in {"pay", "unpay", "set", "apply"} => k.row \in MonthRow
  /\ k.at = "set" => k.amount # 0
  /\ k.at \in {"edit", "find", "apply"} =>
       /\ k.entry \in Entries /\ k.def \in Definitions
       /\ k.period # 0 => k.period = PeriodOf(k.now)
  /\ k.at \in {"find", "apply"} => k.period # 0
  /\ k.at = "apply" =>
       /\ k.row.entry = k.entry /\ k.row.period = k.period
       /\ \E o \in rows : SameMonth(o, k.row)

MonthsInvariant ==
  /\ MonthsAreSound /\ IsFiniteSet(rows)
  /\ \A c \in Callers : KnowsMonth(c)

\* MarkPaid (domain/recurringoccurrence.go): marking an already-paid month "is
\* refused rather than silently re-stamped: the second call would move a recorded
\* payment date" - while a month stays paid, its date stays.
PaidDateStays ==
  [][\A o \in rows, u \in rows' :
       (SameMonth(o, u) /\ o.status = "paid" /\ u.status = "paid") => o.paid = u.paid]_monthsVars
================================================================================
