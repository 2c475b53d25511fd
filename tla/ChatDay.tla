--------------------------------- MODULE ChatDay ---------------------------------
(***************************************************************************)
(* What an agent spends in a day: the budget gate of turns and of memory   *)
(* consolidations running side by side, the rows their spending is written *)
(* to, and the day's usage summed from those rows (internal/chat/app       *)
(* budget.go, accounting.go, usage.go, consolidation.go; domain/budget.go; *)
(* adapters/repo/messages.go).  ChatTurn has the turn itself.              *)
(*                                                                         *)
(* Tokens are counted in units and every unit costs one where its price is *)
(* known.  A step is one statement of the database or one provider call.   *)
(***************************************************************************)
EXTENDS Naturals, FiniteSets, Functions

CONSTANTS
  Conversations,  \* conversations of the agent
  Budgets,        \* budgets the agent may be given
  NoLimit,        \* a limit that is not set
  MaxCall,        \* the most one provider call consumes
  Callers,        \* operations under way together
  LastDay,        \* bound: UTC days
  MaxRows,        \* bound: rows ever written
  MaxBurnt        \* bound: units ever produced

ASSUME DayAssumption ==
  /\ NoLimit \notin Nat /\ IsFiniteSet(Callers)
  /\ {MaxCall, LastDay} \subseteq Nat \ {0} /\ {MaxRows, MaxBurnt} \subseteq Nat
  /\ \A b \in Budgets : DOMAIN b = {"tokens", "cost"} /\ {b.tokens, b.cost} \subseteq Nat \cup {NoLimit}

VARIABLES
  day,       \* the UTC day
  budget,    \* agents.budget
  messages,  \* chat.messages of the assistant: turns and receipts
  next,      \* the next of chat.messages' sequence
  gone,      \* conversations with deleted_at set
  op,        \* caller -> its operation
  \* what really happened, which no variable of the program knows
  burnt,     \* units the provider produced
  lost,      \* those whose row was not written, or went with an edited turn
  top        \* the highest token limit so far

dayVars == <<day, budget, messages, next, gone, op, burnt, lost, top>>
ghosts == <<burnt, lost, top>>

NoBudget == [tokens |-> NoLimit, cost |-> NoLimit]
Nothing == [tokens |-> 0, cost |-> 0]
Idle == [at |-> "idle", kind |-> "none", conv |-> "none", budget |-> NoBudget, usage |-> Nothing,
         priced |-> FALSE, spent |-> 0, alone |-> FALSE]

DayInit ==
  /\ day = 1 /\ messages = {} /\ next = 1 /\ gone = {}
  /\ budget \in Budgets
  /\ op = [c \in Callers |-> Idle]
  /\ burnt = 0 /\ lost = 0 /\ top = budget.tokens

--------------------------------------------------------------------------------
(* The day's usage and the rule.                                           *)

\* A row of no known price adds nothing to the cost and is counted beside it.
CostOfNull(r) == IF r.priced THEN r.tokens ELSE 1              \* faulty
KnownCost(r) == IF r.priced THEN r.tokens ELSE 0

\* Rows of deleted conversations are summed too, and receipts with the turns.
OfDay(d) == {r \in messages : r.day = d}
Tokens(some) == SumFunction([r \in some |-> r.tokens])
Cost(some) == SumFunction([r \in some |-> KnownCost(r)])
DailyUsage(d) == [tokens |-> Tokens(OfDay(d)), cost |-> Cost(OfDay(d))]
Certain(d) == \A r \in OfDay(d) : r.priced

Enabled(b) == b # NoBudget

\* A limit that is reached blocks, and so does a spending limit with no price.
BlocksPast(limit, used) == limit # NoLimit /\ used > limit     \* faulty
Reached(limit, used) == limit # NoLimit /\ used >= limit
BudgetBlocks(b, used, priced) ==
  \/ Reached(b.tokens, used.tokens)
  \/ Reached(b.cost, used.cost)
  \/ b.cost # NoLimit /\ ~priced

\* The day as it was read, and what this operation spent since.
DayAlone(o) == o.usage                                         \* faulty
Used(o) ==
  [tokens |-> o.usage.tokens + o.spent, cost |-> o.usage.cost + (IF o.priced THEN o.spent ELSE 0)]
MayCall(o) == Enabled(o.budget) => ~BudgetBlocks(o.budget, Used(o), o.priced)

--------------------------------------------------------------------------------
(* A turn (SendMessage, ResumeTurn) or a consolidation.                    *)

InProgress(c) == op[c].at = "open"

Move(c, o) == op' = [op EXCEPT ![c] = o]

\* The conversation, the agent with the budget it has now, and budgetPreflight: no
\* usage is read for an agent with no limits, and a price only for one with a
\* spending limit.  What is refused is not begun.
Preflight(c) ==
  /\ ~InProgress(c)
  /\ \E k \in Conversations \ gone, kind \in {"turn", "auxiliary"}, priced \in BOOLEAN :
       LET o == [at |-> "open", kind |-> kind, conv |-> k, budget |-> budget, spent |-> 0,
                 usage |-> IF Enabled(budget) THEN DailyUsage(day) ELSE Nothing,
                 priced |-> priced, alone |-> \A x \in Callers : ~InProgress(x)]
       IN /\ priced => budget.cost # NoLimit
          /\ MayCall(o)
          /\ op' = [x \in Callers |-> IF x = c THEN o ELSE [op[x] EXCEPT !.alone = FALSE]]
  /\ UNCHANGED <<day, budget, messages, next, gone, ghosts>>

\* A consolidation asks once.
CallsAsATurn(o) == TRUE                                        \* faulty
CallsAgain(o) == o.kind = "auxiliary" => o.spent = 0

\* One provider call, of the many a turn makes and the one of a consolidation;
\* a stream that breaks has consumed what it delivered.
ProviderCall(c) ==
  /\ InProgress(c)
  /\ MayCall(op[c])
  /\ CallsAgain(op[c])
  /\ \E n \in 1..MaxCall :
       /\ burnt + n <= MaxBurnt
       /\ Move(c, [op[c] EXCEPT !.spent = @ + n])
       /\ burnt' = burnt + n
  /\ UNCHANGED <<day, budget, messages, next, gone, lost, top>>

\* aggregateTurn: every call that was opened, one that broke included.
LastCall(o) == IF o.spent > MaxCall THEN MaxCall ELSE o.spent  \* faulty
Consumed(o) == o.spent

\* The turn's row, or the consolidation's receipt, written whatever became of the
\* answer: at the price of the gate, or one looked up now.
Store(c) ==
  /\ InProgress(c) /\ op[c].spent > 0
  /\ next <= MaxRows /\ next' = next + 1
  /\ \E priced \in BOOLEAN :
       /\ op[c].priced => priced
       /\ messages' = messages \cup {[seq |-> next, conv |-> op[c].conv, kind |-> op[c].kind, day |-> day,
                                      tokens |-> Consumed(op[c]), priced |-> priced]}
  /\ Move(c, Idle)
  /\ UNCHANGED <<day, budget, gone, ghosts>>

\* No call was opened, the row could not be written, or the process died.
EndUnrecorded(c) ==
  /\ InProgress(c)
  /\ lost' = lost + op[c].spent
  /\ Move(c, Idle)
  /\ UNCHANGED <<day, budget, messages, next, gone, burnt, top>>

--------------------------------------------------------------------------------
(* The rest of the day.                                                    *)

\* DeleteFromSeq: regenerating or editing replaces turns, not receipts.
Everything(r) == TRUE                                          \* faulty
ConversationRows(r) == r.kind = "turn"
TruncateFrom ==
  /\ \E k \in Conversations \ gone, s \in {r.seq : r \in messages} :
       LET deleted == {r \in messages : r.conv = k /\ r.seq >= s /\ ConversationRows(r)} IN
       /\ messages' = messages \ deleted
       /\ lost' = lost + Tokens({r \in deleted : r.kind = "turn"})
  /\ UNCHANGED <<day, budget, next, gone, op, burnt, top>>

DeleteConversation ==
  /\ \E k \in Conversations \ gone : gone' = gone \cup {k}
  /\ UNCHANGED <<day, budget, messages, next, op, ghosts>>

Higher(a, b) == IF NoLimit \in {a, b} THEN NoLimit ELSE IF a > b THEN a ELSE b
UpdateBudget ==
  /\ \E b \in Budgets : budget' = b /\ top' = Higher(top, b.tokens)
  /\ UNCHANGED <<day, messages, next, gone, op, burnt, lost>>

Midnight ==
  /\ day < LastDay
  /\ day' = day + 1
  /\ UNCHANGED <<budget, messages, next, gone, op, ghosts>>

DayNext ==
  \/ TruncateFrom \/ DeleteConversation \/ UpdateBudget \/ Midnight
  \/ \E c \in Callers : Preflight(c) \/ ProviderCall(c) \/ Store(c) \/ EndUnrecorded(c)

DaySpec == DayInit /\ [][DayNext]_dayVars

--------------------------------------------------------------------------------

MessageRow == [seq : 1..MaxRows, conv : Conversations, kind : {"turn", "auxiliary"},
               day : 1..LastDay, tokens : Nat \ {0}, priced : BOOLEAN]

Operation == [at : {"idle", "open"}, kind : {"none", "turn", "auxiliary"},
              conv : Conversations \cup {"none"}, budget : Budgets \cup {NoBudget},
              usage : [tokens : Nat, cost : Nat], priced : BOOLEAN, spent : Nat, alone : BOOLEAN]

DayTypeOK ==
  /\ day \in 1..LastDay /\ budget \in Budgets
  /\ messages \subseteq MessageRow /\ next \in 1..(MaxRows + 1) /\ gone \subseteq Conversations
  /\ \A r, u \in messages : r.seq = u.seq => r = u
  /\ {burnt, lost} \subseteq Nat /\ top \in Nat \cup {NoLimit}
  /\ op \in [Callers -> Operation]
  /\ \A c \in Callers : op[c].kind = "auxiliary" => op[c].spent <= MaxCall

\* No bill is hidden: every unit the provider produced is in a row, in an operation
\* still under way, or was lost with a write that failed or an edit of its turn -
\* whether or not the answer it came with could be read.  An edit never takes away a
\* receipt: "the one direction accounting must never move on its own" (messages.go).
NothingHidden ==
  burnt = Tokens(messages) + SumFunction([c \in Callers |-> op[c].spent]) + lost

\* An operation that ran by itself passes its limits by less than one call, however
\* many calls it made, and whatever became of the budget, the day or the
\* transcript meanwhile.
AloneByOneCall ==
  [][\A c \in Callers :
       (InProgress(c) /\ op[c].alone /\ messages' # messages /\ op'[c] = Idle) =>
         /\ op[c].budget.tokens # NoLimit => DailyUsage(day)'.tokens < op[c].budget.tokens + MaxCall
         /\ op[c].budget.cost # NoLimit => DailyUsage(day)'.cost < op[c].budget.cost + MaxCall]_dayVars

\* Side by side each may spend what the others do too, and no more: a day counts
\* less than the highest limit and one call for each operation running together.
SideBySideOvershoot ==
  top # NoLimit =>
    \A d \in 1..LastDay : DailyUsage(d).tokens <= Cardinality(Callers) * (top + MaxCall - 1)

\* Whatever is spent beside it, what is spent past a limit is bounded.
OvershootIsBounded == AloneByOneCall /\ []SideBySideOvershoot

\* The cost reported is never more than what was spent, and is exactly that on a
\* day reported as certain.
KnownCostIsFloor ==
  \A d \in 1..LastDay :
    /\ DailyUsage(d).cost <= DailyUsage(d).tokens
    /\ Certain(d) <=> DailyUsage(d).cost = DailyUsage(d).tokens

\* The day's books: typed, nothing hidden, no cost invented.
Accounted == DayTypeOK /\ NothingHidden /\ KnownCostIsFloor

\* "The overshoot is therefore bounded by one turn's ceiling" (domain/budget.go):
\* a day counts less than the highest limit and one call more.
OvershootIsOneTurn ==
  top # NoLimit => \A d \in 1..LastDay : DailyUsage(d).tokens < top + MaxCall

\* The inductive strengthening: rows are finitely many, of days that came and with
\* sequence numbers given,
RowsOfTheDay ==
  /\ IsFiniteSet(messages)
  /\ \A r \in messages : r.seq < next /\ r.day <= day

\* an operation under way knows what the day had when it began, and has spent at most a
\* call past what its limit left,
WithinLimit(limit, used, spent) == limit # NoLimit => used < limit /\ used + spent < limit + MaxCall
OperationKnows(o) ==
  /\ o.conv \in Conversations /\ o.kind # "none"
  /\ WithinLimit(o.budget.tokens, o.usage.tokens, o.spent)
  /\ WithinLimit(o.budget.cost, o.usage.cost, o.spent) /\ (o.budget.cost # NoLimit => o.priced)
  /\ top # NoLimit => o.budget.tokens # NoLimit /\ o.budget.tokens <= top

\* if it is alone, nothing was counted since,
AloneKnows(c) ==
  /\ \A x \in Callers \ {c} : ~InProgress(x)
  /\ Enabled(op[c].budget) => /\ DailyUsage(day).tokens <= op[c].usage.tokens
                              /\ DailyUsage(day).cost <= op[c].usage.cost

\* and what the operations under way may still come to has room below the bound.
PerCaller == top + MaxCall - 1
Allowed == [c \in Callers |-> IF InProgress(c) THEN PerCaller - op[c].usage.tokens ELSE 0]
RoomIsLeft ==
  top # NoLimit =>
    /\ budget.tokens # NoLimit /\ budget.tokens <= top
    /\ Tokens(OfDay(day)) + SumFunction(Allowed) <= Cardinality(Callers) * PerCaller

DayInvariant ==
  /\ DayTypeOK /\ RowsOfTheDay /\ NothingHidden
  /\ \A c \in Callers : /\ InProgress(c) => OperationKnows(op[c]) /\ (op[c].alone => AloneKnows(c))
                        /\ ~InProgress(c) => op[c].spent = 0
  /\ SideBySideOvershoot /\ RoomIsLeft
================================================================================
