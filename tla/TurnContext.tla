------------------------------ MODULE TurnContext ------------------------------
(***************************************************************************)
(* What a turn of a conversation is told before it begins: the calls of    *)
(* earlier turns, as evidence and as an execution record, and the present  *)
(* state of what the conversation is about (internal/chat/app context.go,  *)
(* evidence.go, execution.go, hydration.go, context_references.go and      *)
(* references.go).                                                         *)
(*                                                                         *)
(* A turn reads the window, the audit trail, the grants and the subjects   *)
(* one after the other, while other turns of the thread store theirs,      *)
(* somebody edits the subjects and the operator edits the grants.  A       *)
(* reading is the time it was made at: the clock counts changes.  Texts    *)
(* are their length.                                                       *)
(***************************************************************************)
EXTENDS Naturals, Sequences, FiniteSetsExt, Functions

CONSTANTS
  Subjects,     \* entities a reference may name
  PerTurn,      \* those of a type read anew on every turn
  Threads,      \* what a thread may be about
  Attachable,   \* what a message may attach
  Tools,        \* registered tools
  Writes,       \* those that change the entity they are called with
  Calls,        \* the calls models make: a tool and an entity, or None
  Capability,   \* the tool that hydrating a subject asks for
  Granted,      \* sets of tools the agent may hold
  SizeOf,       \* tool -> length of its results
  Scopes,       \* selections of tools a message may make, {} for none
  TurnRunners,  \* turns that may be under way
  WindowLimit,  \* agent.HistoryLimit: messages in the window
  EvidenceBudget, EvidenceMaxResult, ExecutionBudget,
  MaxBegun, MaxCalls, MaxClock, MaxEdits  \* bounds: turns, calls on record, changes, edits beside the turns

None == "none"

ASSUME ContextAssumption ==
  /\ PerTurn \subseteq Subjects /\ Threads \cup Attachable \subseteq SUBSET Subjects
  /\ Writes \subseteq Tools /\ Capability \in Tools
  /\ Calls \subseteq Tools \X (Subjects \cup {None})
  /\ SizeOf \in [Tools -> Nat] /\ Scopes \cup Granted \subseteq SUBSET Tools
  /\ {WindowLimit, EvidenceMaxResult, MaxClock} \subseteq Nat \ {0}
  /\ {EvidenceBudget, ExecutionBudget, MaxBegun} \subseteq Nat

VARIABLES
  clock,    \* changes made to the subjects
  state,    \* subject -> when it last changed, 0 once it is removed
  grants,   \* tools granted to the agent
  conv,     \* what the thread is about
  rows,     \* rows of chat.messages: whose turn
  audit,    \* rows of chat.tool_calls as created_at orders them
  begun,    \* turns begun
  edits,    \* edits made beside the turns
  op,       \* runner -> the turn it runs
  beside    \* history: pairs of turns that ran side by side

contextVars == <<clock, state, grants, conv, rows, audit, begun, edits, op, beside>>

Status == {"ok", "error", "not_executed"}

\* held is history: every tool granted at some moment since the turn began.
Idle == [at |-> "idle", turn |-> 0, attached |-> {}, scope |-> {}, tools |-> {}, window |-> {},
         evidence |-> <<>>, execution |-> <<>>, hydrated |-> [s \in Subjects |-> None],
         calls |-> <<>>, read |-> 0, held |-> {}]

ContextInit ==
  /\ clock = 1 /\ state = [s \in Subjects |-> 1]
  /\ grants \in Granted
  /\ conv \in Threads
  /\ rows = <<>> /\ audit = <<>> /\ begun = 0 /\ edits = 0
  /\ op = [r \in TurnRunners |-> Idle]
  /\ beside = {}

At(r, phase) == op[r].at = phase
UnderWay == {r \in TurnRunners : ~At(r, "idle")}

--------------------------------------------------------------------------------
(* Evidence: what the tools of earlier turns saw.                          *)

\* What the thread is about and what this message attaches.
OfTheThread(r) == conv                                         \* faulty
TurnReferences(r) == op[r].attached \cup conv

\* The records of a turn's evidence are positions in the audit trail.
ReadingsOfAll(records, about) == records                       \* faulty
DropReadingsOfSubjects(records, about) == {i \in records : audit[i].about \notin about}

Carried(rec) == rec.status = "ok"
Key(rec) == <<rec.tool, rec.about>>
CutOf(rec) == IF SizeOf[rec.tool] > EvidenceMaxResult THEN SizeOf[rec.tool] - EvidenceMaxResult ELSE 0
Cost(rec) == 1 + SizeOf[rec.tool] - CutOf(rec) + (IF CutOf(rec) > 0 THEN 1 ELSE 0)

\* Newest first: the oldest of what is left is taken last.
NewestLast(positions) == Max(positions)                        \* faulty
OldestLast(positions) == Min(positions)

Picking == [seen |-> {}, used |-> 0, picked |-> <<>>]
\* The newest call of a key, while the budget lasts; one that does not fit is passed over.
PickItem(i, acc) ==
  LET rec == audit[i] IN
  IF ~Carried(rec) \/ Key(rec) \in acc.seen THEN acc
  ELSE IF acc.used + Cost(rec) > EvidenceBudget THEN [acc EXCEPT !.seen = @ \cup {Key(rec)}]
  ELSE [seen |-> acc.seen \cup {Key(rec)}, used |-> acc.used + Cost(rec), picked |-> <<i>> \o acc.picked]
SelectEvidence(records) ==
  MapThenFoldSet(PickItem, Picking, LAMBDA i : i, OldestLast, records).picked

(* The execution record: what they did.                                    *)

\* One entry for each capability and status among a turn's writes.
WritesOf(turn, records) == {i \in records : audit[i].turn = turn /\ audit[i].tool \in Writes}
KindOf(i) == <<audit[i].tool, audit[i].status>>
EntriesOf(turn, records) ==
  LET Of(k) == {i \in WritesOf(turn, records) : KindOf(i) = k}
  IN {[tool |-> k[1], status |-> k[2], count |-> Cardinality(Of(k)),
       refs |-> {audit[i].about : i \in Of(k)}] : k \in {KindOf(i) : i \in WritesOf(turn, records)}}

\* `order` is where the window's answers are; turns that wrote nothing say nothing.
PickTurn(i, acc, records) ==
  LET entries == EntriesOf(rows[i].turn, records)
      cost == 1 + Cardinality(entries)
  IN IF entries = {} \/ acc.used + cost > ExecutionBudget THEN acc
     ELSE [used |-> acc.used + cost,
           picked |-> <<[turn |-> rows[i].turn, entries |-> entries]>> \o acc.picked]
SelectExecution(order, records) ==
  MapThenFoldSet(LAMBDA i, acc : PickTurn(i, acc, records), [used |-> 0, picked |-> <<>>],
                 LAMBDA i : i, OldestLast, order).picked

--------------------------------------------------------------------------------
(* A turn.                                                                 *)

\* A selection only removes: a tool that is not granted refuses the turn, and so does
\* a reference that resolves to nothing.
Selectable(scope) == scope \subseteq grants
BeginTurn(r) ==
  /\ At(r, "idle") /\ begun < MaxBegun
  /\ \E scope \in Scopes, about \in Attachable :
       /\ Selectable(scope) /\ \A s \in about : state[s] > 0
       /\ op' = [op EXCEPT ![r] = [Idle EXCEPT
                   !.at = "evidence", !.turn = begun + 1, !.scope = scope,
                   !.attached = about,
                   !.held = grants]]
  /\ begun' = begun + 1
  /\ rows' = Append(rows, [role |-> "user", turn |-> begun + 1])
  /\ beside' = beside \cup {<<op[o].turn, begun + 1>> : o \in UnderWay}
  /\ UNCHANGED <<clock, state, grants, conv, audit, edits>>

\* ListRecent: the answers among the last messages.
Order == {i \in DOMAIN rows : i + WindowLimit > Len(rows) /\ rows[i].role = "assistant"}
WindowTurns == {rows[i].turn : i \in Order}

\* The execution record is taken from all the records, before readings are dropped.
FromWhatIsLeft(records, about) == DropReadingsOfSubjects(records, about)  \* faulty
ForExecution(records, about) == records

\* A selection made when the turn was admitted stands; without one the grants are read.
AlwaysRead(r) == grants                                        \* faulty
Declared(r) == IF op[r].scope = {} THEN grants ELSE op[r].scope

EvidenceForTurn(r) ==
  /\ At(r, "evidence")
  /\ LET records == {i \in DOMAIN audit : audit[i].turn \in WindowTurns}
         about == TurnReferences(r)
     IN op' = [op EXCEPT ![r] = [@ EXCEPT
                 !.at = "hydrate", !.tools = Declared(r), !.window = WindowTurns, !.read = Len(audit),
                 !.evidence = SelectEvidence(DropReadingsOfSubjects(records, about)),
                 !.execution = SelectExecution(Order, ForExecution(records, about))]]
  /\ UNCHANGED <<clock, state, grants, conv, rows, audit, begun, edits, beside>>

\* A read that failed costs the turn both, and not the answer.
EvidenceUnavailable(r) ==
  /\ At(r, "evidence")
  /\ op' = [op EXCEPT ![r] = [@ EXCEPT !.at = "hydrate", !.tools = Declared(r)]]
  /\ UNCHANGED <<clock, state, grants, conv, rows, audit, begun, edits, beside>>

RegisteredOnly(r) == Capability \in Tools                      \* faulty
HydrationAuthorized(r) == Capability \in op[r].tools

\* "unavailable" stands for a read that failed too: the report gives both one reason.
HydrationAnswers(r, s) ==
  IF ~HydrationAuthorized(r) THEN {"unauthorized"}
  ELSE {"unavailable"} \cup (IF state[s] > 0 THEN {"current"} ELSE {})

\* The context is sent: what is left of it is what the loop asks for.
InLoop(r) == [Idle EXCEPT !.at = "loop", !.turn = op[r].turn, !.scope = op[r].scope,
                         !.tools = op[r].tools, !.held = op[r].held]

\* A type that is not read anew has no entry.
HydrateSubjects(r) ==
  /\ At(r, "hydrate")
  /\ LET about == TurnReferences(r) \cap PerTurn IN
     \E h \in [about -> {"unauthorized", "unavailable", "current"}] :
       /\ \A s \in about : h[s] \in HydrationAnswers(r, s)
       /\ op' = [op EXCEPT ![r] = [InLoop(r) EXCEPT
                   !.hydrated = [s \in Subjects |-> IF s \in about THEN h[s] ELSE None]]]
  /\ UNCHANGED <<clock, state, grants, conv, rows, audit, begun, edits, beside>>

\* The frozen description of a subject is printed if its state was not asked for.
UnlessCurrent(h) == {s \in Subjects : h[s] = "current"}        \* faulty
StateShown(h) == {s \in Subjects : h[s] # None}
Described(r, h) == TurnReferences(r) \ StateShown(h)

\* A call of the model: refused when its tool was not declared.
CallsMade == Len(audit) + SumFunction([r \in TurnRunners |-> Len(op[r].calls)])
ExecuteCall(r) ==
  /\ At(r, "loop") /\ CallsMade < MaxCalls
  /\ \E call \in Calls :
          LET t == call[1]
              s == call[2]
              allowed == t \in op[r].tools
              there == s = None \/ (s # None /\ state[s] > 0)
              writes == allowed /\ there /\ t \in Writes
              status == IF ~allowed THEN "not_executed" ELSE IF there THEN "ok" ELSE "error"
              now == IF writes THEN clock + 1 ELSE clock
          IN /\ now <= MaxClock /\ clock' = now
             /\ state' = IF writes THEN [state EXCEPT ![s] = now] ELSE state
             /\ op' = [op EXCEPT ![r] = [InLoop(r) EXCEPT !.calls = Append(op[r].calls, [turn |-> op[r].turn, tool |-> t, about |-> s,
                                                        status |-> status, seen |-> now])]]
  /\ UNCHANGED <<grants, conv, rows, audit, begun, edits, beside>>

StoreAnswer(r) ==
  /\ At(r, "loop")
  /\ rows' = Append(rows, [role |-> "assistant", turn |-> op[r].turn])
  /\ op' = [op EXCEPT ![r] = IF op[r].calls = <<>> THEN Idle
                             ELSE [Idle EXCEPT !.at = "audit", !.turn = op[r].turn, !.calls = op[r].calls]]
  /\ UNCHANGED <<clock, state, grants, conv, audit, begun, edits, beside>>

\* One statement stores all the calls of a turn.
PersistToolCalls(r) ==
  /\ At(r, "audit")
  /\ audit' = audit \o op[r].calls
  /\ op' = [op EXCEPT ![r] = Idle]
  /\ UNCHANGED <<clock, state, grants, conv, rows, begun, edits, beside>>

\* A statement fails or the process ends: the turn leaves what it stored.  Before the
\* loop a turn has stored no more than one that ends there without a call.
Fail(r) ==
  /\ At(r, "loop") \/ At(r, "audit")
  /\ op' = [op EXCEPT ![r] = Idle]
  /\ UNCHANGED <<clock, state, grants, conv, rows, audit, begun, edits, beside>>

--------------------------------------------------------------------------------
(* Beside the turns.                                                       *)

\* Somebody edits or removes an entity.
Change ==
  /\ clock < MaxClock /\ clock' = clock + 1 /\ edits < MaxEdits /\ edits' = edits + 1
  /\ \E s \in Subjects : state[s] > 0 /\ \E v \in {0, clock + 1} : state' = [state EXCEPT ![s] = v]
  /\ UNCHANGED <<grants, conv, rows, audit, begun, op, beside>>

\* The operator grants a tool or revokes one.
EditGrants ==
  /\ edits < MaxEdits /\ edits' = edits + 1
  /\ grants' \in {g \in Granted : \E t \in Tools : g = grants \cup {t} \/ g = grants \ {t}} \ {grants}
  /\ op' = [r \in TurnRunners |-> IF r \in UnderWay THEN [op[r] EXCEPT !.held = @ \cup grants'] ELSE op[r]]
  /\ UNCHANGED <<clock, state, conv, rows, audit, begun, beside>>

ContextNext ==
  \/ Change \/ EditGrants
  \/ \E r \in TurnRunners :
       \/ BeginTurn(r) \/ EvidenceForTurn(r) \/ EvidenceUnavailable(r)
       \/ HydrateSubjects(r) \/ ExecuteCall(r)
       \/ StoreAnswer(r) \/ PersistToolCalls(r) \/ Fail(r)

ContextSpec == ContextInit /\ [][ContextNext]_contextVars

--------------------------------------------------------------------------------

Record == [turn : 1..MaxBegun, tool : Tools, about : Subjects \cup {None}, status : Status, seen : 1..MaxClock]
Entry == [tool : Tools, status : Status, count : Nat, refs : SUBSET (Subjects \cup {None})]
Turn == [at : {"idle", "evidence", "hydrate", "loop", "audit"}, turn : 0..MaxBegun,
         attached : SUBSET Subjects, scope : SUBSET Tools, tools : SUBSET Tools, held : SUBSET Tools,
         window : SUBSET (1..MaxBegun), evidence : Seq(Nat), read : Nat,
         execution : Seq([turn : 1..MaxBegun, entries : SUBSET Entry]),
         hydrated : [Subjects -> {None, "unauthorized", "unavailable", "current"}],
         calls : Seq(Record)]
ContextTypeOK ==
  /\ clock \in 1..MaxClock /\ begun \in 0..MaxBegun
  /\ state \in [Subjects -> 0..MaxClock] /\ conv \subseteq Subjects /\ grants \subseteq Tools
  /\ rows \in Seq([role : {"user", "assistant"}, turn : 1..MaxBegun])
  /\ audit \in Seq(Record)
  /\ op \in [TurnRunners -> Turn]
  /\ beside \subseteq (1..MaxBegun) \X (1..MaxBegun)

Briefed == {r \in TurnRunners : At(r, "hydrate")}
Looping == {r \in TurnRunners : At(r, "loop")}
About(r) == {s \in Subjects : s \in conv \/ s \in op[r].attached}

\* "When a subject's present state is in this same context, the frozen line is a second
\* answer" (context_references.go), and an earlier reading is a third (evidence.go): when
\* the context is built no earlier reading of what it is about is in it, and what is read
\* anew has its state, or the reason why not, and no frozen description.
PromptIsFresh ==
  [][\A r \in Briefed : op'[r].at = "loop" =>
       \A s \in About(r) :
         /\ \A i \in Range(op[r].evidence) : audit[i].about # s
         /\ s \in PerTurn => op'[r].hydrated[s] # None /\ s \notin Described(r, op'[r].hydrated)]_contextVars

\* "There is no path in which a client-supplied name causes a tool to be exposed that
\* the store did not already grant" (references.go): what a turn reads or runs was
\* granted at some moment since it began, and is in its selection if it made one.
Permitted(r, t) == t \in op[r].held /\ (op[r].scope # {} => t \in op[r].scope)
ReadsAreAuthorised ==
  \A r \in Looping :
    /\ \A s \in Subjects : op[r].hydrated[s] \notin {None, "unauthorized"} => Permitted(r, Capability)
    /\ \A i \in DOMAIN op[r].calls :
         op[r].calls[i].status # "not_executed" => Permitted(r, op[r].calls[i].tool)

\* What the turn could be told: the records it read of the turns it can see.
Visible(r) == {i \in 1..op[r].read : audit[i].turn \in op[r].window}
NewestOfCall(r) ==
  {i \in Visible(r) :
     /\ Carried(audit[i]) /\ audit[i].about \notin About(r)
     /\ \A j \in Visible(r) : (j > i /\ Carried(audit[j])) => Key(audit[j]) # Key(audit[i])}

\* The evidence is newest records of their calls, in order and within the budget; one is
\* left out only if it does not fit beside those that are in.
CostOfAll(chosen) == SumFunctionOnSet([i \in chosen |-> Cost(audit[i])], chosen)
EvidenceIsSound ==
  \A r \in Briefed :
    LET chosen == Range(op[r].evidence) IN
    /\ chosen \subseteq NewestOfCall(r)
    /\ \A m, n \in DOMAIN op[r].evidence : m < n => op[r].evidence[m] < op[r].evidence[n]
    /\ CostOfAll(chosen) <= EvidenceBudget
    /\ \A i \in NewestOfCall(r) \ chosen : CostOfAll(chosen) + Cost(audit[i]) > EvidenceBudget

\* "The newest is the true one" (evidence.go, rule 2): no reading is replayed that
\* another, of the same call, was made after - but by a turn that ran beside it.
SideBySide(t, u) == <<t, u>> \in beside \/ <<u, t>> \in beside
NewerThan(r, e) ==
  {i \in Visible(r) : /\ Carried(audit[i]) /\ Key(audit[i]) = Key(audit[e])
                      /\ audit[i].seen > audit[e].seen}
NewestUnlessBeside ==
  \A r \in Briefed : \A e \in Range(op[r].evidence) :
    \A i \in NewerThan(r, e) : SideBySide(audit[i].turn, audit[e].turn)

\* "Denial of a real write is a duplication bug" (execution.go): each turn in sight that
\* asked for writes has them in the record, all, whatever they were about, unless
\* it does not fit beside those that are in.
Wrote(r, t) == {i \in Visible(r) : audit[i].turn = t /\ audit[i].tool \in Writes}
CostOfTurns(told) == SumFunctionOnSet([e \in told |-> 1 + Cardinality(e.entries)], told)
AllCounts(entries) == SumFunctionOnSet([x \in entries |-> x.count], entries)
WritesAreTold ==
  \A r \in Briefed :
    LET told == Range(op[r].execution) IN
    /\ CostOfTurns(told) <= ExecutionBudget
    /\ \A t \in op[r].window : Wrote(r, t) # {} =>
         IF \E e \in told : e.turn = t
         THEN \A e \in told : e.turn = t => AllCounts(e.entries) = Cardinality(Wrote(r, t))
         ELSE CostOfTurns(told) + 1 + Cardinality({KindOf(i) : i \in Wrote(r, t)}) > ExecutionBudget

\* What earlier turns did and saw, as it is told to the next.
RecordsAreTold == ContextTypeOK /\ EvidenceIsSound /\ NewestUnlessBeside /\ WritesAreTold

\* "That list observed three times; the newest is the true one" (evidence.go, rule 2).
NewestIsTrue == \A r \in Briefed : \A e \in Range(op[r].evidence) : NewerThan(r, e) = {}

\* The inductive strengthening: each turn under way is known by its number, and two of
\* them run side by side; an answer is stored once ...
TurnsFit ==
  /\ \A r \in UnderWay : op[r].turn \in 1..begun
  /\ \A r, s \in UnderWay : r # s => op[r].turn # op[s].turn /\ SideBySide(op[r].turn, op[s].turn)
  /\ \A i \in DOMAIN rows : rows[i].turn \in 1..begun
  /\ \A i, j \in DOMAIN rows :
       rows[i].role = "assistant" /\ rows[j].role = "assistant" /\ rows[i].turn = rows[j].turn => i = j
  /\ \A r \in UnderWay : \A i \in DOMAIN rows :
       rows[i].role = "assistant" /\ rows[i].turn = op[r].turn => At(r, "audit")

\* ... the trail is in the order of what it saw, but for turns side by side ...
InOrder(x, y) == x.seen <= y.seen \/ SideBySide(x.turn, y.turn)
TrailFits ==
  /\ \A i \in DOMAIN audit : audit[i].seen <= clock
  /\ \A i, j \in DOMAIN audit : i < j => InOrder(audit[i], audit[j])
  /\ \A r \in TurnRunners :
       /\ At(r, "idle") => op[r].calls = <<>>
       /\ At(r, "evidence") => /\ op[r].evidence = <<>> /\ op[r].execution = <<>>
                               /\ op[r].window = {} /\ op[r].read = 0 /\ op[r].calls = <<>>
       /\ \A n \in DOMAIN op[r].calls :
            /\ op[r].calls[n].turn = op[r].turn /\ op[r].calls[n].seen <= clock
            /\ \A m \in 1..n : op[r].calls[m].seen <= op[r].calls[n].seen
            /\ \A i \in DOMAIN audit : InOrder(audit[i], op[r].calls[n])
  /\ \A r \in Briefed : op[r].read <= Len(audit)

\* ... and what a turn may use was granted while it ran.
GrantsFit ==
  \A r \in UnderWay :
    /\ ~At(r, "audit") => grants \cup op[r].scope \subseteq op[r].held
    /\ At(r, "hydrate") \/ At(r, "loop") =>
         /\ op[r].tools \subseteq op[r].held
         /\ op[r].scope # {} => op[r].tools = op[r].scope
    /\ At(r, "loop") =>
         /\ \A s \in Subjects : op[r].hydrated[s] \notin {None, "unauthorized"} => Capability \in op[r].tools
         /\ \A i \in DOMAIN op[r].calls :
              op[r].calls[i].status # "not_executed" => op[r].calls[i].tool \in op[r].tools

ContextIInv ==
  /\ ContextTypeOK /\ TurnsFit /\ TrailFits /\ GrantsFit
  /\ EvidenceIsSound /\ WritesAreTold
================================================================================
