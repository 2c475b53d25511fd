------------------------------ MODULE AgentMemory ------------------------------
(***************************************************************************)
(* What an agent keeps between conversations: its memories and sources,    *)
(* and the consolidation that proposes memories from a thread              *)
(* (internal/chat/app memories.go, sources.go, consolidation.go, the       *)
(* selection of context.go, and the stores).                               *)
(*                                                                         *)
(* A consolidation reads a thread, makes one call, marks what the agent    *)
(* already knows and answers; the user keeps some of it, in a later        *)
(* request.  Turns, edits and other consolidations run between its steps.  *)
(* What the call costs is ChatDay's; which agents exist is Agents'.        *)
(***************************************************************************)
EXTENDS Naturals, Sequences, FiniteSets, FiniteSetsExt, Functions, Folds

CONSTANTS
  Owners,         \* agents
  Threads,
  OwnerOf,        \* thread -> its agent
  Facts,          \* memory texts, no two the same once normalized
  Documents,      \* source texts
  Cost,           \* text -> what it adds to the block
  Budget,         \* kind -> what its block may hold beyond the header
  PageLimit,      \* MemoryListLimit, SourceListLimit
  Sizes,          \* what a message with content adds to the prompt
  WindowBudget,   \* ConsolidationInputBudgetChars
  ReadLimit,      \* consolidationMessageLimit
  MaxCandidates,  \* MaxMemoryCandidates
  Answers,        \* what the model answers: Unreadable, or a list of texts
  Requests,        \* requests under way
  MaxItems, MaxMessages, MaxClock  \* bounds: items and messages ever, writes

ItemKinds == {"memory", "source"}
Nothing == "none"
Unreadable == <<"unreadable">>
Unfit == "unfit"  \* a candidate that is empty, or too long to be a memory

ASSUME MemoryAssumption ==
  /\ OwnerOf \in [Threads -> Owners] /\ Nothing \notin Threads
  /\ Cost \in [Facts \cup Documents -> Nat] /\ {Budget, PageLimit} \subseteq [ItemKinds -> Nat]
  /\ Sizes \subseteq Nat \ {0} /\ {WindowBudget, MaxCandidates, MaxItems, MaxMessages} \subseteq Nat
  /\ \A raw \in Answers \ {Unreadable} : raw \in Seq(Facts \cup {Unfit})
  \* A memory is at most half its block (MaxMemoryContent); a source may exceed its own.
  /\ \A f \in Facts : Cost[f] <= Budget["memory"]

VARIABLES
  log,    \* chat.messages by seq: the thread, the size (0: an aborted turn), whether it is still there
  items,  \* memories and sources, by id
  clock,  \* writes so far: what updated_at orders
  requests   \* caller -> the request it makes

memoryVars == <<log, items, clock, requests>>

Ids == 1..MaxItems
Texts(kind) == IF kind = "memory" THEN Facts ELSE Documents
NoItem == [state |-> "unused", kind |-> Nothing, agent |-> Nothing, text |-> Nothing, enabled |-> FALSE,
           pinned |-> FALSE, from |-> Nothing, seq |-> 0, proposed |-> FALSE, updated |-> 0,
           asked |-> FALSE, mixed |-> FALSE]  \* history: what it was last switched to, writes that crossed
NoRequest == [op |-> "idle", thread |-> Nothing, upTo |-> 0, existed |-> {}, window |-> {}, effective |-> 0,
              candidates |-> <<>>, marked |-> {}, at |-> 0, full |-> FALSE,
              id |-> 0, read |-> NoItem, set |-> NoItem]

MemoryInit ==
  /\ log = <<>> /\ items = [i \in Ids |-> NoItem] /\ clock = 0
  /\ requests = [c \in Requests |-> NoRequest]

Kept(i) == items[i].state = "live"
Of(a, kind) == {i \in Ids : Kept(i) /\ items[i].agent = a /\ items[i].kind = kind}
InThread(t) == {s \in DOMAIN log : log[s].there /\ log[s].thread = t}
Doing(c, op) == requests[c].op = op
Ask(c, call) == Doing(c, "idle") /\ requests' = [requests EXCEPT ![c] = call]
Done(c) == requests' = [requests EXCEPT ![c] = NoRequest]

--------------------------------------------------------------------------------
(* Whole items only, in the order given; one that does not fit hides none. *)

StopAtFirst(x, chosen, cost, room) ==                          \* faulty
  IF chosen.full \/ chosen.used + cost > room THEN [chosen EXCEPT !.full = TRUE]
  ELSE [chosen EXCEPT !.used = @ + cost, !.taken = @ \cup {x}]
Take(x, chosen, cost, room) ==
  IF chosen.used + cost > room THEN chosen
  ELSE [chosen EXCEPT !.used = @ + cost, !.taken = @ \cup {x}]
\* `last` says which of some items the order puts last: it is looked at after the others.
NoneTaken == [used |-> 0, taken |-> {}, full |-> FALSE]
SelectWithinBudget(set, last, room, weight) ==
  MapThenFoldSet(LAMBDA x, chosen : Take(x, chosen, weight[x], room), NoneTaken,
                 LAMBDA x : x, LAMBDA some : last[some], set).taken

\* Pinned first, then the latest written, then by id; a source is never pinned.
Before(i, j) ==
  LET x == items[i]  y == items[j]
  IN IF x.pinned # y.pinned THEN x.pinned
     ELSE x.updated > y.updated \/ (x.updated = y.updated /\ i < j)
LastListed == [some \in SUBSET Ids |-> CHOOSE i \in some : \A j \in some \ {i} : Before(j, i)]
CostOf(i) == Cost[items[i].text]
Block(set, kind) == SelectWithinBudget(set, LastListed, Budget[kind], [i \in set |-> CostOf(i)])
Enabled(i) == items[i].enabled

\* What the next turn sends: every enabled item, read with its text.
ListForContext(a, kind) == {i \in Of(a, kind) : Enabled(i)}
InTurn(a, kind) == Block(ListForContext(a, kind), kind)

\* What the management page shows: the first PageLimit items, enabled or not.
Page(a, kind) == LET all == Of(a, kind)
                 IN {i \in all : Cardinality({j \in all : Before(j, i)}) < PageLimit[kind]}
OfThePage(set) == {i \in set : Enabled(i)}
InContext(a, kind) == Block(OfThePage(Page(a, kind)), kind)
Oversized(i) == CostOf(i) > Budget[items[i].kind]

--------------------------------------------------------------------------------
(* The thread, and reading it to propose memories.                         *)

\* seq is a BIGSERIAL: the seq of a truncated message is not used again.
Message ==
  /\ Len(log) < MaxMessages
  /\ \E t \in Threads, size \in Sizes \cup {0} :
       log' = Append(log, [thread |-> t, size |-> size, there |-> TRUE])
  /\ UNCHANGED <<items, clock, requests>>

\* DeleteFromSeq: what an edited or regenerated turn replaces.
Truncate ==
  /\ \E s \in DOMAIN log :
       /\ log[s].there
       /\ log' = [q \in DOMAIN log |->
                    IF q >= s /\ log[q].thread = log[s].thread
                    THEN [log[q] EXCEPT !.there = FALSE] ELSE log[q]]
  /\ UNCHANGED <<items, clock, requests>>

Shown(t) == {s \in DOMAIN log : log[s].thread = t}
\* up_to_seq is the last message the client shows, or 0 when it sent none.
Consolidate(c) ==
  /\ \E t \in Threads : \E upTo \in Shown(t) \cup {0} :
       Ask(c, [NoRequest EXCEPT !.op = "read", !.thread = t, !.upTo = upTo, !.existed = InThread(t)])
  /\ UNCHANGED <<log, items, clock>>

Ceiling(upTo) == IF upTo = 0 THEN MaxMessages ELSE upTo
ListUpToSeq(t, upTo) ==
  LET found == {s \in InThread(t) : s <= Ceiling(upTo)}
  IN {s \in found : Cardinality({q \in found : q > s}) < ReadLimit}
HasContent(s) == log[s].size > 0
Weight == [s \in DOMAIN log |-> log[s].size]
\* Newest first, whatever the order the prompt puts them in.
OldestOf == [some \in SUBSET DOMAIN log |-> Min(some)]
Window(t, upTo) ==
  SelectWithinBudget({s \in ListUpToSeq(t, upTo) : HasContent(s)}, OldestOf, WindowBudget, Weight)

\* Nothing to read: answered without a call.  Otherwise the call goes out.
ReadThread(c) ==
  /\ Doing(c, "read")
  /\ LET window == Window(requests[c].thread, requests[c].upTo)
     IN IF window = {} THEN Done(c)
        ELSE requests' = [requests EXCEPT ![c].op = "answer", ![c].window = window,
                                          ![c].effective = Max(window)]
  /\ UNCHANGED <<log, items, clock>>

\* The first MaxCandidates that are fit to be memories, by their position in the answer.
Parse(raw) ==
  LET fit == {n \in DOMAIN raw : raw[n] # Unfit}
  IN [n \in {m \in fit : Cardinality({k \in fit : k < m}) < MaxCandidates} |-> raw[n]]

Answer(c) ==
  /\ Doing(c, "answer")
  /\ \E raw \in Answers :
       IF raw = Unreadable THEN Done(c)
       ELSE requests' = [requests EXCEPT ![c].op = "mark", ![c].candidates = Parse(raw),
                                          ![c].existed = {}, ![c].window = {}]
  /\ UNCHANGED <<log, items, clock>>

\* Against the first PageLimit memories, those switched off included.
Known(a) == {items[i].text : i \in Page(a, "memory")}
MarkDuplicates(c) ==
  /\ Doing(c, "mark")
  /\ LET a == OwnerOf[requests[c].thread]
     IN requests' = [requests EXCEPT ![c].op = "shown", ![c].at = clock,
                    ![c].marked = {x \in Range(requests[c].candidates) : x \in Known(a)},
                    ![c].full = Cardinality(Of(a, "memory")) > PageLimit["memory"]]
  /\ UNCHANGED <<log, items, clock>>

--------------------------------------------------------------------------------
(* Writing memories and sources.                                           *)

New(kind, a, text, from, seq, proposed) ==
  [state |-> "live", kind |-> kind, agent |-> a, text |-> text, enabled |-> TRUE, pinned |-> FALSE,
   from |-> from, seq |-> seq, proposed |-> proposed, updated |-> clock + 1,
   asked |-> TRUE, mixed |-> FALSE]
Write(new) ==
  /\ clock < MaxClock /\ clock' = clock + 1
  /\ items' = [i \in Ids |-> IF i \in DOMAIN new THEN new[i] ELSE items[i]]
Alone(i, m) == [j \in {i} |-> m]
\* Ids only break ties between rows of one transaction: any order of those is some order of these.
NextId == Cardinality({i \in Ids : items[i].state # "unused"}) + 1

\* The provenance the client echoes is the newest message that was considered.
AsAsked(call) == Ceiling(call.upTo)                            \* faulty
Provenance(call) == call.effective

\* ConfirmCandidates: one transaction, so one time for all of them.  The texts and the
\* provenance come back in the request and are taken as they come; this client sends
\* what it was shown.
Confirm(c) ==
  /\ Doing(c, "shown")
  /\ \E kept \in SUBSET DOMAIN requests[c].candidates \ {{}} :
       LET ids == NextId..(NextId + Cardinality(kept) - 1)
       IN /\ ids \subseteq Ids
          /\ \E place \in [ids -> kept] :
               /\ Range(place) = kept
               /\ Write([i \in ids |->
                    New("memory", OwnerOf[requests[c].thread], requests[c].candidates[place[i]],
                        requests[c].thread, Provenance(requests[c]), TRUE)])
  /\ Done(c)
  /\ UNCHANGED log

\* By hand, from a message of a thread or from none: the thread is looked up and is one
\* of the agent's, the message is the client's word for what it shows.
OwnThreads(a) == {t \in Threads : OwnerOf[t] = a}
CreateMemory ==
  /\ NextId \in Ids
  /\ \E a \in Owners, f \in Facts : \E t \in OwnThreads(a) \cup {Nothing} :
       \E s \in IF t = Nothing THEN {0} ELSE Shown(t) \cup {0} :
         Write(Alone(NextId, New("memory", a, f, t, s, FALSE)))
  /\ UNCHANGED <<log, requests>>

CreateSource ==
  /\ NextId \in Ids
  /\ \E a \in Owners, d \in Documents : Write(Alone(NextId, New("source", a, d, Nothing, 0, FALSE)))
  /\ UNCHANGED <<log, requests>>

\* The row is read, the fields given are changed, and the row is written back whole.
Update(c) ==
  /\ \E i \in Ids :
       /\ Kept(i)
       /\ \E new \in {[items[i] EXCEPT !.enabled = ~@]}
                      \cup {[items[i] EXCEPT !.text = x] : x \in Texts(items[i].kind) \ {items[i].text}}
                      \cup {[items[i] EXCEPT !.pinned = ~@] : k \in {items[i].kind} \cap {"memory"}} :
            Ask(c, [NoRequest EXCEPT !.op = "write", !.id = i, !.read = items[i], !.set = new])
  /\ UNCHANGED <<log, items, clock>>

Columns(row) == [text |-> row.text, enabled |-> row.enabled, pinned |-> row.pinned]
EvenRemoved(i) == items[i].state # "unused"                    \* faulty
Editable(i) == Kept(i)
\* Its origin is not among the columns an update writes.
WriteUpdate(c) ==
  /\ Doing(c, "write")
  /\ LET i == requests[c].id
         read == requests[c].read
         set == requests[c].set
         asked == IF set.enabled = read.enabled THEN items[i].asked ELSE set.enabled
         mixed == items[i].mixed \/ Columns(items[i]) # Columns(read)
     IN IF Editable(i)
        THEN Write(Alone(i, [set EXCEPT !.updated = clock + 1, !.asked = asked, !.mixed = mixed]))
        ELSE UNCHANGED <<items, clock>>
  /\ Done(c)
  /\ UNCHANGED log

Delete ==
  /\ \E i \in Ids : Kept(i) /\ items' = [items EXCEPT ![i].state = "deleted"]
  /\ UNCHANGED <<log, clock, requests>>

\* A statement fails, the user closes the proposals, the process ends.
Abandon(c) ==
  /\ ~Doing(c, "idle") /\ Done(c)
  /\ UNCHANGED <<log, items, clock>>

MemoryNext ==
  \/ Message \/ Truncate \/ CreateMemory \/ CreateSource \/ Delete
  \/ \E c \in Requests :
       \/ Consolidate(c) \/ ReadThread(c) \/ Answer(c) \/ MarkDuplicates(c) \/ Confirm(c)
       \/ Update(c) \/ WriteUpdate(c) \/ Abandon(c)

MemorySpec == MemoryInit /\ [][MemoryNext]_memoryVars

--------------------------------------------------------------------------------

Reading == {c \in Requests : requests[c].window # {}}
Considered(c) == requests[c].window

IsTyped(m, now) ==
  /\ m.kind \in ItemKinds /\ m.agent \in Owners
  /\ m.text \in Texts(m.kind) /\ m.updated \in 1..now
  /\ m.pinned \in BOOLEAN /\ (m.kind = "source" => ~m.pinned /\ ~m.proposed)
MemoryTypeOK ==
  /\ \A i \in Ids : Kept(i) => IsTyped(items[i], clock)
  /\ \A c \in Requests : /\ Considered(c) \subseteq DOMAIN log
                         /\ Cardinality(DOMAIN requests[c].candidates) <= MaxCandidates

\* "A message written after the request must not be able to enter it" (messages.go): with
\* a ceiling, all that is read was in that thread when the user asked.
SnapshotHolds ==
  \A c \in Reading : requests[c].upTo > 0 => Considered(c) \subseteq requests[c].existed

\* A memory says it was proposed only if it was, and names a message its thread had, if
\* the client does: the server asks no more of a seq than to be positive.
FromIsTrue(m) ==
  /\ m.proposed => m.from # Nothing
  /\ m.from # Nothing => /\ m.from \in Threads /\ OwnerOf[m.from] = m.agent
                         /\ m.seq \in Shown(m.from) \/ (m.seq = 0 /\ ~m.proposed)
ProvenanceIsTrue == \A i \in Ids : FromIsTrue(items[i])

Total(set) == SumFunctionOnSet([i \in set |-> CostOf(i)], set)
\* "A skipped item does not block the ones behind it" (context.go): what is left out does
\* not fit beside the items sent that come before it.
NoneIsHidden ==
  \A a \in Owners, k \in ItemKinds :
    LET sent == InTurn(a, k)
    IN \A i \in ListForContext(a, k) \ sent :
         CostOf(i) + Total({j \in sent : Before(j, i)}) > Budget[k]

\* The management page marks as in context exactly those of its items the next turn sends;
\* and an item marked as too large is never sent.
PageTellsTheTurn ==
  \A a \in Owners, k \in ItemKinds :
    /\ InContext(a, k) = InTurn(a, k) \cap Page(a, k)
    /\ \A i \in InTurn(a, k) : ~Oversized(i)

\* A candidate the agent already knows is shown as known: an equal memory that is not
\* marked was written since, or lies past what one page lists.
IsMarked(call) ==
  \A x \in Range(call.candidates) \ call.marked, i \in Of(OwnerOf[call.thread], "memory") :
    items[i].text = x => items[i].updated > call.at \/ call.full
KnownIsMarked == \A c \in Requests : Doing(c, "shown") => IsMarked(requests[c])

\* What was switched off stays off until it is switched on, unless two edits crossed.
SwitchIsKept == \A i \in Ids : Kept(i) /\ ~items[i].mixed => items[i].enabled = items[i].asked

MemoryIsSound ==
  /\ MemoryTypeOK /\ SnapshotHolds /\ ProvenanceIsTrue /\ NoneIsHidden
  /\ PageTellsTheTurn /\ KnownIsMarked /\ SwitchIsKept

\* Whatever edit was under way, where a memory came from never changes, and what was
\* deleted stays deleted and as it was.
Origin(m) == <<m.kind, m.agent, m.from, m.seq, m.proposed>>
OriginIsKept ==
  [][\A i \in Ids :
       /\ items[i].state # "unused" => Origin(items'[i]) = Origin(items[i])
       /\ items[i].state = "deleted" => items'[i] = items[i]]_memoryVars

\* The inductive strengthening: ids are given in order, and an edit under way still has
\* the origin of the row it read, however the row has been edited since.
IsItem(m) ==
  /\ m = [state |-> m.state, kind |-> m.kind, agent |-> m.agent, text |-> m.text, enabled |-> m.enabled,
          pinned |-> m.pinned, from |-> m.from, seq |-> m.seq, proposed |-> m.proposed,
          updated |-> m.updated, asked |-> m.asked, mixed |-> m.mixed]
  /\ m.state \in {"unused", "live", "deleted"} /\ m.mixed \in BOOLEAN

IsRequest(r) == r = [field \in DOMAIN NoRequest |-> r[field]]

UsedInOrder == \E n \in 0..MaxItems : \A i \in Ids : items[i].state # "unused" <=> i <= n

EditKnows(call) ==
  /\ call.id \in Ids /\ items[call.id].state # "unused"
  /\ IsItem(call.set) /\ call.set.state = "live" /\ Origin(call.set) = Origin(items[call.id])
  /\ call.set.text \in Texts(call.set.kind) /\ call.set.pinned \in BOOLEAN
  /\ call.set.kind = "source" => ~call.set.pinned

\* And what a consolidation has been told of its thread is so, at every step of it.
LogRow == [thread : Threads, size : Sizes \cup {0}, there : BOOLEAN]
ItemsAreKnown ==
  ProvenanceIsTrue /\ \A i \in Ids : items[i].state # "unused" => IsTyped(items[i], clock)
ReadKnows(call) ==
  /\ call.thread \in Threads
  /\ call.op = "read" =>
       /\ call.upTo \in Shown(call.thread) \cup {0}
       /\ \A s \in InThread(call.thread) : s <= call.upTo => s \in call.existed
  /\ call.op # "read" => call.effective \in Shown(call.thread)
  /\ call.op \in {"mark", "shown"} =>
       /\ Range(call.candidates) \subseteq Facts
       /\ Cardinality(DOMAIN call.candidates) <= MaxCandidates
  /\ call.op = "shown" => call.at \in 0..clock /\ IsMarked(call)
RequestKnows(call) ==
  /\ call.op \in {"idle", "read", "answer", "mark", "shown", "write"}
  /\ call.op = "write" => EditKnows(call)
  /\ call.op \in {"read", "answer", "mark", "shown"} => ReadKnows(call)
  /\ IF call.op = "answer"
     THEN call.window \subseteq Shown(call.thread) /\ (call.upTo > 0 => call.window \subseteq call.existed)
     ELSE call.window = {}
  /\ call.op \notin {"mark", "shown"} => call.candidates = <<>>

MemoryIInv ==
  /\ log \in Seq(LogRow) /\ clock \in Nat
  /\ items = [i \in Ids |-> items[i]] /\ \A i \in Ids : IsItem(items[i])
  /\ UsedInOrder /\ SwitchIsKept /\ ItemsAreKnown
  /\ requests = [c \in Requests |-> requests[c]]
  /\ \A c \in Requests : IsRequest(requests[c]) /\ RequestKnows(requests[c])

\* With no ceiling "the same guarantee by another route" (consolidation.go).
AsItWasAsked == \A c \in Reading : Considered(c) \subseteq requests[c].existed
================================================================================
