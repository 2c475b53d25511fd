# C.O.R.S.I. in TLA+

C.O.R.S.I. is a personal assistant: agents answer conversations in a web
application and in Telegram, and act through tools on finance, notes, clothes
and connected accounts. The backend is one Go process per role over PostgreSQL
(`src/backend`), the frontend a React application (`src/frontend`).

This directory specifies the parts where order, failure and concurrency decide
whether the program is right: the turn an agent takes, what it is told and what it
spends, the conversation that turns share, agents and what hangs on them; the
delivery of messages from Telegram and the pairing behind it; the months, the ledger
and the statement imports of finance; the palace; the accounts a workspace connects.
Each module is translated from the code it names; `PROJECT.json`
maps every definition to its lines.

Contents: [inventory](#inventory) · [plan](#plan) · [modules](#the-modules-and-the-code) ·
[runs](#runs) · [disagreements](#where-code-and-documentation-disagree) ·
[proofs](#proofs) · [limits](#what-is-not-modelled)

## Inventory

The backend has bounded contexts under `internal/`: modules (`chat`, `finance`,
`palace`, `closet`, `jobradar`, `threads`, `releases`), integrations (`telegram`,
`github`, `metathreads`) and `platform`. Modules and integrations depend on the
platform and never on each other. They meet in three places: the tool registry (the chat turn
calls the other modules' operations as *capabilities*), the chat port the
Telegram integration drives, and the one database.

| Component | State it keeps | Operations | Hard behaviour | What makes it correct |
|---|---|---|---|---|
| **chat turn** (`chat/app/send.go`, `toolexec.go`, `budget.go`) | nothing of its own: a turn is a loop of provider calls and tool executions inside one request; it leaves a question row, an answer row and audit rows | `SendMessage` → `answerTurn` → `runTurn` → `streamOneCall` / `executeToolCall` → `persistAssistant` | a stop or a deadline between any two steps, tools that fail after they acted, stores that fail, a model that never stops asking, death of the process | every requested call is decided once and recorded; a receipt claims only what happened; the ceiling and the budget hold; it ends |
| **conversation, safe resume** (`chat/app/resume.go`, `conversations.go`, `execution.go`) | `chat.messages` with `seq`, `kind`, finish reason; `chat.tool_calls` | `SendMessage`, `ResumeTurn`, `TruncateFrom`; reads of receipts and execution records | several requests on one transcript with no lock; each operation reads it in steps | a resume never repeats a write its target's receipt lists, nor any turn a write it was shown on record; a turn is continued once; no answer without its question |
| **budget and accounting** (`chat/app/budget.go`, `accounting.go`, `usage.go`) | tokens and cost on answer rows, summed per agent and UTC day | preflight, per-call gate, recording | one read per turn while other turns spend, over midnight and under edits of the limit; truncation deletes rows the sum is made of; receipts not stored | every unit accounted for; overshoot bounded by a call for each operation |
| **memories, sources, consolidation** (`chat/app/consolidation.go`, `memories.go`, `sources.go`) | `chat.agent_memories`, `chat.agent_sources`; receipts as auxiliary messages | propose, confirm, create, edit, delete, list; select for a turn | a paid call whose receipt is lost; a thread and a shelf that change between reading, marking and confirming; blocks and pages with limits | every opened call counted; a proposal read what existed, names where it came from, and says what is known already; page and turn agree on what is sent |
| **agents, providers, grants, sources** (`agents.go`, `providers.go`, `tools.go`) | configuration rows | create, edit, grant, delete | dependents are counted table by table before a deletion no foreign key sees; edits write whole rows back | what is left behind was written in that window; a refused deletion takes nothing; edits that do not overlap are all kept |
| **context and references** (`context.go`, `evidence.go`, `execution.go`, `hydration.go`, `references.go`, `context_references.go`) | none: rebuilt for each turn from messages, audit rows, grants and references | scope the tools, select evidence and execution records within a budget, hydrate what the turn is about | reads one after the other while turns, edits and grants go on; records ordered by when they were stored | the newest record of each call, every write in sight, one answer per subject, nothing read that was not granted |
| **LLM adapter, HTTP surface** | a stream | open, receive, close; SSE | broken transports, a reader that leaves | the terminal event is sent once |
| **telegram delivery** (`telegram/adapters/poller`, `app/inflight.go`, `app/turn.go`) | `telegram.update_cursor`, an in-memory slot per chat | poll, save, dispatch, handle | death between any two steps; lost answers; saves that were made and reported as failed | an update begins at most one turn; none is skipped; order kept; all settle |
| **telegram pairing, agents** (`pairing.go`, `callback.go`, `app.go`) | `bindings`, `pairing_codes`, `chat_agents` | `/start`, confirm, revoke, choose an agent | code spent and binding not created; binding revoked under a turn | one live binding per chat; a code is used once |
| **finance imports** (`finance/app/import.go`) | `import_batches`, `import_rows`, imported `transactions` | `PrepareImport`, `ResolveImportGroup`, `CommitImport` | calls from two conversations at once, overlapping exports, failure half way | no movement twice, none lost in silence, commits whole and once |
| **finance recurring months** (`recurringentries.go`, `recurringoccurrences.go`) | `recurring_entries`, `recurring_occurrences` | create, edit, mark paid, unmark, set amount, generate on read | read, change, write back whole; generation during a read; the month turning | reading or editing an entry leaves what was settled as it was; a month has one obligation per entry |
| **finance ledger** (cards, categories, purchases, transfers, persons) | one table each | CRUD, purchase plans with instalments, transfer pairs | pairs and plans are several rows | both legs or none; instalments whole and exact; deleted rows final; totals agree |
| **palace** | rooms, artifacts, items, memories, relations, sessions, sources | CRUD, focus, archive | rules asked before the write and held by nothing; one open session per workspace; focus racing close | a memory is as withheld as its evidence, decisions govern, one open session, closed stays closed – unless a call is overtaken on that row |
| **closet, jobradar, threads, releases** | one table each | CRUD, job import, publish | little | – |
| **github, metathreads** | one connection per workspace with a sealed token, authorised repositories | connect, refresh, disconnect, platform callbacks, reads | a refresh or a listing under way while the account is disconnected | nothing of a disconnected account is stored |
| **identity** | sessions, login attempts | login, logout, middleware | expiry, a full table | – |
| **platform** | – | request deadline, its removal for streams, transactions, health | which context carries which deadline | – |
| **frontend**, **commands** | – | – | – | – |

`PROJECT.json` has this list with each part's status, and under `hazards` the
lines where the hard behaviours bite, with the properties that watch them.

## Plan

Modules, most important behaviour first. Done:

1. `WriteLedger` (abstract: what a turn promises about its writes), `ChatTurn`
   (detailed, implements it), `ChatProofs`.
2. `Conversation`: the transcript between turns; the turn collapsed to the writes
   it executed and the answer it stored; `TurnContext`: what a turn is told;
   `ConversationProofs`, about both.
3. `TelegramGateway`: how messages reach a turn; `TelegramPairing`: who may send them,
   and to whom; `TelegramProofs`.
4. `StatementImport`: the largest write a tool makes, and the one two conversations
   can make at once; `FinanceMonths` and `FinanceLedger`: the other writes of finance;
   `FinanceProofs`, about all three.
5. `ChatDay`: one agent's day, shared by turns and consolidations side by side, proved
   about in `ChatProofs`; `FiniteLemmas`: the sums, bounds and folds the proofs need.
6. `Palace`, `Connections`, `Agents`: edits that read, ask and write whole rows back;
   `PalaceProofs`, `ConnectionsProofs`, `AgentsProofs`.
7. `AgentMemory`: what an agent keeps, how it is proposed, and what of it is sent.

Left, in this order:

8. Identity (sessions, login attempts, a full table); the job import of `jobradar`.
9. The money parser as a pure function checked against a reference; releases,
   closet and threads, which are one table each.

## The modules and the code

### `WriteLedger`, `ChatTurn`

`ChatTurn` is one call of `SendMessage`. `phase` is where the goroutine is; every
value of it is a point between two calls the code makes.

| Action | Code |
|---|---|
| `Admit`, `Refuse`, `StoreQuestion` | `SendMessage`: lookups, budget preflight, the user row |
| `BuildContext` | `answerTurn`: history, grants |
| `Gate`, `OpenFails`, `OpenStream` | the head of `runTurn`'s loop and `llm.Stream` |
| `DeliverCalls`, `StreamBreaks`, `SinkFails`, `StreamDrains` | `streamOneCall` |
| `Answered`, `StopAtCeiling`, `StopWithCallsPending`, `BeginTools` | what `runTurn` does with a drained answer, `refuseRequestedCalls` |
| `ExecuteCall` | `executeToolCall`, one call at a time: refused, succeeded, failed |
| `StoreAnswer`, `AnswerNotStored`, `StoreAudit`, `AuditNotStored` | `persistAssistant` |
| `Cancel`, `DeadlinePasses`, `InheritedDeadlineFires`, `Crash` | the environment |

`asked` and `applied` are history: what the provider really delivered and what
the tools really changed. The code never sees `applied`; that is why a receipt
can be dishonest and why `ReceiptIsHonest` says something. `ctx` and `inherited`
model the two contexts a web turn has: its own and the generic 30-second one
`undeadlined` hides but still asks for values, so that `context.Cause` may answer for the
wrong one. The text of answers, prices and the prompt are left out; a tool is a
name with two facts about it, known and granted, and a third, that it writes.

`WriteLedger` is the abstract machine: effects happen while a turn is open, and
the claims published when it closes are among them. `Ledger` in `ChatTurn` is the
refinement mapping (`open` is "not ended", `effects` is `applied`, `claimed` the
EXECUTED lines of the stored rows).

### `Conversation`

Runners are requests: HTTP or the bot's. `Send` and `ResumeTurn` begin one,
`ReadReceipts` and `BuildContext` are the two reads that tell the provider what
was executed, `ExecuteWrite`, `WriteFails`, `PersistAssistant` and `TurnLost` are what is
left of `ChatTurn` here. The provider is obedient: it does the work the question asks
for and nothing it was told is done, so a repeated write is the fault of the
records, never of the model.

What it is told is not the same for both reads. The receipt of the turn it continues is
read in full or the request fails. The records of the other turns in the window are best
effort: the read of them may fail and the turn goes on without (`RecordsUnread`: "a
failed read costs continuity, not the turn"), and those that do not fit in
`ExecutionBudgetChars` are passed over, newest first (`Shown`; a record is charged a line
for the turn and one for each write, with `RecordBudget` the lines there is room for).
`missed` is history: the turns whose records a request was not shown. A write may also be
refused or fail after its module applied it (`WriteFails`); its receipt says FAILED, a
resume lists it as "Not done", and a provider may then do it again. The properties therefore
speak of writes that were reported executed (`reported`).

So what is promised has three parts, together `WritesAreNotRepeated`. One request after the
other and with every record stored, a write is not repeated by a turn that was shown its
record (`NeverRepeatedInTurn`). Side by side and with records lost, the same holds of a
record still in the window (`RecordedNeverRepeated`). And always, a resume does not
repeat what the receipt of its target lists (`ReceiptNeverRepeated`). That no turn repeats
an executed write, shown its record or not, is what the sources say and the code does
not do: see [disagreements](#where-code-and-documentation-disagree).

`messages` carries two history fields (which turn wrote a row, which question it
answered) the code does not store, and `executed` and `resumes` are history as well. So
are `overlapped` and `lost`: the code promises different things to one person with one
client, to requests side by side and after a record was lost, and the properties say which.
`ResumedOnce`, `ResumeKeepsQuestion` and `NoOrphanAnswer` promise nothing once requests
overlapped. That a resume reads the window twice, with other requests between, is in the
model, but a record pushed out in between needs four turns, one more than the run has: the
theorem covers it (see Proofs).

### `TurnContext`

The head of the same turn, which `Conversation` leaves out: `BeginTurn` admits the
selection of tools and the attached references, `EvidenceForTurn` reads the window,
its audit rows and the grants, and selects, `HydrateSubjects` asks for the present
state of what the turn is about, `ExecuteCall` is gate and effect of a call,
`StoreAnswer` and `PersistToolCalls` leave the rows the next turn reads. Evidence
is kept as positions in the audit trail, and both selections are folds that take the
oldest position last.
`Change` and `EditGrants` are everybody else. A reading is the time it was made at,
so that a stale one is told from a fresh one; texts are their length. `held` (what
was granted at some moment since the turn began) and `beside` (turns that ran side
by side) are history. Grants are read with the records: the two reads are of tables
no other step writes together. `MCConversation` runs it with `Conversation`.

### `TelegramGateway`

`pc` is where `Poller.Run` is. `updates` is Telegram's side, an append-only log,
and `confirmed` what `getUpdates` has acknowledged; `cursor` is the stored row and
`offset` the process's copy. `Poll` delivers any non-empty prefix of what waits;
`PollFails` confirms and delivers nothing; `SaveFails` may have saved. `Handle` is
`dispatch` with `HandleUpdate`; a turn begins (`AskForTurn`) and ends (`EndTurn`),
and a command or a refusal does neither. `Crash` drops everything not stored.

### `StatementImport`

`batches` is the two import tables together, `ledger` the transactions imports created,
`deleted` those soft-deleted since. A runner is a tool call. Outside a transaction
every SQL statement is a step; inside `CommitImport`'s transaction, under READ
COMMITTED, every statement is one too: `Reconcile`, `MaterialiseReady`,
`FinishCommit`. What a transaction has inserted and not committed is `Pending`:
another's INSERT of the same identity waits, as PostgreSQL's does on a unique index.
`MayLink` is the row constraint and the count check that make the transaction fail;
`Fail` is every failure, timeout and death. A statement is a list of lines, a line a
kind (institution's id, heuristic, unreadable), what identifies it, and a group;
hashing and text normalisation are abstracted to equality of these.

### `FinanceMonths`, `FinanceLedger`

`FinanceMonths` has the recurring entries and the rows they leave in a month, which
are recorded when a screen first reads it: `BeginRead` computes what is missing,
`ReadMonth` inserts it and answers. `BeginPay`/`Pay`, `BeginUnpay`/`Unpay` and
`BeginSetAmount`/`SetAmount` read a row and write it back whole; an edit
(`BeginEdit` … `ApplyDefinition`) may also apply to one month, in a transaction that
holds its entry. The calendar is real in kind: months of different lengths, due days
that a short month does not have, entries monthly and annual, beginning and ending.

`FinanceLedger` has transactions, transfers (two rows made and deleted together) and
purchases in instalments, whose amounts are what `CreatePurchasePlan` computes, cents
of the division included. A row changed by an open transaction makes another
writer wait. The totals over them are operators checked in every state.

`MCFinance` runs both: they share no table, and each behaviour moves one.

### `ChatDay`

`Preflight` reads the day's usage once and admits a turn or a consolidation; each
`ProviderCall` is a gate and a provider call; `Store` writes the row, `EndUnrecorded` is a
store that failed. `TruncateFrom`, `DeleteConversation`, `UpdateBudget` and
`Midnight` go on beside them. `burnt`, `lost` and `top` are what really happened, in
no variable of the program: the books are checked against them.

### `TelegramPairing`

`codes`, `bindings` and `threadOf` are the three tables, in order of insertion, so
that an index is an id. The bot handles one update at a time (`bot`); operators run
the command line beside it (`Redeem`, `CheckUnbound`, `CreateBinding`, `Revoke`) and
the web client deletes agents and conversations. Every statement is a step and a
process may end between two. `RequireBinding` to `BeginTurn` is a message or a button
on its way to the turn of `ChatTurn`.

### `Palace`

An edit of a room, artifact or memory reads its row (`BeginUpdate`), asks what the
rules need (`CheckFloor`: a memory is at least as sensitive as its evidence;
`CheckGoverns`: what governs is a decision), and writes the row whole (`Update`);
linking evidence, drawing a relation and opening, focusing and closing the session
are made the same way. The database holds one of the rules, the one open session.
`late` marks a call whose row another changed since it was read; the properties say
that only such a call breaks a rule, on that row.

### `Connections`

GitHub and Meta Threads share a life cycle, and `platform` says which one a behaviour
is about: GitHub deletes a row and its repositories and reconnects with another,
Meta Threads wipes the token, marks the row and reconnects over it while it lives. A call
talks to the platform between what it reads and what it writes, and meanwhile the
account may be disconnected, replaced, or erased by Meta's callback. `Resolve` and
`FindByFullName` are a tool's two reads before it fetches from a repository.
`slipped` and `mixed` are history: rows written by a call that was overtaken, and
choices written at the same time.

### `Agents`

Deleting sets `deleted_at`, so nothing cascades: `CountDependents` reads one table
after the other, `RevokeAll` takes the grants, `SoftDeleteAgent` ends it, and rows and
grants are written meanwhile. An edit reads, `FindProvider` looks up, `WriteAgent`
writes whole. `late` is history: rows written while their owner was being deleted.

### `AgentMemory`

`items` is the two tables of memories and sources, `log` the messages of the threads
by `seq`. A consolidation is `Consolidate` (the request), `ReadThread` (the snapshot and
the window cut from it), `Answer` (the call, which `ChatDay` charges, and the parser),
`MarkDuplicates` and, in the user's next request, `Confirm`; an edit is `Update` and
`WriteUpdate`. `SelectWithinBudget` is the one rule behind the two blocks and the
window; `InTurn` is what a turn would be sent in this state and `InContext` what the
page marks as sent, computed from different reads. Texts are compared and weighed,
nothing more. `existed`, `at` and `full` record what was true at a call's earlier
steps, `asked` and `mixed` what an item was last switched to and whether edits crossed.
`MCAgents` runs it with `Agents`, each behaviour moving one: `Agents` decides which
agents there are, here they stay.

## Runs

| Run | Question | Bounds, and why they are enough |
|---|---|---|
| `chat_turn_web` | the safety of one web turn | two provider calls, up to two calls each, ids that collide or not, a tool that is not granted, a budget that two calls exhaust: every exit of the loop, and the ceiling with and without calls pending |
| `chat_turn_telegram` | names of stops, termination, and `WriteLedger` implemented | three rounds, so that there is a middle one; the deadline is Telegram's |
| `chat_turn_reader_stop` | a statement of the sources the code breaks | the smallest instance that shows it |
| `conversation` | safe resume alone, side by side, with edits and failed stores; and what a turn is told | transcript: two requests, three turns (one to interrupt, two to race or to follow), four rows under a window of three, two writes asked for, one that fails; turns that end for good or on a deadline; room for the record of one write, not of two. Context: three turns, so that one can see two that ran side by side; two calls on record, of three kinds; budgets that hold two short records or a long one, not both, and one turn's writes, not two's |
| `telegram_delivery` | delivery under two deaths, failing polls and saves, with liveness | three updates in two chats: a batch with a first, a middle and a last |
| `telegram_pairing` | codes, bindings, agents and threads with everything interleaved | one chat, two workspaces with two agents and one, two operators, two codes, two bindings: the second is the stranger, the successor or the duplicate of the first |
| `statement_import` | imports at once | two overlapping files, one with an identity twice, once set aside; two runners; two batches, so the second meets the first at every step |
| `finance` | the months of an entry; the ledger | two months, of two days and one, so that a due day falls outside; monthly, annual, ending and incomplete entries; a purchase whose total does not divide; two calls |
| `chat_day` | what an agent spends over midnight | two operations, limits of tokens and of money, calls of up to two units: a call can pass a limit by one, and two together by more |
| `palace` | rules asked before a write | one memory, one artifact, evidence at two levels, two sessions, two calls |
| `connections` | an account connected, replaced, refreshed and erased by calls under way together | two workspaces, two accounts that see different repositories, three rows, two calls |
| `agents` | creating, editing and deleting agents; what is kept for them | two providers, one agent, one row of any kind at a time, two calls. Memories: two agents and a thread of one, two items, so that one is past the page or does not fit the block; two messages, one of which never fits the window, and candidates of which one is unfit. Items are edited where there is no thread and only created and deleted where there is |

Two calls under way are enough for these properties to be broken: each is about what one step
finds changed since another, and a third call changes nothing the second could
not. Where a run states few properties, each is a conjunction of named parts
(`CatalogueIsSound` is its module's type invariant, `OnlyRacesOrphan` and `EditsAreKept`),
and the parts are stated and commented one by one in the module.

`CHECK_DEADLOCK FALSE` is given everywhere because all of these systems do stop:
a turn ends, a conversation reaches the bound on its messages, Telegram falls
silent, every line is imported. Symmetry is used only where nothing but safety is
checked.

The bounds in the guards (`MaxCalls`, `MaxSeq`, `MaxTurns`, `MaxUpdates`,
`MaxCrashes`, `MaxBatches`, `MaxUsed`, `MaxCallTokens`, `MaxRows`, `MaxBurnt`, `LastDay`,
`MaxFailures`, `LastMonth`, `MaxPlans`, `MaxCodes`, `MaxBindings`, `MaxThreads`, `MaxSessions`,
`MaxErasures`, `MaxClock`, `MaxEdits`, `MaxItems`, `MaxMessages`) are named CONSTANTS. `MaxToolRounds`,
`HistoryLimit`, `Limit`, `MaxCall`, `TopLevel`, `EvidenceBudget`, `EvidenceMaxResult`,
`ExecutionBudget`, `RecordBudget`, `Budget`, `PageLimit`, `WindowBudget`, `ReadLimit` and `MaxCandidates`
are the program's own, smaller.

**Fairness.** `ChatTurn`: `WF(Turn)`, since the goroutine runs while the process
lives and each call it waits on has a timeout of its own or a stream that
closes; the provider owes no call (`DeliverCalls` is not in it), and the reader
and the clock owe nothing. `TelegramGateway`: `WF(Handle)` because a turn is
bounded by `turnTTL`; `WF(Start)` because the deployment restarts the bot;
`SF(Poll)` and `SF(SaveCursor)` because the loop retries both, with a backoff and
no limit, and neither Telegram nor the database is assumed to fail every time.
No other module claims liveness: elsewhere nothing has to happen until a request asks.

**Mutants.** Each property has one or more: a definition ending in `\* faulty` next to
the one it replaces, a plausible slip in that code (a dropped guard, an off-by-one, a
read from memory instead of the stored value), under which the property fails.

## Where code and documentation disagree

`chat_turn_reader_stop` is run with the others and shows a stop filed under another
name. The other configurations of this table are kept beside the runs: each checks the
property named, which states what the sources say, and ends in a counterexample. Three of
them check two properties: `tlc -continue` goes on past the first, and of
`ConversationResumeTwice.cfg` the second is seen soonest with the first `INVARIANT` taken out.

| Configuration | Property | The sources say | The code does |
|---|---|---|---|
| `ChatTurnWebStop.cfg` (run `chat_turn_reader_stop`) | `ReaderStopIsAborted` | "aborted" is somebody stopping the turn, "deadline" a clock (`types.go`) | a reader who stops a web turn older than 30 s is filed as a deadline |
| `ChatTurnStops.cfg` | `RequestedToolsAreRecorded` | "NO REQUESTED TOOL DISAPPEARS SILENTLY" (`send.go`) | a stream that breaks after it delivered its calls ends the turn with those calls neither run nor recorded |
| `ChatTurnStops.cfg` | `KilledTurnIsResumable` | a turn killed by its deadline is persisted and the operator offered [Continuar] (`telegram/app/app.go`) | a deadline that passes while a provider call is being opened ends as `error`, which is not resumable |
| `ConversationResumeTwice.cfg` | `NeverRepeated` | "NEVER REPEAT AN EXECUTED WRITE" (`resume.go`) | two resumes of one turn under way at once both pass the check and repeat the work; the bot handles one press at a time, but the service holds nothing that would stop a second client |
| `ConversationResumeTwice.cfg` | `NeverRepeatedOneByOne` | "NEVER REPEAT AN EXECUTED WRITE" (`resume.go`) | one request at a time, with every record stored: a first attempt writes, a second writes nothing, and a third is given the second's empty receipt and no record of the first, because the read of it failed (`evidence.go`, `evidenceForTurn`) or it did not fit the budget (`execution.go`, `SelectExecutionEvidence`); it writes again |
| `TurnContextOverlap.cfg` | `NewestIsTrue` | "the newest is the true one" (`evidence.go`, rule 2) | records are ordered by when they were stored, so of two turns side by side the one that ended last wins, though it may have read first |
| `TelegramBusy.cfg` | `SecondMessageRefused` | a second message during a turn "is REFUSED with a sentence, not queued" (`inflight.go`) | the loop is sequential, so it waits in the queue and then runs |
| `TelegramPairingSelected.cfg` | `SelectedHasThread` | "selected" and "has somewhere to talk" are the same event (`telegram/app/app.go`, `selectAgent`) | the agent is stored first, and a failure before the thread leaves it selected with none until the next message |
| `StatementImportRepeatedId.cfg` | `RowsBecomeTransactions` | `transaction_id` is "the proof that a row did or did not enter the ledger" (migration 0013) | two lines with one institution id become one transaction, both rows point at it, and two are reported created |
| `FinanceMonthsRestamp.cfg` | `PaidDateStays` | marking an already paid month is "refused rather than silently re-stamped" (`domain/recurringoccurrence.go`) | two calls that both read it pending both write a date |
| `FinanceLedgerUneven.cfg` | `PairIsEven` | a transfer is "always exactly two rows" of equal amount (`domain/transfer.go`) | a leg is a transaction, and editing it alone changes one amount |
| `ChatDaySideBySide.cfg` | `OvershootIsOneTurn` | the overshoot is "bounded by one turn's ceiling" (`domain/budget.go`) | each operation under way may pass the limit by its own call |
| `PalaceWithheld.cfg` | `NothingToWithhold` | a reader need not be told of withheld sources: a memory is at least as withheld as they are (`provenance.go`) | a source linked while the memory is relabelled leaves it below |
| `ConnectionsChoice.cfg` | `ExactlyTheChoice` | the authorised set becomes "exactly" the one given (`github/adapters/repo/repo.go`) | two choices written at once leave their union |
| `ConnectionsMeta.cfg` | `ErasedIsGone` | once Meta's callback is answered the credential "has been destroyed and the link removed" (`metathreads/adapters/httpapi/handler.go`) | a connection that was being stored when the callback ran stays, with a token its owner withdrew |
| `ConnectionsMeta.cfg` | `ReconnectTakesOver` | reconnecting "takes over the existing row, whichever state it was in" (`metathreads/adapters/repo/repo.go`) | over a disconnected row it makes another |
| `AgentsOrphans.cfg` | `NoOrphans` | a deletion is refused rather than leave threads no interface can reach (`agents.go`) | a thread, memory or grant written between the count and the deletion is left behind |
| `AgentMemoryAsked.cfg` | `AsItWasAsked` | without a ceiling a consolidation has "the same guarantee by another route", that it only considers what existed when it was asked for (`consolidation.go`) | what is written between the request and its read of the thread is considered |

## Proofs

TLAPS checks eight modules: seven for the components they prove about (`ChatProofs`,
`ConversationProofs`, `TelegramProofs`, `FinanceProofs`, `PalaceProofs`,
`ConnectionsProofs`, `AgentsProofs`) and `FiniteLemmas`, which they share, for every
value of the constants under the named assumptions of the component's module, and
no others: sizes are naturals, granted and writing tools are tools
(`ToolAssumption`, `BoundAssumption`, `GatewayAssumption`), limits are naturals or not
set, a call consumes something and finitely many operations run at once
(`DayAssumption`), a statement is a finite list
of lines (`ImportAssumption`), recurring entries and categories are finitely many, months have
days, amounts are positive and a purchase has 2 to 360 instalments (`MonthsAssumption`,
`LedgerAssumption`), an agent is one workspace's (`PairingAssumption`),
entities, evidence and relations have the types, levels and kinds the code knows
(`PalaceAssumption`), an account sees some of the repositories and finitely many calls
are under way (`ConnectionAssumption`), registered tools are tools
(`AgentAssumption`), a thread is one agent's, sizes, costs, budgets and limits are naturals, an
answer that can be read is a list of texts, and a memory fits an empty block
(`MemoryAssumption`; `MaxMemoryContent` is half the block), a window has room for a row
(`ConversationAssumption`), and subjects, tools and selections are of their kinds, sizes and
budgets naturals (`ContextAssumption`). Each
`IInv` and each invariant named `...Invariant` was checked by TLC on the instance of its component's run before it was proved.

*A turn.* What the loop has decided so far is not an invariant of any one
variable: it depends on the phase. `Account` says it phase by phase (between
rounds every call asked for is decided; inside a round, all of the earlier ones and
those before `pos`), and `Numbered` that the calls of a round are 1..n, so that
`pos` reaches each. `Effects` ties what changed to what was recorded while it is
still in memory, and `Stored` says that stored rows are those records or none.
`Budget` holds the gate's answer between the check and the next call. With
the four properties and the types they form `IInv`; `Inductive` proves it, with one lemma
per conjunct and one case per action. From it follow `TypeCorrect`,
`EveryCallDecided`, `CeilingHolds`, `ReceiptHolds`, `OvershootBounded` and
`TurnImplementsLedger`, the refinement of `WriteLedger`.

*A turn's stop.* `StopHasCause` relates how a stopped turn is filed to what ended its
context, and is inductive by itself. `StopFollowsCause` is that; the name is the cause's
unless a web request's own deadline fired first (`StopNamedUnlessInherited`), so on
Telegram every stop is named for what stopped it (`StopNamed`, what the run checks).

*A day.* Operations side by side read the day's usage before the others have stored what
they spend, so the bound on a day cannot follow from any one gate. `RoomIsLeft` gives the
reason it holds: count for each operation under way the room it was let in with
(`Allowed`: one limit and one call, less the usage it read). The day's tokens and all that
room never pass one limit and one call for each operation – who begins is given exactly what the
day has left, who stores spends its own room, a raised limit widens every room alike.
`OperationKnows` says that an operation has spent at most a call past what its limit
left, `AloneKnows` that nothing was counted beside one that runs by itself, `RowsOfTheDay`
that the next day has no rows yet. From `DayInductive` follow `DayIsAccounted` and
`OvershootHolds`. The sums are the community modules' folds. `FiniteLemmas` proves what is
needed of them from their definition: that the recursion has one solution, then sums
of unions, of parts, of one change, and their bounds. An induction over finite sets is
stated there for a set of sets, not for an operator, so that it can be applied.

*Delivery.* At-most-once rests on the order cursor–work and on ids being an interval.
`Offsets` orders the four positions (`confirmed <= offset <= cursor <= next id`),
`Interval` says a batch is an interval starting where the poller asked and, once
saved, below the offset, and `Begun` that turns began only for ids below
everything in hand. `IInv` is these with `Slot` and the properties; one lemma per
action, `HandledStep` shared by the three ways of finishing an update. From
`Inductive` follow `TypeCorrect`, `BeginsAtMostOnce`, `SkipsNothing`,
`SlotAlwaysFree` and the action property `BeginsInOrder`.

*Imports.* What can go wrong lies between the statements of a call, so the invariant
has to say what each call under way knows: `Knows` says that identities it read
belong to older transactions, that what it counted is still ready unless a resolution
raced it (`late`), and that a counted row its INSERT skipped was another batch's
already. `Apart` says that what two open transactions inserted is disjoint, and
disjoint from the ledger: with it `OneLiveTransaction` survives `FinishCommit`, and
without it neither could be proved. `Counted` ties the stored counts to the rows.
`CallStep` serves every step that changes only its call; the four that write have a
lemma each. From `Inductive` follow `TypeCorrect`, `ImportedOnce`, `CommitIsAtomic`,
`SetAsideStaysOut`, `EveryRowAccounted`, `CountsStayTrue` and the action property
`CommittedForGood`; `CommitHolds` and `RowsHold` put them together as the runs state
them, as `DeliversOnce` does for delivery.

*Months.* A row is written back from a copy, and the copy may be old by then; what makes
that safe is that every copy is a valid row and that whoever writes names it by entry and month.
`KnowsMonth` says so of each call under way, and that what a read projected is of one month that
has begun, one row for each entry, so that inserting what is missing cannot owe a month twice.
`MonthsHold` follows from `MonthsInductive`; `MonthsKept` needs in addition that the
amounts by status sum to the month's total, which is `SumOfPart`.

*Ledger.* Cardinalities do not survive a step by themselves. `RowsFollow` says where the rows
are instead: the legs of a transfer one behind the other and of one fate, the instalments of
a purchase in a row and numbered from 1. `HeldApart` and `KnowsRows` say what an open
cancellation holds: rows of its purchase, still scheduled and nobody else's; with them an
update or a second cancellation cannot revive or take a row it deletes. From `LedgerInductive`
follows `LedgerHolds`: `LegsTogether` and `PlanIsWhole` by counting those runs, and
`TotalsAgree` because sums over the rows of each status, or category, sum to
the sum over all (`SumOfFibres` in `FiniteLemmas`). `HistoryHolds` adds what single steps do; that
a purchase adds up is the arithmetic of `Split`, (n - 1) equal parts and one with what the
division leaves.

*Agents.* A deletion counts one kind of row after the other and holds no lock.
`Looked` says what it may still rely on: what it has passed is empty, or somebody wrote
there since and is noted in `late`. `IInv` is this with the types and
`CatalogueIsSound`; an orphan then has a race to blame when the deletion writes. From
`Inductive` follow `CatalogueHolds` and the action property `DeletionIsFinal`
(`DeletionHolds`).

*Memory.* `AgentsProofs` also proves about `AgentMemory`. An edit
writes back the whole row it read a moment before; what it must not undo is where a
memory came from and whether its owner had switched it on. `UsedInOrder` says that ids are
handed out in order and none twice, `EditKnows` that the origin an edit holds is its row's, so
that an id freed by a deletion never returns as another memory. `ReadKnows` says what a
consolidation has been told at each of its steps: what its thread had up to the message the
client shows, that the newest message it read is that thread's, that its candidates are texts
and few enough, and that an equal memory it did not mark is newer than its look or past the
page. Each is kept because the log only grows and shrinks in place (`LogKeeps`) and an item
that changes is newer than any look (`Rewritten`). The selection is proved about for any
order: `Selected` says that an item is taken exactly if it fits beside those taken before it,
`SelectionIsUnique` that this determines what is taken, and `FirstOnesTaken` that selecting from a
first part of the items is selecting from all and looking at that part. The last is why the
management page, which lists fewer items than a turn reads, still marks the ones the turn sends
(`PageTells`); it needs that a page is a first part (`PageIsFirst`). From `MemoryInductive`
follow `MemoryIsSound` (`MemoryHolds`) and `OriginIsKept` (`OriginHolds`). Proving that a
switch stays showed that it had held
by the shape of the model: the edit used to write back the owner's choice together with
the switch, so that the two could not differ. The choice is now kept by the row, and the
overwritten switch the code allows is excused by `mixed` alone.

*Connections.* A call writes after it has talked to a platform. `CallKnows` says what
it still knows of the row it read: that the token is the row's account's and valid unless
it is `late`, that the names it fetched are within what the account sees, that an
authorisation has seen what the row holds. `RowIsSound` says the same of the rows, with
the two slips (`slipped`, `mixed`) a reader has to allow. `ConnectionsHold` and
`EndingHolds` (`EndedForGood`) follow.

*Pairing.* `CodesAreSpent` says that a code in an operator's hands is consumed, bound
nothing yet and is nobody else's, without which a code could bind twice;
`UpdateKnows` that the agent of an update is of its binding's workspace and that a
thread it opened serves nothing else. `PairingHolds` is the safety; `ThreadsAreKept`,
`RevokedRefused` and `RevokedFinal` together are `PairingLasts` (`PairingEndures`).

*Palace.* Rules are asked in one statement and relied on in another. `CallKnows` keeps
the answer of each question a call has asked until another call writes about the same
entity. The floor under an artifact is the highest level of its evidence, which
exists because levels are bounded (`HighestExists` in `FiniteLemmas`).
`PalaceHolds` is the safety, `RulesEndure` the action property `RulesAreKept`.

*Conversation.* There are two layers. Whatever runs side by side, `RowsFit`,
`RunsFit`, `ExecutionsFit` and `Told` hold: the receipt of its target was told to a
resume, and a record among the last `HistoryLimit` to any turn that began after it and did
not miss it. While operations follow one another, `OneByOne` holds: the one under way is
about the last question and was told every answer to it that it did not miss. What was shown
is some of the records, whatever the selection (`ShownAreRecords`), and a record is told or
missed (`ToldOrMissed`); two lemmas about the window say which records there are: a row
newer than one in it is in it, and a row at most `HistoryLimit` behind the next seq is. From
`Inductive` follow `WritesAreNotRepeated` (`NothingIsRepeated`), `ResumeIsSound` and
`TranscriptIsSound`. The proof corrected the model: `RecordedNeverRepeated` used to
speak of every record, and its step for `BuildContext` had no proof, because a resume reads
the window twice (`resume.go:147` and `send.go:347`). Rows that other requests store in
between can push the record out of the second, and its write is then repeated. TLC finds that
with a window of three rows and four turns, one more than the run has. The property
now says what holds, of records still among the last `HistoryLimit`.

*Context.* What a selection returns is proved first. A fold takes a set's elements one by
one, and `FoldExists` in `FiniteLemmas` proves from the definition of the folds that such a
recursion is defined on every subset of a finite set. `PickedWell` is what `SelectEvidence` keeps
at each record it looks at: the newest of each call so far, in order, within the budget, and
nothing left out that would fit. `ToldWell` is the same of `SelectExecution`. `EvidenceSelected` and
`ExecutionSelected` conclude what they return for any trail and budgets, and `EntriesCount` that
a turn's entries count its writes, all and once. The rest is about what happens while a
turn holds what it read. `TurnsFit` says that turns under way are beside one another and that
an answer is in the window once, `TrailFits` that the trail is in the order of what it saw
unless two turns were beside one another, and that no call under way is behind the trail
but for the same reason. `GrantsFit` ties what a turn may use to what was granted while it ran.
A position in the trail means the same for good, so what a turn was told stays as it was
selected. From `ContextInductive` follow `RecordsAreTold` (`RecordsHold`),
`ReadsAreAuthorised` (`ReadsHold`) and the action property `PromptIsFresh`
(`PromptHolds`). `NewestIsTrue`, which the documentation claims without the exception for turns
beside one another, is what `TrailFits` cannot give.

*Only model-checked:* the liveness properties `TurnEnds` and `EveryUpdateSettles`
(fairness is out of the prover's reach). Every invariant and every action property that a passing
run checks is the statement of a theorem. No module declares a recursive
operator, so that they can be proved about as they are.

## What is not modelled

Components with status `not_modelled` in `PROJECT.json`: the small modules, releases
and identity are planned or listed there with the reason; the frontend, process
wiring, metrics and migrations hold no decisions to check.

Inside the modelled components:

- *Excused.* Some properties promise nothing of what a race has touched and say so by a
  history variable: `overlapped` (`ResumeIsSound`, `TranscriptIsSound`), `OvertakenOn`
  (`RulesAreKept`), `late` and `mixed` (`CatalogueIsSound`, `MemoryIsSound`). What the code
  does within those races is shown by the configurations above, where the sources claim more.
- *Memory.* `ProvenanceIsTrue` takes a client that sends back the seq and the texts it was
  shown; the server takes them unchecked (`ConfirmCandidates`, `createMemory`).
- *Chat.* The text of the prompt and its instructions; token estimates, cache prices and
  the warning threshold; redacted results; parsing of provider frames; listings, names
  and their uniqueness, a provider's own edits. `TurnContext` does not tell a
  hydration that failed from one that found nothing, which the report does.
- *Telegram.* Sending replies, menus, `/status`; only the first page of fifty agents
  is offered. That the poller ends for good when its first read of the cursor fails
  is outside `TelegramGateway`, whose `Start` is a process that read it.
- *Finance.* Parsing of CSV and of money; cards, persons and the catalogue of
  categories, single statements each; annualised reports; the choice of a category for
  an import, any of which may be the right one. Instalments have numbers, not dates:
  that `AddDate` skips a month for a day it does not have is not shown.
  An amount read while a month was pending is written back over a payment made
  meanwhile, and the month is pending again: `FinanceMonths` does it, and no property
  says otherwise.
- *Palace.* Items, listings, the overview, and what a withheld room hides.
- *Connections.* The platforms' answers, the dates tokens expire on, the age that
  makes one worth refreshing, and the time of the last check.
- More than one workspace or import source where no operation mixes them.
