-------------------------------- MODULE ChatTurn --------------------------------
(***************************************************************************)
(* One turn of an agent conversation: Service.SendMessage, answerTurn,     *)
(* runTurn, streamOneCall, executeToolCall and persistAssistant of         *)
(* internal/chat/app, from the budget preflight to the terminal event.     *)
(*                                                                         *)
(* The provider, the reader, the clock, the tools and the database are the *)
(* environment: every outcome the code distinguishes is a choice of theirs.*)
(* Text, accounting fields and the prompt are abstracted away; what is     *)
(* kept is which calls were asked for, what was decided about each, what   *)
(* changed in the world, and what the stored records say about it.         *)
(***************************************************************************)
EXTENDS Naturals, FiniteSets

CONSTANTS
  Tools,          \* capability names a provider may ask for
  Registered,     \* those the registry knows
  Authorized,     \* those this agent was granted and this turn offered
  Writes,         \* registered capabilities whose effect is "write"
  CallIds,        \* ids a provider gives its calls; nothing makes them unique
  MaxCalls,       \* bound: calls in one provider answer
  MaxToolRounds,  \* maxToolRounds: provider calls one turn may make
  Web,            \* TRUE: an HTTP streaming route; FALSE: Telegram
  BudgetEnabled,  \* the agent has a daily token limit
  Limit,          \* that limit
  MaxUsed,        \* bound: tokens already used today
  MaxCallTokens   \* bound: tokens one provider call costs

ASSUME ToolAssumption ==
  /\ Registered \subseteq Tools
  /\ Authorized \subseteq Tools
  /\ Writes \subseteq Registered

ASSUME BoundAssumption ==
  /\ MaxCalls \in Nat \ {0}
  /\ MaxToolRounds \in Nat \ {0}
  /\ Web \in BOOLEAN
  /\ BudgetEnabled \in BOOLEAN
  /\ Limit \in Nat
  /\ MaxUsed \in Nat
  /\ MaxCallTokens \in Nat

VARIABLES
  phase,      \* where the turn is
  round,      \* the provider call being made, counted from 1
  pos,        \* the next call to run in this round
  ctx,        \* the turn's own context: live, or how it ended
  inherited,  \* web only: the generic 30s deadline fired before ctx ended
  used,       \* tokens used today, as the preflight read them
  spent,      \* tokens this turn has recorded against its own gate
  asked,      \* calls the provider delivered (history)
  outcomes,   \* pendingToolCall records: what was decided about each call
  applied,    \* calls that really changed something (history)
  finish,     \* the finish reason the loop settled on
  endedBy,    \* which exit of the loop was taken
  question,   \* the user message row exists
  answer,     \* finish reason of the stored assistant row, or "none"
  rows,       \* chat.tool_calls rows stored under that row
  terminals   \* "turn terminal" events emitted

loopVars == <<round, pos, asked, outcomes, applied, finish, endedBy>>
gateVars == <<used, spent>>
storeVars == <<question, answer, rows, terminals>>
ctxVars == <<ctx, inherited>>
vars == <<phase, loopVars, gateVars, storeVars, ctxVars>>

Call == [round : 1..MaxToolRounds, pos : 1..MaxCalls, tool : Tools, id : CallIds]

Ran == {"ok", "error"}
Status == Ran \cup {"not_executed"}
RefusalCodes == {"tool_not_found", "tool_not_authorized", "tool_invalid_arguments",
                 "tool_round_limit", "tool_turn_stopped"}
FailureCodes == {"tool_timeout", "tool_execution_failed"}
Outcome == [call : Call, status : Status,
            code : {""} \cup RefusalCodes \cup FailureCodes]

Finish == {"stop", "length", "aborted", "deadline", "error", "tool_round_limit"}
Exits == {"open", "open_dead", "recv", "stopped", "answer", "ceiling", "pending", "budget"}
Ended == {"refused", "abandoned", "done", "crashed"}
Phase == Ended \cup {"new", "admitted", "context", "gate", "call", "stream",
                     "decide", "tools", "settle", "audit"}

CallsOf(os) == {o.call : o \in os}
RoundCalls == {c \in asked : c.round = round}

Init ==
  /\ phase = "new"
  /\ round = 1 /\ pos = 1
  /\ ctx = "live" /\ inherited = FALSE
  /\ used \in 0..MaxUsed /\ spent = 0
  /\ asked = {} /\ outcomes = {} /\ applied = {}
  /\ finish = "none" /\ endedBy = "none"
  /\ question = FALSE /\ answer = "none" /\ rows = {} /\ terminals = 0

--------------------------------------------------------------------------------
(* The budget gate: turnGate.evaluate over the usage read at the preflight *)
(* plus what this turn has recorded since.                                 *)

BlockedPastLimit == BudgetEnabled /\ used + spent > Limit      \* faulty
Blocked == BudgetEnabled /\ used + spent >= Limit

\* turnGate.record: an opened call is charged, drained or not.
Charge(t) == spent' = IF BudgetEnabled THEN spent + t ELSE spent

--------------------------------------------------------------------------------
(* SendMessage up to the question: every lookup, the request's references  *)
(* and the budget can refuse it, and then nothing has been written.        *)

Admit ==
  /\ phase = "new"
  /\ ~Blocked
  /\ phase' = "admitted"
  /\ UNCHANGED <<loopVars, gateVars, storeVars, ctxVars>>

Refuse ==
  /\ phase \in {"new", "admitted"}
  /\ phase' = "refused"
  /\ UNCHANGED <<loopVars, gateVars, storeVars, ctxVars>>

StoreQuestion ==
  /\ phase = "admitted"
  /\ question' = TRUE
  /\ phase' = "context"
  /\ UNCHANGED <<loopVars, gateVars, answer, rows, terminals, ctxVars>>

\* answerTurn reads the history and the grants; either read failing ends the
\* request with the question stored and no answer at all.
BuildContext ==
  /\ phase = "context"
  /\ phase' \in {"call", "abandoned"}
  /\ UNCHANGED <<loopVars, gateVars, storeVars, ctxVars>>

--------------------------------------------------------------------------------
(* What ended a context that is over: stoppedBy and terminalFor.  On the   *)
(* web routes context.Cause looks the cancel context up through Value,     *)
(* which undeadlined delegates to the context that still carries the       *)
(* generic 30s deadline; with that deadline expired the cause is its.  For *)
(* a sink that failed under a live context the Go releases differ.         *)

StoppedBy ==
  IF inherited
  THEN {"deadline"} \cup (IF ctx = "live" THEN {"canceled"} ELSE {})
  ELSE {IF ctx = "live" THEN "canceled" ELSE ctx}

TerminalAlwaysAborted(cause) == "aborted"                      \* faulty
TerminalFor(cause) == IF cause = "deadline" THEN "deadline" ELSE "aborted"

\* Leaving the loop through one of its breaks.
Leave(reason, exit) ==
  /\ finish' = reason
  /\ endedBy' = exit
  /\ phase' = "settle"

--------------------------------------------------------------------------------
(* The loop of runTurn.                                                    *)

\* From the second round on the gate is asked again before a call.
Gate ==
  /\ phase = "gate"
  /\ IF Blocked
     THEN Leave("error", "budget")
     ELSE phase' = "call" /\ UNCHANGED <<finish, endedBy>>
  /\ UNCHANGED <<round, pos, asked, outcomes, applied, gateVars, storeVars, ctxVars>>

\* llm.Stream fails: the request could not be made.  A context that has ended
\* makes it fail too, and the code does not ask which it was.
OpenFails ==
  /\ phase = "call"
  /\ Leave("error", IF ctx = "live" THEN "open" ELSE "open_dead")
  /\ UNCHANGED <<round, pos, asked, outcomes, applied, gateVars, storeVars, ctxVars>>

OpenStream ==
  /\ phase = "call"
  /\ ctx = "live"
  /\ phase' = "stream"
  /\ UNCHANGED <<loopVars, gateVars, storeVars, ctxVars>>

\* The frame with the finish reason carries the assembled calls, once.
DeliverCalls ==
  /\ phase = "stream"
  /\ RoundCalls = {}
  /\ \E n \in 1..MaxCalls : \E ask \in [1..n -> Tools \X CallIds] :
       asked' = asked \cup {[round |-> round, pos |-> i,
                             tool |-> ask[i][1], id |-> ask[i][2]] : i \in 1..n}
  /\ UNCHANGED <<phase, round, pos, outcomes, applied, finish, endedBy,
                 gateVars, storeVars, ctxVars>>

\* Recv reports a broken transport.
StreamBreaks ==
  /\ phase = "stream"
  /\ \E t \in 0..MaxCallTokens : Charge(t)
  /\ IF ctx = "live"
     THEN Leave("error", "recv")
     ELSE \E cause \in StoppedBy : Leave(TerminalFor(cause), "stopped")
  /\ UNCHANGED <<round, pos, asked, outcomes, applied, used, storeVars, ctxVars>>

\* A delta could not be written: on the web the reader is gone.  The Telegram
\* runtime discards the stream, so its sink never fails.
SinkFails ==
  /\ phase = "stream"
  /\ Web
  /\ \E t \in 0..MaxCallTokens : Charge(t)
  /\ \E cause \in StoppedBy : Leave(TerminalFor(cause), "stopped")
  /\ UNCHANGED <<round, pos, asked, outcomes, applied, used, storeVars, ctxVars>>

StreamDrains ==
  /\ phase = "stream"
  /\ \E t \in 0..MaxCallTokens : Charge(t)
  /\ phase' = "decide"
  /\ UNCHANGED <<loopVars, used, storeVars, ctxVars>>

--------------------------------------------------------------------------------
(* What runTurn does with a drained answer.                                *)

\* refuseRequestedCalls: the calls that will not run are recorded as such.
DropRequestedCalls(code) == outcomes' = outcomes                \* faulty
RefuseRequestedCalls(code) ==
  outcomes' = outcomes \cup
    {[call |-> c, status |-> "not_executed", code |-> code] : c \in RoundCalls}

PastCeiling == round > MaxToolRounds                           \* faulty
AtCeiling == round >= MaxToolRounds

Answered ==
  /\ phase = "decide"
  /\ RoundCalls = {}
  /\ \E f \in {"stop", "length"} : Leave(f, "answer")
  /\ UNCHANGED <<round, pos, asked, outcomes, applied, gateVars, storeVars, ctxVars>>

StopAtCeiling ==
  /\ phase = "decide"
  /\ RoundCalls # {}
  /\ AtCeiling
  /\ RefuseRequestedCalls("tool_round_limit")
  /\ Leave("tool_round_limit", "ceiling")
  /\ UNCHANGED <<round, pos, asked, applied, gateVars, storeVars, ctxVars>>

StopWithCallsPending ==
  /\ phase = "decide"
  /\ RoundCalls # {}
  /\ ~AtCeiling
  /\ ctx # "live"
  /\ RefuseRequestedCalls("tool_turn_stopped")
  /\ \E cause \in StoppedBy : Leave(TerminalFor(cause), "pending")
  /\ UNCHANGED <<round, pos, asked, applied, gateVars, storeVars, ctxVars>>

BeginTools ==
  /\ phase = "decide"
  /\ RoundCalls # {}
  /\ ~AtCeiling
  /\ ctx = "live"
  /\ pos' = 1
  /\ phase' = "tools"
  /\ UNCHANGED <<round, asked, outcomes, applied, finish, endedBy,
                 gateVars, storeVars, ctxVars>>

--------------------------------------------------------------------------------
(* executeToolCall, one call at a time in the order they were asked for.   *)
(* The first three gates refuse; past them the tool has run.               *)

Refusals(c) ==
  IF c.tool \notin Registered THEN {"tool_not_found"}
  ELSE IF c.tool \notin Authorized THEN {"tool_not_authorized"}
  ELSE {"tool_invalid_arguments"}

Record(c, status, code) ==
  outcomes' = outcomes \cup {[call |-> c, status |-> status, code |-> code]}

\* The loop goes on to the next call, or to the next round.
RepeatRound(c) ==                                              \* faulty
  IF \E d \in RoundCalls : d.pos = c.pos + 1
  THEN pos' = pos + 1 /\ UNCHANGED <<phase, round>>
  ELSE phase' = "gate" /\ UNCHANGED <<round, pos>>
Advance(c) ==
  IF \E d \in RoundCalls : d.pos = c.pos + 1
  THEN pos' = pos + 1 /\ UNCHANGED <<phase, round>>
  ELSE phase' = "gate" /\ round' = round + 1 /\ UNCHANGED pos

ToolRefused(c) ==
  /\ \E code \in Refusals(c) : Record(c, "not_executed", code)
  /\ UNCHANGED applied

\* A write that reports success made its change.
ToolSucceeds(c) ==
  /\ c.tool \in Registered \cap Authorized
  /\ Record(c, "ok", "")
  /\ applied' = IF c.tool \in Writes THEN applied \cup {c} ELSE applied

\* A write that reports failure may have made it all the same: the change can
\* precede the timeout, the later step that failed, or the oversized result.
FailedAsRefused == "not_executed"                              \* faulty
FailureStatus == "error"
ToolFails(c) ==
  /\ c.tool \in Registered \cap Authorized
  /\ \E code \in FailureCodes : Record(c, FailureStatus, code)
  /\ \/ UNCHANGED applied
     \/ c.tool \in Writes /\ applied' = applied \cup {c}

ExecuteCall ==
  /\ phase = "tools"
  /\ \E c \in RoundCalls :
       /\ c.pos = pos
       /\ ToolRefused(c) \/ ToolSucceeds(c) \/ ToolFails(c)
       /\ Advance(c)
  /\ UNCHANGED <<asked, finish, endedBy, gateVars, storeVars, ctxVars>>

--------------------------------------------------------------------------------
(* persistAssistant, detached from the turn's context.                     *)

EmitTerminal == terminals' = terminals + 1

StoreAnswer ==
  /\ phase = "settle"
  /\ answer' = finish
  /\ phase' = "audit"
  /\ UNCHANGED <<loopVars, gateVars, question, rows, terminals, ctxVars>>

AnswerNotStored ==
  /\ phase = "settle"
  /\ EmitTerminal
  /\ phase' = "done"
  /\ UNCHANGED <<loopVars, gateVars, question, answer, rows, ctxVars>>

\* One INSERT for the whole turn under UNIQUE (message_id, round,
\* provider_call_id): two calls of a round with one id lose every row.
UniqueIds(os) ==
  \A o, p \in os : /\ o.call.round = p.call.round
                   /\ o.call.id = p.call.id => o = p

StoreAudit ==
  /\ phase = "audit"
  /\ UniqueIds(outcomes)
  /\ rows' = outcomes
  /\ EmitTerminal
  /\ phase' = "done"
  /\ UNCHANGED <<loopVars, gateVars, question, answer, ctxVars>>

AuditNotStored ==
  /\ phase = "audit"
  /\ outcomes # {}
  /\ EmitTerminal
  /\ phase' = "done"
  /\ UNCHANGED <<loopVars, gateVars, question, answer, rows, ctxVars>>

--------------------------------------------------------------------------------
(* The environment.                                                        *)

Running == phase \notin Ended

\* Nothing reads the turn's context once the loop is over.
ContextMatters == Running /\ phase \notin {"settle", "audit"}

\* The reader presses stop or goes away; for Telegram, the process is told to
\* shut down.
Cancel ==
  /\ ContextMatters /\ ctx = "live"
  /\ ctx' = "canceled"
  /\ UNCHANGED <<phase, loopVars, gateVars, storeVars, inherited>>

\* Telegram bounds a turn by turnTTL; the streaming routes have no deadline.
DeadlinePasses ==
  /\ ContextMatters /\ ctx = "live" /\ ~Web
  /\ ctx' = "deadline"
  /\ UNCHANGED <<phase, loopVars, gateVars, storeVars, inherited>>

\* The generic request deadline fires in the context undeadlined takes its
\* values from.  Once the connection is gone that context is cancelled first.
InheritedDeadlineFires ==
  /\ ContextMatters /\ ctx = "live" /\ Web /\ ~inherited
  /\ inherited' = TRUE
  /\ UNCHANGED <<phase, loopVars, gateVars, storeVars, ctx>>

\* The process dies: what was not stored is gone.
Crash ==
  /\ Running
  /\ phase' = "crashed"
  /\ outcomes' = {}
  /\ UNCHANGED <<round, pos, asked, applied, finish, endedBy, gateVars, storeVars, ctxVars>>

Turn ==
  \/ Admit \/ Refuse \/ StoreQuestion \/ BuildContext
  \/ Gate \/ OpenFails \/ OpenStream \/ StreamBreaks \/ SinkFails \/ StreamDrains
  \/ Answered \/ StopAtCeiling \/ StopWithCallsPending \/ BeginTools \/ ExecuteCall
  \/ StoreAnswer \/ AnswerNotStored \/ StoreAudit \/ AuditNotStored

Next ==
  \/ Turn \/ DeliverCalls
  \/ Cancel \/ DeadlinePasses \/ InheritedDeadlineFires \/ Crash

Spec == Init /\ [][Next]_vars

\* The turn's goroutine is scheduled while the process lives, and every call it
\* waits on returns: the provider closes its stream, the tool and the database
\* answer within their timeouts.
FairSpec == Spec /\ WF_vars(Turn)

--------------------------------------------------------------------------------
(* What is stored and what it claims.                                      *)

\* NewWriteReceipt: the calls a receipt built from these rows reports EXECUTED.
RanWrites(os) ==                                               \* faulty
  {o.call : o \in {p \in os : p.call.tool \in Writes /\ p.status \in Ran}}
Executed(os) ==
  {o.call : o \in {p \in os : p.call.tool \in Writes /\ p.status = "ok"}}

\* The loop is over and its outcome not lost with the process.
Settled == phase \in {"settle", "audit", "done"}

TypeOK ==
  /\ phase \in Phase
  /\ round \in 1..MaxToolRounds
  /\ pos \in 1..MaxCalls
  /\ ctx \in {"live", "canceled", "deadline"}
  /\ inherited \in BOOLEAN
  /\ used \in Nat /\ spent \in Nat
  /\ asked \subseteq Call
  /\ outcomes \subseteq Outcome
  /\ applied \subseteq asked
  /\ finish \in Finish \cup {"none"}
  /\ endedBy \in Exits \cup {"none"}
  /\ question \in BOOLEAN
  /\ answer \in Finish \cup {"none"}
  /\ rows \subseteq Outcome
  /\ terminals \in Nat

\* When the loop ends for any reason but a stream that was cut, every call the
\* provider asked for has been decided, and decided once: run, failed or
\* refused, including the calls of a round at the ceiling and of a turn that
\* was stopped with calls pending (send.go, refuseRequestedCalls).
NothingAskedIsLost ==
  /\ \A o, p \in outcomes : o.call = p.call => o = p
  /\ Settled /\ endedBy \notin {"recv", "stopped"} => CallsOf(outcomes) = asked

\* A stored receipt says EXECUTED only of changes that were made, and a change
\* that was made is never reported as refused before running, not even when
\* its tool failed or timed out after making it.
ReceiptIsHonest ==
  /\ Executed(rows) \subseteq applied
  /\ \A o \in rows : o.status = "not_executed" => o.call \notin applied

\* The answer that uses up the last provider call never runs anything: its
\* calls could not be reported back (maxToolRounds).
CeilingNeverRuns ==
  \A o \in outcomes : o.status \in Ran => o.call.round < MaxToolRounds

\* Within one turn the daily limit is overshot by at most the provider call
\* that was under way when it was reached (budget.go, turnGate).
OvershootIsOneCall ==
  BudgetEnabled /\ question => used + spent < Limit + MaxCallTokens

\* A turn that was stopped is filed under what stopped it: a deadline of its
\* own context as "deadline", anybody going away as "aborted" (types.go).
StopIsNamed ==
  endedBy \in {"stopped", "pending"} =>
    finish = IF ctx = "deadline" THEN "deadline" ELSE "aborted"

\* Where every phase leaves the account of what was asked for: the inductive
\* strengthening of the invariants above.
Decided == CallsOf(outcomes)
Account ==
  /\ phase \in {"new", "admitted", "context", "refused", "abandoned"} =>
       asked = {} /\ outcomes = {}
  /\ phase \in {"gate", "call"} =>
       Decided = asked /\ \A c \in asked : c.round < round
  /\ phase \in {"stream", "decide"} =>
       Decided = asked \ RoundCalls /\ \A c \in asked : c.round <= round
  /\ phase = "tools" =>
       /\ round < MaxToolRounds
       /\ \A c \in asked : c.round <= round
       /\ Decided = {c \in asked : c.round < round \/ c.pos < pos}
       /\ \E c \in RoundCalls : c.pos = pos
  /\ Settled /\ endedBy \notin {"recv", "stopped"} => Decided = asked
  /\ phase # "crashed" => Decided \subseteq asked

\* The calls of a round are numbered 1..n, in the order they will run.
Numbered ==
  /\ \A c, d \in asked : c.round = d.round /\ c.pos = d.pos => c = d
  /\ \A c \in asked : \A i \in 1..c.pos :
       \E d \in asked : d.round = c.round /\ d.pos = i

Effects ==
  /\ Executed(outcomes) \subseteq applied
  /\ phase # "crashed" =>
       applied \subseteq CallsOf({o \in outcomes : o.status \in Ran})

Stored == rows = {} \/ (phase = "done" /\ rows = outcomes)

Budget ==
  BudgetEnabled =>
    /\ question \/ phase \notin {"new", "refused", "crashed"} =>
         used + spent < Limit + MaxCallTokens
    /\ phase \in {"admitted", "context", "call", "stream"} => used + spent < Limit

IInv ==
  /\ TypeOK /\ NothingAskedIsLost /\ CeilingNeverRuns
  /\ Account /\ Numbered /\ Effects /\ Stored /\ Budget

\* A turn that reaches the provider always ends with its terminal event, unless
\* the process dies under it.
TurnEnds == phase = "call" ~> (terminals = 1 \/ phase = "crashed")

\* The turn keeps the promise about its changes that WriteLedger states.
Ledger == INSTANCE WriteLedger WITH
  Calls   <- Call,
  open    <- ~(phase \in Ended),
  effects <- applied,
  claimed <- Executed(rows)
ImplementsLedger == Ledger!Spec

--------------------------------------------------------------------------------
(* Statements of the sources that the code does not keep.                  *)

\* "NO REQUESTED TOOL DISAPPEARS SILENTLY" (send.go, refuseRequestedCalls).
RequestedToolsAreRecorded == Settled => CallsOf(outcomes) = asked

\* "a turn killed here is persisted with its receipts, and the operator is
\* offered [Continuar]" (telegram app.go, DefaultTurnTimeout): a turn its
\* deadline ended is resumable.
KilledTurnIsResumable ==
  endedBy \in {"open_dead", "stopped", "pending"} /\ ctx = "deadline"
    => finish = "deadline"

\* "aborted" is "SOMEBODY stopping the turn: the user pressed stop, the tab
\* closed"; "deadline" is "a CLOCK stopping the turn" (types.go, FinishReason).
ReaderStopIsAborted ==
  endedBy \in {"stopped", "pending"} /\ ctx = "canceled" => finish = "aborted"
================================================================================
