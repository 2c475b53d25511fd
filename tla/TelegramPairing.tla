----------------------------- MODULE TelegramPairing -----------------------------
(***************************************************************************)
(* Who may speak to which agent over Telegram: pairing codes, bindings of  *)
(* a chat to a workspace, the agent a binding has chosen and the thread it *)
(* speaks in (internal/integrations/telegram/app over adapters/repo).      *)
(*                                                                         *)
(* The bot handles one update at a time (TelegramGateway); operators run   *)
(* cmd/telegramctl beside it, and the web client deletes agents and        *)
(* conversations.  A step is one statement, and any process may fail or    *)
(* die between two.  Only private chats get this far, so a chat stands for *)
(* its user too.                                                           *)
(***************************************************************************)
EXTENDS Naturals, Sequences, FiniteSets

CONSTANTS
  PrivateChats,        \* private chats
  Workspaces,   \* workspaces an operator may name
  Agents,       \* agents
  OwnerOf,      \* agent -> its workspace
  Operators,    \* telegramctl processes
  MaxCodes,     \* bound: codes ever issued
  MaxBindings,  \* bound: bindings ever created
  MaxThreads    \* bound: conversations ever opened

ASSUME PairingAssumption ==
  /\ OwnerOf \in [Agents -> Workspaces]
  /\ {MaxCodes, MaxBindings, MaxThreads} \subseteq Nat

VARIABLES
  codes,     \* pairing_codes, in order of issue
  bindings,  \* telegram.bindings, in order of creation
  threadOf,  \* telegram.chat_agents: (binding, agent) -> conversation
  convs,     \* chat.conversations opened here
  agents,    \* agents that are not deleted
  bot,       \* the update in hand
  op,        \* operator -> the command it runs
  web        \* the agent being deleted

pairingVars == <<codes, bindings, threadOf, convs, agents, bot, op, web>>

None == "none"
NoUpdate == [at |-> "idle", kind |-> None, binding |-> 0, agent |-> None, conv |-> 0,
             chat |-> None, late |-> FALSE]
NoCommand == [at |-> "idle", code |-> 0, ws |-> None, binding |-> 0]

PairingInit ==
  /\ codes = <<>> /\ bindings = <<>> /\ convs = <<>>
  /\ threadOf = << >>
  /\ agents = Agents
  /\ bot = NoUpdate
  /\ op = [o \in Operators |-> NoCommand]
  /\ web = None

LiveBindings == {b \in DOMAIN bindings : ~bindings[b].revoked}
FindAnyByChat(chat) == {b \in DOMAIN bindings : bindings[b].chat = chat}  \* faulty
FindByChat(chat) == {b \in LiveBindings : bindings[b].chat = chat}

--------------------------------------------------------------------------------
(* Codes and bindings.                                                     *)

Usable(code) == ~code.consumed /\ ~code.expired

\* /start: an unbound chat is given a code.
CommandStart ==
  /\ bot.at = "idle"
  /\ \E chat \in PrivateChats :
       /\ FindByChat(chat) = {}
       /\ bot' = [NoUpdate EXCEPT !.at = "issue", !.chat = chat]
  /\ UNCHANGED <<codes, bindings, threadOf, convs, agents, op, web>>

\* The codes its user still holds are retired with the new one's insertion.
Kept(chat) == codes                                            \* faulty
Retired(chat) ==
  [i \in DOMAIN codes |-> IF codes[i].chat = chat THEN [codes[i] EXCEPT !.consumed = TRUE] ELSE codes[i]]
Issue ==
  /\ bot.at = "issue" /\ Len(codes) < MaxCodes
  /\ codes' = Append(Retired(bot.chat), [chat |-> bot.chat, consumed |-> FALSE, expired |-> FALSE])
  /\ bot' = NoUpdate
  /\ UNCHANGED <<bindings, threadOf, convs, agents, op, web>>

Expire ==
  /\ \E i \in DOMAIN codes : Usable(codes[i]) /\ codes' = [codes EXCEPT ![i].expired = TRUE]
  /\ UNCHANGED <<bindings, threadOf, convs, agents, bot, op, web>>

\* telegramctl pair: consumed in the statement that reads it,
Unexpired(code) == ~code.expired                               \* faulty
Redeemable(code) == Usable(code)
Redeem(o) ==
  /\ op[o].at = "idle"
  /\ \E i \in DOMAIN codes, w \in Workspaces :
       /\ Redeemable(codes[i])
       /\ codes' = [codes EXCEPT ![i].consumed = TRUE]
       /\ op' = [op EXCEPT ![o] = [NoCommand EXCEPT !.at = "check", !.code = i, !.ws = w]]
  /\ UNCHANGED <<bindings, threadOf, convs, agents, bot, web>>

\* then the chat is found unbound,
CheckUnbound(o) ==
  /\ op[o].at = "check"
  /\ FindByChat(codes[op[o].code].chat) = {}
  /\ op' = [op EXCEPT ![o].at = "create"]
  /\ UNCHANGED <<codes, bindings, threadOf, convs, agents, bot, web>>

\* then bound, unless the unique index says that it is bound since.
NoIndex(chat) == TRUE                                          \* faulty
OnePerChat(chat) == FindByChat(chat) = {}
CreateBinding(o) ==
  /\ op[o].at = "create" /\ Len(bindings) < MaxBindings
  /\ LET chat == codes[op[o].code].chat IN
     /\ OnePerChat(chat)
     /\ bindings' = Append(bindings, [ws |-> op[o].ws, chat |-> chat, agent |-> None,
                                      revoked |-> FALSE, code |-> op[o].code])
  /\ op' = [op EXCEPT ![o] = NoCommand]
  /\ UNCHANGED <<codes, threadOf, convs, agents, bot, web>>

\* telegramctl revoke: the binding is found, then revoked.
FindToRevoke(o) ==
  /\ op[o].at = "idle"
  /\ \E b \in LiveBindings : op' = [op EXCEPT ![o] = [NoCommand EXCEPT !.at = "revoke", !.binding = b]]
  /\ UNCHANGED <<codes, bindings, threadOf, convs, agents, bot, web>>

Revoke(o) ==
  /\ op[o].at = "revoke" /\ op[o].binding \in LiveBindings
  /\ bindings' = [bindings EXCEPT ![op[o].binding].revoked = TRUE]
  /\ op' = [op EXCEPT ![o] = NoCommand]
  /\ bot' = IF bot.binding = op[o].binding THEN [bot EXCEPT !.late = TRUE] ELSE bot
  /\ UNCHANGED <<codes, threadOf, convs, agents, web>>

\* A refusal, an error, the end of the process.
OperatorFails(o) ==
  /\ op[o].at # "idle"
  /\ op' = [op EXCEPT ![o] = NoCommand]
  /\ UNCHANGED <<codes, bindings, threadOf, convs, agents, bot, web>>

--------------------------------------------------------------------------------
(* An update of a bound chat.                                              *)

\* requireBinding: text and [Continuar] are for the agent the binding had then; a
\* selection names any agent, for callback data is the client's.
RequireBinding ==
  /\ bot.at = "idle"
  /\ \E chat \in PrivateChats, kind \in {"message", "resume", "select"}, wanted \in Agents :
     \E b \in FindByChat(chat) :
       /\ kind # "select" => bindings[b].agent = wanted
       /\ bot' = [NoUpdate EXCEPT !.at = "agent", !.chat = chat, !.kind = kind, !.binding = b,
                                  !.agent = wanted]
  /\ UNCHANGED <<codes, bindings, threadOf, convs, agents, op, web>>

\* The agent has to be one of the bound workspace's.
AnyAgent(ws) == agents                                         \* faulty
ListAgents(ws) == {a \in agents : OwnerOf[a] = ws}
FindAgent ==
  /\ bot.at = "agent"
  /\ bot.agent \in ListAgents(bindings[bot.binding].ws)
  /\ bot' = [bot EXCEPT !.at = IF bot.kind = "select" THEN "select" ELSE "thread"]
  /\ UNCHANGED <<codes, bindings, threadOf, convs, agents, op, web>>

\* A binding that is no longer live is not changed.
AnyBinding(b) == TRUE                                          \* faulty
StillLive(b) == b \in LiveBindings
SetActiveAgent ==
  /\ bot.at = "select" /\ StillLive(bot.binding)
  /\ bindings' = [bindings EXCEPT ![bot.binding].agent = bot.agent]
  /\ bot' = [bot EXCEPT !.at = "thread"]
  /\ UNCHANGED <<codes, threadOf, convs, agents, op, web>>

\* conversationFor: the pair's thread while it exists, else a new one.
PairOfChat == <<bot.chat, bot.agent>>                          \* faulty
Pair == <<bot.binding, bot.agent>>
Exists(conv) == convs[conv].live
Mapped == Pair \in DOMAIN threadOf

NeverReused == FALSE                                           \* faulty
HasThread == Mapped /\ Exists(threadOf[Pair])

Continue(conv) ==
  bot' = IF bot.kind = "select" THEN NoUpdate ELSE [bot EXCEPT !.at = "turn", !.conv = conv]

FindThread ==
  /\ bot.at = "thread" /\ bot.kind # "resume"
  /\ IF HasThread THEN Continue(threadOf[Pair]) ELSE bot' = [bot EXCEPT !.at = "open"]
  /\ UNCHANGED <<codes, bindings, threadOf, convs, agents, op, web>>

\* Resuming opens nothing: without a thread it is refused.
FindToResume ==
  /\ bot.at = "thread" /\ bot.kind = "resume"
  /\ Mapped
  /\ bot' = [bot EXCEPT !.at = "turn", !.conv = threadOf[Pair]]
  /\ UNCHANGED <<codes, bindings, threadOf, convs, agents, op, web>>

\* The chat refuses one for an agent that is gone, and may lose the agent before it
\* inserts the row.
FindAgentAgain ==
  /\ bot.at = "open" /\ bot.agent \in agents
  /\ bot' = [bot EXCEPT !.at = "create"]
  /\ UNCHANGED <<codes, bindings, threadOf, convs, agents, op, web>>

CreateConversation ==
  /\ bot.at = "create" /\ Len(convs) < MaxThreads
  /\ convs' = Append(convs, [ws |-> bindings[bot.binding].ws, agent |-> bot.agent, live |-> TRUE])
  /\ bot' = [bot EXCEPT !.at = "map", !.conv = Len(convs')]
  /\ UNCHANGED <<codes, bindings, threadOf, agents, op, web>>

\* INSERT ... ON CONFLICT (binding_id, agent_id) DO UPDATE.
OfTheBinding == {k \in DOMAIN threadOf : k[1] = bot.binding} \cup {Pair}  \* faulty
OfThePair == {Pair}
Upsert ==
  /\ bot.at = "map"
  /\ threadOf' = [k \in DOMAIN threadOf \cup OfThePair |-> IF k \in OfThePair THEN bot.conv ELSE threadOf[k]]
  /\ Continue(bot.conv)
  /\ UNCHANGED <<codes, bindings, convs, agents, op, web>>

\* Send or Resume, which asks for the conversation and its agent again.
BeginTurn ==
  /\ bot.at = "turn" /\ Exists(bot.conv) /\ convs[bot.conv].agent \in agents
  /\ bot' = NoUpdate
  /\ UNCHANGED <<codes, bindings, threadOf, convs, agents, op, web>>

\* A refusal, an error, the end of the process.
BotFails ==
  /\ bot.at # "idle"
  /\ bot' = NoUpdate
  /\ UNCHANGED <<codes, bindings, threadOf, convs, agents, op, web>>

--------------------------------------------------------------------------------
(* The web client.                                                         *)

\* An agent with no conversations is found, then deleted.
CountConversations ==
  /\ web = None
  /\ \E a \in agents : (\A k \in DOMAIN convs : convs[k].live => convs[k].agent # a) /\ web' = a
  /\ UNCHANGED <<codes, bindings, threadOf, convs, agents, bot, op>>

DeleteAgent ==
  /\ web # None
  /\ agents' = agents \ {web} /\ web' = None
  /\ UNCHANGED <<codes, bindings, threadOf, convs, bot, op>>

DeleteConversation ==
  /\ \E k \in DOMAIN convs : convs[k].live /\ convs' = [convs EXCEPT ![k].live = FALSE]
  /\ UNCHANGED <<codes, bindings, threadOf, agents, bot, op, web>>

PairingNext ==
  \/ CommandStart \/ Issue \/ Expire
  \/ RequireBinding \/ FindAgent \/ SetActiveAgent \/ FindThread \/ FindToResume
  \/ FindAgentAgain \/ CreateConversation \/ Upsert \/ BeginTurn \/ BotFails
  \/ CountConversations \/ DeleteAgent \/ DeleteConversation
  \/ \E o \in Operators :
       Redeem(o) \/ CheckUnbound(o) \/ CreateBinding(o) \/ FindToRevoke(o) \/ Revoke(o) \/ OperatorFails(o)

PairingSpec == PairingInit /\ [][PairingNext]_pairingVars

--------------------------------------------------------------------------------

PairingTypeOK ==
  /\ \A i \in DOMAIN codes : codes[i].chat \in PrivateChats /\ {codes[i].consumed, codes[i].expired} \subseteq BOOLEAN
  /\ \A b \in DOMAIN bindings : bindings[b].chat \in PrivateChats /\ bindings[b].ws \in Workspaces
                                /\ bindings[b].agent \in Agents \cup {None}
  /\ DOMAIN threadOf \subseteq (DOMAIN bindings) \X Agents
  /\ \A k \in DOMAIN threadOf : threadOf[k] \in DOMAIN convs
  /\ agents \subseteq Agents /\ web \in Agents \cup {None}
  /\ \A o \in Operators : op[o].code \in 0..Len(codes) /\ op[o].binding \in 0..Len(bindings)
  /\ bot.binding \in 0..Len(bindings) /\ bot.conv \in 0..Len(convs)

\* A chat reaches one workspace, whatever operators confirm at the same time.
OneWorkspace == \A b, d \in LiveBindings : bindings[b].chat = bindings[d].chat => b = d

\* A code binds once, and the chat that asked for it.
CodeBindsOnce ==
  \A b \in DOMAIN bindings :
    /\ bindings[b].chat = codes[bindings[b].code].chat
    /\ \A d \in DOMAIN bindings : bindings[b].code = bindings[d].code => b = d

\* "I typed /start three times" leaves one usable code (adapters/repo/repo.go).
OneUsableCode ==
  \A i, j \in DOMAIN codes :
    (Usable(codes[i]) /\ Usable(codes[j]) /\ codes[i].chat = codes[j].chat) => i = j

\* The agent a chat speaks to is one of the workspace its operator named, although
\* the client chooses the id and may have kept it from another binding.
AgentIsOwn ==
  \A b \in DOMAIN bindings : bindings[b].agent # None => OwnerOf[bindings[b].agent] = bindings[b].ws

\* No thread serves two agents, nor two bindings, and it is of the workspace of its
\* binding: what is said to one agent is never read by another.
ThreadIsIsolated ==
  \A k \in DOMAIN threadOf :
    /\ convs[threadOf[k]].agent = k[2] /\ convs[threadOf[k]].ws = bindings[k[1]].ws
    /\ \A l \in DOMAIN threadOf : threadOf[k] = threadOf[l] => k = l

\* However operators, the bot and the web client interleave: a code binds a chat once,
\* to one workspace, and the chat reaches its agents only, each in a thread of its own.
PairingIsSound ==
  PairingTypeOK /\ OneWorkspace /\ CodeBindsOnce /\ OneUsableCode /\ AgentIsOwn /\ ThreadIsIsolated

\* "Switching agents selects a conversation; it never moves one": a pair's thread is
\* replaced only once it has been deleted.
ThreadIsKept ==
  [][\A k \in DOMAIN threadOf :
       threadOf'[k] # threadOf[k] => ~convs[threadOf[k]].live]_pairingVars

\* A turn begins for a chat that is bound to the turn's workspace, or was until after
\* its update was taken up: one message may still be answered, the next is not.
RevokedIsRefused ==
  [][BeginTurn => /\ bot.binding \in LiveBindings \/ bot.late
                  /\ convs[bot.conv].ws = bindings[bot.binding].ws]_pairingVars

\* A revoked binding stays as it was, and no selection under way changes the one that
\* took its place.
RevokedIsFinal ==
  [][\A b \in DOMAIN bindings :
       /\ bindings[b].revoked => bindings'[b] = bindings[b]
       /\ bindings'[b].agent # bindings[b].agent => b = bot.binding]_pairingVars

\* A revocation takes effect, and for good.
RevocationHolds == RevokedIsRefused /\ RevokedIsFinal

\* What a pairing gives lasts as long as it does and no longer: its threads are kept
\* until deleted, and a revocation ends it.
PairingLasts == ThreadIsKept /\ RevocationHolds

\* The inductive strengthening: what a command and an update under way still know of
\* the rows they read.
Code == [chat : PrivateChats, consumed : BOOLEAN, expired : BOOLEAN]
Binding == [ws : Workspaces, chat : PrivateChats, agent : Agents \cup {None}, revoked : BOOLEAN, code : Nat]
Thread == [ws : Workspaces, agent : Agents, live : BOOLEAN]
Update == [at : {"idle", "issue", "agent", "select", "thread", "open", "create", "map", "turn"},
           kind : {None, "message", "resume", "select"}, binding : 0..Len(bindings),
           agent : Agents \cup {None}, conv : 0..Len(convs), chat : PrivateChats \cup {None}, late : BOOLEAN]
Command == [at : {"idle", "check", "create", "revoke"}, code : 0..Len(codes),
            ws : Workspaces \cup {None}, binding : 0..Len(bindings)]
RowsFit ==
  /\ codes \in Seq(Code) /\ bindings \in Seq(Binding) /\ convs \in Seq(Thread)
  /\ threadOf \in [DOMAIN threadOf -> DOMAIN convs] /\ DOMAIN threadOf \subseteq (DOMAIN bindings) \X Agents
  /\ agents \subseteq Agents /\ web \in Agents \cup {None}
  /\ bot \in Update /\ op \in [Operators -> Command]

\* A code in an operator's hands is spent and bound nothing yet, and no other holds it.
Holding(o) == op[o].at \in {"check", "create"}
CodesAreSpent ==
  /\ \A b \in DOMAIN bindings : bindings[b].code \in DOMAIN codes /\ codes[bindings[b].code].consumed
  /\ \A o \in Operators : Holding(o) =>
       /\ op[o].code \in DOMAIN codes /\ codes[op[o].code].consumed /\ op[o].ws \in Workspaces
       /\ \A b \in DOMAIN bindings : bindings[b].code # op[o].code
       /\ \A p \in Operators : Holding(p) /\ op[p].code = op[o].code => p = o

\* The update's binding was live when it was taken up, its agent is the workspace's,
\* and the thread it opened serves nothing else yet.
UpdateKnows ==
  /\ bot.at = "issue" => bot.chat \in PrivateChats
  /\ bot.at \notin {"idle", "issue"} =>
       /\ bot.binding \in DOMAIN bindings /\ bot.agent \in Agents
       /\ bot.binding \in LiveBindings \/ bot.late
  /\ bot.at \in {"select", "thread", "open", "create", "map", "turn"} => OwnerOf[bot.agent] = bindings[bot.binding].ws
  /\ bot.at \in {"open", "create", "map"} => ~HasThread
  /\ bot.at = "map" => /\ bot.conv \in DOMAIN convs /\ convs[bot.conv].agent = bot.agent
                       /\ \A k \in DOMAIN threadOf : threadOf[k] # bot.conv
  /\ bot.at \in {"map", "turn"} =>
       bot.conv \in DOMAIN convs /\ convs[bot.conv].ws = bindings[bot.binding].ws

PairingInvariant ==
  /\ RowsFit /\ CodesAreSpent /\ UpdateKnows
  /\ OneWorkspace /\ CodeBindsOnce /\ OneUsableCode /\ AgentIsOwn /\ ThreadIsIsolated

\* selectAgent (app/app.go): the conversation is opened at once, so that "selected"
\* and "has somewhere to talk" are the same event.
SelectedHasThread ==
  bot.at = "idle" =>
    \A b \in LiveBindings : bindings[b].agent # None => <<b, bindings[b].agent>> \in DOMAIN threadOf
================================================================================
