--------------------------------- MODULE Agents ---------------------------------
(***************************************************************************)
(* Providers, the agents that use them and what hangs on an agent:         *)
(* conversations, memories, sources and grants of tools                    *)
(* (internal/chat/app agents.go, providers.go, tools.go and the stores).   *)
(*                                                                         *)
(* Deleting is an UPDATE of deleted_at, so no foreign key fires: what a    *)
(* deletion would orphan is counted first, one table after the other,      *)
(* outside any transaction.  An edit reads the row, changes the fields it  *)
(* was given and writes the row back whole.  A step is one statement.      *)
(***************************************************************************)
EXTENDS Naturals, Sequences, FiniteSets

CONSTANTS
  Providers,  \* providers that are ever created
  AgentIds,   \* agents that are ever created
  Tools,      \* names a grant may hold
  Registered, \* those the registry knows
  Callers,    \* requests under way
  MaxRows     \* bound: rows of a kind on an agent, below which one of any kind may be added

ASSUME AgentAssumption == Registered \subseteq Tools /\ MaxRows \in Nat

VARIABLES
  providers,  \* provider -> "unused", "live" or "deleted"
  agents,     \* agent -> its row
  rows,       \* kind -> agent -> rows of that kind that are not deleted
  grants,     \* agent -> tools granted
  calls,      \* caller -> the call it makes
  late        \* history: <<kind, owner>> of rows written while their owner was being deleted

vars == <<providers, agents, rows, grants, calls, late>>

Kinds == {"conversation", "memory", "source"}
None == "none"
Policies == {"off", "on_request"}

\* `chosen` and `mixed` are history: the last edit, and whether one wrote over another.
NewAgent(p) == [state |-> "live", provider |-> p, policy |-> "on_request",
                chosen |-> [provider |-> p, policy |-> "on_request"], mixed |-> FALSE]
NoAgent == [NewAgent(None) EXCEPT !.state = "unused"]
Fields(row) == [provider |-> row.provider, policy |-> row.policy]
Idle == [op |-> "idle", id |-> None, step |-> 0, kind |-> None, tool |-> None, provider |-> None,
         policy |-> None, read |-> Fields(NoAgent)]

Init ==
  /\ providers = [p \in Providers |-> "unused"]
  /\ agents = [a \in AgentIds |-> NoAgent]
  /\ rows = [k \in Kinds |-> [a \in AgentIds |-> 0]]
  /\ grants = [a \in AgentIds |-> {}]
  /\ calls = [c \in Callers |-> Idle]
  /\ late = {}

Live(a) == agents[a].state = "live"
Begin(c, call) == calls[c].op = "idle" /\ calls' = [calls EXCEPT ![c] = call]
End(c) == calls' = [calls EXCEPT ![c] = Idle]
At(c, op) == calls[c].op = op

--------------------------------------------------------------------------------
(* Deleting an agent: the order of its statements.                         *)

WithoutSources == <<"conversation", "memory", "revoke", "remove">>       \* faulty
RevokeFirst == <<"revoke", "conversation", "memory", "source", "remove">>  \* faulty
GrantsStay == <<"conversation", "memory", "source", "remove">>           \* faulty
DeletionSteps == <<"conversation", "memory", "source", "revoke", "remove">>
Next1(c) == DeletionSteps[calls[c].step]

\* The deletions of an agent, or of a provider, that have looked for rows of this kind
\* already: a row written now is one they did not count.
Passed(d, kind) == \A i \in calls[d].step..Len(DeletionSteps) : DeletionSteps[i] # kind
Uncounted(kind, a) ==
  \/ agents[a].state = "deleted"
  \/ \E d \in Callers : At(d, "delete agent") /\ calls[d].id = a /\ Passed(d, kind)
Unwatched(p) ==
  \/ providers[p] = "deleted"
  \/ \E d \in Callers : At(d, "delete provider") /\ calls[d].id = p /\ calls[d].step = 2
Slip(kind, owner, slips) == late' = IF slips THEN late \cup {<<kind, owner>>} ELSE late

DeleteAgent(c) ==
  /\ \E a \in AgentIds : Live(a) /\ Begin(c, [Idle EXCEPT !.op = "delete agent", !.id = a, !.step = 1])
  /\ UNCHANGED <<providers, agents, rows, grants, late>>

\* CountConversations, CountMemories, CountSources: any row refuses the deletion.
CountDependents(c) ==
  /\ At(c, "delete agent") /\ Next1(c) \in Kinds
  /\ IF rows[Next1(c)][calls[c].id] > 0 THEN End(c) ELSE calls' = [calls EXCEPT ![c].step = @ + 1]
  /\ UNCHANGED <<providers, agents, rows, grants, late>>

RevokeAll(c) ==
  /\ At(c, "delete agent") /\ Next1(c) = "revoke"
  /\ grants' = [grants EXCEPT ![calls[c].id] = {}]
  /\ calls' = [calls EXCEPT ![c].step = @ + 1]
  /\ UNCHANGED <<providers, agents, rows, late>>

\* WHERE ... deleted_at IS NULL: an agent deleted meanwhile is "not found".
SoftDeleteAgent(c) ==
  /\ At(c, "delete agent") /\ Next1(c) = "remove"
  /\ agents' = [agents EXCEPT ![calls[c].id].state = "deleted"]
  /\ End(c)
  /\ UNCHANGED <<providers, rows, grants, late>>

--------------------------------------------------------------------------------
(* Providers.                                                              *)

CreateProvider ==
  /\ \E p \in Providers : providers[p] = "unused" /\ providers' = [providers EXCEPT ![p] = "live"]
  /\ UNCHANGED <<agents, rows, grants, calls, late>>

DeleteProvider(c) ==
  /\ \E p \in Providers :
       providers[p] = "live" /\ Begin(c, [Idle EXCEPT !.op = "delete provider", !.id = p, !.step = 1])
  /\ UNCHANGED <<providers, agents, rows, grants, late>>

AgentsOf(p) == {a \in AgentIds : Live(a) /\ agents[a].provider = p}
CountAgents(c) ==
  /\ At(c, "delete provider") /\ calls[c].step = 1
  /\ IF AgentsOf(calls[c].id) # {} THEN End(c) ELSE calls' = [calls EXCEPT ![c].step = 2]
  /\ UNCHANGED <<providers, agents, rows, grants, late>>

SoftDeleteProvider(c) ==
  /\ At(c, "delete provider") /\ calls[c].step = 2
  /\ providers' = [providers EXCEPT ![calls[c].id] = "deleted"]
  /\ End(c)
  /\ UNCHANGED <<agents, rows, grants, late>>

--------------------------------------------------------------------------------
(* Creating and editing an agent.                                          *)

CreateAgent(c) ==
  /\ \E p \in Providers : providers[p] = "live" /\ Begin(c, [Idle EXCEPT !.op = "create", !.provider = p])
  /\ UNCHANGED <<providers, agents, rows, grants, late>>

\* The foreign key is met by a provider that is only marked as deleted.
InsertAgent(c) ==
  /\ At(c, "create")
  /\ \E a \in AgentIds :
       agents[a].state = "unused" /\ agents' = [agents EXCEPT ![a] = NewAgent(calls[c].provider)]
  /\ Slip("agent", calls[c].provider, Unwatched(calls[c].provider))
  /\ End(c)
  /\ UNCHANGED <<providers, rows, grants>>

\* The row is read whole; None is a field the request did not give.
UpdateAgent(c) ==
  /\ \E a \in AgentIds, p \in Providers \cup {None}, m \in Policies \cup {None} :
       /\ Live(a) /\ (p = None) # (m = None) /\ p # agents[a].provider /\ m # agents[a].policy
       /\ Begin(c, [Idle EXCEPT !.op = IF p = None THEN "write" ELSE "find provider", !.id = a,
                                !.provider = p, !.policy = m, !.read = Fields(agents[a])])
  /\ UNCHANGED <<providers, agents, rows, grants, late>>

FindProvider(c) ==
  /\ At(c, "find provider")
  /\ IF providers[calls[c].provider] = "live" THEN calls' = [calls EXCEPT ![c].op = "write"] ELSE End(c)
  /\ UNCHANGED <<providers, agents, rows, grants, late>>

Given(new, old) == IF new = None THEN old ELSE new
ProviderOnly(call) ==                                          \* faulty
  [provider |-> Given(call.provider, call.read.provider), policy |-> "on_request"]
Edited(call) ==
  [provider |-> Given(call.provider, call.read.provider), policy |-> Given(call.policy, call.read.policy)]

EvenDeleted(a) == agents[a].state # "unused"                   \* faulty
Updatable(a) == Live(a)

\* UPDATE of every column, WHERE deleted_at IS NULL.
WriteAgent(c) ==
  /\ At(c, "write")
  /\ LET a == calls[c].id
         row == Edited(calls[c])
         mixed == agents[a].mixed \/ Fields(agents[a]) # calls[c].read
     IN IF Updatable(a)
        THEN /\ agents' = [agents EXCEPT ![a] =
                  [state |-> "live", provider |-> row.provider, policy |-> row.policy,
                   chosen |-> IF mixed THEN row
                              ELSE [provider |-> Given(calls[c].provider, agents[a].chosen.provider),
                                    policy |-> Given(calls[c].policy, agents[a].chosen.policy)],
                   mixed |-> mixed]]
             /\ Slip("agent", row.provider, Unwatched(row.provider))
        ELSE UNCHANGED <<agents, late>>
  /\ End(c)
  /\ UNCHANGED <<providers, rows, grants>>

--------------------------------------------------------------------------------
(* What hangs on an agent.                                                 *)

\* CreateConversation, CreateMemory and CreateSource look the agent up and insert.
CreateRow(c) ==
  /\ \E a \in AgentIds, k \in Kinds : Live(a) /\ Begin(c, [Idle EXCEPT !.op = "insert", !.id = a, !.kind = k])
  /\ UNCHANGED <<providers, agents, rows, grants, late>>

InsertRow(c) ==
  /\ At(c, "insert") /\ (\A k \in Kinds : rows[k][calls[c].id] < MaxRows)
  /\ rows' = [rows EXCEPT ![calls[c].kind][calls[c].id] = @ + 1]
  /\ Slip(calls[c].kind, calls[c].id, Uncounted(calls[c].kind, calls[c].id))
  /\ End(c)
  /\ UNCHANGED <<providers, agents, grants>>

\* A memory or a source is reached only through its agent, a conversation by its own id.
DeleteRow ==
  /\ \E a \in AgentIds, k \in Kinds :
       /\ rows[k][a] > 0 /\ (k = "conversation" \/ Live(a))
       /\ rows' = [rows EXCEPT ![k][a] = @ - 1]
       /\ late' = IF rows[k][a] = 1 THEN late \ {<<k, a>>} ELSE late
  /\ UNCHANGED <<providers, agents, grants, calls>>

Lookup == Registered
AuthorizeTool(c) ==
  /\ \E a \in AgentIds, t \in Lookup : Live(a) /\ Begin(c, [Idle EXCEPT !.op = "grant", !.id = a, !.tool = t])
  /\ UNCHANGED <<providers, agents, rows, grants, late>>

\* INSERT ... ON CONFLICT DO NOTHING.
Authorize(c) ==
  /\ At(c, "grant")
  /\ grants' = [grants EXCEPT ![calls[c].id] = @ \cup {calls[c].tool}]
  /\ Slip("grant", calls[c].id, Uncounted("revoke", calls[c].id))
  /\ End(c)
  /\ UNCHANGED <<providers, agents, rows>>

RevokeTool ==
  /\ \E a \in AgentIds, t \in Tools : Live(a) /\ t \in grants[a] /\ grants' = [grants EXCEPT ![a] = @ \ {t}]
  /\ late' = {l \in late : l[1] = "grant" => grants'[l[2]] # {}}
  /\ UNCHANGED <<providers, agents, rows, calls>>

\* A statement fails, the connection is lost, the process ends.
Fail(c) ==
  /\ ~At(c, "idle") /\ End(c)
  /\ UNCHANGED <<providers, agents, rows, grants, late>>

Next ==
  \/ CreateProvider \/ DeleteRow \/ RevokeTool
  \/ \E c \in Callers :
       \/ DeleteAgent(c) \/ CountDependents(c) \/ RevokeAll(c) \/ SoftDeleteAgent(c)
       \/ DeleteProvider(c) \/ CountAgents(c) \/ SoftDeleteProvider(c)
       \/ CreateAgent(c) \/ InsertAgent(c)
       \/ UpdateAgent(c) \/ FindProvider(c) \/ WriteAgent(c)
       \/ CreateRow(c) \/ InsertRow(c) \/ AuthorizeTool(c) \/ Authorize(c) \/ Fail(c)

Spec == Init /\ [][Next]_vars

--------------------------------------------------------------------------------

States == {"unused", "live", "deleted"}
Chosen == [provider : Providers \cup {None}, policy : Policies]
Row == [state : States, provider : Providers \cup {None}, policy : Policies, chosen : Chosen, mixed : BOOLEAN]
TypeOK ==
  /\ providers \in [Providers -> States]
  /\ agents \in [AgentIds -> Row]
  /\ rows \in [Kinds -> [AgentIds -> 0..MaxRows]]
  /\ grants \in [AgentIds -> SUBSET Registered]
  /\ \A c \in Callers : calls[c].read \in Chosen /\ calls[c].step \in 0..Len(DeletionSteps)

\* "An orphaned thread would fail only when someone tried to reply in it" (agents.go):
\* nothing live hangs on a deleted agent, and no live agent uses a deleted provider,
\* unless it was written after the deletion had counted.
Orphans ==
  {l \in Kinds \X AgentIds : agents[l[2]].state = "deleted" /\ rows[l[1]][l[2]] > 0}
    \cup {<<"grant", a>> : a \in {b \in AgentIds : agents[b].state = "deleted" /\ grants[b] # {}}}
    \cup {<<"agent", p>> : p \in {q \in Providers : providers[q] = "deleted" /\ AgentsOf(q) # {}}}
OnlyRacesOrphan == Orphans \subseteq late

\* Fields edited by calls that do not overlap are all kept, whichever each one gave.
EditsAreKept ==
  \A a \in AgentIds :
    (Live(a) /\ ~agents[a].mixed) => agents[a].chosen = Fields(agents[a])

\* Agents and providers, however creating, editing and deleting interleave.
CatalogueIsSound == TypeOK /\ OnlyRacesOrphan /\ EditsAreKept

\* An agent loses all its tools to a deletion only if nothing hung on it when that was
\* counted: a deletion that is refused has taken nothing.  And what was deleted stays
\* so, and as it was, whatever edit was under way.
DeletionIsFinal ==
  [][\A a \in AgentIds :
       /\ (calls' # calls /\ grants[a] # {} /\ grants'[a] = {}) =>
             \A k \in Kinds : rows[k][a] > 0 => <<k, a>> \in late
       /\ agents[a].state = "deleted" => agents'[a] = agents[a]]_vars

\* What the handlers know of the rows a call works on: the inductive strengthening of
\* the invariants above, with what a deletion has looked for and not found, or was
\* written since.
Ops == {"idle", "delete agent", "delete provider", "create", "find provider", "write", "insert", "grant"}
Call == [op : Ops, id : AgentIds \cup Providers \cup {None}, step : 0..Len(DeletionSteps),
         kind : Kinds \cup {None}, tool : Registered \cup {None}, provider : Providers \cup {None},
         policy : Policies \cup {None}, read : Chosen]
Fits(call) ==
  /\ call.op = "delete agent" =>
       /\ call.id \in AgentIds /\ agents[call.id].state # "unused"
       /\ call.step \in 1..Len(DeletionSteps)
  /\ call.op = "delete provider" => call.id \in Providers /\ call.step \in 1..2
  /\ call.op \in {"create", "find provider"} => call.provider \in Providers
  /\ call.op \in {"find provider", "write", "insert", "grant"} => call.id \in AgentIds
  /\ call.op = "insert" => call.kind \in Kinds
  /\ call.op = "grant" => call.tool \in Registered
CallsAreKnown == calls \in [Callers -> Call] /\ \A c \in Callers : Fits(calls[c])
Looked(d) ==
  LET owner == calls[d].id
  IN /\ At(d, "delete agent") =>
          /\ \A k \in Kinds : Passed(d, k) /\ rows[k][owner] > 0 => <<k, owner>> \in late
          /\ Passed(d, "revoke") /\ grants[owner] # {} => <<"grant", owner>> \in late
     /\ At(d, "delete provider") /\ calls[d].step = 2 /\ AgentsOf(owner) # {} =>
          <<"agent", owner>> \in late
DeletionsLooked == \A d \in Callers : Looked(d)
IInv == CatalogueIsSound /\ CallsAreKnown /\ DeletionsLooked

\* Nothing is left behind "that no interface can reach" (agents.go, DeleteAgent).
NoOrphans == Orphans = {}
================================================================================
