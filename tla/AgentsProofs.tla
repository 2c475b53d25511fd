----------------------------- MODULE AgentsProofs -----------------------------
(***************************************************************************)
(* Proofs about Agents for any providers, agents, tools and calls under    *)
(* way, and about AgentMemory for any threads, texts, budgets and edits.   *)
(*                                                                         *)
(* The deletions count one kind of row after the other and hold no         *)
(* lock: what makes IInv inductive is that a row written behind a count is *)
(* remembered in `late`, so what a deletion has passed is empty or late.   *)
(* An edit of an item writes back a whole row it read earlier: what        *)
(* makes MemoryIInv inductive is that it still has the row's origin, and   *)
(* that what a consolidation has been told of its thread stays so.  What a *)
(* block holds is what fits in turn (Selected), and only that              *)
(* (SelectionIsUnique): so a page tells what the turn sends.               *)
(***************************************************************************)
EXTENDS Agents, AgentMemory, FiniteLemmas, FiniteSetTheorems, SequenceTheorems, TLAPS

USE AgentAssumption DEF AgentAssumption

--------------------------------------------------------------------------------
(* The order of a deletion's statements.                                   *)

\* The counts come before the grants are revoked, and that before the agent goes.
LEMMA DeletionOrder ==
  /\ Len(DeletionSteps) = 5
  /\ DeletionSteps[1] = "conversation" /\ DeletionSteps[2] = "memory"
  /\ DeletionSteps[3] = "source" /\ DeletionSteps[4] = "revoke"
  /\ DeletionSteps[5] = "remove"
  BY DEF DeletionSteps

\* A deletion that reaches its revocation has counted every kind, and one that reaches
\* its last statement has revoked as well (DeleteAgent).
LEMMA DeletionHasLooked ==
  ASSUME NEW c \in Callers, calls[c].step \in 1..5
  PROVE  /\ Next1(c) \in Kinds => calls[c].step < 4
         /\ Next1(c) = "revoke" => calls[c].step = 4 /\ \A k \in Kinds : Passed(c, k)
         /\ Next1(c) = "remove" => /\ \A k \in Kinds : Passed(c, k)
                                   /\ Passed(c, "revoke")
  <1>1. Next1(c) \in Kinds => calls[c].step < 4
    BY DeletionOrder DEF Next1, Kinds
  <1>2. Next1(c) = "revoke" => calls[c].step = 4
    BY DeletionOrder DEF Next1
  <1>3. Next1(c) = "remove" => calls[c].step = 5
    BY DeletionOrder DEF Next1
  <1>4. calls[c].step \in 4..5 => \A k \in Kinds : Passed(c, k)
    BY DeletionOrder DEF Passed, Kinds
  <1>5. calls[c].step = 5 => Passed(c, "revoke")
    BY DeletionOrder DEF Passed
  <1> QED
    BY <1>1, <1>2, <1>3, <1>4, <1>5

\* The steps that are not the last one have a next one.
LEMMA StepNumbers ==
  /\ 1 # 2 /\ 1 + 1 = 2 /\ 1 \in 1..2 /\ 2 \in 1..2 /\ 2 \in 0..5 /\ 1 \in 1..5 /\ 1 \in 0..5
  /\ \A s \in 1..5 : s < 4 \/ s = 4 => s \in 1..4
  /\ \A s \in 1..4 : s + 1 \in 1..5 /\ s + 1 \in 0..5 /\ s \in 1..5
  OBVIOUS

\* The next statement passes what it looked for and nothing else.
LEMMA NextLooks ==
  ASSUME NEW c \in Callers, calls[c].step \in 1..5, calls[c]'.step = calls[c].step + 1,
         NEW k, Passed(c, k)'
  PROVE  Passed(c, k) \/ k = Next1(c)
  BY DeletionOrder DEF Passed, Next1

--------------------------------------------------------------------------------
(* The calls.                                                              *)

\* Beginning and ending a call touches no other call.
LEMMA CallChanges ==
  ASSUME calls \in [Callers -> Call], NEW c \in Callers, NEW call
  PROVE  /\ Begin(c, call) => calls'[c] = call
         /\ End(c) => calls'[c] = Idle
         /\ Begin(c, call) \/ End(c) =>
              /\ DOMAIN calls' = Callers
              /\ \A d \in Callers : d # c => calls'[d] = calls[d]
  BY DEF Begin, End

\* A call at rest is one of the calls.
LEMMA IdleIsACall == Idle \in Call /\ Fields(NoAgent) \in Chosen
  BY DeletionOrder DEF Idle, Call, Ops, Fields, NoAgent, NewAgent, Chosen, Policies

\* The part of the type invariant that is about calls.
LEMMA KnownCallsAreTyped ==
  CallsAreKnown =>
    \A c \in Callers : calls[c].read \in Chosen /\ calls[c].step \in 0..Len(DeletionSteps)
  BY DEF CallsAreKnown, Call

\* Nothing is there yet (the migrations create empty tables).
LEMMA InitIInv == Init => IInv
  <1> SUFFICES ASSUME Init PROVE IInv
    OBVIOUS
  <1>1. NoAgent \in Row /\ NoAgent.state = "unused"
    BY DEF NoAgent, NewAgent, Row, States, Chosen, Policies
  <1>2. CallsAreKnown
    BY IdleIsACall DEF Init, CallsAreKnown, Fits, Idle
  <1>3. TypeOK
    <2>1. agents \in [AgentIds -> Row]
      BY <1>1 DEF Init
    <2>2. rows \in [Kinds -> [AgentIds -> 0..MaxRows]]
      BY DEF Init
    <2> QED
      BY <1>2, <2>1, <2>2, KnownCallsAreTyped DEF Init, TypeOK, States
  <1>4. OnlyRacesOrphan
    BY <1>1 DEF Init, OnlyRacesOrphan, Orphans
  <1>5. EditsAreKept
    BY <1>1 DEF Init, EditsAreKept, Live
  <1>6. DeletionsLooked
    BY DEF Init, DeletionsLooked, Looked, At, Idle
  <1> QED
    BY <1>2, <1>3, <1>4, <1>5, <1>6 DEF IInv, CatalogueIsSound
--------------------------------------------------------------------------------
(* What a step does to the agents.                                         *)

\* A row of an agent stays one, an agent never becomes unused again, and one that was
\* deleted is left as it was, by whatever edit was under way (UpdateAgent).
LEMMA AgentsStep ==
  ASSUME IInv, [Next]_vars
  PROVE  /\ agents' \in [AgentIds -> Row]
         /\ \A a \in AgentIds :
              /\ agents[a].state # "unused" => agents'[a].state # "unused"
              /\ agents[a].state = "deleted" => agents'[a] = agents[a]
  <1> USE DEF IInv, CatalogueIsSound
  <1>0. agents \in [AgentIds -> Row] /\ \A c \in Callers : calls[c] \in Call /\ Fits(calls[c])
    BY DEF TypeOK, CallsAreKnown
  <1>1. ASSUME NEW c \in Callers, InsertAgent(c)
        PROVE  /\ agents' \in [AgentIds -> Row]
               /\ \A a \in AgentIds : agents[a].state # "unused" => agents'[a] = agents[a]
    <2>1. PICK a \in AgentIds : agents[a].state = "unused" /\
                                agents' = [agents EXCEPT ![a] = NewAgent(calls[c].provider)]
      BY <1>1 DEF InsertAgent
    <2>2. calls[c].provider \in Providers
      BY <1>0, <1>1 DEF InsertAgent, At, Fits
    <2>3. NewAgent(calls[c].provider) \in Row
      BY <2>2 DEF NewAgent, Row, States, Chosen, Policies
    <2> QED
      BY <1>0, <2>1, <2>3
  <1>2. ASSUME NEW c \in Callers, WriteAgent(c)
        PROVE  /\ agents' \in [AgentIds -> Row]
               /\ \A a \in AgentIds :
                    /\ agents[a].state # "live" => agents'[a] = agents[a]
                    /\ agents[a].state = "live" => agents'[a].state = "live"
    <2> DEFINE a == calls[c].id
    <2>1. a \in AgentIds /\ Edited(calls[c]) \in Chosen
      BY <1>0, <1>2 DEF WriteAgent, At, Fits, Edited, Given, Call, Chosen, None, Policies
    <2>2. CASE agents' = agents
      BY <1>0, <2>2
    <2>3. CASE agents' # agents
      <3>1. PICK row : /\ agents' = [agents EXCEPT ![a] = row] /\ row.state = "live"
                       /\ row \in Row /\ agents[a].state = "live"
        <4> DEFINE mixed == agents[a].mixed \/ Fields(agents[a]) # calls[c].read
                   kept == [provider |-> Given(calls[c].provider, agents[a].chosen.provider),
                            policy |-> Given(calls[c].policy, agents[a].chosen.policy)]
                   row == [state |-> "live", provider |-> Edited(calls[c]).provider,
                           policy |-> Edited(calls[c]).policy,
                           chosen |-> IF mixed THEN Edited(calls[c]) ELSE kept,
                           mixed |-> mixed]
        <4>1. agents[a] \in Row /\ agents[a].chosen \in Chosen /\ agents[a].mixed \in BOOLEAN
          BY <1>0, <2>1 DEF Row
        <4>2. kept \in Chosen
          BY <1>0, <4>1 DEF Given, Call, Chosen, None, Policies
        <4>3. mixed \in BOOLEAN
          BY <4>1
        <4>4. /\ Edited(calls[c]).provider \in Providers \cup {None}
              /\ Edited(calls[c]).policy \in Policies
          BY <2>1 DEF Chosen
        <4>5. row \in Row /\ row.state = "live"
          <5> HIDE DEF kept, mixed
          <5> QED
            BY <2>1, <4>2, <4>3, <4>4 DEF Row, States
        <4>6. agents' = [agents EXCEPT ![a] = row] /\ agents[a].state = "live"
          BY <1>2, <2>3 DEF WriteAgent, Updatable, Live
        <4> QED
          BY <4>5, <4>6
      <3> QED
        BY <1>0, <2>1, <3>1
    <2> QED
      BY <2>2, <2>3
  <1>3. ASSUME NEW c \in Callers, SoftDeleteAgent(c)
        PROVE  /\ agents' \in [AgentIds -> Row]
               /\ \A a \in AgentIds :
                    /\ agents[a].state # "unused" => agents'[a].state # "unused"
                    /\ agents[a].state = "deleted" => agents'[a] = agents[a]
    <2>1. calls[c].id \in AgentIds /\ agents[calls[c].id] \in Row
      BY <1>0, <1>3 DEF SoftDeleteAgent, At, Fits
    <2>2. [agents[calls[c].id] EXCEPT !.state = "deleted"] \in Row
      BY <2>1 DEF Row, States
    <2>3. agents[calls[c].id].state = "deleted" =>
            [agents[calls[c].id] EXCEPT !.state = "deleted"] = agents[calls[c].id]
      BY <2>1 DEF Row
    <2> QED
      BY <1>0, <1>3, <2>1, <2>2, <2>3 DEF SoftDeleteAgent, Row
  <1>4. CASE UNCHANGED agents
    BY <1>0, <1>4
  <1> QED
    BY <1>1, <1>2, <1>3, <1>4 DEF Next, vars, CreateProvider, DeleteRow, RevokeTool,
       DeleteAgent, CountDependents, RevokeAll, DeleteProvider, CountAgents,
       SoftDeleteProvider, CreateAgent, UpdateAgent, FindProvider, CreateRow, InsertRow,
       AuthorizeTool, Authorize, Fail
--------------------------------------------------------------------------------
(* What a step does to the calls.                                          *)

\* A step that replaces one call by one that knows its rows leaves every call so.
LEMMA OneCallChanges ==
  ASSUME IInv, [Next]_vars, NEW c \in Callers, NEW call \in Call,
         calls' = [calls EXCEPT ![c] = call], Fits(call)'
  PROVE  CallsAreKnown'
  <1>1. ASSUME NEW d \in Callers PROVE Fits(calls[d])'
    <2>1. CASE d = c
      BY <2>1 DEF IInv, CallsAreKnown, Fits
    <2>2. CASE d # c
      <3>1. calls'[d] = calls[d] /\ Fits(calls[d])
        BY <2>2 DEF IInv, CallsAreKnown
      <3> QED
        BY <3>1, AgentsStep DEF Fits
    <2> QED
      BY <2>1, <2>2
  <1> QED
    BY <1>1 DEF IInv, CallsAreKnown

\* Every handler works on an agent, a provider, a kind and a tool it has looked up.
LEMMA CallsStep == ASSUME IInv, [Next]_vars PROVE CallsAreKnown'
  <1>0. /\ agents \in [AgentIds -> Row]
        /\ calls \in [Callers -> Call] /\ \A c \in Callers : Fits(calls[c])
    BY DEF IInv, CatalogueIsSound, TypeOK, CallsAreKnown
  <1> USE DEF At, Begin
  <1>1. ASSUME NEW c \in Callers, End(c) PROVE CallsAreKnown'
    BY <1>1, IdleIsACall, OneCallChanges DEF End, Fits, Idle
  <1>2. ASSUME NEW c \in Callers, DeleteAgent(c) PROVE CallsAreKnown'
    <2>1. PICK a, call :
            /\ a \in AgentIds
            /\ Live(a) /\ call = [Idle EXCEPT !.op = "delete agent", !.id = a, !.step = 1]
            /\ calls' = [calls EXCEPT ![c] = call]
      BY <1>2 DEF DeleteAgent
    <2>a. 1 \in 0..Len(DeletionSteps)
      BY DeletionOrder
    <2>2. call \in Call /\ call.op = "delete agent" /\ call.id = a /\ call.step = 1
      BY <2>1, <2>a, IdleIsACall DEF Idle, Call, Ops
    <2>3. Fits(call)'
      BY <1>2, <2>1, <2>2, DeletionOrder DEF Fits, Live, DeleteAgent
    <2> QED
      BY <2>1, <2>2, <2>3, OneCallChanges
  <1>3. ASSUME NEW c \in Callers, CountDependents(c) \/ RevokeAll(c) \/ CountAgents(c),
               ~End(c)
        PROVE  CallsAreKnown'
    <2>1. PICK call : /\ call = [calls[c] EXCEPT !.step = @ + 1]
                      /\ calls' = [calls EXCEPT ![c] = call]
      <3>1. CountAgents(c) => calls[c].step + 1 = 2
        BY StepNumbers DEF CountAgents
      <3> QED
        BY <1>3, <3>1 DEF CountDependents, RevokeAll, CountAgents
    <2>2. /\ calls[c].op = "delete agent" => calls[c].step \in 1..4
          /\ calls[c].op = "delete provider" => calls[c].step = 1
          /\ calls[c].op \in {"delete agent", "delete provider"}
      <3>1. CASE CountAgents(c)
        BY <3>1, StepNumbers DEF CountAgents
      <3>2. CASE CountDependents(c) \/ RevokeAll(c)
        <4>1. calls[c].op = "delete agent" /\ calls[c].step \in 1..5
          BY <1>0, <3>2, DeletionOrder DEF Fits, CountDependents, RevokeAll
        <4>2. calls[c].step < 4 \/ calls[c].step = 4
          BY <3>2, <4>1, DeletionHasLooked DEF CountDependents, RevokeAll
        <4>3. calls[c].step \in 1..4
          BY <4>1, <4>2, StepNumbers
        <4> QED
          BY <4>1, <4>3
      <3> QED
        BY <1>3, <3>1, <3>2
    <2>a. calls[c].step + 1 \in 0..Len(DeletionSteps)
      BY <2>2, DeletionOrder, StepNumbers
    <2>3. /\ call \in Call /\ call.op = calls[c].op /\ call.id = calls[c].id
          /\ call.step = calls[c].step + 1
      <3>1. calls[c] \in Call
        BY <1>0
      <3> QED
        BY <2>1, <2>a, <3>1 DEF Call
    <2>4. Fits(call)'
      <3>1. Fits(calls[c])
        BY <1>0
      <3>2. call.op = "delete agent" => call.step \in 1..5
        BY <2>2, <2>3, StepNumbers
      <3>3. call.op = "delete provider" => call.step \in 1..2
        BY <2>2, <2>3, StepNumbers
      <3> QED
        BY <2>2, <2>3, <3>1, <3>2, <3>3, AgentsStep, DeletionOrder DEF Fits
    <2> QED
      BY <2>1, <2>3, <2>4, OneCallChanges
  <1>4. ASSUME NEW c \in Callers, DeleteProvider(c) PROVE CallsAreKnown'
    <2>1. PICK p, call :
            /\ p \in Providers
            /\ call = [Idle EXCEPT !.op = "delete provider", !.id = p, !.step = 1]
            /\ calls' = [calls EXCEPT ![c] = call]
      BY <1>4 DEF DeleteProvider
    <2>a. 1 \in 0..Len(DeletionSteps)
      BY DeletionOrder
    <2>2. call \in Call /\ call.op = "delete provider" /\ call.id = p /\ call.step = 1
      BY <2>1, <2>a, IdleIsACall DEF Idle, Call, Ops
    <2>3. Fits(call)'
      BY <2>1, <2>2, StepNumbers DEF Fits
    <2> QED
      BY <2>1, <2>2, <2>3, OneCallChanges
  <1>5. ASSUME NEW c \in Callers, CreateAgent(c) PROVE CallsAreKnown'
    <2>1. PICK p, call :
            /\ p \in Providers
            /\ call = [Idle EXCEPT !.op = "create", !.provider = p]
            /\ calls' = [calls EXCEPT ![c] = call]
      BY <1>5 DEF CreateAgent
    <2>2. call \in Call /\ call.op = "create" /\ call.provider = p
      BY <2>1, IdleIsACall DEF Idle, Call, Ops
    <2> QED
      BY <2>1, <2>2, OneCallChanges DEF Fits
  <1>6. ASSUME NEW c \in Callers, UpdateAgent(c) PROVE CallsAreKnown'
    <2>0. PICK a \in AgentIds, p \in Providers \cup {None}, m \in Policies \cup {None} :
            calls' = [calls EXCEPT ![c] =
              [Idle EXCEPT !.op = IF p = None THEN "write" ELSE "find provider", !.id = a,
                           !.provider = p, !.policy = m, !.read = Fields(agents[a])]]
      BY <1>6 DEF UpdateAgent
    <2>1. PICK call :
            /\ call = [Idle EXCEPT !.op = IF p = None THEN "write" ELSE "find provider", !.id = a,
                                   !.provider = p, !.policy = m, !.read = Fields(agents[a])]
            /\ calls' = [calls EXCEPT ![c] = call]
      BY <2>0
    <2>2. Fields(agents[a]) \in Chosen
      <3>1. agents[a] \in Row
        BY <1>0
      <3> QED
        BY <3>1 DEF Row, Fields, Chosen
    <2>3. call \in Call /\ call.id = a /\ call.provider = p
          /\ call.op = IF p = None THEN "write" ELSE "find provider"
      BY <2>1, <2>2, IdleIsACall DEF Idle, Call, Ops
    <2>4. Fits(call)'
      BY <2>3 DEF Fits
    <2> QED
      BY <2>1, <2>3, <2>4, OneCallChanges
  <1>7. ASSUME NEW c \in Callers, FindProvider(c), ~End(c) PROVE CallsAreKnown'
    <2>1. PICK call : /\ call = [calls[c] EXCEPT !.op = "write"]
                      /\ calls' = [calls EXCEPT ![c] = call]
      BY <1>7 DEF FindProvider
    <2>2. calls[c] \in Call /\ calls[c].id \in AgentIds
      BY <1>0, <1>7 DEF FindProvider, Fits
    <2>3. call \in Call /\ call.op = "write" /\ call.id = calls[c].id
      BY <2>1, <2>2 DEF Call, Ops
    <2>4. Fits(call)'
      BY <2>2, <2>3 DEF Fits
    <2> QED
      BY <2>1, <2>3, <2>4, OneCallChanges
  <1>8. ASSUME NEW c \in Callers, CreateRow(c) PROVE CallsAreKnown'
    <2>1. PICK a, k, call :
            /\ a \in AgentIds /\ k \in Kinds
            /\ call = [Idle EXCEPT !.op = "insert", !.id = a, !.kind = k]
            /\ calls' = [calls EXCEPT ![c] = call]
      BY <1>8 DEF CreateRow
    <2>2. call \in Call /\ call.op = "insert" /\ call.id = a /\ call.kind = k
      BY <2>1, IdleIsACall DEF Idle, Call, Ops
    <2> QED
      BY <2>1, <2>2, OneCallChanges DEF Fits
  <1>9. ASSUME NEW c \in Callers, AuthorizeTool(c) PROVE CallsAreKnown'
    <2>1. PICK a, t, call :
            /\ a \in AgentIds /\ t \in Registered
            /\ call = [Idle EXCEPT !.op = "grant", !.id = a, !.tool = t]
            /\ calls' = [calls EXCEPT ![c] = call]
      BY <1>9 DEF AuthorizeTool, Lookup
    <2>2. call \in Call /\ call.op = "grant" /\ call.id = a /\ call.tool = t
      BY <2>1, IdleIsACall DEF Idle, Call, Ops
    <2> QED
      BY <2>1, <2>2, OneCallChanges DEF Fits
  <1>10. CASE UNCHANGED calls
    BY <1>0, <1>10, AgentsStep DEF CallsAreKnown, Fits
  <1> QED
    BY <1>1, <1>2, <1>3, <1>4, <1>5, <1>6, <1>7, <1>8, <1>9, <1>10
       DEF Next, vars, CreateProvider, DeleteRow, RevokeTool, SoftDeleteAgent,
           SoftDeleteProvider, InsertAgent, WriteAgent, InsertRow, Authorize, Fail
--------------------------------------------------------------------------------
(* What is left behind.                                                    *)

\* Beside each live agent of a deleted provider, and each row or grant of a deleted
\* agent, there is the note of a race: OnlyRacesOrphan, part by part.
RowsAreLate ==
  \A k \in Kinds, a \in AgentIds : agents[a].state = "deleted" /\ rows[k][a] > 0 => <<k, a>> \in late
GrantsAreLate ==
  \A a \in AgentIds : agents[a].state = "deleted" /\ grants[a] # {} => <<"grant", a>> \in late
AgentsAreLate ==
  \A p \in Providers : providers[p] = "deleted" /\ AgentsOf(p) # {} => <<"agent", p>> \in late
LEMMA OrphansAreLate == OnlyRacesOrphan <=> RowsAreLate /\ GrantsAreLate /\ AgentsAreLate
  <1>1. \A k \in Kinds, a \in AgentIds :
          <<k, a>> \in Kinds \X AgentIds /\ <<k, a>>[1] = k /\ <<k, a>>[2] = a
    OBVIOUS
  <1>2. {l \in Kinds \X AgentIds : agents[l[2]].state = "deleted" /\ rows[l[1]][l[2]] > 0} \subseteq late
          <=> RowsAreLate
    <2>1. ASSUME RowsAreLate, NEW l \in Kinds \X AgentIds,
                 agents[l[2]].state = "deleted", rows[l[1]][l[2]] > 0
          PROVE  l \in late
      <3>1. l = <<l[1], l[2]>> /\ l[1] \in Kinds /\ l[2] \in AgentIds
        BY <2>1
      <3> QED
        BY <2>1, <3>1 DEF RowsAreLate
    <2> QED
      BY <1>1, <2>1 DEF RowsAreLate
  <1> QED
    BY <1>2 DEF OnlyRacesOrphan, Orphans, GrantsAreLate, AgentsAreLate

\* The steps that concern neither what hangs on an agent nor a deletion.
LEMMA DeletionOfAnother ==
  ASSUME NEW d, calls'[d] = calls[d]
  PROVE  \A k : Passed(d, k)' <=> Passed(d, k)
  BY DEF Passed

\* A deletion that begins has looked for nothing yet.
LEMMA NothingLooked ==
  ASSUME NEW c, calls'[c].step = 1, NEW k \in Kinds \cup {"revoke"}
  PROVE  ~Passed(c, k)'
  BY DeletionOrder DEF Passed, Kinds

\* A step that touches one call and no row, and leaves that call with the truth about
\* what it looked for.
LEMMA CallsOnly ==
  ASSUME IInv, NEW c \in Callers, UNCHANGED <<providers, agents, rows, grants, late>>,
         \A d \in Callers : d # c => calls'[d] = calls[d], Looked(c)'
  PROVE  DeletionsLooked' /\ OnlyRacesOrphan'
  <1>1. ASSUME NEW d \in Callers, d # c PROVE Looked(d)'
    <2>1. Looked(d) /\ calls'[d] = calls[d] /\ \A k : Passed(d, k)' <=> Passed(d, k)
      BY <1>1, DeletionOfAnother DEF IInv, DeletionsLooked
    <2> QED
      BY <2>1 DEF Looked, At, AgentsOf, Live
  <1>2. OnlyRacesOrphan'
    BY DEF IInv, CatalogueIsSound, OnlyRacesOrphan, Orphans, AgentsOf, Live
  <1> QED
    BY <1>1, <1>2 DEF DeletionsLooked

\* A call that is not a deletion has nothing to know of what was looked for.
LEMMA NoDeletion ==
  ASSUME NEW c, calls'[c].op \notin {"delete agent", "delete provider"}
  PROVE  Looked(c)'
  BY DEF Looked, At

\* Calls that begin, count or look something up tell the truth about what they saw.
LEMMA CountsStep ==
  ASSUME IInv, NEW c \in Callers,
         \/ DeleteAgent(c) \/ CountDependents(c) \/ DeleteProvider(c) \/ CountAgents(c)
         \/ CreateAgent(c) \/ UpdateAgent(c) \/ FindProvider(c) \/ CreateRow(c)
         \/ AuthorizeTool(c) \/ Fail(c)
  PROVE  DeletionsLooked' /\ OnlyRacesOrphan'
  <1>0. calls \in [Callers -> Call] /\ Fits(calls[c]) /\ Looked(c)
    BY DEF IInv, CallsAreKnown, DeletionsLooked
  <1>a. UNCHANGED <<providers, agents, rows, grants, late>>
    BY DEF DeleteAgent, CountDependents, DeleteProvider, CountAgents, CreateAgent, UpdateAgent,
           FindProvider, CreateRow, AuthorizeTool, Fail
  <1>1. CASE End(c)
    <2>1. calls'[c] = Idle /\ \A d \in Callers : d # c => calls'[d] = calls[d]
      BY <1>0, <1>1, CallChanges
    <2>2. calls'[c].op = "idle"
      BY <2>1 DEF Idle
    <2>3. Looked(c)'
      BY <2>2, NoDeletion
    <2> QED
      BY <1>a, <2>1, <2>3, CallsOnly
  <1>2. ASSUME NEW call, Begin(c, call),
               call.op \notin {"delete agent", "delete provider"}
        PROVE  DeletionsLooked' /\ OnlyRacesOrphan'
    BY <1>0, <1>2, CallChanges, NoDeletion, <1>a, CallsOnly
  <1>3. CASE CreateAgent(c) \/ UpdateAgent(c) \/ CreateRow(c) \/ AuthorizeTool(c)
    <2>1. ASSUME CreateAgent(c) PROVE DeletionsLooked' /\ OnlyRacesOrphan'
      <3>1. PICK p \in Providers : Begin(c, [Idle EXCEPT !.op = "create", !.provider = p])
        BY <2>1 DEF CreateAgent
      <3> QED
        BY <1>2, <3>1 DEF Idle
    <2>2. ASSUME UpdateAgent(c) PROVE DeletionsLooked' /\ OnlyRacesOrphan'
      <3>1. PICK a \in AgentIds, p \in Providers \cup {None}, m \in Policies \cup {None} :
              Begin(c, [Idle EXCEPT !.op = IF p = None THEN "write" ELSE "find provider", !.id = a,
                                    !.provider = p, !.policy = m, !.read = Fields(agents[a])])
        BY <2>2 DEF UpdateAgent
      <3> QED
        BY <1>2, <3>1 DEF Idle
    <2>3. ASSUME CreateRow(c) PROVE DeletionsLooked' /\ OnlyRacesOrphan'
      <3>1. PICK a \in AgentIds, k \in Kinds : Begin(c, [Idle EXCEPT !.op = "insert", !.id = a, !.kind = k])
        BY <2>3 DEF CreateRow
      <3> QED
        BY <1>2, <3>1 DEF Idle
    <2>4. ASSUME AuthorizeTool(c) PROVE DeletionsLooked' /\ OnlyRacesOrphan'
      <3>1. PICK a \in AgentIds, t \in Lookup : Begin(c, [Idle EXCEPT !.op = "grant", !.id = a, !.tool = t])
        BY <2>4 DEF AuthorizeTool
      <3> QED
        BY <1>2, <3>1 DEF Idle
    <2> QED
      BY <1>3, <2>1, <2>2, <2>3, <2>4
  <1>4. CASE DeleteAgent(c) \/ DeleteProvider(c)
    <2>1. /\ calls'[c].op \in {"delete agent", "delete provider"} /\ calls'[c].step = 1
          /\ \A d \in Callers : d # c => calls'[d] = calls[d]
      <3>1. CASE DeleteAgent(c)
        <4>1. PICK a \in AgentIds : Begin(c, [Idle EXCEPT !.op = "delete agent", !.id = a, !.step = 1])
          BY <3>1 DEF DeleteAgent
        <4> QED
          BY <1>0, <4>1, CallChanges DEF Idle
      <3>2. CASE DeleteProvider(c)
        <4>1. PICK p \in Providers : Begin(c, [Idle EXCEPT !.op = "delete provider", !.id = p, !.step = 1])
          BY <3>2 DEF DeleteProvider
        <4> QED
          BY <1>0, <4>1, CallChanges DEF Idle
      <3> QED
        BY <1>4, <3>1, <3>2
    <2>2. Looked(c)'
      <3>1. \A k \in Kinds \cup {"revoke"} : ~Passed(c, k)'
        BY <2>1, NothingLooked
      <3> QED
        BY <2>1, <3>1, StepNumbers DEF Looked
    <2> QED
      BY <2>1, <2>2, <1>a, CallsOnly
  <1>5. CASE FindProvider(c)
    <2>1. CASE ~End(c)
      <3>1. calls'[c].op = "write" /\ \A d \in Callers : d # c => calls'[d] = calls[d]
        <4>1. calls[c] \in Call
          BY <1>0
        <4> QED
          BY <1>0, <1>5, <2>1, <4>1 DEF FindProvider, Call
      <3> QED
        BY <3>1, NoDeletion, <1>a, CallsOnly
    <2> QED
      BY <1>1, <2>1
  <1>6. CASE CountDependents(c)
    <2>1. CASE ~End(c)
      <3>1. /\ calls[c].op = "delete agent" /\ calls[c].step \in 1..5 /\ calls[c].id \in AgentIds
            /\ Next1(c) \in Kinds /\ ~(rows[Next1(c)][calls[c].id] > 0)
            /\ calls' = [calls EXCEPT ![c].step = @ + 1]
        BY <1>0, <1>6, <2>1, DeletionOrder DEF CountDependents, At, Fits
      <3>2. /\ calls'[c].op = "delete agent" /\ calls'[c].step = calls[c].step + 1
            /\ calls'[c].id = calls[c].id
            /\ \A d \in Callers : d # c => calls'[d] = calls[d]
        <4>1. calls[c] \in Call
          BY <1>0
        <4> QED
          BY <1>0, <3>1, <4>1 DEF Call
      <3>3. \A k : Passed(c, k)' => Passed(c, k) \/ k = Next1(c)
        BY <3>1, <3>2, NextLooks
      <3>4. "revoke" \notin Kinds
        BY DEF Kinds
      <3>5. Looked(c)'
        <4>1. ASSUME NEW k \in Kinds, Passed(c, k)', rows'[k][calls'[c].id] > 0
              PROVE  <<k, calls'[c].id>> \in late'
          <5>1. rows' = rows /\ late' = late /\ calls'[c].id = calls[c].id
            BY <1>a, <3>2
          <5>2. k # Next1(c)
            BY <3>1, <4>1, <5>1
          <5>3. Passed(c, k) /\ rows[k][calls[c].id] > 0
            BY <3>3, <4>1, <5>1, <5>2
          <5>4. <<k, calls[c].id>> \in late
            BY <1>0, <3>1, <5>3 DEF Looked, At
          <5> QED
            BY <5>1, <5>4
        <4>2. Passed(c, "revoke")' /\ grants'[calls'[c].id] # {} => <<"grant", calls'[c].id>> \in late'
          <5>1. grants' = grants /\ late' = late /\ calls'[c].id = calls[c].id
            BY <1>a, <3>2
          <5>2. Passed(c, "revoke")' => Passed(c, "revoke")
            BY <3>1, <3>3, <3>4
          <5>3. Passed(c, "revoke") /\ grants[calls[c].id] # {} => <<"grant", calls[c].id>> \in late
            BY <1>0, <3>1 DEF Looked, At
          <5> QED
            BY <5>1, <5>2, <5>3
        <4> QED
          BY <3>1, <3>2, <4>1, <4>2 DEF Looked, At
      <3> QED
        BY <3>2, <3>5, <1>a, CallsOnly
    <2> QED
      BY <1>1, <2>1
  <1>7. CASE CountAgents(c)
    <2>1. CASE ~End(c)
      <3>1. /\ calls[c].op = "delete provider" /\ AgentsOf(calls[c].id) = {}
            /\ calls' = [calls EXCEPT ![c].step = 2]
        BY <1>7, <2>1 DEF CountAgents, At
      <3>2. /\ calls'[c].op = "delete provider" /\ calls'[c].id = calls[c].id
            /\ \A d \in Callers : d # c => calls'[d] = calls[d]
        <4>1. calls[c] \in Call
          BY <1>0
        <4> QED
          BY <1>0, <3>1, <4>1 DEF Call
      <3>3. \A p : AgentsOf(p)' = AgentsOf(p)
        BY <1>a DEF AgentsOf, Live
      <3>4. Looked(c)'
        BY <3>1, <3>2, <3>3 DEF Looked, At
      <3> QED
        BY <3>2, <3>4, <1>a, CallsOnly
    <2> QED
      BY <1>1, <2>1
  <1> QED
    BY <1>1, <1>3, <1>4, <1>5, <1>6, <1>7 DEF Fail

\* A step that writes rows or grants notes the ones no deletion counted: what a
\* deletion has passed is still empty or late (Slip).
LEMMA RowsWritten ==
  ASSUME IInv, UNCHANGED <<providers, agents>>,
         \A d \in Callers : calls'[d] = calls[d] \/ Looked(d)',
         \A k \in Kinds, a \in AgentIds : rows'[k][a] > 0 =>
           \/ rows[k][a] > 0 /\ (<<k, a>> \in late => <<k, a>> \in late')
           \/ Uncounted(k, a) => <<k, a>> \in late',
         \A a \in AgentIds : grants'[a] # {} =>
           \/ grants[a] # {} /\ (<<"grant", a>> \in late => <<"grant", a>> \in late')
           \/ Uncounted("revoke", a) => <<"grant", a>> \in late',
         \A p \in Providers : <<"agent", p>> \in late => <<"agent", p>> \in late'
  PROVE  DeletionsLooked' /\ OnlyRacesOrphan'
  <1>0. /\ \A c \in Callers : Fits(calls[c]) /\ Looked(c)
        /\ RowsAreLate /\ GrantsAreLate /\ AgentsAreLate
    BY OrphansAreLate DEF IInv, CatalogueIsSound, CallsAreKnown, DeletionsLooked
  <1>1. \A p : AgentsOf(p)' = AgentsOf(p)
    BY DEF AgentsOf, Live
  <1>2. ASSUME NEW d \in Callers PROVE Looked(d)'
    <2>1. CASE calls'[d] = calls[d]
      <3>1. \A k : Passed(d, k)' <=> Passed(d, k)
        BY <2>1, DeletionOfAnother
      <3>2. ASSUME At(d, "delete agent"), NEW k \in Kinds, Passed(d, k), rows'[k][calls[d].id] > 0
            PROVE  <<k, calls[d].id>> \in late'
        <4>1. calls[d].id \in AgentIds
          BY <1>0, <3>2 DEF Fits, At
        <4>2. Uncounted(k, calls[d].id)
          BY <3>2 DEF Uncounted
        <4>3. rows[k][calls[d].id] > 0 => <<k, calls[d].id>> \in late
          BY <1>0, <3>2 DEF Looked
        <4> QED
          BY <3>2, <4>1, <4>2, <4>3
      <3>3. ASSUME At(d, "delete agent"), Passed(d, "revoke"), grants'[calls[d].id] # {}
            PROVE  <<"grant", calls[d].id>> \in late'
        <4>1. calls[d].id \in AgentIds
          BY <1>0, <3>3 DEF Fits, At
        <4>2. Uncounted("revoke", calls[d].id)
          BY <3>3 DEF Uncounted
        <4>3. grants[calls[d].id] # {} => <<"grant", calls[d].id>> \in late
          BY <1>0, <3>3 DEF Looked
        <4> QED
          BY <3>3, <4>1, <4>2, <4>3
      <3>4. ASSUME At(d, "delete provider"), calls[d].step = 2, AgentsOf(calls[d].id) # {}
            PROVE  <<"agent", calls[d].id>> \in late'
        <4>1. calls[d].id \in Providers
          BY <1>0, <3>4 DEF Fits, At
        <4>2. <<"agent", calls[d].id>> \in late
          BY <1>0, <3>4 DEF Looked
        <4> QED
          BY <4>1, <4>2
      <3> QED
        BY <2>1, <1>1, <3>1, <3>2, <3>3, <3>4 DEF Looked, At
    <2> QED
      BY <2>1
  <1>3. RowsAreLate'
    BY <1>0 DEF RowsAreLate, Uncounted
  <1>4. GrantsAreLate'
    BY <1>0 DEF GrantsAreLate, Uncounted
  <1>5. AgentsAreLate'
    BY <1>0, <1>1 DEF AgentsAreLate
  <1>6. OnlyRacesOrphan'
    <2>1. (RowsAreLate /\ GrantsAreLate /\ AgentsAreLate => OnlyRacesOrphan)'
      BY OrphansAreLate, PTL
    <2> QED
      BY <1>3, <1>4, <1>5, <2>1
  <1> QED
    BY <1>2, <1>6 DEF DeletionsLooked

\* A step that writes agents or providers notes an agent no deletion of its provider
\* counted, and deletes only what its own deletion has looked at.
LEMMA AgentsWritten ==
  ASSUME IInv, UNCHANGED <<rows, grants>>, late \subseteq late',
         \A d \in Callers : calls'[d] = calls[d] \/ Looked(d)',
         \A a \in AgentIds : agents'[a].state = "deleted" =>
           \/ agents[a].state = "deleted"
           \/ /\ \A k \in Kinds : rows[k][a] > 0 => <<k, a>> \in late
              /\ grants[a] # {} => <<"grant", a>> \in late,
         \A p \in Providers : AgentsOf(p)' # {} =>
           AgentsOf(p) # {} \/ (Unwatched(p) => <<"agent", p>> \in late'),
         \A p \in Providers : providers'[p] = "deleted" =>
           providers[p] = "deleted" \/ (AgentsOf(p)' # {} => <<"agent", p>> \in late')
  PROVE  DeletionsLooked' /\ OnlyRacesOrphan'
  <1>0. /\ \A c \in Callers : Fits(calls[c]) /\ Looked(c)
        /\ RowsAreLate /\ GrantsAreLate /\ AgentsAreLate
    BY OrphansAreLate DEF IInv, CatalogueIsSound, CallsAreKnown, DeletionsLooked
  <1>2. ASSUME NEW d \in Callers PROVE Looked(d)'
    <2>1. CASE calls'[d] = calls[d]
      <3>1. \A k : Passed(d, k)' <=> Passed(d, k)
        BY <2>1, DeletionOfAnother
      <3>2. ASSUME At(d, "delete agent")
            PROVE  /\ \A k \in Kinds : Passed(d, k) /\ rows'[k][calls[d].id] > 0 =>
                                        <<k, calls[d].id>> \in late'
                   /\ Passed(d, "revoke") /\ grants'[calls[d].id] # {} =>
                        <<"grant", calls[d].id>> \in late'
        BY <1>0, <3>2 DEF Looked
      <3>3. ASSUME At(d, "delete provider"), calls[d].step = 2, NEW p, p = calls[d].id,
                   AgentsOf(p)' # {}
            PROVE  <<"agent", p>> \in late'
        <4>1. p \in Providers /\ Unwatched(p)
          BY <1>0, <3>3 DEF Fits, At, Unwatched
        <4>2. AgentsOf(p) # {} => <<"agent", p>> \in late
          BY <1>0, <3>3 DEF Looked
        <4> QED
          BY <3>3, <4>1, <4>2
      <3> QED
        BY <2>1, <3>1, <3>2, <3>3 DEF Looked, At
    <2> QED
      BY <2>1
  <1>3. RowsAreLate'
    BY <1>0 DEF RowsAreLate
  <1>4. GrantsAreLate'
    BY <1>0 DEF GrantsAreLate
  <1>5. AgentsAreLate'
    BY <1>0 DEF AgentsAreLate, Unwatched
  <1>6. OnlyRacesOrphan'
    <2>1. (RowsAreLate /\ GrantsAreLate /\ AgentsAreLate => OnlyRacesOrphan)'
      BY OrphansAreLate, PTL
    <2> QED
      BY <1>3, <1>4, <1>5, <2>1
  <1> QED
    BY <1>2, <1>6 DEF DeletionsLooked

\* The statements that write rows or grants.
LEMMA RowsStep ==
  ASSUME IInv,
         \/ DeleteRow \/ RevokeTool
         \/ \E c \in Callers : RevokeAll(c) \/ InsertRow(c) \/ Authorize(c)
  PROVE  DeletionsLooked' /\ OnlyRacesOrphan'
  <1>0. /\ calls \in [Callers -> Call]
        /\ \A c \in Callers : Fits(calls[c]) /\ Looked(c)
        /\ rows \in [Kinds -> [AgentIds -> 0..MaxRows]]
        /\ grants \in [AgentIds -> SUBSET Registered]
    BY DEF IInv, CatalogueIsSound, TypeOK, CallsAreKnown, DeletionsLooked
  <1>1. ASSUME NEW c \in Callers, End(c)
        PROVE  \A d \in Callers : calls'[d] = calls[d] \/ Looked(d)'
    <2>1. calls'[c] = Idle /\ \A d \in Callers : d # c => calls'[d] = calls[d]
      BY <1>0, <1>1, CallChanges
    <2>2. calls'[c].op = "idle"
      BY <2>1 DEF Idle
    <2> QED
      BY <2>1, <2>2, NoDeletion
  <1>2. "grant" \notin Kinds /\ "agent" \notin Kinds /\ "revoke" \notin Kinds /\ "agent" # "grant"
    BY DEF Kinds
  <1>3. CASE DeleteRow
    <2>1. PICK b \in AgentIds, j \in Kinds :
            /\ rows[j][b] > 0
            /\ rows' = [rows EXCEPT ![j][b] = @ - 1]
            /\ late' = IF rows[j][b] = 1 THEN late \ {<<j, b>>} ELSE late
      BY <1>3 DEF DeleteRow
    <2>2. ASSUME NEW k \in Kinds, NEW a \in AgentIds, rows'[k][a] > 0
          PROVE  rows[k][a] > 0 /\ (<<k, a>> \in late => <<k, a>> \in late')
      <3>1. CASE k = j /\ a = b
        <4>1. rows'[j][b] = rows[j][b] - 1 /\ rows[j][b] \in Nat
          BY <1>0, <2>1
        <4>2. rows[j][b] # 1
          BY <2>2, <3>1, <4>1
        <4> QED
          BY <2>1, <3>1, <4>2
      <3>2. CASE ~(k = j /\ a = b)
        <4>1. rows'[k][a] = rows[k][a]
          BY <1>0, <2>1, <3>2
        <4>2. <<k, a>> # <<j, b>>
          BY <3>2
        <4> QED
          BY <2>1, <2>2, <4>1, <4>2
      <3> QED
        BY <3>1, <3>2
    <2>3. \A k \in {"grant", "agent"} : \A x : <<k, x>> \in late => <<k, x>> \in late'
      <3>1. \A k \in {"grant", "agent"} : \A x : <<k, x>> # <<j, b>>
        BY <1>2
      <3> QED
        BY <2>1, <3>1
    <2>4. UNCHANGED <<providers, agents, grants, calls>>
      BY <1>3 DEF DeleteRow
    <2> QED
      BY <2>2, <2>3, <2>4, RowsWritten
  <1>4. CASE RevokeTool
    <2>1. PICK b \in AgentIds, t \in Tools : grants' = [grants EXCEPT ![b] = @ \ {t}]
      BY <1>4 DEF RevokeTool
    <2>2. late' = {l \in late : l[1] = "grant" => grants'[l[2]] # {}}
      BY <1>4 DEF RevokeTool
    <2>3. ASSUME NEW a \in AgentIds, grants'[a] # {}
          PROVE  grants[a] # {} /\ (<<"grant", a>> \in late => <<"grant", a>> \in late')
      <3>1. grants[a] # {}
        BY <1>0, <2>1, <2>3
      <3>2. <<"grant", a>>[2] = a
        OBVIOUS
      <3> QED
        BY <2>2, <2>3, <3>1, <3>2
    <2>4. \A k \in Kinds \cup {"agent"} : \A x : <<k, x>> \in late => <<k, x>> \in late'
      <3>1. \A k \in Kinds \cup {"agent"} : \A x : <<k, x>>[1] # "grant"
        BY <1>2
      <3> QED
        BY <2>2, <3>1
    <2>5. UNCHANGED <<providers, agents, rows, calls>>
      BY <1>4 DEF RevokeTool
    <2> QED
      BY <2>3, <2>4, <2>5, RowsWritten
  <1>5. ASSUME NEW c \in Callers, InsertRow(c) PROVE DeletionsLooked' /\ OnlyRacesOrphan'
    <2> DEFINE b == calls[c].id
               j == calls[c].kind
    <2>1. b \in AgentIds /\ j \in Kinds
      BY <1>0, <1>5 DEF InsertRow, At, Fits
    <2>2. late \subseteq late' /\ (Uncounted(j, b) => <<j, b>> \in late')
      BY <1>5 DEF InsertRow, Slip
    <2>3. ASSUME NEW k \in Kinds, NEW a \in AgentIds, k # j \/ a # b
          PROVE  rows'[k][a] = rows[k][a]
      BY <1>0, <1>5, <2>1, <2>3 DEF InsertRow
    <2>4. End(c) /\ UNCHANGED <<providers, agents, grants>>
      BY <1>5 DEF InsertRow
    <2> HIDE DEF b, j
    <2>5. ASSUME NEW k \in Kinds, NEW a \in AgentIds, rows'[k][a] > 0
          PROVE  \/ rows[k][a] > 0 /\ (<<k, a>> \in late => <<k, a>> \in late')
                 \/ Uncounted(k, a) => <<k, a>> \in late'
      BY <2>2, <2>3, <2>5
    <2> QED
      BY <1>1, <2>2, <2>4, <2>5, RowsWritten
  <1>6. ASSUME NEW c \in Callers, Authorize(c) PROVE DeletionsLooked' /\ OnlyRacesOrphan'
    <2> DEFINE b == calls[c].id
    <2>1. late \subseteq late' /\ (Uncounted("revoke", b) => <<"grant", b>> \in late')
      BY <1>6 DEF Authorize, Slip
    <2>2. ASSUME NEW a \in AgentIds, a # b PROVE grants'[a] = grants[a]
      BY <1>0, <1>6, <2>2 DEF Authorize
    <2>3. End(c) /\ UNCHANGED <<providers, agents, rows>>
      BY <1>6 DEF Authorize
    <2> HIDE DEF b
    <2>4. ASSUME NEW a \in AgentIds, grants'[a] # {}
          PROVE  \/ grants[a] # {} /\ (<<"grant", a>> \in late => <<"grant", a>> \in late')
                 \/ Uncounted("revoke", a) => <<"grant", a>> \in late'
      BY <2>1, <2>2, <2>4
    <2> QED
      BY <1>1, <2>1, <2>3, <2>4, RowsWritten
  <1>7. ASSUME NEW c \in Callers, RevokeAll(c) PROVE DeletionsLooked' /\ OnlyRacesOrphan'
    <2>1. /\ calls[c].op = "delete agent" /\ calls[c].id \in AgentIds /\ calls[c].step \in 1..5
          /\ calls' = [calls EXCEPT ![c].step = @ + 1]
          /\ grants' = [grants EXCEPT ![calls[c].id] = {}]
          /\ UNCHANGED <<providers, agents, rows, late>>
      BY <1>0, <1>7, DeletionOrder DEF RevokeAll, At, Fits
    <2>2. /\ calls'[c].op = "delete agent" /\ calls'[c].id = calls[c].id
          /\ calls'[c].step = calls[c].step + 1
          /\ \A d \in Callers : d # c => calls'[d] = calls[d]
      <3>1. calls[c] \in Call
        BY <1>0
      <3> QED
        BY <1>0, <2>1, <3>1 DEF Call
    <2>3. \A k \in Kinds : Passed(c, k)
      BY <1>7, <2>1, DeletionHasLooked DEF RevokeAll
    <2>4. \A k \in Kinds : rows[k][calls[c].id] > 0 => <<k, calls[c].id>> \in late
      BY <1>0, <2>1, <2>3 DEF Looked, At
    <2>5. grants'[calls[c].id] = {} /\ \A a \in AgentIds : grants'[a] # {} => grants[a] # {}
      BY <1>0, <2>1
    <2>6. Looked(c)'
      <3>1. \A k \in Kinds : rows'[k][calls'[c].id] > 0 => <<k, calls'[c].id>> \in late'
        <4>1. rows' = rows /\ late' = late /\ calls'[c].id = calls[c].id
          BY <2>1, <2>2
        <4> QED
          BY <2>4, <4>1
      <3>2. grants'[calls'[c].id] = {}
        BY <2>2, <2>5
      <3> QED
        BY <2>2, <3>1, <3>2 DEF Looked, At
    <2> QED
      BY <2>1, <2>2, <2>5, <2>6, RowsWritten
  <1> QED
    BY <1>3, <1>4, <1>5, <1>6, <1>7

\* The statements that write agents and providers.
LEMMA AgentsAndProvidersStep ==
  ASSUME IInv,
         \/ CreateProvider
         \/ \E c \in Callers : \/ InsertAgent(c) \/ WriteAgent(c)
                               \/ SoftDeleteAgent(c) \/ SoftDeleteProvider(c)
  PROVE  DeletionsLooked' /\ OnlyRacesOrphan'
  <1>0. /\ calls \in [Callers -> Call]
        /\ \A c \in Callers : Fits(calls[c]) /\ Looked(c)
        /\ providers \in [Providers -> States] /\ agents \in [AgentIds -> Row]
    BY DEF IInv, CatalogueIsSound, TypeOK, CallsAreKnown, DeletionsLooked
  <1>1. ASSUME NEW c \in Callers, End(c)
        PROVE  \A d \in Callers : calls'[d] = calls[d] \/ Looked(d)'
    <2>1. calls'[c] = Idle /\ \A d \in Callers : d # c => calls'[d] = calls[d]
      BY <1>0, <1>1, CallChanges
    <2>2. calls'[c].op = "idle"
      BY <2>1 DEF Idle
    <2> QED
      BY <2>1, <2>2, NoDeletion
  <1>2. CASE CreateProvider
    <2>1. \A p \in Providers : providers'[p] = "deleted" => providers[p] = "deleted"
      BY <1>0, <1>2 DEF CreateProvider
    <2>2. UNCHANGED <<agents, rows, grants, calls, late>>
      BY <1>2 DEF CreateProvider
    <2>3. \A p : AgentsOf(p)' = AgentsOf(p)
      BY <2>2 DEF AgentsOf, Live
    <2> QED
      BY <2>1, <2>2, <2>3, AgentsWritten
  <1>3. ASSUME NEW c \in Callers, InsertAgent(c) \/ WriteAgent(c)
        PROVE  DeletionsLooked' /\ OnlyRacesOrphan'
    <2>1. PICK q : /\ late \subseteq late'
                   /\ Unwatched(q) /\ agents' # agents => <<"agent", q>> \in late'
                   /\ \A a \in AgentIds :
                        agents'[a] = agents[a] \/ (agents'[a].state = "live" /\ agents'[a].provider = q)
      <3>1. CASE InsertAgent(c)
        <4>1. PICK a \in AgentIds : agents' = [agents EXCEPT ![a] = NewAgent(calls[c].provider)]
          BY <3>1 DEF InsertAgent
        <4>2. \A b \in AgentIds : \/ agents'[b] = agents[b]
                                  \/ /\ agents'[b].state = "live"
                                     /\ agents'[b].provider = calls[c].provider
          BY <1>0, <4>1 DEF NewAgent
        <4>3. /\ late \subseteq late'
              /\ Unwatched(calls[c].provider) => <<"agent", calls[c].provider>> \in late'
          BY <3>1 DEF InsertAgent, Slip
        <4> QED
          BY <4>2, <4>3
      <3>2. CASE WriteAgent(c)
        <4> DEFINE q == Edited(calls[c]).provider
        <4>1. late \subseteq late' /\ (Unwatched(q) /\ agents' # agents => <<"agent", q>> \in late')
          BY <3>2 DEF WriteAgent, Slip
        <4>2. \A b \in AgentIds : \/ agents'[b] = agents[b]
                                  \/ agents'[b].state = "live" /\ agents'[b].provider = q
          BY <1>0, <3>2 DEF WriteAgent
        <4> HIDE DEF q
        <4> QED
          BY <4>1, <4>2
      <3> QED
        BY <1>3, <3>1, <3>2
    <2>2. ASSUME NEW p \in Providers, AgentsOf(p)' # {}
          PROVE  AgentsOf(p) # {} \/ (Unwatched(p) => <<"agent", p>> \in late')
      <3>1. PICK a \in AgentIds : agents'[a].state = "live" /\ agents'[a].provider = p
        BY <2>2 DEF AgentsOf, Live
      <3>2. CASE agents'[a] = agents[a]
        BY <3>1, <3>2 DEF AgentsOf, Live
      <3>3. CASE agents'[a] # agents[a]
        BY <2>1, <3>1, <3>3
      <3> QED
        BY <3>2, <3>3
    <2>3. \A a \in AgentIds : agents'[a].state = "deleted" => agents[a].state = "deleted"
      BY <2>1
    <2>4. End(c) /\ UNCHANGED <<providers, rows, grants>>
      BY <1>3 DEF InsertAgent, WriteAgent
    <2> QED
      BY <1>1, <2>1, <2>2, <2>3, <2>4, AgentsWritten
  <1>4. ASSUME NEW c \in Callers, SoftDeleteAgent(c) PROVE DeletionsLooked' /\ OnlyRacesOrphan'
    <2>1. /\ calls[c].op = "delete agent" /\ calls[c].id \in AgentIds /\ calls[c].step \in 1..5
          /\ agents' = [agents EXCEPT ![calls[c].id].state = "deleted"]
          /\ End(c) /\ UNCHANGED <<providers, rows, grants, late>>
      BY <1>0, <1>4, DeletionOrder DEF SoftDeleteAgent, At, Fits
    <2>2. Passed(c, "revoke") /\ \A k \in Kinds : Passed(c, k)
      BY <1>4, <2>1, DeletionHasLooked DEF SoftDeleteAgent
    <2>3. /\ \A k \in Kinds : rows[k][calls[c].id] > 0 => <<k, calls[c].id>> \in late
          /\ grants[calls[c].id] # {} => <<"grant", calls[c].id>> \in late
      BY <1>0, <2>1, <2>2 DEF Looked, At
    <2>4. \A a \in AgentIds : agents'[a] = agents[a] \/ (a = calls[c].id /\ agents'[a].state = "deleted")
      <3>1. agents[calls[c].id] \in Row
        BY <1>0, <2>1
      <3> QED
        BY <1>0, <2>1, <3>1 DEF Row
    <2>5. \A p : AgentsOf(p)' # {} => AgentsOf(p) # {}
      BY <2>4 DEF AgentsOf, Live
    <2> QED
      BY <1>1, <2>1, <2>3, <2>4, <2>5, AgentsWritten
  <1>5. ASSUME NEW c \in Callers, SoftDeleteProvider(c) PROVE DeletionsLooked' /\ OnlyRacesOrphan'
    <2>1. /\ calls[c].op = "delete provider" /\ calls[c].step = 2 /\ calls[c].id \in Providers
          /\ providers' = [providers EXCEPT ![calls[c].id] = "deleted"]
          /\ End(c) /\ UNCHANGED <<agents, rows, grants, late>>
      BY <1>0, <1>5 DEF SoftDeleteProvider, At, Fits
    <2>2. AgentsOf(calls[c].id) # {} => <<"agent", calls[c].id>> \in late
      BY <1>0, <2>1 DEF Looked, At
    <2>3. \A p : AgentsOf(p)' = AgentsOf(p)
      BY <2>1 DEF AgentsOf, Live
    <2>4. \A p \in Providers : p # calls[c].id => providers'[p] = providers[p]
      BY <1>0, <2>1
    <2> QED
      BY <1>1, <2>1, <2>2, <2>3, <2>4, AgentsWritten
  <1> QED
    BY <1>2, <1>3, <1>4, <1>5
--------------------------------------------------------------------------------
(* Types and edits.                                                        *)

\* The rows, the grants and the providers keep their types.
LEMMA TypeStep == ASSUME IInv, [Next]_vars PROVE TypeOK'
  <1>0. /\ \A c \in Callers : calls[c] \in Call /\ Fits(calls[c])
        /\ providers \in [Providers -> States]
        /\ rows \in [Kinds -> [AgentIds -> 0..MaxRows]]
        /\ grants \in [AgentIds -> SUBSET Registered]
    BY DEF IInv, CatalogueIsSound, TypeOK, CallsAreKnown
  <1>1. providers' \in [Providers -> States]
    <2>1. ASSUME NEW c \in Callers, SoftDeleteProvider(c) PROVE providers' \in [Providers -> States]
      BY <1>0, <2>1 DEF SoftDeleteProvider, States
    <2>2. CASE CreateProvider
      BY <1>0, <2>2 DEF CreateProvider, States
    <2>3. CASE UNCHANGED providers
      BY <1>0, <2>3
    <2> QED
      BY <2>1, <2>2, <2>3 DEF Next, vars, DeleteRow, RevokeTool, DeleteAgent, CountDependents,
         RevokeAll, SoftDeleteAgent, DeleteProvider, CountAgents, CreateAgent, InsertAgent,
         UpdateAgent, FindProvider, WriteAgent, CreateRow, InsertRow, AuthorizeTool, Authorize, Fail
  <1>2. rows' \in [Kinds -> [AgentIds -> 0..MaxRows]]
    <2>1. ASSUME NEW c \in Callers, InsertRow(c) PROVE rows' \in [Kinds -> [AgentIds -> 0..MaxRows]]
      <3>1. calls[c].id \in AgentIds /\ calls[c].kind \in Kinds
        BY <1>0, <2>1 DEF InsertRow, At, Fits
      <3>2. PICK a \in AgentIds, k \in Kinds :
              rows[k][a] < MaxRows /\ rows' = [rows EXCEPT ![k][a] = @ + 1]
        BY <2>1, <3>1 DEF InsertRow
      <3>3. rows[k] \in [AgentIds -> 0..MaxRows] /\ rows[k][a] + 1 \in 0..MaxRows
        BY <1>0, <3>2
      <3> QED
        BY <1>0, <3>2, <3>3
    <2>2. CASE DeleteRow
      <3>1. PICK a \in AgentIds, k \in Kinds :
              rows[k][a] > 0 /\ rows' = [rows EXCEPT ![k][a] = @ - 1]
        BY <2>2 DEF DeleteRow
      <3>2. rows[k] \in [AgentIds -> 0..MaxRows] /\ rows[k][a] - 1 \in 0..MaxRows
        BY <1>0, <3>1
      <3> QED
        BY <1>0, <3>1, <3>2
    <2>3. CASE UNCHANGED rows
      BY <1>0, <2>3
    <2> QED
      BY <2>1, <2>2, <2>3 DEF Next, vars, CreateProvider, RevokeTool, DeleteAgent, CountDependents,
         RevokeAll, SoftDeleteAgent, DeleteProvider, CountAgents, SoftDeleteProvider, CreateAgent,
         InsertAgent, UpdateAgent, FindProvider, WriteAgent, CreateRow, AuthorizeTool, Authorize, Fail
  <1>3. grants' \in [AgentIds -> SUBSET Registered]
    <2>1. ASSUME NEW c \in Callers, RevokeAll(c) \/ Authorize(c)
          PROVE  grants' \in [AgentIds -> SUBSET Registered]
      <3>1. calls[c].id \in AgentIds /\ (Authorize(c) => calls[c].tool \in Registered)
        BY <1>0, <2>1 DEF RevokeAll, Authorize, At, Fits
      <3>2. PICK a \in AgentIds, gs \in SUBSET Registered : grants' = [grants EXCEPT ![a] = gs]
        <4>1. CASE RevokeAll(c)
          BY <3>1, <4>1 DEF RevokeAll
        <4>2. CASE Authorize(c)
          <5>1. grants[calls[c].id] \cup {calls[c].tool} \in SUBSET Registered
            BY <1>0, <3>1, <4>2
          <5> QED
            BY <3>1, <4>2, <5>1 DEF Authorize
        <4> QED
          BY <2>1, <4>1, <4>2
      <3> QED
        BY <1>0, <3>2
    <2>2. CASE RevokeTool
      BY <1>0, <2>2 DEF RevokeTool
    <2>3. CASE UNCHANGED grants
      BY <1>0, <2>3
    <2> QED
      BY <2>1, <2>2, <2>3 DEF Next, vars, CreateProvider, DeleteRow, DeleteAgent, CountDependents,
         SoftDeleteAgent, DeleteProvider, CountAgents, SoftDeleteProvider, CreateAgent,
         InsertAgent, UpdateAgent, FindProvider, WriteAgent, CreateRow, InsertRow, AuthorizeTool, Fail
  <1>4. (\A c \in Callers : calls[c].read \in Chosen /\ calls[c].step \in 0..Len(DeletionSteps))'
    <2>1. (CallsAreKnown =>
            \A c \in Callers : calls[c].read \in Chosen /\ calls[c].step \in 0..Len(DeletionSteps))'
      BY KnownCallsAreTyped, PTL
    <2> QED
      BY <2>1, CallsStep
  <1> QED
    BY <1>1, <1>2, <1>3, <1>4, AgentsStep DEF TypeOK

\* A write of an agent nothing wrote since it was read keeps what was chosen for it.
LEMMA EditsStep == ASSUME IInv, [Next]_vars PROVE EditsAreKept'
  <1>0. agents \in [AgentIds -> Row] /\ \A c \in Callers : calls[c] \in Call /\ Fits(calls[c])
    BY DEF IInv, CatalogueIsSound, TypeOK, CallsAreKnown
  <1> SUFFICES ASSUME NEW b \in AgentIds, agents'[b].state = "live", ~agents'[b].mixed
               PROVE  agents'[b].chosen = Fields(agents'[b])
    BY DEF EditsAreKept, Live
  <1>a. agents[b].state = "live" /\ ~agents[b].mixed => agents[b].chosen = Fields(agents[b])
    BY DEF IInv, CatalogueIsSound, EditsAreKept, Live
  <1>1. ASSUME NEW c \in Callers, InsertAgent(c) PROVE agents'[b].chosen = Fields(agents'[b])
    <2>1. PICK a \in AgentIds : agents' = [agents EXCEPT ![a] = NewAgent(calls[c].provider)]
      BY <1>1 DEF InsertAgent
    <2>2. CASE b = a
      BY <1>0, <2>1, <2>2 DEF NewAgent, Fields
    <2>3. CASE b # a
      BY <1>0, <1>a, <2>1, <2>3
    <2> QED
      BY <2>2, <2>3
  <1>2. ASSUME NEW c \in Callers, WriteAgent(c) PROVE agents'[b].chosen = Fields(agents'[b])
    <2>1. CASE agents'[b] = agents[b]
      BY <1>a, <2>1
    <2>2. CASE agents'[b] # agents[b]
      <3> DEFINE mixed == agents[b].mixed \/ Fields(agents[b]) # calls[c].read
                 kept == [provider |-> Given(calls[c].provider, agents[b].chosen.provider),
                          policy |-> Given(calls[c].policy, agents[b].chosen.policy)]
                 row == [state |-> "live", provider |-> Edited(calls[c]).provider,
                         policy |-> Edited(calls[c]).policy,
                         chosen |-> IF mixed THEN Edited(calls[c]) ELSE kept,
                         mixed |-> mixed]
      <3>1. b = calls[c].id /\ agents'[b] = row /\ agents[b].state = "live"
        BY <1>0, <1>2, <2>2 DEF WriteAgent, Updatable, Live
      <3>2. row.mixed = mixed /\ row.provider = Edited(calls[c]).provider
            /\ row.policy = Edited(calls[c]).policy
            /\ row.chosen = IF mixed THEN Edited(calls[c]) ELSE kept
        <4> HIDE DEF mixed, kept
        <4> QED
          OBVIOUS
      <3>3. ~mixed
        <4> HIDE DEF mixed, row
        <4> QED
          BY <3>1, <3>2
      <3>4. /\ agents[b].chosen = Fields(agents[b]) /\ Fields(agents[b]) = calls[c].read
        BY <1>a, <3>1, <3>3
      <3>5. kept = Edited(calls[c])
        BY <3>4 DEF Edited
      <3>6. Fields(row) = Edited(calls[c])
        <4>1. Edited(calls[c]) = [provider |-> Edited(calls[c]).provider, policy |-> Edited(calls[c]).policy]
          BY DEF Edited
        <4> HIDE DEF row, kept, mixed
        <4> QED
          BY <3>2, <4>1 DEF Fields
      <3> HIDE DEF row, kept, mixed
      <3> QED
        BY <3>1, <3>2, <3>3, <3>5, <3>6
    <2> QED
      BY <2>1, <2>2
  <1>3. ASSUME NEW c \in Callers, SoftDeleteAgent(c) PROVE agents'[b].chosen = Fields(agents'[b])
    <2>1. agents[calls[c].id] \in Row /\ calls[c].id \in AgentIds
      BY <1>0, <1>3 DEF SoftDeleteAgent, At, Fits
    <2>2. b # calls[c].id
      BY <1>0, <1>3, <2>1 DEF SoftDeleteAgent, Row
    <2> QED
      BY <1>0, <1>a, <1>3, <2>2 DEF SoftDeleteAgent
  <1>4. CASE UNCHANGED agents
    BY <1>a, <1>4
  <1> QED
    BY <1>1, <1>2, <1>3, <1>4 DEF Next, vars, CreateProvider, DeleteRow, RevokeTool,
       DeleteAgent, CountDependents, RevokeAll, DeleteProvider, CountAgents,
       SoftDeleteProvider, CreateAgent, UpdateAgent, FindProvider, CreateRow, InsertRow,
       AuthorizeTool, Authorize, Fail

--------------------------------------------------------------------------------
(* The theorems.                                                           *)

\* However creating, editing, granting and deleting interleave, a deletion knows what it
\* has passed, or it was written behind its back (agents.go, providers.go).
THEOREM Inductive == Spec => []IInv
  <1>1. ASSUME IInv, [Next]_vars PROVE DeletionsLooked' /\ OnlyRacesOrphan'
    <2>1. CASE UNCHANGED vars
      BY <1>1, <2>1 DEF vars, IInv, CatalogueIsSound, DeletionsLooked, Looked, At, Passed,
         OnlyRacesOrphan, Orphans, AgentsOf, Live
    <2> QED
      BY <1>1, <2>1, CountsStep, RowsStep, AgentsAndProvidersStep DEF Next
  <1>2. IInv /\ [Next]_vars => IInv'
    BY <1>1, TypeStep, CallsStep, EditsStep DEF IInv, CatalogueIsSound
  <1> QED
    BY InitIInv, <1>2, PTL DEF Spec

\* Every row, grant and call under way is well typed.
THEOREM TypeCorrect == Spec => []TypeOK
  <1>1. IInv => TypeOK
    BY DEF IInv, CatalogueIsSound
  <1> QED
    BY Inductive, <1>1, PTL

\* What a deletion orphans was written after it had counted, and edits that do not
\* overlap are all kept (agents.go, DeleteAgent and UpdateAgent).
THEOREM CatalogueHolds == Spec => []CatalogueIsSound
  <1>1. IInv => CatalogueIsSound
    BY DEF IInv
  <1> QED
    BY Inductive, <1>1, PTL

\* A deletion takes an agent's tools only after every kind of row was counted and none
\* found, and nothing under way changes or revives what was deleted (DeleteAgent).
THEOREM DeletionHolds == Spec => DeletionIsFinal
  <1> DEFINE Final == \A a \in AgentIds :
               /\ (calls' # calls /\ grants[a] # {} /\ grants'[a] = {}) =>
                     \A k \in Kinds : rows[k][a] > 0 => <<k, a>> \in late
               /\ agents[a].state = "deleted" => agents'[a] = agents[a]
  <1>1. IInv /\ [Next]_vars => [Final]_vars
    <2> SUFFICES ASSUME IInv, Next, NEW a \in AgentIds, calls' # calls, grants[a] # {}, grants'[a] = {},
                        NEW k \in Kinds, rows[k][a] > 0
                 PROVE  <<k, a>> \in late
      BY AgentsStep
    <2>0. /\ grants \in [AgentIds -> SUBSET Registered]
          /\ \A c \in Callers : Fits(calls[c]) /\ Looked(c)
      BY DEF IInv, CatalogueIsSound, TypeOK, CallsAreKnown, DeletionsLooked
    <2>1. ASSUME NEW c \in Callers, RevokeAll(c) PROVE <<k, a>> \in late
      <3>1. a = calls[c].id
        BY <2>0, <2>1 DEF RevokeAll
      <3>2. calls[c].op = "delete agent" /\ calls[c].step \in 1..5
        BY <2>0, <2>1, DeletionOrder DEF RevokeAll, At, Fits
      <3>3. Passed(c, k)
        BY <2>1, <3>2, DeletionHasLooked DEF RevokeAll
      <3> QED
        BY <2>0, <3>1, <3>2, <3>3 DEF Looked, At
    <2>2. ASSUME NEW c \in Callers, Authorize(c) PROVE FALSE
      BY <2>0, <2>2 DEF Authorize
    <2>3. ~RevokeTool /\ grants' # grants
      BY DEF RevokeTool
    <2> QED
      BY <2>1, <2>2, <2>3 DEF Next, CreateProvider, DeleteRow, DeleteAgent, CountDependents,
         SoftDeleteAgent, DeleteProvider, CountAgents, SoftDeleteProvider, CreateAgent,
         InsertAgent, UpdateAgent, FindProvider, WriteAgent, CreateRow, InsertRow, AuthorizeTool, Fail
  <1> QED
    BY <1>1, Inductive, PTL DEF Spec, DeletionIsFinal

HIDE AgentAssumption DEF AgentAssumption

--------------------------------------------------------------------------------
(* Selecting within a budget (selectWithinBudget, context.go).             *)

\* R is the order the items are looked at in, and `last` what it puts last.
Ordered(S, last, R) ==
  /\ \A s \in SUBSET S : s # {} => last[s] \in s /\ \A j \in s \ {last[s]} : <<j, last[s]>> \in R
  /\ \A i, j \in S : <<i, j>> \in R => <<j, i>> \notin R
Prior(T, i, R) == {j \in T : <<j, i>> \in R}
\* An item is taken exactly if it fits beside those taken before it.
Budgeted(S, T, R, w, room) ==
  /\ T \subseteq S /\ SumFunctionOnSet(w, T) <= room
  /\ \A i \in S : i \in T <=> w[i] + SumFunctionOnSet(w, Prior(T, i, R)) <= room
Takings(S) == [used : Nat, taken : SUBSET S, full : {FALSE}]
TakenWell(s, acc, R, w, room) ==
  acc.used = SumFunctionOnSet(w, acc.taken) /\ Budgeted(s, acc.taken, R, w, room)

LEMMA PartsHaveSums ==
  ASSUME NEW S, IsFiniteSet(S), NEW w, \A j \in S : w[j] \in Nat, NEW T, T \subseteq S
  PROVE  IsFiniteSet(T) /\ SumFunctionOnSet(w, T) \in Nat
  <1>1. IsFiniteSet(T)
    BY FS_Subset
  <1> QED
    BY <1>1, SumType

\* One more item, after all that were looked at.
LEMMA TakeKeeps ==
  ASSUME NEW S, IsFiniteSet(S), NEW last, NEW R, Ordered(S, last, R),
         NEW w, \A j \in S : w[j] \in Nat, NEW room \in Nat,
         NEW s \in SUBSET S, NEW x \in S \ s, \A j \in s : <<j, x>> \in R,
         NEW acc \in Takings(S), TakenWell(s, acc, R, w, room)
  PROVE  Take(x, acc, w[x], room) \in Takings(S)
         /\ TakenWell(s \cup {x}, Take(x, acc, w[x], room), R, w, room)
  <1> DEFINE new == Take(x, acc, w[x], room)
             old == acc.taken
             t == s \cup {x}
             sum(T) == SumFunctionOnSet(w, T)
  <1> SUFFICES new \in Takings(S) /\ TakenWell(t, new, R, w, room)
    OBVIOUS
  <1>1. /\ old \subseteq s /\ acc.used = sum(old) /\ sum(old) <= room
        /\ \A i \in s : i \in old <=> w[i] + sum(Prior(old, i, R)) <= room
        /\ acc.used \in Nat /\ w[x] \in Nat /\ x \notin old
    BY DEF TakenWell, Budgeted, Takings
  <1>2. Prior(old, x, R) = old
    BY <1>1 DEF Prior
  <1>3. CASE acc.used + w[x] > room
    <2>1. new = acc
      BY <1>3 DEF Take
    <2>2. ~(w[x] + sum(Prior(old, x, R)) <= room)
      <3>1. sum(Prior(old, x, R)) = acc.used
        BY <1>1, <1>2
      <3> HIDE DEF sum
      <3> QED
        BY <1>1, <1>3, <3>1
    <2>4. old \subseteq t
      BY <1>1
    <2>3. \A i \in t : i \in old <=> w[i] + sum(Prior(old, i, R)) <= room
      <3> HIDE DEF sum
      <3> QED
        BY <1>1, <2>2
    <2> HIDE DEF new, t
    <2> QED
      BY <1>1, <2>1, <2>3, <2>4 DEF TakenWell, Budgeted
  <1>4. CASE ~(acc.used + w[x] > room)
    <2>1. new = [acc EXCEPT !.used = acc.used + w[x], !.taken = old \cup {x}]
      BY <1>4 DEF Take
    <2>2. new \in Takings(S) /\ new.used = acc.used + w[x] /\ new.taken = old \cup {x}
      <3>1. acc.used + w[x] \in Nat /\ old \cup {x} \in SUBSET S
        BY <1>1
      <3> HIDE DEF new
      <3> QED
        BY <2>1, <3>1 DEF Takings
    <2>3. sum(old \cup {x}) = w[x] + sum(old)
      <3>1. IsFiniteSet(old) /\ \A y \in old \cup {x} : w[y] \in Nat
        BY <1>1, PartsHaveSums
      <3> QED
        BY <1>1, <3>1, SumAdds
    <2>4. ASSUME NEW i \in s PROVE Prior(old \cup {x}, i, R) = Prior(old, i, R)
      <3>1. <<x, i>> \notin R
        BY DEF Ordered
      <3> QED
        BY <3>1 DEF Prior
    <2>5. Prior(old \cup {x}, x, R) = old
      <3>1. <<x, x>> \notin R
        BY DEF Ordered
      <3> QED
        BY <1>2, <3>1 DEF Prior
    <2>6. ASSUME NEW i \in t
          PROVE  i \in old \cup {x} <=> w[i] + sum(Prior(old \cup {x}, i, R)) <= room
      <3>1. CASE i = x
        <4>1. w[x] + sum(old) <= room
          <5> HIDE DEF sum
          <5> QED
            BY <1>1, <1>4
        <4> HIDE DEF sum
        <4> QED
          BY <2>5, <3>1, <4>1
      <3>2. CASE i # x
        <4>1. i \in s /\ (i \in old \cup {x} <=> i \in old)
          BY <3>2
        <4> HIDE DEF sum
        <4> QED
          BY <1>1, <2>4, <4>1
      <3> QED
        BY <3>1, <3>2
    <2>7. new.used = sum(new.taken) /\ sum(new.taken) <= room
      <3> HIDE DEF new, sum
      <3> QED
        BY <1>1, <1>4, <2>2, <2>3
    <2>8. old \cup {x} \subseteq t
      BY <1>1
    <2> HIDE DEF new, t
    <2> QED
      BY <2>2, <2>6, <2>7, <2>8 DEF TakenWell, Budgeted
  <1> QED
    BY <1>3, <1>4

LEMMA SelectionUnfolds ==
  ASSUME NEW S, NEW last, NEW room, NEW w
  PROVE  SelectWithinBudget(S, last, room, w) = (CHOOSE g : g = [s \in SUBSET S |->
           IF s = {} THEN NoneTaken ELSE Take(last[s], g[s \ {last[s]}], w[last[s]], room)])[S].taken
  BY DEF SelectWithinBudget, MapThenFoldSet

LEMMA NoneIsWell ==
  ASSUME NEW S, NEW R, NEW w, NEW room \in Nat
  PROVE  NoneTaken \in Takings(S) /\ TakenWell({}, NoneTaken, R, w, room)
  <1>1. SumFunctionOnSet(w, {}) = 0
    BY SumEmpty
  <1> QED
    BY <1>1 DEF NoneTaken, Takings, TakenWell, Budgeted

\* What SelectWithinBudget takes.
LEMMA Selected ==
  ASSUME NEW S, IsFiniteSet(S), NEW last, NEW R, Ordered(S, last, R),
         NEW w, \A j \in S : w[j] \in Nat, NEW room \in Nat
  PROVE  Budgeted(S, SelectWithinBudget(S, last, room, w), R, w, room)
  <1> DEFINE Rec(g, s) == IF s = {} THEN NoneTaken
                          ELSE Take(last[s], g[s \ {last[s]}], w[last[s]], room)
             lst == [s \in SUBSET S |-> last[s]]
             step == [p \in S \X Takings(S) |-> Take(p[1], p[2], w[p[1]], room)]
  <1>1. \A s \in SUBSET S : s # {} => last[s] \in s /\ \A j \in s \ {last[s]} : <<j, last[s]>> \in R
    BY DEF Ordered
  <1>2. step \in [S \X Takings(S) -> Takings(S)]
    <2>1. ASSUME NEW x \in S, NEW acc \in Takings(S) PROVE Take(x, acc, w[x], room) \in Takings(S)
      <3>1. acc.used + w[x] \in Nat /\ acc.taken \cup {x} \in SUBSET S
        BY DEF Takings
      <3>2. CASE acc.used + w[x] > room
        BY <3>2 DEF Take
      <3>3. CASE ~(acc.used + w[x] > room)
        <4>1. Take(x, acc, w[x], room) = [acc EXCEPT !.used = acc.used + w[x], !.taken = acc.taken \cup {x}]
          BY <3>3 DEF Take
        <4> QED
          BY <3>1, <4>1 DEF Takings
      <3> QED
        BY <3>2, <3>3
    <2> QED
      BY <2>1
  <1>3. \E g : g = [s \in SUBSET S |-> Rec(g, s)]
    <2>1. TakesLast(lst, S)
      BY <1>1 DEF TakesLast
    <2>2. PICK g : SolvesFold(g, NoneTaken, step, lst, Takings(S), S)
      <3>1. NoneTaken \in Takings(S)
        BY NoneIsWell
      <3> HIDE DEF lst, step
      <3> QED
        BY <1>2, <2>1, <3>1, FoldExists
    <2>3. g \in [SUBSET S -> Takings(S)] /\ \A s \in SUBSET S : g[s] = FoldStep(NoneTaken, step, lst, g, s)
      BY <2>2 DEF SolvesFold
    <2>4. ASSUME NEW s \in SUBSET S PROVE g[s] = Rec(g, s)
      <3>1. CASE s = {}
        BY <2>3, <3>1 DEF FoldStep
      <3>2. CASE s # {}
        <4>1. lst[s] = last[s] /\ last[s] \in S /\ s \ {last[s]} \in SUBSET S
          BY <1>1, <3>2
        <4>2. g[s] = step[<<last[s], g[s \ {last[s]}]>>]
          BY <2>3, <3>2, <4>1 DEF FoldStep
        <4>3. <<last[s], g[s \ {last[s]}]>> \in S \X Takings(S)
          BY <2>3, <4>1
        <4> QED
          BY <3>2, <4>2, <4>3
      <3> QED
        BY <3>1, <3>2
    <2>5. g = [s \in SUBSET S |-> Rec(g, s)]
      <3> HIDE DEF Rec
      <3> QED
        BY <2>3, <2>4
    <2> QED
      BY <2>5
  <1> DEFINE G == CHOOSE g : g = [s \in SUBSET S |-> Rec(g, s)]
  <1>4. G = [s \in SUBSET S |-> Rec(G, s)]
    <2> HIDE DEF Rec
    <2> QED
      BY <1>3
  <1>5. SelectWithinBudget(S, last, room, w) = G[S].taken
    BY SelectionUnfolds
  <1> HIDE DEF G
  <1> DEFINE F == {s \in SUBSET S : G[s] \in Takings(S) /\ TakenWell(s, G[s], R, w, room)}
  <1>6. ASSUME NEW s \in SUBSET S, \A u \in SUBSET s : u # s => u \in F
        PROVE  s \in F
    <2>1. G[s] = Rec(G, s)
      <3> HIDE DEF Rec
      <3> QED
        BY <1>4
    <2>2. CASE s = {}
      BY <2>1, <2>2, NoneIsWell
    <2>3. CASE s # {}
      <3> DEFINE i == last[s]  u == s \ {i}
      <3>1. i \in S \ u /\ u \in SUBSET S /\ s = u \cup {i} /\ \A j \in u : <<j, i>> \in R
        BY <1>1, <2>3
      <3>2. u \in F
        BY <1>6, <3>1
      <3>3. G[s] = Take(i, G[u], w[i], room)
        BY <2>1, <2>3
      <3>5. G[u] \in Takings(S) /\ TakenWell(u, G[u], R, w, room)
        BY <3>2
      <3> HIDE DEF i, u, Rec, F
      <3>4. G[s] \in Takings(S) /\ TakenWell(u \cup {i}, G[s], R, w, room)
        <4> DEFINE acc == G[u]
        <4>1. acc \in Takings(S) /\ TakenWell(u, acc, R, w, room)
          BY <3>5
        <4> HIDE DEF acc
        <4>2. Take(i, acc, w[i], room) \in Takings(S)
              /\ TakenWell(u \cup {i}, Take(i, acc, w[i], room), R, w, room)
          BY <3>1, <4>1, TakeKeeps, Zenon
        <4> QED
          BY <3>3, <4>2 DEF acc
      <3> QED
        BY <3>1, <3>4 DEF F
    <2> QED
      BY <2>2, <2>3
  <1>7. SUBSET S \subseteq F
    <2> HIDE DEF F
    <2> QED
      BY <1>6, StrongInduction
  <1>8. S \in F
    BY <1>7
  <1> QED
    BY <1>5, <1>8 DEF TakenWell
\* Items from the first to some last one, in the order they are looked at.
Downward(P, S, R) == P \subseteq S /\ \A i \in P, j \in S : <<j, i>> \in R => j \in P

\* There is one way to take items within a budget.
LEMMA SelectionIsUnique ==
  ASSUME NEW S, IsFiniteSet(S), NEW last, NEW R, Ordered(S, last, R), NEW w, NEW room,
         NEW T, NEW U, Budgeted(S, T, R, w, room), Budgeted(S, U, R, w, room)
  PROVE  T = U
  <1> DEFINE F == {s \in SUBSET S : Downward(s, S, R) => s \cap T = s \cap U}
  <1>1. ASSUME NEW s \in SUBSET S, \A u \in SUBSET s : u # s => u \in F, Downward(s, S, R)
        PROVE  s \cap T = s \cap U
    <2>1. CASE s = {}
      BY <2>1
    <2>2. CASE s # {}
      <3> DEFINE x == last[s]  u == s \ {x}
      <3>1. x \in s /\ x \in S /\ u \in SUBSET s /\ u # s /\ \A j \in u : <<j, x>> \in R
        BY <2>2 DEF Ordered
      <3>2. \A i, j \in S : <<i, j>> \in R => <<j, i>> \notin R
        BY DEF Ordered
      <3> HIDE DEF x
      <3>3. Downward(u, S, R)
        BY <1>1, <3>1, <3>2 DEF Downward
      <3>4. u \cap T = u \cap U
        BY <1>1, <3>1, <3>3
      <3>5. \A j \in S : <<j, x>> \in R => j \in u
        BY <1>1, <3>1, <3>2 DEF Downward
      <3>6. Prior(T, x, R) = Prior(U, x, R)
        BY <3>4, <3>5 DEF Prior, Budgeted
      <3>7. x \in T <=> x \in U
        BY <3>1, <3>6 DEF Budgeted
      <3> QED
        BY <3>4, <3>7
    <2> QED
      BY <2>1, <2>2
  <1>2. SUBSET S \subseteq F
    <2>1. \A s \in SUBSET S : (\A u \in SUBSET s : u # s => u \in F) => s \in F
      BY <1>1
    <2> HIDE DEF F
    <2> QED
      BY <2>1, StrongInduction
  <1>3. Downward(S, S, R)
    BY DEF Downward
  <1>4. S \cap T = S \cap U
    BY <1>2, <1>3
  <1> QED
    BY <1>4 DEF Budgeted

\* What is taken of the first items does not depend on those behind them.
LEMMA FirstOnesTaken ==
  ASSUME NEW S, IsFiniteSet(S), NEW last, NEW R, Ordered(S, last, R),
         NEW w, \A j \in S : w[j] \in Nat, NEW v, NEW room \in Nat,
         NEW P, Downward(P, S, R), \A j \in P : v[j] = w[j]
  PROVE  SelectWithinBudget(P, last, room, v) = SelectWithinBudget(S, last, room, w) \cap P
  <1> DEFINE T == SelectWithinBudget(S, last, room, w)
             U == SelectWithinBudget(P, last, room, v)
             sum(f, Z) == SumFunctionOnSet(f, Z)
  <1>1. P \subseteq S /\ IsFiniteSet(P) /\ Ordered(P, last, R) /\ \A j \in P : v[j] \in Nat
    BY FS_Subset DEF Downward, Ordered
  <1>2. Budgeted(S, T, R, w, room)
    BY Selected
  <1>3. Budgeted(P, U, R, v, room)
    <2> HIDE DEF U
    <2> QED
      BY <1>1, Selected DEF U
  <1> HIDE DEF T, U
  <1>4. Budgeted(P, T \cap P, R, v, room)
    <2>1. IsFiniteSet(T) /\ T \subseteq S
      BY <1>2, FS_Subset DEF Budgeted
    <2>2. ASSUME NEW Z, Z \subseteq P PROVE sum(v, Z) = sum(w, Z)
      <3>1. IsFiniteSet(Z)
        BY <1>1, <2>2, FS_Subset
      <3> QED
        BY <2>2, <3>1, SumAgrees
    <2>3. sum(v, T \cap P) <= room
      <3>1. \A x \in T : w[x] \in Nat
        BY <2>1
      <3>2. sum(w, T \cap P) <= sum(w, T)
        BY <2>1, <3>1, SumOfPart
      <3>3. sum(v, T \cap P) = sum(w, T \cap P) /\ sum(w, T) <= room
        BY <1>2, <2>2 DEF Budgeted
      <3>4. sum(w, T \cap P) \in Nat /\ sum(w, T) \in Nat
        <4>1. IsFiniteSet(T \cap P) /\ \A x \in T \cap P : w[x] \in Nat
          BY <2>1, <3>1, FS_Subset
        <4> QED
          BY <2>1, <3>1, <4>1, SumType
      <3> HIDE DEF sum
      <3> QED
        BY <3>2, <3>3, <3>4
    <2>4. ASSUME NEW i \in P
          PROVE  i \in T \cap P <=> v[i] + sum(v, Prior(T \cap P, i, R)) <= room
      <3>1. Prior(T \cap P, i, R) = Prior(T, i, R)
        BY <2>1 DEF Prior, Downward
      <3>2. Prior(T \cap P, i, R) \subseteq P
        BY DEF Prior
      <3>3. sum(v, Prior(T \cap P, i, R)) = sum(w, Prior(T, i, R)) /\ v[i] = w[i]
        BY <2>2, <3>1, <3>2
      <3>4. i \in T <=> w[i] + sum(w, Prior(T, i, R)) <= room
        BY <1>1, <1>2 DEF Budgeted
      <3> HIDE DEF sum
      <3> QED
        BY <3>3, <3>4
    <2> QED
      BY <2>3, <2>4 DEF Budgeted
  <1>5. U = T \cap P
    BY <1>1, <1>3, <1>4, SelectionIsUnique
  <1> QED
    BY <1>5 DEF T, U

--------------------------------------------------------------------------------
(* The order of the pages and of the blocks (selectionOrder, memories.go). *)

Earlier == {p \in Ids \X Ids : Before(p[1], p[2])}
AreKept(S) == S \subseteq Ids /\ \A i \in S : Kept(i)

LEMMA IdsAreFinite == IsFiniteSet(Ids) /\ Ids \subseteq Nat
  <1>1. MaxItems \in Nat
    BY MemoryAssumption DEF MemoryAssumption
  <1> QED
    BY <1>1, FS_Interval DEF Ids

\* It is an order: of the pinned ones and of the others the latest written, then by id.
LEMMA BeforeIsOrder ==
  ASSUME ItemsAreKnown, NEW S, AreKept(S), NEW i \in S, NEW j \in S, NEW k \in S
  PROVE  /\ ~(Before(i, j) /\ Before(j, i))
         /\ i # j => Before(i, j) \/ Before(j, i)
         /\ Before(i, j) /\ Before(j, k) => Before(i, k)
  <1> DEFINE P(x) == items[x].pinned  N(x) == items[x].updated
  <1>1. \A x \in S : P(x) \in BOOLEAN /\ N(x) \in Int /\ x \in Int
    <2>1. ASSUME NEW x \in S PROVE IsTyped(items[x], clock) /\ x \in Int
      <3>1. x \in Ids /\ items[x].state = "live"
        BY DEF AreKept, Kept
      <3>2. IsTyped(items[x], clock)
        BY <3>1 DEF ItemsAreKnown
      <3>3. x \in Int
        BY <3>1, IdsAreFinite
      <3> QED
        BY <3>2, <3>3
    <2> QED
      BY <2>1 DEF IsTyped
  <1>2. \A x, y \in S : Before(x, y) <=> IF P(x) # P(y) THEN P(x) = TRUE
                                         ELSE N(x) > N(y) \/ (N(x) = N(y) /\ x < y)
    BY <1>1 DEF Before
  <1> HIDE DEF P, N
  <1>3. \A x \in S : P(x) = TRUE \/ P(x) = FALSE
    BY <1>1
  <1>4. ~(Before(i, j) /\ Before(j, i))
    BY <1>1, <1>2, <1>3
  <1>5. i # j => Before(i, j) \/ Before(j, i)
    BY <1>1, <1>2, <1>3
  <1>6. Before(i, j) /\ Before(j, k) => Before(i, k)
    BY <1>1, <1>2, <1>3
  <1> QED
    BY <1>4, <1>5, <1>6

\* So every list of items has a last one.
LEMMA ItemsAreOrdered ==
  ASSUME ItemsAreKnown, NEW S, AreKept(S)
  PROVE  Ordered(S, LastListed, Earlier) /\ IsFiniteSet(S)
  <1> DEFINE IsLast(i, s) == \A j \in s \ {i} : Before(j, i)
             F == {s \in SUBSET S : s # {} => \E i \in s : IsLast(i, s)}
  <1>1. S \subseteq Ids /\ IsFiniteSet(S)
    BY IdsAreFinite, FS_Subset DEF AreKept
  <1>2. ASSUME NEW s \in SUBSET S, s # {} PROVE \E i \in s : IsLast(i, s)
    <2>1. IsFiniteSet(s)
      BY <1>1, FS_Subset
    <2>2. {} \in F
      OBVIOUS
    <2>3. ASSUME NEW t \in SUBSET s, NEW x \in s \ t, t \in F PROVE t \cup {x} \in F
      <3>1. CASE t = {}
        BY <3>1
      <3>2. CASE t # {}
        <4>1. PICK i \in t : IsLast(i, t)
          BY <2>3, <3>2
        <4>2. i \in S /\ x \in S /\ i # x /\ \A j \in t : j \in S
          OBVIOUS
        <4>3. CASE Before(x, i)
          <5>1. IsLast(i, t \cup {x})
            BY <4>1, <4>3
          <5> QED
            BY <5>1
        <4>4. CASE Before(i, x)
          <5>1. ASSUME NEW j \in t, j # i PROVE Before(j, x)
            <6>1. Before(j, i) /\ j \in S
              BY <4>1, <4>2, <5>1
            <6> QED
              BY <4>2, <4>4, <6>1, BeforeIsOrder
          <5>2. IsLast(x, t \cup {x})
            BY <4>4, <5>1
          <5> QED
            BY <5>2
        <4> QED
          BY <4>2, <4>3, <4>4, BeforeIsOrder
      <3> QED
        BY <3>1, <3>2
    <2>4. s \in F
      <3> HIDE DEF F
      <3> QED
        BY <2>1, <2>2, <2>3, FiniteInduction
    <2> QED
      BY <1>2, <2>4
  <1>3. ASSUME NEW s \in SUBSET S, s # {}
        PROVE  LastListed[s] \in s /\ \A j \in s \ {LastListed[s]} : <<j, LastListed[s]>> \in Earlier
    <2>1. s \in SUBSET Ids
      BY <1>1
    <2>2. LastListed[s] = CHOOSE i \in s : IsLast(i, s)
      BY <2>1 DEF LastListed
    <2>3. LastListed[s] \in s /\ IsLast(LastListed[s], s)
      BY <1>2, <1>3, <2>2
    <2> DEFINE l == LastListed[s]
    <2> HIDE DEF l
    <2>4. l \in s /\ \A j \in s \ {l} : Before(j, l)
      BY <2>3 DEF l
    <2>5. \A j \in s \ {l} : <<j, l>> \in Earlier
      BY <2>1, <2>4 DEF Earlier
    <2> QED
      BY <2>4, <2>5 DEF l
  <1>4. ASSUME NEW i \in S, NEW j \in S, <<i, j>> \in Earlier PROVE <<j, i>> \notin Earlier
    BY <1>4, BeforeIsOrder DEF Earlier
  <1> QED
    BY <1>1, <1>3, <1>4 DEF Ordered

--------------------------------------------------------------------------------
(* What a turn sends, and what the page says of it.                        *)

Costs(S) == [i \in S |-> CostOf(i)]

LEMMA CostsAreNumbers ==
  ASSUME ItemsAreKnown, NEW i \in Ids, Kept(i)
  PROVE  CostOf(i) \in Nat /\ items[i].kind \in ItemKinds
  <1>1. IsTyped(items[i], clock)
    BY DEF Kept, ItemsAreKnown
  <1>2. items[i].text \in Facts \cup Documents /\ items[i].kind \in ItemKinds
    BY <1>1 DEF IsTyped, Texts
  <1>3. Cost \in [Facts \cup Documents -> Nat]
    BY MemoryAssumption DEF MemoryAssumption
  <1> QED
    BY <1>2, <1>3 DEF CostOf

LEMMA BudgetsAreNumbers ==
  ASSUME NEW k \in ItemKinds
  PROVE  Budget[k] \in Nat /\ PageLimit[k] \in Nat
  BY MemoryAssumption DEF MemoryAssumption

\* The block of a turn is what fits of the enabled items, in their order.
LEMMA BlockIs ==
  ASSUME ItemsAreKnown, NEW k \in ItemKinds, NEW S, AreKept(S)
  PROVE  /\ Budgeted(S, Block(S, k), Earlier, Costs(S), Budget[k])
         /\ IsFiniteSet(S) /\ \A i \in S : Costs(S)[i] = CostOf(i) /\ CostOf(i) \in Nat
  <1>1. Ordered(S, LastListed, Earlier) /\ IsFiniteSet(S)
    BY ItemsAreOrdered
  <1>2. \A i \in S : Costs(S)[i] = CostOf(i) /\ CostOf(i) \in Nat
    BY CostsAreNumbers DEF Costs, AreKept
  <1>3. Budget[k] \in Nat
    BY BudgetsAreNumbers
  <1>4. Block(S, k) = SelectWithinBudget(S, LastListed, Budget[k], Costs(S))
    BY DEF Block, Costs
  <1>5. Budgeted(S, SelectWithinBudget(S, LastListed, Budget[k], Costs(S)), Earlier, Costs(S), Budget[k])
    BY <1>1, <1>2, <1>3, Selected
  <1> QED
    BY <1>1, <1>2, <1>4, <1>5

LEMMA ListIsKept ==
  ASSUME NEW a, NEW k
  PROVE  AreKept(ListForContext(a, k)) /\ AreKept(Of(a, k)) /\ AreKept(OfThePage(Page(a, k)))
         /\ ListForContext(a, k) = {i \in Of(a, k) : Enabled(i)}
  BY DEF AreKept, ListForContext, Of, OfThePage, Page

\* What is left out does not fit beside the items sent that come before it.
LEMMA NothingHidden == ASSUME ItemsAreKnown PROVE NoneIsHidden
  <1> SUFFICES ASSUME NEW a \in Owners, NEW k \in ItemKinds,
                      NEW i \in ListForContext(a, k) \ InTurn(a, k)
               PROVE  CostOf(i) + Total({j \in InTurn(a, k) : Before(j, i)}) > Budget[k]
    BY DEF NoneIsHidden
  <1> DEFINE S == ListForContext(a, k)  T == InTurn(a, k)  w == Costs(S)
             before == {j \in T : Before(j, i)}
  <1>1. /\ Budgeted(S, T, Earlier, w, Budget[k])
        /\ IsFiniteSet(S) /\ \A j \in S : w[j] = CostOf(j) /\ CostOf(j) \in Nat
    BY ListIsKept, BlockIs DEF InTurn
  <1>2. S \subseteq Ids /\ T \subseteq S /\ i \in S /\ i \notin T
    BY <1>1, ListIsKept DEF Budgeted, AreKept
  <1>3. Prior(T, i, Earlier) = before
    BY <1>2 DEF Prior, Earlier
  <1>4. ~(w[i] + SumFunctionOnSet(w, before) <= Budget[k])
    <2> HIDE DEF S, T, w, before
    <2> QED
      BY <1>1, <1>2, <1>3 DEF Budgeted
  <1>5. before \subseteq S
    BY <1>2
  <1> HIDE DEF S, T, before, w
  <1>6. SumFunctionOnSet(w, before) \in Nat /\ IsFiniteSet(before)
    BY <1>1, <1>5, PartsHaveSums
  <1>7. Total(before) = SumFunctionOnSet(w, before)
    <2> DEFINE v == [j \in before |-> CostOf(j)]
    <2>1. \A j \in before : v[j] = w[j]
      BY <1>1, <1>5
    <2>2. SumFunctionOnSet(v, before) = SumFunctionOnSet(w, before)
      <3> HIDE DEF v
      <3> QED
        BY <1>6, <2>1, SumAgrees
    <2> QED
      BY <2>2 DEF Total
  <1>8. Budget[k] \in Nat /\ CostOf(i) \in Nat /\ w[i] = CostOf(i)
    BY <1>1, <1>2, BudgetsAreNumbers
  <1>9. CostOf(i) + Total(before) > Budget[k]
    BY <1>4, <1>6, <1>7, <1>8
  <1> QED
    BY <1>9 DEF before, T

\* The page is the first of the items.
LEMMA PageIsFirst ==
  ASSUME ItemsAreKnown, NEW a, NEW k \in ItemKinds
  PROVE  /\ Page(a, k) \subseteq Of(a, k)
         /\ \A i \in Page(a, k), j \in Of(a, k) : Before(j, i) => j \in Page(a, k)
         /\ Cardinality(Of(a, k)) <= PageLimit[k] => Page(a, k) = Of(a, k)
  <1> DEFINE all == Of(a, k)
             ahead(i) == {j \in all : Before(j, i)}
  <1>1. AreKept(all) /\ IsFiniteSet(all) /\ PageLimit[k] \in Nat
    BY ListIsKept, ItemsAreOrdered, BudgetsAreNumbers
  <1>2. Page(a, k) = {i \in all : Cardinality(ahead(i)) < PageLimit[k]}
    BY DEF Page
  <1>3. \A i \in all : ahead(i) \subseteq all /\ i \notin ahead(i)
    BY <1>1, BeforeIsOrder
  <1>4. ASSUME NEW i \in all
        PROVE  IsFiniteSet(ahead(i)) /\ Cardinality(ahead(i)) \in Nat
               /\ Cardinality(ahead(i)) < Cardinality(all) /\ Cardinality(all) \in Nat
    <2> DEFINE some == ahead(i)
    <2>1. some \subseteq all /\ some # all
      BY <1>3
    <2> HIDE DEF all, ahead, some
    <2>2. IsFiniteSet(some) /\ Cardinality(some) <= Cardinality(all) /\ Cardinality(some) # Cardinality(all)
      BY <1>1, <2>1, FS_Subset
    <2>3. Cardinality(some) \in Nat /\ Cardinality(all) \in Nat
      BY <1>1, <2>2, FS_CardinalityType
    <2>4. Cardinality(some) < Cardinality(all)
      BY <2>2, <2>3
    <2> QED
      BY <2>2, <2>3, <2>4 DEF some
  <1>5. ASSUME NEW i \in Page(a, k), NEW j \in all, Before(j, i) PROVE j \in Page(a, k)
    <2>1. i \in all /\ Cardinality(ahead(i)) < PageLimit[k]
      BY <1>2
    <2>2. ahead(j) \subseteq ahead(i)
      BY <1>1, <1>5, <2>1, BeforeIsOrder
    <2> DEFINE few == ahead(j)  more == ahead(i)
    <2>3. few \subseteq more /\ IsFiniteSet(more) /\ Cardinality(more) \in Nat /\ Cardinality(few) \in Nat
      BY <1>4, <2>1, <2>2
    <2>4. Cardinality(few) <= Cardinality(more)
      <3> HIDE DEF few, more
      <3> QED
        BY <2>3, FS_Subset
    <2>5. Cardinality(few) < PageLimit[k]
      <3>1. Cardinality(more) < PageLimit[k]
        BY <2>1
      <3> HIDE DEF few, more
      <3> QED
        BY <1>1, <2>3, <2>4, <3>1
    <2> QED
      BY <1>2, <2>5
  <1>6. ASSUME Cardinality(all) <= PageLimit[k], NEW i \in all PROVE i \in Page(a, k)
    <2> DEFINE some == ahead(i)
    <2>1. Cardinality(some) \in Nat /\ Cardinality(some) < Cardinality(all) /\ Cardinality(all) \in Nat
      BY <1>4
    <2>2. Cardinality(some) < PageLimit[k]
      <3> HIDE DEF some, all, ahead
      <3> QED
        BY <1>1, <1>6, <2>1
    <2> QED
      BY <1>2, <2>2
  <1>7. Page(a, k) \subseteq all
    BY <1>2
  <1> HIDE DEF ahead
  <1> QED
    BY <1>5, <1>6, <1>7

\* The page marks as in context exactly those of its items that the turn sends.
LEMMA PageTells == ASSUME ItemsAreKnown PROVE PageTellsTheTurn
  <1> SUFFICES ASSUME NEW a \in Owners, NEW k \in ItemKinds
               PROVE  /\ InContext(a, k) = InTurn(a, k) \cap Page(a, k)
                      /\ \A i \in InTurn(a, k) : ~Oversized(i)
    BY DEF PageTellsTheTurn
  <1> DEFINE S == ListForContext(a, k)  P == OfThePage(Page(a, k))  T == InTurn(a, k)
  <1>1. AreKept(S) /\ AreKept(P) /\ S = {i \in Of(a, k) : Enabled(i)} /\ Budget[k] \in Nat
    BY ListIsKept, BudgetsAreNumbers
  <1>2. P = S \cap Page(a, k)
    BY <1>1, PageIsFirst DEF OfThePage
  <1>3. Downward(P, S, Earlier)
    <2>1. ASSUME NEW i \in P, NEW j \in S, <<j, i>> \in Earlier PROVE j \in P
      <3>1. i \in Page(a, k) /\ j \in Of(a, k) /\ Before(j, i)
        BY <1>1, <1>2, <2>1 DEF Earlier
      <3>2. j \in Page(a, k)
        BY <3>1, PageIsFirst
      <3> QED
        BY <1>2, <3>2
    <2> QED
      BY <1>2, <2>1 DEF Downward
  <1>4. /\ Budgeted(S, T, Earlier, Costs(S), Budget[k])
        /\ IsFiniteSet(S) /\ \A j \in S : Costs(S)[j] = CostOf(j) /\ CostOf(j) \in Nat
    BY <1>1, BlockIs DEF InTurn
  <1>5. \A j \in P : Costs(P)[j] = Costs(S)[j]
    BY <1>2 DEF Costs
  <1>6. Ordered(S, LastListed, Earlier)
    BY <1>1, ItemsAreOrdered
  <1>7. /\ InContext(a, k) = SelectWithinBudget(P, LastListed, Budget[k], Costs(P))
        /\ T = SelectWithinBudget(S, LastListed, Budget[k], Costs(S))
    BY DEF InContext, InTurn, Block, Costs
  <1>8. T \subseteq S
    BY <1>4 DEF Budgeted
  <1> HIDE DEF S, P, T
  <1>9. InContext(a, k) = T \cap P
    <2> DEFINE w == Costs(S)  v == Costs(P)  room == Budget[k]
    <2>1. \A j \in S : w[j] \in Nat
      BY <1>4
    <2>2. \A j \in P : v[j] = w[j]
      BY <1>5
    <2>3. IsFiniteSet(S) /\ room \in Nat
      BY <1>1, <1>4
    <2> HIDE DEF w, v, room
    <2>4. SelectWithinBudget(P, LastListed, room, v) = SelectWithinBudget(S, LastListed, room, w) \cap P
      BY <1>3, <1>6, <2>1, <2>2, <2>3, FirstOnesTaken
    <2> QED
      BY <1>7, <2>4 DEF w, v, room
  <1>10. InContext(a, k) = T \cap Page(a, k)
    BY <1>2, <1>8, <1>9
  <1>11. ASSUME NEW i \in T PROVE ~Oversized(i)
    <2>1. i \in S /\ Costs(S)[i] + SumFunctionOnSet(Costs(S), Prior(T, i, Earlier)) <= Budget[k]
      BY <1>4, <1>8, <1>11 DEF Budgeted
    <2>2. Prior(T, i, Earlier) \subseteq S
      BY <1>8 DEF Prior
    <2> DEFINE beside == SumFunctionOnSet(Costs(S), Prior(T, i, Earlier))
    <2>3. beside \in Nat
      BY <1>4, <2>2, PartsHaveSums
    <2> HIDE DEF beside
    <2>4. CostOf(i) \in Nat /\ CostOf(i) + beside <= Budget[k]
      BY <1>4, <2>1 DEF beside
    <2>5. items[i].kind = k
      BY <1>1, <2>1 DEF S, ListForContext, Of
    <2> QED
      BY <1>1, <2>3, <2>4, <2>5 DEF Oversized
  <1> QED
    BY <1>10, <1>11 DEF T

--------------------------------------------------------------------------------
(* What one step may do to the items.                                      *)

\* An item is as it was, or was deleted, or is one that was just written.
Rewritten(i) ==
  \/ items'[i] = items[i]
  \/ Kept(i) /\ items'[i] = [items[i] EXCEPT !.state = "deleted"]
  \/ /\ clock' = clock + 1 /\ items'[i].updated = clock + 1 /\ items'[i].state = "live"
     /\ IsTyped(items'[i], clock + 1) /\ FromIsTrue(items'[i])

\* Their origins stay, ids stay in order, and a field stays as it was asked unless two
\* edits crossed.
ItemsEvolve ==
  /\ (items = [i \in Ids |-> items[i]] /\ \A i \in Ids : IsItem(items[i]))'
  /\ UsedInOrder' /\ SwitchIsKept'
  /\ \A i \in Ids :
       /\ items[i].state # "unused" => Origin(items'[i]) = Origin(items[i]) /\ items'[i].state # "unused"
       /\ items[i].state = "deleted" => items'[i] = items[i]
       /\ Rewritten(i)
  /\ clock' \in {clock, clock + 1}

\* What is written anew.
WellMade(m) ==
  /\ IsItem(m) /\ m.state = "live" /\ m.enabled = m.asked /\ m.updated = clock + 1
  /\ IsTyped(m, clock + 1) /\ FromIsTrue(m)

\* The next id is one more than those in use.
LEMMA NextIdIsFree ==
  ASSUME NEW n \in 0..MaxItems,
         \A i \in Ids : items[i].state # "unused" <=> i <= n
  PROVE  NextId = n + 1
  <1> DEFINE Used == {i \in Ids : items[i].state # "unused"}
  <1>0. MaxItems \in Nat
    BY MemoryAssumption DEF MemoryAssumption
  <1>1. Used = 1..n
    BY <1>0 DEF Ids
  <1>3. NextId = Cardinality(Used) + 1
    BY DEF NextId
  <1> HIDE DEF Used
  <1>2. Cardinality(1..n) = n
    BY FS_Interval
  <1> QED
    BY <1>1, <1>2, <1>3

\* Items that take the next ids disturb none in use, if they are well formed.
LEMMA CreatingKeeps ==
  ASSUME MemoryIInv, NEW ids, NEW new, NEW k \in Nat,
         ids = NextId..(NextId + k - 1), ids \subseteq Ids,
         new = [i \in ids |-> new[i]], Write(new),
         \A i \in ids : WellMade(new[i])
  PROVE  ItemsEvolve
  <1>0. \A i \in ids : /\ IsItem(new[i]) /\ new[i].state = "live" /\ new[i].enabled = new[i].asked
                       /\ new[i].updated = clock + 1 /\ IsTyped(new[i], clock + 1) /\ FromIsTrue(new[i])
    BY DEF WellMade
  <1>1. PICK n \in 0..MaxItems : \A i \in Ids : items[i].state # "unused" <=> i <= n
    BY DEF MemoryIInv, UsedInOrder
  <1>2. NextId = n + 1
    BY <1>1, NextIdIsFree
  <1>3. MaxItems \in Nat /\ n \in Nat /\ n <= MaxItems
    BY MemoryAssumption DEF MemoryAssumption
  <1>4. items' = [i \in Ids |-> IF i \in ids THEN new[i] ELSE items[i]]
    BY DEF Write
  <1>5. \A i \in Ids : i \in ids <=> n + 1 <= i /\ i <= n + k
    BY <1>2, <1>3 DEF Ids
  <1>6. \A i \in Ids : IsItem(items[i])
    BY DEF MemoryIInv
  <1>7. \A i \in Ids : IsItem(items'[i])
    BY <1>0, <1>4, <1>6
  <1>8. UsedInOrder'
    <2>1. n + k <= MaxItems
      <3>1. CASE k = 0
        BY <3>1, <1>3
      <3>2. CASE k # 0
        <4>1. n + k \in ids
          BY <3>2, <1>2, <1>3
        <4> QED
          BY <4>1, <1>3 DEF Ids
      <3> QED
        BY <3>1, <3>2
    <2>2. \A i \in Ids : items'[i].state # "unused" <=> i <= n + k
      <3> SUFFICES ASSUME NEW i \in Ids
                   PROVE  items'[i].state # "unused" <=> i <= n + k
        OBVIOUS
      <3>1. i \in Int
        BY <1>3 DEF Ids
      <3>2. CASE i \in ids
        <4>1. items'[i].state = "live"
          BY <3>2, <1>0, <1>4
        <4> QED
          BY <4>1, <3>1, <3>2, <1>5
      <3>3. CASE i \notin ids
        <4>1. items'[i] = items[i]
          BY <3>3, <1>4
        <4> QED
          BY <4>1, <3>1, <3>3, <1>1, <1>3, <1>5
      <3> QED
        BY <3>2, <3>3
    <2> QED
      BY <2>1, <2>2, <1>3 DEF UsedInOrder
  <1>9. \A i \in Ids : items[i].state # "unused" => items'[i] = items[i]
    BY <1>1, <1>3, <1>4, <1>5 DEF Ids
  <1>10. SwitchIsKept'
    BY <1>0, <1>4 DEF MemoryIInv, SwitchIsKept, Kept
  <1>11. \A i \in Ids : items[i].state = "deleted" => items'[i] = items[i]
    BY <1>9
  <1>12. clock' = clock + 1
    BY DEF Write
  <1>13. \A i \in Ids : Rewritten(i)
    BY <1>0, <1>4, <1>12 DEF Rewritten
  <1> QED
    BY <1>4, <1>7, <1>8, <1>9, <1>10, <1>11, <1>12, <1>13 DEF ItemsEvolve

\* A new item starts as it was asked to be; its text, agent and origin are as given.
LEMMA NewItem ==
  ASSUME clock \in Nat, NEW kind \in ItemKinds, NEW a \in Owners, NEW text \in Texts(kind), NEW from, NEW seq,
         NEW proposed, kind = "source" => ~proposed, proposed => from # Nothing,
         from # Nothing => /\ from \in Threads /\ OwnerOf[from] = a
                           /\ seq \in Shown(from) \/ (seq = 0 /\ ~proposed),
         NEW m, m = New(kind, a, text, from, seq, proposed)
  PROVE  WellMade(m)
  <1>1. /\ m.kind = kind /\ m.agent = a /\ m.text = text /\ m.from = from /\ m.seq = seq
        /\ m.proposed = proposed /\ m.pinned = FALSE /\ m.updated = clock + 1 /\ m.state = "live"
        /\ m.enabled = m.asked
    BY DEF New
  <1>2. IsItem(m)
    BY DEF New, IsItem
  <1>3. clock + 1 \in 1..(clock + 1)
    OBVIOUS
  <1> QED
    BY <1>1, <1>2, <1>3 DEF WellMade, IsTyped, FromIsTrue

LEMMA CreateKeeps ==
  ASSUME MemoryIInv, CreateMemory \/ CreateSource
  PROVE  ItemsEvolve
  <1>1. PICK kind, a, text, from, seq :
          /\ kind \in ItemKinds /\ a \in Owners /\ text \in Texts(kind) /\ NextId \in Ids
          /\ Write(Alone(NextId, New(kind, a, text, from, seq, FALSE)))
          /\ from # Nothing => from \in Threads /\ OwnerOf[from] = a /\ (seq \in Shown(from) \/ seq = 0)
    <2>1. CASE CreateMemory
      <3>1. PICK a, f, t :
              /\ a \in Owners /\ f \in Facts /\ t \in OwnThreads(a) \cup {Nothing}
              /\ \E s \in IF t = Nothing THEN {0} ELSE Shown(t) \cup {0} :
                   Write(Alone(NextId, New("memory", a, f, t, s, FALSE)))
        BY <2>1 DEF CreateMemory
      <3>2. PICK s \in IF t = Nothing THEN {0} ELSE Shown(t) \cup {0} :
              Write(Alone(NextId, New("memory", a, f, t, s, FALSE)))
        BY <3>1
      <3>3. t # Nothing => t \in Threads /\ OwnerOf[t] = a /\ (s \in Shown(t) \/ s = 0)
        BY <3>1 DEF OwnThreads
      <3>4. "memory" \in ItemKinds /\ f \in Texts("memory") /\ NextId \in Ids
        BY <2>1, <3>1 DEF ItemKinds, Texts, CreateMemory
      <3> QED
        BY <3>1, <3>2, <3>3, <3>4
    <2>2. CASE CreateSource
      <3>1. PICK a \in Owners, d \in Documents :
              Write(Alone(NextId, New("source", a, d, Nothing, 0, FALSE)))
        BY <2>2 DEF CreateSource
      <3>2. "source" \in ItemKinds /\ d \in Texts("source") /\ NextId \in Ids
        BY <2>2 DEF ItemKinds, Texts, CreateSource
      <3> QED
        BY <3>1, <3>2
    <2> QED
      BY <2>1, <2>2
  <1> DEFINE ids == {NextId}
             m == New(kind, a, text, from, seq, FALSE)
             new == Alone(NextId, m)
  <1>2. ids = NextId..(NextId + 1 - 1)
    BY <1>1, IdsAreFinite
  <1>3. WellMade(m)
    <2>1. clock \in Nat
      BY DEF MemoryIInv
    <2> QED
      BY <1>1, <2>1, NewItem
  <1>4. new = [i \in ids |-> new[i]] /\ \A i \in ids : WellMade(new[i])
    <2>1. new = [i \in ids |-> m]
      BY DEF Alone
    <2> HIDE DEF m, ids, new
    <2> QED
      BY <1>3, <2>1
  <1> HIDE DEF new, ids, m
  <1> QED
    BY <1>1, <1>2, <1>4, CreatingKeeps DEF new, ids, m

\* The memories a user keeps take as many ids as there are of them (ConfirmCandidates);
\* each is a candidate, and comes from the thread that was read.
LEMMA ConfirmKeeps ==
  ASSUME MemoryIInv, NEW c \in Requests, Confirm(c)
  PROVE  ItemsEvolve
  <1> DEFINE ids(kept) == NextId..(NextId + Cardinality(kept) - 1)
             thread == requests[c].thread
             Made(x) == New("memory", OwnerOf[thread], x, thread, Provenance(requests[c]), TRUE)
  <1>0. PICK kept \in SUBSET DOMAIN requests[c].candidates :
          /\ ids(kept) \subseteq Ids
          /\ \E place \in [ids(kept) -> kept] :
               /\ Range(place) = kept
               /\ Write([i \in ids(kept) |-> Made(requests[c].candidates[place[i]])])
    BY DEF Confirm
  <1>1. PICK place \in [ids(kept) -> kept] :
          /\ Range(place) = kept
          /\ Write([i \in ids(kept) |-> Made(requests[c].candidates[place[i]])])
    BY <1>0
  <1>2. IsFiniteSet(kept)
    <2>1. IsFiniteSet(ids(kept))
      BY IdsAreFinite, <1>0, FS_Subset
    <2>2. place \in Surjection(ids(kept), kept)
      BY <1>1 DEF Range, Surjection
    <2> QED
      BY <2>1, <2>2, FS_Surjection
  <1>4. Cardinality(kept) \in Nat
    BY <1>2, FS_CardinalityType
  <1>3. ASSUME NEW x \in Range(requests[c].candidates) PROVE WellMade(Made(x))
    <2>1. /\ thread \in Threads /\ requests[c].effective \in Shown(thread)
          /\ Range(requests[c].candidates) \subseteq Facts /\ clock \in Nat
      BY DEF Confirm, Doing, MemoryIInv, RequestKnows, ReadKnows
    <2>2. thread # Nothing /\ OwnerOf[thread] \in Owners
      BY <2>1, MemoryAssumption DEF MemoryAssumption
    <2>3. "memory" \in ItemKinds /\ x \in Texts("memory")
      BY <2>1 DEF ItemKinds, Texts
    <2> QED
      BY <2>1, <2>2, <2>3, NewItem DEF Provenance
  <1> DEFINE new == [i \in ids(kept) |-> Made(requests[c].candidates[place[i]])]
  <1>5. new = [i \in ids(kept) |-> new[i]] /\ \A i \in ids(kept) : WellMade(new[i])
    <2>1. \A i \in ids(kept) : new[i] = Made(requests[c].candidates[place[i]])
      OBVIOUS
    <2>2. \A i \in ids(kept) : requests[c].candidates[place[i]] \in Range(requests[c].candidates)
      BY <1>0, <1>1 DEF Range
    <2> HIDE DEF Made
    <2>3. \A i \in ids(kept) : WellMade(new[i])
      BY <1>3, <2>1, <2>2
    <2> QED
      BY <2>3
  <1>6. Write(new)
    BY <1>1
  <1> HIDE DEF new
  <1> QED
    BY <1>0, <1>4, <1>5, <1>6, CreatingKeeps

\* An item in use is deleted, or written back whole by an edit that read it: its origin is
\* not among the columns an update writes (memories.go, UpdateMemory).
LEMMA RewritingKeeps ==
  ASSUME MemoryIInv, NEW i \in Ids, NEW m,
         items' = [j \in Ids |-> IF j = i THEN m ELSE items[j]],
         items[i].state = "live", IsItem(m), m.state # "unused",
         Origin(m) = Origin(items[i]),
         m.state = "live" /\ ~m.mixed => m.enabled = m.asked,
         \/ clock' = clock /\ m = [items[i] EXCEPT !.state = "deleted"]
         \/ /\ clock' = clock + 1 /\ m.updated = clock + 1 /\ m.state = "live"
            /\ IsTyped(m, clock + 1) /\ FromIsTrue(m)
  PROVE  ItemsEvolve
  <1>1. \A j \in Ids : items'[j] = IF j = i THEN m ELSE items[j]
    OBVIOUS
  <1>2. UsedInOrder'
    BY <1>1 DEF MemoryIInv, UsedInOrder
  <1>3. \A j \in Ids : Rewritten(j)
    BY <1>1 DEF Rewritten, Kept
  <1>4. clock' \in {clock, clock + 1}
    OBVIOUS
  <1> QED
    BY <1>1, <1>2, <1>3, <1>4 DEF MemoryIInv, ItemsEvolve, SwitchIsKept, Kept

LEMMA DeleteKeeps ==
  ASSUME MemoryIInv, Delete
  PROVE  ItemsEvolve
  <1>1. PICK i \in Ids : Kept(i) /\ items' = [items EXCEPT ![i].state = "deleted"]
    BY DEF Delete
  <1> DEFINE old == items[i]
             m == [old EXCEPT !.state = "deleted"]
  <1>2. items' = [j \in Ids |-> IF j = i THEN m ELSE items[j]]
    BY <1>1 DEF MemoryIInv
  <1>3. IsItem(old)
    BY DEF MemoryIInv
  <1>4. /\ IsItem(m) /\ m.state = "deleted" /\ Origin(m) = Origin(old)
    BY <1>3 DEF IsItem, Origin
  <1>5. clock' = clock
    BY DEF Delete
  <1>6. m = [items[i] EXCEPT !.state = "deleted"] /\ items[i].state = "live"
    BY <1>1 DEF Kept
  <1> HIDE DEF m
  <1> QED
    BY <1>1, <1>2, <1>4, <1>5, <1>6, RewritingKeeps

LEMMA RestingKeeps ==
  ASSUME MemoryIInv, UNCHANGED <<items, clock>>
  PROVE  ItemsEvolve
  BY DEF MemoryIInv, ItemsEvolve, UsedInOrder, SwitchIsKept, Kept, Rewritten

LEMMA OriginTells ==
  ASSUME NEW m, NEW n, Origin(m) = Origin(n)
  PROVE  /\ m.kind = n.kind /\ m.agent = n.agent /\ m.proposed = n.proposed
         /\ FromIsTrue(n) => FromIsTrue(m)
  BY DEF Origin, FromIsTrue

LEMMA WriteUpdateKeeps ==
  ASSUME MemoryIInv, NEW c \in Requests, WriteUpdate(c)
  PROVE  ItemsEvolve
  <1> DEFINE i == requests[c].id
             set == requests[c].set
             asked == IF set.enabled = requests[c].read.enabled THEN items[i].asked ELSE set.enabled
             mixed == items[i].mixed \/ Columns(items[i]) # Columns(requests[c].read)
             m == [set EXCEPT !.updated = clock + 1, !.asked = asked, !.mixed = mixed]
  <1>1. /\ i \in Ids /\ IsItem(set) /\ set.state = "live" /\ Origin(set) = Origin(items[i])
        /\ set.text \in Texts(set.kind) /\ set.pinned \in BOOLEAN /\ (set.kind = "source" => ~set.pinned)
    BY DEF WriteUpdate, MemoryIInv, RequestKnows, EditKnows, Doing
  <1>2. /\ IsItem(m) /\ m.state = "live" /\ Origin(m) = Origin(set)
        /\ m.mixed = mixed /\ m.asked = asked /\ m.enabled = set.enabled
        /\ m.text = set.text /\ m.pinned = set.pinned /\ m.updated = clock + 1
    <2>1. mixed \in BOOLEAN
      BY <1>1 DEF MemoryIInv, IsItem
    <2> HIDE DEF mixed, asked, set
    <2> DEFINE m1 == [set EXCEPT !.updated = clock + 1]
               m2 == [m1 EXCEPT !.asked = asked]
    <2>2. /\ IsItem(m1) /\ m1.state = "live" /\ Origin(m1) = Origin(set)
          /\ m1.enabled = set.enabled
          /\ m1.text = set.text /\ m1.pinned = set.pinned /\ m1.updated = clock + 1
      BY <1>1 DEF IsItem, Origin
    <2> HIDE DEF m1
    <2>3. /\ IsItem(m2) /\ m2.state = "live" /\ Origin(m2) = Origin(set)
          /\ m2.enabled = set.enabled /\ m2.asked = asked
          /\ m2.text = set.text /\ m2.pinned = set.pinned /\ m2.updated = clock + 1
      BY <2>2 DEF IsItem, Origin
    <2>4. m = [m2 EXCEPT !.mixed = mixed]
      BY DEF m1
    <2> HIDE DEF m, m2
    <2> QED
      BY <2>1, <2>3, <2>4 DEF IsItem, Origin
  <1>3. CASE ~Editable(i)
    BY <1>3, RestingKeeps DEF WriteUpdate
  <1>4. CASE Editable(i)
    <2>1. items' = [j \in Ids |-> IF j = i THEN m ELSE items[j]]
      BY <1>4 DEF WriteUpdate, Write, Alone
    <2>2. ASSUME ~mixed PROVE asked = set.enabled
      <3>1. items[i].enabled = items[i].asked
        BY <1>1, <1>4, <2>2 DEF MemoryIInv, SwitchIsKept, Editable, Kept
      <3>2. items[i].enabled = requests[c].read.enabled
        BY <2>2 DEF Columns
      <3> QED
        BY <3>1, <3>2
    <2>3. clock' = clock + 1 /\ items[i].state = "live"
      BY <1>4 DEF WriteUpdate, Write, Editable, Kept
    <2>4. IsTyped(items[i], clock) /\ FromIsTrue(items[i]) /\ clock \in Nat
      BY <1>1, <2>3 DEF MemoryIInv, ItemsAreKnown, ProvenanceIsTrue
    <2> HIDE DEF m, asked, mixed, set, i
    <2>5. Origin(m) = Origin(items[i]) /\ m.kind = set.kind
      BY <1>1, <1>2, OriginTells
    <2>6. FromIsTrue(m) /\ m.kind = items[i].kind /\ m.agent = items[i].agent
          /\ m.proposed = items[i].proposed
      BY <2>4, <2>5, OriginTells
    <2>7. IsTyped(m, clock + 1)
      <3>1. clock + 1 \in 1..(clock + 1)
        BY <2>4
      <3> QED
        BY <1>1, <1>2, <2>4, <2>5, <2>6, <3>1 DEF IsTyped
    <2> QED
      BY <1>1, <1>2, <2>1, <2>2, <2>3, <2>5, <2>6, <2>7, RewritingKeeps
  <1> QED
    BY <1>3, <1>4

--------------------------------------------------------------------------------
(* What one step may do to the log, and what is still known of the items.  *)

\* Messages are added and truncated, and never come back (DeleteFromSeq).
LogKeeps ==
  /\ log' \in Seq(LogRow) /\ Len(log) <= Len(log')
  /\ \A s \in DOMAIN log : log'[s].thread = log[s].thread /\ (log'[s].there => log[s].there)

LEMMA LogStep ==
  ASSUME MemoryIInv, [MemoryNext]_memoryVars
  PROVE  LogKeeps
  <1>0. log \in Seq(LogRow) /\ DOMAIN log = 1..Len(log) /\ Len(log) \in Nat
    BY DEF MemoryIInv
  <1>1. CASE UNCHANGED log
    BY <1>0, <1>1 DEF LogKeeps
  <1>2. CASE Message
    <2>1. PICK t \in Threads, size \in Sizes \cup {0} :
            log' = Append(log, [thread |-> t, size |-> size, there |-> TRUE])
      BY <1>2 DEF Message
    <2> DEFINE row == [thread |-> t, size |-> size, there |-> TRUE]
    <2>2. row \in LogRow
      BY DEF LogRow
    <2> HIDE DEF row
    <2>3. log' = Append(log, row)
      BY <2>1 DEF row
    <2> QED
      BY <1>0, <2>2, <2>3 DEF LogKeeps
  <1>3. CASE Truncate
    <2>1. PICK s \in DOMAIN log :
            log' = [q \in DOMAIN log |->
                      IF q >= s /\ log[q].thread = log[s].thread
                      THEN [log[q] EXCEPT !.there = FALSE] ELSE log[q]]
      BY <1>3 DEF Truncate
    <2>2. ASSUME NEW q \in DOMAIN log
          PROVE  /\ log'[q] \in LogRow /\ log'[q].thread = log[q].thread
                 /\ log'[q].there => log[q].there
      <3>1. log[q] \in LogRow
        BY <1>0
      <3>2. log'[q] = log[q] \/ log'[q] = [log[q] EXCEPT !.there = FALSE]
        BY <2>1
      <3> QED
        BY <3>1, <3>2 DEF LogRow
    <2>3. log' = [q \in 1..Len(log) |-> log'[q]]
      BY <1>0, <2>1
    <2>4. log' \in Seq(LogRow) /\ Len(log') = Len(log)
      BY <1>0, <2>2, <2>3
    <2> QED
      BY <1>0, <2>2, <2>4 DEF LogKeeps
  <1> QED
    BY <1>1, <1>2, <1>3 DEF MemoryNext, memoryVars, CreateMemory, CreateSource, Delete,
       Consolidate, ReadThread, Answer, MarkDuplicates, Confirm, Update, WriteUpdate, Abandon

\* What a thread had it has, and of what it had then only some is left.
LEMMA ThreadsKeep ==
  ASSUME MemoryIInv, LogKeeps, NEW t
  PROVE  /\ Shown(t) \subseteq Shown(t)'
         /\ \A s \in InThread(t)', q \in Shown(t) : s <= q => s \in InThread(t)
  <1>1. /\ DOMAIN log = 1..Len(log) /\ DOMAIN log' = 1..Len(log')
        /\ Len(log) \in Nat /\ Len(log') \in Nat /\ Len(log) <= Len(log')
    BY DEF MemoryIInv, LogKeeps
  <1> QED
    BY <1>1 DEF LogKeeps, Shown, InThread

LEMMA ItemsKnownStep ==
  ASSUME MemoryIInv, ItemsEvolve, LogKeeps
  PROVE  ItemsAreKnown'
  <1> SUFFICES ASSUME NEW i \in Ids
               PROVE  /\ FromIsTrue(items[i])'
                      /\ (items[i].state # "unused" => IsTyped(items[i], clock))'
    BY DEF ItemsAreKnown, ProvenanceIsTrue
  <1>1. PICK m : m = items'[i]
    OBVIOUS
  <1>2. PICK now : now = clock'
    OBVIOUS
  <1>3. /\ FromIsTrue(items[i]) /\ clock \in Nat /\ IsItem(items[i])
        /\ items[i].state # "unused" => IsTyped(items[i], clock)
    BY DEF MemoryIInv, ItemsAreKnown, ProvenanceIsTrue
  <1>4. FromIsTrue(m) /\ (m.state # "unused" => IsTyped(m, now))
    <2>1. CASE m = items[i]
      <3>1. now \in Nat /\ clock <= now
        BY <1>2, <1>3 DEF ItemsEvolve
      <3> QED
        BY <1>3, <2>1, <3>1 DEF IsTyped
    <2>2. CASE Kept(i) /\ m = [items[i] EXCEPT !.state = "deleted"]
      <3>1. now \in Nat /\ clock <= now
        BY <1>2, <1>3 DEF ItemsEvolve
      <3>2. /\ m.kind = items[i].kind /\ m.agent = items[i].agent /\ m.text = items[i].text
            /\ m.updated = items[i].updated /\ m.pinned = items[i].pinned
            /\ m.proposed = items[i].proposed /\ m.from = items[i].from /\ m.seq = items[i].seq
        BY <2>2
      <3>3. IsTyped(items[i], clock)
        BY <1>3, <2>2 DEF Kept
      <3>4. IsTyped(m, now)
        BY <1>3, <3>1, <3>2, <3>3 DEF IsTyped
      <3>5. FromIsTrue(m)
        BY <1>3, <3>2 DEF FromIsTrue
      <3> QED
        BY <3>4, <3>5
    <2>3. CASE clock' = clock + 1 /\ IsTyped(m, clock + 1) /\ FromIsTrue(m)
      BY <1>2, <2>3
    <2> QED
      BY <1>1, <2>1, <2>2, <2>3 DEF ItemsEvolve, Rewritten
  <1>5. m.from # Nothing => m.from \in Threads /\ Shown(m.from) \subseteq Shown(m.from)'
    <2>1. PICK t : t = m.from
      OBVIOUS
    <2> QED
      BY <1>4, <2>1, ThreadsKeep DEF FromIsTrue
  <1>6. FromIsTrue(m)'
    BY <1>4, <1>5 DEF FromIsTrue
  <1> QED
    BY <1>1, <1>2, <1>4, <1>6 DEF FromIsTrue, IsTyped

--------------------------------------------------------------------------------
(* What a request knows, while other requests write.                       *)

LEMMA EditStays ==
  ASSUME ItemsEvolve, NEW call, EditKnows(call)
  PROVE  EditKnows(call)'
  BY DEF EditKnows, ItemsEvolve

\* A memory equal to a candidate that is not marked was written since.
LEMMA MarksStay ==
  ASSUME MemoryIInv, ItemsEvolve, NEW call, call.at \in 0..clock, IsMarked(call)
  PROVE  IsMarked(call)' /\ (call.at \in 0..clock)'
  <1>1. clock \in Nat /\ clock' \in {clock, clock + 1}
    BY DEF MemoryIInv, ItemsEvolve
  <1>2. SUFFICES ASSUME NEW x \in Range(call.candidates) \ call.marked, NEW i \in Ids,
                        items'[i].state = "live", items'[i].agent = OwnerOf[call.thread],
                        items'[i].kind = "memory", items'[i].text = x, ~call.full
                 PROVE  items'[i].updated > call.at
    BY <1>1 DEF IsMarked, Of, Kept
  <1>3. CASE items'[i] = items[i]
    BY <1>2, <1>3 DEF IsMarked, Of, Kept
  <1>4. CASE Kept(i) /\ items'[i] = [items[i] EXCEPT !.state = "deleted"]
    <2>1. IsItem(items[i])
      BY DEF MemoryIInv
    <2>2. items'[i].state = "deleted"
      BY <1>4, <2>1 DEF IsItem
    <2> QED
      BY <1>2, <2>2
  <1>5. CASE items'[i].updated = clock + 1
    BY <1>1, <1>5
  <1> QED
    BY <1>3, <1>4, <1>5 DEF ItemsEvolve, Rewritten

LEMMA ReadingStays ==
  ASSUME MemoryIInv, ItemsEvolve, LogKeeps, NEW call, ReadKnows(call)
  PROVE  ReadKnows(call)'
  <1>1. PICK t : t = call.thread
    OBVIOUS
  <1>2. /\ Shown(t) \subseteq Shown(t)'
        /\ \A s \in InThread(t)', q \in Shown(t) : s <= q => s \in InThread(t)
    BY ThreadsKeep
  <1>3. call.op = "shown" => IsMarked(call)' /\ (call.at \in 0..clock)'
    BY MarksStay DEF ReadKnows
  <1>4. ASSUME call.op = "read"
        PROVE  /\ call.upTo \in Shown(t)' \cup {0}
               /\ \A s \in InThread(t)' : s <= call.upTo => s \in call.existed
    <2>1. /\ call.upTo \in Shown(t) \cup {0}
          /\ \A s \in InThread(t) : s <= call.upTo => s \in call.existed
      BY <1>1, <1>4 DEF ReadKnows
    <2>2. \A s \in InThread(t)' : s \in Nat /\ s > 0
      <3>1. DOMAIN log' = 1..Len(log') /\ Len(log') \in Nat
        BY DEF LogKeeps
      <3> QED
        BY <3>1 DEF InThread
    <2> QED
      BY <1>2, <2>1, <2>2
  <1>5. ASSUME call.op # "read" PROVE call.effective \in Shown(t)'
    BY <1>1, <1>2, <1>5 DEF ReadKnows
  <1> QED
    BY <1>1, <1>3, <1>4, <1>5 DEF ReadKnows, Shown, InThread

LEMMA RequestStays ==
  ASSUME MemoryIInv, ItemsEvolve, LogKeeps, NEW call, RequestKnows(call)
  PROVE  RequestKnows(call)'
  <1>1. PICK t : t = call.thread
    OBVIOUS
  <1>2. Shown(t) \subseteq Shown(t)'
    BY ThreadsKeep
  <1>3. call.op = "write" => EditKnows(call)'
    BY EditStays DEF RequestKnows
  <1>4. call.op \in {"read", "answer", "mark", "shown"} => ReadKnows(call)'
    BY ReadingStays DEF RequestKnows
  <1>5. call.op = "answer" => call.window \subseteq Shown(t)'
    BY <1>1, <1>2 DEF RequestKnows
  <1> QED
    BY <1>1, <1>3, <1>4, <1>5 DEF RequestKnows, Shown

--------------------------------------------------------------------------------
(* Reading a thread (consolidation.go).                                    *)

\* The window is some of what the thread has, none of it after the ceiling.
LEMMA WindowIs ==
  ASSUME MemoryIInv, NEW t, NEW upTo
  PROVE  /\ Window(t, upTo) \subseteq InThread(t)
         /\ \A s \in Window(t, upTo) : s <= Ceiling(upTo)
  <1> DEFINE S == {s \in ListUpToSeq(t, upTo) : HasContent(s)}
             Newer == {p \in Nat \X Nat : p[1] > p[2]}
             w == Weight
  <1>1. DOMAIN log = 1..Len(log) /\ Len(log) \in Nat /\ log \in Seq(LogRow)
    BY DEF MemoryIInv
  <1>2. S \subseteq DOMAIN log /\ S \subseteq InThread(t) /\ \A s \in S : s <= Ceiling(upTo)
    BY DEF ListUpToSeq, InThread
  <1>3. IsFiniteSet(S)
    <2>1. IsFiniteSet(1..Len(log))
      BY <1>1, FS_Interval
    <2> HIDE DEF S
    <2> QED
      BY <1>1, <1>2, <2>1, FS_Subset
  <1>4. \A s \in S : w[s] \in Nat
    <2>1. ASSUME NEW s \in DOMAIN log PROVE log[s].size \in Sizes \cup {0}
      <3>1. log[s] \in LogRow
        BY <1>1
      <3> QED
        BY <3>1 DEF LogRow
    <2>2. Sizes \cup {0} \subseteq Nat
      BY MemoryAssumption DEF MemoryAssumption
    <2> HIDE DEF S
    <2> QED
      BY <1>2, <2>1, <2>2 DEF Weight
  <1>5. Ordered(S, OldestOf, Newer)
    <2> HIDE DEF S
    <2>1. ASSUME NEW some \in SUBSET S, some # {}
          PROVE  /\ OldestOf[some] \in some
                 /\ \A j \in some \ {OldestOf[some]} : <<j, OldestOf[some]>> \in Newer
      <3>1. some \subseteq Nat /\ some \subseteq DOMAIN log
        BY <1>1, <1>2
      <3>2. PICK x \in some : \A y \in some : x <= y
        BY <2>1, <3>1, LowestExists
      <3>3. OldestOf[some] = Min(some)
        BY <3>1 DEF OldestOf
      <3>4. PICK lo \in some : lo = Min(some) /\ \A y \in some : lo <= y
        BY <3>2 DEF Min
      <3>5. ASSUME NEW y \in some \ {lo} PROVE <<y, lo>> \in Newer
        <4>1. y \in Nat /\ lo \in Nat /\ lo <= y /\ y # lo
          BY <3>1, <3>4
        <4>2. y > lo
          BY <4>1
        <4>3. <<y, lo>> \in Nat \X Nat
          BY <4>1
        <4> QED
          BY <4>2, <4>3
      <3> HIDE DEF Newer
      <3> QED
        BY <3>3, <3>4, <3>5
    <2>2. ASSUME NEW i \in S, NEW j \in S, <<i, j>> \in Newer PROVE <<j, i>> \notin Newer
      <3>1. i > j /\ i \in Int /\ j \in Int
        BY <1>1, <1>2, <2>2
      <3> QED
        BY <3>1
    <2> HIDE DEF Newer
    <2> QED
      BY <2>1, <2>2 DEF Ordered
  <1>6. WindowBudget \in Nat
    BY MemoryAssumption DEF MemoryAssumption
  <1>7. Window(t, upTo) = SelectWithinBudget(S, OldestOf, WindowBudget, w)
    BY DEF Window
  <1> HIDE DEF S, Newer, w
  <1>8. Budgeted(S, SelectWithinBudget(S, OldestOf, WindowBudget, w), Newer, w, WindowBudget)
    BY <1>3, <1>4, <1>5, <1>6, Selected
  <1> QED
    BY <1>2, <1>7, <1>8 DEF Budgeted

\* The newest message read is one of the thread.
LEMMA WindowHasNewest ==
  ASSUME MemoryIInv, NEW t, NEW upTo, Window(t, upTo) # {}
  PROVE  Max(Window(t, upTo)) \in Shown(t)
  <1> DEFINE window == Window(t, upTo)
  <1>1. DOMAIN log = 1..Len(log) /\ Len(log) \in Nat
    BY DEF MemoryIInv
  <1>2. InThread(t) \subseteq Shown(t) /\ InThread(t) \subseteq 0..Len(log)
    BY <1>1 DEF InThread, Shown
  <1>3. window \subseteq InThread(t) /\ window # {}
    BY WindowIs
  <1> HIDE DEF window
  <1>4. PICK x \in window : \A y \in window : y <= x
    BY <1>1, <1>2, <1>3, HighestExists
  <1>5. Max(window) \in window
    BY <1>4 DEF Max
  <1> QED
    BY <1>2, <1>3, <1>5 DEF window

\* No more than n of them have fewer than n before them.
LEMMA FirstsAreFew ==
  ASSUME NEW fit, fit \subseteq Nat, IsFiniteSet(fit), NEW n \in Nat,
         NEW first, first = {m \in fit : Cardinality({k \in fit : k < m}) < n}
  PROVE  Cardinality(first) <= n
  <1> DEFINE under(m) == {k \in fit : k < m}
             rank == [m \in first |-> Cardinality(under(m))]
             ranks == 0..(n - 1)
  <1>1. ASSUME NEW m \in fit PROVE IsFiniteSet(under(m)) /\ Cardinality(under(m)) \in Nat
    BY FS_Subset, FS_CardinalityType
  <1>2. \A m \in first : rank[m] = Cardinality(under(m)) /\ rank[m] \in ranks
    BY <1>1
  <1>3. ASSUME NEW a \in first, NEW b \in first, a < b PROVE rank[a] # rank[b]
    <2> DEFINE A == under(a)  B == under(b)
    <2>1. A \subseteq B /\ a \in B /\ a \notin A
      <3>1. fit \subseteq Nat /\ a \in fit /\ b \in fit
        OBVIOUS
      <3>2. \A k \in fit : k < a => k < b
        BY <1>3, <3>1
      <3>3. A \subseteq B
        BY <3>2
      <3>4. a \in B
        BY <1>3, <3>1
      <3>5. a \notin A
        BY <3>1
      <3> QED
        BY <3>3, <3>4, <3>5
    <2>2. IsFiniteSet(B)
      BY <1>1
    <2>3. rank[a] = Cardinality(A) /\ rank[b] = Cardinality(B)
      BY <1>2
    <2> HIDE DEF A, B, rank
    <2>4. Cardinality(A) # Cardinality(B)
      BY <2>1, <2>2, FS_Subset
    <2> QED
      BY <2>3, <2>4
  <1>4. rank \in Injection(first, ranks)
    <2>1. rank \in [first -> ranks]
      BY <1>2
    <2>2. \A a, b \in first : a # b => rank[a] # rank[b]
      <3>1. \A a, b \in first : a # b => a < b \/ b < a
        OBVIOUS
      <3> HIDE DEF rank
      <3> QED
        BY <1>3, <3>1
    <2> HIDE DEF rank, ranks
    <2> QED
      BY <2>1, <2>2 DEF Injection, IsInjective
  <1>5. IsFiniteSet(ranks) /\ Cardinality(ranks) = n
    BY FS_Interval
  <1> HIDE DEF rank, ranks
  <1> QED
    BY <1>4, <1>5, FS_Injection

\* The candidates are memories, and not too many.
LEMMA ParseIs ==
  ASSUME NEW raw \in Answers \ {Unreadable}
  PROVE  /\ Range(Parse(raw)) \subseteq Facts
         /\ Cardinality(DOMAIN Parse(raw)) <= MaxCandidates
  <1> DEFINE fit == {n \in DOMAIN raw : raw[n] # Unfit}
             first == {m \in fit : Cardinality({k \in fit : k < m}) < MaxCandidates}
  <1>1. raw \in Seq(Facts \cup {Unfit}) /\ MaxCandidates \in Nat
    BY MemoryAssumption DEF MemoryAssumption
  <1>2. DOMAIN raw = 1..Len(raw) /\ Len(raw) \in Nat
    BY <1>1
  <1>3. Parse(raw) = [n \in first |-> raw[n]]
    BY DEF Parse
  <1>4. \A n \in fit : raw[n] \in Facts
    BY <1>1, <1>2
  <1>5. Range(Parse(raw)) \subseteq Facts
    BY <1>3, <1>4 DEF Range
  <1>6. fit \subseteq Nat /\ IsFiniteSet(fit)
    <2>1. IsFiniteSet(1..Len(raw))
      BY <1>2, FS_Interval
    <2>2. fit \subseteq 1..Len(raw)
      BY <1>2
    <2> QED
      BY <1>2, <2>1, <2>2, FS_Subset
  <1>7. first = {m \in fit : Cardinality({k \in fit : k < m}) < MaxCandidates}
    OBVIOUS
  <1>8. DOMAIN Parse(raw) = first
    BY <1>3
  <1> HIDE DEF fit, first
  <1>9. Cardinality(first) <= MaxCandidates
    BY <1>1, <1>6, <1>7, FirstsAreFew
  <1> QED
    BY <1>5, <1>8, <1>9

--------------------------------------------------------------------------------
(* What a step of a caller makes of its request.                           *)

Becomes(c, call) == requests' = [d \in Requests |-> IF d = c THEN call ELSE requests[d]]
Proper(call) == IsRequest(call) /\ RequestKnows(call)

LEMMA NoRequestIsProper == Proper(NoRequest) /\ NoRequest.op = "idle"
  BY DEF Proper, NoRequest, IsRequest, RequestKnows

LEMMA DoneBecomes ==
  ASSUME MemoryIInv, NEW c \in Requests, Done(c)
  PROVE  \E call : Proper(call) /\ Becomes(c, call)
  <1>1. requests' = [d \in Requests |-> IF d = c THEN NoRequest ELSE requests[d]]
    BY DEF MemoryIInv, Done
  <1> QED
    BY <1>1, NoRequestIsProper DEF Becomes

\* An edit begins with the row it read, one field of it changed (UpdateMemory, UpdateSource).
LEMMA UpdateBecomes ==
  ASSUME MemoryIInv, NEW c \in Requests, Update(c)
  PROVE  \E call : Proper(call) /\ Becomes(c, call)
  <1>1. PICK i \in Ids :
          /\ Kept(i)
          /\ \E new : /\ \/ new = [items[i] EXCEPT !.enabled = ~items[i].enabled]
                         \/ \E x \in Texts(items[i].kind) : new = [items[i] EXCEPT !.text = x]
                         \/ items[i].kind = "memory" /\ new = [items[i] EXCEPT !.pinned = ~items[i].pinned]
                      /\ Ask(c, [NoRequest EXCEPT !.op = "write", !.id = i,
                                                  !.read = items[i], !.set = new])
    BY DEF Update
  <1>2. PICK new : /\ \/ new = [items[i] EXCEPT !.enabled = ~items[i].enabled]
                      \/ \E x \in Texts(items[i].kind) : new = [items[i] EXCEPT !.text = x]
                      \/ items[i].kind = "memory" /\ new = [items[i] EXCEPT !.pinned = ~items[i].pinned]
                   /\ Ask(c, [NoRequest EXCEPT !.op = "write", !.id = i,
                                               !.read = items[i], !.set = new])
    BY <1>1
  <1>3. IsItem(items[i]) /\ items[i].state = "live" /\ IsTyped(items[i], clock)
    BY <1>1 DEF MemoryIInv, Kept, ItemsAreKnown
  <1> DEFINE old == items[i]
  <1>4. /\ IsItem(new) /\ new.state = "live" /\ Origin(new) = Origin(old) /\ new.kind = old.kind
        /\ new.text \in Texts(old.kind) /\ new.pinned \in BOOLEAN /\ (old.kind = "source" => ~new.pinned)
    <2>1. /\ IsItem(old) /\ old.state = "live" /\ old.text \in Texts(old.kind) /\ old.pinned \in BOOLEAN
          /\ (old.kind = "source" => ~old.pinned)
          /\ \/ new = [old EXCEPT !.enabled = ~old.enabled]
             \/ \E x \in Texts(old.kind) : new = [old EXCEPT !.text = x]
             \/ old.kind = "memory" /\ new = [old EXCEPT !.pinned = ~old.pinned]
      BY <1>2, <1>3 DEF IsTyped
    <2> HIDE DEF old
    <2>2. CASE new = [old EXCEPT !.enabled = ~old.enabled]
      BY <2>1, <2>2 DEF IsItem, Origin
    <2>3. CASE \E x \in Texts(old.kind) : new = [old EXCEPT !.text = x]
      BY <2>1, <2>3 DEF IsItem, Origin
    <2>4. CASE old.kind = "memory" /\ new = [old EXCEPT !.pinned = ~old.pinned]
      <3>1. new.pinned \in BOOLEAN
        BY <2>1, <2>4 DEF IsItem
      <3> QED
        BY <2>1, <2>4, <3>1 DEF IsItem, Origin
    <2> QED
      BY <2>1, <2>2, <2>3, <2>4
  <1> DEFINE call == [NoRequest EXCEPT !.op = "write", !.id = i, !.read = items[i], !.set = new]
  <1>5. /\ call.id = i /\ call.set = new /\ IsRequest(call) /\ call.op = "write"
        /\ call.window = {} /\ call.candidates = <<>>
    BY DEF NoRequest, IsRequest
  <1>6. requests' = [requests EXCEPT ![c] = call]
    BY <1>2 DEF Ask
  <1> HIDE DEF call
  <1>7. Becomes(c, call)
    BY <1>6 DEF MemoryIInv, Becomes
  <1>8. EditKnows(call)
    BY <1>1, <1>3, <1>4, <1>5 DEF EditKnows
  <1> QED
    BY <1>5, <1>7, <1>8 DEF Proper, RequestKnows

\* A consolidation begins with the last message the client shows, or with none.
LEMMA ConsolidateBecomes ==
  ASSUME MemoryIInv, NEW c \in Requests, Consolidate(c)
  PROVE  \E call : Proper(call) /\ Becomes(c, call)
  <1>1. PICK t, upTo :
          /\ t \in Threads /\ upTo \in Shown(t) \cup {0}
          /\ Ask(c, [NoRequest EXCEPT !.op = "read", !.thread = t, !.upTo = upTo, !.existed = InThread(t)])
    BY DEF Consolidate
  <1> DEFINE call == [NoRequest EXCEPT !.op = "read", !.thread = t, !.upTo = upTo, !.existed = InThread(t)]
  <1>2. /\ IsRequest(call) /\ call.op = "read" /\ call.thread = t /\ call.upTo = upTo
        /\ call.existed = InThread(t) /\ call.window = {} /\ call.candidates = <<>>
    BY DEF NoRequest, IsRequest
  <1>3. requests' = [requests EXCEPT ![c] = call]
    BY <1>1 DEF Ask
  <1> HIDE DEF call
  <1>4. Becomes(c, call)
    BY <1>3 DEF MemoryIInv, Becomes
  <1>5. ReadKnows(call)
    BY <1>1, <1>2 DEF ReadKnows
  <1> QED
    BY <1>2, <1>4, <1>5 DEF Proper, RequestKnows

\* What is read was there when the user asked, if the client said up to where.
LEMMA ReadThreadBecomes ==
  ASSUME MemoryIInv, NEW c \in Requests, ReadThread(c)
  PROVE  \E call : Proper(call) /\ Becomes(c, call)
  <1>1. PICK old : old = requests[c]
    OBVIOUS
  <1>2. PICK window : window = Window(old.thread, old.upTo)
    OBVIOUS
  <1>3. CASE window = {}
    BY <1>1, <1>2, <1>3, DoneBecomes DEF ReadThread
  <1>4. CASE window # {}
    <2>1. requests' = [requests EXCEPT ![c].op = "answer", ![c].window = window,
                                       ![c].effective = Max(window)]
      BY <1>1, <1>2, <1>4 DEF ReadThread
    <2>2. IsRequest(old) /\ RequestKnows(old) /\ old.op = "read"
      BY <1>1 DEF MemoryIInv, ReadThread, Doing
    <2> DEFINE call == [old EXCEPT !.op = "answer", !.window = window, !.effective = Max(window)]
    <2>3. requests' = [requests EXCEPT ![c] = call]
      BY <1>1, <2>1 DEF MemoryIInv
    <2>4. /\ IsRequest(call) /\ call.op = "answer" /\ call.window = window /\ call.effective = Max(window)
          /\ call.thread = old.thread /\ call.upTo = old.upTo /\ call.existed = old.existed
          /\ call.candidates = old.candidates
      BY <2>2 DEF IsRequest, NoRequest
    <2> HIDE DEF call
    <2>5. Becomes(c, call)
      BY <2>3 DEF MemoryIInv, Becomes
    <2>6. /\ old.thread \in Threads /\ old.upTo \in Shown(old.thread) \cup {0} /\ old.candidates = <<>>
          /\ \A s \in InThread(old.thread) : s <= old.upTo => s \in old.existed
      BY <2>2 DEF RequestKnows, ReadKnows
    <2>7. /\ window \subseteq InThread(old.thread) /\ \A s \in window : s <= Ceiling(old.upTo)
          /\ Max(window) \in Shown(old.thread)
      BY <1>2, <1>4, WindowIs, WindowHasNewest
    <2>8. old.upTo > 0 => window \subseteq old.existed
      BY <2>6, <2>7 DEF Ceiling
    <2>9. window \subseteq Shown(old.thread)
      BY <2>7 DEF InThread, Shown
    <2>10. ReadKnows(call)
      BY <2>4, <2>6, <2>7 DEF ReadKnows
    <2> QED
      BY <2>4, <2>5, <2>6, <2>8, <2>9, <2>10 DEF Proper, RequestKnows
  <1> QED
    BY <1>3, <1>4

LEMMA AnswerBecomes ==
  ASSUME MemoryIInv, NEW c \in Requests, Answer(c)
  PROVE  \E call : Proper(call) /\ Becomes(c, call)
  <1>1. PICK old : old = requests[c]
    OBVIOUS
  <1>2. PICK raw \in Answers :
          IF raw = Unreadable THEN Done(c)
          ELSE requests' = [requests EXCEPT ![c].op = "mark", ![c].candidates = Parse(raw),
                                             ![c].existed = {}, ![c].window = {}]
    BY DEF Answer
  <1>3. CASE raw = Unreadable
    BY <1>2, <1>3, DoneBecomes
  <1>4. CASE raw # Unreadable
    <2>1. PICK fit : fit = Parse(raw)
      OBVIOUS
    <2>2. IsRequest(old) /\ RequestKnows(old) /\ old.op = "answer"
      BY <1>1 DEF MemoryIInv, Answer, Doing
    <2> DEFINE call == [old EXCEPT !.op = "mark", !.candidates = fit, !.existed = {}, !.window = {}]
    <2>3. requests' = [requests EXCEPT ![c] = call]
      BY <1>1, <1>2, <1>4, <2>1 DEF MemoryIInv
    <2>4. /\ IsRequest(call) /\ call.op = "mark" /\ call.window = {} /\ call.candidates = fit
          /\ call.thread = old.thread /\ call.effective = old.effective
      BY <2>2 DEF IsRequest, NoRequest
    <2> HIDE DEF call
    <2>5. Becomes(c, call)
      BY <2>3 DEF MemoryIInv, Becomes
    <2>6. old.thread \in Threads /\ old.effective \in Shown(old.thread)
      BY <2>2 DEF RequestKnows, ReadKnows
    <2>7. Range(fit) \subseteq Facts /\ Cardinality(DOMAIN fit) <= MaxCandidates
      BY <1>4, <2>1, ParseIs
    <2>8. ReadKnows(call)
      BY <2>4, <2>6, <2>7 DEF ReadKnows
    <2> QED
      BY <2>4, <2>5, <2>8 DEF Proper, RequestKnows
  <1> QED
    BY <1>3, <1>4

\* What is known lies on the page, or the page does not hold all there is.
LEMMA MarkBecomes ==
  ASSUME MemoryIInv, NEW c \in Requests, MarkDuplicates(c)
  PROVE  \E call : Proper(call) /\ Becomes(c, call)
  <1>1. PICK old : old = requests[c]
    OBVIOUS
  <1>2. PICK a : a = OwnerOf[old.thread]
    OBVIOUS
  <1>3. PICK marked, full, now :
          /\ marked = {x \in Range(old.candidates) : x \in Known(a)}
          /\ full = (Cardinality(Of(a, "memory")) > PageLimit["memory"])
          /\ now = clock
    OBVIOUS
  <1>4. IsRequest(old) /\ RequestKnows(old) /\ old.op = "mark"
    BY <1>1 DEF MemoryIInv, MarkDuplicates, Doing
  <1> DEFINE call == [old EXCEPT !.op = "shown", !.at = now, !.marked = marked, !.full = full]
  <1>5. requests' = [requests EXCEPT ![c] = call]
    BY <1>1, <1>2, <1>3 DEF MemoryIInv, MarkDuplicates
  <1>6. /\ IsRequest(call) /\ call.op = "shown" /\ call.window = old.window
        /\ call.candidates = old.candidates /\ call.thread = old.thread
        /\ call.effective = old.effective /\ call.at = now /\ call.marked = marked /\ call.full = full
    BY <1>4 DEF IsRequest, NoRequest
  <1> HIDE DEF call
  <1>7. Becomes(c, call)
    BY <1>5 DEF MemoryIInv, Becomes
  <1>8. /\ old.thread \in Threads /\ old.effective \in Shown(old.thread) /\ old.window = {}
        /\ Range(old.candidates) \subseteq Facts /\ Cardinality(DOMAIN old.candidates) <= MaxCandidates
    BY <1>4 DEF RequestKnows, ReadKnows
  <1>9. clock \in Nat /\ ItemsAreKnown /\ "memory" \in ItemKinds
    BY DEF MemoryIInv, ItemKinds
  <1>10. ASSUME NEW x \in Range(old.candidates) \ marked, NEW i \in Of(a, "memory"), items[i].text = x, ~full
         PROVE  FALSE
    <2>1. IsFiniteSet(Of(a, "memory"))
      BY <1>9, ListIsKept, ItemsAreOrdered
    <2>2. Cardinality(Of(a, "memory")) \in Nat
      BY <2>1, FS_CardinalityType
    <2>3. PageLimit["memory"] \in Nat
      BY <1>9, BudgetsAreNumbers
    <2>4. Cardinality(Of(a, "memory")) <= PageLimit["memory"]
      <3>1. ~(Cardinality(Of(a, "memory")) > PageLimit["memory"])
        BY <1>3, <1>10, Zenon
      <3> QED
        BY <2>2, <2>3, <3>1
    <2>5. Page(a, "memory") = Of(a, "memory")
      BY <1>9, <2>4, PageIsFirst
    <2> QED
      BY <1>3, <1>10, <2>5 DEF Known
  <1>11. IsMarked(call)
    BY <1>2, <1>6, <1>10 DEF IsMarked
  <1>12. ReadKnows(call)
    BY <1>3, <1>6, <1>8, <1>9, <1>11 DEF ReadKnows
  <1> QED
    BY <1>6, <1>7, <1>8, <1>12 DEF Proper, RequestKnows

--------------------------------------------------------------------------------
(* Every step.                                                             *)

LEMMA ItemsStep ==
  ASSUME MemoryIInv, [MemoryNext]_memoryVars
  PROVE  ItemsEvolve
  <1>1. CASE UNCHANGED <<items, clock>>
    BY <1>1, RestingKeeps
  <1>2. CASE CreateMemory \/ CreateSource
    BY <1>2, CreateKeeps
  <1>3. CASE Delete
    BY <1>3, DeleteKeeps
  <1>4. ASSUME NEW c \in Requests, Confirm(c) PROVE ItemsEvolve
    BY <1>4, ConfirmKeeps
  <1>5. ASSUME NEW c \in Requests, WriteUpdate(c) PROVE ItemsEvolve
    BY <1>5, WriteUpdateKeeps
  <1> QED
    BY <1>1, <1>2, <1>3, <1>4, <1>5 DEF MemoryNext, memoryVars, Message, Truncate,
       Consolidate, ReadThread, Answer, MarkDuplicates, Update, Abandon

LEMMA RequestsStep ==
  ASSUME MemoryIInv, [MemoryNext]_memoryVars
  PROVE  /\ requests' = [d \in Requests |-> requests'[d]]
         /\ \A d \in Requests : IsRequest(requests'[d]) /\ RequestKnows(requests[d])'
  <1>1. requests = [d \in Requests |-> requests[d]] /\ \A d \in Requests : Proper(requests[d])
    BY DEF MemoryIInv, Proper
  <1>2. \/ UNCHANGED requests
        \/ \E c \in Requests : \E call : Proper(call) /\ Becomes(c, call)
    <2>1. \/ UNCHANGED requests
          \/ \E c \in Requests :
               \/ Consolidate(c) \/ ReadThread(c) \/ Answer(c) \/ MarkDuplicates(c)
               \/ Update(c) \/ Done(c)
      BY DEF MemoryNext, memoryVars, Message, Truncate, CreateMemory, CreateSource, Delete,
         Confirm, WriteUpdate, Abandon
    <2> QED
      BY <2>1, DoneBecomes, ConsolidateBecomes, ReadThreadBecomes, AnswerBecomes, MarkBecomes,
         UpdateBecomes
  <1>3. requests' = [d \in Requests |-> requests'[d]] /\ \A d \in Requests : Proper(requests'[d])
    BY <1>1, <1>2 DEF Becomes
  <1>4. ASSUME NEW d \in Requests PROVE RequestKnows(requests[d])'
    <2>1. PICK call : call = requests'[d]
      OBVIOUS
    <2>2. RequestKnows(call)
      BY <1>3, <2>1 DEF Proper
    <2>3. RequestKnows(call)'
      BY <2>2, ItemsStep, LogStep, RequestStays
    <2> QED
      BY <2>1, <2>3 DEF RequestKnows, ReadKnows, EditKnows, IsMarked, Shown, InThread, Of, Kept
  <1> QED
    BY <1>3, <1>4 DEF Proper

LEMMA MemoryStarts == ASSUME MemoryInit PROVE MemoryIInv
  <1>1. IsItem(NoItem) /\ NoItem.state = "unused" /\ FromIsTrue(NoItem)
    BY DEF NoItem, IsItem, FromIsTrue
  <1>2. log = <<>> /\ log \in Seq(LogRow)
    BY DEF MemoryInit
  <1>3. UsedInOrder
    <2>1. 0 \in 0..MaxItems /\ \A i \in Ids : ~(i <= 0)
      BY MemoryAssumption DEF MemoryAssumption, Ids
    <2> QED
      BY <1>1, <2>1 DEF MemoryInit, UsedInOrder
  <1>4. ItemsAreKnown
    BY <1>1 DEF MemoryInit, ItemsAreKnown, ProvenanceIsTrue
  <1> QED
    BY <1>1, <1>2, <1>3, <1>4, NoRequestIsProper DEF MemoryInit, MemoryIInv, SwitchIsKept, Kept, Proper

\* However turns, edits, proposals and deletions interleave, ids are given in order, an edit
\* writes back the origin of the row it read, and what a consolidation has been told of its
\* thread stays so (memories.go, consolidation.go).
THEOREM MemoryInductive == MemorySpec => []MemoryIInv
  <1>1. MemoryInit => MemoryIInv
    BY MemoryStarts
  <1>2. MemoryIInv /\ [MemoryNext]_memoryVars => MemoryIInv'
    <2> SUFFICES ASSUME MemoryIInv, [MemoryNext]_memoryVars PROVE MemoryIInv'
      OBVIOUS
    <2>1. ItemsEvolve /\ LogKeeps
      BY ItemsStep, LogStep
    <2>2. ItemsAreKnown'
      BY <2>1, ItemsKnownStep
    <2>3. clock' \in Nat
      BY <2>1 DEF MemoryIInv, ItemsEvolve
    <2> QED
      BY <2>1, <2>2, <2>3, RequestsStep DEF MemoryIInv, ItemsEvolve, LogKeeps
  <1> QED
    BY <1>1, <1>2, PTL DEF MemorySpec

\* What is read was in the thread when the user asked; a memory names a message its thread
\* had; what a block leaves out does not fit; the page tells what the next turn sends; a
\* known candidate is shown as known; and a switch stays as it was put.
THEOREM MemoryHolds == MemorySpec => []MemoryIsSound
  <1>1. MemoryIInv => MemoryIsSound
    <2> SUFFICES ASSUME MemoryIInv PROVE MemoryIsSound
      OBVIOUS
    <2>1. ItemsAreKnown /\ \A c \in Requests : RequestKnows(requests[c])
      BY DEF MemoryIInv
    <2>2. MemoryTypeOK
      <3>1. \A i \in Ids : Kept(i) => IsTyped(items[i], clock)
        BY <2>1 DEF ItemsAreKnown, Kept
      <3>2. ASSUME NEW c \in Requests
            PROVE  /\ Considered(c) \subseteq DOMAIN log
                   /\ Cardinality(DOMAIN requests[c].candidates) <= MaxCandidates
        <4>1. requests[c].window \subseteq DOMAIN log
          BY <2>1 DEF RequestKnows, Shown
        <4>2. ASSUME requests[c].op \in {"mark", "shown"}
              PROVE  Cardinality(DOMAIN requests[c].candidates) <= MaxCandidates
          BY <2>1, <4>2 DEF RequestKnows, ReadKnows
        <4>3. ASSUME requests[c].op \notin {"mark", "shown"}
              PROVE  Cardinality(DOMAIN requests[c].candidates) <= MaxCandidates
          <5>1. requests[c].candidates = <<>>
            BY <2>1, <4>3 DEF RequestKnows
          <5>2. DOMAIN requests[c].candidates = {}
            BY <5>1
          <5>3. Cardinality(DOMAIN requests[c].candidates) = 0
            BY <5>2, FS_EmptySet
          <5> QED
            BY <5>3, MemoryAssumption DEF MemoryAssumption
        <4>4. Cardinality(DOMAIN requests[c].candidates) <= MaxCandidates
          BY <4>2, <4>3
        <4> QED
          BY <4>1, <4>4 DEF Considered
      <3> QED
        BY <3>1, <3>2 DEF MemoryTypeOK
    <2>3. SnapshotHolds
      BY <2>1 DEF SnapshotHolds, Reading, Considered, RequestKnows
    <2>4. KnownIsMarked
      BY <2>1 DEF KnownIsMarked, RequestKnows, ReadKnows, Doing
    <2>5. ProvenanceIsTrue /\ NoneIsHidden /\ PageTellsTheTurn
      BY <2>1, NothingHidden, PageTells DEF ItemsAreKnown
    <2> QED
      BY <2>2, <2>3, <2>4, <2>5 DEF MemoryIsSound, MemoryIInv
  <1> QED
    BY <1>1, MemoryInductive, PTL

\* Whatever edit was under way, where a memory came from never changes, and what was
\* deleted stays deleted and as it was.
THEOREM OriginHolds == MemorySpec => OriginIsKept
  <1>1. MemoryIInv /\ [MemoryNext]_memoryVars =>
          \A i \in Ids :
            /\ items[i].state # "unused" => Origin(items'[i]) = Origin(items[i])
            /\ items[i].state = "deleted" => items'[i] = items[i]
    BY ItemsStep DEF ItemsEvolve
  <1> QED
    BY <1>1, MemoryInductive, PTL DEF MemorySpec, OriginIsKept
===============================================================================
