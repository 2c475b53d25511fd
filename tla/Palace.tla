--------------------------------- MODULE Palace ---------------------------------
(***************************************************************************)
(* The palace: rooms, artifacts, memories with the sources they rest on,   *)
(* the relations between them and the workspace's session                  *)
(* (internal/palace/app over adapters/repo).                               *)
(*                                                                         *)
(* A step is one SQL statement.  An edit reads its row, asks what the rules *)
(* need to know, changes the row in memory and writes it back whole, with  *)
(* nothing held in between.  Nothing is ever deleted but relations, and a  *)
(* source is never edited, so existence and a source's level, once read,   *)
(* stay true.  Of a row only what a rule reads is kept.                    *)
(***************************************************************************)
EXTENDS Naturals, Sequences, FiniteSetsExt

CONSTANTS
  Entities,    \* rooms, artifacts and memories of the workspace
  TypeOf,      \* entity -> room, artifact or memory
  Sources,     \* evidence
  LevelOf,     \* source -> its sensitivity
  Kinds,       \* kinds of relation clients draw
  Callers,     \* calls that may be under way together
  TopLevel,    \* the highest Rank of a sensitivity: 2 in the program
  MaxSessions  \* bound: sessions ever opened

\* normal, private, highly_sensitive, by Rank.
Levels == 0..TopLevel

ASSUME PalaceAssumption ==
  /\ TypeOf \in [Entities -> {"room", "artifact", "memory"}]
  /\ LevelOf \in [Sources -> Levels]
  /\ Kinds \subseteq {"related_to", "decision_for", "mentions", "supersedes"}
  /\ TopLevel \in Nat /\ MaxSessions \in Nat

VARIABLES
  rows,       \* entity -> its row, or Absent
  evidence,   \* palace.memory_sources
  relations,  \* palace.relations
  sessions,   \* palace.sessions, in the order they were opened
  call        \* caller -> the operation it is making

vars == <<rows, evidence, relations, sessions, call>>

Absent == [status |-> "absent", kind |-> "none", level |-> 0]
Nothing == [status |-> "none"]
Idle == [at |-> "idle", on |-> {}, row |-> Nothing, late |-> FALSE]

\* A memory is a decision or of one of the five other kinds, here "fact".
MemoryKind(e) == IF TypeOf[e] = "memory" THEN {"decision", "fact"} ELSE {"none"}
\* The level of a room or an artifact hides what it holds; no rule here reads it.
Row(e) == [status : {"active", "archived"}, kind : MemoryKind(e),
           level : IF TypeOf[e] = "memory" THEN Levels ELSE {0}]

Memories == {e \in Entities : TypeOf[e] = "memory"}
Exists(e) == rows[e] # Absent

Init ==
  /\ rows = [e \in Entities |-> Absent]
  /\ evidence = {} /\ relations = {} /\ sessions = <<>>
  /\ call = [c \in Callers |-> Idle]

--------------------------------------------------------------------------------

\* A call begins with its first read; on is what it will write about, and late
\* (history) whether another call has written about the same since.
Begin(c, at, on, row) ==
  /\ call[c] = Idle
  /\ call' = [call EXCEPT ![c] = [at |-> at, on |-> on, row |-> row, late |-> FALSE]]
  /\ UNCHANGED <<rows, evidence, relations, sessions>>

Proceed(c, at) ==
  /\ call' = [call EXCEPT ![c].at = at]
  /\ UNCHANGED <<rows, evidence, relations, sessions>>

\* A refusal, a failed statement or a request that ended: what was written stays.
Fails(c) ==
  /\ call[c].at # "idle"
  /\ call' = [call EXCEPT ![c] = Idle]
  /\ UNCHANGED <<rows, evidence, relations, sessions>>

Ends(c, on) ==
  call' = [d \in Callers |->
             IF d = c THEN Idle
             ELSE [call[d] EXCEPT !.late = @ \/ call[d].on \cap on # {}]]

--------------------------------------------------------------------------------
(* Rooms, artifacts and memories.                                          *)

\* Default lifecycle; a memory in whatever kind and level it is given.
Create(e) ==
  /\ ~Exists(e)
  /\ \E r \in Row(e) : r.status = "active" /\ rows' = [rows EXCEPT ![e] = r]
  /\ UNCHANGED <<evidence, relations, sessions, call>>

Reclassifies(old, new) == new.kind = "fact" /\ old.kind # "fact"

\* Questions asked in this order, and only where the change can break the rule.
OneQuestion(old, new) ==                                        \* faulty
  IF Reclassifies(old, new) THEN "governs" ELSE "update"
Asks(old, new) ==
  IF new.level < old.level THEN "floor"
  ELSE IF Reclassifies(old, new) THEN "governs" ELSE "update"

BeginUpdate(c) ==
  \E e \in Entities : \E r \in Row(e) \ {rows[e]} :
    /\ Exists(e)
    /\ Begin(c, Asks(rows[e], r), {e},
             [new |-> r, turns |-> Reclassifies(rows[e], r)])

Behind(m) == {LevelOf[s] : s \in {t \in Sources : <<m, t>> \in evidence}}

\* MaxSensitivity: no evidence, no floor.
Lowest(m) == IF Behind(m) = {} THEN 0 ELSE Min(Behind(m))       \* faulty
Floor(m) == Max({0} \cup Behind(m))

\* ValidateSensitivityFloor.
CheckFloor(c) ==
  /\ call[c].at = "floor"
  /\ \A m \in call[c].on : call[c].row.new.level >= Floor(m)
  /\ Proceed(c, IF call[c].row.turns THEN "governs" ELSE "update")

\* A memory that governs something stays a decision.
IsGoverned(m) == \E r \in relations : r.to = m /\ r.kind = "decision_for"      \* faulty
HasDecisionFor(m) == \E r \in relations : r.from = m /\ r.kind = "decision_for"
CheckGoverns(c) ==
  /\ call[c].at = "governs"
  /\ \A m \in call[c].on : ~HasDecisionFor(m)
  /\ Proceed(c, "update")

\* UPDATE ... WHERE deleted_at IS NULL, every column.
Update(c) ==
  /\ call[c].at = "update"
  /\ \E e \in call[c].on : rows' = [rows EXCEPT ![e] = call[c].row.new]
  /\ Ends(c, call[c].on)
  /\ UNCHANGED <<evidence, relations, sessions>>

--------------------------------------------------------------------------------
(* Provenance, append-only.                                                *)

AdmitsAny(m, s) == TRUE                                         \* faulty
Admits(m, s) == rows[m].level >= LevelOf[s]

BeginLink(c) ==
  \E m \in Memories, s \in Sources :
    /\ Exists(m) /\ Admits(m, s)
    /\ Begin(c, "link", {m}, [source |-> s])

\* INSERT ... ON CONFLICT DO NOTHING.
Link(c) ==
  /\ call[c].at = "link"
  /\ evidence' = evidence \cup {<<m, call[c].row.source>> : m \in call[c].on}
  /\ Ends(c, call[c].on)
  /\ UNCHANGED <<rows, relations, sessions>>

--------------------------------------------------------------------------------
(* Relations.                                                              *)

Shapes(kind) ==
  CASE kind = "related_to" -> {<<"room", "room">>, <<"artifact", "artifact">>,
                               <<"memory", "memory">>, <<"memory", "artifact">>}
    [] kind = "decision_for" -> {<<"memory", "artifact">>, <<"memory", "room">>}
    [] kind = "mentions" -> {<<"memory", "artifact">>, <<"artifact", "artifact">>}
    [] kind = "supersedes" -> {<<"memory", "memory">>, <<"artifact", "artifact">>}

Drawable ==
  {r \in [from : Entities, kind : Kinds, to : Entities] :
     r.from # r.to /\ <<TypeOf[r.from], TypeOf[r.to]>> \in Shapes(r.kind)}

\* ValidateEndpointAlive: nothing new is drawn to what is archived.
AnyEnd(e) == Exists(e)                                          \* faulty
Alive(e) == Exists(e) /\ rows[e].status # "archived"

\* The origin is checked, then the target, then a decision's origin again.
BeginRelation(c) ==
  \E r \in Drawable : Alive(r.from) /\ Begin(c, "target", {r.from, r.to}, r)

CheckTarget(c) ==
  /\ call[c].at = "target"
  /\ Alive(call[c].row.to)
  /\ Proceed(c, IF call[c].row.kind = "decision_for" THEN "origin" ELSE "relate")

CheckOrigin(c) ==
  /\ call[c].at = "origin"
  /\ rows[call[c].row.from].kind = "decision"
  /\ Proceed(c, "relate")

\* INSERT ... ON CONFLICT DO NOTHING: an equal relation stays as it is.
Relate(c) ==
  /\ call[c].at = "relate"
  /\ relations' = relations \cup {call[c].row}
  /\ Ends(c, call[c].on)
  /\ UNCHANGED <<rows, evidence, sessions>>

\* One DELETE; the rows at its ends are not looked at.
RemoveRelation ==
  /\ \E r \in relations : relations' = relations \ {r}
  /\ UNCHANGED <<rows, evidence, sessions, call>>

--------------------------------------------------------------------------------
(* The workspace's session.                                                *)

StartAttempts == 3

OpenOnes == {i \in DOMAIN sessions : sessions[i].open}

\* FindOpen answered with none; with one, Start answers it and writes nothing.
Start(c) == OpenOnes = {} /\ Begin(c, "insert", {}, [attempt |-> 1])

\* The partial unique index on open sessions.
AnyOpen(i) == TRUE                                              \* faulty
OneOpen(i) == OpenOnes \subseteq {i}

\* A session is a new row.
New == [open |-> TRUE, focus |-> "none"]
ReopenedLast ==                                                 \* faulty
  IF sessions = <<>> THEN <<New>> ELSE [sessions EXCEPT ![Len(sessions)] = New]
Opened == Append(sessions, New)

\* INSERT ... ON CONFLICT DO NOTHING; a conflict sends the call to look again.
InsertOpen(c) ==
  /\ call[c].at = "insert"
  /\ LET new == Len(sessions) + 1 IN
     \/ /\ OneOpen(new) /\ new <= MaxSessions
        /\ sessions' = Opened
        /\ Ends(c, {new})
        /\ UNCHANGED <<rows, evidence, relations>>
     \/ /\ ~OneOpen(new) /\ call[c].row.attempt < StartAttempts
        /\ Proceed(c, "find")

\* With one open the call answers it (Fails stands for that end).
FindAgain(c) ==
  /\ call[c].at = "find" /\ OpenOnes = {}
  /\ call' = [call EXCEPT ![c].at = "insert", ![c].row.attempt = @ + 1]
  /\ UNCHANGED <<rows, evidence, relations, sessions>>

\* A focus that changes nothing writes nothing.
BeginFocus(c) ==
  \E i \in OpenOnes, f \in {e \in Entities \ Memories : Exists(e)} \cup {"none"} :
    /\ f # sessions[i].focus
    /\ Begin(c, "session", {i}, [sessions[i] EXCEPT !.focus = f])

BeginClose(c) ==
  \E i \in OpenOnes : Begin(c, "session", {i}, [sessions[i] EXCEPT !.open = FALSE])

\* The whole row, whatever it has become meanwhile; the index may refuse it.
UpdateSession(c) ==
  /\ call[c].at = "session"
  /\ \E i \in call[c].on :
       /\ call[c].row.open => OneOpen(i)
       /\ sessions' = [sessions EXCEPT ![i] = call[c].row]
  /\ Ends(c, call[c].on)
  /\ UNCHANGED <<rows, evidence, relations>>

--------------------------------------------------------------------------------

Next ==
  \/ \E e \in Entities : Create(e)
  \/ RemoveRelation
  \/ \E c \in Callers :
       \/ BeginUpdate(c) \/ CheckFloor(c) \/ CheckGoverns(c) \/ Update(c)
       \/ BeginLink(c) \/ Link(c)
       \/ BeginRelation(c) \/ CheckTarget(c) \/ CheckOrigin(c) \/ Relate(c)
       \/ Start(c) \/ InsertOpen(c) \/ FindAgain(c)
       \/ BeginFocus(c) \/ BeginClose(c) \/ UpdateSession(c)
       \/ Fails(c)

Spec == Init /\ [][Next]_vars

--------------------------------------------------------------------------------
(* Properties.  The database holds one rule, the one open session.  The    *)
(* others are questions asked before a write, each at its own door, so the *)
(* claim about them is that no step breaks one but the write of a call     *)
(* that another overtook on the same row.                                  *)

OvertakenOn(x) == \E c \in Callers : call[c].late /\ x \in call[c].on /\ call'[c] = Idle

\* Provenance.SourcesFor: a memory is at least as withheld as every source behind it.
AboveEvidence(m) ==
  \A s \in Sources : <<m, s>> \in evidence => rows[m].level >= LevelOf[s]
NothingToWithhold == \A m \in Memories : AboveEvidence(m)

\* What governs something is a decision.
Governs(m) ==
  \A r \in relations : r.from = m /\ r.kind = "decision_for" => rows[m].kind = "decision"

\* Rows have their types, and at most one session is open, whatever a call that
\* read an earlier one writes back.
PalaceIsSound ==
  /\ \A e \in Entities : rows[e] \in Row(e) \cup {Absent}
  /\ evidence \subseteq Memories \X Sources /\ relations \subseteq Drawable
  /\ Len(sessions) <= MaxSessions
  /\ \A i, j \in DOMAIN sessions : sessions[i].open /\ sessions[j].open => i = j

\* Linking and relabelling keep a memory above its evidence, relating and
\* reclassifying keep what governs a decision, and nothing new is drawn to what is
\* archived: only a call overtaken on that row breaks one of the three.
RulesHold ==
  [][/\ \A m \in Memories : AboveEvidence(m) /\ Governs(m) =>
          (AboveEvidence(m) /\ Governs(m))' \/ OvertakenOn(m)
     /\ \A r \in relations' \ relations : \A e \in {r.from, r.to} :
          rows[e].status = "active" \/ OvertakenOn(e)]_vars

\* A closed session is opened again only by a focus read before it was closed.
ClosedStaysClosed ==
  [][\A i \in DOMAIN sessions : sessions'[i].open => sessions[i].open \/ OvertakenOn(i)]_vars

\* What was asked for before it was written stays so, and what was closed stays closed.
RulesAreKept == RulesHold /\ ClosedStaysClosed

\* The inductive strengthening: what a call under way still knows of what it read,
\* unless another has written about the same since.
Session == [open : BOOLEAN, focus : Entities \cup {"none"}]
TablesFit ==
  /\ rows = [e \in Entities |-> rows[e]]
  /\ \A e \in Entities : rows[e] \in Row(e) \cup {Absent}
  /\ evidence \subseteq Memories \X Sources /\ relations \subseteq Drawable
  /\ sessions \in Seq(Session) /\ Len(sessions) <= MaxSessions

OneSession == \A i, j \in DOMAIN sessions : sessions[i].open /\ sessions[j].open => i = j

\* An edit has asked what could break a rule, and still knows the answers.
EditKnows(d, e) ==
  /\ Exists(e) /\ d.row.new \in Row(e)
  /\ ~d.late =>
       /\ d.at = "floor" => d.row.turns = Reclassifies(rows[e], d.row.new)
       /\ d.at \in {"governs", "update"} =>
            \/ d.row.new.level >= rows[e].level
            \/ \A s \in Sources : <<e, s>> \in evidence => d.row.new.level >= LevelOf[s]
       /\ d.at = "update" => ~Reclassifies(rows[e], d.row.new) \/ ~HasDecisionFor(e)

LinkKnows(d, m) ==
  /\ m \in Memories /\ Exists(m) /\ d.row.source \in Sources
  /\ ~d.late => rows[m].level >= LevelOf[d.row.source]

RelationKnows(d, r) ==
  /\ r \in Drawable /\ Exists(r.from)
  /\ d.at \in {"origin", "relate"} => Exists(r.to)
  /\ ~d.late =>
       /\ rows[r.from].status = "active"
       /\ d.at \in {"origin", "relate"} => rows[r.to].status = "active"
       /\ d.at = "relate" /\ r.kind = "decision_for" => rows[r.from].kind = "decision"

SessionKnows(d, i) ==
  /\ i \in DOMAIN sessions /\ d.row \in Session
  /\ ~d.late => sessions[i].open

CallKnows(d) ==
  /\ d.at \in {"idle", "floor", "governs", "update", "link", "target", "origin", "relate",
               "insert", "find", "session"}
  /\ d = [at |-> d.at, on |-> d.on, row |-> d.row, late |-> d.late] /\ d.late \in BOOLEAN
  /\ d.at = "idle" => d = Idle
  /\ d.at \in {"floor", "governs", "update"} => \E e \in Entities : d.on = {e} /\ EditKnows(d, e)
  /\ d.at = "link" => \E m \in Memories : d.on = {m} /\ LinkKnows(d, m)
  /\ d.at \in {"target", "origin", "relate"} => d.on = {d.row.from, d.row.to} /\ RelationKnows(d, d.row)
  /\ d.at = "session" => \E i \in DOMAIN sessions : d.on = {i} /\ SessionKnows(d, i)

IInv ==
  /\ TablesFit /\ OneSession
  /\ call = [c \in Callers |-> call[c]] /\ \A c \in Callers : CallKnows(call[c])
================================================================================
