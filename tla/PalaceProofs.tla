------------------------------ MODULE PalaceProofs ------------------------------
(***************************************************************************)
(* Proofs about Palace for any entities, evidence, levels and callers.     *)
(* Nothing is held between the questions a call asks and its write, so     *)
(* IInv says what each call still knows of the answers: all of it, unless  *)
(* another call has written about the same since, and is marked late.      *)
(***************************************************************************)
EXTENDS Palace, FiniteLemmas, FiniteSetTheorems, TLAPS

USE PalaceAssumption DEF PalaceAssumption

--------------------------------------------------------------------------------
(* The floor.                                                              *)

\* The floor of a memory is no lower than any source behind it (MaxSensitivity).
LEMMA FloorBounds ==
  ASSUME NEW m, NEW s \in Sources, <<m, s>> \in evidence
  PROVE  Floor(m) \in Nat /\ Floor(m) >= LevelOf[s]
  <1> DEFINE S == {0} \cup Behind(m)
  <1>1. S \subseteq 0..TopLevel /\ S # {} /\ LevelOf[s] \in S
    <2>1. \A t \in Sources : LevelOf[t] \in 0..TopLevel
      BY DEF Levels
    <2>2. Behind(m) \subseteq 0..TopLevel
      BY <2>1 DEF Behind
    <2>3. LevelOf[s] \in Behind(m)
      BY DEF Behind
    <2>4. 0 \in 0..TopLevel
      OBVIOUS
    <2> QED
      BY <2>2, <2>3, <2>4
  <1>2. \E x \in S : \A y \in S : x >= y
    <2>1. PICK x \in S : \A y \in S : y <= x
      <3> HIDE DEF S
      <3> QED
        BY <1>1, HighestExists
    <2>2. \A y \in S : y \in Nat
      BY <1>1
    <2> HIDE DEF S
    <2> QED
      BY <2>1, <2>2
  <1>3. Floor(m) \in S /\ \A y \in S : Floor(m) >= y
    <2>1. Floor(m) = CHOOSE x \in S : \A y \in S : x >= y
      BY DEF Floor, Max
    <2> HIDE DEF S
    <2> QED
      BY <1>2, <2>1
  <1> QED
    BY <1>1, <1>3

--------------------------------------------------------------------------------
(* What a call still knows.                                                *)

\* A row of a memory has a level, and is a decision or a fact.
LEMMA RowFacts ==
  ASSUME NEW e \in Entities, NEW r \in Row(e)
  PROVE  /\ r # Absent /\ r.level \in Nat /\ r.status \in {"active", "archived"}
         /\ e \in Memories => r.kind \in {"decision", "fact"}
  BY DEF Row, Absent, MemoryKind, Levels, Memories

\* Whatever a step writes about x, a call keeps what it knows of the rest, and is marked
\* late when it was about x.
LEMMA StillKnows ==
  ASSUME TablesFit, NEW d, CallKnows(d), NEW x, NEW d2,
         d2 = [d EXCEPT !.late = @ \/ d.on \cap x # {}],
         \A e \in Entities : Exists(e) => Exists(e)',
         \A e \in Entities : e \notin x /\ Exists(e) => rows'[e] = rows[e],
         \A e \in Entities : e \notin x =>
           /\ \A s \in Sources : <<e, s>> \in evidence' => <<e, s>> \in evidence
           /\ HasDecisionFor(e)' => HasDecisionFor(e),
         DOMAIN sessions \subseteq DOMAIN sessions',
         \A i \in DOMAIN sessions : i \notin x => sessions'[i] = sessions[i]
  PROVE  CallKnows(d2)'
  <1>1. /\ d = [at |-> d.at, on |-> d.on, row |-> d.row, late |-> d.late] /\ d.late \in BOOLEAN
    BY DEF CallKnows
  <1>2. /\ d2 = [at |-> d.at, on |-> d.on, row |-> d.row, late |-> d.late \/ d.on \cap x # {}]
        /\ d2.at = d.at /\ d2.on = d.on /\ d2.row = d.row
        /\ ~d2.late => ~d.late /\ d.on \cap x = {}
        /\ d2.late \in BOOLEAN
    BY <1>1
  <1>3. d2 = [at |-> d2.at, on |-> d2.on, row |-> d2.row, late |-> d2.late]
    BY <1>2
  <1>4. d.at \in {"idle", "floor", "governs", "update", "link", "target", "origin", "relate",
                  "insert", "find", "session"}
    BY DEF CallKnows
  <1>5. CASE d.at = "idle"
    <2>1. d = Idle
      BY <1>5 DEF CallKnows
    <2>2. d2 = Idle /\ Idle.at = "idle"
      BY <1>2, <2>1 DEF Idle
    <2> QED
      BY <1>2, <1>3, <2>2 DEF CallKnows
  <1>6. CASE d.at \in {"insert", "find"}
    BY <1>2, <1>3, <1>6 DEF CallKnows
  <1>7. CASE d.at \in {"floor", "governs", "update"}
    <2>1. PICK e \in Entities : d.on = {e} /\ EditKnows(d, e)
      BY <1>7 DEF CallKnows
    <2>2. ~d2.late => e \notin x
      BY <1>2, <2>1
    <2>3. EditKnows(d2, e)'
      BY <1>2, <2>1, <2>2 DEF EditKnows
    <2>4. d2.on = {e}
      BY <1>2, <2>1
    <2> QED
      BY <1>2, <1>3, <1>7, <2>3, <2>4 DEF CallKnows
  <1>8. CASE d.at = "link"
    <2>1. PICK m \in Memories : d.on = {m} /\ LinkKnows(d, m)
      BY <1>8 DEF CallKnows
    <2>2. (~d2.late => m \notin x) /\ m \in Entities
      BY <1>2, <2>1 DEF Memories
    <2>3. LinkKnows(d2, m)'
      BY <1>2, <2>1, <2>2 DEF LinkKnows
    <2>4. d2.on = {m}
      BY <1>2, <2>1
    <2> QED
      BY <1>2, <1>3, <1>8, <2>3, <2>4 DEF CallKnows
  <1>9. CASE d.at \in {"target", "origin", "relate"}
    <2>1. d.on = {d.row.from, d.row.to} /\ RelationKnows(d, d.row)
      BY <1>9 DEF CallKnows
    <2>2. d.row.from \in Entities /\ d.row.to \in Entities
      BY <2>1 DEF RelationKnows, Drawable
    <2>3. ~d2.late => d.row.from \notin x /\ d.row.to \notin x
      BY <1>2, <2>1
    <2>4. RelationKnows(d2, d2.row)'
      BY <1>2, <2>1, <2>2, <2>3 DEF RelationKnows
    <2> QED
      BY <1>2, <1>3, <1>9, <2>1, <2>4 DEF CallKnows
  <1>10. CASE d.at = "session"
    <2>1. PICK i \in DOMAIN sessions : d.on = {i} /\ SessionKnows(d, i)
      BY <1>10 DEF CallKnows
    <2>2. ~d2.late => i \notin x
      BY <1>2, <2>1
    <2>3. SessionKnows(d2, i)' /\ i \in DOMAIN sessions'
      BY <1>2, <2>1, <2>2 DEF SessionKnows
    <2>4. d2.on = {i}
      BY <1>2, <2>1
    <2> QED
      BY <1>2, <1>3, <1>10, <2>3, <2>4 DEF CallKnows
  <1> QED
    BY <1>4, <1>5, <1>6, <1>7, <1>8, <1>9, <1>10

\* A write that marks who it was about (Ends) keeps what every call knows.
LEMMA OthersKnow ==
  ASSUME IInv, NEW c \in Callers, NEW x, Ends(c, x),
         \A e \in Entities : Exists(e) => Exists(e)',
         \A e \in Entities : e \notin x /\ Exists(e) => rows'[e] = rows[e],
         \A e \in Entities : e \notin x =>
           /\ \A s \in Sources : <<e, s>> \in evidence' => <<e, s>> \in evidence
           /\ HasDecisionFor(e)' => HasDecisionFor(e),
         DOMAIN sessions \subseteq DOMAIN sessions',
         \A i \in DOMAIN sessions : i \notin x => sessions'[i] = sessions[i]
  PROVE  (call = [d \in Callers |-> call[d]] /\ \A d \in Callers : CallKnows(call[d]))'
  <1>1. call' = [d \in Callers |-> IF d = c THEN Idle
                                   ELSE [call[d] EXCEPT !.late = @ \/ call[d].on \cap x # {}]]
    BY DEF Ends
  <1>2. call' = [d \in Callers |-> call'[d]]
    BY <1>1
  <1>3. ASSUME NEW d \in Callers PROVE CallKnows(call[d])'
    <2>1. CASE d = c
      <3>1. call'[d] = Idle
        BY <1>1, <2>1
      <3> QED
        BY <3>1 DEF CallKnows, Idle
    <2>2. CASE d # c
      <3>1. PICK d2 : d2 = [call[d] EXCEPT !.late = @ \/ call[d].on \cap x # {}] /\ call'[d] = d2
        BY <1>1, <2>2
      <3>2. CallKnows(call[d]) /\ TablesFit
        BY DEF IInv
      <3>3. CallKnows(d2)'
        <4> HIDE DEF CallKnows
        <4> QED
          BY <3>1, <3>2, StillKnows
      <3> QED
        BY <3>1, <3>3 DEF CallKnows, EditKnows, LinkKnows, RelationKnows, SessionKnows, Exists, HasDecisionFor
    <2> QED
      BY <2>1, <2>2
  <1> QED
    BY <1>2, <1>3

\* A step that writes nothing changes one call, to one that knows what it should.
LEMMA OneCallChanges ==
  ASSUME IInv, UNCHANGED <<rows, evidence, relations, sessions>>,
         NEW c \in Callers, NEW new, call' = [call EXCEPT ![c] = new], CallKnows(new)
  PROVE  IInv'
  <1>1. call' = [d \in Callers |-> call'[d]]
    BY DEF IInv
  <1>2. ASSUME NEW d \in Callers PROVE CallKnows(call[d])'
    <2>1. CallKnows(call'[d])
      BY DEF IInv
    <2> QED
      BY <2>1 DEF CallKnows, EditKnows, LinkKnows, RelationKnows, SessionKnows, Exists, HasDecisionFor
  <1> QED
    BY <1>1, <1>2 DEF IInv, TablesFit, OneSession

--------------------------------------------------------------------------------
(* The steps that ask.                                                     *)

\* A call that begins or goes on holds what it read, and writes nothing.
LEMMA Asking ==
  ASSUME IInv, NEW c \in Callers
  PROVE  /\ \A at, on, row : Begin(c, at, on, row) =>
              /\ call' = [call EXCEPT ![c] = [at |-> at, on |-> on, row |-> row, late |-> FALSE]]
              /\ UNCHANGED <<rows, evidence, relations, sessions>>
         /\ \A at : Proceed(c, at) =>
              /\ call' = [call EXCEPT ![c] = [at |-> at, on |-> call[c].on, row |-> call[c].row,
                                              late |-> call[c].late]]
              /\ UNCHANGED <<rows, evidence, relations, sessions>>
         /\ CallKnows(call[c])
  <1>1. CallKnows(call[c]) /\ call = [d \in Callers |-> call[d]]
    BY DEF IInv
  <1>2. call[c] = [at |-> call[c].at, on |-> call[c].on, row |-> call[c].row, late |-> call[c].late]
    BY <1>1 DEF CallKnows
  <1>3. ASSUME NEW at, Proceed(c, at)
        PROVE  /\ call' = [call EXCEPT ![c] = [at |-> at, on |-> call[c].on, row |-> call[c].row,
                                              late |-> call[c].late]]
               /\ UNCHANGED <<rows, evidence, relations, sessions>>
    <2>1. call' = [call EXCEPT ![c] = [call[c] EXCEPT !.at = at]]
      BY <1>1, <1>3 DEF Proceed
    <2>2. [call[c] EXCEPT !.at = at] = [at |-> at, on |-> call[c].on, row |-> call[c].row,
                                        late |-> call[c].late]
      BY <1>2
    <2> QED
      BY <1>3, <2>1, <2>2 DEF Proceed
  <1> QED
    BY <1>1, <1>3 DEF Begin

\* The same, as a call to name: the one it begins ...
LEMMA Begins ==
  ASSUME IInv, NEW c \in Callers, NEW at, NEW on, NEW row, Begin(c, at, on, row)
  PROVE  \E new : /\ new = [at |-> at, on |-> on, row |-> row, late |-> FALSE]
                  /\ call' = [call EXCEPT ![c] = new]
                  /\ UNCHANGED <<rows, evidence, relations, sessions>>
  <1>1. /\ call' = [call EXCEPT ![c] = [at |-> at, on |-> on, row |-> row, late |-> FALSE]]
        /\ UNCHANGED <<rows, evidence, relations, sessions>>
    BY DEF Begin
  <1> QED
    BY <1>1

\* ... and the one it goes on with.
LEMMA Proceeds ==
  ASSUME IInv, NEW c \in Callers, NEW at, Proceed(c, at)
  PROVE  \E new : /\ new = [at |-> at, on |-> call[c].on, row |-> call[c].row, late |-> call[c].late]
                  /\ call' = [call EXCEPT ![c] = new]
                  /\ UNCHANGED <<rows, evidence, relations, sessions>>
  BY Asking

\* An edit asks in turn for the floor, for what the memory governs, and updates.
LEMMA EditAsks ==
  ASSUME IInv, NEW c \in Callers, BeginUpdate(c) \/ CheckFloor(c) \/ CheckGoverns(c)
  PROVE  IInv'
  <1>0. CallKnows(call[c])
    BY Asking
  <1>1. CASE BeginUpdate(c)
    <2>0. PICK e \in Entities :
            \E r \in Row(e) \ {rows[e]} :
              /\ Exists(e)
              /\ Begin(c, Asks(rows[e], r), {e}, [new |-> r, turns |-> Reclassifies(rows[e], r)])
      BY <1>1 DEF BeginUpdate
    <2>1. PICK r \in Row(e) :
            /\ Exists(e)
            /\ Begin(c, Asks(rows[e], r), {e}, [new |-> r, turns |-> Reclassifies(rows[e], r)])
      BY <2>0
    <2>2. PICK new : /\ new = [at |-> Asks(rows[e], r), on |-> {e},
                               row |-> [new |-> r, turns |-> Reclassifies(rows[e], r)], late |-> FALSE]
                     /\ call' = [call EXCEPT ![c] = new]
                     /\ UNCHANGED <<rows, evidence, relations, sessions>>
      BY <2>1, Begins
    <2>3. rows[e] \in Row(e) /\ rows[e].level \in Nat /\ r.level \in Nat
      BY <2>1, RowFacts DEF IInv, TablesFit, Exists
    <2>4. /\ new.at \in {"floor", "governs", "update"}
          /\ new.at \in {"governs", "update"} => r.level >= rows[e].level
          /\ new.at = "update" => ~Reclassifies(rows[e], r)
      BY <2>2, <2>3 DEF Asks
    <2>5. EditKnows(new, e)
      BY <2>1, <2>2, <2>4 DEF EditKnows
    <2>6. CallKnows(new)
      <3>1. /\ new = [at |-> new.at, on |-> new.on, row |-> new.row, late |-> new.late]
            /\ new.late \in BOOLEAN /\ new.on = {e}
        BY <2>2
      <3> QED
        BY <2>4, <2>5, <3>1 DEF CallKnows
    <2> QED
      BY <2>2, <2>6, OneCallChanges
  <1>2. CASE CheckFloor(c)
    <2>1. call[c].at = "floor"
          /\ \A m \in call[c].on : call[c].row.new.level >= Floor(m)
      BY <1>2 DEF CheckFloor
    <2>2. PICK e \in Entities : call[c].on = {e} /\ EditKnows(call[c], e)
      BY <1>0, <2>1 DEF CallKnows
    <2>3. PICK at \in {"governs", "update"} : Proceed(c, at) /\ (at = "governs" <=> call[c].row.turns)
      BY <1>2 DEF CheckFloor
    <2>4. PICK new : /\ new = [at |-> at, on |-> call[c].on, row |-> call[c].row, late |-> call[c].late]
                     /\ call' = [call EXCEPT ![c] = new]
                     /\ UNCHANGED <<rows, evidence, relations, sessions>>
      BY <2>3, Proceeds
    <2>5. \A s \in Sources : <<e, s>> \in evidence => call[c].row.new.level >= LevelOf[s]
      <3> SUFFICES ASSUME NEW s \in Sources, <<e, s>> \in evidence
                   PROVE  call[c].row.new.level >= LevelOf[s]
        OBVIOUS
      <3>1. Floor(e) \in Nat /\ Floor(e) >= LevelOf[s]
        BY FloorBounds
      <3>2. call[c].row.new.level >= Floor(e) /\ call[c].row.new.level \in Nat
        BY <2>1, <2>2, RowFacts DEF EditKnows
      <3>3. LevelOf[s] \in Nat
        BY DEF Levels
      <3> QED
        BY <3>1, <3>2, <3>3
    <2>6. EditKnows(new, e)
      BY <2>1, <2>2, <2>3, <2>4, <2>5 DEF EditKnows
    <2>7. CallKnows(new)
      <3>1. /\ new = [at |-> new.at, on |-> new.on, row |-> new.row, late |-> new.late]
            /\ new.late \in BOOLEAN /\ new.on = {e}
        BY <1>0, <2>2, <2>4 DEF CallKnows
      <3> QED
        BY <2>3, <2>4, <2>6, <3>1 DEF CallKnows
    <2> QED
      BY <2>4, <2>7, OneCallChanges
  <1>3. CASE CheckGoverns(c)
    <2>1. call[c].at = "governs" /\ (\A m \in call[c].on : ~HasDecisionFor(m)) /\ Proceed(c, "update")
      BY <1>3 DEF CheckGoverns
    <2>2. PICK e \in Entities : call[c].on = {e} /\ EditKnows(call[c], e)
      BY <1>0, <2>1 DEF CallKnows
    <2>3. PICK new : /\ new = [at |-> "update", on |-> call[c].on, row |-> call[c].row, late |-> call[c].late]
                     /\ call' = [call EXCEPT ![c] = new]
                     /\ UNCHANGED <<rows, evidence, relations, sessions>>
      BY <2>1, Proceeds
    <2>4. EditKnows(new, e)
      BY <2>1, <2>2, <2>3 DEF EditKnows
    <2>5. CallKnows(new)
      <3>1. /\ new = [at |-> new.at, on |-> new.on, row |-> new.row, late |-> new.late]
            /\ new.late \in BOOLEAN /\ new.on = {e}
        BY <1>0, <2>2, <2>3 DEF CallKnows
      <3> QED
        BY <2>3, <2>4, <3>1 DEF CallKnows
    <2> QED
      BY <2>3, <2>5, OneCallChanges
  <1> QED
    BY <1>1, <1>2, <1>3

\* A link asks for the memory's level; a relation for its ends.
LEMMA LinksAsk ==
  ASSUME IInv, NEW c \in Callers, BeginLink(c) \/ BeginRelation(c) \/ CheckTarget(c) \/ CheckOrigin(c)
  PROVE  IInv'
  <1>0. /\ CallKnows(call[c])
        /\ \A e \in Entities : Exists(e) => rows[e] \in Row(e)
    BY Asking DEF IInv, TablesFit, Exists
  <1>a. \A e \in Entities : Alive(e) => Exists(e) /\ rows[e].status = "active"
    BY <1>0, RowFacts DEF Alive
  <1>1. CASE BeginLink(c)
    <2>1. PICK m \in Memories, s \in Sources : Exists(m) /\ Admits(m, s) /\ Begin(c, "link", {m}, [source |-> s])
      BY <1>1 DEF BeginLink
    <2>2. PICK new : /\ new = [at |-> "link", on |-> {m}, row |-> [source |-> s], late |-> FALSE]
                     /\ call' = [call EXCEPT ![c] = new]
                     /\ UNCHANGED <<rows, evidence, relations, sessions>>
      BY <2>1, Begins
    <2>3. LinkKnows(new, m)
      BY <2>1, <2>2 DEF LinkKnows, Admits
    <2>4. CallKnows(new)
      BY <2>1, <2>2, <2>3 DEF CallKnows
    <2> QED
      BY <2>2, <2>4, OneCallChanges
  <1>2. CASE BeginRelation(c)
    <2>1. PICK r \in Drawable : Alive(r.from) /\ Begin(c, "target", {r.from, r.to}, r)
      BY <1>2 DEF BeginRelation
    <2>2. PICK new : /\ new = [at |-> "target", on |-> {r.from, r.to}, row |-> r, late |-> FALSE]
                     /\ call' = [call EXCEPT ![c] = new]
                     /\ UNCHANGED <<rows, evidence, relations, sessions>>
      BY <2>1, Begins
    <2>3. RelationKnows(new, r)
      <3>1. r.from \in Entities
        BY DEF Drawable
      <3> QED
        BY <1>a, <2>1, <2>2, <3>1 DEF RelationKnows
    <2>4. CallKnows(new)
      BY <2>2, <2>3 DEF CallKnows
    <2> QED
      BY <2>2, <2>4, OneCallChanges
  <1>3. ASSUME NEW at \in {"origin", "relate"}, Proceed(c, at),
               call[c].at \in {"target", "origin"},
               Exists(call[c].row.to), ~call[c].late => rows[call[c].row.to].status = "active",
               at = "relate" /\ call[c].row.kind = "decision_for" /\ ~call[c].late =>
                 rows[call[c].row.from].kind = "decision"
        PROVE  IInv'
    <2>1. call[c].on = {call[c].row.from, call[c].row.to} /\ RelationKnows(call[c], call[c].row)
      BY <1>0, <1>3 DEF CallKnows
    <2>2. PICK new : /\ new = [at |-> at, on |-> call[c].on, row |-> call[c].row, late |-> call[c].late]
                     /\ call' = [call EXCEPT ![c] = new]
                     /\ UNCHANGED <<rows, evidence, relations, sessions>>
      BY <1>3, Proceeds
    <2>3. RelationKnows(new, new.row)
      BY <1>3, <2>1, <2>2 DEF RelationKnows
    <2>4. CallKnows(new)
      <3>1. /\ new = [at |-> new.at, on |-> new.on, row |-> new.row, late |-> new.late]
            /\ new.late \in BOOLEAN /\ new.on = {new.row.from, new.row.to} /\ new.at = at
        BY <1>0, <2>1, <2>2 DEF CallKnows
      <3> QED
        BY <1>3, <2>3, <3>1 DEF CallKnows
    <2> QED
      BY <2>2, <2>4, OneCallChanges
  <1>4. CASE CheckTarget(c)
    <2>1. call[c].at = "target" /\ Alive(call[c].row.to)
      BY <1>4 DEF CheckTarget
    <2>2. call[c].row \in Drawable
      BY <1>0, <2>1 DEF CallKnows, RelationKnows
    <2>3. Exists(call[c].row.to) /\ rows[call[c].row.to].status = "active"
      BY <1>a, <2>1, <2>2 DEF Drawable
    <2>4. PICK at \in {"origin", "relate"} :
            Proceed(c, at) /\ (at = "origin" <=> call[c].row.kind = "decision_for")
      BY <1>4 DEF CheckTarget
    <2> QED
      BY <1>3, <2>1, <2>3, <2>4
  <1>5. CASE CheckOrigin(c)
    <2>1. call[c].at = "origin" /\ rows[call[c].row.from].kind = "decision" /\ Proceed(c, "relate")
      BY <1>5 DEF CheckOrigin
    <2>2. Exists(call[c].row.to) /\ (~call[c].late => rows[call[c].row.to].status = "active")
      BY <1>0, <2>1 DEF CallKnows, RelationKnows
    <2> QED
      BY <1>3, <2>1, <2>2
  <1> QED
    BY <1>1, <1>2, <1>4, <1>5

\* A call about the session finds it, or finds none, and a call ends.
LEMMA SessionAsks ==
  ASSUME IInv, NEW c \in Callers,
         \/ Start(c) \/ FindAgain(c) \/ BeginFocus(c) \/ BeginClose(c) \/ Fails(c)
         \/ Proceed(c, "find") /\ call[c].at = "insert"
  PROVE  IInv'
  <1>0. /\ CallKnows(call[c]) /\ call = [d \in Callers |-> call[d]]
        /\ sessions \in Seq(Session) /\ \A i \in DOMAIN sessions : sessions[i] \in Session
    BY Asking DEF IInv, TablesFit
  <1>a. ASSUME NEW new, new = [at |-> new.at, on |-> new.on, row |-> new.row, late |-> new.late],
               new.late \in BOOLEAN, new.at \in {"insert", "find"}
        PROVE  CallKnows(new)
    BY <1>a DEF CallKnows
  <1>1. CASE Start(c)
    <2>1. PICK new : /\ new = [at |-> "insert", on |-> {}, row |-> [attempt |-> 1], late |-> FALSE]
                     /\ call' = [call EXCEPT ![c] = new]
                     /\ UNCHANGED <<rows, evidence, relations, sessions>>
      BY <1>1, Begins DEF Start
    <2> QED
      BY <1>a, <2>1, OneCallChanges
  <1>2. CASE Proceed(c, "find") /\ call[c].at = "insert"
    <2>1. PICK new : /\ new = [at |-> "find", on |-> call[c].on, row |-> call[c].row, late |-> call[c].late]
                     /\ call' = [call EXCEPT ![c] = new]
                     /\ UNCHANGED <<rows, evidence, relations, sessions>>
      BY <1>2, Proceeds
    <2>2. CallKnows(new)
      BY <1>0, <1>a, <2>1 DEF CallKnows
    <2> QED
      BY <2>1, <2>2, OneCallChanges
  <1>3. CASE FindAgain(c)
    <2>1. /\ call' = [call EXCEPT ![c] = [[call[c] EXCEPT !.at = "insert"] EXCEPT !.row.attempt = @ + 1]]
          /\ UNCHANGED <<rows, evidence, relations, sessions>>
      BY <1>0, <1>3 DEF FindAgain
    <2>2. PICK new : /\ new = [[call[c] EXCEPT !.at = "insert"] EXCEPT !.row.attempt = @ + 1]
                     /\ call' = [call EXCEPT ![c] = new]
      BY <2>1
    <2>3. call[c] = [at |-> call[c].at, on |-> call[c].on, row |-> call[c].row, late |-> call[c].late]
          /\ call[c].late \in BOOLEAN
      BY <1>0 DEF CallKnows
    <2>4. PICK mid : mid = [call[c] EXCEPT !.at = "insert"]
      OBVIOUS
    <2>5. mid = [at |-> "insert", on |-> call[c].on, row |-> call[c].row, late |-> call[c].late]
      BY <2>3, <2>4
    <2>6. PICK row : new = [mid EXCEPT !.row = row]
      BY <2>2, <2>4
    <2>7. new = [at |-> "insert", on |-> call[c].on, row |-> row, late |-> call[c].late]
      BY <2>5, <2>6
    <2>8. CallKnows(new)
      BY <1>a, <2>3, <2>7
    <2> QED
      BY <2>1, <2>2, <2>8, OneCallChanges
  <1>4. ASSUME NEW i \in OpenOnes, NEW row \in Session, Begin(c, "session", {i}, row) PROVE IInv'
    <2>1. PICK new : /\ new = [at |-> "session", on |-> {i}, row |-> row, late |-> FALSE]
                     /\ call' = [call EXCEPT ![c] = new]
                     /\ UNCHANGED <<rows, evidence, relations, sessions>>
      BY <1>4, Begins
    <2>2. i \in DOMAIN sessions /\ SessionKnows(new, i)
      BY <2>1 DEF SessionKnows, OpenOnes
    <2>3. CallKnows(new)
      BY <2>1, <2>2 DEF CallKnows
    <2> QED
      BY <2>1, <2>3, OneCallChanges
  <1>5. CASE BeginFocus(c)
    <2>1. PICK i \in OpenOnes, f \in {e \in Entities \ Memories : Exists(e)} \cup {"none"} :
            Begin(c, "session", {i}, [sessions[i] EXCEPT !.focus = f])
      BY <1>5 DEF BeginFocus
    <2>2. sessions[i] \in Session /\ f \in Entities \cup {"none"}
      BY <1>0 DEF OpenOnes
    <2>3. [sessions[i] EXCEPT !.focus = f] \in Session
      BY <2>2 DEF Session
    <2> QED
      BY <1>4, <2>1, <2>3
  <1>6. CASE BeginClose(c)
    <2>1. PICK i \in OpenOnes : Begin(c, "session", {i}, [sessions[i] EXCEPT !.open = FALSE])
      BY <1>6 DEF BeginClose
    <2>2. sessions[i] \in Session
      BY <1>0 DEF OpenOnes
    <2>3. [sessions[i] EXCEPT !.open = FALSE] \in Session
      BY <2>2 DEF Session
    <2> QED
      BY <1>4, <2>1, <2>3
  <1>7. CASE Fails(c)
    <2>1. CallKnows(Idle)
      BY DEF CallKnows, Idle
    <2> QED
      BY <1>7, <2>1, OneCallChanges DEF Fails
  <1> QED
    BY <1>1, <1>2, <1>3, <1>5, <1>6, <1>7

--------------------------------------------------------------------------------
(* The steps that write.                                                   *)

\* A write that no call under way rests on: every call keeps what it knows.
LEMMA AllKnow ==
  ASSUME IInv, UNCHANGED <<evidence, sessions, call>>,
         \A e \in Entities : Exists(e) => rows'[e] = rows[e],
         \A e \in Entities : HasDecisionFor(e)' => HasDecisionFor(e)
  PROVE  (call = [d \in Callers |-> call[d]] /\ \A d \in Callers : CallKnows(call[d]))'
  <1>1. \A e \in Entities : Exists(e) => Exists(e)'
    BY DEF Exists
  <1>2. ASSUME NEW d \in Callers PROVE CallKnows(call[d])'
    <2>1. CallKnows(call[d]) /\ TablesFit
      BY DEF IInv
    <2>2. call[d] = [call[d] EXCEPT !.late = @ \/ call[d].on \cap {} # {}]
      BY <2>1 DEF CallKnows
    <2>3. PICK d2 : d2 = call[d]
      OBVIOUS
    <2>4. CallKnows(d2)'
      <3> HIDE DEF CallKnows
      <3> QED
        BY <1>1, <2>1, <2>2, <2>3, StillKnows
    <2> QED
      BY <2>3, <2>4 DEF CallKnows, EditKnows, LinkKnows, RelationKnows, SessionKnows, Exists, HasDecisionFor
  <1> QED
    BY <1>2 DEF IInv

\* A row is written, or a relation is removed, where nobody could have read.
LEMMA Unread ==
  ASSUME IInv, (\E e \in Entities : Create(e)) \/ RemoveRelation
  PROVE  IInv'
  <1>1. CASE \E e \in Entities : Create(e)
    <2>1. PICK e \in Entities : Create(e)
      BY <1>1
    <2>2. PICK r \in Row(e) : rows' = [rows EXCEPT ![e] = r]
      BY <2>1 DEF Create
    <2>3. UNCHANGED <<evidence, relations, sessions, call>> /\ ~Exists(e)
      BY <2>1 DEF Create
    <2>4. \A f \in Entities : rows'[f] = IF f = e THEN r ELSE rows[f]
      BY <2>2 DEF IInv, TablesFit
    <2>5. TablesFit'
      <3>1. rows' = [f \in Entities |-> rows'[f]]
        BY <2>2 DEF IInv, TablesFit
      <3>2. \A f \in Entities : rows'[f] \in Row(f) \cup {Absent}
        BY <2>4 DEF IInv, TablesFit
      <3> QED
        BY <2>3, <3>1, <3>2 DEF IInv, TablesFit
    <2>6. (call = [d \in Callers |-> call[d]] /\ \A d \in Callers : CallKnows(call[d]))'
      <3>1. \A f \in Entities : HasDecisionFor(f)' => HasDecisionFor(f)
        BY <2>3 DEF HasDecisionFor
      <3>2. \A f \in Entities : Exists(f) => rows'[f] = rows[f]
        BY <2>3, <2>4
      <3> QED
        BY <2>3, <3>1, <3>2, AllKnow
    <2> QED
      BY <2>3, <2>5, <2>6 DEF IInv, OneSession
  <1>2. CASE RemoveRelation
    <2>1. relations' \subseteq relations /\ UNCHANGED <<rows, evidence, sessions, call>>
      BY <1>2 DEF RemoveRelation
    <2>2. (call = [d \in Callers |-> call[d]] /\ \A d \in Callers : CallKnows(call[d]))'
      <3>1. \A f \in Entities : HasDecisionFor(f)' => HasDecisionFor(f)
        BY <2>1 DEF HasDecisionFor
      <3> QED
        BY <2>1, <3>1, AllKnow
    <2> QED
      BY <2>1, <2>2 DEF IInv, OneSession, TablesFit
  <1> QED
    BY <1>1, <1>2

\* What a write is about, and what it puts there.
LEMMA Written ==
  ASSUME IInv, NEW c \in Callers
  PROVE  /\ Update(c) => \E e \in Entities :
              /\ call[c].on = {e} /\ EditKnows(call[c], e)
              /\ rows' = [rows EXCEPT ![e] = call[c].row.new]
         /\ Link(c) => \E m \in Memories :
              /\ call[c].on = {m} /\ LinkKnows(call[c], m)
              /\ evidence' = evidence \cup {<<m, call[c].row.source>>}
         /\ Relate(c) => /\ call[c].on = {call[c].row.from, call[c].row.to}
                         /\ RelationKnows(call[c], call[c].row)
         /\ UpdateSession(c) => \E i \in DOMAIN sessions :
              /\ call[c].on = {i} /\ SessionKnows(call[c], i)
              /\ call[c].row.open => OneOpen(i)
              /\ sessions' = [sessions EXCEPT ![i] = call[c].row]
  <1>1. CallKnows(call[c])
    BY DEF IInv
  <1>2. ASSUME Update(c)
        PROVE  \E e \in Entities : /\ call[c].on = {e} /\ EditKnows(call[c], e)
                                   /\ rows' = [rows EXCEPT ![e] = call[c].row.new]
    <2>1. call[c].at = "update"
      BY <1>2 DEF Update
    <2>2. PICK e \in Entities : call[c].on = {e} /\ EditKnows(call[c], e)
      BY <1>1, <2>1 DEF CallKnows
    <2>3. \E f \in call[c].on : rows' = [rows EXCEPT ![f] = call[c].row.new]
      BY <1>2 DEF Update
    <2> QED
      BY <2>2, <2>3
  <1>3. ASSUME Link(c)
        PROVE  \E m \in Memories : /\ call[c].on = {m} /\ LinkKnows(call[c], m)
                                   /\ evidence' = evidence \cup {<<m, call[c].row.source>>}
    <2>1. call[c].at = "link"
      BY <1>3 DEF Link
    <2>2. PICK m \in Memories : call[c].on = {m} /\ LinkKnows(call[c], m)
      BY <1>1, <2>1 DEF CallKnows
    <2>3. evidence' = evidence \cup {<<n, call[c].row.source>> : n \in call[c].on}
      BY <1>3 DEF Link
    <2> QED
      BY <2>2, <2>3
  <1>4. ASSUME Relate(c)
        PROVE  call[c].on = {call[c].row.from, call[c].row.to} /\ RelationKnows(call[c], call[c].row)
    BY <1>1, <1>4 DEF Relate, CallKnows
  <1>5. ASSUME UpdateSession(c)
        PROVE  \E i \in DOMAIN sessions : /\ call[c].on = {i} /\ SessionKnows(call[c], i)
                                          /\ call[c].row.open => OneOpen(i)
                                          /\ sessions' = [sessions EXCEPT ![i] = call[c].row]
    <2>1. call[c].at = "session"
      BY <1>5 DEF UpdateSession
    <2>2. PICK i \in DOMAIN sessions : call[c].on = {i} /\ SessionKnows(call[c], i)
      BY <1>1, <2>1 DEF CallKnows
    <2>3. \E j \in call[c].on : /\ call[c].row.open => OneOpen(j)
                                /\ sessions' = [sessions EXCEPT ![j] = call[c].row]
      BY <1>5 DEF UpdateSession
    <2> QED
      BY <2>2, <2>3
  <1> QED
    BY <1>2, <1>3, <1>4, <1>5

\* The whole row is written back: who read it before is late.
LEMMA RowIsWritten ==
  ASSUME IInv, NEW c \in Callers, Update(c)
  PROVE  IInv'
  <1>1. PICK e \in Entities : /\ call[c].on = {e} /\ EditKnows(call[c], e)
                              /\ rows' = [rows EXCEPT ![e] = call[c].row.new]
    BY Written
  <1>2. UNCHANGED <<evidence, relations, sessions>> /\ Ends(c, {e})
    BY <1>1 DEF Update
  <1>3. \A f \in Entities : rows'[f] = IF f = e THEN call[c].row.new ELSE rows[f]
    BY <1>1 DEF IInv, TablesFit
  <1>4. call[c].row.new \in Row(e) /\ call[c].row.new # Absent
    BY <1>1, RowFacts DEF EditKnows
  <1>5. TablesFit'
    <2>1. rows' = [f \in Entities |-> rows'[f]]
      BY <1>1 DEF IInv, TablesFit
    <2>2. \A f \in Entities : rows'[f] \in Row(f) \cup {Absent}
      BY <1>3, <1>4 DEF IInv, TablesFit
    <2> QED
      BY <1>2, <2>1, <2>2 DEF IInv, TablesFit
  <1>6. \A f \in Entities : Exists(f) => Exists(f)'
    BY <1>3, <1>4 DEF Exists
  <1>7. \A f \in Entities : f \notin {e} /\ Exists(f) => rows'[f] = rows[f]
    BY <1>3
  <1>8. \A f \in Entities : f \notin {e} =>
          /\ \A s \in Sources : <<f, s>> \in evidence' => <<f, s>> \in evidence
          /\ HasDecisionFor(f)' => HasDecisionFor(f)
    BY <1>2 DEF HasDecisionFor
  <1>9. (call = [d \in Callers |-> call[d]] /\ \A d \in Callers : CallKnows(call[d]))'
    BY <1>2, <1>6, <1>7, <1>8, OthersKnow
  <1> QED
    BY <1>2, <1>5, <1>9 DEF IInv, OneSession

\* Evidence is added to one memory, and a relation to two rows.
LEMMA LinkIsWritten ==
  ASSUME IInv, NEW c \in Callers, Link(c) \/ Relate(c)
  PROVE  IInv'
  <1>1. CASE Link(c)
    <2>1. PICK m \in Memories : /\ call[c].on = {m} /\ LinkKnows(call[c], m)
                                /\ evidence' = evidence \cup {<<m, call[c].row.source>>}
      BY <1>1, Written
    <2>2. UNCHANGED <<rows, relations, sessions>> /\ Ends(c, {m})
      BY <1>1, <2>1 DEF Link
    <2>3. TablesFit'
      <3>1. call[c].row.source \in Sources
        BY <2>1 DEF LinkKnows
      <3> QED
        BY <2>1, <2>2, <3>1 DEF IInv, TablesFit
    <2>4. \A f \in Entities : f \notin {m} =>
            /\ \A s \in Sources : <<f, s>> \in evidence' => <<f, s>> \in evidence
            /\ HasDecisionFor(f)' => HasDecisionFor(f)
      BY <2>1, <2>2 DEF HasDecisionFor
    <2>5. (call = [d \in Callers |-> call[d]] /\ \A d \in Callers : CallKnows(call[d]))'
      <3>1. \A f \in Entities : Exists(f) => Exists(f)'
        BY <2>2 DEF Exists
      <3> QED
        BY <2>2, <2>4, <3>1, OthersKnow
    <2> QED
      BY <2>2, <2>3, <2>5 DEF IInv, OneSession
  <1>2. CASE Relate(c)
    <2> DEFINE r == call[c].row
    <2>1. r \in Drawable /\ call[c].on = {r.from, r.to}
      BY <1>2, Written DEF RelationKnows
    <2>2. /\ UNCHANGED <<rows, evidence, sessions>> /\ Ends(c, {r.from, r.to})
          /\ relations' = relations \cup {r}
      BY <1>2, <2>1 DEF Relate
    <2>3. TablesFit'
      BY <2>1, <2>2 DEF IInv, TablesFit
    <2>4. \A f \in Entities : f \notin {r.from, r.to} /\ HasDecisionFor(f)' => HasDecisionFor(f)
      BY <2>2 DEF HasDecisionFor
    <2>5. (call = [d \in Callers |-> call[d]] /\ \A d \in Callers : CallKnows(call[d]))'
      <3>1. \A f \in Entities : Exists(f) => Exists(f)'
        BY <2>2 DEF Exists
      <3> HIDE DEF r
      <3> QED
        BY <2>2, <2>4, <3>1, OthersKnow
    <2> QED
      BY <2>2, <2>3, <2>5 DEF IInv, OneSession
  <1> QED
    BY <1>1, <1>2

\* A session is a new row, or written back whole; the index leaves one open.
LEMMA SessionIsWritten ==
  ASSUME IInv, NEW c \in Callers, InsertOpen(c) \/ UpdateSession(c)
  PROVE  IInv'
  <1>0. sessions \in Seq(Session) /\ New \in Session
    BY DEF IInv, TablesFit, New, Session
  <1>a. ASSUME NEW x, UNCHANGED <<rows, evidence, relations>>, Ends(c, x),
               DOMAIN sessions \subseteq DOMAIN sessions',
               \A i \in DOMAIN sessions : i \notin x => sessions'[i] = sessions[i]
        PROVE  (call = [d \in Callers |-> call[d]] /\ \A d \in Callers : CallKnows(call[d]))'
    <2>1. \A f \in Entities : Exists(f) => Exists(f)'
      BY <1>a DEF Exists
    <2>2. \A f \in Entities : HasDecisionFor(f)' => HasDecisionFor(f)
      BY <1>a DEF HasDecisionFor
    <2> QED
      BY <1>a, <2>1, <2>2, OthersKnow
  <1>1. CASE InsertOpen(c)
    <2>1. CASE /\ OneOpen(Len(sessions) + 1) /\ Len(sessions) + 1 <= MaxSessions
               /\ sessions' = Opened
               /\ Ends(c, {Len(sessions) + 1})
               /\ UNCHANGED <<rows, evidence, relations>>
      <3>1. /\ sessions' \in Seq(Session) /\ Len(sessions') = Len(sessions) + 1
            /\ \A i \in DOMAIN sessions : sessions'[i] = sessions[i] /\ i # Len(sessions) + 1
            /\ \A i \in DOMAIN sessions' : i \in DOMAIN sessions \/ i = Len(sessions) + 1
            /\ DOMAIN sessions \subseteq DOMAIN sessions'
        BY <1>0, <2>1 DEF Opened
      <3>2. TablesFit'
        BY <2>1, <3>1 DEF IInv, TablesFit
      <3>3. OneSession'
        <4>1. \A i \in DOMAIN sessions : ~sessions[i].open
          BY <2>1, <3>1 DEF OneOpen, OpenOnes
        <4> QED
          BY <3>1, <4>1 DEF OneSession
      <3>4. (call = [d \in Callers |-> call[d]] /\ \A d \in Callers : CallKnows(call[d]))'
        BY <1>a, <2>1, <3>1
      <3> QED
        BY <3>2, <3>3, <3>4 DEF IInv
    <2>2. CASE call[c].at = "insert" /\ Proceed(c, "find")
      BY <2>2, SessionAsks
    <2> QED
      BY <1>1, <2>1, <2>2 DEF InsertOpen
  <1>2. CASE UpdateSession(c)
    <2>1. PICK i \in DOMAIN sessions : /\ call[c].on = {i} /\ SessionKnows(call[c], i)
                                       /\ call[c].row.open => OneOpen(i)
                                       /\ sessions' = [sessions EXCEPT ![i] = call[c].row]
      BY <1>2, Written
    <2>2. UNCHANGED <<rows, evidence, relations>> /\ Ends(c, {i})
      BY <1>2, <2>1 DEF UpdateSession
    <2>3. call[c].row \in Session
      BY <2>1 DEF SessionKnows
    <2>4. /\ sessions' \in Seq(Session) /\ Len(sessions') = Len(sessions)
          /\ DOMAIN sessions' = DOMAIN sessions
          /\ \A j \in DOMAIN sessions : sessions'[j] = IF j = i THEN call[c].row ELSE sessions[j]
      BY <1>0, <2>1, <2>3
    <2>5. TablesFit'
      BY <2>2, <2>4 DEF IInv, TablesFit
    <2>6. OneSession'
      <3>1. call[c].row.open => \A j \in DOMAIN sessions : sessions[j].open => j = i
        BY <2>1 DEF OneOpen, OpenOnes
      <3>2. \A j, k \in DOMAIN sessions : sessions[j].open /\ sessions[k].open => j = k
        BY DEF IInv, OneSession
      <3> QED
        BY <2>4, <3>1, <3>2 DEF OneSession
    <2>7. (call = [d \in Callers |-> call[d]] /\ \A d \in Callers : CallKnows(call[d]))'
      BY <1>a, <2>2, <2>4
    <2> QED
      BY <2>5, <2>6, <2>7 DEF IInv
  <1> QED
    BY <1>1, <1>2

--------------------------------------------------------------------------------
(* The invariant.                                                          *)

\* Nothing exists and nothing is under way at first.
LEMMA AtFirst == Init => IInv
  <1> SUFFICES ASSUME Init PROVE IInv
    OBVIOUS
  <1>1. TablesFit
    BY DEF Init, TablesFit
  <1>2. OneSession
    BY DEF Init, OneSession
  <1>3. CallKnows(Idle)
    BY DEF CallKnows, Idle
  <1> QED
    BY <1>1, <1>2, <1>3 DEF Init, IInv

\* Every statement of every call keeps what is known, or says who is late.
LEMMA Steps == IInv /\ [Next]_vars => IInv'
  <1> SUFFICES ASSUME IInv, [Next]_vars PROVE IInv'
    OBVIOUS
  <1>1. CASE UNCHANGED vars
    <2>1. UNCHANGED <<rows, evidence, relations, sessions, call>>
      BY <1>1 DEF vars
    <2>2. \A e \in Entities : HasDecisionFor(e)' => HasDecisionFor(e)
      BY <2>1 DEF HasDecisionFor
    <2>3. (call = [d \in Callers |-> call[d]] /\ \A d \in Callers : CallKnows(call[d]))'
      BY <2>1, <2>2, AllKnow
    <2> QED
      BY <2>1, <2>3 DEF IInv, TablesFit, OneSession
  <1>2. CASE (\E e \in Entities : Create(e)) \/ RemoveRelation
    BY <1>2, Unread
  <1>3. ASSUME NEW c \in Callers, BeginUpdate(c) \/ CheckFloor(c) \/ CheckGoverns(c) PROVE IInv'
    BY <1>3, EditAsks
  <1>4. ASSUME NEW c \in Callers, BeginLink(c) \/ BeginRelation(c) \/ CheckTarget(c) \/ CheckOrigin(c)
        PROVE  IInv'
    BY <1>4, LinksAsk
  <1>5. ASSUME NEW c \in Callers, Start(c) \/ FindAgain(c) \/ BeginFocus(c) \/ BeginClose(c) \/ Fails(c)
        PROVE  IInv'
    BY <1>5, SessionAsks
  <1>6. ASSUME NEW c \in Callers, Update(c) \/ Link(c) \/ Relate(c) PROVE IInv'
    BY <1>6, RowIsWritten, LinkIsWritten
  <1>7. ASSUME NEW c \in Callers, InsertOpen(c) \/ UpdateSession(c) PROVE IInv'
    BY <1>7, SessionIsWritten
  <1> QED
    BY <1>1, <1>2, <1>3, <1>4, <1>5, <1>6, <1>7 DEF Next

\* Whatever the entities and however the calls interleave, each call still knows what it
\* read about what it will write, or is marked late.
THEOREM Inductive == Spec => []IInv
  <1> QED
    BY AtFirst, Steps, PTL DEF Spec

\* Rows, evidence and relations have their types, and one session at most is open: what
\* the partial unique index holds against every interleaving of starts, closes and
\* focuses written from an old read.
THEOREM PalaceHolds == Spec => []PalaceIsSound
  <1>1. IInv => PalaceIsSound
    BY DEF IInv, TablesFit, OneSession, PalaceIsSound
  <1> QED
    BY <1>1, Inductive, PTL

--------------------------------------------------------------------------------
(* What no step breaks unless another overtook it.                         *)

\* A call that writes of x while late is one another overtook on x.
LEMMA LateIsOvertaken ==
  ASSUME NEW c \in Callers, NEW on, Ends(c, on), NEW x \in call[c].on, call[c].late
  PROVE  OvertakenOn(x)
  <1>1. call'[c] = Idle
    BY DEF Ends
  <1> QED
    BY <1>1 DEF OvertakenOn

\* A step that is none of the five that write of memories leaves them be.
LEMMA LeavesMemories ==
  ASSUME IInv, [Next]_vars, ~\E e \in Entities : Create(e),
         ~\E c \in Callers : Update(c) \/ Link(c) \/ Relate(c)
  PROVE  UNCHANGED <<rows, evidence>> /\ relations' \subseteq relations
  <1>1. CASE UNCHANGED vars
    BY <1>1 DEF vars
  <1>2. CASE RemoveRelation
    BY <1>2 DEF RemoveRelation
  <1>3. ASSUME NEW c \in Callers, BeginUpdate(c) \/ BeginLink(c) \/ BeginRelation(c) \/ Start(c)
                                  \/ BeginFocus(c) \/ BeginClose(c)
        PROVE  UNCHANGED <<rows, evidence, relations>>
    BY <1>3 DEF BeginUpdate, BeginLink, BeginRelation, Start, BeginFocus, BeginClose, Begin
  <1>4. ASSUME NEW c \in Callers, CheckFloor(c) \/ CheckGoverns(c) \/ CheckTarget(c) \/ CheckOrigin(c)
        PROVE  UNCHANGED <<rows, evidence, relations>>
    BY <1>4 DEF CheckFloor, CheckGoverns, CheckTarget, CheckOrigin, Proceed
  <1>5. ASSUME NEW c \in Callers, FindAgain(c) \/ Fails(c) \/ InsertOpen(c) \/ UpdateSession(c)
        PROVE  UNCHANGED <<rows, evidence, relations>>
    BY <1>5 DEF FindAgain, Fails, InsertOpen, UpdateSession, Proceed
  <1> QED
    BY <1>1, <1>2, <1>3, <1>4, <1>5 DEF Next

\* A memory above its evidence stays so, unless a call overtaken on it writes.
LEMMA StaysAbove ==
  ASSUME IInv, [Next]_vars, NEW m \in Memories, AboveEvidence(m), ~OvertakenOn(m)
  PROVE  AboveEvidence(m)'
  <1>0. m \in Entities /\ (Exists(m) => rows[m] \in Row(m)) /\ \A s \in Sources : LevelOf[s] \in Nat
    BY DEF Memories, IInv, TablesFit, Exists, Levels
  <1>1. ASSUME NEW e \in Entities, Create(e) PROVE AboveEvidence(m)'
    <2>1. PICK r \in Row(e) : rows' = [rows EXCEPT ![e] = r]
      BY <1>1 DEF Create
    <2>2. evidence' = evidence /\ ~Exists(e)
      BY <1>1 DEF Create
    <2>3. CASE e # m
      <3>1. rows'[m] = rows[m] /\ evidence' = evidence
        BY <1>0, <2>1, <2>2, <2>3 DEF IInv, TablesFit
      <3> QED
        BY <3>1 DEF AboveEvidence
    <2>4. CASE e = m
      <3>1. rows[m].level = 0 /\ rows'[m] = r /\ r.level \in Nat
        BY <1>0, <2>1, <2>2, <2>4, RowFacts DEF Exists, Absent, IInv, TablesFit
      <3>2. ASSUME NEW s \in Sources, <<m, s>> \in evidence' PROVE rows'[m].level >= LevelOf[s]
        <4>1. 0 >= LevelOf[s]
          BY <2>2, <3>1, <3>2 DEF AboveEvidence
        <4> QED
          BY <1>0, <3>1, <4>1
      <3> QED
        BY <3>2 DEF AboveEvidence
    <2> QED
      BY <2>3, <2>4
  <1>2. ASSUME NEW c \in Callers, Update(c) PROVE AboveEvidence(m)'
    <2>1. PICK e \in Entities : /\ call[c].on = {e} /\ EditKnows(call[c], e)
                                /\ rows' = [rows EXCEPT ![e] = call[c].row.new]
      BY <1>2, Written
    <2>2. evidence' = evidence /\ Ends(c, {e}) /\ call[c].at = "update"
      BY <1>2, <2>1 DEF Update
    <2>3. CASE e # m
      <3>1. rows'[m] = rows[m] /\ evidence' = evidence
        BY <1>0, <2>1, <2>2, <2>3 DEF IInv, TablesFit
      <3> QED
        BY <3>1 DEF AboveEvidence
    <2>4. CASE e = m
      <3>1. ~call[c].late
        BY <2>1, <2>2, <2>4, LateIsOvertaken
      <3>2. \/ call[c].row.new.level >= rows[m].level
            \/ \A s \in Sources : <<m, s>> \in evidence => call[c].row.new.level >= LevelOf[s]
        BY <2>1, <2>2, <2>4, <3>1 DEF EditKnows
      <3>3. call[c].row.new.level \in Nat /\ rows[m].level \in Nat
        BY <1>0, <2>1, <2>4, RowFacts DEF EditKnows
      <3>4. rows'[m] = call[c].row.new
        BY <1>0, <2>1, <2>4 DEF IInv, TablesFit
      <3>5. ASSUME NEW s \in Sources, <<m, s>> \in evidence' PROVE rows'[m].level >= LevelOf[s]
        <4>1. rows[m].level >= LevelOf[s]
          BY <2>2, <3>5 DEF AboveEvidence
        <4> QED
          BY <1>0, <2>2, <3>2, <3>3, <3>4, <3>5, <4>1
      <3> QED
        BY <3>5 DEF AboveEvidence
    <2> QED
      BY <2>3, <2>4
  <1>3. ASSUME NEW c \in Callers, Link(c) PROVE AboveEvidence(m)'
    <2>1. PICK n \in Memories : /\ call[c].on = {n} /\ LinkKnows(call[c], n)
                                /\ evidence' = evidence \cup {<<n, call[c].row.source>>}
      BY <1>3, Written
    <2>2. rows' = rows /\ Ends(c, {n})
      BY <1>3, <2>1 DEF Link
    <2>3. n = m => rows[m].level >= LevelOf[call[c].row.source]
      BY <2>1, <2>2, LateIsOvertaken DEF LinkKnows
    <2> QED
      BY <2>1, <2>2, <2>3 DEF AboveEvidence
  <1>4. ASSUME NEW c \in Callers, Relate(c) PROVE AboveEvidence(m)'
    BY <1>4 DEF AboveEvidence, Relate
  <1>5. CASE UNCHANGED <<rows, evidence>>
    BY <1>5 DEF AboveEvidence
  <1> QED
    BY <1>1, <1>2, <1>3, <1>4, <1>5, LeavesMemories

\* A decision that governs something stays one, and nothing else comes to govern, unless
\* a call overtaken on it writes.
LEMMA StaysDecision ==
  ASSUME IInv, [Next]_vars, NEW m \in Memories, Governs(m), ~OvertakenOn(m)
  PROVE  Governs(m)'
  <1>0. m \in Entities /\ relations \subseteq Drawable
    BY DEF Memories, IInv, TablesFit
  <1>1. ASSUME NEW e \in Entities, Create(e) PROVE Governs(m)'
    <2>1. PICK r \in Row(e) : rows' = [rows EXCEPT ![e] = r]
      BY <1>1 DEF Create
    <2>2. relations' = relations /\ ~Exists(e)
      BY <1>1 DEF Create
    <2>3. CASE e # m
      BY <2>1, <2>2, <2>3 DEF Governs, IInv, TablesFit
    <2>4. CASE e = m
      <3>1. rows[m].kind = "none"
        BY <2>2, <2>4 DEF Exists, Absent
      <3> QED
        BY <2>2, <3>1 DEF Governs
    <2> QED
      BY <2>3, <2>4
  <1>2. ASSUME NEW c \in Callers, Update(c) PROVE Governs(m)'
    <2>1. PICK e \in Entities : /\ call[c].on = {e} /\ EditKnows(call[c], e)
                                /\ rows' = [rows EXCEPT ![e] = call[c].row.new]
      BY <1>2, Written
    <2>2. relations' = relations /\ Ends(c, {e}) /\ call[c].at = "update"
      BY <1>2, <2>1 DEF Update
    <2>3. CASE e # m
      BY <2>1, <2>2, <2>3 DEF Governs, IInv, TablesFit
    <2>4. CASE e = m
      <3>1. ~call[c].late
        BY <2>1, <2>2, <2>4, LateIsOvertaken
      <3>2. ~Reclassifies(rows[m], call[c].row.new) \/ ~HasDecisionFor(m)
        BY <2>1, <2>2, <2>4, <3>1 DEF EditKnows
      <3>3. rows'[m] = call[c].row.new /\ call[c].row.new.kind \in {"decision", "fact"}
        BY <1>0, <2>1, <2>4, RowFacts DEF EditKnows, IInv, TablesFit
      <3> QED
        BY <2>2, <3>2, <3>3 DEF Governs, HasDecisionFor, Reclassifies
    <2> QED
      BY <2>3, <2>4
  <1>3. ASSUME NEW c \in Callers, Relate(c) PROVE Governs(m)'
    <2> DEFINE r == call[c].row
    <2>1. call[c].on = {r.from, r.to} /\ RelationKnows(call[c], r)
      BY <1>3, Written
    <2>2. /\ rows' = rows /\ relations' = relations \cup {r}
          /\ Ends(c, call[c].on) /\ call[c].at = "relate"
      BY <1>3 DEF Relate
    <2>3. r.from = m => ~call[c].late
      <3>1. r.from \in call[c].on
        BY <2>1
      <3> QED
        BY <2>2, <3>1, LateIsOvertaken
    <2>4. r.from = m /\ r.kind = "decision_for" => rows[m].kind = "decision"
      BY <2>1, <2>2, <2>3 DEF RelationKnows
    <2> QED
      BY <2>2, <2>4 DEF Governs
  <1>4. ASSUME NEW c \in Callers, Link(c) PROVE Governs(m)'
    BY <1>4 DEF Governs, Link
  <1>5. CASE UNCHANGED rows /\ relations' \subseteq relations
    BY <1>5 DEF Governs
  <1> QED
    BY <1>1, <1>2, <1>3, <1>4, <1>5, LeavesMemories

\* A relation is drawn between rows that are active when it is, unless a call overtaken
\* on one of them draws it.
LEMMA DrawnToActive ==
  ASSUME IInv, [Next]_vars, NEW r \in relations' \ relations, NEW e \in {r.from, r.to}, ~OvertakenOn(e)
  PROVE  rows[e].status = "active"
  <1>1. PICK c \in Callers : Relate(c)
    <2>1. ~\E f \in Entities : Create(f)
      BY DEF Create
    <2>2. ~\E c \in Callers : Update(c) \/ Link(c)
      BY DEF Update, Link
    <2> QED
      BY <2>1, <2>2, LeavesMemories
  <1>2. call[c].on = {call[c].row.from, call[c].row.to} /\ RelationKnows(call[c], call[c].row)
    BY <1>1, Written
  <1>3. Ends(c, call[c].on) /\ call[c].at = "relate" /\ r = call[c].row
    BY <1>1 DEF Relate
  <1>4. ~call[c].late
    BY <1>2, <1>3, LateIsOvertaken
  <1> QED
    BY <1>2, <1>3, <1>4 DEF RelationKnows

\* A session that was closed is open only if a call overtaken on it wrote it.
LEMMA StaysClosed ==
  ASSUME IInv, [Next]_vars, NEW i \in DOMAIN sessions, sessions'[i].open, ~OvertakenOn(i)
  PROVE  sessions[i].open
  <1>0. sessions \in Seq(Session)
    BY DEF IInv, TablesFit
  <1>1. ASSUME NEW c \in Callers, UpdateSession(c) PROVE sessions[i].open
    <2>1. PICK j \in DOMAIN sessions : /\ call[c].on = {j} /\ SessionKnows(call[c], j)
                                       /\ call[c].row.open => OneOpen(j)
                                       /\ sessions' = [sessions EXCEPT ![j] = call[c].row]
      BY <1>1, Written
    <2>2. Ends(c, {j})
      BY <1>1, <2>1 DEF UpdateSession
    <2>3. j = i => sessions[i].open
      BY <2>1, <2>2, LateIsOvertaken DEF SessionKnows
    <2> QED
      BY <1>0, <2>1, <2>3
  <1>2. ASSUME NEW c \in Callers, InsertOpen(c) PROVE sessions[i].open
    <2>1. sessions' = Append(sessions, New) \/ sessions' = sessions
      BY <1>2 DEF InsertOpen, Opened, Proceed
    <2> QED
      BY <1>0, <2>1
  <1>3. CASE (\E e \in Entities : Create(e)) \/ RemoveRelation \/ UNCHANGED vars
    BY <1>3 DEF Create, RemoveRelation, vars
  <1>4. ASSUME NEW c \in Callers, BeginUpdate(c) \/ BeginLink(c) \/ BeginRelation(c) \/ Start(c)
                                  \/ BeginFocus(c) \/ BeginClose(c)
        PROVE  UNCHANGED sessions
    BY <1>4 DEF BeginUpdate, BeginLink, BeginRelation, Start, BeginFocus, BeginClose, Begin
  <1>5. ASSUME NEW c \in Callers, CheckFloor(c) \/ CheckGoverns(c) \/ CheckTarget(c) \/ CheckOrigin(c)
        PROVE  UNCHANGED sessions
    BY <1>5 DEF CheckFloor, CheckGoverns, CheckTarget, CheckOrigin, Proceed
  <1>6. ASSUME NEW c \in Callers, FindAgain(c) \/ Fails(c) \/ Update(c) \/ Link(c) \/ Relate(c)
        PROVE  UNCHANGED sessions
    BY <1>6 DEF FindAgain, Fails, Update, Link, Relate
  <1> QED
    BY <1>1, <1>2, <1>3, <1>4, <1>5, <1>6 DEF Next

\* Memories stay above their evidence, what governs stays a decision, nothing is drawn to
\* what is archived and a closed session stays closed: only a call that another overtook
\* on the same row breaks one of the four, however many calls and rows there are.
THEOREM RulesEndure == Spec => RulesAreKept
  <1> DEFINE Rules ==
               /\ \A m \in Memories : AboveEvidence(m) /\ Governs(m) =>
                    (AboveEvidence(m) /\ Governs(m))' \/ OvertakenOn(m)
               /\ \A r \in relations' \ relations : \A e \in {r.from, r.to} :
                    rows[e].status = "active" \/ OvertakenOn(e)
             Closed == \A i \in DOMAIN sessions : sessions'[i].open => sessions[i].open \/ OvertakenOn(i)
  <1>1. IInv /\ [Next]_vars => Rules
    BY StaysAbove, StaysDecision, DrawnToActive
  <1>2. IInv /\ [Next]_vars => Closed
    BY StaysClosed
  <1>3. Spec => [][Rules]_vars
    BY <1>1, Inductive, PTL DEF Spec
  <1>4. Spec => [][Closed]_vars
    BY <1>2, Inductive, PTL DEF Spec
  <1> QED
    BY <1>3, <1>4 DEF RulesAreKept, RulesHold, ClosedStaysClosed
================================================================================
