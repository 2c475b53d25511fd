----------------------------- MODULE FinanceProofs -----------------------------
(***************************************************************************)
(* Proofs about finance: what a statement brings in (StatementImport), the *)
(* months of recurring entries (FinanceMonths) and the ledger of           *)
(* transactions, transfers and purchases (FinanceLedger), for any          *)
(* statements, entries, categories and prices and any number of calls      *)
(* under way.                                                              *)
(***************************************************************************)
EXTENDS StatementImport, FinanceMonths, FinanceLedger, FiniteLemmas, FiniteSetTheorems,
        SequenceTheorems, TLAPS

--------------------------------------------------------------------------------
(* Imports of statements.                                                  *)

\* Lines of a statement are finitely many and numbered (parseCSV).
LEMMA FiniteLines ==
  ASSUME NEW f \in Files, NEW S \in SUBSET Lines(f)
  PROVE  IsFiniteSet(S) /\ Cardinality(S) \in Nat /\ S \subseteq Nat
  <1>1. Len(Statement[f]) \in Nat /\ Lines(f) = 1..Len(Statement[f])
    BY ImportAssumption DEF ImportAssumption
  <1>2. 1..Len(Statement[f]) \subseteq Nat
    BY <1>1
  <1>3. IsFiniteSet(Lines(f))
    BY <1>1, FS_Interval
  <1> QED
    BY <1>1, <1>2, <1>3, FS_Subset, FS_CardinalityType

\* The columns of a batch and of its rows (import_batches, import_rows).
LEMMA BatchFields ==
  ASSUME TypeOK, NEW b \in DOMAIN batches
  PROVE  /\ b \in 1..Len(batches)
         /\ batches[b].file \in Files
         /\ batches[b] = [file |-> batches[b].file, status |-> batches[b].status,
                          state |-> batches[b].state, linked |-> batches[b].linked,
                          created |-> batches[b].created, skipped |-> batches[b].skipped,
                          eligible |-> batches[b].eligible]
         /\ batches[b].status \in {"prepared", "committed"}
         /\ batches[b].state \in [Lines(batches[b].file) -> RowState]
         /\ batches[b].linked \subseteq Lines(batches[b].file)
         /\ batches[b].eligible \subseteq Lines(batches[b].file)
         /\ batches[b].created \in Nat /\ batches[b].skipped \in Nat
  <1>1. PICK f \in Files : batches[b] \in Batch(f)
    BY DEF TypeOK
  <1>2. batches \in Seq({batches[a] : a \in DOMAIN batches})
    BY DEF TypeOK
  <1>3. DOMAIN batches = 1..Len(batches)
    BY <1>2
  <1> QED
    BY <1>1, <1>3 DEF Batch

\* Batches are numbered from 1.
LEMMA BatchNumbers ==
  ASSUME TypeOK
  PROVE  Len(batches) \in Nat /\ DOMAIN batches = 1..Len(batches) /\ Len(batches) <= MaxBatches
  <1>1. batches \in Seq({batches[a] : a \in DOMAIN batches})
    BY DEF TypeOK
  <1> QED
    BY <1>1 DEF TypeOK

\* Nothing has been imported at the start.
LEMMA InitIInv == Init => IInv
  <1> SUFFICES ASSUME Init PROVE IInv
    OBVIOUS
  <1>1. batches = <<>> /\ DOMAIN batches = {} /\ Len(batches) = 0
    BY DEF Init
  <1>2. Idle \in Call
    BY <1>1 DEF Idle, Call
  <1>3. TypeOK
    <2>1. batches \in Seq({batches[b] : b \in DOMAIN batches})
      BY <1>1
    <2> QED
      BY <1>1, <1>2, <2>1, ImportAssumption DEF Init, TypeOK, ImportAssumption
  <1>4. /\ OneLiveTransaction /\ AllOrNothing /\ OnlyReadyEnters
        /\ NothingVanishes /\ CountsCoverReady /\ Counted
    BY <1>1 DEF Init, OneLiveTransaction, Live, AllOrNothing, OnlyReadyEnters,
       NothingVanishes, CountsCoverReady, Counted, Prepared
  <1>5. Apart
    BY DEF Init, Apart, Pending, Idle
  <1>6. \A r \in Runners : Knows(r)
    BY DEF Init, Knows, Idle
  <1> QED
    BY <1>3, <1>4, <1>5, <1>6 DEF IInv

--------------------------------------------------------------------------------
(* Steps of a call that change nothing stored.                             *)

\* A call under way goes on, or ends: what is stored is as it was, so what it
\* now knows and would insert is all there is to show.
LEMMA CallStep ==
  ASSUME IInv, NEW r \in Runners, NEW c \in Call, call' = [call EXCEPT ![r] = c],
         UNCHANGED <<batches, ledger, deleted, late>>, Knows(r)',
         c.at = "finish" =>
           LET ids == Identities(batches[c.batch].file, c.entering) IN
           ids \cap LiveIds = {} /\ \A s \in Runners \ {r} : ids \cap Pending(s) = {}
  PROVE  IInv'
  <1> USE DEF IInv
  <1>1. /\ \A s \in Runners \ {r} : call'[s] = call[s]
        /\ call'[r] = c /\ call' \in [Runners -> Call]
    BY DEF TypeOK
  <1>2. Call' = Call /\ Prepared' = Prepared /\ LiveIds' = LiveIds /\ Live' = Live
    BY DEF Call, Prepared, LiveIds, Live
  <1>3. TypeOK'
    BY <1>1, <1>2 DEF TypeOK
  <1>4. OneLiveTransaction' /\ AllOrNothing' /\ OnlyReadyEnters' /\ CountsCoverReady'
    <2>1. OneLiveTransaction'
      BY <1>2 DEF OneLiveTransaction
    <2>2. AllOrNothing'
      BY <1>2 DEF AllOrNothing
    <2>3. OnlyReadyEnters' /\ CountsCoverReady'
      BY <1>2 DEF OnlyReadyEnters, CountsCoverReady, InState
    <2> QED
      BY <2>1, <2>2, <2>3
  <1>7. NothingVanishes' /\ Counted'
    BY <1>2 DEF NothingVanishes, Counted, InState
  <1>5. Apart'
    <2>1. \A s \in Runners \ {r} : Pending(s)' = Pending(s)
      BY <1>1 DEF Pending
    <2>2. /\ Pending(r)' \cap LiveIds = {}
          /\ \A s \in Runners \ {r} : Pending(r)' \cap Pending(s) = {}
      BY <1>1 DEF Pending
    <2> QED
      BY <1>2, <2>1, <2>2 DEF Apart
  <1>6. \A s \in Runners : Knows(s)'
    <2> SUFFICES ASSUME NEW s \in Runners \ {r} PROVE Knows(s)'
      OBVIOUS
    <2>1. Knows(s) /\ call'[s] = call[s]
      BY <1>1
    <2> QED
      BY <1>2, <2>1 DEF Knows, InState, Lost
  <1> QED
    BY <1>3, <1>4, <1>5, <1>6, <1>7

\* The state of a call at rest.
LEMMA IdleIsCall ==
  ASSUME TypeOK
  PROVE  Idle \in Call /\ Idle.at = "idle" /\ Idle.file = "none"
  BY BatchNumbers DEF Idle, Call

\* A call that ends, whatever it was doing, leaves what is stored as it was.
LEMMA EndsCall ==
  ASSUME IInv, NEW r \in Runners, call' = [call EXCEPT ![r] = Idle],
         UNCHANGED <<batches, ledger, deleted, late>>
  PROVE  IInv'
  <1>1. TypeOK /\ Idle \in Call /\ Idle.at = "idle"
    BY IdleIsCall DEF IInv
  <1>2. Knows(r)'
    BY <1>1 DEF Knows, Idle, TypeOK
  <1> QED
    BY <1>1, <1>2, CallStep

\* A statement no prepared batch has the content of goes on to be read.
LEMMA FindPreparedByContentStep ==
  ASSUME IInv, NEW r \in Runners, FindPreparedByContent(r)
  PROVE  IInv'
  <1>1. PICK f \in Files : call' = [call EXCEPT ![r] = [Idle EXCEPT !.at = "classify", !.file = f]]
    BY DEF FindPreparedByContent
  <1> DEFINE c == [Idle EXCEPT !.at = "classify", !.file = f]
  <1>2. c \in Call /\ c.at = "classify" /\ c.file = f
    BY IdleIsCall DEF Idle, Call, IInv
  <1>3. Knows(r)'
    BY <1>1, <1>2 DEF Knows, IInv, TypeOK
  <1> QED
    BY <1>1, <1>2, <1>3, CallStep DEF FindPreparedByContent

\* The identities read are those of transactions of the ledger.
LEMMA ReadIdentitiesStep ==
  ASSUME IInv, NEW r \in Runners, ReadIdentities(r)
  PROVE  IInv'
  <1> DEFINE c == [call[r] EXCEPT !.at = "stage", !.known = LiveIds]
  <1>1. call[r] \in Call /\ call[r].at = "classify" /\ call[r].file \in Files
    BY DEF ReadIdentities, IInv, TypeOK, Knows
  <1>2. LiveIds \subseteq {t.id : t \in ledger}
    BY DEF LiveIds, Live
  <1>3. LiveIds \subseteq UNION {Identities(f, Lines(f)) : f \in Files}
    <2> SUFFICES ASSUME NEW t \in ledger
                 PROVE  t.id \in UNION {Identities(f, Lines(f)) : f \in Files}
      BY <1>2
    <2>1. t.batch \in DOMAIN batches /\ t.id \in Identities(batches[t.batch].file, Lines(batches[t.batch].file))
      BY DEF IInv, TypeOK, AskedIds
    <2>2. batches[t.batch].file \in Files
      BY <2>1, BatchFields DEF IInv
    <2> QED
      BY <2>1, <2>2
  <1>4. c \in Call /\ c.at = "stage" /\ c.known = LiveIds /\ c.file = call[r].file
    BY <1>1, <1>3 DEF Call
  <1>5. call' = [call EXCEPT ![r] = c]
    BY <1>1 DEF ReadIdentities, ExistingIdentities, Call, IInv, TypeOK
  <1>6. Knows(r)'
    BY <1>1, <1>2, <1>4, <1>5 DEF ReadIdentities, Knows, IInv, TypeOK
  <1> QED
    BY <1>4, <1>5, <1>6, CallStep DEF ReadIdentities

\* A resolution or a commit picks a batch that waits.
LEMMA FindBatchStep ==
  ASSUME IInv, NEW r \in Runners, NEW next \in {"resolve", "reconcile"}, FindBatch(r, next)
  PROVE  IInv'
  <1>1. PICK b \in Prepared : call' = [call EXCEPT ![r] = [Idle EXCEPT !.at = next, !.batch = b]]
    BY DEF FindBatch
  <1> DEFINE c == [Idle EXCEPT !.at = next, !.batch = b]
  <1>2. b \in DOMAIN batches /\ b \in 0..Len(batches)
    BY BatchNumbers DEF Prepared, IInv
  <1>3. c \in Call /\ c.at = next /\ c.batch = b
    BY <1>2, IdleIsCall DEF Idle, Call, IInv
  <1>4. Knows(r)'
    BY <1>1, <1>2, <1>3 DEF Knows, IInv, TypeOK, FindBatch
  <1> QED
    BY <1>1, <1>3, <1>4, CallStep DEF FindBatch

\* The rows a commit counts are numbered lines of its batch's statement.
LEMMA RowsOfBatch ==
  ASSUME TypeOK, NEW b \in DOMAIN batches, NEW S \in SUBSET Lines(batches[b].file)
  PROVE  IsFiniteSet(S) /\ Cardinality(S) \in Nat /\ S \subseteq Nat
  BY BatchFields, FiniteLines

\* What a commit counts is what is ready then.
LEMMA ReconcileStep ==
  ASSUME IInv, NEW r \in Runners, Reconcile(r)
  PROVE  IInv'
  <1> DEFINE b == call[r].batch
             c == [call[r] EXCEPT !.at = "materialise", !.eligible = InState(b, "ready")]
  <1>1. call[r] \in Call /\ call[r].at = "reconcile" /\ b \in DOMAIN batches
    BY DEF Reconcile, IInv, TypeOK, Knows
  <1>2. InState(b, "ready") \in SUBSET Nat
    BY <1>1, RowsOfBatch DEF InState, IInv
  <1>3. /\ c \in Call /\ c.at = "materialise" /\ c.batch = b
        /\ c.eligible = InState(b, "ready")
    BY <1>1, <1>2 DEF Call
  <1>4. call' = [call EXCEPT ![r] = c]
    BY <1>1 DEF Reconcile, Call, IInv, TypeOK
  <1>5. call'[r] = c /\ UNCHANGED batches
    BY <1>4 DEF Reconcile, IInv, TypeOK
  <1>6. \A a \in DOMAIN batches : InState(a, "ready")' = InState(a, "ready")
    BY <1>5 DEF InState
  <1>7. Knows(r)'
    BY <1>1, <1>3, <1>5, <1>6 DEF Knows
  <1> QED
    BY <1>3, <1>4, <1>7, CallStep DEF Reconcile

\* What a commit inserts nobody else has inserted, and what it leaves out was
\* already a transaction of another batch.
LEMMA MaterialiseReadyStep ==
  ASSUME IInv, NEW r \in Runners, MaterialiseReady(r)
  PROVE  IInv'
  <1> DEFINE b == call[r].batch
             e == call[r].eligible
             c == [call[r] EXCEPT !.at = "finish", !.entering = Linked(b)]
  <1>1. /\ call[r] \in Call /\ call[r].at = "materialise" /\ b \in DOMAIN batches
        /\ e \subseteq InState(b, "ready")
    BY DEF MaterialiseReady, IInv, TypeOK, Knows
  <1>2. /\ Linked(b) \subseteq InState(b, "ready")
        /\ Cardinality(Linked(b)) <= Cardinality(e)
    BY DEF MaterialiseReady, MayLink
  <1>3. Linked(b) \in SUBSET Nat
    BY <1>1, RowsOfBatch DEF Linked, IInv
  <1>4. /\ c \in Call /\ c.at = "finish" /\ c.batch = b
        /\ c.eligible = e /\ c.entering = Linked(b)
    BY <1>1, <1>3 DEF Call
  <1>5. call' = [call EXCEPT ![r] = c]
    BY <1>1 DEF MaterialiseReady, Call, IInv, TypeOK
  <1>6. b \in Prepared => \A n \in e \ Linked(b) : Lost(b, n)
    <2> SUFFICES ASSUME b \in Prepared, NEW n \in e \ Linked(b) PROVE Lost(b, n)
      OBVIOUS
    <2>1. batches[b].linked = {} /\ {t.id : t \in {u \in ledger : u.batch = b}} = {}
      BY <1>1 DEF IInv, AllOrNothing, Identities
    <2>2. n \in Eligible(b) /\ n \in Lines(batches[b].file)
      BY <1>1, <2>1 DEF Eligible, InState
    <2>3. Identity(batches[b].file, n) \in LiveIds
      BY <2>2 DEF Linked, Inserted, Identities
    <2> QED
      BY <2>1, <2>3 DEF LiveIds, Live, Lost
  <1>7. Knows(r)'
    BY <1>1, <1>2, <1>4, <1>5, <1>6 DEF MaterialiseReady, Knows, InState, Prepared, Lost, IInv, TypeOK
  <1>8. Identities(batches[b].file, Linked(b)) \subseteq Inserted(b)
    BY DEF Identities, Linked
  <1>9. Inserted(b) \cap LiveIds = {}
    BY DEF Inserted
  <1>10. \A s \in Runners \ {r} : Identities(batches[b].file, Linked(b)) \cap Pending(s) = {}
    BY <1>8 DEF MaterialiseReady
  <1>11. \A s \in Runners \ {r} :
           Identities(batches[c.batch].file, c.entering) \cap Pending(s) = {}
    BY <1>4, <1>10
  <1> QED
    BY <1>4, <1>5, <1>7, <1>8, <1>9, <1>11, CallStep DEF MaterialiseReady

\* A failure undoes all its call has done.
LEMMA FailStep ==
  ASSUME IInv, NEW r \in Runners, Fail(r)
  PROVE  IInv'
  BY EndsCall DEF Fail, Rollback

--------------------------------------------------------------------------------
(* Steps that change what is stored.                                       *)

\* Classification gives a row its state.
LEMMA ClassifyState ==
  ASSUME NEW f, NEW n, NEW known
  PROVE  Classify(f, n, known) \in RowState
  BY DEF Classify, RowState

\* A staged batch has nothing in the ledger, and what it sets aside as already
\* imported was a transaction before it existed.
LEMMA StageBatchStep ==
  ASSUME IInv, NEW r \in Runners, StageBatch(r)
  PROVE  IInv'
  <1> DEFINE f == call[r].file
             k == call[r].known
             row == [n \in Lines(f) |-> Classify(f, n, k)]
             new == [file |-> f, status |-> "prepared", state |-> row,
                     linked |-> {}, created |-> 0, skipped |-> 0, eligible |-> {}]
             last == Len(batches) + 1
  <1>1. /\ TypeOK /\ Len(batches) \in Nat /\ DOMAIN batches = 1..Len(batches)
        /\ last <= MaxBatches /\ MaxBatches \in Nat
    BY BatchNumbers, ImportAssumption DEF IInv, StageBatch, ImportAssumption
  <1>2. f \in Files /\ k \subseteq {t.id : t \in ledger}
    BY DEF StageBatch, IInv, Knows
  <1>3. batches' = Append(batches, new)
    BY DEF StageBatch
  <1>4. /\ DOMAIN batches' = 1..last /\ Len(batches') = last
        /\ \A a \in DOMAIN batches : batches'[a] = batches[a]
        /\ batches'[last] = new /\ last \notin DOMAIN batches
        /\ DOMAIN batches' = DOMAIN batches \cup {last}
        /\ batches' \in Seq({batches'[a] : a \in DOMAIN batches'})
    <2>1. batches \in Seq({batches[a] : a \in DOMAIN batches} \cup {new})
      BY <1>1 DEF TypeOK
    <2>2. /\ Len(batches') = last /\ DOMAIN batches' = 1..last
          /\ \A a \in DOMAIN batches : batches'[a] = batches[a]
          /\ batches'[last] = new
      BY <1>1, <1>3, <2>1
    <2>3. batches' \in Seq({batches[a] : a \in DOMAIN batches} \cup {new})
      BY <1>3, <2>1
    <2>4. 1..last = 1..Len(batches) \cup {last} /\ last \notin 1..Len(batches)
      BY <1>1
    <2> QED
      BY <1>1, <2>2, <2>3, <2>4
  <1> HIDE DEF new, last
  <1>5. /\ new.file = f /\ new.status = "prepared" /\ new.state = row
        /\ new.linked = {} /\ new.eligible = {} /\ new \in Batch(f)
    BY ClassifyState DEF new, Batch
  <1>6. /\ Prepared' = Prepared \cup {last} /\ LiveIds' = LiveIds /\ Live' = Live
        /\ ledger' = ledger /\ late' = late /\ deleted' = deleted
    BY <1>4, <1>5 DEF Prepared, LiveIds, Live, StageBatch
  <1>7. \A a \in DOMAIN batches, s \in RowState : InState(a, s)' = InState(a, s)
    BY <1>4 DEF InState
  <1>8. /\ call' = [call EXCEPT ![r] = Idle]
        /\ \A s \in Runners \ {r} : call'[s] = call[s]
        /\ call'[r].at = "idle"
    BY DEF StageBatch, Idle, IInv, TypeOK
  <1>9. \A t \in ledger : t.batch \in DOMAIN batches /\ t.batch # last
    BY <1>1, <1>4 DEF TypeOK
  <1>10. TypeOK'
    <2>1. 0..Len(batches) \subseteq 0..Len(batches')
      BY <1>1, <1>4 DEF last
    <2>2. Call \subseteq Call'
      BY <2>1 DEF Call
    <2>3. call' \in [Runners -> Call']
      BY <1>1, <1>8, <2>2, IdleIsCall DEF TypeOK
    <2>4. \A b \in DOMAIN batches' : \E g \in Files : batches'[b] \in Batch(g)
      BY <1>1, <1>2, <1>4, <1>5 DEF TypeOK
    <2>5. /\ \A t \in ledger : /\ t.batch \in DOMAIN batches'
                               /\ t.id \in AskedIds(batches'[t.batch].file)
          /\ deleted \subseteq ledger /\ late \subseteq DOMAIN batches'
      BY <1>1, <1>4 DEF TypeOK
    <2>6. Len(batches') <= MaxBatches
      BY <1>1, <1>4
    <2> QED
      BY <1>4, <1>6, <2>3, <2>4, <2>5, <2>6 DEF TypeOK
  <1>11. OneLiveTransaction'
    BY <1>6 DEF OneLiveTransaction, IInv
  <1>12. AllOrNothing'
    <2> SUFFICES ASSUME NEW b \in DOMAIN batches'
                 PROVE  /\ b \in Prepared' => batches'[b].linked = {}
                        /\ {t.id : t \in {u \in ledger : u.batch = b}}
                             = Identities(batches'[b].file, batches'[b].linked)
      BY <1>6 DEF AllOrNothing
    <2>1. CASE b \in DOMAIN batches
      BY <1>4, <1>6, <2>1 DEF AllOrNothing, IInv
    <2>2. CASE b = last
      BY <1>4, <1>5, <1>9, <2>2 DEF Identities
    <2> QED
      BY <1>4, <2>1, <2>2
  <1>13. OnlyReadyEnters' /\ CountsCoverReady' /\ Counted'
    <2>1. OnlyReadyEnters'
      BY <1>4, <1>5, <1>7 DEF OnlyReadyEnters, IInv, RowState
    <2>2. CountsCoverReady'
      BY <1>4, <1>6, <1>7 DEF CountsCoverReady, IInv, RowState
    <2>3. Counted'
      BY <1>4, <1>6, <1>7 DEF Counted, IInv, RowState
    <2> QED
      BY <2>1, <2>2, <2>3
  <1>14. NothingVanishes'
    <2> DEFINE Aside(b) == InState(b, "duplicate") \cup InState(b, "ambiguous_duplicate")
    <2> SUFFICES ASSUME NEW b \in DOMAIN batches'
                 PROVE  /\ b \notin Prepared' =>
                             batches'[b].created + batches'[b].skipped
                               = Cardinality(batches'[b].eligible)
                        /\ \A n \in Aside(b)' \cup (batches'[b].eligible \ batches'[b].linked) :
                             \E t \in ledger : t.batch # b /\ t.id = Identity(batches'[b].file, n)
      BY <1>6 DEF NothingVanishes
    <2>1. CASE b \in DOMAIN batches
      <3>1. Aside(b)' = Aside(b)
        BY <1>7, <2>1 DEF RowState
      <3> QED
        BY <1>4, <1>6, <2>1, <3>1 DEF NothingVanishes, IInv
    <2>2. CASE b = last
      <3>1. b \in Prepared' /\ batches'[b] = new
        BY <1>4, <1>6, <2>2
      <3>2. \A n \in Aside(b)' : Identity(f, n) \in k
        BY <1>5, <3>1 DEF InState, Classify
      <3> QED
        BY <1>2, <1>5, <1>9, <2>2, <3>1, <3>2
    <2> QED
      BY <1>4, <2>1, <2>2
  <1>15. /\ \A s \in Runners \ {r} : Pending(s)' = Pending(s)
         /\ Pending(r)' = {}
    BY <1>4, <1>8 DEF Pending, IInv, Knows
  <1>16. Apart'
    BY <1>6, <1>15 DEF Apart, IInv
  <1>17. \A s \in Runners : Knows(s)'
    <2> SUFFICES ASSUME NEW s \in Runners PROVE Knows(s)'
      OBVIOUS
    <2>1. CASE s = r
      BY <1>8, <2>1 DEF Knows
    <2>2. CASE s # r
      <3>1. Knows(s) /\ call'[s] = call[s]
        BY <1>8, <2>2 DEF IInv
      <3>2. \A n : \A b \in DOMAIN batches : Lost(b, n)' = Lost(b, n)
        BY <1>4, <1>6 DEF Lost
      <3>3. \A b \in DOMAIN batches : b \in Prepared' <=> b \in Prepared
        BY <1>4, <1>6
      <3> QED
        BY <1>4, <1>6, <1>7, <3>1, <3>2, <3>3 DEF Knows, RowState
    <2> QED
      BY <2>1, <2>2
  <1> QED
    BY <1>10, <1>11, <1>12, <1>13, <1>14, <1>16, <1>17 DEF IInv

\* A resolution only makes rows ready, and is remembered when a commit had
\* counted them before.
LEMMA ResolveGroupStep ==
  ASSUME IInv, NEW r \in Runners, ResolveGroup(r)
  PROVE  IInv'
  <1> DEFINE b == call[r].batch
  <1>1. PICK n \in InState(b, "unresolved_category") :
          LET group == Statement[batches[b].file][n].group IN
          /\ batches' = [batches EXCEPT ![b].state =
               [m \in DOMAIN @ |-> IF /\ @[m] = "unresolved_category"
                                      /\ Statement[batches[b].file][m].group = group
                                   THEN "ready" ELSE @[m]]]
          /\ late' = IF Committing(b) \/ b \notin Prepared THEN late \cup {b} ELSE late
    BY DEF ResolveGroup
  <1>2. b \in DOMAIN batches /\ TypeOK /\ call[r].at = "resolve"
    BY DEF ResolveGroup, IInv, Knows
  <1> DEFINE group == Statement[batches[b].file][n].group
             f == batches[b].file
             state == [m \in Lines(f) |->
                         IF /\ batches[b].state[m] = "unresolved_category"
                            /\ Statement[f][m].group = group
                         THEN "ready" ELSE batches[b].state[m]]
  <1>3. /\ batches' = [batches EXCEPT ![b].state = state]
        /\ state \in [Lines(f) -> RowState]
    BY <1>1, <1>2, BatchFields DEF RowState
  <1>4. /\ DOMAIN batches' = DOMAIN batches
        /\ \A a \in DOMAIN batches : a # b => batches'[a] = batches[a]
        /\ batches'[b] = [file |-> f, status |-> batches[b].status, state |-> state,
                          linked |-> batches[b].linked, created |-> batches[b].created,
                          skipped |-> batches[b].skipped, eligible |-> batches[b].eligible]
    <2>1. batches[b] = [file |-> f, status |-> batches[b].status, state |-> batches[b].state,
                        linked |-> batches[b].linked, created |-> batches[b].created,
                        skipped |-> batches[b].skipped, eligible |-> batches[b].eligible]
      BY <1>2, BatchFields
    <2>2. batches'[b] = [batches[b] EXCEPT !.state = state]
      BY <1>2, <1>3
    <2> HIDE DEF state, f
    <2>3. batches'[b] = [file |-> f, status |-> batches[b].status, state |-> state,
                         linked |-> batches[b].linked, created |-> batches[b].created,
                         skipped |-> batches[b].skipped, eligible |-> batches[b].eligible]
      BY <2>1, <2>2
    <2> QED
      BY <1>2, <1>3, <2>3
  <1>5. /\ \A a \in DOMAIN batches : InState(a, "ready") \subseteq InState(a, "ready")'
        /\ \A a \in DOMAIN batches : a # b => InState(a, "ready")' = InState(a, "ready")
        /\ \A a \in DOMAIN batches :
             /\ InState(a, "duplicate")' = InState(a, "duplicate")
             /\ InState(a, "ambiguous_duplicate")' = InState(a, "ambiguous_duplicate")
    <2>1. \A a \in DOMAIN batches, s \in RowState : a # b => InState(a, s)' = InState(a, s)
      BY <1>4 DEF InState
    <2>2. /\ InState(b, "ready") \subseteq {m \in Lines(f) : state[m] = "ready"}
          /\ {m \in Lines(f) : state[m] = "duplicate"} = InState(b, "duplicate")
          /\ {m \in Lines(f) : state[m] = "ambiguous_duplicate"} = InState(b, "ambiguous_duplicate")
      BY DEF InState
    <2> HIDE DEF state
    <2>3. \A a \in DOMAIN batches, s \in RowState :
            a = b => InState(a, s)' = {m \in Lines(f) : state[m] = s}
      <3>1. batches'[b].file = f /\ batches'[b].state = state
        BY <1>4
      <3> HIDE DEF b, f
      <3> QED
        BY <3>1 DEF InState
    <2> QED
      BY <2>1, <2>2, <2>3 DEF RowState
  <1> HIDE DEF state
  <1>6. /\ \A a \in DOMAIN batches :
             /\ batches'[a].file = batches[a].file /\ batches'[a].linked = batches[a].linked
             /\ batches'[a].eligible = batches[a].eligible
             /\ batches'[a].created = batches[a].created
             /\ batches'[a].skipped = batches[a].skipped
             /\ batches'[a].status = batches[a].status
    BY <1>4
  <1>7. /\ Prepared' = Prepared /\ ledger' = ledger /\ deleted' = deleted
        /\ LiveIds' = LiveIds /\ Live' = Live
    <2>1. Prepared' = Prepared
      BY <1>4, <1>6 DEF Prepared
    <2>2. ledger' = ledger /\ deleted' = deleted
      BY DEF ResolveGroup
    <2> QED
      BY <2>1, <2>2 DEF LiveIds, Live
  <1>8. /\ call' = [call EXCEPT ![r] = Idle]
        /\ \A s \in Runners \ {r} : call'[s] = call[s]
        /\ call'[r].at = "idle"
    BY DEF ResolveGroup, Idle, IInv, TypeOK
  <1>9. /\ late \subseteq late' /\ late' \subseteq late \cup {b}
        /\ Committing(b) \/ b \notin Prepared => b \in late'
    BY <1>1
  <1>10. TypeOK'
    <2>1. Len(batches') = Len(batches) /\ batches' \in Seq({batches'[a] : a \in DOMAIN batches'})
      <3> DEFINE S == {batches'[a] : a \in DOMAIN batches'}
      <3>1. Len(batches) \in Nat /\ DOMAIN batches = 1..Len(batches)
        BY <1>2, BatchNumbers
      <3>2. batches' = [a \in 1..Len(batches) |-> batches'[a]]
        BY <1>3, <3>1
      <3>3. batches' \in [1..Len(batches) -> S]
        BY <1>4, <3>1, <3>2
      <3> HIDE DEF S
      <3>4. batches' \in Seq(S) /\ Len(batches') = Len(batches)
        BY <3>1, <3>3
      <3> QED
        BY <3>4 DEF S
    <2>2. Call' = Call
      BY <2>1 DEF Call
    <2>3. call' \in [Runners -> Call']
      BY <1>2, <1>8, <2>2, IdleIsCall DEF TypeOK
    <2>4. \A a \in DOMAIN batches' : \E g \in Files : batches'[a] \in Batch(g)
      <3> SUFFICES ASSUME NEW a \in DOMAIN batches PROVE \E g \in Files : batches'[a] \in Batch(g)
        BY <1>4
      <3>1. CASE a # b
        BY <1>2, <1>4, <3>1 DEF TypeOK
      <3>2. CASE a = b
        <4>1. /\ f \in Files /\ batches[b].status \in {"prepared", "committed"}
              /\ batches[b].linked \subseteq Lines(f) /\ batches[b].eligible \subseteq Lines(f)
              /\ batches[b].created \in Nat /\ batches[b].skipped \in Nat
          BY <1>2, BatchFields
        <4>2. batches'[b] \in Batch(f)
          BY <1>3, <1>4, <4>1 DEF Batch
        <4> QED
          BY <3>2, <4>1, <4>2
      <3> QED
        BY <3>1, <3>2
    <2>5. /\ \A t \in ledger : /\ t.batch \in DOMAIN batches'
                               /\ t.id \in AskedIds(batches'[t.batch].file)
          /\ deleted \subseteq ledger /\ late' \subseteq DOMAIN batches'
      BY <1>2, <1>4, <1>6, <1>9 DEF TypeOK
    <2> QED
      BY <1>2, <1>7, <2>1, <2>3, <2>4, <2>5 DEF TypeOK
  <1>11. OneLiveTransaction'
    BY <1>7 DEF OneLiveTransaction, IInv
  <1>12. AllOrNothing'
    BY <1>4, <1>6, <1>7 DEF AllOrNothing, IInv
  <1>13. OnlyReadyEnters'
    BY <1>4, <1>5, <1>6 DEF OnlyReadyEnters, IInv
  <1>14. NothingVanishes'
    BY <1>4, <1>5, <1>6, <1>7 DEF NothingVanishes, IInv
  <1>15. CountsCoverReady'
    BY <1>4, <1>5, <1>6, <1>7, <1>9 DEF CountsCoverReady, IInv
  <1>16. Counted'
    BY <1>4, <1>5, <1>6, <1>7, <1>9 DEF Counted, IInv
  <1>17. /\ \A s \in Runners \ {r} : Pending(s)' = Pending(s)
         /\ Pending(r)' = {}
    BY <1>6, <1>8 DEF Pending, IInv, Knows
  <1>18. Apart'
    BY <1>7, <1>17 DEF Apart, IInv
  <1>19. \A s \in Runners : Knows(s)'
    <2> SUFFICES ASSUME NEW s \in Runners PROVE Knows(s)'
      OBVIOUS
    <2>1. CASE s = r
      BY <1>8, <2>1 DEF Knows
    <2>2. CASE s # r
      <3>1. Knows(s) /\ call'[s] = call[s]
        BY <1>8, <2>2 DEF IInv
      <3>2. \A m : \A a \in DOMAIN batches : Lost(a, m)' = Lost(a, m)
        BY <1>6, <1>7 DEF Lost
      <3>3. call[s].at \in {"materialise", "finish"} /\ call[s].batch = b => b \in late'
        BY <1>9 DEF Committing
      <3> QED
        BY <1>4, <1>5, <1>7, <1>9, <3>1, <3>2, <3>3 DEF Knows
    <2> QED
      BY <2>1, <2>2
  <1> QED
    BY <1>10, <1>11, <1>12, <1>13, <1>14, <1>15, <1>16, <1>18, <1>19 DEF IInv

\* A deletion leaves fewer transactions that are not deleted.
LEMMA SoftDeleteStep ==
  ASSUME IInv, SoftDelete
  PROVE  IInv'
  <1>1. PICK t \in Live : deleted' = deleted \cup {t}
    BY DEF SoftDelete
  <1>2. batches' = batches /\ ledger' = ledger /\ call' = call /\ late' = late
    BY DEF SoftDelete
  <1>3. Live' \subseteq Live /\ LiveIds' \subseteq LiveIds
    BY <1>1, <1>2 DEF Live, LiveIds
  <1>4. /\ Prepared' = Prepared /\ Call' = Call
        /\ \A b, s : InState(b, s)' = InState(b, s)
        /\ \A s : Pending(s)' = Pending(s)
        /\ \A b, n : Lost(b, n)' = Lost(b, n)
    BY <1>2 DEF Prepared, Call, InState, Pending, Lost
  <1>5. TypeOK'
    BY <1>1, <1>2, <1>4 DEF IInv, TypeOK, Live
  <1>6. OneLiveTransaction' /\ Apart'
    BY <1>3, <1>4 DEF IInv, OneLiveTransaction, Apart
  <1>7. AllOrNothing' /\ OnlyReadyEnters'
    BY <1>2, <1>4 DEF IInv, AllOrNothing, OnlyReadyEnters
  <1>8. NothingVanishes'
    BY <1>2, <1>4 DEF IInv, NothingVanishes
  <1>9. CountsCoverReady' /\ Counted'
    BY <1>2, <1>4 DEF IInv, CountsCoverReady, Counted
  <1>10. \A r \in Runners : Knows(r)'
    BY <1>2, <1>4 DEF IInv, Knows
  <1> QED
    BY <1>5, <1>6, <1>7, <1>8, <1>9, <1>10 DEF IInv

\* A commit of a batch that still waits makes of what it inserted the batch's
\* transactions, and nobody else's.
LEMMA FinishCommitStep ==
  ASSUME IInv, NEW r \in Runners, FinishCommit(r), StillPrepared(call[r].batch)
  PROVE  IInv'
  <1> DEFINE b == call[r].batch
             f == batches[b].file
             e == call[r].entering
             g == call[r].eligible
             new == {[batch |-> b, id |-> i] : i \in Identities(f, e)}
             row == [batches[b] EXCEPT !.status = "committed", !.linked = e,
                       !.created = Cardinality(e), !.skipped = Skipped(b, g, e), !.eligible = g]
  <1>1. /\ TypeOK /\ b \in DOMAIN batches /\ b \in Prepared /\ call[r].at = "finish"
        /\ g \subseteq InState(b, "ready") /\ e \subseteq InState(b, "ready")
        /\ Cardinality(e) <= Cardinality(g)
        /\ b \notin late => g = InState(b, "ready")
        /\ \A n \in g \ e : Lost(b, n)
    BY DEF FinishCommit, StillPrepared, IInv, Knows
  <1>2. e \subseteq Lines(f) /\ g \subseteq Lines(f)
    BY <1>1 DEF InState
  <1>3. Cardinality(e) \in Nat /\ Cardinality(g) \in Nat
    BY <1>1, <1>2, RowsOfBatch
  <1>4. /\ Skipped(b, g, e) \in Nat
        /\ Cardinality(e) + Skipped(b, g, e) = Cardinality(g)
    BY <1>1, <1>3 DEF Skipped
  <1>5. /\ batches' = [batches EXCEPT ![b] = row] /\ ledger' = ledger \cup new
        /\ call' = [call EXCEPT ![r] = Idle] /\ deleted' = deleted /\ late' = late
    BY <1>1 DEF FinishCommit, StillPrepared
  <1>6. /\ row.file = f /\ row.status = "committed" /\ row.state = batches[b].state
        /\ row.linked = e /\ row.created = Cardinality(e)
        /\ row.skipped = Skipped(b, g, e) /\ row.eligible = g
        /\ f \in Files /\ row \in Batch(f)
    <2>1. f \in Files /\ batches[b] \in Batch(f)
      BY <1>1, BatchFields DEF TypeOK, Batch
    <2> HIDE DEF f, e, g
    <2>2. /\ row.file = batches[b].file /\ row.status = "committed" /\ row.state = batches[b].state
          /\ row.linked = e /\ row.created = Cardinality(e)
          /\ row.skipped = Skipped(b, g, e) /\ row.eligible = g
      BY <2>1 DEF Batch
    <2>3. row \in Batch(f)
      BY <1>2, <1>3, <1>4, <2>1 DEF Batch
    <2> QED
      BY <2>1, <2>2, <2>3 DEF f
  <1>7. /\ DOMAIN batches' = DOMAIN batches /\ batches'[b] = row
        /\ \A a \in DOMAIN batches : a # b => batches'[a] = batches[a]
        /\ Len(batches') = Len(batches)
        /\ batches' \in Seq({batches'[a] : a \in DOMAIN batches'})
    <2>1. Len(batches) \in Nat /\ DOMAIN batches = 1..Len(batches)
      BY <1>1, BatchNumbers
    <2> HIDE DEF row
    <2>2. /\ DOMAIN batches' = 1..Len(batches) /\ batches'[b] = row
          /\ \A a \in DOMAIN batches : a # b => batches'[a] = batches[a]
          /\ batches' = [a \in 1..Len(batches) |-> batches'[a]]
      BY <1>1, <1>5, <2>1
    <2> DEFINE S == {batches'[a] : a \in DOMAIN batches'}
    <2>3. batches' \in [1..Len(batches) -> S]
      BY <2>2
    <2> HIDE DEF S
    <2>4. batches' \in Seq(S) /\ Len(batches') = Len(batches)
      BY <2>1, <2>3
    <2> QED
      BY <2>1, <2>2, <2>4 DEF S
  <1>8. \A a \in DOMAIN batches : batches'[a].file = batches[a].file /\ batches'[a].state = batches[a].state
    BY <1>6, <1>7
  <1>9. /\ Prepared' = Prepared \ {b}
        /\ \A a \in DOMAIN batches, s \in RowState : InState(a, s)' = InState(a, s)
    <2>1. row.status = "committed"
      BY <1>6
    <2> HIDE DEF b, row
    <2>2. Prepared' = Prepared \ {b}
      BY <1>7, <2>1 DEF Prepared
    <2>3. \A a \in DOMAIN batches, s \in RowState : InState(a, s)' = InState(a, s)
      BY <1>8 DEF InState
    <2> QED
      BY <2>2, <2>3
  <1>10. /\ Live \subseteq Live' /\ Live' \subseteq Live \cup new
         /\ LiveIds' \subseteq LiveIds \cup Pending(r)
         /\ Pending(r) = Identities(f, e) /\ Pending(r) \cap LiveIds = {}
    <2>1. Pending(r) = Identities(f, e) /\ Pending(r) \cap LiveIds = {}
      BY <1>1 DEF Pending, Apart, IInv
    <2>2. Live' \subseteq Live \cup new /\ Live \subseteq Live'
      BY <1>5 DEF Live
    <2>3. LiveIds' = {t.id : t \in Live'}
      BY DEF LiveIds
    <2> QED
      BY <2>1, <2>2, <2>3 DEF LiveIds
  <1>11. {u \in ledger : u.batch = b} = {}
    BY <1>1 DEF AllOrNothing, Identities, IInv
  <1>12. /\ \A s \in Runners \ {r} : call'[s] = call[s]
         /\ call'[r].at = "idle"
    BY <1>5 DEF Idle, IInv, TypeOK
  <1>13. TypeOK'
    <2>1. Call' = Call
      BY <1>7 DEF Call
    <2>2. call' \in [Runners -> Call']
      BY <1>1, <1>5, <2>1, IdleIsCall DEF TypeOK
    <2>3. \A a \in DOMAIN batches' : \E h \in Files : batches'[a] \in Batch(h)
      BY <1>1, <1>6, <1>7 DEF TypeOK
    <2>4. \A t \in ledger' : t.batch \in DOMAIN batches' /\ t.id \in AskedIds(batches'[t.batch].file)
      <3> SUFFICES ASSUME NEW t \in ledger'
                   PROVE  t.batch \in DOMAIN batches /\ t.id \in AskedIds(batches[t.batch].file)
        BY <1>7, <1>8
      <3>1. CASE t \in ledger
        BY <1>1, <3>1 DEF TypeOK
      <3>2. CASE t \in new
        BY <1>1, <1>2, <3>2 DEF AskedIds, Identities
      <3> QED
        BY <1>5, <3>1, <3>2
    <2>5. deleted' \subseteq ledger' /\ late' \subseteq DOMAIN batches' /\ Len(batches') <= MaxBatches
      BY <1>1, <1>5, <1>7 DEF TypeOK
    <2> QED
      BY <1>7, <2>2, <2>3, <2>4, <2>5 DEF TypeOK
  <1>14. OneLiveTransaction'
    <2> SUFFICES ASSUME NEW t \in Live', NEW u \in Live', t.id = u.id PROVE t = u
      BY DEF OneLiveTransaction
    <2>1. \A v \in new : v.batch = b /\ v = [batch |-> b, id |-> v.id] /\ v.id \in Pending(r)
      BY <1>10
    <2>2. \A v \in Live : v.id \in LiveIds
      BY DEF LiveIds
    <2>3. CASE t \in Live /\ u \in Live
      BY <2>3 DEF OneLiveTransaction, IInv
    <2>4. CASE t \in new /\ u \in new
      BY <2>1, <2>4
    <2> HIDE DEF new
    <2> QED
      BY <1>10, <2>1, <2>2, <2>3, <2>4
  <1>15. AllOrNothing'
    <2> SUFFICES ASSUME NEW a \in DOMAIN batches
                 PROVE  /\ a \in Prepared' => batches'[a].linked = {}
                        /\ {t.id : t \in {u \in ledger' : u.batch = a}}
                             = Identities(batches'[a].file, batches'[a].linked)
      BY <1>7 DEF AllOrNothing
    <2>1. CASE a # b
      <3>1. {u \in ledger' : u.batch = a} = {u \in ledger : u.batch = a}
        BY <1>5, <2>1
      <3>2. batches'[a] = batches[a]
        BY <1>7, <2>1
      <3> QED
        BY <1>9, <3>1, <3>2 DEF AllOrNothing, IInv
    <2>2. CASE a = b
      <3>1. {u \in ledger' : u.batch = b} = new
        BY <1>5, <1>11
      <3>2. {t.id : t \in new} = Identities(f, e)
        <4> DEFINE ids == Identities(f, e)
        <4> HIDE DEF ids
        <4>1. \A i \in ids : [batch |-> b, id |-> i].id = i
          OBVIOUS
        <4>2. new = {[batch |-> b, id |-> i] : i \in ids}
          BY DEF ids
        <4> HIDE DEF new
        <4>3. {t.id : t \in new} = ids
          BY <4>1, <4>2
        <4> QED
          BY <4>3 DEF ids
      <3> QED
        BY <1>6, <1>7, <1>9, <2>2, <3>1, <3>2
    <2> QED
      BY <2>1, <2>2
  <1>16. OnlyReadyEnters'
    <2> SUFFICES ASSUME NEW a \in DOMAIN batches
                 PROVE  batches'[a].linked \subseteq InState(a, "ready")
      BY <1>7, <1>9 DEF OnlyReadyEnters, RowState
    <2>1. CASE a # b
      BY <1>7, <2>1 DEF OnlyReadyEnters, IInv
    <2>2. CASE a = b
      BY <1>1, <1>6, <1>7, <2>2
    <2> QED
      BY <2>1, <2>2
  <1>17. NothingVanishes'
    <2> DEFINE Aside(a) == InState(a, "duplicate") \cup InState(a, "ambiguous_duplicate")
    <2> SUFFICES ASSUME NEW a \in DOMAIN batches
                 PROVE  /\ a \notin Prepared' =>
                             batches'[a].created + batches'[a].skipped
                               = Cardinality(batches'[a].eligible)
                        /\ \A n \in Aside(a)' \cup (batches'[a].eligible \ batches'[a].linked) :
                             \E t \in ledger' : t.batch # a /\ t.id = Identity(batches'[a].file, n)
      BY <1>7 DEF NothingVanishes
    <2>1. Aside(a)' = Aside(a) /\ ledger \subseteq ledger' /\ batches'[a].file = batches[a].file
      BY <1>5, <1>8, <1>9 DEF RowState
    <2>2. /\ a \notin Prepared => batches[a].created + batches[a].skipped
                                     = Cardinality(batches[a].eligible)
          /\ \A n \in Aside(a) \cup (batches[a].eligible \ batches[a].linked) :
               \E t \in ledger : t.batch # a /\ t.id = Identity(batches[a].file, n)
      BY DEF NothingVanishes, IInv
    <2>3. CASE a # b
      BY <1>7, <1>9, <2>1, <2>2, <2>3
    <2>4. CASE a = b
      <3>1. /\ batches'[a].created + batches'[a].skipped = Cardinality(batches'[a].eligible)
            /\ batches'[a].eligible = g /\ batches'[a].linked = e
        BY <1>4, <1>6, <1>7, <2>4
      <3>2. \A n \in g \ e : \E t \in ledger : t.batch # a /\ t.id = Identity(batches[a].file, n)
        BY <1>1, <2>4 DEF Lost
      <3> HIDE DEF g, e, Aside
      <3> QED
        BY <2>1, <2>2, <3>1, <3>2
    <2> QED
      BY <2>3, <2>4
  <1>18. Counted'
    <2> SUFFICES ASSUME NEW a \in DOMAIN batches, a \notin Prepared'
                 PROVE  /\ batches'[a].eligible \subseteq Lines(batches[a].file)
                        /\ a \notin late => batches'[a].eligible = InState(a, "ready")
      BY <1>5, <1>7, <1>8, <1>9 DEF Counted, RowState
    <2>1. CASE a # b
      BY <1>7, <1>9, <2>1 DEF Counted, IInv
    <2>2. CASE a = b
      BY <1>1, <1>2, <1>6, <1>7, <2>2
    <2> QED
      BY <2>1, <2>2
  <1>19. CountsCoverReady'
    BY <1>17, <1>18 DEF CountsCoverReady, NothingVanishes, Counted
  <1>20. /\ \A s \in Runners \ {r} : Pending(s)' = Pending(s)
         /\ Pending(r)' = {}
    BY <1>8, <1>12 DEF Pending, IInv, Knows
  <1>21. Apart'
    BY <1>10, <1>20 DEF Apart, IInv
  <1>22. \A s \in Runners : Knows(s)'
    <2> SUFFICES ASSUME NEW s \in Runners PROVE Knows(s)'
      OBVIOUS
    <2>1. CASE s = r
      BY <1>12, <2>1 DEF Knows
    <2>2. CASE s # r
      <3>1. Knows(s) /\ call'[s] = call[s]
        BY <1>12, <2>2 DEF IInv
      <3>2. ledger \subseteq ledger' /\ late' = late
        BY <1>5
      <3>3. \A n : \A a \in DOMAIN batches : Lost(a, n) => Lost(a, n)'
        BY <1>8, <3>2 DEF Lost
      <3> QED
        BY <1>7, <1>9, <3>1, <3>2, <3>3 DEF Knows, RowState
    <2> QED
      BY <2>1, <2>2
  <1> QED
    BY <1>13, <1>14, <1>15, <1>16, <1>17, <1>18, <1>19, <1>21, <1>22 DEF IInv

--------------------------------------------------------------------------------

\* Doing nothing keeps everything.
LEMMA StutterStep ==
  ASSUME IInv, UNCHANGED vars
  PROVE  IInv'
  <1>1. /\ batches' = batches /\ ledger' = ledger /\ deleted' = deleted
        /\ call' = call /\ late' = late
    BY DEF vars
  <1>2. /\ Prepared' = Prepared /\ Call' = Call /\ Live' = Live /\ LiveIds' = LiveIds
        /\ \A b, s : InState(b, s)' = InState(b, s)
        /\ \A s : Pending(s)' = Pending(s)
        /\ \A b, n : Lost(b, n)' = Lost(b, n)
    BY <1>1 DEF Prepared, Call, Live, LiveIds, InState, Pending, Lost
  <1>3. TypeOK'
    BY <1>1, <1>2 DEF IInv, TypeOK
  <1>4. OneLiveTransaction' /\ Apart'
    BY <1>2 DEF IInv, OneLiveTransaction, Apart
  <1>5. AllOrNothing' /\ OnlyReadyEnters'
    BY <1>1, <1>2 DEF IInv, AllOrNothing, OnlyReadyEnters
  <1>6. NothingVanishes'
    BY <1>1, <1>2 DEF IInv, NothingVanishes
  <1>7. CountsCoverReady' /\ Counted'
    BY <1>1, <1>2 DEF IInv, CountsCoverReady, Counted
  <1>8. \A r \in Runners : Knows(r)'
    BY <1>1, <1>2 DEF IInv, Knows
  <1> QED
    BY <1>3, <1>4, <1>5, <1>6, <1>7, <1>8 DEF IInv

\* The strengthened invariant of imports: with what each call under way knows, it
\* is kept by every statement of every tool call, whatever runs beside it.
THEOREM Inductive == Spec => []IInv
  <1>1. Init => IInv
    BY InitIInv
  <1>2. IInv /\ [Next]_vars => IInv'
    <2> SUFFICES ASSUME IInv, [Next]_vars PROVE IInv'
      OBVIOUS
    <2>1. CASE UNCHANGED vars
      BY <2>1, StutterStep
    <2>2. CASE SoftDelete
      BY <2>2, SoftDeleteStep
    <2>3. ASSUME NEW r \in Runners, FindPreparedByContent(r) PROVE IInv'
      BY <2>3, FindPreparedByContentStep
    <2>4. ASSUME NEW r \in Runners, ReadIdentities(r) PROVE IInv'
      BY <2>4, ReadIdentitiesStep
    <2>5. ASSUME NEW r \in Runners, StageBatch(r) PROVE IInv'
      BY <2>5, StageBatchStep
    <2>6. ASSUME NEW r \in Runners, BeginResolve(r) PROVE IInv'
      BY <2>6, FindBatchStep DEF BeginResolve
    <2>7. ASSUME NEW r \in Runners, ResolveGroup(r) PROVE IInv'
      BY <2>7, ResolveGroupStep
    <2>8. ASSUME NEW r \in Runners, BeginCommit(r) PROVE IInv'
      BY <2>8, FindBatchStep DEF BeginCommit
    <2>9. ASSUME NEW r \in Runners, Reconcile(r) PROVE IInv'
      BY <2>9, ReconcileStep
    <2>10. ASSUME NEW r \in Runners, MaterialiseReady(r) PROVE IInv'
      BY <2>10, MaterialiseReadyStep
    <2>11. ASSUME NEW r \in Runners, FinishCommit(r) PROVE IInv'
      <3>1. CASE StillPrepared(call[r].batch)
        BY <2>11, <3>1, FinishCommitStep
      <3>2. CASE ~StillPrepared(call[r].batch)
        BY <2>11, <3>2, EndsCall DEF FinishCommit
      <3> QED
        BY <3>1, <3>2
    <2>12. ASSUME NEW r \in Runners, Fail(r) PROVE IInv'
      BY <2>12, FailStep
    <2> QED
      BY <2>1, <2>2, <2>3, <2>4, <2>5, <2>6, <2>7, <2>8, <2>9, <2>10, <2>11, <2>12 DEF Next
  <1> QED
    BY <1>1, <1>2, PTL DEF Spec

\* Every batch, row, transaction and call is one the schema and the code allow.
THEOREM TypeCorrect == Spec => []TypeOK
  <1>1. IInv => TypeOK
    BY DEF IInv
  <1> QED
    BY <1>1, Inductive, PTL

\* Two commits racing on a movement never both insert it (ON CONFLICT over the
\* external identity).
THEOREM ImportedOnce == Spec => []OneLiveTransaction
  <1>1. IInv => OneLiveTransaction
    BY DEF IInv
  <1> QED
    BY <1>1, Inductive, PTL

\* A commit is all of its rows or none of them.
THEOREM CommitIsAtomic == Spec => []AllOrNothing
  <1>1. IInv => AllOrNothing
    BY DEF IInv
  <1> QED
    BY <1>1, Inductive, PTL

\* No row set aside carries a transaction (import_rows_committed_chk).
THEOREM SetAsideStaysOut == Spec => []OnlyReadyEnters
  <1>1. IInv => OnlyReadyEnters
    BY DEF IInv
  <1> QED
    BY <1>1, Inductive, PTL

\* Every ready row a commit counted is a transaction, or was one of another batch.
THEOREM EveryRowAccounted == Spec => []NothingVanishes
  <1>1. IInv => NothingVanishes
    BY DEF IInv
  <1> QED
    BY <1>1, Inductive, PTL

\* Of a batch no resolution raced with, the counts cover the ready rows for good.
THEOREM CountsStayTrue == Spec => []CountsCoverReady
  <1>1. IInv => CountsCoverReady
    BY DEF IInv
  <1> QED
    BY <1>1, Inductive, PTL

\* The two together: what enters is a committed batch's ready rows, all or none.
THEOREM CommitHolds == Spec => []CommitIsSound
  BY CommitIsAtomic, SetAsideStaysOut, PTL DEF CommitIsSound

\* The two together: every line of a statement is answered for.
THEOREM RowsHold == Spec => []RowsAreAccounted
  BY EveryRowAccounted, CountsStayTrue, PTL DEF RowsAreAccounted

\* No later call, and none under way, changes what a commit made of its batch.
THEOREM CommittedForGood == Spec => CommittedOnce
  <1> DEFINE Kept == \A b \in DOMAIN batches :
                b \notin Prepared =>
                  /\ b \notin Prepared'
                  /\ batches'[b].linked = batches[b].linked
                  /\ batches'[b].created = batches[b].created
                  /\ batches'[b].skipped = batches[b].skipped
  <1>1. IInv /\ [Next]_vars => [Kept]_vars
    <2> SUFFICES ASSUME IInv, Next, NEW b \in DOMAIN batches, b \notin Prepared
                 PROVE  /\ b \notin Prepared'
                        /\ batches'[b].linked = batches[b].linked
                        /\ batches'[b].created = batches[b].created
                        /\ batches'[b].skipped = batches[b].skipped
      OBVIOUS
    <2>1. TypeOK /\ DOMAIN batches = 1..Len(batches) /\ Len(batches) \in Nat
      BY BatchNumbers DEF IInv
    <2>2. CASE batches' = batches
      BY <2>2 DEF Prepared
    <2>3. ASSUME NEW r \in Runners, StageBatch(r) PROVE batches'[b] = batches[b]
      <3>1. batches \in Seq({batches[a] : a \in DOMAIN batches})
        BY <2>1 DEF TypeOK
      <3> QED
        BY <2>1, <2>3, <3>1 DEF StageBatch
    <2>4. ASSUME NEW r \in Runners, ResolveGroup(r)
          PROVE  /\ batches'[b].linked = batches[b].linked /\ batches'[b].status = batches[b].status
                 /\ batches'[b].created = batches[b].created
                 /\ batches'[b].skipped = batches[b].skipped
      <3>1. call[r].batch \in DOMAIN batches
        BY <2>4 DEF ResolveGroup, IInv, Knows
      <3>2. \E f \in Files : batches[b] \in Batch(f)
        BY <2>1 DEF TypeOK
      <3>3. \E st : batches' = [batches EXCEPT ![call[r].batch].state = st]
        BY <2>4 DEF ResolveGroup
      <3> QED
        BY <3>1, <3>2, <3>3 DEF Batch
    <2>5. ASSUME NEW r \in Runners, FinishCommit(r) PROVE batches'[b] = batches[b]
      <3>1. CASE StillPrepared(call[r].batch)
        <4>1. call[r].batch # b
          BY <3>1 DEF StillPrepared
        <4> QED
          BY <2>5, <3>1, <4>1 DEF FinishCommit
      <3>2. CASE ~StillPrepared(call[r].batch)
        BY <2>5, <3>2 DEF FinishCommit
      <3> QED
        BY <3>1, <3>2
    <2>6. CASE \E r \in Runners : StageBatch(r) \/ ResolveGroup(r) \/ FinishCommit(r)
      <3>1. /\ batches'[b].linked = batches[b].linked /\ batches'[b].status = batches[b].status
            /\ batches'[b].created = batches[b].created
            /\ batches'[b].skipped = batches[b].skipped
        BY <2>3, <2>4, <2>5, <2>6
      <3> QED
        BY <3>1 DEF Prepared
    <2> QED
      BY <2>2, <2>6 DEF Next, SoftDelete, FindPreparedByContent, ReadIdentities, FindBatch,
         BeginResolve, BeginCommit, Reconcile, MaterialiseReady, Fail
  <1> QED
    BY <1>1, Inductive, PTL DEF Spec, CommittedOnce

--------------------------------------------------------------------------------
(* The calendar.                                                           *)

\* Months lie one behind the other: the next begins where one ends.
LEMMA MonthsFollow ==
  /\ FirstDay(1) = 1
  /\ \A p \in 1..(LastMonth + 1) : FirstDay(p) \in Nat \ {0}
  /\ \A p \in Months : FirstDay(p + 1) = FirstDay(p) + MonthLength[p] /\ MonthLength[p] \in Nat \ {0}
  <1> USE MonthsAssumption DEF MonthsAssumption, Months
  <1>1. ASSUME NEW p \in 1..(LastMonth + 1)
        PROVE  /\ IsFiniteSet(1..(p - 1)) /\ 1..(p - 1) \subseteq Months
               /\ SumFunctionOnSet(MonthLength, 1..(p - 1)) \in Nat
    <2>1. IsFiniteSet(1..(p - 1))
      BY FS_Interval
    <2>2. \A m \in 1..(p - 1) : MonthLength[m] \in Nat
      OBVIOUS
    <2> QED
      BY <2>1, <2>2, SumType
  <1>2. FirstDay(1) = 1
    <2>1. 1..(1 - 1) = {}
      OBVIOUS
    <2> QED
      BY <2>1, SumEmpty DEF FirstDay
  <1>3. ASSUME NEW p \in Months
        PROVE  FirstDay(p + 1) = FirstDay(p) + MonthLength[p]
    <2>1. p \in 1..(LastMonth + 1)
      OBVIOUS
    <2>2. 1..((p + 1) - 1) = (1..(p - 1)) \cup {p} /\ p \notin 1..(p - 1)
      OBVIOUS
    <2>3. \A m \in (1..(p - 1)) \cup {p} : MonthLength[m] \in Nat
      OBVIOUS
    <2>4. SumFunctionOnSet(MonthLength, 1..((p + 1) - 1))
            = MonthLength[p] + SumFunctionOnSet(MonthLength, 1..(p - 1))
      BY <1>1, <2>1, <2>2, <2>3, SumAdds
    <2>5. SumFunctionOnSet(MonthLength, 1..(p - 1)) \in Nat /\ MonthLength[p] \in Nat
      BY <1>1, <2>1
    <2> QED
      BY <2>4, <2>5 DEF FirstDay
  <1> QED
    BY <1>1, <1>2, <1>3 DEF FirstDay

\* A later month begins when an earlier one is over.
LEMMA LaterBegins ==
  ASSUME NEW p \in Months, NEW q \in 1..(LastMonth + 1), p < q
  PROVE  FirstDay(p) + MonthLength[p] <= FirstDay(q)
  <1> USE MonthsAssumption DEF MonthsAssumption, Months
  <1>1. p + 1 \in 1..(LastMonth + 1) /\ 1..((p + 1) - 1) \in SUBSET (1..(q - 1))
    OBVIOUS
  <1>2. IsFiniteSet(1..(q - 1)) /\ \A m \in 1..(q - 1) : MonthLength[m] \in Nat
    <2>1. IsFiniteSet(1..(q - 1))
      BY FS_Interval
    <2>2. \A m \in 1..(q - 1) : MonthLength[m] \in Nat
      OBVIOUS
    <2> QED
      BY <2>1, <2>2
  <1>3. SumFunctionOnSet(MonthLength, 1..((p + 1) - 1)) <= SumFunctionOnSet(MonthLength, 1..(q - 1))
    BY <1>1, <1>2, SumOfPart
  <1>4. SumFunctionOnSet(MonthLength, 1..((p + 1) - 1)) \in Nat /\ SumFunctionOnSet(MonthLength, 1..(q - 1)) \in Nat
    BY <1>1, <1>2, SumType, FS_Subset
  <1>5. FirstDay(p + 1) <= FirstDay(q)
    BY <1>3, <1>4 DEF FirstDay
  <1> QED
    BY <1>5, MonthsFollow

\* The month a day falls in: the one that has begun and is not over.
LEMMA MonthOfDay ==
  ASSUME NEW day \in Nat, NEW p \in Months, FirstDay(p) <= day, day < FirstDay(p) + MonthLength[p]
  PROVE  PeriodOf(day) = p
  <1> DEFINE In(q) == day \in FirstDay(q)..(FirstDay(q) + MonthLength[q] - 1)
  <1>1. \A q \in Months : FirstDay(q) \in Nat /\ MonthLength[q] \in Nat \ {0}
    BY MonthsFollow, MonthsAssumption DEF MonthsAssumption, Months
  <1>2. \A q \in Months : In(q) <=> FirstDay(q) <= day /\ day < FirstDay(q) + MonthLength[q]
    BY <1>1
  <1>3. ASSUME NEW q \in Months, In(q) PROVE q = p
    <2>1. q < p \/ q = p \/ p < q
      BY MonthsAssumption DEF MonthsAssumption, Months
    <2>2. ~(q < p)
      <3>1. q < p => FirstDay(q) + MonthLength[q] <= FirstDay(p)
        BY LaterBegins, MonthsAssumption DEF MonthsAssumption, Months
      <3> QED
        BY <1>1, <1>2, <1>3, <3>1
    <2>3. ~(p < q)
      <3>1. p < q => FirstDay(p) + MonthLength[p] <= FirstDay(q)
        BY LaterBegins, MonthsAssumption DEF MonthsAssumption, Months
      <3> QED
        BY <1>1, <1>2, <1>3, <3>1
    <2> QED
      BY <2>1, <2>2, <2>3
  <1>4. In(p)
    BY <1>2
  <1> HIDE DEF In
  <1>5. PeriodOf(day) = IF \E q \in Months : In(q) THEN CHOOSE q \in Months : In(q) ELSE LastMonth + 1
    BY DEF PeriodOf, In
  <1> QED
    BY <1>3, <1>4, <1>5

\* A day is in the month PeriodOf names, or after all of them.
LEMMA PeriodIsMonth ==
  ASSUME NEW day \in Nat \ {0}
  PROVE  \/ /\ PeriodOf(day) \in Months
            /\ FirstDay(PeriodOf(day)) <= day
            /\ day < FirstDay(PeriodOf(day)) + MonthLength[PeriodOf(day)]
         \/ /\ PeriodOf(day) = LastMonth + 1
            /\ \A p \in Months : FirstDay(p) + MonthLength[p] <= day
  <1> USE MonthsAssumption DEF MonthsAssumption, Months
  <1> DEFINE Begun == {p \in Months : FirstDay(p) <= day}
  <1>1. 1 \in Begun /\ Begun \subseteq 0..LastMonth
    BY MonthsFollow
  <1>2. PICK p \in Begun : \A q \in Begun : q <= p
    <2> HIDE DEF Begun
    <2> QED
      BY <1>1, HighestExists
  <1>3. p \in Months /\ FirstDay(p) \in Nat /\ MonthLength[p] \in Nat /\ FirstDay(p + 1) = FirstDay(p) + MonthLength[p]
    BY MonthsFollow
  <1>4. CASE day < FirstDay(p) + MonthLength[p]
    <2>1. PeriodOf(day) = p
      BY <1>3, <1>4, MonthOfDay
    <2> QED
      BY <1>3, <1>4, <2>1
  <1>5. CASE ~(day < FirstDay(p) + MonthLength[p])
    <2>1. p = LastMonth
      <3>1. p + 1 \in Months => p + 1 \in Begun
        BY <1>3, <1>5
      <3> QED
        BY <1>2, <1>3, <3>1
    <2>2. ASSUME NEW q \in Months PROVE FirstDay(q) + MonthLength[q] <= day
      <3>1. CASE q = p
        BY <1>3, <1>5, <3>1
      <3>2. CASE q # p
        <4>1. FirstDay(q) + MonthLength[q] <= FirstDay(p)
          BY <1>3, <2>1, <3>2, LaterBegins
        <4>2. FirstDay(q) \in Nat /\ MonthLength[q] \in Nat
          BY MonthsFollow
        <4> QED
          BY <1>2, <1>3, <4>1, <4>2
      <3> QED
        BY <3>1, <3>2
    <2>3. PeriodOf(day) = LastMonth + 1
      <3>1. \A q \in Months : day \notin FirstDay(q)..(FirstDay(q) + MonthLength[q] - 1)
        <4>1. \A q \in Months : FirstDay(q) \in Nat /\ MonthLength[q] \in Nat
          BY MonthsFollow
        <4> QED
          BY <2>2, <4>1
      <3> QED
        BY <3>1 DEF PeriodOf
    <2> QED
      BY <2>2, <2>3
  <1> QED
    BY <1>4, <1>5

\* The calendar does not run backwards.
LEMMA PeriodGrows ==
  ASSUME NEW d \in Nat \ {0}, NEW e \in Nat \ {0}, d <= e
  PROVE  PeriodOf(d) \in 1..(LastMonth + 1) /\ PeriodOf(d) <= PeriodOf(e)
  <1> USE MonthsAssumption DEF MonthsAssumption, Months
  <1>1. PeriodOf(d) \in 1..(LastMonth + 1) /\ PeriodOf(e) \in 1..(LastMonth + 1)
    BY PeriodIsMonth
  <1>2. CASE PeriodOf(e) = LastMonth + 1
    BY <1>1, <1>2
  <1>3. CASE PeriodOf(e) # LastMonth + 1
    <2> DEFINE p == PeriodOf(d)
               q == PeriodOf(e)
    <2>1. q \in Months /\ e < FirstDay(q) + MonthLength[q]
      BY <1>3, PeriodIsMonth
    <2>2. FirstDay(q) \in Nat /\ MonthLength[q] \in Nat
      BY <2>1, MonthsFollow
    <2>3. p # LastMonth + 1
      <3>1. p = LastMonth + 1 => FirstDay(q) + MonthLength[q] <= d
        BY <2>1, PeriodIsMonth
      <3> QED
        BY <2>1, <2>2, <3>1
    <2>4. p \in Months /\ FirstDay(p) <= d
      BY <2>3, PeriodIsMonth
    <2>5. FirstDay(p) \in Nat
      BY <2>4, MonthsFollow
    <2>6. ~(q < p)
      <3>1. q < p => FirstDay(q) + MonthLength[q] <= FirstDay(p)
        BY <2>1, <2>4, LaterBegins
      <3> QED
        BY <2>1, <2>2, <2>4, <2>5, <3>1
    <2> QED
      BY <1>1, <2>6
  <1> QED
    BY <1>2, <1>3

--------------------------------------------------------------------------------
(* Rows and calls.                                                         *)

\* What an entry says (RecurringEntry).
LEMMA DefinitionFields ==
  ASSUME NEW d \in Definitions
  PROVE  /\ d.amount \in Nat \ {0} /\ d.day \in Nat \ {0} /\ d.from \in Nat \ {0}
         /\ d.due \in Nat /\ d.until \in Nat /\ d.varies \in BOOLEAN
         /\ d # Absent
  <1>1. IsDefinition(d)
    BY MonthsAssumption DEF MonthsAssumption
  <1>2. DOMAIN Absent = {"recurs"} /\ "amount" \in DOMAIN d
    BY <1>1 DEF IsDefinition, Absent
  <1> QED
    BY <1>1, <1>2 DEF IsDefinition

\* A due day is a day of its month, or the last one.
LEMMA DueOnType ==
  ASSUME NEW p \in Months, NEW n \in Nat \ {0}
  PROVE  DueOn(p, n) \in Nat
  <1>1. FirstDay(p) \in Nat \ {0} /\ MonthLength[p] \in Nat \ {0}
    BY MonthsFollow, MonthsAssumption DEF MonthsAssumption, Months
  <1> QED
    BY <1>1 DEF DueOn

\* A month's projection: a row of it for each entry that owes it, and one only.
LEMMA ProjectionType ==
  ASSUME MonthsTypeOK, NEW p \in Months, NEW now
  PROVE  /\ ProjectMonth(p, now) \subseteq MonthRow /\ IsFiniteSet(ProjectMonth(p, now))
         /\ \A v, w \in ProjectMonth(p, now) : w.period = p /\ (SameMonth(v, w) => v = w)
  <1> DEFINE Owing == {x \in LiveEntries : ~Unplaceable(entries[x], now) /\ ActiveIn(entries[x], p)}
             row == [e \in Entries |-> NewOccurrence(e, entries[e], p, now)]
  <1>1. Owing \subseteq Entries /\ \A e \in Owing : entries[e] \in Definitions
    BY DEF LiveEntries, MonthsTypeOK
  <1>2. ProjectMonth(p, now) = {row[e] : e \in Owing}
    BY <1>1 DEF ProjectMonth
  <1>3. IsFiniteSet(Owing)
    BY <1>1, MonthsAssumption, FS_Subset DEF MonthsAssumption
  <1>4. ASSUME NEW e \in Owing
        PROVE  row[e] \in MonthRow /\ row[e].entry = e /\ row[e].period = p
    <2>1. e \in Entries /\ entries[e] \in Definitions
      BY <1>1
    <2>2. entries[e].amount \in Nat \ {0} /\ DueOn(p, entries[e].day) \in Nat
      BY <2>1, DefinitionFields, DueOnType
    <2>3. (entries[e].varies \/ p # PeriodOf(now)) \in BOOLEAN
      OBVIOUS
    <2>4. row[e] = NewOccurrence(e, entries[e], p, now)
      BY <2>1
    <2> HIDE DEF row, Owing
    <2> QED
      BY <2>1, <2>2, <2>3, <2>4 DEF NewOccurrence, MonthRow
  <1> HIDE DEF row, Owing
  <1> QED
    BY <1>2, <1>3, <1>4, ImageIsFinite DEF SameMonth

\* The fields of a row.
LEMMA RowFields ==
  ASSUME NEW o \in MonthRow
  PROVE  /\ o = [entry |-> o.entry, period |-> o.period, amount |-> o.amount, due |-> o.due,
                 estimated |-> o.estimated, status |-> o.status, paid |-> o.paid]
         /\ o.entry \in Entries /\ o.period \in Months /\ o.amount \in Nat \ {0} /\ o.due \in Nat
         /\ o.estimated \in BOOLEAN /\ o.status \in {"pending", "paid"} /\ o.paid \in Nat
  BY DEF MonthRow

\* The call of one that is making none.
LEMMA NoCallType ==
  /\ NoCall \in MonthCall
  /\ NoCall.at = "idle" /\ NoCall.now = 0
  BY MonthsAssumption DEF MonthsAssumption, NoCall, MonthCall, NoMonth, Absent

\* A step moves one call; what the others know stays true while days pass and no
\* row is taken from the table.
LEMMA OthersKnow ==
  ASSUME MonthsInvariant, NEW d \in Callers, calls'[d] = calls[d],
         clock' \in Nat, clock <= clock', \A o \in rows : \E u \in rows' : SameMonth(u, o)
  PROVE  KnowsMonth(d)'
  <1>1. KnowsMonth(d) /\ clock \in Nat \ {0} /\ calls[d] \in MonthCall
    BY MonthsAssumption DEF MonthsInvariant, MonthsAreSound, MonthsTypeOK, MonthsAssumption
  <1>2. calls[d].now \in Nat /\ calls[d].period \in 0..LastMonth
    BY <1>1 DEF MonthCall
  <1>3. calls[d].now <= clock'
    BY <1>1, <1>2 DEF KnowsMonth
  <1>4. PeriodOf(clock) <= PeriodOf(clock') /\ PeriodOf(clock) \in Nat /\ PeriodOf(clock') \in Nat
    BY <1>1, PeriodGrows, MonthsAssumption DEF MonthsAssumption
  <1>5. calls[d].period <= PeriodOf(clock) => calls[d].period <= PeriodOf(clock')
    BY <1>2, <1>4, MonthsAssumption DEF MonthsAssumption
  <1>6. ASSUME NEW o \in rows, SameMonth(o, calls[d].row)
        PROVE  \E u \in rows' : SameMonth(u, calls[d].row)
    BY <1>6 DEF SameMonth
  <1> QED
    BY <1>1, <1>3, <1>5, <1>6 DEF KnowsMonth

\* A step that changes no table keeps everything but what its own call must know.
LEMMA CallKeepsMonths ==
  ASSUME MonthsInvariant, NEW c \in Callers, NEW k \in MonthCall,
         calls' = [calls EXCEPT ![c] = k], UNCHANGED <<clock, entries, gone, rows>>,
         KnowsMonth(c)'
  PROVE  MonthsInvariant'
  <1>1. calls' \in [Callers -> MonthCall] /\ \A d \in Callers \ {c} : calls'[d] = calls[d]
    BY DEF MonthsInvariant, MonthsAreSound, MonthsTypeOK
  <1>2. \A o \in rows : \E u \in rows' : SameMonth(u, o)
    BY DEF SameMonth
  <1>3. clock' \in Nat /\ clock <= clock'
    BY MonthsAssumption DEF MonthsInvariant, MonthsAreSound, MonthsTypeOK, MonthsAssumption
  <1>4. \A d \in Callers : KnowsMonth(d)'
    BY <1>1, <1>2, <1>3, OthersKnow
  <1>5. MonthsTypeOK'
    BY <1>1 DEF MonthsInvariant, MonthsAreSound, MonthsTypeOK
  <1>6. OneObligation'
    BY DEF MonthsInvariant, MonthsAreSound, OneObligation
  <1>7. RowsAreSound'
    BY DEF MonthsInvariant, MonthsAreSound, RowsAreSound
  <1> QED
    BY <1>4, <1>5, <1>6, <1>7 DEF MonthsInvariant, MonthsAreSound

\* A call that ends knows nothing more.
LEMMA EndedKnows ==
  ASSUME MonthsInvariant, NEW c \in Callers, calls' = [calls EXCEPT ![c] = NoCall], clock' \in Nat
  PROVE  calls'[c] = NoCall /\ KnowsMonth(c)'
  <1>1. calls'[c] = NoCall
    BY DEF MonthsInvariant, MonthsAreSound, MonthsTypeOK
  <1> QED
    BY <1>1, NoCallType DEF KnowsMonth

--------------------------------------------------------------------------------
(* The steps.                                                              *)

\* Fields of the invariant that the steps use.
LEMMA MonthsFacts ==
  ASSUME MonthsInvariant
  PROVE  /\ clock \in Nat \ {0} /\ clock \in Nat /\ clock <= clock
         /\ MonthsTypeOK /\ OneObligation /\ RowsAreSound /\ IsFiniteSet(rows)
         /\ rows \subseteq MonthRow /\ calls \in [Callers -> MonthCall]
         /\ \A c \in Callers : KnowsMonth(c) /\ calls[c] \in MonthCall
  BY MonthsAssumption DEF MonthsInvariant, MonthsAreSound, MonthsTypeOK, MonthsAssumption

LEMMA BeginReadStep ==
  ASSUME MonthsInvariant, NEW c \in Callers, BeginRead(c)
  PROVE  MonthsInvariant'
  <1>1. PICK p \in Months :
          /\ Records(p, clock)
          /\ calls' = [calls EXCEPT ![c] =
               [NoCall EXCEPT !.at = "read", !.period = p, !.now = clock, !.wanted = ProjectMonth(p, clock)]]
    BY DEF BeginRead
  <1> DEFINE k == [NoCall EXCEPT !.at = "read", !.period = p, !.now = clock, !.wanted = ProjectMonth(p, clock)]
  <1>2. UNCHANGED <<clock, entries, gone, rows>>
    BY DEF BeginRead
  <1>3. /\ ProjectMonth(p, clock) \subseteq MonthRow /\ IsFiniteSet(ProjectMonth(p, clock))
        /\ \A v, w \in ProjectMonth(p, clock) : w.period = p /\ (SameMonth(v, w) => v = w)
    BY MonthsFacts, ProjectionType
  <1>4. k \in MonthCall /\ k.at = "read" /\ k.period = p /\ k.now = clock /\ k.wanted = ProjectMonth(p, clock)
    <2>1. p \in 0..LastMonth /\ clock \in Nat /\ ProjectMonth(p, clock) \in SUBSET MonthRow
      BY <1>3, MonthsFacts, MonthsAssumption DEF MonthsAssumption, Months
    <2> QED
      BY <2>1, NoCallType DEF MonthCall
  <1> HIDE DEF k
  <1>5. calls'[c] = k
    BY <1>1, MonthsFacts DEF k
  <1>6. KnowsMonth(c)'
    BY <1>1, <1>2, <1>3, <1>4, <1>5, MonthsFacts DEF KnowsMonth, Records, SameMonth
  <1> QED
    BY <1>1, <1>2, <1>4, <1>6, CallKeepsMonths DEF k

LEMMA SettleableStep ==
  ASSUME MonthsInvariant, NEW c \in Callers, NEW next \in {"pay", "unpay", "set"}, NEW found,
         NEW amount \in Nat, next = "set" => amount # 0, SettleableOccurrence(c, next, found, amount)
  PROVE  MonthsInvariant'
  <1>1. PICK o \in rows :
          calls' = [calls EXCEPT ![c] =
            [NoCall EXCEPT !.at = next, !.row = o, !.now = clock, !.amount = amount]]
    BY DEF SettleableOccurrence
  <1> DEFINE k == [NoCall EXCEPT !.at = next, !.row = o, !.now = clock, !.amount = amount]
  <1>2. UNCHANGED <<clock, entries, gone, rows>>
    BY DEF SettleableOccurrence
  <1>3. o \in MonthRow
    BY MonthsFacts
  <1>4. k \in MonthCall /\ k.at = next /\ k.row = o /\ k.now = clock /\ k.amount = amount
    BY <1>3, MonthsFacts, NoCallType DEF MonthCall
  <1> HIDE DEF k
  <1>5. calls'[c] = k
    BY <1>1, MonthsFacts DEF k
  <1>6. KnowsMonth(c)'
    BY <1>2, <1>3, <1>4, <1>5, MonthsFacts DEF KnowsMonth
  <1> QED
    BY <1>1, <1>2, <1>4, <1>6, CallKeepsMonths DEF k

LEMMA BeginEditStep ==
  ASSUME MonthsInvariant, NEW c \in Callers, BeginEdit(c)
  PROVE  MonthsInvariant'
  <1>1. PICK e \in LiveEntries, d \in Definitions, p \in 0..LastMonth :
          /\ p # 0 => AppliesTo(p, clock)
          /\ calls' = [calls EXCEPT ![c] =
               [NoCall EXCEPT !.at = "edit", !.entry = e, !.def = d, !.period = p, !.now = clock]]
    BY DEF BeginEdit
  <1> DEFINE k == [NoCall EXCEPT !.at = "edit", !.entry = e, !.def = d, !.period = p, !.now = clock]
  <1>2. UNCHANGED <<clock, entries, gone, rows>>
    BY DEF BeginEdit
  <1>3. e \in Entries
    BY DEF LiveEntries
  <1>4. k \in MonthCall /\ k.at = "edit" /\ k.entry = e /\ k.def = d /\ k.period = p /\ k.now = clock
    BY <1>3, MonthsFacts, NoCallType DEF MonthCall
  <1> HIDE DEF k
  <1>5. calls'[c] = k
    BY <1>1, MonthsFacts DEF k
  <1>6. KnowsMonth(c)'
    BY <1>1, <1>2, <1>3, <1>4, <1>5, MonthsFacts DEF KnowsMonth, AppliesTo
  <1> QED
    BY <1>1, <1>2, <1>4, <1>6, CallKeepsMonths DEF k

\* The month's row is found and in hand.
LEMMA FindStep ==
  ASSUME MonthsInvariant, NEW c \in Callers, FindByEntryPeriod(c)
  PROVE  MonthsInvariant'
  <1>1. PICK o \in rows :
          /\ o.entry = calls[c].entry /\ o.period = calls[c].period
          /\ calls' = [calls EXCEPT ![c].at = "apply", ![c].row = o]
    BY DEF FindByEntryPeriod
  <1> DEFINE k == [calls[c] EXCEPT !.at = "apply", !.row = o]
  <1>2. UNCHANGED <<clock, entries, gone, rows>> /\ calls[c].at = "find"
    BY DEF FindByEntryPeriod
  <1>3. calls[c] \in MonthCall /\ o \in MonthRow /\ KnowsMonth(c)
    BY MonthsFacts
  <1>4. /\ k \in MonthCall /\ k.at = "apply" /\ k.row = o
        /\ k.entry = calls[c].entry /\ k.def = calls[c].def /\ k.period = calls[c].period /\ k.now = calls[c].now
    BY <1>3 DEF MonthCall
  <1>5. calls' = [calls EXCEPT ![c] = k]
    BY <1>1
  <1> HIDE DEF k
  <1>6. calls'[c] = k
    BY <1>5, MonthsFacts
  <1>7. KnowsMonth(c)'
    <2>1. SameMonth(o, k.row)
      BY <1>4 DEF SameMonth
    <2> QED
      BY <1>1, <1>2, <1>3, <1>4, <1>6, <2>1 DEF KnowsMonth
  <1> QED
    BY <1>2, <1>4, <1>5, <1>7, CallKeepsMonths

LEMMA CallFailsStep ==
  ASSUME MonthsInvariant, NEW c \in Callers, CallFails(c)
  PROVE  MonthsInvariant'
  <1>1. calls' = [calls EXCEPT ![c] = NoCall] /\ UNCHANGED <<clock, entries, gone, rows>>
    BY DEF CallFails
  <1>2. KnowsMonth(c)'
    BY <1>1, MonthsFacts, EndedKnows
  <1> QED
    BY <1>1, <1>2, NoCallType, CallKeepsMonths

\* Writing the entry alone ends the edit; with a month it goes on.
LEMMA WriteEntryStep ==
  ASSUME MonthsInvariant, NEW c \in Callers, WriteEntry(c)
  PROVE  MonthsInvariant'
  <1>1. calls[c].at = "edit" /\ UNCHANGED <<clock, gone, rows>>
    BY DEF WriteEntry
  <1>2. /\ calls[c] \in MonthCall /\ KnowsMonth(c)
        /\ calls[c].entry \in Entries /\ calls[c].def \in Definitions
    BY <1>1, MonthsFacts DEF KnowsMonth
  <1>3. CASE calls[c].period = 0
    <2>1. /\ entries' = [entries EXCEPT ![calls[c].entry] = calls[c].def]
          /\ calls' = [calls EXCEPT ![c] = NoCall]
      BY <1>3 DEF WriteEntry
    <2>2. calls'[c] = NoCall /\ KnowsMonth(c)'
      BY <1>1, <2>1, MonthsFacts, EndedKnows
    <2>3. calls' \in [Callers -> MonthCall] /\ \A d \in Callers \ {c} : calls'[d] = calls[d]
      BY <2>1, MonthsFacts, NoCallType
    <2>4. \A d \in Callers \ {c} : KnowsMonth(d)'
      <3>1. \A o \in rows : \E u \in rows' : SameMonth(u, o)
        BY <1>1 DEF SameMonth
      <3> QED
        BY <1>1, <2>3, <3>1, MonthsFacts, OthersKnow
    <2>5. MonthsTypeOK'
      BY <1>1, <1>2, <2>1, <2>3, MonthsFacts DEF MonthsTypeOK
    <2>6. OneObligation' /\ RowsAreSound'
      BY <1>1, MonthsFacts DEF OneObligation, RowsAreSound
    <2> QED
      BY <1>1, <2>2, <2>4, <2>5, <2>6, MonthsFacts DEF MonthsInvariant, MonthsAreSound
  <1>4. CASE calls[c].period # 0
    <2> DEFINE k == [calls[c] EXCEPT !.at = "find"]
    <2>1. calls' = [calls EXCEPT ![c] = k] /\ UNCHANGED entries
      BY <1>4 DEF WriteEntry
    <2>2. /\ k \in MonthCall /\ k.at = "find" /\ k.entry = calls[c].entry /\ k.def = calls[c].def
          /\ k.period = calls[c].period /\ k.now = calls[c].now
      BY <1>2 DEF MonthCall
    <2> HIDE DEF k
    <2>3. calls'[c] = k
      BY <2>1, MonthsFacts
    <2>4. KnowsMonth(c)'
      BY <1>1, <1>2, <1>4, <2>2, <2>3 DEF KnowsMonth
    <2> QED
      BY <1>1, <2>1, <2>2, <2>4, CallKeepsMonths
  <1> QED
    BY <1>3, <1>4

\* The three steps that are nobody's call.
LEMMA OthersStep ==
  ASSUME MonthsInvariant, Tick \/ CreateRecurringEntry \/ DeleteRecurringEntry
  PROVE  MonthsInvariant'
  <1>1. /\ UNCHANGED <<rows, calls>> /\ clock' \in 1..LastDay /\ clock <= clock'
        /\ entries' \in [Entries -> Definitions \cup {Absent}] /\ gone' \subseteq Entries
    BY MonthsFacts, MonthsAssumption
    DEF MonthsAssumption, MonthsTypeOK, Tick, CreateRecurringEntry, DeleteRecurringEntry, LiveEntries
  <1>2. clock' \in Nat \ {0}
    BY <1>1, MonthsAssumption DEF MonthsAssumption
  <1>3. \A d \in Callers : KnowsMonth(d)'
    <2>1. \A o \in rows : \E u \in rows' : SameMonth(u, o)
      BY <1>1 DEF SameMonth
    <2> QED
      BY <1>1, <1>2, <2>1, OthersKnow
  <1>4. MonthsTypeOK'
    BY <1>1, MonthsFacts DEF MonthsTypeOK
  <1>5. OneObligation'
    BY <1>1, MonthsFacts DEF OneObligation
  <1>6. RowsAreSound'
    <2>1. PeriodOf(clock) <= PeriodOf(clock') /\ PeriodOf(clock) \in Nat /\ PeriodOf(clock') \in Nat
      BY <1>1, <1>2, MonthsFacts, PeriodGrows, MonthsAssumption DEF MonthsAssumption
    <2>2. \A o \in rows : o.period \in Nat
      BY MonthsFacts, RowFields, MonthsAssumption DEF MonthsAssumption, Months
    <2> QED
      BY <1>1, <2>1, <2>2, MonthsFacts DEF RowsAreSound
  <1> QED
    BY <1>1, <1>3, <1>4, <1>5, <1>6, MonthsFacts DEF MonthsInvariant, MonthsAreSound

\* Rewriting rows in place leaves each entry its one row of each month.
LEMMA RowsRewritten ==
  ASSUME MonthsInvariant, NEW f, rows' = {f[o] : o \in rows}, UNCHANGED clock,
         \A o \in rows : f[o] \in MonthRow /\ SameMonth(f[o], o) /\ ValidRow(f[o])
  PROVE  /\ rows' \subseteq MonthRow /\ IsFiniteSet(rows') /\ OneObligation' /\ RowsAreSound'
         /\ \A o \in rows : \E u \in rows' : SameMonth(u, o)
  <1>1. rows' \subseteq MonthRow /\ \A o \in rows : \E u \in rows' : SameMonth(u, o)
    OBVIOUS
  <1>2. IsFiniteSet(rows')
    BY MonthsFacts, ImageIsFinite
  <1>3. OneObligation'
    <2>1. SUFFICES ASSUME NEW o \in rows, NEW u \in rows, SameMonth(f[o], f[u])
                   PROVE  f[o] = f[u]
      BY DEF OneObligation
    <2>2. SameMonth(o, u)
      BY <2>1 DEF SameMonth
    <2> QED
      BY <2>2, MonthsFacts DEF OneObligation
  <1>4. RowsAreSound'
    <2>1. ASSUME NEW o \in rows PROVE ValidRow(f[o]) /\ f[o].period <= PeriodOf(clock)
      BY MonthsFacts DEF RowsAreSound, SameMonth
    <2> QED
      BY <2>1 DEF RowsAreSound
  <1> QED
    BY <1>1, <1>2, <1>3, <1>4

\* What a step that ends its call has to keep of the table.
LEMMA TableKeepsMonths ==
  ASSUME MonthsInvariant, NEW c \in Callers, calls' = [calls EXCEPT ![c] = NoCall],
         UNCHANGED <<clock, gone>>, entries' \in [Entries -> Definitions \cup {Absent}],
         rows' \subseteq MonthRow, IsFiniteSet(rows'), OneObligation', RowsAreSound',
         \A o \in rows : \E u \in rows' : SameMonth(u, o)
  PROVE  MonthsInvariant'
  <1>1. calls'[c] = NoCall /\ KnowsMonth(c)'
    BY MonthsFacts, EndedKnows
  <1>2. calls' \in [Callers -> MonthCall] /\ \A d \in Callers \ {c} : calls'[d] = calls[d]
    BY MonthsFacts, NoCallType
  <1>3. \A d \in Callers \ {c} : KnowsMonth(d)'
    BY <1>2, MonthsFacts, OthersKnow
  <1>4. MonthsTypeOK'
    BY <1>2, MonthsFacts DEF MonthsTypeOK
  <1> QED
    BY <1>1, <1>3, <1>4 DEF MonthsInvariant, MonthsAreSound

\* Reading a month adds the rows that are missing, and those only.
LEMMA ReadMonthStep ==
  ASSUME MonthsInvariant, NEW c \in Callers, ReadMonth(c)
  PROVE  MonthsInvariant'
  <1> DEFINE missing == {w \in calls[c].wanted : \A o \in rows : ~SameMonth(o, w)}
  <1>1. /\ calls[c].at = "read" /\ \A w \in calls[c].wanted : ValidRow(w)
        /\ rows' = rows \cup missing
        /\ calls' = [calls EXCEPT ![c] = NoCall] /\ UNCHANGED <<clock, entries, gone>>
    BY DEF ReadMonth, EnsureMissing
  <1>2. /\ IsFiniteSet(calls[c].wanted) /\ calls[c].wanted \subseteq MonthRow
        /\ calls[c].period <= PeriodOf(clock)
        /\ \A v, w \in calls[c].wanted : w.period = calls[c].period /\ (SameMonth(v, w) => v = w)
    BY <1>1, MonthsFacts DEF KnowsMonth, MonthCall
  <1>3. rows' \subseteq MonthRow
    BY <1>1, <1>2, MonthsFacts
  <1>4. IsFiniteSet(rows')
    <2>1. IsFiniteSet(missing)
      BY <1>2, FS_Subset
    <2> QED
      BY <1>1, <2>1, MonthsFacts, FS_Union
  <1>5. OneObligation'
    <2>1. SUFFICES ASSUME NEW o \in rows \cup missing, NEW u \in rows \cup missing, SameMonth(o, u)
                   PROVE  o = u
      BY <1>1 DEF OneObligation
    <2>2. SameMonth(u, o)
      BY <2>1 DEF SameMonth
    <2>3. CASE o \in rows /\ u \in rows
      BY <2>1, <2>3, MonthsFacts DEF OneObligation
    <2>4. CASE o \in missing /\ u \in missing
      BY <1>2, <2>1, <2>4
    <2> QED
      BY <2>1, <2>2, <2>3, <2>4
  <1>6. RowsAreSound'
    <2>1. \A o \in rows : ValidRow(o) /\ o.period <= PeriodOf(clock)
      BY MonthsFacts DEF RowsAreSound
    <2>2. \A w \in missing : ValidRow(w) /\ w.period <= PeriodOf(clock)
      BY <1>1, <1>2
    <2> HIDE DEF missing
    <2> QED
      BY <1>1, <2>1, <2>2 DEF RowsAreSound
  <1>7. \A o \in rows : \E u \in rows' : SameMonth(u, o)
    BY <1>1 DEF SameMonth
  <1>8. entries' \in [Entries -> Definitions \cup {Absent}]
    BY <1>1, MonthsFacts DEF MonthsTypeOK
  <1> QED
    BY <1>1, <1>3, <1>4, <1>5, <1>6, <1>7, <1>8, TableKeepsMonths

\* A row written back keeps its month and due date; what else it says was checked.
LEMMA WriteBackStep ==
  ASSUME MonthsInvariant, NEW c \in Callers, NEW at, NEW u \in MonthRow, WriteBack(c, at, u)
  PROVE  MonthsInvariant'
  <1> DEFINE f == [o \in rows |-> IF SameMonth(o, u) THEN UpdateRow(o, u) ELSE o]
  <1>1. /\ ValidRow(u) /\ calls' = [calls EXCEPT ![c] = NoCall]
        /\ UNCHANGED <<clock, entries, gone>>
    BY DEF WriteBack
  <1>2. rows' = {f[o] : o \in rows}
    BY DEF WriteBack, UpdateOccurrence
  <1>3. ASSUME NEW o \in rows
        PROVE  f[o] \in MonthRow /\ SameMonth(f[o], o) /\ ValidRow(f[o])
    <2>1. o \in MonthRow /\ ValidRow(o)
      BY MonthsFacts DEF RowsAreSound
    <2>2. CASE SameMonth(o, u)
      <3>1. f[o] = UpdateRow(o, u)
        BY <2>2
      <3>2. /\ UpdateRow(o, u) \in MonthRow
            /\ UpdateRow(o, u).entry = o.entry /\ UpdateRow(o, u).period = o.period
            /\ UpdateRow(o, u).due = o.due /\ UpdateRow(o, u).status = u.status
            /\ UpdateRow(o, u).paid = u.paid
        BY <2>1 DEF UpdateRow, MonthRow
      <3> HIDE DEF f
      <3> QED
        BY <1>1, <2>1, <3>1, <3>2 DEF ValidRow, SameMonth
    <2>3. CASE ~SameMonth(o, u)
      BY <2>1, <2>3 DEF SameMonth
    <2> QED
      BY <2>2, <2>3
  <1> HIDE DEF f
  <1>4. /\ rows' \subseteq MonthRow /\ IsFiniteSet(rows') /\ OneObligation' /\ RowsAreSound'
        /\ \A o \in rows : \E v \in rows' : SameMonth(v, o)
    BY <1>1, <1>2, <1>3, RowsRewritten
  <1>5. entries' \in [Entries -> Definitions \cup {Absent}]
    BY <1>1, MonthsFacts DEF MonthsTypeOK
  <1> QED
    BY <1>1, <1>4, <1>5, TableKeepsMonths

\* The copies the three calls write are rows.
LEMMA SettlingStep ==
  ASSUME MonthsInvariant, NEW c \in Callers, Pay(c) \/ Unpay(c) \/ SetAmount(c)
  PROVE  MonthsInvariant'
  <1> DEFINE k == calls[c]
  <1>1. k \in MonthCall /\ KnowsMonth(c) /\ k.now \in Nat /\ k.amount \in Nat
    BY MonthsFacts DEF MonthCall
  <1>2. CASE Pay(c)
    <2>1. k.at = "pay" /\ k.row \in MonthRow
      BY <1>1, <1>2 DEF Pay, WriteBack, KnowsMonth
    <2>2. MarkPaid(k.row, k.now) \in MonthRow
      BY <1>1, <2>1 DEF MarkPaid, MonthRow
    <2> QED
      BY <1>2, <2>2, WriteBackStep DEF Pay
  <1>3. CASE Unpay(c)
    <2>1. k.at = "unpay" /\ k.row \in MonthRow
      BY <1>1, <1>3 DEF Unpay, WriteBack, KnowsMonth
    <2>2. UnmarkPaid(k.row) \in MonthRow
      BY <1>1, <2>1 DEF UnmarkPaid, MonthRow
    <2> QED
      BY <1>3, <2>2, WriteBackStep DEF Unpay
  <1>4. CASE SetAmount(c)
    <2>1. k.at = "set" /\ k.row \in MonthRow /\ k.amount \in Nat \ {0}
      BY <1>1, <1>4 DEF SetAmount, WriteBack, KnowsMonth
    <2>2. SetAmountCents(k.row, k.amount) \in MonthRow
      BY <2>1 DEF SetAmountCents, MonthRow
    <2> QED
      BY <1>4, <2>2, WriteBackStep DEF SetAmount
  <1> QED
    BY <1>2, <1>3, <1>4

\* A definition applied to its month: the row is pending still and due in that month.
LEMMA AppliedRow ==
  ASSUME MonthsInvariant, NEW c \in Callers, ApplyDefinition(c), NEW o \in rows, SameMonth(o, calls[c].row)
  PROVE  /\ o.status = "pending" /\ calls[c].def \in Definitions
         /\ Applied(o, calls[c].def) \in MonthRow /\ SameMonth(Applied(o, calls[c].def), o)
         /\ ValidRow(Applied(o, calls[c].def))
         /\ Applied(Applied(o, calls[c].def), calls[c].def) = Applied(o, calls[c].def)
  <1> DEFINE d == calls[c].def
             r == calls[c].row
  <1>1. /\ calls[c].at = "apply" /\ ValidRow(Applied(r, d))
        /\ \A u \in rows : SameMonth(u, r) => TakesDefinition(u)
    BY DEF ApplyDefinition
  <1>2. d \in Definitions /\ r \in MonthRow
    BY <1>1, MonthsFacts DEF KnowsMonth
  <1>3. o \in MonthRow /\ ValidRow(o) /\ o.status = "pending" /\ o.period = r.period
    BY <1>1, MonthsFacts DEF RowsAreSound, TakesDefinition, SameMonth
  <1>4. DueOn(o.period, d.day) \in Nat /\ d.amount \in Nat \ {0} /\ d.varies \in BOOLEAN
    BY <1>2, <1>3, DefinitionFields, DueOnType, RowFields
  <1> HIDE DEF d, r
  <1>5. /\ Applied(o, d) \in MonthRow /\ SameMonth(Applied(o, d), o)
        /\ Applied(o, d).period = o.period /\ Applied(o, d).due = DueOn(o.period, d.day)
        /\ Applied(o, d).status = o.status /\ Applied(o, d).paid = o.paid
        /\ Applied(o, d).amount = d.amount /\ Applied(o, d).estimated = d.varies
    BY <1>3, <1>4 DEF Applied, MonthRow, SameMonth
  <1>6. Applied(r, d).period = r.period /\ Applied(r, d).due = DueOn(r.period, d.day)
    BY <1>2 DEF Applied, MonthRow
  <1>7. ValidRow(Applied(o, d))
    BY <1>1, <1>3, <1>5, <1>6 DEF ValidRow
  <1>8. Applied(Applied(o, d), d) = Applied(o, d)
    <2> DEFINE u == Applied(o, d)
    <2>1. /\ u \in MonthRow /\ u.due = DueOn(u.period, d.day)
          /\ u.amount = d.amount /\ u.estimated = d.varies
      BY <1>5
    <2> HIDE DEF u
    <2>2. Applied(u, d) = u
      BY <2>1 DEF Applied, MonthRow
    <2> QED
      BY <2>2 DEF u
  <1> QED
    BY <1>2, <1>3, <1>5, <1>7, <1>8 DEF d

LEMMA ApplyStep ==
  ASSUME MonthsInvariant, NEW c \in Callers, ApplyDefinition(c)
  PROVE  MonthsInvariant'
  <1> DEFINE d == calls[c].def
             r == calls[c].row
             f == [o \in rows |-> IF SameMonth(o, r) THEN Applied(o, d) ELSE o]
  <1>1. /\ calls[c].at = "apply" /\ calls' = [calls EXCEPT ![c] = NoCall]
        /\ entries' = [entries EXCEPT ![calls[c].entry] = d]
        /\ UNCHANGED <<clock, gone>>
    BY DEF ApplyDefinition
  <1>2. rows' = {f[o] : o \in rows}
    BY DEF ApplyDefinition, ApplyToRow
  <1>3. ASSUME NEW o \in rows
        PROVE  f[o] \in MonthRow /\ SameMonth(f[o], o) /\ ValidRow(f[o])
    <2>1. CASE SameMonth(o, r)
      BY <2>1, AppliedRow
    <2>2. CASE ~SameMonth(o, r)
      BY <2>2, MonthsFacts DEF RowsAreSound, SameMonth
    <2> QED
      BY <2>1, <2>2
  <1> HIDE DEF f
  <1>4. /\ rows' \subseteq MonthRow /\ IsFiniteSet(rows') /\ OneObligation' /\ RowsAreSound'
        /\ \A o \in rows : \E v \in rows' : SameMonth(v, o)
    BY <1>1, <1>2, <1>3, RowsRewritten
  <1>5. entries' \in [Entries -> Definitions \cup {Absent}]
    <2>1. d \in Definitions
      BY <1>1, MonthsFacts DEF KnowsMonth
    <2> QED
      BY <1>1, <2>1, MonthsFacts DEF MonthsTypeOK
  <1> QED
    BY <1>1, <1>4, <1>5, TableKeepsMonths

LEMMA MonthsStart == MonthsInit => MonthsInvariant
  <1> SUFFICES ASSUME MonthsInit PROVE MonthsInvariant
    OBVIOUS
  <1>1. MonthsTypeOK
    <2>1. clock \in 1..LastDay
      BY MonthsAssumption DEF MonthsAssumption, MonthsInit
    <2>2. entries \in [Entries -> Definitions \cup {Absent}]
      BY DEF MonthsInit
    <2>3. calls \in [Callers -> MonthCall]
      BY NoCallType DEF MonthsInit
    <2> QED
      BY <2>1, <2>2, <2>3 DEF MonthsInit, MonthsTypeOK
  <1>2. OneObligation /\ RowsAreSound /\ IsFiniteSet(rows)
    BY FS_EmptySet DEF MonthsInit, OneObligation, RowsAreSound
  <1>3. ASSUME NEW c \in Callers PROVE KnowsMonth(c)
    <2>1. calls[c] = NoCall /\ 0 <= clock
      BY DEF MonthsInit
    <2> QED
      BY <2>1, NoCallType DEF KnowsMonth
  <1> QED
    BY <1>1, <1>2, <1>3 DEF MonthsInvariant, MonthsAreSound

LEMMA MonthsStep == MonthsInvariant /\ [MonthsNext]_monthsVars => MonthsInvariant'
  <1> SUFFICES ASSUME MonthsInvariant, [MonthsNext]_monthsVars PROVE MonthsInvariant'
    OBVIOUS
  <1>1. CASE UNCHANGED monthsVars
    BY <1>1 DEF monthsVars, MonthsInvariant, MonthsAreSound, MonthsTypeOK, OneObligation, RowsAreSound, KnowsMonth
  <1>2. CASE Tick \/ CreateRecurringEntry \/ DeleteRecurringEntry
    BY <1>2, OthersStep
  <1>3. ASSUME NEW c \in Callers, BeginPay(c) \/ BeginUnpay(c) \/ BeginSetAmount(c)
        PROVE  MonthsInvariant'
    <2>1. CASE BeginPay(c)
      BY <2>1, SettleableStep DEF BeginPay
    <2>2. CASE BeginUnpay(c)
      BY <2>2, SettleableStep DEF BeginUnpay
    <2>3. CASE BeginSetAmount(c)
      <3>1. PICK a \in Amounts : SettleableOccurrence(c, "set", "pending", a)
        BY <2>3 DEF BeginSetAmount
      <3>2. a \in Nat /\ a # 0
        BY MonthsAssumption DEF MonthsAssumption
      <3> QED
        BY <3>1, <3>2, SettleableStep
    <2> QED
      BY <1>3, <2>1, <2>2, <2>3
  <1>4. ASSUME NEW c \in Callers,
               \/ BeginRead(c) \/ ReadMonth(c) \/ Pay(c) \/ Unpay(c) \/ SetAmount(c)
               \/ BeginEdit(c) \/ WriteEntry(c) \/ FindByEntryPeriod(c) \/ ApplyDefinition(c)
               \/ CallFails(c)
        PROVE  MonthsInvariant'
    BY <1>4, BeginReadStep, ReadMonthStep, SettlingStep, BeginEditStep, WriteEntryStep, FindStep,
       ApplyStep, CallFailsStep
  <1> QED
    BY <1>1, <1>2, <1>3, <1>4 DEF MonthsNext

\* What calls know, and with it the soundness of the months, is inductive
\* (recurringoccurrences.go).
THEOREM MonthsInductive == MonthsSpec => []MonthsInvariant
  BY MonthsStart, MonthsStep, PTL DEF MonthsSpec

\* However many calls read, settle and edit months side by side, each entry owes a
\* month once, and every row is due in its month, paid when it has a date and of a
\* month that has begun.
THEOREM MonthsHold == MonthsSpec => []MonthsAreSound
  <1>1. MonthsInvariant => MonthsAreSound
    BY DEF MonthsInvariant
  <1> QED
    BY <1>1, MonthsInductive, PTL

--------------------------------------------------------------------------------
(* What a step does to the months.                                         *)

\* The pending lines and the paid ones are all of a month's money.
LEMMA MoneyOfMonth ==
  ASSUME NEW lines, lines \subseteq MonthRow, IsFiniteSet(lines)
  PROVE  /\ Cents(lines) = Cents(OfStatus(lines, "paid")) + Cents(OfStatus(lines, "pending"))
         /\ Cents(OfStatus(lines, "paid")) \in Nat /\ Cents(OfStatus(lines, "pending")) \in Nat
  <1> DEFINE w == [o \in lines |-> o.amount]
             settled == OfStatus(lines, "paid")
             open == OfStatus(lines, "pending")
  <1>1. \A o \in lines : w[o] \in Nat
    BY RowFields
  <1>2. settled \subseteq lines /\ open = lines \ settled /\ open \subseteq lines
    BY RowFields DEF OfStatus
  <1>3. IsFiniteSet(settled) /\ IsFiniteSet(open)
    BY <1>2, FS_Subset
  <1>4. SumFunctionOnSet(w, lines) = SumFunctionOnSet(w, settled) + SumFunctionOnSet(w, open)
    <2> HIDE DEF w, settled, open
    <2> QED
      BY <1>1, <1>2, SumOfPart
  <1>5. ASSUME NEW part \in SUBSET lines, IsFiniteSet(part)
        PROVE  Cents(part) = SumFunctionOnSet(w, part) /\ SumFunctionOnSet(w, part) \in Nat
    <2> DEFINE v == [o \in part |-> o.amount]
    <2>1. \A o \in part : v[o] = w[o]
      OBVIOUS
    <2>2. SumFunctionOnSet(v, part) = SumFunctionOnSet(w, part)
      <3> HIDE DEF v, w
      <3> QED
        BY <1>5, <2>1, SumAgrees
    <2>3. SumFunctionOnSet(w, part) \in Nat
      <3> HIDE DEF w
      <3> QED
        BY <1>1, <1>5, SumType
    <2> QED
      BY <2>2, <2>3 DEF Cents
  <1> HIDE DEF w, settled, open
  <1>6. /\ Cents(lines) = SumFunctionOnSet(w, lines) /\ Cents(settled) = SumFunctionOnSet(w, settled)
        /\ Cents(open) = SumFunctionOnSet(w, open)
        /\ Cents(settled) \in Nat /\ Cents(open) \in Nat
    BY <1>2, <1>3, <1>5
  <1> QED
    BY <1>4, <1>6 DEF settled, open

\* A month read is whole: every row projected, of an entry not deleted since, is
\* among its lines, and what remains is what is pending.
LEMMA ReadIsWhole ==
  ASSUME MonthsInvariant, NEW c \in Callers, ReadMonth(c)
  PROVE  LET lines == ListByPeriod(calls[c].period, rows')
         IN  /\ \A w \in calls[c].wanted : w.entry \notin gone => \E o \in lines : SameMonth(o, w)
             /\ SummarizeOccurrences(lines, clock).remaining = Cents(OfStatus(lines, "pending"))
  <1> DEFINE lines == ListByPeriod(calls[c].period, rows')
  <1>1. MonthsInvariant'
    BY ReadMonthStep
  <1>2. rows' \subseteq MonthRow /\ IsFiniteSet(rows')
    BY <1>1 DEF MonthsInvariant, MonthsAreSound, MonthsTypeOK
  <1>3. lines \subseteq MonthRow /\ IsFiniteSet(lines)
    BY <1>2, FS_Subset DEF ListByPeriod
  <1>4. ASSUME NEW w \in calls[c].wanted, w.entry \notin gone
        PROVE  \E o \in lines : SameMonth(o, w)
    <2>1. PICK o \in rows' : SameMonth(o, w)
      BY DEF ReadMonth, EnsureMissing, SameMonth
    <2>2. w.period = calls[c].period
      BY MonthsFacts DEF ReadMonth, KnowsMonth
    <2>3. o \in lines
      BY <1>4, <2>1, <2>2 DEF ListByPeriod, SameMonth
    <2> QED
      BY <2>1, <2>3
  <1>5. SummarizeOccurrences(lines, clock).remaining = Cents(OfStatus(lines, "pending"))
    <2> HIDE DEF lines
    <2>1. SummarizeOccurrences(lines, clock).remaining = Cents(lines) - Cents(OfStatus(lines, "paid"))
      BY DEF SummarizeOccurrences
    <2>2. /\ Cents(lines) = Cents(OfStatus(lines, "paid")) + Cents(OfStatus(lines, "pending"))
          /\ Cents(OfStatus(lines, "paid")) \in Nat /\ Cents(OfStatus(lines, "pending")) \in Nat
      BY <1>3, MoneyOfMonth
    <2> QED
      BY <2>1, <2>2
  <1> QED
    BY <1>4, <1>5

\* A step that changes an entry creates it, or is an edit's last.
LEMMA EntriesChange ==
  ASSUME MonthsInvariant, MonthsNext, entries' # entries
  PROVE  \/ CreateRecurringEntry
         \/ \E c \in Callers : WriteEntry(c) /\ calls[c].period = 0
         \/ \E c \in Callers : ApplyDefinition(c)
  BY DEF MonthsNext, Tick, DeleteRecurringEntry, BeginRead, ReadMonth, BeginPay, Pay, BeginUnpay, Unpay,
     BeginSetAmount, SetAmount, SettleableOccurrence, WriteBack, BeginEdit, WriteEntry, FindByEntryPeriod,
     CallFails

\* An edit rewrites the pending row of the month that was current when it began.
LEMMA EditSparesHistory ==
  ASSUME MonthsInvariant, MonthsNext, entries' # entries, NEW o \in rows \ rows'
  PROVE  /\ o.status = "pending"
         /\ \E c \in Callers : calls[c].at = "apply" /\ SameMonth(o, calls[c].row)
                               /\ o.period = PeriodOf(calls[c].now)
  <1>1. PICK c \in Callers : ApplyDefinition(c)
    BY EntriesChange DEF CreateRecurringEntry, WriteEntry
  <1>2. SameMonth(o, calls[c].row)
    BY <1>1 DEF ApplyDefinition, ApplyToRow
  <1>3. calls[c].at = "apply" /\ KnowsMonth(c)
    BY <1>1, MonthsFacts DEF ApplyDefinition
  <1>4. o.period = PeriodOf(calls[c].now)
    BY <1>2, <1>3 DEF KnowsMonth, SameMonth
  <1>5. o.status = "pending"
    BY <1>1, <1>2, AppliedRow
  <1> QED
    BY <1>2, <1>3, <1>4, <1>5

\* An edit with a month changes the entry in the step that rewrites the month.
LEMMA EditDoesBoth ==
  ASSUME MonthsInvariant, MonthsNext, NEW c \in Callers,
         calls[c].period # 0, calls'[c] # calls[c], entries' # entries
  PROVE  \E o \in rows' : /\ o.entry = calls[c].entry /\ o.period = calls[c].period
                          /\ o = Applied(o, entries'[calls[c].entry])
  <1> DEFINE d == calls[c].def
             r == calls[c].row
  <1>1. ApplyDefinition(c)
    <2>1. \A e \in Callers : WriteEntry(e) \/ ApplyDefinition(e) => \A x \in Callers \ {e} : calls'[x] = calls[x]
      BY MonthsFacts DEF WriteEntry, ApplyDefinition
    <2> QED
      BY <2>1, EntriesChange DEF CreateRecurringEntry
  <1>2. /\ calls[c].at = "apply" /\ entries' = [entries EXCEPT ![calls[c].entry] = d]
        /\ rows' = ApplyToRow(r, d) /\ KnowsMonth(c)
    BY <1>1, MonthsFacts DEF ApplyDefinition
  <1>3. PICK o \in rows : SameMonth(o, r)
    BY <1>2 DEF KnowsMonth
  <1>4. Applied(o, d) \in rows'
    BY <1>2, <1>3 DEF ApplyToRow
  <1>5. entries'[calls[c].entry] = d
    BY <1>2, MonthsFacts DEF KnowsMonth, MonthsTypeOK
  <1>6. SameMonth(Applied(o, d), o) /\ Applied(Applied(o, d), d) = Applied(o, d)
    BY <1>1, <1>3, AppliedRow
  <1>7. Applied(o, d).entry = calls[c].entry /\ Applied(o, d).period = calls[c].period
    BY <1>2, <1>3, <1>6 DEF KnowsMonth, SameMonth
  <1> HIDE DEF d
  <1> QED
    BY <1>4, <1>5, <1>6, <1>7

\* A month that is read is answered whole and keeps what it had; an edit of an entry
\* changes the month it was asked for with the entry, and no settled one.
THEOREM MonthsKept == MonthsSpec => MonthsAreKept
  <1>1. MonthsInvariant /\ [MonthsNext]_monthsVars =>
          [\A c \in Callers : ReadMonth(c) => rows \subseteq rows']_monthsVars
    BY DEF ReadMonth, EnsureMissing
  <1>2. MonthsInvariant /\ [MonthsNext]_monthsVars =>
          [\A c \in Callers :
             ReadMonth(c) =>
               LET lines == ListByPeriod(calls[c].period, rows')
               IN /\ \A w \in calls[c].wanted : w.entry \notin gone => \E o \in lines : SameMonth(o, w)
                  /\ SummarizeOccurrences(lines, clock).remaining = Cents(OfStatus(lines, "pending"))]_monthsVars
    BY ReadIsWhole
  <1>3. MonthsInvariant /\ [MonthsNext]_monthsVars =>
          [entries' # entries =>
             \A o \in rows \ rows' :
               /\ o.status = "pending"
               /\ \E c \in Callers : calls[c].at = "apply" /\ SameMonth(o, calls[c].row)
                                     /\ o.period = PeriodOf(calls[c].now)]_monthsVars
    BY EditSparesHistory DEF monthsVars
  <1>4. MonthsInvariant /\ [MonthsNext]_monthsVars =>
          [\A c \in Callers :
             (/\ calls[c].at \in {"edit", "find", "apply"} /\ calls[c].period # 0
              /\ calls'[c] # calls[c] /\ entries' # entries) =>
               \E o \in rows' :
                 /\ o.entry = calls[c].entry /\ o.period = calls[c].period
                 /\ o = Applied(o, entries'[calls[c].entry])]_monthsVars
    BY EditDoesBoth DEF monthsVars
  <1>5. MonthsSpec => ReadingKeepsMonths
    BY <1>1, MonthsInductive, PTL DEF MonthsSpec, ReadingKeepsMonths
  <1>6. MonthsSpec => MonthIsWhole
    BY <1>2, MonthsInductive, PTL DEF MonthsSpec, MonthIsWhole
  <1>7. MonthsSpec => EditKeepsHistory
    BY <1>3, MonthsInductive, PTL DEF MonthsSpec, EditKeepsHistory
  <1>8. MonthsSpec => EditAppliesBoth
    BY <1>4, MonthsInductive, PTL DEF MonthsSpec, EditAppliesBoth
  <1> QED
    BY <1>5, <1>6, <1>7, <1>8 DEF MonthsAreKept, ReadingIsWhole, EditIsSound

--------------------------------------------------------------------------------
(* The ledger: its rows and how they lie.                                  *)

\* A function on 1..n is a sequence of n.
LEMMA NumberedIsSeq ==
  ASSUME NEW S, NEW n \in Nat, NEW f \in [1..n -> S]
  PROVE  f \in Seq(S) /\ Len(f) = n /\ DOMAIN f = 1..n
  <1>1. f \in Seq(S)
    BY SeqDef
  <1>2. Len(f) \in Nat /\ DOMAIN f = 1..Len(f)
    BY <1>1, LenProperties
  <1>3. 1..n = 1..Len(f)
    BY <1>2
  <1>4. n = Len(f)
    BY <1>2, <1>3
  <1> QED
    BY <1>1, <1>4

\* n numbers in a row.
LEMMA RunOfNumbers ==
  ASSUME NEW f \in Nat, NEW n \in Nat
  PROVE  IsFiniteSet((f + 1)..(f + n)) /\ Cardinality((f + 1)..(f + n)) = n
  <1>1. f + 1 \in Int /\ f + n \in Int
    OBVIOUS
  <1>2. /\ IsFiniteSet((f + 1)..(f + n))
        /\ Cardinality((f + 1)..(f + n)) = IF f + 1 > f + n THEN 0 ELSE (f + n) - (f + 1) + 1
    BY <1>1, FS_Interval
  <1> QED
    BY <1>2

\* The columns of a transaction.
LEMMA TransactionFields ==
  ASSUME NEW t \in TransactionRow
  PROVE  /\ t \in [cat : Categories, type : {"income", "expense"}, amount : Nat \ {0}, status : Status,
                   pair : Nat, plan : Nat, number : Nat, deleted : BOOLEAN]
         /\ t.cat \in Categories /\ t.type \in {"income", "expense"} /\ t.type = TypeOf[t.cat]
         /\ t.amount \in Nat \ {0} /\ t.status \in Status /\ t.pair \in Nat /\ t.plan \in Nat
         /\ t.number \in Nat /\ t.deleted \in BOOLEAN
  BY DEF TransactionRow, References

\* What the steps use of the invariant.
LEMMA LedgerFacts ==
  ASSUME LedgerInvariant
  PROVE  /\ txs \in Seq(TransactionRow) /\ Len(txs) \in Nat /\ Len(txs) <= MaxRows /\ DOMAIN txs = 1..Len(txs)
         /\ \A i \in DOMAIN txs : txs[i] \in TransactionRow
         /\ plans \in Seq(Purchase) /\ Len(plans) \in Nat /\ Len(plans) <= MaxPlans /\ DOMAIN plans = 1..Len(plans)
         /\ \A p \in DOMAIN plans : plans[p] \in Purchase /\ plans[p].remaining <= plans[p].parts
         /\ request \in [Clients -> Request]
         /\ \A c \in Clients : request[c] \in Request /\ KnowsRows(c)
         /\ RowsFollow /\ HeldApart
  <1>1. /\ txs \in Seq(TransactionRow) /\ Len(txs) <= MaxRows /\ plans \in Seq(Purchase) /\ Len(plans) <= MaxPlans
        /\ \A p \in DOMAIN plans : plans[p].remaining <= plans[p].parts
        /\ request \in [Clients -> Request] /\ \A c \in Clients : KnowsRows(c)
        /\ RowsFollow /\ HeldApart
    BY DEF LedgerInvariant, LedgerTypeOK
  <1>2. /\ Len(txs) \in Nat /\ DOMAIN txs = 1..Len(txs) /\ \A i \in DOMAIN txs : txs[i] \in TransactionRow
    BY <1>1, LenProperties, ElementOfSeq
  <1>3. /\ Len(plans) \in Nat /\ DOMAIN plans = 1..Len(plans) /\ \A p \in DOMAIN plans : plans[p] \in Purchase
    BY <1>1, LenProperties, ElementOfSeq
  <1> QED
    BY <1>1, <1>2, <1>3

\* Rows of a purchase are not legs.
LEMMA InstalmentsHaveNoPair ==
  ASSUME LedgerInvariant, NEW p \in DOMAIN plans, NEW i \in Instalments(p)
  PROVE  i \in DOMAIN txs /\ txs[i].pair = 0
  <1>1. p \in Nat \ {0} /\ i \in DOMAIN txs /\ txs[i].plan = p
    BY LedgerFacts DEF Instalments
  <1> QED
    BY <1>1, LedgerFacts DEF RowsFollow, RowFollows

\* Nobody writes what an open cancellation holds.
LEMMA HeldIsLocked ==
  ASSUME NEW c \in Clients, NEW i \in request[c].held
  PROVE  i \in Locked
  BY DEF Locked

LEMMA NoRequestType ==
  /\ NoRequest \in Request
  /\ NoRequest.at = "idle" /\ NoRequest.held = {}
  BY DEF NoRequest, Request, NoRow

\* What another request knows stays true when rows keep their place and what it holds
\* is left alone.
LEMMA OthersStillKnow ==
  ASSUME LedgerInvariant, NEW d \in Clients, request'[d] = request[d],
         DOMAIN txs \subseteq DOMAIN txs', DOMAIN plans \subseteq DOMAIN plans',
         \A i \in DOMAIN txs : txs'[i].pair = txs[i].pair,
         \A i \in request[d].held : txs'[i] = txs[i]
  PROVE  KnowsRows(d)'
  <1>1. KnowsRows(d)
    BY LedgerFacts
  <1>2. ASSUME request[d].at = "recount"
        PROVE  /\ request[d].held \subseteq Instalments(request[d].plan)' \cap LiveRows'
               /\ \A i \in request[d].held : txs'[i].status = "scheduled"
    BY <1>1, <1>2 DEF KnowsRows, Instalments, LiveRows
  <1> QED
    BY <1>1, <1>2 DEF KnowsRows

\* A step that changes no table.
LEMMA RequestKeepsLedger ==
  ASSUME LedgerInvariant, NEW c \in Clients, NEW r \in Request,
         request' = [request EXCEPT ![c] = r], UNCHANGED <<txs, plans>>,
         KnowsRows(c)', r.held \cap Locked = {}
  PROVE  LedgerInvariant'
  <1>1. /\ request' \in [Clients -> Request] /\ request'[c] = r
        /\ \A d \in Clients \ {c} : request'[d] = request[d]
    BY LedgerFacts
  <1>2. \A d \in Clients : KnowsRows(d)'
    BY <1>1, OthersStillKnow
  <1>3. HeldApart'
    BY <1>1, LedgerFacts DEF HeldApart, Locked
  <1>4. LedgerTypeOK'
    BY <1>1 DEF LedgerInvariant, LedgerTypeOK
  <1>5. RowsFollow'
    BY LedgerFacts DEF RowsFollow, RowFollows, PartsFollow, Legs, Instalments
  <1> QED
    BY <1>2, <1>3, <1>4, <1>5 DEF LedgerInvariant

LEMMA BeginUpdateStep ==
  ASSUME LedgerInvariant, NEW c \in Clients, BeginUpdate(c)
  PROVE  LedgerInvariant'
  <1>1. PICK i \in LiveRows : \E t \in Patches(txs[i]) :
          ValidTransaction(t) /\ Begin(c, [NoRequest EXCEPT !.at = "update", !.id = i, !.row = t])
    BY DEF BeginUpdate
  <1>1a. PICK t \in Patches(txs[i]) :
          ValidTransaction(t) /\ Begin(c, [NoRequest EXCEPT !.at = "update", !.id = i, !.row = t])
    BY <1>1
  <1> DEFINE r == [NoRequest EXCEPT !.at = "update", !.id = i, !.row = t]
  <1>2. request' = [request EXCEPT ![c] = r] /\ UNCHANGED <<txs, plans>>
    BY <1>1a DEF Begin
  <1>3. i \in DOMAIN txs /\ i \in Nat /\ txs[i] \in TransactionRow
    BY LedgerFacts DEF LiveRows
  <1>4. t \in TransactionRow
    <2>1. \A x \in Categories : TypeOf[x] \in {"income", "expense"}
      BY LedgerAssumption DEF LedgerAssumption
    <2>2. \A a \in Prices : a \in Nat \ {0}
      BY LedgerAssumption DEF LedgerAssumption
    <2>3. CASE \E a \in Prices : t = [txs[i] EXCEPT !.amount = a]
      BY <1>3, <2>2, <2>3 DEF TransactionRow, References
    <2>4. CASE \E s \in Status : t = [txs[i] EXCEPT !.status = s]
      BY <1>3, <2>4 DEF TransactionRow, References
    <2>5. CASE \E x \in Categories : t = [txs[i] EXCEPT !.cat = x, !.type = TypeOf[x]]
      <3>1. PICK x \in Categories : t = [txs[i] EXCEPT !.cat = x, !.type = TypeOf[x]]
        BY <2>5
      <3>2. txs[i] \in [cat : Categories, type : {"income", "expense"}, amount : Nat \ {0}, status : Status,
                       pair : Nat, plan : Nat, number : Nat, deleted : BOOLEAN]
        BY <1>3, TransactionFields
      <3>3. t \in [cat : Categories, type : {"income", "expense"}, amount : Nat \ {0}, status : Status,
                  pair : Nat, plan : Nat, number : Nat, deleted : BOOLEAN]
        BY <2>1, <3>1, <3>2
      <3>4. t.cat = x /\ t.type = TypeOf[x]
        BY <3>1, <3>2
      <3> QED
        BY <3>3, <3>4 DEF TransactionRow, References
    <2> QED
      BY <2>3, <2>4, <2>5 DEF Patches
  <1>5. r \in Request /\ r.at = "update" /\ r.id = i /\ r.row = t /\ r.held = {}
    BY <1>3, <1>4, NoRequestType DEF Request
  <1> HIDE DEF r
  <1>6. request'[c] = r
    BY <1>2, LedgerFacts
  <1>7. KnowsRows(c)'
    BY <1>2, <1>3, <1>4, <1>5, <1>6 DEF KnowsRows
  <1> QED
    BY <1>2, <1>5, <1>7, RequestKeepsLedger

LEMMA BeginDeleteStep ==
  ASSUME LedgerInvariant, NEW c \in Clients, BeginDelete(c)
  PROVE  LedgerInvariant'
  <1>1. PICK i \in LiveRows :
          DeletesAlone(txs[i]) /\ Begin(c, [NoRequest EXCEPT !.at = "delete", !.id = i])
    BY DEF BeginDelete
  <1> DEFINE r == [NoRequest EXCEPT !.at = "delete", !.id = i]
  <1>2. request' = [request EXCEPT ![c] = r] /\ UNCHANGED <<txs, plans>>
    BY <1>1 DEF Begin
  <1>3. i \in DOMAIN txs /\ i \in Nat /\ txs[i].pair = 0
    BY <1>1, LedgerFacts DEF LiveRows, DeletesAlone
  <1>4. r \in Request /\ r.at = "delete" /\ r.id = i /\ r.held = {}
    BY <1>3, NoRequestType DEF Request
  <1> HIDE DEF r
  <1>5. request'[c] = r
    BY <1>2, LedgerFacts
  <1>6. KnowsRows(c)'
    BY <1>2, <1>3, <1>4, <1>5 DEF KnowsRows
  <1> QED
    BY <1>2, <1>4, <1>6, RequestKeepsLedger

LEMMA CancelStep ==
  ASSUME LedgerInvariant, NEW c \in Clients, CancelInstalments(c)
  PROVE  LedgerInvariant'
  <1> DEFINE Due(p) == {i \in Instalments(p) \cap LiveRows : Cancels(txs[i])}
  <1>1. PICK p \in DOMAIN plans :
          /\ Due(p) \cap Locked = {}
          /\ Begin(c, [NoRequest EXCEPT !.at = "recount", !.plan = p, !.held = Due(p)])
    BY DEF CancelInstalments
  <1> DEFINE r == [NoRequest EXCEPT !.at = "recount", !.plan = p, !.held = Due(p)]
  <1>2. request' = [request EXCEPT ![c] = r] /\ UNCHANGED <<txs, plans>>
    BY <1>1 DEF Begin
  <1>3. Due(p) \subseteq Nat /\ p \in Nat
    BY LedgerFacts DEF LiveRows
  <1>4. r \in Request /\ r.at = "recount" /\ r.plan = p /\ r.held = Due(p)
    BY <1>3, NoRequestType DEF Request
  <1>5. \A i \in Due(p) : i \in Instalments(p) \cap LiveRows /\ txs[i].status = "scheduled"
    BY DEF Cancels
  <1> HIDE DEF r, Due
  <1>6. request'[c] = r
    BY <1>2, LedgerFacts
  <1>7. KnowsRows(c)'
    BY <1>2, <1>4, <1>5, <1>6 DEF KnowsRows, Instalments, LiveRows
  <1> QED
    BY <1>1, <1>2, <1>4, <1>7, RequestKeepsLedger

LEMMA RequestFailsStep ==
  ASSUME LedgerInvariant, NEW c \in Clients, RequestFails(c)
  PROVE  LedgerInvariant'
  <1>1. request' = [request EXCEPT ![c] = NoRequest] /\ UNCHANGED <<txs, plans>>
    BY DEF RequestFails
  <1>2. request'[c] = NoRequest
    BY <1>1, LedgerFacts
  <1>3. KnowsRows(c)'
    BY <1>2, NoRequestType DEF KnowsRows
  <1> QED
    BY <1>1, <1>3, NoRequestType, RequestKeepsLedger

--------------------------------------------------------------------------------
(* Rows rewritten in place.                                                *)

\* Rows keep their transfer, purchase and number, and legs one fate.
LEMMA RowsInPlace ==
  ASSUME LedgerInvariant, txs' \in [1..Len(txs) -> TransactionRow],
         \A i \in DOMAIN txs : /\ txs'[i].pair = txs[i].pair /\ txs'[i].plan = txs[i].plan
                               /\ txs'[i].number = txs[i].number,
         \A i, j \in DOMAIN txs :
           txs[i].pair # 0 /\ txs[i].pair = txs[j].pair => (txs'[i].deleted = txs'[j].deleted),
         Len(plans') = Len(plans), DOMAIN plans' = DOMAIN plans,
         \A p \in DOMAIN plans : plans'[p].parts = plans[p].parts
  PROVE  /\ txs' \in Seq(TransactionRow) /\ Len(txs') = Len(txs) /\ DOMAIN txs' = DOMAIN txs
         /\ RowsFollow'
  <1>1. txs' \in Seq(TransactionRow) /\ Len(txs') = Len(txs) /\ DOMAIN txs' = DOMAIN txs
    BY LedgerFacts, NumberedIsSeq
  <1>2. \A p : Legs(p)' = Legs(p) /\ Instalments(p)' = Instalments(p)
    BY <1>1 DEF Legs, Instalments
  <1>3. ASSUME NEW i \in DOMAIN txs PROVE RowFollows(i)'
    <2>1. /\ txs[i].plan \in 0..Len(plans)
          /\ txs[i].pair # 0 => /\ txs[i].plan = 0 /\ i \in {txs[i].pair, txs[i].pair + 1}
                                /\ {txs[i].pair, txs[i].pair + 1} \subseteq Legs(txs[i].pair)
                               /\ \A j \in Legs(txs[i].pair) : txs[j].deleted = txs[i].deleted
      BY LedgerFacts DEF RowsFollow, RowFollows
    <2>2. \A j \in Legs(txs[i].pair) : j \in DOMAIN txs /\ txs[j].pair = txs[i].pair
      BY DEF Legs
    <2>3. Legs(txs[i].pair)' = Legs(txs[i].pair)
      BY <1>1 DEF Legs
    <2>4. txs[i].pair # 0 => \A j \in Legs(txs[i].pair) : txs'[j].deleted = txs'[i].deleted
      BY <2>2
    <2> QED
      BY <2>1, <2>3, <2>4 DEF RowFollows
  <1>4. ASSUME NEW p \in DOMAIN plans PROVE PartsFollow(p)'
    <2>1. PICK f \in 0..Len(txs) : /\ Instalments(p) = (f + 1)..(f + plans[p].parts)
                                   /\ \A i \in Instalments(p) : txs[i].number = i - f
      BY LedgerFacts DEF RowsFollow, PartsFollow
    <2>2. \A i \in Instalments(p) : txs'[i].number = txs[i].number
      BY DEF Instalments
    <2> QED
      BY <1>1, <1>2, <2>1, <2>2 DEF PartsFollow
  <1>5. RowsFollow'
    BY <1>1, <1>3, <1>4 DEF RowsFollow
  <1> QED
    BY <1>1, <1>5

\* A request that ends: the others know what they knew.
LEMMA RequestEnds ==
  ASSUME LedgerInvariant, NEW c \in Clients, request' = [request EXCEPT ![c] = NoRequest],
         DOMAIN txs' = DOMAIN txs, DOMAIN plans' = DOMAIN plans,
         \A i \in DOMAIN txs : txs'[i].pair = txs[i].pair,
         \A d \in Clients \ {c} : \A i \in request[d].held : txs'[i] = txs[i]
  PROVE  request' \in [Clients -> Request] /\ HeldApart' /\ \A d \in Clients : KnowsRows(d)'
  <1>1. /\ request' \in [Clients -> Request] /\ request'[c] = NoRequest
        /\ \A d \in Clients \ {c} : request'[d] = request[d]
    BY LedgerFacts, NoRequestType
  <1>2. HeldApart'
    BY <1>1, LedgerFacts, NoRequestType DEF HeldApart
  <1>3. KnowsRows(c)'
    BY <1>1, NoRequestType DEF KnowsRows
  <1>4. \A d \in Clients \ {c} : KnowsRows(d)'
    BY <1>1, OthersStillKnow
  <1> QED
    BY <1>1, <1>2, <1>3, <1>4

\* The patch of a live row that nobody holds.
LEMMA UpdateStep ==
  ASSUME LedgerInvariant, NEW c \in Clients, UpdateTransaction(c)
  PROVE  LedgerInvariant' /\ \A k \in DOMAIN txs : txs[k].deleted => txs'[k] = txs[k]
  <1> DEFINE i == request[c].id
             t == request[c].row
             u == [txs[i] EXCEPT !.cat = t.cat, !.type = t.type, !.amount = t.amount, !.status = t.status]
  <1>1. /\ request[c].at = "update" /\ i \notin Locked /\ ~txs[i].deleted
        /\ request' = [request EXCEPT ![c] = NoRequest] /\ UNCHANGED plans
    BY DEF UpdateTransaction, MatchesLive
  <1>2. txs' = [txs EXCEPT ![i] = u]
    BY DEF UpdateTransaction
  <1>3. i \in DOMAIN txs /\ txs[i] \in TransactionRow /\ t \in TransactionRow
    BY <1>1, LedgerFacts DEF KnowsRows
  <1>4. /\ u \in TransactionRow /\ u.pair = txs[i].pair /\ u.plan = txs[i].plan /\ u.number = txs[i].number
        /\ u.deleted = txs[i].deleted
    BY <1>3 DEF TransactionRow, References
  <1> HIDE DEF u
  <1>5. txs' \in [1..Len(txs) -> TransactionRow] /\ txs'[i] = u /\ \A j \in DOMAIN txs \ {i} : txs'[j] = txs[j]
    BY <1>2, <1>3, <1>4, LedgerFacts
  <1>6. /\ txs' \in Seq(TransactionRow) /\ Len(txs') = Len(txs) /\ DOMAIN txs' = DOMAIN txs
        /\ RowsFollow'
    <2>1. \A j \in DOMAIN txs : /\ txs'[j].pair = txs[j].pair /\ txs'[j].plan = txs[j].plan
                                /\ txs'[j].number = txs[j].number /\ txs'[j].deleted = txs[j].deleted
      BY <1>4, <1>5
    <2>2. \A j, k \in DOMAIN txs :
            txs[j].pair # 0 /\ txs[j].pair = txs[k].pair => (txs[j].deleted = txs[k].deleted)
      BY LedgerFacts DEF RowsFollow, RowFollows, Legs
    <2> QED
      BY <1>1, <1>5, <2>1, <2>2, RowsInPlace
  <1>7. request' \in [Clients -> Request] /\ HeldApart' /\ \A d \in Clients : KnowsRows(d)'
    <2>1. \A d \in Clients \ {c} : \A j \in request[d].held : j \in DOMAIN txs /\ j # i
      <3>1. \A d \in Clients : request[d].held \subseteq DOMAIN txs
        BY LedgerFacts DEF KnowsRows, LiveRows
      <3> QED
        BY <1>1, <3>1, HeldIsLocked
    <2> QED
      BY <1>1, <1>4, <1>5, <1>6, <2>1, RequestEnds
  <1>8. LedgerInvariant'
    BY <1>1, <1>6, <1>7, LedgerFacts DEF LedgerInvariant, LedgerTypeOK
  <1> QED
    BY <1>1, <1>5, <1>8

\* A row deleted.
LEMMA RowDeleted ==
  ASSUME NEW t \in TransactionRow
  PROVE  LET u == [t EXCEPT !.deleted = TRUE]
         IN  /\ u \in TransactionRow /\ u.pair = t.pair /\ u.plan = t.plan /\ u.number = t.number
             /\ u.deleted /\ u.status = t.status /\ (t.deleted => u = t)
  BY DEF TransactionRow, References

\* The deletion of a row that is no leg and that nobody holds.
LEMMA SoftDeleteTransactionStep ==
  ASSUME LedgerInvariant, NEW c \in Clients, SoftDeleteTransaction(c)
  PROVE  LedgerInvariant' /\ \A k \in DOMAIN txs : txs[k].deleted => txs'[k] = txs[k]
  <1> DEFINE i == request[c].id
             u == [txs[i] EXCEPT !.deleted = TRUE]
  <1>1. /\ request[c].at = "delete" /\ i \notin Locked /\ i \in LiveRows
        /\ request' = [request EXCEPT ![c] = NoRequest] /\ UNCHANGED plans
    BY DEF SoftDeleteTransaction
  <1>2. txs' = [txs EXCEPT ![i] = u]
    BY DEF SoftDeleteTransaction
  <1>3. i \in DOMAIN txs /\ txs[i] \in TransactionRow /\ txs[i].pair = 0 /\ ~txs[i].deleted
    BY <1>1, LedgerFacts DEF KnowsRows, LiveRows
  <1>4. /\ u \in TransactionRow /\ u.pair = txs[i].pair /\ u.plan = txs[i].plan /\ u.number = txs[i].number
    BY <1>3, RowDeleted
  <1> HIDE DEF u
  <1>5. txs' \in [1..Len(txs) -> TransactionRow] /\ txs'[i] = u /\ \A j \in DOMAIN txs \ {i} : txs'[j] = txs[j]
    BY <1>2, <1>3, <1>4, LedgerFacts
  <1>6. /\ txs' \in Seq(TransactionRow) /\ Len(txs') = Len(txs) /\ DOMAIN txs' = DOMAIN txs
        /\ RowsFollow'
    <2>1. \A j \in DOMAIN txs : /\ txs'[j].pair = txs[j].pair /\ txs'[j].plan = txs[j].plan
                                /\ txs'[j].number = txs[j].number
      BY <1>4, <1>5
    <2>2. \A j, k \in DOMAIN txs :
            txs[j].pair # 0 /\ txs[j].pair = txs[k].pair => (txs[j].deleted = txs[k].deleted)
      BY LedgerFacts DEF RowsFollow, RowFollows, Legs
    <2>3. \A j \in DOMAIN txs : txs[j].pair # 0 => txs'[j] = txs[j]
      BY <1>3, <1>5
    <2>4. \A j, k \in DOMAIN txs :
            txs[j].pair # 0 /\ txs[j].pair = txs[k].pair => (txs'[j].deleted = txs'[k].deleted)
      BY <2>2, <2>3
    <2> QED
      BY <1>1, <1>5, <2>1, <2>4, RowsInPlace
  <1>7. request' \in [Clients -> Request] /\ HeldApart' /\ \A d \in Clients : KnowsRows(d)'
    <2>1. \A d \in Clients \ {c} : \A j \in request[d].held : j \in DOMAIN txs /\ j # i
      <3>1. \A d \in Clients : request[d].held \subseteq DOMAIN txs
        BY LedgerFacts DEF KnowsRows, LiveRows
      <3> QED
        BY <1>1, <3>1, HeldIsLocked
    <2> QED
      BY <1>1, <1>4, <1>5, <1>6, <2>1, RequestEnds
  <1>8. LedgerInvariant'
    BY <1>1, <1>6, <1>7, LedgerFacts DEF LedgerInvariant, LedgerTypeOK
  <1> QED
    BY <1>3, <1>5, <1>8

\* Both legs of a transfer are deleted, and no other row.
LEMMA DeleteTransferStep ==
  ASSUME LedgerInvariant, DeleteTransfer
  PROVE  LedgerInvariant' /\ \A k \in DOMAIN txs : txs[k].deleted => txs'[k] = txs[k]
  <1>1. PICK p \in Pairs :
          txs' = [i \in DOMAIN txs |-> IF i \in Legs(p) THEN [txs[i] EXCEPT !.deleted = TRUE] ELSE txs[i]]
    BY DEF DeleteTransfer
  <1>2. UNCHANGED <<plans, request>>
    BY DEF DeleteTransfer
  <1>3. p # 0
    BY DEF Pairs
  <1>4. ASSUME NEW i \in DOMAIN txs
        PROVE  /\ txs'[i] \in TransactionRow /\ txs'[i].pair = txs[i].pair /\ txs'[i].plan = txs[i].plan
               /\ txs'[i].number = txs[i].number
               /\ txs[i].pair = p => txs'[i].deleted
               /\ txs[i].pair # p => txs'[i] = txs[i]
               /\ txs[i].deleted => txs'[i] = txs[i]
    <2>1. i \in Legs(p) <=> txs[i].pair = p
      BY DEF Legs
    <2>2. txs[i] \in TransactionRow
      BY LedgerFacts
    <2> QED
      BY <1>1, <2>1, <2>2, RowDeleted
  <1>5. txs' \in [1..Len(txs) -> TransactionRow]
    BY <1>1, <1>4, LedgerFacts
  <1>6. /\ txs' \in Seq(TransactionRow) /\ Len(txs') = Len(txs) /\ DOMAIN txs' = DOMAIN txs
        /\ RowsFollow'
    <2>1. \A j, k \in DOMAIN txs :
            txs[j].pair # 0 /\ txs[j].pair = txs[k].pair => (txs[j].deleted = txs[k].deleted)
      BY LedgerFacts DEF RowsFollow, RowFollows, Legs
    <2>2. ASSUME NEW j \in DOMAIN txs, NEW k \in DOMAIN txs, txs[j].pair # 0, txs[j].pair = txs[k].pair
          PROVE  txs'[j].deleted = txs'[k].deleted
      <3>1. CASE txs[j].pair = p
        <4>1. txs'[j] \in TransactionRow /\ txs'[k] \in TransactionRow /\ txs'[j].deleted /\ txs'[k].deleted
          BY <1>4, <2>2, <3>1
        <4> QED
          BY <4>1, TransactionFields
      <3>2. CASE txs[j].pair # p
        BY <1>4, <2>1, <2>2, <3>2
      <3> QED
        BY <3>1, <3>2
    <2> QED
      BY <1>2, <1>4, <1>5, <2>2, RowsInPlace
  <1>7. \A d \in Clients : KnowsRows(d)'
    <2>1. ASSUME NEW d \in Clients, NEW i \in request[d].held PROVE txs'[i] = txs[i]
      <3>1. request[d].plan \in DOMAIN plans /\ i \in Instalments(request[d].plan)
        BY LedgerFacts DEF KnowsRows
      <3>2. i \in DOMAIN txs /\ txs[i].pair = 0
        BY <3>1, InstalmentsHaveNoPair
      <3> QED
        BY <1>3, <1>4, <3>2
    <2> QED
      BY <1>2, <1>4, <1>6, <2>1, OthersStillKnow
  <1>8. HeldApart'
    BY <1>2, LedgerFacts DEF HeldApart
  <1>9. LedgerInvariant'
    BY <1>2, <1>6, <1>7, <1>8, LedgerFacts DEF LedgerInvariant, LedgerTypeOK
  <1> QED
    BY <1>4, <1>9

\* A cancellation ends: what it held is deleted and what is left is counted.
LEMMA RecountStep ==
  ASSUME LedgerInvariant, NEW c \in Clients, RecountRemaining(c)
  PROVE  /\ LedgerInvariant'
         /\ DOMAIN txs' = DOMAIN txs /\ DOMAIN plans' = DOMAIN plans
         /\ \A q : Instalments(q)' = Instalments(q)
         /\ \A k \in DOMAIN txs :
              /\ txs[k].deleted => txs'[k] = txs[k]
              /\ ~txs[k].deleted /\ txs'[k].deleted => txs[k].status = "scheduled"
         /\ request[c].plan \in DOMAIN plans
         /\ plans'[request[c].plan].remaining =
              Cardinality({i \in Instalments(request[c].plan) : ~txs'[i].deleted /\ txs'[i].status # "paid"})
  <1> DEFINE p == request[c].plan
             held == request[c].held
             left == {i \in (Instalments(p) \cap LiveRows) \ held : txs[i].status # "paid"}
             plan == [plans[p] EXCEPT !.remaining = LeftOver(p, held)]
  <1>1. /\ request[c].at = "recount" /\ request' = [request EXCEPT ![c] = NoRequest]
        /\ txs' = [i \in DOMAIN txs |-> IF i \in held THEN [txs[i] EXCEPT !.deleted = TRUE] ELSE txs[i]]
    BY DEF RecountRemaining
  <1>2. plans' = [plans EXCEPT ![p] = plan]
    BY DEF RecountRemaining
  <1>3. /\ p \in DOMAIN plans /\ held \subseteq Instalments(p) \cap LiveRows
        /\ \A i \in held : txs[i].status = "scheduled"
    BY <1>1, LedgerFacts DEF KnowsRows
  <1>4. ASSUME NEW i \in DOMAIN txs
        PROVE  /\ txs'[i] \in TransactionRow /\ txs'[i].pair = txs[i].pair /\ txs'[i].plan = txs[i].plan
               /\ txs'[i].number = txs[i].number /\ txs'[i].status = txs[i].status
               /\ i \in held => txs'[i].deleted
               /\ i \notin held => txs'[i] = txs[i]
               /\ txs[i].deleted => txs'[i] = txs[i]
    <2>1. txs[i] \in TransactionRow
      BY LedgerFacts
    <2> QED
      BY <1>1, <2>1, RowDeleted
  <1>5. txs' \in [1..Len(txs) -> TransactionRow]
    BY <1>1, <1>4, LedgerFacts
  <1>6. plans[p] \in Purchase /\ p \in 1..Len(plans) /\ plans[p].parts \in Nat
    <2>1. Parts \subseteq Nat
      BY LedgerAssumption DEF LedgerAssumption
    <2>2. plans[p] \in Purchase /\ p \in 1..Len(plans)
      BY <1>3, LedgerFacts
    <2> QED
      BY <2>1, <2>2 DEF Purchase
  <1>7. left \in SUBSET Instalments(p) /\ LeftOver(p, held) = Cardinality(left)
    BY DEF LeftOver
  <1>8. Cardinality(left) \in Nat /\ Cardinality(left) <= plans[p].parts
    <2>1. PICK f \in 0..Len(txs) : Instalments(p) = (f + 1)..(f + plans[p].parts)
      BY <1>3, LedgerFacts DEF RowsFollow, PartsFollow
    <2>2. f \in Nat
      BY LedgerFacts
    <2>3. /\ IsFiniteSet((f + 1)..(f + plans[p].parts))
          /\ Cardinality((f + 1)..(f + plans[p].parts)) = plans[p].parts
      BY <1>6, <2>2, RunOfNumbers
    <2> HIDE DEF left
    <2> QED
      BY <1>7, <2>1, <2>3, FS_Subset, FS_CardinalityType
  <1> HIDE DEF left
  <1>9. /\ plan \in Purchase /\ plan.parts = plans[p].parts /\ plan.remaining = Cardinality(left)
    BY <1>6, <1>7, <1>8 DEF Purchase
  <1> HIDE DEF plan
  <1>10. /\ plans' \in Seq(Purchase) /\ Len(plans') = Len(plans) /\ DOMAIN plans' = DOMAIN plans
         /\ plans'[p] = plan /\ \A q \in DOMAIN plans \ {p} : plans'[q] = plans[q]
    <2>1. /\ [plans EXCEPT ![p] = plan] \in Seq(Purchase) /\ Len([plans EXCEPT ![p] = plan]) = Len(plans)
          /\ \A q \in 1..Len(plans) : [plans EXCEPT ![p] = plan][q] = IF q = p THEN plan ELSE plans[q]
      BY <1>6, <1>9, LedgerFacts, ExceptSeq
    <2> QED
      BY <1>2, <1>6, <2>1, LedgerFacts
  <1>11. /\ txs' \in Seq(TransactionRow) /\ Len(txs') = Len(txs) /\ DOMAIN txs' = DOMAIN txs
         /\ RowsFollow'
    <2>1. \A j, k \in DOMAIN txs :
            txs[j].pair # 0 /\ txs[j].pair = txs[k].pair => (txs[j].deleted = txs[k].deleted)
      BY LedgerFacts DEF RowsFollow, RowFollows, Legs
    <2>2. \A j \in DOMAIN txs : txs[j].pair # 0 => txs'[j] = txs[j]
      BY <1>3, <1>4, InstalmentsHaveNoPair
    <2>3. \A j, k \in DOMAIN txs :
            txs[j].pair # 0 /\ txs[j].pair = txs[k].pair => (txs'[j].deleted = txs'[k].deleted)
      BY <2>1, <2>2
    <2>4. \A q \in DOMAIN plans : plans'[q].parts = plans[q].parts
      BY <1>9, <1>10
    <2> QED
      BY <1>4, <1>5, <1>10, <2>3, <2>4, RowsInPlace
  <1>12. request' \in [Clients -> Request] /\ HeldApart' /\ \A d \in Clients : KnowsRows(d)'
    <2>1. ASSUME NEW d \in Clients \ {c}, NEW i \in request[d].held PROVE txs'[i] = txs[i]
      <3>1. i \in DOMAIN txs
        BY LedgerFacts DEF KnowsRows, LiveRows
      <3>2. i \notin held
        BY LedgerFacts DEF HeldApart
      <3> QED
        BY <1>4, <3>1, <3>2
    <2> QED
      BY <1>1, <1>4, <1>10, <1>11, <2>1, RequestEnds
  <1>13. LedgerInvariant'
    <2>1. \A q \in DOMAIN plans' : plans'[q].remaining <= plans'[q].parts
      BY <1>8, <1>9, <1>10, LedgerFacts
    <2> QED
      BY <1>10, <1>11, <1>12, <2>1, LedgerFacts DEF LedgerInvariant, LedgerTypeOK
  <1>14. left = {i \in Instalments(p) : ~txs'[i].deleted /\ txs'[i].status # "paid"}
    <2>1. \A i \in Instalments(p) : i \in DOMAIN txs /\ (i \in LiveRows <=> ~txs[i].deleted)
      BY DEF Instalments, LiveRows
    <2>2. \A i \in held : i \in DOMAIN txs /\ txs'[i].deleted
      BY <1>3, <1>4 DEF LiveRows
    <2> QED
      BY <1>4, <2>1, <2>2 DEF left
  <1>15. \A k \in DOMAIN txs : ~txs[k].deleted /\ txs'[k].deleted => txs[k].status = "scheduled"
    BY <1>3, <1>4
  <1>16. \A q : Instalments(q)' = Instalments(q)
    BY <1>4, <1>11 DEF Instalments
  <1> QED
    BY <1>3, <1>4, <1>9, <1>10, <1>11, <1>13, <1>14, <1>15, <1>16

--------------------------------------------------------------------------------
(* Rows added.                                                             *)

\* A new transaction is a row when its amount is positive.
LEMMA TransactionType ==
  ASSUME NEW cat, cat \in Categories, NEW amount, amount \in Nat \ {0}, NEW status, status \in Status,
         NEW pair, pair \in Nat, NEW plan, plan \in Nat, NEW number, number \in Nat
  PROVE  Transaction(cat, amount, status, pair, plan, number) \in TransactionRow
  <1>1. TypeOf[cat] \in {"income", "expense"}
    BY LedgerAssumption DEF LedgerAssumption
  <1> QED
    BY <1>1 DEF Transaction, TransactionRow, References

\* What was there stays as it was when rows are added behind it that are of no
\* older transfer or purchase.
LEMMA RowsAdded ==
  ASSUME LedgerInvariant, NEW n \in Nat, NEW new \in [1..n -> TransactionRow],
         txs' = txs \o new, UNCHANGED request,
         Len(plans') \in Nat, Len(plans) <= Len(plans'), DOMAIN plans' = 1..Len(plans'),
         \A p \in DOMAIN plans : plans'[p] = plans[p],
         \A k \in 1..n : /\ new[k].pair = 0 \/ new[k].pair > Len(txs)
                         /\ new[k].plan = 0 \/ new[k].plan > Len(plans)
  PROVE  /\ txs' \in Seq(TransactionRow) /\ Len(txs') = Len(txs) + n /\ DOMAIN txs' = 1..(Len(txs) + n)
         /\ \A i \in DOMAIN txs : i \in DOMAIN txs' /\ txs'[i] = txs[i]
         /\ \A k \in 1..n : txs'[Len(txs) + k] = new[k]
         /\ \A d \in Clients : KnowsRows(d)'
         /\ HeldApart'
         /\ \A i \in DOMAIN txs : RowFollows(i)'
         /\ \A p \in DOMAIN plans : PartsFollow(p)'
  <1>1. new \in Seq(TransactionRow) /\ Len(new) = n
    BY NumberedIsSeq
  <1>2. /\ txs' \in Seq(TransactionRow) /\ Len(txs') = Len(txs) + n
        /\ \A i \in 1..(Len(txs) + n) : txs'[i] = IF i <= Len(txs) THEN txs[i] ELSE new[i - Len(txs)]
    BY <1>1, LedgerFacts, ConcatProperties
  <1>3. DOMAIN txs' = 1..(Len(txs) + n)
    BY <1>2, LenProperties
  <1>4. \A i \in DOMAIN txs : i \in DOMAIN txs' /\ txs'[i] = txs[i]
    BY <1>2, <1>3, LedgerFacts
  <1>5. \A k \in 1..n : txs'[Len(txs) + k] = new[k]
    BY <1>2, LedgerFacts
  <1>6. DOMAIN txs \subseteq DOMAIN txs' /\ DOMAIN plans \subseteq DOMAIN plans'
    BY <1>4, LedgerFacts
  <1>7. \A d \in Clients : KnowsRows(d)'
    <2>1. \A d \in Clients : request[d].held \subseteq DOMAIN txs
      BY LedgerFacts DEF KnowsRows, LiveRows
    <2> QED
      BY <1>4, <1>6, <2>1, OthersStillKnow
  <1>8. HeldApart'
    BY LedgerFacts DEF HeldApart
  <1>9. \A i \in DOMAIN txs' : i \notin DOMAIN txs =>
          /\ txs'[i].pair = 0 \/ txs'[i].pair > Len(txs)
          /\ txs'[i].plan = 0 \/ txs'[i].plan > Len(plans)
    <2>1. \A i \in DOMAIN txs' : i \notin DOMAIN txs => i - Len(txs) \in 1..n /\ txs'[i] = new[i - Len(txs)]
      BY <1>2, <1>3, LedgerFacts
    <2> QED
      BY <2>1
  <1>10. ASSUME NEW i \in DOMAIN txs PROVE RowFollows(i)'
    <2>1. /\ txs[i].plan \in 0..Len(plans)
          /\ txs[i].pair # 0 => /\ txs[i].plan = 0 /\ i \in {txs[i].pair, txs[i].pair + 1}
                                /\ {txs[i].pair, txs[i].pair + 1} \subseteq Legs(txs[i].pair)
                               /\ \A j \in Legs(txs[i].pair) : txs[j].deleted = txs[i].deleted
      BY LedgerFacts DEF RowsFollow, RowFollows
    <2>2. txs[i].plan \in 0..Len(plans')
      BY <2>1, LedgerFacts
    <2>3. CASE txs[i].pair = 0
      BY <1>4, <2>2, <2>3 DEF RowFollows
    <2>4. CASE txs[i].pair # 0
      <3>1. txs[i].pair \in Nat /\ txs[i].pair <= Len(txs)
        <4>1. txs[i] \in TransactionRow /\ txs[i].pair \in Nat /\ i <= Len(txs) /\ i \in Nat
          BY LedgerFacts, TransactionFields
        <4> QED
          BY <2>1, <2>4, <4>1, LedgerFacts
      <3>2. ~(txs[i].pair > Len(txs))
        BY <3>1, LedgerFacts
      <3>3. Legs(txs[i].pair)' = Legs(txs[i].pair)
        BY <1>4, <1>9, <2>4, <3>2 DEF Legs
      <3>4. \A j \in Legs(txs[i].pair) : txs'[j] = txs[j]
        BY <1>4 DEF Legs
      <3> QED
        BY <1>4, <2>1, <2>2, <2>4, <3>3, <3>4 DEF RowFollows
    <2> QED
      BY <2>3, <2>4
  <1>11. ASSUME NEW p \in DOMAIN plans PROVE PartsFollow(p)'
    <2>1. PICK f \in 0..Len(txs) : /\ Instalments(p) = (f + 1)..(f + plans[p].parts)
                                   /\ \A i \in Instalments(p) : txs[i].number = i - f
      BY LedgerFacts DEF RowsFollow, PartsFollow
    <2>2. p # 0 /\ ~(p > Len(plans))
      BY LedgerFacts
    <2>3. Instalments(p)' = Instalments(p)
      BY <1>4, <1>9, <2>2 DEF Instalments
    <2>4. \A i \in Instalments(p) : txs'[i] = txs[i]
      BY <1>4 DEF Instalments
    <2>5. f \in 0..Len(txs')
      BY <1>2, LedgerFacts
    <2> QED
      BY <2>1, <2>3, <2>4, <2>5 DEF PartsFollow
  <1> QED
    BY <1>2, <1>3, <1>4, <1>5, <1>7, <1>8, <1>10, <1>11

LEMMA CreateTransactionStep ==
  ASSUME LedgerInvariant, CreateTransaction
  PROVE  LedgerInvariant' /\ \A k \in DOMAIN txs : txs'[k] = txs[k]
  <1>1. PICK cat \in Categories, a \in Prices, s \in {"paid", "pending"} :
          InsertRows(<<Transaction(cat, a, s, 0, 0, 0)>>)
    BY DEF CreateTransaction
  <1> DEFINE t == Transaction(cat, a, s, 0, 0, 0)
             new == <<t>>
  <1>2. /\ Len(txs) + Len(new) <= MaxRows /\ txs' = txs \o new
        /\ UNCHANGED <<plans, request>>
    BY <1>1 DEF InsertRows, Committed, CreateTransaction
  <1>3. t \in TransactionRow /\ t.pair = 0 /\ t.plan = 0
    <2>1. a \in Nat \ {0} /\ s \in Status /\ 0 \in Nat
      BY LedgerAssumption DEF LedgerAssumption, Status
    <2>2. t \in TransactionRow
      BY <2>1, TransactionType
    <2> QED
      BY <2>2 DEF Transaction
  <1> HIDE DEF t
  <1>4. new \in [1..1 -> TransactionRow] /\ new[1] = t /\ Len(new) = 1
    BY <1>3
  <1> HIDE DEF new
  <1>5. /\ txs' \in Seq(TransactionRow) /\ Len(txs') = Len(txs) + 1 /\ DOMAIN txs' = 1..(Len(txs) + 1)
        /\ \A i \in DOMAIN txs : i \in DOMAIN txs' /\ txs'[i] = txs[i]
        /\ txs'[Len(txs) + 1] = t
        /\ \A d \in Clients : KnowsRows(d)'
        /\ HeldApart'
        /\ \A i \in DOMAIN txs : RowFollows(i)'
        /\ \A p \in DOMAIN plans : PartsFollow(p)'
    <2>1. \A k \in 1..1 : /\ new[k].pair = 0 \/ new[k].pair > Len(txs)
                          /\ new[k].plan = 0 \/ new[k].plan > Len(plans)
      BY <1>3, <1>4
    <2>2. /\ Len(plans') \in Nat /\ Len(plans) <= Len(plans') /\ DOMAIN plans' = 1..Len(plans')
          /\ UNCHANGED request /\ \A p \in DOMAIN plans : plans'[p] = plans[p]
      BY <1>2, LedgerFacts
    <2>3. /\ txs' \in Seq(TransactionRow) /\ Len(txs') = Len(txs) + 1 /\ DOMAIN txs' = 1..(Len(txs) + 1)
          /\ \A i \in DOMAIN txs : i \in DOMAIN txs' /\ txs'[i] = txs[i]
          /\ \A k \in 1..1 : txs'[Len(txs) + k] = new[k]
          /\ \A d \in Clients : KnowsRows(d)'
          /\ HeldApart'
          /\ \A i \in DOMAIN txs : RowFollows(i)'
          /\ \A p \in DOMAIN plans : PartsFollow(p)'
      BY <1>2, <1>4, <2>1, <2>2, RowsAdded
    <2> QED
      BY <1>4, <2>3
  <1>6. RowsFollow'
    <2>1. \A i \in DOMAIN txs' : i \in DOMAIN txs \/ i = Len(txs) + 1
      BY <1>5, LedgerFacts
    <2>2. txs'[Len(txs) + 1].pair = 0 /\ txs'[Len(txs) + 1].plan \in 0..Len(plans')
      BY <1>2, <1>3, <1>5, LedgerFacts
    <2> QED
      BY <1>2, <1>5, <2>1, <2>2 DEF RowsFollow, RowFollows
  <1> QED
    BY <1>2, <1>4, <1>5, <1>6, LedgerFacts DEF LedgerInvariant, LedgerTypeOK

\* A transfer is named by its first row, which no older row is of.
LEMMA OlderPairs ==
  ASSUME LedgerInvariant, NEW i \in DOMAIN txs
  PROVE  txs[i].pair \in Nat /\ txs[i].pair <= Len(txs)
  <1>1. txs[i].pair \in Nat /\ i \in Nat /\ i <= Len(txs) /\ Len(txs) \in Nat
    BY LedgerFacts, TransactionFields
  <1>2. txs[i].pair # 0 => i \in {txs[i].pair, txs[i].pair + 1}
    BY LedgerFacts DEF RowsFollow, RowFollows
  <1> QED
    BY <1>1, <1>2

LEMMA CreateTransferStep ==
  ASSUME LedgerInvariant, CreateTransfer
  PROVE  LedgerInvariant' /\ \A k \in DOMAIN txs : txs'[k] = txs[k]
  <1>0. PICK pair \in Nat : pair = Len(txs) + 1
    BY LedgerFacts
  <1>1. PICK from \in Categories, to \in Categories, a \in Prices :
          InsertRows(<<Transaction(from, a, "paid", pair, 0, 0), Transaction(to, a, "paid", pair, 0, 0)>>)
    BY <1>0 DEF CreateTransfer
  <1> DEFINE t == Transaction(from, a, "paid", pair, 0, 0)
             u == Transaction(to, a, "paid", pair, 0, 0)
             new == <<t, u>>
  <1>2. /\ Len(txs) + Len(new) <= MaxRows /\ txs' = txs \o new
        /\ UNCHANGED <<plans, request>>
    BY <1>1 DEF InsertRows, Committed, CreateTransfer
  <1>3. /\ t \in TransactionRow /\ t.pair = pair /\ t.plan = 0 /\ t.deleted = FALSE
        /\ u \in TransactionRow /\ u.pair = pair /\ u.plan = 0 /\ u.deleted = FALSE
    <2>1. a \in Nat \ {0} /\ "paid" \in Status /\ 0 \in Nat /\ pair \in Nat
      BY LedgerFacts, LedgerAssumption DEF LedgerAssumption, Status
    <2>2. t \in TransactionRow /\ u \in TransactionRow
      BY <2>1, TransactionType
    <2> QED
      BY <2>2 DEF Transaction
  <1> HIDE DEF t, u
  <1>4. new \in [1..2 -> TransactionRow] /\ new[1] = t /\ new[2] = u /\ Len(new) = 2
    BY <1>3
  <1> HIDE DEF new
  <1>5. /\ txs' \in Seq(TransactionRow) /\ Len(txs') = Len(txs) + 2 /\ DOMAIN txs' = 1..(Len(txs) + 2)
        /\ \A i \in DOMAIN txs : i \in DOMAIN txs' /\ txs'[i] = txs[i]
        /\ \A k \in 1..2 : txs'[Len(txs) + k] = new[k]
        /\ \A d \in Clients : KnowsRows(d)'
        /\ HeldApart'
        /\ \A i \in DOMAIN txs : RowFollows(i)'
        /\ \A p \in DOMAIN plans : PartsFollow(p)'
    <2>1. \A k \in 1..2 : /\ new[k].pair = 0 \/ new[k].pair > Len(txs)
                          /\ new[k].plan = 0 \/ new[k].plan > Len(plans)
      <3>1. pair > Len(txs)
        BY <1>0, LedgerFacts
      <3>2. \A k \in 1..2 : new[k].pair = pair /\ new[k].plan = 0
        BY <1>3, <1>4
      <3> QED
        BY <3>1, <3>2
    <2>2. /\ Len(plans') \in Nat /\ Len(plans) <= Len(plans') /\ DOMAIN plans' = 1..Len(plans')
          /\ UNCHANGED request /\ \A p \in DOMAIN plans : plans'[p] = plans[p]
      BY <1>2, LedgerFacts
    <2> QED
      BY <1>2, <1>4, <2>1, <2>2, RowsAdded
  <1>6. RowsFollow'
    <2>1. \A i \in DOMAIN txs' : i \in DOMAIN txs \/ i = pair \/ i = pair + 1
      BY <1>0, <1>5, LedgerFacts
    <2>2. /\ pair \in DOMAIN txs' /\ pair + 1 \in DOMAIN txs' /\ pair \in Nat /\ pair # 0
          /\ txs'[pair] = t /\ txs'[pair + 1] = u
      <3>1. 1 \in 1..2 /\ 2 \in 1..2 /\ Len(txs) \in Nat
        BY LedgerFacts
      <3>2. pair + 1 = Len(txs) + 2
        BY <1>0, <3>1
      <3> QED
        BY <1>0, <1>4, <1>5, <3>1, <3>2
    <2>3. \A i \in DOMAIN txs : txs'[i].pair # pair
      BY <1>0, <1>5, OlderPairs, LedgerFacts
    <2>4. \A j \in DOMAIN txs' : txs'[j].pair = pair <=> j \in {pair, pair + 1}
      BY <1>3, <2>1, <2>2, <2>3
    <2>4a. Legs(pair)' = {pair, pair + 1}
      BY <2>2, <2>4 DEF Legs
    <2>4b. \A j \in {pair, pair + 1} : txs'[j].deleted = FALSE
      BY <1>3, <2>2
    <2>5. ASSUME NEW i \in {pair, pair + 1} PROVE RowFollows(i)'
      <3>1. /\ i \in DOMAIN txs' /\ txs'[i].pair = pair /\ txs'[i].plan = 0 /\ txs'[i].deleted = FALSE
        BY <1>3, <2>2
      <3>2. Len(plans') \in Nat
        BY <1>2, LedgerFacts
      <3>3. Legs(txs[i].pair)' = {pair, pair + 1}
        <4>1. Legs(txs[i].pair)' = Legs(pair)'
          BY <3>1 DEF Legs
        <4> QED
          BY <2>4a, <4>1
      <3>4. \A j \in Legs(txs[i].pair)' : txs'[j].deleted = txs'[i].deleted
        BY <2>4b, <3>1, <3>3
      <3>5. i \in {txs'[i].pair, txs'[i].pair + 1}
            /\ {txs'[i].pair, txs'[i].pair + 1} \subseteq Legs(txs[i].pair)'
        BY <3>1, <3>3
      <3>6. txs'[i].plan \in 0..Len(plans')
        BY <3>1, <3>2
      <3> QED
        BY <3>1, <3>4, <3>5, <3>6 DEF RowFollows
    <2> QED
      BY <1>2, <1>5, <2>1, <2>5 DEF RowsFollow
  <1> QED
    BY <1>2, <1>4, <1>5, <1>6, LedgerFacts DEF LedgerInvariant, LedgerTypeOK

\* The instalments of a new purchase: its number of rows, one behind the other, and
\* the amounts its total is split into.
LEMMA CreatePurchaseStep ==
  ASSUME LedgerInvariant, CreatePurchasePlan
  PROVE  /\ LedgerInvariant'
         /\ \A k \in DOMAIN txs : txs'[k] = txs[k]
         /\ \E p, f, total \in Nat, n \in Nat \ {0} :
              /\ DOMAIN plans' \ DOMAIN plans = {p}
              /\ plans'[p].total = total
              /\ Instalments(p)' = (f + 1)..(f + n)
              /\ \A k \in 1..n : txs'[f + k].amount = Split(total, n)[k]
  <1>0. PICK p \in Nat : p = Len(plans) + 1
    BY LedgerFacts
  <1>1. PICK cat \in Categories, total \in Totals, n \in Parts :
          /\ InsertRows([k \in 1..n |-> Transaction(cat, Split(total, n)[k], "scheduled", 0, p, k)])
          /\ plans' = Append(plans, [total |-> total, parts |-> n, remaining |-> n])
    BY <1>0 DEF CreatePurchasePlan
  <1> DEFINE new == [k \in 1..n |-> Transaction(cat, Split(total, n)[k], "scheduled", 0, p, k)]
             plan == [total |-> total, parts |-> n, remaining |-> n]
  <1>2. /\ Len(txs) + Len(new) <= MaxRows /\ txs' = txs \o new
        /\ UNCHANGED request /\ Len(plans) < MaxPlans
        /\ \A k \in DOMAIN new : ValidTransaction(new[k])
    BY <1>1 DEF InsertRows, Committed, CreatePurchasePlan
  <1>3. /\ n \in Nat \ {0} /\ total \in Nat \ {0} /\ p \in Nat \ {0} /\ MaxPlans \in Nat
        /\ Len(txs) \in Nat /\ Len(plans) \in Nat
    <2>1. Parts \subseteq Nat \ {0} /\ Totals \subseteq Nat \ {0} /\ MaxPlans \in Nat
      BY LedgerAssumption DEF LedgerAssumption
    <2> QED
      BY <1>0, <2>1, LedgerFacts
  <1>4. plan \in Purchase /\ plan.total = total /\ plan.parts = n /\ plan.remaining = n
    BY <1>3 DEF Purchase
  <1>5. /\ plans' \in Seq(Purchase) /\ Len(plans') = p /\ DOMAIN plans' = 1..p
        /\ plans'[p] = plan /\ \A q \in DOMAIN plans : plans'[q] = plans[q]
    <2> HIDE DEF plan
    <2> QED
      BY <1>0, <1>1, <1>4, LedgerFacts DEF plan
  <1>6. ASSUME NEW k \in 1..n
        PROVE  /\ new[k] \in TransactionRow /\ new[k].amount = Split(total, n)[k] /\ new[k].pair = 0
               /\ new[k].plan = p /\ new[k].number = k
    <2>1. new[k] = Transaction(cat, Split(total, n)[k], "scheduled", 0, p, k)
      OBVIOUS
    <2>2. new[k].amount = Split(total, n)[k] /\ new[k].amount > 0
      <3>1. ValidTransaction(new[k])
        BY <1>2
      <3> QED
        BY <2>1, <3>1 DEF Transaction, ValidTransaction
    <2>3. Split(total, n)[k] \in Nat
      <3>1. total \div n \in Nat /\ total % n \in Nat
        BY <1>3
      <3> QED
        BY <3>1 DEF Split
    <2>4. Split(total, n)[k] \in Nat \ {0} /\ "scheduled" \in Status /\ 0 \in Nat /\ k \in Nat
      BY <2>2, <2>3 DEF Status
    <2>5. new[k] \in TransactionRow
      BY <1>3, <2>1, <2>4, TransactionType
    <2> QED
      BY <2>1, <2>5 DEF Transaction
  <1> HIDE DEF plan
  <1>7. new \in [1..n -> TransactionRow] /\ Len(new) = n
    <2>1. new \in [1..n -> TransactionRow]
      BY <1>6
    <2> QED
      BY <1>3, <2>1, NumberedIsSeq
  <1> HIDE DEF new
  <1>8. /\ txs' \in Seq(TransactionRow) /\ Len(txs') = Len(txs) + n /\ DOMAIN txs' = 1..(Len(txs) + n)
        /\ \A i \in DOMAIN txs : i \in DOMAIN txs' /\ txs'[i] = txs[i]
        /\ \A k \in 1..n : txs'[Len(txs) + k] = new[k]
        /\ \A d \in Clients : KnowsRows(d)'
        /\ HeldApart'
        /\ \A i \in DOMAIN txs : RowFollows(i)'
        /\ \A q \in DOMAIN plans : PartsFollow(q)'
    <2>1. \A k \in 1..n : /\ new[k].pair = 0 \/ new[k].pair > Len(txs)
                          /\ new[k].plan = 0 \/ new[k].plan > Len(plans)
      BY <1>0, <1>3, <1>6
    <2>2. /\ Len(plans') \in Nat /\ Len(plans) <= Len(plans') /\ DOMAIN plans' = 1..Len(plans')
          /\ UNCHANGED request /\ \A q \in DOMAIN plans : plans'[q] = plans[q]
      BY <1>0, <1>2, <1>3, <1>5
    <2> QED
      BY <1>2, <1>3, <1>7, <2>1, <2>2, RowsAdded
  <1>9. \A i \in DOMAIN txs' : i \notin DOMAIN txs =>
          i - Len(txs) \in 1..n /\ txs'[i] = new[i - Len(txs)]
    <2>1. \A i \in DOMAIN txs' : i \notin DOMAIN txs => i - Len(txs) \in 1..n /\ i = Len(txs) + (i - Len(txs))
      BY <1>3, <1>8, LedgerFacts
    <2> QED
      BY <1>8, <2>1
  <1>10. /\ Instalments(p)' = (Len(txs) + 1)..(Len(txs) + n)
         /\ \A i \in Instalments(p)' : txs'[i].number = i - Len(txs)
    <2>1. \A i \in DOMAIN txs : txs'[i].plan # p
      BY <1>0, <1>3, <1>8, LedgerFacts DEF RowsFollow, RowFollows
    <2>2. \A i \in DOMAIN txs' : i \notin DOMAIN txs => txs'[i].plan = p /\ txs'[i].number = i - Len(txs)
      BY <1>6, <1>9
    <2>3. \A i : i \in DOMAIN txs' /\ i \notin DOMAIN txs <=> i \in (Len(txs) + 1)..(Len(txs) + n)
      BY <1>3, <1>8, LedgerFacts
    <2> QED
      BY <2>1, <2>2, <2>3 DEF Instalments
  <1>11. RowsFollow'
    <2>1. ASSUME NEW i \in DOMAIN txs', i \notin DOMAIN txs PROVE RowFollows(i)'
      <3>1. txs'[i].plan = p /\ txs'[i].pair = 0 /\ p \in 0..Len(plans')
        BY <1>3, <1>5, <1>6, <1>9, <2>1
      <3> QED
        BY <3>1 DEF RowFollows
    <2>2. PartsFollow(p)'
      <3>1. Len(txs) \in 0..Len(txs') /\ plans'[p].parts = n
        BY <1>3, <1>4, <1>5, <1>8
      <3> QED
        BY <1>10, <3>1 DEF PartsFollow
    <2>3. \A q \in DOMAIN plans' : q \in DOMAIN plans \/ q = p
      BY <1>0, <1>3, <1>5, LedgerFacts
    <2> QED
      BY <1>8, <2>1, <2>2, <2>3 DEF RowsFollow
  <1>12. LedgerInvariant'
    <2>1. \A q \in DOMAIN plans' : plans'[q].remaining <= plans'[q].parts
      <3>1. \A q \in DOMAIN plans' : q \in DOMAIN plans \/ q = p
        BY <1>0, <1>3, <1>5, LedgerFacts
      <3> QED
        BY <1>3, <1>4, <1>5, <3>1, LedgerFacts
    <2>2. Len(plans') <= MaxPlans /\ Len(txs') <= MaxRows
      BY <1>0, <1>2, <1>3, <1>5, <1>7, <1>8
    <2> QED
      BY <1>2, <1>5, <1>8, <1>11, <2>1, <2>2, LedgerFacts DEF LedgerInvariant, LedgerTypeOK
  <1>13. DOMAIN plans' \ DOMAIN plans = {p}
    BY <1>0, <1>3, <1>5, LedgerFacts
  <1>14. \A k \in 1..n : txs'[Len(txs) + k].amount = Split(total, n)[k]
    BY <1>6, <1>8
  <1>15. plans'[p].total = total
    BY <1>4, <1>5
  <1>16. PICK f \in Nat : f = Len(txs)
    BY <1>3
  <1>17. /\ Instalments(p)' = (f + 1)..(f + n)
         /\ \A k \in 1..n : txs'[f + k].amount = Split(total, n)[k]
    BY <1>10, <1>14, <1>16
  <1>18. \A k \in DOMAIN txs : txs'[k] = txs[k]
    BY <1>8
  <1>19. \E q, g, m \in Nat, l \in Nat \ {0} :
           /\ DOMAIN plans' \ DOMAIN plans = {q}
           /\ plans'[q].total = m
           /\ Instalments(q)' = (g + 1)..(g + l)
           /\ \A k \in 1..l : txs'[g + k].amount = Split(m, l)[k]
    <2>1. p \in Nat /\ f \in Nat /\ total \in Nat /\ n \in Nat \ {0}
      BY <1>0, <1>3, <1>16
    <2> USE <2>1
    <2> WITNESS p \in Nat, f \in Nat, total \in Nat, n \in Nat \ {0}
    <2> QED
      BY <1>13, <1>15, <1>17
  <1> QED
    BY <1>12, <1>18, <1>19
--------------------------------------------------------------------------------
(* The invariant of the ledger.                                            *)

LEMMA LedgerStart ==
  ASSUME LedgerInit
  PROVE  LedgerInvariant
  <1>1. txs = <<>> /\ plans = <<>> /\ request = [c \in Clients |-> NoRequest]
    BY DEF LedgerInit
  <1>2. /\ txs \in Seq(TransactionRow) /\ Len(txs) = 0 /\ DOMAIN txs = {}
        /\ plans \in Seq(Purchase) /\ Len(plans) = 0 /\ DOMAIN plans = {}
    BY <1>1, EmptySeq
  <1>3. 0 <= MaxRows /\ 0 <= MaxPlans
    BY LedgerAssumption DEF LedgerAssumption
  <1>4. LedgerTypeOK
    BY <1>1, <1>2, <1>3, NoRequestType DEF LedgerTypeOK
  <1>5. RowsFollow /\ HeldApart /\ \A c \in Clients : KnowsRows(c)
    BY <1>1, <1>2, NoRequestType DEF RowsFollow, HeldApart, KnowsRows
  <1> QED
    BY <1>4, <1>5 DEF LedgerInvariant

\* Every step keeps the invariant, and every row that was deleted before it.
LEMMA LedgerStep ==
  ASSUME LedgerInvariant, [LedgerNext]_ledgerVars
  PROVE  LedgerInvariant' /\ \A k \in DOMAIN txs : txs[k].deleted => txs'[k] = txs[k]
  <1>1. CASE CreateTransaction
    BY <1>1, CreateTransactionStep
  <1>2. CASE CreateTransfer
    BY <1>2, CreateTransferStep
  <1>3. CASE DeleteTransfer
    BY <1>3, DeleteTransferStep
  <1>4. CASE CreatePurchasePlan
    BY <1>4, CreatePurchaseStep
  <1>5. ASSUME NEW c \in Clients, BeginUpdate(c)
        PROVE  LedgerInvariant' /\ \A k \in DOMAIN txs : txs[k].deleted => txs'[k] = txs[k]
    <2>1. UNCHANGED txs
      BY <1>5 DEF BeginUpdate, Begin
    <2> QED
      BY <1>5, <2>1, BeginUpdateStep
  <1>6. ASSUME NEW c \in Clients, BeginDelete(c)
        PROVE  LedgerInvariant' /\ \A k \in DOMAIN txs : txs[k].deleted => txs'[k] = txs[k]
    <2>1. UNCHANGED txs
      BY <1>6 DEF BeginDelete, Begin
    <2> QED
      BY <1>6, <2>1, BeginDeleteStep
  <1>7. ASSUME NEW c \in Clients, CancelInstalments(c)
        PROVE  LedgerInvariant' /\ \A k \in DOMAIN txs : txs[k].deleted => txs'[k] = txs[k]
    <2>1. UNCHANGED txs
      BY <1>7 DEF CancelInstalments, Begin
    <2> QED
      BY <1>7, <2>1, CancelStep
  <1>8. ASSUME NEW c \in Clients, RequestFails(c)
        PROVE  LedgerInvariant' /\ \A k \in DOMAIN txs : txs[k].deleted => txs'[k] = txs[k]
    <2>1. UNCHANGED txs
      BY <1>8 DEF RequestFails
    <2> QED
      BY <1>8, <2>1, RequestFailsStep
  <1>9. ASSUME NEW c \in Clients, UpdateTransaction(c)
        PROVE  LedgerInvariant' /\ \A k \in DOMAIN txs : txs[k].deleted => txs'[k] = txs[k]
    BY <1>9, UpdateStep
  <1>10. ASSUME NEW c \in Clients, SoftDeleteTransaction(c)
         PROVE  LedgerInvariant' /\ \A k \in DOMAIN txs : txs[k].deleted => txs'[k] = txs[k]
    BY <1>10, SoftDeleteTransactionStep
  <1>11. ASSUME NEW c \in Clients, RecountRemaining(c)
         PROVE  LedgerInvariant' /\ \A k \in DOMAIN txs : txs[k].deleted => txs'[k] = txs[k]
    BY <1>11, RecountStep
  <1>12. CASE UNCHANGED ledgerVars
    <2>1. UNCHANGED <<txs, plans, request>>
      BY <1>12 DEF ledgerVars
    <2>2. LedgerTypeOK' /\ HeldApart' /\ RowsFollow'
      BY <2>1 DEF LedgerInvariant, LedgerTypeOK, HeldApart, RowsFollow, RowFollows, PartsFollow, Legs, Instalments
    <2>3. \A c \in Clients : KnowsRows(c)'
      BY <2>1, OthersStillKnow
    <2> QED
      BY <2>1, <2>2, <2>3 DEF LedgerInvariant
  <1> QED
    BY <1>1, <1>2, <1>3, <1>4, <1>5, <1>6, <1>7, <1>8, <1>9, <1>10, <1>11, <1>12 DEF LedgerNext

\* The two legs of a transfer lie one behind the other, the instalments of a purchase
\* in a row, and every call under way still knows the rows it means
\* (finance/app/transactions.go, transfers.go, purchaseplans.go).
THEOREM LedgerInductive == LedgerSpec => []LedgerInvariant
  <1>1. LedgerInit => LedgerInvariant
    BY LedgerStart
  <1>2. LedgerInvariant /\ [LedgerNext]_ledgerVars => LedgerInvariant'
    BY LedgerStep
  <1> QED
    BY <1>1, <1>2, PTL DEF LedgerSpec

--------------------------------------------------------------------------------
(* What the invariant says of transfers, purchases and totals.             *)

LEMMA LegsOfPairs ==
  ASSUME LedgerInvariant
  PROVE  LegsTogether
  <1>1. SUFFICES ASSUME NEW p \in Pairs
                 PROVE  Cardinality(Legs(p)) = 2 /\ Cardinality(Legs(p) \cap LiveRows) \in {0, 2}
    BY DEF LegsTogether
  <1>2. PICK i \in DOMAIN txs : p = txs[i].pair
    BY DEF Pairs
  <1>3. p \in Nat \ {0}
    BY <1>2, LedgerFacts, TransactionFields DEF Pairs
  <1>4. ASSUME NEW j \in DOMAIN txs, txs[j].pair = p
        PROVE  /\ j \in {p, p + 1} /\ {p, p + 1} \subseteq Legs(p)
               /\ \A k \in Legs(p) : txs[k].deleted = txs[j].deleted
    BY <1>3, <1>4, LedgerFacts DEF RowsFollow, RowFollows
  <1>5. Legs(p) = {p, p + 1}
    BY <1>2, <1>4 DEF Legs
  <1>6. Cardinality(Legs(p)) = 2
    <2>1. PICK f \in Nat : p = f + 1
      BY <1>3
    <2>2. {p, p + 1} = (f + 1)..(f + 2)
      BY <2>1
    <2> QED
      BY <1>5, <2>2, RunOfNumbers
  <1>7. CASE txs[i].deleted
    <2>1. Legs(p) \cap LiveRows = {}
      BY <1>2, <1>4, <1>7 DEF LiveRows
    <2> QED
      BY <1>6, <2>1, FS_EmptySet
  <1>8. CASE ~txs[i].deleted
    <2>1. Legs(p) \cap LiveRows = Legs(p)
      BY <1>2, <1>4, <1>8 DEF LiveRows, Legs
    <2> QED
      BY <1>6, <2>1
  <1> QED
    BY <1>7, <1>8

LEMMA PartsOfPlans ==
  ASSUME LedgerInvariant
  PROVE  PlanIsWhole
  <1>1. SUFFICES ASSUME NEW p \in DOMAIN plans
                 PROVE  /\ Cardinality(Instalments(p)) = plans[p].parts
                        /\ {txs[i].number : i \in Instalments(p)} = 1..plans[p].parts
    BY DEF PlanIsWhole
  <1>2. PICK f \in 0..Len(txs) : /\ Instalments(p) = (f + 1)..(f + plans[p].parts)
                                 /\ \A i \in Instalments(p) : txs[i].number = i - f
    BY LedgerFacts DEF RowsFollow, PartsFollow
  <1>3. f \in Nat /\ plans[p].parts \in Nat
    <2>1. \A n \in Parts : n \in Nat
      BY LedgerAssumption DEF LedgerAssumption
    <2>2. plans[p] \in Purchase /\ Len(txs) \in Nat
      BY LedgerFacts
    <2>3. plans[p].parts \in Parts
      BY <2>2 DEF Purchase
    <2> QED
      BY <2>1, <2>2, <2>3
  <1>4. Cardinality(Instalments(p)) = plans[p].parts
    BY <1>2, <1>3, RunOfNumbers
  <1>5. ASSUME NEW k \in 1..plans[p].parts PROVE k \in {txs[i].number : i \in Instalments(p)}
    <2>1. f + k \in Instalments(p) /\ txs[f + k].number = k
      BY <1>2, <1>3
    <2> QED
      BY <2>1
  <1>6. ASSUME NEW i \in Instalments(p) PROVE txs[i].number \in 1..plans[p].parts
    BY <1>2, <1>3
  <1> QED
    BY <1>4, <1>5, <1>6

\* The money of some rows is the sum of their amounts.
LEMMA CentsAre ==
  ASSUME LedgerInvariant, NEW ids, ids \subseteq DOMAIN txs
  PROVE  /\ IsFiniteSet(ids)
         /\ CentsOf(ids) = SumFunctionOnSet([i \in DOMAIN txs |-> txs[i].amount], ids)
         /\ \A i \in ids : [j \in DOMAIN txs |-> txs[j].amount][i] \in Nat
  <1>1. IsFiniteSet(ids)
    <2>1. IsFiniteSet(1..Len(txs))
      BY LedgerFacts, FS_Interval
    <2> QED
      BY <2>1, LedgerFacts, FS_Subset
  <1>2. \A i \in ids : [j \in ids |-> txs[j].amount][i] = [j \in DOMAIN txs |-> txs[j].amount][i]
    OBVIOUS
  <1>3. SumFunctionOnSet([i \in ids |-> txs[i].amount], ids)
          = SumFunctionOnSet([i \in DOMAIN txs |-> txs[i].amount], ids)
    BY <1>1, <1>2, SumAgrees
  <1>4. \A i \in ids : txs[i].amount \in Nat
    BY LedgerFacts, TransactionFields
  <1> QED
    BY <1>1, <1>3, <1>4 DEF CentsOf

\* Sorted by status, by category or by realisation, the money of the live rows of a
\* type is the same.
LEMMA TotalsOfRows ==
  ASSUME LedgerInvariant
  PROVE  TotalsAgree
  <1>1. SUFFICES ASSUME NEW type \in {"income", "expense"}
                 PROVE  /\ SumFunctionOnSet([s \in Status |-> ByStatus(s, type)], Status)
                             = SumFunctionOnSet([cat \in Categories |-> ByCategory(cat, type)], Categories)
                        /\ SumFunctionOnSet([s \in Status |-> ByStatus(s, type)], Status)
                             = ByRealization("realized", type) + ByRealization("projected", type)
    BY DEF TotalsAgree
  <1> DEFINE all == {i \in LiveRows : CountsInTotals(i) /\ txs[i].type = type}
             amount == [i \in DOMAIN txs |-> txs[i].amount]
             status == [i \in DOMAIN txs |-> txs[i].status]
             category == [i \in DOMAIN txs |-> txs[i].cat]
             byStatus == [s \in Status |-> ByStatus(s, type)]
             byCategory == [s \in Categories |-> ByCategory(s, type)]
  <1>2. all \subseteq DOMAIN txs
    BY DEF LiveRows
  <1>3. /\ IsFiniteSet(all) /\ \A i \in all : amount[i] \in Nat
    BY <1>2, CentsAre
  <1>4. \A i \in all : /\ status[i] = txs[i].status /\ status[i] \in Status
                       /\ category[i] = txs[i].cat /\ category[i] \in Categories
    BY <1>2, LedgerFacts, TransactionFields
  <1>5. \A ids \in SUBSET all : CentsOf(ids) = SumFunctionOnSet(amount, ids)
    BY <1>2, CentsAre
  <1>6. SumFunctionOnSet(byStatus, Status) = SumFunctionOnSet(amount, all)
    <2> DEFINE of == [s \in Status |-> {i \in all : txs[i].status = s}]
    <2>1. IsFiniteSet(Status)
      <3>1. IsFiniteSet({"paid"}) /\ IsFiniteSet({"pending"}) /\ IsFiniteSet({"scheduled"})
        BY FS_Singleton
      <3>2. Status = {"paid"} \cup ({"pending"} \cup {"scheduled"})
        BY DEF Status
      <3> QED
        BY <3>1, <3>2, FS_Union
    <2>2. \A s \in Status : of[s] \subseteq all /\ \A i \in all : i \in of[s] <=> status[i] = s
      BY <1>4
    <2>3. \A s \in Status : byStatus[s] = SumFunctionOnSet(amount, of[s])
      <3>1. \A s \in Status : of[s] = {i \in LiveRows : CountsInTotals(i) /\ txs[i].status = s /\ txs[i].type = type}
        OBVIOUS
      <3>2. \A s \in Status : byStatus[s] = CentsOf(of[s])
        BY <3>1 DEF ByStatus
      <3> HIDE DEF all, amount, byStatus, of
      <3> QED
        BY <1>5, <2>2, <3>2
    <2>4. \A i \in all : status[i] \in Status
      BY <1>4
    <2> HIDE DEF all, amount, status, category, byStatus, byCategory, of
    <2> QED
      BY <1>3, <2>1, <2>2, <2>3, <2>4, SumOfFibres
  <1>7. SumFunctionOnSet(byCategory, Categories) = SumFunctionOnSet(amount, all)
    <2> DEFINE of == [s \in Categories |-> {i \in all : txs[i].cat = s}]
    <2>1. IsFiniteSet(Categories)
      BY LedgerAssumption DEF LedgerAssumption
    <2>2. \A s \in Categories : of[s] \subseteq all /\ \A i \in all : i \in of[s] <=> category[i] = s
      BY <1>4
    <2>3. \A s \in Categories : byCategory[s] = SumFunctionOnSet(amount, of[s])
      <3>1. \A s \in Categories : of[s] = {i \in LiveRows : CountsInTotals(i) /\ txs[i].cat = s /\ txs[i].type = type}
        OBVIOUS
      <3>2. \A s \in Categories : byCategory[s] = CentsOf(of[s])
        BY <3>1 DEF ByCategory
      <3> HIDE DEF all, amount, byCategory, of
      <3> QED
        BY <1>5, <2>2, <3>2
    <2>4. \A i \in all : category[i] \in Categories
      BY <1>4
    <2> HIDE DEF all, amount, status, category, byStatus, byCategory, of
    <2> QED
      BY <1>3, <2>1, <2>2, <2>3, <2>4, SumOfFibres
  <1>8. SumFunctionOnSet(amount, all) = ByRealization("realized", type) + ByRealization("projected", type)
    <2> DEFINE realized == {i \in all : Bucket(i) = "realized"}
    <2>1. \A i \in LiveRows : Bucket(i) \in {"realized", "projected"} <=> CountsInTotals(i)
      BY DEF Bucket, CountsInTotals
    <2>2. /\ {i \in LiveRows : Bucket(i) = "realized" /\ txs[i].type = type} = realized
          /\ {i \in LiveRows : Bucket(i) = "projected" /\ txs[i].type = type} = all \ realized
      <3>1. \A i \in all : Bucket(i) = "projected" <=> Bucket(i) # "realized"
        BY <2>1
      <3> QED
        BY <2>1, <3>1
    <2>3. realized \in SUBSET all /\ all \ realized \in SUBSET all
      OBVIOUS
    <2>4. ByRealization("realized", type) = CentsOf(realized)
          /\ ByRealization("projected", type) = CentsOf(all \ realized)
      BY <2>2 DEF ByRealization
    <2> HIDE DEF realized, all, amount
    <2>5. SumFunctionOnSet(amount, all)
            = SumFunctionOnSet(amount, realized) + SumFunctionOnSet(amount, all \ realized)
      BY <1>3, <2>3, SumOfPart
    <2> QED
      BY <1>5, <2>3, <2>4, <2>5
  <1> QED
    BY <1>6, <1>7, <1>8

\* A transfer keeps its two legs, a purchase its instalments, and the totals of the
\* ledger tell one story whichever way they are cut, side-by-side calls and failures
\* included (finance/app/transfers.go, purchaseplans.go, adapters/repo/transactions.go).
THEOREM LedgerHolds == LedgerSpec => []LedgerIsSound
  <1>1. LedgerInvariant => LedgerIsSound
    BY LegsOfPairs, PartsOfPlans, TotalsOfRows DEF LedgerIsSound, LedgerInvariant
  <1> QED
    BY <1>1, LedgerInductive, PTL

--------------------------------------------------------------------------------
(* What a step does to what was bought, paid and deleted.                  *)

\* A number is n times its n-th part and what the division leaves.
LEMMA DivisionIsExact ==
  ASSUME NEW n \in Nat \ {0}, NEW total \in Nat
  PROVE  /\ total \div n \in Nat /\ total % n \in Nat
         /\ (total \div n + (total % n)) + (n - 1) * (total \div n) = total
  <1> DEFINE q == total \div n
  <1>1. q \in Nat /\ total % n \in Nat
    OBVIOUS
  <1>2. n * q + (total % n) = total
    OBVIOUS
  <1>3. \A k \in Nat : (n - 1) * k = n * k - k
    OBVIOUS
  <1>4. (n - 1) * q = n * q - q
    BY <1>1, <1>3
  <1>5. n * q \in Nat
    BY <1>1
  <1>6. (q + (total % n)) + (n - 1) * q = total
    <2> HIDE DEF q
    <2> QED
      BY <1>1, <1>2, <1>4, <1>5
  <1> QED
    BY <1>1, <1>6

\* Rows that hold the parts of a total sum to it.
LEMMA PartsAddUp ==
  ASSUME NEW f \in Nat, NEW n \in Nat \ {0}, NEW total \in Nat,
         NEW w, \A k \in 1..n : w[f + k] = Split(total, n)[k]
  PROVE  SumFunctionOnSet(w, (f + 1)..(f + n)) = total
  <1> DEFINE ids == (f + 1)..(f + n)
             q == total \div n
             last == f + n
             rest == (f + 1)..(f + (n - 1))
  <1>1. q \in Nat /\ total % n \in Nat /\ (q + (total % n)) + (n - 1) * q = total
    BY DivisionIsExact
  <1>2. \A k \in 1..n : w[f + k] = q + (IF k = n THEN total % n ELSE 0)
    BY DEF Split
  <1>3. last \in ids /\ w[last] = q + (total % n)
    BY <1>2
  <1>4. \A i \in rest : w[i] = q
    <2>1. \A i \in rest : i - f \in 1..n /\ i - f # n /\ f + (i - f) = i
      OBVIOUS
    <2>2. \A k \in 1..n : k # n => w[f + k] = q
      BY <1>1, <1>2
    <2> QED
      BY <2>1, <2>2
  <1>5. ids \ {last} = rest
    OBVIOUS
  <1>6. IsFiniteSet(ids) /\ IsFiniteSet(rest) /\ Cardinality(rest) = n - 1
    <2>1. n \in Nat /\ n - 1 \in Nat
      OBVIOUS
    <2> QED
      BY <2>1, RunOfNumbers
  <1>7. \A i \in ids : w[i] \in Nat
    <2>1. \A i \in ids : i = last \/ i \in rest
      BY <1>5
    <2> HIDE DEF ids, rest, last, q
    <2> QED
      BY <1>1, <1>3, <1>4, <2>1
  <1> HIDE DEF ids, rest, last, q
  <1>8. SumFunctionOnSet(w, rest) = (n - 1) * q
    BY <1>1, <1>4, <1>6, SumOfEqual
  <1>9. SumFunctionOnSet(w, ids) = w[last] + SumFunctionOnSet(w, rest)
    BY <1>3, <1>5, <1>6, <1>7, SumRemoves
  <1>10. SumFunctionOnSet(w, ids) = total
    BY <1>1, <1>3, <1>8, <1>9
  <1> QED
    BY <1>10 DEF ids

\* Only a purchase adds a plan, and its instalments add up to its total.
LEMMA NewPlanAddsUp ==
  ASSUME LedgerInvariant, [LedgerNext]_ledgerVars
  PROVE  \A p \in DOMAIN plans' \ DOMAIN plans : plans'[p].total = CentsOf(Instalments(p))'
  <1>1. CASE CreatePurchasePlan
    <2>1. PICK p, f, total \in Nat, n \in Nat \ {0} :
            /\ DOMAIN plans' \ DOMAIN plans = {p}
            /\ plans'[p].total = total
            /\ Instalments(p)' = (f + 1)..(f + n)
            /\ \A k \in 1..n : txs'[f + k].amount = Split(total, n)[k]
      BY <1>1, CreatePurchaseStep
    <2> DEFINE ids == (f + 1)..(f + n)
               w == [i \in ids |-> txs'[i].amount]
    <2>2. \A k \in 1..n : w[f + k] = Split(total, n)[k]
      BY <2>1
    <2>3. CentsOf(Instalments(p))' = SumFunctionOnSet(w, ids)
      BY <2>1 DEF CentsOf
    <2>4. SumFunctionOnSet(w, ids) = total
      <3> HIDE DEF w
      <3> QED
        BY <2>2, PartsAddUp
    <2> QED
      BY <2>1, <2>3, <2>4
  <1>2. CASE ~CreatePurchasePlan
    <2>1. ASSUME NEW c \in Clients, RecountRemaining(c) PROVE DOMAIN plans' = DOMAIN plans
      BY <2>1, RecountStep
    <2>2. ASSUME ~\E c \in Clients : RecountRemaining(c) PROVE UNCHANGED plans
      BY <1>2, <2>2 DEF LedgerNext, ledgerVars, CreateTransaction, CreateTransfer, DeleteTransfer, BeginUpdate,
         UpdateTransaction, BeginDelete, SoftDeleteTransaction, CancelInstalments, RequestFails, Begin
    <2> QED
      BY <2>1, <2>2
  <1> QED
    BY <1>1, <1>2

\* What disappears when a plan changes was scheduled to the last.
LEMMA CancelledWasScheduled ==
  ASSUME LedgerInvariant, [LedgerNext]_ledgerVars, plans' # plans
  PROVE  \A i \in DOMAIN txs : ~txs[i].deleted /\ txs'[i].deleted => txs[i].status = "scheduled"
  <1>1. CreatePurchasePlan \/ \E c \in Clients : RecountRemaining(c)
    BY DEF LedgerNext, ledgerVars, CreateTransaction, CreateTransfer, DeleteTransfer, BeginUpdate,
       UpdateTransaction, BeginDelete, SoftDeleteTransaction, CancelInstalments, RequestFails, Begin
  <1>2. CASE CreatePurchasePlan
    BY <1>2, CreatePurchaseStep
  <1>3. ASSUME NEW c \in Clients, RecountRemaining(c)
        PROVE  \A i \in DOMAIN txs : ~txs[i].deleted /\ txs'[i].deleted => txs[i].status = "scheduled"
    BY <1>3, RecountStep
  <1> QED
    BY <1>1, <1>2, <1>3

\* A cancellation counts the rows it leaves.
LEMMA CancelCounts ==
  ASSUME LedgerInvariant, NEW p \in DOMAIN plans, NEW c \in Clients, request[c].plan = p, RecountRemaining(c)
  PROVE  plans'[p].remaining = Cardinality({i \in Instalments(p)' : ~txs'[i].deleted /\ txs'[i].status # "paid"})
  <1>1. /\ Instalments(p)' = Instalments(p)
        /\ plans'[p].remaining = Cardinality({i \in Instalments(p) : ~txs'[i].deleted /\ txs'[i].status # "paid"})
    BY RecountStep
  <1> QED
    BY <1>1

\* A purchase is split without losing a cent; cancelling it keeps history and reports
\* what is still owed; a deleted row is changed by no write that read it before
\* (finance/app/purchaseplans.go, transactions.go).
THEOREM HistoryHolds == LedgerSpec => HistoryIsExact
  <1>1. LedgerInvariant /\ [LedgerNext]_ledgerVars =>
          [\A p \in DOMAIN plans' \ DOMAIN plans : plans'[p].total = CentsOf(Instalments(p))']_ledgerVars
    BY NewPlanAddsUp
  <1>2. LedgerInvariant /\ [LedgerNext]_ledgerVars =>
          [plans' # plans =>
             \A i \in DOMAIN txs : ~txs[i].deleted /\ txs'[i].deleted => txs[i].status = "scheduled"]_ledgerVars
    BY CancelledWasScheduled
  <1>3. LedgerInvariant /\ [LedgerNext]_ledgerVars =>
          [\A p \in DOMAIN plans :
             (\E c \in Clients : request[c].plan = p /\ RecountRemaining(c)) =>
               plans'[p].remaining =
                 Cardinality({i \in Instalments(p)' : ~txs'[i].deleted /\ txs'[i].status # "paid"})]_ledgerVars
    BY CancelCounts
  <1>4. LedgerInvariant /\ [LedgerNext]_ledgerVars =>
          [\A i \in DOMAIN txs : txs[i].deleted => txs'[i] = txs[i]]_ledgerVars
    BY LedgerStep
  <1> QED
    BY <1>1, <1>2, <1>3, <1>4, LedgerInductive, PTL
       DEF HistoryIsExact, PurchaseIsExact, PlanAddsUp, CancelKeepsHistory, CancelCountsWhatIsLeft,
           DeletedIsFinal, LedgerSpec

================================================================================
