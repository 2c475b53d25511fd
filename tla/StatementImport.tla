----------------------------- MODULE StatementImport -----------------------------
(***************************************************************************)
(* Importing a bank statement into the ledger of finance: PrepareImport,   *)
(* ResolveImportGroup and CommitImport (internal/finance/app/import.go)    *)
(* over the tables of finance/adapters/repo/importbatches.go.              *)
(*                                                                         *)
(* The three are tools of the chat, so two conversations may call them at  *)
(* the same time.  A step here is one SQL statement outside a transaction, *)
(* or one statement inside it under READ COMMITTED; what a transaction     *)
(* wrote is seen by the others when it commits, and dropped when it fails. *)
(*                                                                         *)
(* One workspace, one import source and a fixed set of categories.         *)
(***************************************************************************)
EXTENDS Naturals, Sequences, FiniteSets

CONSTANTS
  Files,       \* statements an operator may hand over
  Statement,   \* file -> its lines
  Named,       \* groups a category has the exact name and direction of
  Internal,    \* groups that look like a movement between own accounts
  Runners,     \* tool calls that may be under way together
  MaxBatches   \* bound: batches ever staged

\* A line carries the institution's own id, or only a date and an amount, or
\* could not be read.  A group is a normalised description with a direction.
Lines(f) == DOMAIN Statement[f]
IsLine(l) == DOMAIN l = {"kind", "what", "group"} /\ l.kind \in {"strong", "heuristic", "invalid"}

ASSUME ImportAssumption ==
  /\ MaxBatches \in Nat
  /\ \A f \in Files : /\ Len(Statement[f]) \in Nat
                      /\ Lines(f) = 1..Len(Statement[f])
                      /\ \A n \in Lines(f) : IsLine(Statement[f][n])

VARIABLES
  batches,   \* finance.import_batches, each with its import_rows
  ledger,    \* transactions created by imports: batch and external_id
  deleted,   \* those with deleted_at set
  call,      \* runner -> the tool call it is making
  late       \* batches a resolution changed while a commit of them ran or
             \* after it (history)

vars == <<batches, ledger, deleted, call, late>>

RowState == {"ready", "duplicate", "ambiguous_duplicate", "unresolved_category",
             "ambiguous_internal", "invalid"}

Idle == [at |-> "idle", file |-> "none", known |-> {}, batch |-> 0,
         eligible |-> {}, entering |-> {}]

Init ==
  /\ batches = <<>> /\ ledger = {} /\ deleted = {} /\ late = {}
  /\ call = [r \in Runners |-> Idle]

--------------------------------------------------------------------------------
(* Identities.                                                             *)

\* fingerprintKey, and the ordinal that tells repeated lines of a file apart;
\* nothing tells lines with the same institution id apart.
Key(l) == IF l.kind = "strong" THEN <<l.kind, l.what>> ELSE <<l.kind, l.what, l.group>>
Ordinal(f, n) ==
  IF Statement[f][n].kind = "strong" THEN 1
  ELSE Cardinality({m \in 1..n : Key(Statement[f][m]) = Key(Statement[f][n])})
Identity(f, n) == <<Key(Statement[f][n]), Ordinal(f, n)>>
Identities(f, ns) == {Identity(f, n) : n \in ns}

\* The unique index on external identities covers the transactions not deleted.
Live == ledger \ deleted
LiveIds == {t.id : t \in Live}

AskedIds(f) == Identities(f, Lines(f))                         \* faulty
ExistingIdentities(f) == LiveIds

\* classify: the order of the checks is the design.
Classify(f, n, known) ==
  LET line == Statement[f][n] IN
  IF line.kind = "invalid" THEN "invalid"
  ELSE IF Identity(f, n) \in known
       THEN IF line.kind = "strong" THEN "duplicate" ELSE "ambiguous_duplicate"
  ELSE IF line.group \in Internal THEN "ambiguous_internal"
  ELSE IF line.group \in Named THEN "ready"
  ELSE "unresolved_category"

InState(b, s) == {n \in Lines(batches[b].file) : batches[b].state[n] = s}

--------------------------------------------------------------------------------
(* PrepareImport.                                                          *)

Prepared == {b \in DOMAIN batches : batches[b].status = "prepared"}

\* A batch of the same content that still waits is answered as it is;
\* otherwise the file is read.
FindPreparedByContent(r) ==
  /\ call[r].at = "idle"
  /\ \E f \in Files :
       /\ \A b \in Prepared : batches[b].file # f
       /\ call' = [call EXCEPT ![r] = [Idle EXCEPT !.at = "classify", !.file = f]]
  /\ UNCHANGED <<batches, ledger, deleted, late>>

ReadIdentities(r) ==
  /\ call[r].at = "classify"
  /\ call' = [call EXCEPT ![r].at = "stage", ![r].known = ExistingIdentities(call[r].file)]
  /\ UNCHANGED <<batches, ledger, deleted, late>>

\* The header and its rows, in one transaction.
StageBatch(r) ==
  /\ call[r].at = "stage"
  /\ Len(batches) < MaxBatches
  /\ LET f == call[r].file IN
     batches' = Append(batches,
       [file |-> f, status |-> "prepared",
        state |-> [n \in Lines(f) |-> Classify(f, n, call[r].known)],
        linked |-> {}, created |-> 0, skipped |-> 0, eligible |-> {}])
  /\ call' = [call EXCEPT ![r] = Idle]
  /\ UNCHANGED <<ledger, deleted, late>>

--------------------------------------------------------------------------------
(* ResolveImportGroup: the status is read before the rows are changed.  A  *)
(* call that names no batch takes the latest prepared one, which is one of *)
(* those chosen from here.                                                 *)

FindBatch(r, next) ==
  /\ call[r].at = "idle"
  /\ \E b \in Prepared : call' = [call EXCEPT ![r] = [Idle EXCEPT !.at = next, !.batch = b]]
  /\ UNCHANGED <<batches, ledger, deleted, late>>

BeginResolve(r) == FindBatch(r, "resolve")

\* A commit of b has counted its ready rows and may be about to finish.
Committing(b) == \E s \in Runners : call[s].batch = b /\ call[s].at \in {"materialise", "finish"}

ResolveGroup(r) ==
  /\ call[r].at = "resolve"
  /\ LET b == call[r].batch IN
     \E n \in InState(b, "unresolved_category") :
       LET group == Statement[batches[b].file][n].group IN
       /\ batches' = [batches EXCEPT ![b].state =
            [m \in DOMAIN @ |-> IF /\ @[m] = "unresolved_category"
                                   /\ Statement[batches[b].file][m].group = group
                                THEN "ready" ELSE @[m]]]
       /\ late' = IF Committing(b) \/ b \notin Prepared THEN late \cup {b} ELSE late
  /\ call' = [call EXCEPT ![r] = Idle]
  /\ UNCHANGED <<ledger, deleted>>

--------------------------------------------------------------------------------
(* CommitImport: the status is read first, the rest is one transaction.    *)

BeginCommit(r) == FindBatch(r, "reconcile")

Reconcile(r) ==
  /\ call[r].at = "reconcile"
  /\ call' = [call EXCEPT ![r].at = "materialise",
                          ![r].eligible = InState(call[r].batch, "ready")]
  /\ UNCHANGED <<batches, ledger, deleted, late>>

\* External ids another transaction has inserted and not committed yet: an
\* INSERT of one of them waits for its end.
Pending(s) ==
  IF call[s].at = "finish" THEN Identities(batches[call[s].batch].file, call[s].entering) ELSE {}

\* ON CONFLICT DO NOTHING: of the ready and unlinked rows' ids, those not in the ledger.
Eligible(b) == InState(b, "ready") \ batches[b].linked
InsertedAnyway(b) == Identities(batches[b].file, Eligible(b))  \* faulty
Inserted(b) == Identities(batches[b].file, Eligible(b)) \ LiveIds

\* The UPDATE then links every row with an inserted id, in whatever state.
Linked(b) == {n \in Lines(batches[b].file) : Identity(batches[b].file, n) \in Inserted(b)}

\* A row may carry a transaction only if it is ready (import_rows_committed_chk),
\* and no more of them than were counted; else the transaction fails.
UncountedLinks(b, eligible) == Linked(b) \subseteq InState(b, "ready")   \* faulty
AnyStateLinks(b, eligible) ==                                  \* faulty
  Cardinality(Linked(b)) <= Cardinality(eligible)
MayLink(b, eligible) ==
  /\ Linked(b) \subseteq InState(b, "ready")
  /\ Cardinality(Linked(b)) <= Cardinality(eligible)

MaterialiseReady(r) ==
  /\ call[r].at = "materialise"
  /\ \A s \in Runners \ {r} : Pending(s) \cap Inserted(call[r].batch) = {}
  /\ MayLink(call[r].batch, call[r].eligible)
  /\ call' = [call EXCEPT ![r].at = "finish", ![r].entering = Linked(call[r].batch)]
  /\ UNCHANGED <<batches, ledger, deleted, late>>

SkippedOfFile(b, eligible, entering) ==                        \* faulty
  Cardinality(Lines(batches[b].file)) - Cardinality(entering)
Skipped(b, eligible, entering) == Cardinality(eligible) - Cardinality(entering)

\* MarkCommitted: a batch that is no longer prepared rolls the import back.
CommitAgain(b) == TRUE                                         \* faulty
StillPrepared(b) == b \in Prepared

FinishCommit(r) ==
  /\ call[r].at = "finish"
  /\ LET b == call[r].batch
         entering == call[r].entering IN
     IF StillPrepared(b)
     THEN /\ batches' = [batches EXCEPT
                ![b].status = "committed", ![b].linked = entering,
                ![b].created = Cardinality(entering),
                ![b].skipped = Skipped(b, call[r].eligible, entering),
                ![b].eligible = call[r].eligible]
          /\ ledger' = ledger \cup
               {[batch |-> b, id |-> i] : i \in Identities(batches[b].file, entering)}
     ELSE UNCHANGED <<batches, ledger>>
  /\ call' = [call EXCEPT ![r] = Idle]
  /\ UNCHANGED <<deleted, late>>

--------------------------------------------------------------------------------

\* A statement fails, the tool's timeout passes, the process dies, or there was
\* nothing to do: an open transaction leaves no trace.
KeepInserted(r) ==                                             \* faulty
  ledger' = ledger \cup {[batch |-> call[r].batch, id |-> i] : i \in Pending(r)}
Rollback(r) == UNCHANGED ledger
Fail(r) ==
  /\ call[r].at # "idle"
  /\ Rollback(r)
  /\ call' = [call EXCEPT ![r] = Idle]
  /\ UNCHANGED <<batches, deleted, late>>

\* DeleteTransaction, of an imported one.
SoftDelete ==
  /\ \E t \in Live : deleted' = deleted \cup {t}
  /\ UNCHANGED <<batches, ledger, call, late>>

Next ==
  \/ SoftDelete
  \/ \E r \in Runners :
       \/ FindPreparedByContent(r) \/ ReadIdentities(r) \/ StageBatch(r)
       \/ BeginResolve(r) \/ ResolveGroup(r)
       \/ BeginCommit(r) \/ Reconcile(r) \/ MaterialiseReady(r) \/ FinishCommit(r)
       \/ Fail(r)

Spec == Init /\ [][Next]_vars

--------------------------------------------------------------------------------

Batch(f) == [file : {f}, status : {"prepared", "committed"},
             state : [Lines(f) -> RowState], linked : SUBSET Lines(f),
             created : Nat, skipped : Nat, eligible : SUBSET Lines(f)]

Call == [at : {"idle", "classify", "stage", "resolve", "reconcile", "materialise", "finish"},
         file : Files \cup {"none"},
         known : SUBSET UNION {Identities(f, Lines(f)) : f \in Files},
         batch : 0..Len(batches),
         eligible : SUBSET Nat, entering : SUBSET Nat]

TypeOK ==
  /\ batches \in Seq({batches[b] : b \in DOMAIN batches})
  /\ Len(batches) <= MaxBatches
  /\ \A b \in DOMAIN batches : \E f \in Files : batches[b] \in Batch(f)
  /\ \A t \in ledger : /\ t.batch \in DOMAIN batches
                       /\ t.id \in AskedIds(batches[t.batch].file)
  /\ deleted \subseteq ledger
  /\ call \in [Runners -> Call]
  /\ late \subseteq DOMAIN batches

\* However often, and by however many calls at once, overlapping statements are
\* imported, an identity has one transaction that is not deleted: two commits
\* racing on it do not both insert it.
OneLiveTransaction == \A t, u \in Live : t.id = u.id => t = u

\* "either the ledger gained these rows or it gained none" (MaterialiseReady): a
\* batch that was not committed, or whose commit failed half way, left nothing;
\* a committed one has a transaction for each row it says has one.
AllOrNothing ==
  \A b \in DOMAIN batches :
    /\ b \in Prepared => batches[b].linked = {}
    /\ {t.id : t \in {u \in ledger : u.batch = b}}
         = Identities(batches[b].file, batches[b].linked)

\* Only ready rows enter: no row set aside as a duplicate, a possible internal
\* movement or without a category carries a transaction, not even when it has
\* the same institution id as one that is ready.
OnlyReadyEnters ==
  \A b \in DOMAIN batches : batches[b].linked \subseteq InState(b, "ready")

\* What enters the ledger is a committed batch's ready rows, all of them or none.
CommitIsSound == AllOrNothing /\ OnlyReadyEnters

\* A commit leaves nothing out silently: the counts it reports add up to what
\* was ready when it counted, and a ready row without a transaction, like a row
\* set aside as already imported, lost to a transaction of another batch.
NothingVanishes ==
  \A b \in DOMAIN batches :
    LET set_aside == InState(b, "duplicate") \cup InState(b, "ambiguous_duplicate")
    IN /\ b \notin Prepared =>
            batches[b].created + batches[b].skipped = Cardinality(batches[b].eligible)
       /\ \A n \in set_aside \cup (batches[b].eligible \ batches[b].linked) :
            \E t \in ledger : t.batch # b /\ t.id = Identity(batches[b].file, n)

\* Of a batch no resolution raced with, the counts cover the ready rows for good.
CountsCoverReady ==
  \A b \in DOMAIN batches \ (Prepared \cup late) :
    batches[b].created + batches[b].skipped = Cardinality(InState(b, "ready"))

\* Every line of a statement is answered for, and the counts say how.
RowsAreAccounted == NothingVanishes /\ CountsCoverReady

\* A batch is committed once: its counts and its rows' transactions are what that
\* commit made them, whatever calls were under way or come later.
CommittedOnce ==
  [][\A b \in DOMAIN batches :
       b \notin Prepared =>
         /\ b \notin Prepared'
         /\ batches'[b].linked = batches[b].linked
         /\ batches'[b].created = batches[b].created
         /\ batches'[b].skipped = batches[b].skipped]_vars

\* What a call under way knows, the strengthening that makes these invariants
\* inductive: it works on a file or a batch that exists; identities it read are
\* those of older batches; what it counted and what it inserted is still ready;
\* and a batch that still waits lost a counted row only to another batch.
Lost(b, n) == \E t \in ledger : t.batch # b /\ t.id = Identity(batches[b].file, n)
Knows(r) ==
  LET b == call[r].batch
      at == call[r].at IN
  /\ at \in {"classify", "stage"} => call[r].file \in Files
  /\ at = "stage" => call[r].known \subseteq {t.id : t \in ledger}
  /\ at \in {"resolve", "reconcile", "materialise", "finish"} => b \in DOMAIN batches
  /\ at \in {"materialise", "finish"} =>
       /\ call[r].eligible \subseteq InState(b, "ready")
       /\ b \notin late => call[r].eligible = InState(b, "ready")
  /\ at = "finish" =>
       /\ call[r].entering \subseteq InState(b, "ready")
       /\ Cardinality(call[r].entering) <= Cardinality(call[r].eligible)
       /\ b \in Prepared => \A n \in call[r].eligible \ call[r].entering : Lost(b, n)

\* Inserted and not committed: not in the ledger, and nobody else's.
Apart ==
  \A r \in Runners :
    /\ Pending(r) \cap LiveIds = {}
    /\ \A s \in Runners \ {r} : Pending(r) \cap Pending(s) = {}

\* What a commit counted is what was ready, for good unless a resolution raced it.
Counted ==
  \A b \in DOMAIN batches \ Prepared :
    /\ batches[b].eligible \subseteq Lines(batches[b].file)
    /\ b \notin late => batches[b].eligible = InState(b, "ready")

IInv ==
  /\ TypeOK /\ OneLiveTransaction /\ AllOrNothing /\ OnlyReadyEnters
  /\ NothingVanishes /\ CountsCoverReady
  /\ Apart /\ Counted /\ \A r \in Runners : Knows(r)

--------------------------------------------------------------------------------
(* A statement of the sources that the code does not keep.                 *)

\* "The transaction this row became, once committed. NULL until then, and the
\* proof that a row did or did not enter the ledger" (0013_import_batches): two
\* rows of a batch did not become one transaction.
RowsBecomeTransactions ==
  \A b \in DOMAIN batches : \A m, n \in batches[b].linked :
    Identity(batches[b].file, m) = Identity(batches[b].file, n) => m = n
================================================================================
