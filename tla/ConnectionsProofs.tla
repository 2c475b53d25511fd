--------------------------- MODULE ConnectionsProofs ---------------------------
(***************************************************************************)
(* Proofs about Connections for any workspaces, accounts, repositories and *)
(* calls under way.  A call writes after it has talked to the platform, so *)
(* what makes IInv inductive is what a call still knows of the row it read *)
(* when it comes back, and that it is marked late when it no longer does.  *)
(***************************************************************************)
EXTENDS Connections, FiniteSetTheorems, TLAPS

USE ConnectionAssumption DEF ConnectionAssumption

--------------------------------------------------------------------------------
(* The table and its bound.                                                *)

\* The ids of the connections are the numbers of the rows, and a next one is free.
LEMMA RowIds ==
  ASSUME rows \in Seq(Row)
  PROVE  /\ Len(rows) \in Nat /\ DOMAIN rows = 1..Len(rows)
         /\ Len(rows) + 1 \notin DOMAIN rows
         /\ \A i \in DOMAIN rows : rows[i] \in Row
  OBVIOUS

\* Ids are among those a call may hold.
LEMMA IdsFit == IInv => DOMAIN rows \subseteq 0..MaxRows /\ 0 \in 0..MaxRows /\ 0 \notin DOMAIN rows
  <1> SUFFICES ASSUME IInv PROVE DOMAIN rows \subseteq 0..MaxRows /\ 0 \in 0..MaxRows /\ 0 \notin DOMAIN rows
    OBVIOUS
  <1>1. Cardinality(Connecting) \in Nat
    <2>1. IsFiniteSet(Connecting)
      BY FS_Subset DEF Connecting
    <2> QED
      BY <2>1, FS_CardinalityType
  <1>2. Len(rows) \in Nat /\ DOMAIN rows = 1..Len(rows) /\ Len(rows) + Cardinality(Connecting) <= MaxRows
    BY RowIds DEF IInv
  <1> QED
    BY <1>1, <1>2

\* A step that writes over rows leaves as many of them.
LEMMA SameRows ==
  ASSUME rows \in Seq(Row), rows' = [i \in DOMAIN rows |-> rows'[i]],
         \A i \in DOMAIN rows : rows'[i] \in Row
  PROVE  rows' \in Seq(Row) /\ Len(rows') = Len(rows) /\ DOMAIN rows' = DOMAIN rows
  <1>1. rows' \in [1..Len(rows) -> Row] /\ Len(rows) \in Nat
    BY RowIds
  <1> HIDE DEF Row
  <1> QED
    BY <1>1, RowIds

\* A step that adds a row gives it the next id.
LEMMA OneMoreRow ==
  ASSUME rows \in Seq(Row), rows' = [i \in DOMAIN rows \cup {Len(rows) + 1} |-> rows'[i]],
         \A i \in DOMAIN rows \cup {Len(rows) + 1} : rows'[i] \in Row
  PROVE  /\ rows' \in Seq(Row) /\ Len(rows') = Len(rows) + 1
         /\ DOMAIN rows' = DOMAIN rows \cup {Len(rows) + 1}
  <1>1. DOMAIN rows \cup {Len(rows) + 1} = 1..(Len(rows) + 1) /\ Len(rows) + 1 \in Nat
    BY RowIds
  <1>2. rows' \in [1..(Len(rows) + 1) -> Row]
    BY <1>1
  <1> QED
    BY <1>1, <1>2

\* The room a connecting call has reserved is the row it adds (Connect).
LEMMA Reserved ==
  ASSUME NEW S, S \subseteq Callers, NEW T, T \subseteq Callers, NEW c
  PROVE  /\ Cardinality(S) \in Nat /\ Cardinality(T) \in Nat
         /\ T \subseteq S => Cardinality(T) <= Cardinality(S)
         /\ T \subseteq S \ {c} /\ c \in S => Cardinality(T) + 1 <= Cardinality(S)
         /\ T \subseteq S \cup {c} => Cardinality(T) <= Cardinality(S) + 1
  <1>1. IsFiniteSet(S) /\ IsFiniteSet(T)
    BY FS_Subset
  <1>2. Cardinality(S) \in Nat /\ Cardinality(T) \in Nat
    BY <1>1, FS_CardinalityType
  <1>3. T \subseteq S => Cardinality(T) <= Cardinality(S)
    BY <1>1, FS_Subset
  <1>4. ASSUME T \subseteq S \ {c}, c \in S PROVE Cardinality(T) + 1 <= Cardinality(S)
    <2>1. IsFiniteSet(S \ {c}) /\ Cardinality(S \ {c}) = Cardinality(S) - 1
      BY <1>1, <1>4, FS_RemoveElement
    <2>2. Cardinality(T) <= Cardinality(S \ {c})
      BY <1>4, <2>1, FS_Subset
    <2> QED
      BY <1>2, <2>1, <2>2
  <1>5. ASSUME T \subseteq S \cup {c} PROVE Cardinality(T) <= Cardinality(S) + 1
    <2>1. IsFiniteSet(S \cup {c}) /\ Cardinality(S \cup {c}) \in {Cardinality(S), Cardinality(S) + 1}
      BY <1>1, FS_AddElement
    <2>2. Cardinality(T) <= Cardinality(S \cup {c})
      BY <1>5, <2>1, FS_Subset
    <2> QED
      BY <1>2, <2>1, <2>2
  <1> QED
    BY <1>2, <1>3, <1>4, <1>5

--------------------------------------------------------------------------------
(* The calls that only talk to the platform and read.                      *)

\* The empty token and the call at rest are what they are typed to be.
LEMMA IdleIsACall == Idle \in Call /\ NoToken \in Token /\ CallKnows(Idle)
  <1>1. 0 \in 0..MaxErasures /\ 0 \in 0..MaxRows
    OBVIOUS
  <1> QED
    BY <1>1 DEF Idle, Call, NoToken, Token, CallKnows, Reading

\* A step that replaces one call by another that knows what it should.
LEMMA OneCallChanges ==
  ASSUME IInv, UNCHANGED <<platform, rows, erasures>>, NEW c \in Callers, NEW call \in Call,
         calls' = [calls EXCEPT ![c] = call], CallKnows(call),
         call.at \in {"connect", "replace"} =>
           \/ calls[c].at \in {"connect", "replace"}
           \/ Len(rows) + Cardinality(Connecting) < MaxRows
  PROVE  IInv'
  <1>1. TypeOK' /\ OneLive' /\ (rows \in Seq(Row))' /\ (\A i \in DOMAIN rows : RowIsSound(rows[i]))'
    BY DEF IInv, TypeOK, OneLive, RowIsSound, Valid
  <1>2. Len(rows') + Cardinality(Connecting') <= MaxRows
    <2>1. Connecting' \subseteq Connecting \cup {c}
      BY DEF Connecting, IInv, TypeOK
    <2>2. CASE Len(rows) + Cardinality(Connecting) < MaxRows
      <3>1. Cardinality(Connecting') <= Cardinality(Connecting) + 1
            /\ Cardinality(Connecting) \in Nat /\ Cardinality(Connecting') \in Nat
        BY <2>1, Reserved DEF Connecting
      <3> QED
        BY <2>2, <3>1, RowIds DEF IInv
    <2>3. CASE ~(Len(rows) + Cardinality(Connecting) < MaxRows)
      <3>1. Connecting' \subseteq Connecting
        BY <2>3 DEF Connecting, IInv, TypeOK
      <3>2. Cardinality(Connecting') <= Cardinality(Connecting)
            /\ Cardinality(Connecting) \in Nat /\ Cardinality(Connecting') \in Nat
        BY <3>1, Reserved DEF Connecting
      <3> QED
        BY <3>2, RowIds DEF IInv
    <2> QED
      BY <2>2, <2>3
  <1>3. ASSUME NEW d \in Callers PROVE CallKnows(calls[d])'
    <2>1. \A x : CallKnows(x) => CallKnows(x)'
      BY DEF CallKnows, Valid
    <2>2. CallKnows(calls'[d])
      BY DEF IInv, TypeOK
    <2> QED
      BY <2>1, <2>2 DEF CallKnows, Valid
  <1> QED
    BY <1>1, <1>2, <1>3 DEF IInv

\* What a call holds when it comes back is what it read of a row, still true unless it
\* was marked late: the steps that read, ask the platform or end.
LEMMA ReadingStep ==
  ASSUME IInv, NEW c \in Callers,
         \/ Connect(c) \/ DeletePrevious(c) \/ Refresh(c) \/ SetAuthorizedRepositories(c)
         \/ ClearRepositories(c) \/ Resolve(c) \/ FindByFullName(c) \/ Finish(c)
  PROVE  IInv'
  <1>0. /\ calls \in [Callers -> Call] /\ calls[c] \in Call /\ CallKnows(calls[c])
        /\ \A i \in DOMAIN rows : rows[i] \in Row /\ RowIsSound(rows[i])
        /\ DOMAIN rows \subseteq 0..MaxRows /\ 0 \in 0..MaxRows
        /\ platform \in {"github", "meta_threads"}
    BY RowIds, IdsFit DEF IInv, TypeOK
  <1>a. UNCHANGED <<platform, rows, erasures>>
    BY DEF Connect, DeletePrevious, Refresh, SetAuthorizedRepositories, ClearRepositories,
           Resolve, FindByFullName, Finish
  <1>1. CASE Connect(c)
    <2>1. PICK w, a, call :
            /\ w \in Workspaces /\ a \in Accounts
            /\ call = [Idle EXCEPT !.at = "connect", !.ws = w, !.token = NewToken(a)]
            /\ calls' = [calls EXCEPT ![c] = call]
      BY <1>1 DEF Connect
    <2>2. NewToken(a) \in Token /\ NewToken(a).of = a /\ Valid(NewToken(a))
      BY <2>1 DEF NewToken, Token, Valid, IInv, TypeOK
    <2>3. /\ call \in Call /\ call.at = "connect" /\ call.ws = w /\ call.token = NewToken(a)
          /\ call.late = FALSE
      BY <2>1, <2>2, IdleIsACall DEF Idle, Call
    <2>4. CallKnows(call)
      BY <2>1, <2>2, <2>3 DEF CallKnows, Reading
    <2>5. Len(rows) + Cardinality(Connecting) < MaxRows
      BY <1>1 DEF Connect
    <2> QED
      BY <1>a, <2>1, <2>3, <2>4, <2>5, OneCallChanges
  <1>2. CASE DeletePrevious(c)
    <2>1. PICK i, call :
            /\ i \in DOMAIN rows \cup {0}
            /\ call = [calls[c] EXCEPT !.at = "replace", !.row = i]
            /\ calls' = [calls EXCEPT ![c] = call]
      BY <1>2 DEF DeletePrevious, LiveIn
    <2>2. call \in Call /\ call.at = "replace" /\ call.row = i /\ call.token = calls[c].token
          /\ call.ws = calls[c].ws
      BY <1>0, <2>1 DEF Call
    <2>3. platform = "github" /\ calls[c].at = "connect"
      BY <1>2 DEF DeletePrevious
    <2>4. CallKnows(call)
      BY <2>1, <1>0, <2>2, <2>3 DEF CallKnows, Reading
    <2> QED
      BY <1>a, <2>1, <2>2, <2>3, <2>4, OneCallChanges
  <1>3. CASE Refresh(c)
    <2>1. PICK w, i, call :
            /\ w \in Workspaces /\ i \in DOMAIN rows
            /\ rows[i].live /\ Valid(rows[i].token)
            /\ call = [Idle EXCEPT !.at = "refresh", !.ws = w, !.row = i, !.token = rows[i].token]
            /\ calls' = [calls EXCEPT ![c] = call]
      BY <1>3 DEF Refresh, LiveIn
    <2>2. rows[i].token \in Token
      BY <2>1, <1>0 DEF Row
    <2>3. call \in Call /\ call.at = "refresh" /\ call.row = i /\ call.token = rows[i].token
      BY <1>0, <2>1, <2>2, IdleIsACall DEF Idle, Call
    <2>4. platform = "meta_threads"
      BY <1>3 DEF Refresh
    <2>5. CallKnows(call)
      BY <1>0, <2>1, <2>3, <2>4 DEF CallKnows, Reading, RowIsSound
    <2> QED
      BY <1>a, <2>1, <2>3, <2>5, OneCallChanges
  <1>4. CASE SetAuthorizedRepositories(c)
    <2>0. PICK w \in Workspaces, i \in DOMAIN rows :
            /\ rows[i].live
            /\ \E names \in SUBSET Accessible[rows[i].token.of] :
                 calls' = [calls EXCEPT ![c] = [Idle EXCEPT !.at = "choose", !.ws = w, !.row = i, !.names = names]]
      BY <1>4 DEF SetAuthorizedRepositories, AccessibleRepositories, LiveIn
    <2>1. PICK names, call :
            /\ names \in SUBSET Accessible[rows[i].token.of]
            /\ rows[i].live
            /\ call = [Idle EXCEPT !.at = "choose", !.ws = w, !.row = i, !.names = names]
            /\ calls' = [calls EXCEPT ![c] = call]
      BY <2>0
    <2>2. names \in SUBSET Repos
      BY <1>0, <2>1 DEF RowIsSound
    <2>3. call \in Call /\ call.at = "choose" /\ call.row = i /\ call.names = names
      BY <1>0, <2>1, <2>2, IdleIsACall DEF Idle, Call
    <2>4. platform = "github"
      BY <1>4 DEF SetAuthorizedRepositories
    <2>5. CallKnows(call)
      BY <2>1, <2>3, <2>4 DEF CallKnows, Reading
    <2> QED
      BY <1>a, <2>1, <2>3, <2>5, OneCallChanges
  <1>5. CASE ClearRepositories(c)
    <2>1. PICK call :
            /\ call = [calls[c] EXCEPT !.at = "authorise", !.seen = rows[calls[c].row].repos]
            /\ calls' = [calls EXCEPT ![c] = call]
      BY <1>5 DEF ClearRepositories, ListByConnection
    <2>2. calls[c].at = "choose" /\ calls[c].row \in DOMAIN rows
      BY <1>0, <1>5 DEF ClearRepositories, CallKnows, Reading
    <2>3. rows[calls[c].row].repos \in SUBSET Repos
      BY <1>0, <2>2 DEF Row
    <2>4. /\ call \in Call /\ call.at = "authorise" /\ call.row = calls[c].row
          /\ call.names = calls[c].names /\ call.seen = rows[calls[c].row].repos
      BY <1>0, <2>1, <2>3 DEF Call
    <2>5. CallKnows(call)
      BY <1>0, <2>2, <2>4 DEF CallKnows, Reading
    <2> QED
      BY <1>a, <2>1, <2>4, <2>5, OneCallChanges
  <1>6. CASE Resolve(c)
    <2>1. PICK w, i, call :
            /\ w \in Workspaces /\ i \in DOMAIN rows
            /\ rows[i].live
            /\ call = [Idle EXCEPT !.at = "resolved", !.ws = w, !.row = i, !.token = rows[i].token]
            /\ calls' = [calls EXCEPT ![c] = call]
      BY <1>6 DEF Resolve, LiveIn
    <2>2. rows[i].token \in Token
      BY <2>1, <1>0 DEF Row
    <2>3. call \in Call /\ call.at = "resolved" /\ call.row = i /\ call.token = rows[i].token
      BY <1>0, <2>1, <2>2, IdleIsACall DEF Idle, Call
    <2>4. platform = "github"
      BY <1>6 DEF Resolve
    <2>5. CallKnows(call)
      BY <1>0, <2>1, <2>3, <2>4 DEF CallKnows, Reading, RowIsSound
    <2> QED
      BY <1>a, <2>1, <2>3, <2>5, OneCallChanges
  <1>7. CASE FindByFullName(c)
    <2>0. PICK r \in rows[calls[c].row].repos :
            calls' = [calls EXCEPT ![c].at = "fetch", ![c].names = {r}]
      BY <1>7 DEF FindByFullName, OfTheConnection
    <2>1. PICK call :
            /\ call = [calls[c] EXCEPT !.at = "fetch", !.names = {r}]
            /\ calls' = [calls EXCEPT ![c] = call]
      BY <1>0, <2>0
    <2>2. calls[c].at = "resolved" /\ calls[c].row \in DOMAIN rows
      BY <1>0, <1>7 DEF FindByFullName, CallKnows, Reading
    <2>3. rows[calls[c].row].live /\ r \in Repos
      BY <1>0, <2>1, <2>2 DEF RowIsSound, Row
    <2>4. r \in Accessible[calls[c].token.of]
      <3>1. calls[c].token = rows[calls[c].row].token
        BY <1>0, <2>2, <2>3 DEF CallKnows, Reading
      <3> QED
        BY <1>0, <2>1, <2>2, <2>3, <3>1 DEF RowIsSound
    <2>5. call \in Call /\ call.at = "fetch" /\ call.names = {r} /\ call.token = calls[c].token
      BY <1>0, <2>1, <2>3 DEF Call
    <2>6. CallKnows(call)
      BY <2>4, <2>5 DEF CallKnows, Reading
    <2> QED
      BY <1>a, <2>1, <2>5, <2>6, OneCallChanges
  <1>8. CASE Finish(c)
    <2>1. calls' = [calls EXCEPT ![c] = Idle] /\ Idle.at = "idle"
      BY <1>8 DEF Finish, Idle
    <2> QED
      BY <1>a, <2>1, IdleIsACall, OneCallChanges
  <1> QED
    BY <1>1, <1>2, <1>3, <1>4, <1>5, <1>6, <1>7, <1>8

--------------------------------------------------------------------------------
(* The statements that write rows.                                         *)

\* A row that ends holds nothing (Disconnect, and the row a reconnection deletes).
LEMMA GoneRow ==
  ASSUME NEW row \in Row
  PROVE  /\ Gone(row) \in Row /\ Gone(row).live = FALSE /\ Gone(row).ws = row.ws
         /\ Gone(row).token = NoToken /\ Gone(row).account = row.account /\ Gone(row).repos = {}
  <1> DEFINE fresh == Connected(row.ws, NoToken, FALSE)
  <1>1. fresh = [ws |-> row.ws, account |-> None, token |-> NoToken, live |-> TRUE, repos |-> {},
                 chosen |-> {}, slipped |-> FALSE, mixed |-> FALSE]
    BY DEF Connected, NoToken
  <1>2. Gone(row) = [fresh EXCEPT !.live = FALSE, !.account = row.account]
    BY DEF Gone
  <1> HIDE DEF fresh
  <1>3. Gone(row) = [ws |-> row.ws, account |-> row.account, token |-> NoToken, live |-> FALSE,
                     repos |-> {}, chosen |-> {}, slipped |-> FALSE, mixed |-> FALSE]
    BY <1>1, <1>2
  <1> QED
    BY <1>3, IdleIsACall DEF Row

\* A row just written for an account is that account's, with nothing authorised yet.
LEMMA NewRow ==
  ASSUME NEW w \in Workspaces, NEW token \in Token, token.of \in Accounts, NEW slip \in BOOLEAN,
         slip \/ Valid(token)
  PROVE  /\ Connected(w, token, slip) \in Row /\ RowIsSound(Connected(w, token, slip))
         /\ Connected(w, token, slip).live /\ Connected(w, token, slip).ws = w
  BY DEF Connected, Row, RowIsSound

\* What is asked of a row and of a call at rest does not depend on the rows.
LEMMA AtRest ==
  /\ UNCHANGED <<platform, erasures>> => \A row : RowIsSound(row) => RowIsSound(row)'
  /\ \A call : call.at = "idle" => CallKnows(call)'
  BY DEF RowIsSound, Valid, CallKnows, Reading

\* Calls that were overtaken are marked and are otherwise as they were (Overtake).
LEMMA OthersAreMarked ==
  ASSUME calls \in [Callers -> Call], NEW c \in Callers, NEW i, calls' = Overtake(calls, c, i)
  PROVE  /\ calls' \in [Callers -> Call]
         /\ calls'[c] = Idle
         /\ \A d \in Callers \ {c} :
              /\ calls'[d].at = calls[d].at /\ calls'[d].ws = calls[d].ws
              /\ calls'[d].row = calls[d].row /\ calls'[d].token = calls[d].token
              /\ calls'[d].names = calls[d].names /\ calls'[d].seen = calls[d].seen
              /\ calls[d].at \in {"refresh", "authorise"} /\ calls[d].row = i => calls'[d].late
              /\ ~(calls[d].at \in {"refresh", "authorise"} /\ calls[d].row = i) =>
                   calls'[d].late = calls[d].late
  <1>1. calls'[c] = Idle
    BY DEF Overtake
  <1>2. ASSUME NEW d \in Callers, d # c
        PROVE  /\ calls'[d] \in Call
               /\ calls'[d].at = calls[d].at /\ calls'[d].ws = calls[d].ws
               /\ calls'[d].row = calls[d].row /\ calls'[d].token = calls[d].token
               /\ calls'[d].names = calls[d].names /\ calls'[d].seen = calls[d].seen
               /\ calls[d].at \in {"refresh", "authorise"} /\ calls[d].row = i => calls'[d].late
               /\ ~(calls[d].at \in {"refresh", "authorise"} /\ calls[d].row = i) =>
                    calls'[d].late = calls[d].late
    <2>1. calls[d] \in Call
      OBVIOUS
    <2>2. CASE calls[d].at \in {"refresh", "authorise"} /\ calls[d].row = i
      <3>1. calls'[d] = [calls[d] EXCEPT !.late = TRUE]
        BY <1>2, <2>2 DEF Overtake
      <3> QED
        BY <2>1, <2>2, <3>1 DEF Call
    <2>3. CASE ~(calls[d].at \in {"refresh", "authorise"} /\ calls[d].row = i)
      <3>1. calls'[d] = calls[d]
        BY <1>2, <2>3 DEF Overtake
      <3> QED
        BY <2>1, <2>3, <3>1
    <2> QED
      BY <2>2, <2>3
  <1>3. DOMAIN calls' = Callers /\ calls' = [d \in Callers |-> calls'[d]]
    BY DEF Overtake
  <1>4. calls' \in [Callers -> Call]
    BY <1>1, <1>2, <1>3, IdleIsACall
  <1> QED
    BY <1>1, <1>2, <1>4

\* Meta Threads: the row of the workspace is written over, or there was none live.
LEMMA UpsertStep == ASSUME IInv, NEW c \in Callers, Upsert(c) PROVE IInv'
  <1> DEFINE w == calls[c].ws
             new == Connected(w, calls[c].token, calls[c].late)
  <1>0. /\ calls \in [Callers -> Call] /\ calls[c] \in Call /\ rows \in Seq(Row)
        /\ \A d \in Callers : CallKnows(calls[d])
        /\ \A i \in DOMAIN rows : rows[i] \in Row /\ RowIsSound(rows[i])
    BY RowIds DEF IInv, TypeOK
  <1>1. PICK i \in Conflicting(w) :
          /\ rows' = [j \in DOMAIN rows \cup {i} |-> IF j = i THEN new ELSE rows[j]]
          /\ calls' = Overtake(calls, c, i)
    BY DEF Upsert, Overwrite
  <1>2. platform = "meta_threads" /\ calls[c].at = "connect" /\ UNCHANGED <<platform, erasures>>
    BY DEF Upsert
  <1>3. new \in Row /\ RowIsSound(new) /\ new.live /\ new.ws = w /\ w \in Workspaces
    <2>1. /\ w \in Workspaces /\ calls[c].token \in Token /\ calls[c].token.of \in Accounts
          /\ calls[c].late \in BOOLEAN /\ (calls[c].late \/ Valid(calls[c].token))
      BY <1>0, <1>2 DEF CallKnows, Call
    <2> QED
      BY <2>1, NewRow
  <1> HIDE DEF new, w
  <1>4. i \in LiveIn(w) \/ (LiveIn(w) = {} /\ i = Len(rows) + 1)
    BY DEF Conflicting
  <1>5. /\ rows' \in Seq(Row) /\ DOMAIN rows' = DOMAIN rows \cup {i}
        /\ Len(rows') = Len(rows) \/ Len(rows') = Len(rows) + 1
        /\ rows'[i] = new /\ \A j \in DOMAIN rows : j # i => rows'[j] = rows[j]
    <2>1. /\ rows' = [j \in DOMAIN rows \cup {i} |-> rows'[j]]
          /\ \A j \in DOMAIN rows \cup {i} : rows'[j] \in Row
      BY <1>0, <1>1, <1>3
    <2>2. CASE i \in DOMAIN rows
      <3>1. DOMAIN rows \cup {i} = DOMAIN rows
        BY <2>2
      <3> QED
        BY <1>0, <1>1, <2>1, <2>2, <3>1, SameRows
    <2>3. CASE i = Len(rows) + 1
      BY <1>0, <1>1, <2>1, <2>3, OneMoreRow
    <2> QED
      BY <1>4, <2>2, <2>3 DEF LiveIn
  <1>6. /\ calls' \in [Callers -> Call] /\ calls'[c].at = "idle"
        /\ \A d \in Callers \ {c} :
             /\ calls'[d].at = calls[d].at /\ calls'[d].ws = calls[d].ws
             /\ calls'[d].row = calls[d].row /\ calls'[d].token = calls[d].token
             /\ calls'[d].names = calls[d].names
             /\ calls[d].at = "refresh" /\ calls[d].row = i => calls'[d].late
             /\ calls[d].at # "refresh" \/ calls[d].row # i =>
                  calls'[d].late = calls[d].late \/ calls[d].at = "authorise"
    BY <1>0, <1>1, OthersAreMarked DEF Idle
  <1>7. TypeOK'
    <2>1. \A j \in DOMAIN rows' : rows'[j] \in Row
      BY <1>0, <1>3, <1>5
    <2> QED
      BY <1>2, <1>6, <2>1 DEF IInv, TypeOK
  <1>8. OneLive'
    <2>1. \A j \in DOMAIN rows : j # i /\ rows[j].live => rows[j].ws # w
      BY <1>4 DEF IInv, OneLive, LiveIn
    <2>2. \A j \in DOMAIN rows' : j = i \/ (j \in DOMAIN rows /\ rows'[j] = rows[j])
      BY <1>5
    <2> QED
      BY <1>3, <1>5, <2>1, <2>2 DEF IInv, OneLive
  <1>9. Len(rows') + Cardinality(Connecting') <= MaxRows
    <2>1. Connecting' \subseteq Connecting \ {c} /\ c \in Connecting
      BY <1>2, <1>6 DEF Connecting
    <2>2. /\ Cardinality(Connecting') + 1 <= Cardinality(Connecting)
          /\ Cardinality(Connecting) \in Nat /\ Cardinality(Connecting') \in Nat
      BY <2>1, Reserved DEF Connecting
    <2>3. /\ Len(rows) \in Nat /\ Len(rows) + Cardinality(Connecting) <= MaxRows
          /\ Len(rows') = Len(rows) \/ Len(rows') = Len(rows) + 1
      BY <1>0, <1>5, RowIds DEF IInv
    <2> HIDE DEF IInv
    <2> QED
      BY ONLY <2>2, <2>3, ConnectionAssumption DEF ConnectionAssumption
  <1>10. \A j \in DOMAIN rows' : RowIsSound(rows[j])'
    <2>1. \A j \in DOMAIN rows' : RowIsSound(rows'[j])
      BY <1>0, <1>3, <1>5
    <2> QED
      BY <1>2, <2>1, AtRest DEF RowIsSound, Valid
  <1>11. ASSUME NEW d \in Callers PROVE CallKnows(calls[d])'
    <2>1. CASE d = c
      BY <1>6, <2>1 DEF CallKnows, Reading
    <2>2. CASE d # c
      <3>1. CASE calls[d].at \notin Reading
        BY <1>0, <1>2, <1>5, <1>6, <2>2, <3>1 DEF CallKnows, Reading, Valid
      <3>2. CASE calls[d].at \in Reading
        <4>1. calls[d].at = "refresh" /\ calls[d].row \in DOMAIN rows
          BY <1>0, <1>2, <3>2 DEF CallKnows
        <4>2. CASE calls[d].row = i
          BY <1>0, <1>2, <1>5, <1>6, <2>2, <4>1, <4>2 DEF CallKnows, Reading, Valid
        <4>3. CASE calls[d].row # i
          BY <1>0, <1>2, <1>5, <1>6, <2>2, <4>1, <4>3 DEF CallKnows, Reading, Valid
        <4> QED
          BY <4>2, <4>3
      <3> QED
        BY <3>1, <3>2
    <2> QED
      BY <2>1, <2>2
  <1> QED
    BY <1>5, <1>7, <1>8, <1>9, <1>10, <1>11 DEF IInv

\* A row that ended is sound whatever follows.
LEMMA GoneIsSound ==
  ASSUME NEW row \in Row
  PROVE  RowIsSound(Gone(row)) /\ RowIsSound(Gone(row))'
  <1>1. ASSUME NEW x \in Row, ~x.live, x.token = NoToken, x.repos = {}
        PROVE  RowIsSound(x) /\ RowIsSound(x)'
    BY <1>1 DEF RowIsSound
  <1> QED
    BY <1>1, GoneRow DEF RowIsSound, Valid

\* What a call knows survives the end of the row it read, and rows it did not read.
LEMMA KnowsStill ==
  ASSUME NEW call, CallKnows(call), UNCHANGED <<platform, erasures>>,
         DOMAIN rows \subseteq DOMAIN rows',
         \A i \in DOMAIN rows : rows'[i] = rows[i] \/ ~rows'[i].live
  PROVE  CallKnows(call)'
  <1>1. CASE call.at \notin Reading
    BY <1>1 DEF CallKnows, Valid
  <1>2. CASE call.at \in Reading
    <2>1. call.row \in DOMAIN rows
      BY <1>2 DEF CallKnows
    <2>2. CASE rows'[call.row] = rows[call.row]
      BY <1>2, <2>1, <2>2 DEF CallKnows, Valid, Reading
    <2>3. CASE ~rows'[call.row].live
      BY <1>2, <2>1, <2>3 DEF CallKnows, Valid, Reading
    <2> QED
      BY <2>1, <2>2, <2>3
  <1> QED
    BY <1>1, <1>2

\* GitHub: the workspace's row is deleted and another inserted in its place.
LEMMA InsertConnectionStep == ASSUME IInv, NEW c \in Callers, InsertConnection(c) PROVE IInv'
  <1> DEFINE k == calls[c].row
             new == Connected(calls[c].ws, calls[c].token, FALSE)
  <1>0. /\ calls \in [Callers -> Call] /\ calls[c] \in Call /\ rows \in Seq(Row)
        /\ \A d \in Callers : CallKnows(calls[d])
        /\ \A i \in DOMAIN rows : rows[i] \in Row /\ RowIsSound(rows[i])
    BY RowIds DEF IInv, TypeOK
  <1>1. /\ calls[c].at = "replace" /\ LiveIn(calls[c].ws) \subseteq {k}
        /\ rows' = Append([i \in DOMAIN rows |-> IF i = k THEN Gone(rows[i]) ELSE rows[i]], new)
        /\ calls' = [calls EXCEPT ![c] = Idle]
        /\ UNCHANGED <<platform, erasures>>
    BY DEF InsertConnection, Cascade
  <1>2. calls[c].ws \in Workspaces /\ calls[c].token.of \in Accounts /\ Valid(calls[c].token)
    BY <1>0, <1>1 DEF CallKnows
  <1>3. new \in Row /\ RowIsSound(new) /\ new.live /\ new.ws = calls[c].ws
    <2>1. calls[c].token \in Token
      BY <1>0 DEF Call
    <2> QED
      BY <1>2, <2>1, NewRow
  <1> HIDE DEF new
  <1>4. /\ rows' \in Seq(Row) /\ Len(rows) \in Nat /\ Len(rows') = Len(rows) + 1
        /\ DOMAIN rows' = DOMAIN rows \cup {Len(rows) + 1} /\ rows'[Len(rows) + 1] = new
        /\ \A i \in DOMAIN rows : rows'[i] = IF i = k THEN Gone(rows[i]) ELSE rows[i]
    <2> DEFINE kept == [i \in DOMAIN rows |-> IF i = k THEN Gone(rows[i]) ELSE rows[i]]
    <2>1. Len(rows) \in Nat /\ DOMAIN rows = 1..Len(rows)
      BY <1>0, RowIds
    <2>2. \A i \in DOMAIN rows : kept[i] \in Row
      BY <1>0, GoneRow
    <2>3. kept \in [1..Len(rows) -> Row]
      BY <2>1, <2>2
    <2>4. \A i \in DOMAIN rows : kept[i] = IF i = k THEN Gone(rows[i]) ELSE rows[i]
      OBVIOUS
    <2>5. rows' = Append(kept, new)
      BY <1>1
    <2> HIDE DEF kept
    <2>6. kept \in Seq(Row) /\ Len(kept) = Len(rows)
      BY <2>1, <2>3
    <2>7. rows' \in Seq(Row) /\ Len(rows') = Len(rows) + 1 /\ rows'[Len(rows) + 1] = new
          /\ \A i \in 1..Len(rows) : rows'[i] = kept[i]
      BY <1>3, <2>1, <2>5, <2>6
    <2>8. DOMAIN rows' = 1..(Len(rows) + 1)
      BY <2>7
    <2> QED
      BY <2>1, <2>4, <2>7, <2>8
  <1>5. /\ calls' \in [Callers -> Call] /\ calls'[c] = Idle
        /\ \A d \in Callers \ {c} : calls'[d] = calls[d]
    BY <1>0, <1>1, IdleIsACall
  <1>6. \A i \in DOMAIN rows :
          /\ rows'[i] \in Row /\ RowIsSound(rows'[i]) /\ rows'[i].ws = rows[i].ws
          /\ rows'[i].live => rows[i].live /\ i # k
          /\ rows'[i] = rows[i] \/ ~rows'[i].live
    BY <1>0, <1>4, GoneRow, GoneIsSound
  <1>7. TypeOK'
    <2>1. \A j \in DOMAIN rows' : rows'[j] \in Row
      BY <1>3, <1>4, <1>6
    <2> QED
      BY <1>1, <1>5, <2>1 DEF IInv, TypeOK
  <1>8. OneLive'
    <2>0. \A i \in DOMAIN rows : rows[i].live /\ rows[i].ws = calls[c].ws => i = k
      BY <1>1 DEF LiveIn
    <2>1. \A i \in DOMAIN rows : rows'[i].live => rows'[i].ws # calls[c].ws
      BY <1>6, <2>0
    <2> QED
      BY <1>3, <1>4, <1>6, <2>1 DEF IInv, OneLive
  <1>9. Len(rows') + Cardinality(Connecting') <= MaxRows
    <2>1. Connecting' \subseteq Connecting \ {c} /\ c \in Connecting
      BY <1>1, <1>5 DEF Connecting, Idle
    <2>2. /\ Cardinality(Connecting') + 1 <= Cardinality(Connecting)
          /\ Cardinality(Connecting) \in Nat /\ Cardinality(Connecting') \in Nat
      BY <2>1, Reserved DEF Connecting
    <2>3. Len(rows) + Cardinality(Connecting) <= MaxRows
      BY DEF IInv
    <2> QED
      BY ONLY <1>4, <2>2, <2>3, ConnectionAssumption DEF ConnectionAssumption
  <1>10. \A j \in DOMAIN rows' : RowIsSound(rows[j])'
    <2>1. \A j \in DOMAIN rows' : RowIsSound(rows'[j])
      BY <1>3, <1>4, <1>6
    <2> QED
      BY <1>1, <2>1, AtRest DEF RowIsSound, Valid
  <1>11. ASSUME NEW d \in Callers PROVE CallKnows(calls[d])'
    <2>1. CASE d = c
      BY <1>5, <2>1 DEF CallKnows, Reading, Idle
    <2>2. CASE d # c
      <3>1. \A x : CallKnows(x) => CallKnows(x)'
        BY <1>1, <1>4, <1>6, KnowsStill
      <3>2. CallKnows(calls'[d])
        BY <1>0, <1>5, <2>2
      <3> QED
        BY <3>1, <3>2 DEF CallKnows, Valid
    <2> QED
      BY <2>1, <2>2
  <1> QED
    BY <1>4, <1>7, <1>8, <1>9, <1>10, <1>11 DEF IInv

\* Disconnecting ends the workspace's row and leaves the others.
LEMMA DisconnectStep == ASSUME IInv, Disconnect PROVE IInv'
  <1>0. /\ calls \in [Callers -> Call] /\ rows \in Seq(Row)
        /\ \A d \in Callers : CallKnows(calls[d])
        /\ \A i \in DOMAIN rows : rows[i] \in Row /\ RowIsSound(rows[i])
    BY RowIds DEF IInv, TypeOK
  <1>1. PICK w \in Workspaces :
          rows' = [i \in DOMAIN rows |-> IF i \in LiveIn(w) THEN Gone(rows[i]) ELSE rows[i]]
    BY DEF Disconnect, Removed
  <1>2. UNCHANGED <<platform, calls, erasures>>
    BY DEF Disconnect
  <1>3. \A i \in DOMAIN rows :
          /\ rows'[i] \in Row /\ RowIsSound(rows'[i]) /\ rows'[i].ws = rows[i].ws
          /\ rows'[i].live => rows[i].live
          /\ rows'[i] = rows[i] \/ ~rows'[i].live
    BY <1>0, <1>1, GoneRow, GoneIsSound
  <1>4. rows' \in Seq(Row) /\ Len(rows') = Len(rows) /\ DOMAIN rows' = DOMAIN rows
    BY <1>0, <1>1, <1>3, SameRows
  <1>5. TypeOK'
    BY <1>2, <1>3, <1>4 DEF IInv, TypeOK
  <1>6. OneLive'
    BY <1>3, <1>4 DEF IInv, OneLive
  <1>7. Len(rows') + Cardinality(Connecting') <= MaxRows
    BY <1>2, <1>4 DEF IInv, Connecting
  <1>8. \A j \in DOMAIN rows' : RowIsSound(rows[j])'
    BY <1>2, <1>3, <1>4, AtRest DEF RowIsSound, Valid
  <1>9. ASSUME NEW d \in Callers PROVE CallKnows(calls[d])'
    <2>1. \A x : CallKnows(x) => CallKnows(x)'
      BY <1>2, <1>3, <1>4, KnowsStill
    <2>2. CallKnows(calls'[d])
      BY <1>0, <1>2
    <2> QED
      BY <2>1, <2>2 DEF CallKnows, Valid
  <1> QED
    BY <1>4, <1>5, <1>6, <1>7, <1>8, <1>9 DEF IInv

\* Meta's callback ends every row of the account, and what was read of it is late.
LEMMA DisconnectByAccountIDStep == ASSUME IInv, DisconnectByAccountID PROVE IInv'
  <1>0. /\ calls \in [Callers -> Call] /\ rows \in Seq(Row)
        /\ erasures \in [Accounts -> 0..MaxErasures]
        /\ \A d \in Callers : CallKnows(calls[d])
        /\ \A i \in DOMAIN rows : rows[i] \in Row /\ RowIsSound(rows[i])
    BY RowIds DEF IInv, TypeOK
  <1>1. PICK a \in Accounts :
          /\ erasures[a] < MaxErasures
          /\ erasures' = [erasures EXCEPT ![a] = @ + 1]
          /\ rows' = [i \in DOMAIN rows |-> IF NamedBy(i, a) THEN Gone(rows[i]) ELSE rows[i]]
          /\ calls' = [c \in Callers |->
                         IF calls[c].at \in {"connect", "refresh"} /\ calls[c].token.of = a
                         THEN [calls[c] EXCEPT !.late = TRUE] ELSE calls[c]]
    BY DEF DisconnectByAccountID, Removed
  <1>2. platform = "meta_threads" /\ UNCHANGED platform
    BY DEF DisconnectByAccountID
  <1>3. erasures' \in [Accounts -> 0..MaxErasures] /\ \A b \in Accounts : b # a => erasures'[b] = erasures[b]
    BY <1>0, <1>1
  <1>4. \A i \in DOMAIN rows :
          /\ rows'[i] \in Row /\ rows'[i].ws = rows[i].ws
          /\ rows'[i].live => rows'[i] = rows[i] /\ rows[i].account # a
          /\ rows'[i] = Gone(rows[i]) \/ (rows'[i] = rows[i] /\ (rows[i].live => rows[i].account # a))
    BY <1>0, <1>1, GoneRow DEF NamedBy
  <1>5. rows' \in Seq(Row) /\ Len(rows') = Len(rows) /\ DOMAIN rows' = DOMAIN rows
    BY <1>0, <1>1, <1>4, SameRows
  <1>6. ASSUME NEW d \in Callers
        PROVE  /\ calls'[d] \in Call /\ calls'[d].at = calls[d].at /\ calls'[d].ws = calls[d].ws
               /\ calls'[d].row = calls[d].row /\ calls'[d].token = calls[d].token
               /\ calls'[d].names = calls[d].names
               /\ IF calls[d].at \in {"connect", "refresh"} /\ calls[d].token.of = a
                  THEN calls'[d].late ELSE calls'[d] = calls[d]
    <2>1. calls[d] \in Call
      BY <1>0
    <2>2. CASE calls[d].at \in {"connect", "refresh"} /\ calls[d].token.of = a
      <3>1. calls'[d] = [calls[d] EXCEPT !.late = TRUE]
        BY <1>1, <2>2
      <3> QED
        BY <2>1, <2>2, <3>1 DEF Call
    <2>3. CASE ~(calls[d].at \in {"connect", "refresh"} /\ calls[d].token.of = a)
      <3>1. calls'[d] = calls[d]
        BY <1>1, <2>3
      <3> QED
        BY <2>1, <2>3, <3>1
    <2> QED
      BY <2>2, <2>3
  <1>7. TypeOK'
    <2>1. calls' \in [Callers -> Call]
      BY <1>1, <1>6
    <2> QED
      BY <1>2, <1>3, <1>4, <1>5, <2>1 DEF IInv, TypeOK
  <1>8. OneLive'
    BY <1>4, <1>5 DEF IInv, OneLive
  <1>9. Len(rows') + Cardinality(Connecting') <= MaxRows
    <2>1. Connecting' = Connecting
      BY <1>6 DEF Connecting
    <2> QED
      BY <1>5, <2>1 DEF IInv
  <1>10. ASSUME NEW j \in DOMAIN rows' PROVE RowIsSound(rows[j])'
    <2>1. j \in DOMAIN rows /\ rows[j] \in Row /\ RowIsSound(rows[j])
      BY <1>0, <1>5
    <2>2. CASE rows'[j] = Gone(rows[j])
      <3>1. RowIsSound(Gone(rows[j]))
        BY <2>1, GoneIsSound
      <3>2. ~rows'[j].live
        BY <2>1, <2>2, GoneRow
      <3> QED
        BY <1>2, <2>2, <3>1, <3>2 DEF RowIsSound
    <2>3. CASE rows'[j] = rows[j] /\ (rows[j].live => rows[j].account # a)
      BY <1>2, <1>3, <2>1, <2>3 DEF RowIsSound, Valid
    <2> QED
      BY <1>4, <2>1, <2>2, <2>3
  <1>11. ASSUME NEW d \in Callers PROVE CallKnows(calls[d])'
    <2>1. CallKnows(calls[d]) /\ calls[d].at # "replace"
      BY <1>0, <1>2 DEF CallKnows
    <2>2. CASE calls[d].at = "connect"
      BY <1>2, <1>3, <1>6, <2>1, <2>2 DEF CallKnows, Reading, Valid
    <2>3. CASE calls[d].at = "refresh"
      <3>1. calls[d].row \in DOMAIN rows /\ calls[d].token.of \in Accounts
        BY <2>1, <2>3 DEF CallKnows, Reading
      <3>2. CASE ~rows'[calls[d].row].live
        BY <1>2, <1>5, <1>6, <2>3, <3>1, <3>2 DEF CallKnows, Reading
      <3>3. CASE rows'[calls[d].row].live
        <4>1. rows'[calls[d].row] = rows[calls[d].row] /\ rows[calls[d].row].account # a
          BY <1>4, <3>1, <3>3
        <4>2. calls[d].token.of = a \/ calls'[d] = calls[d]
          BY <1>6
        <4> QED
          BY <1>2, <1>3, <1>5, <1>6, <2>1, <2>3, <3>1, <3>3, <4>1, <4>2 DEF CallKnows, Reading, Valid
      <3> QED
        BY <3>2, <3>3
    <2>4. CASE calls[d].at \notin {"connect", "refresh"}
      BY <1>2, <1>6, <2>1, <2>4 DEF CallKnows, Reading
    <2> QED
      BY <2>2, <2>3, <2>4
  <1> QED
    BY <1>5, <1>7, <1>8, <1>9, <1>10, <1>11 DEF IInv

\* A refreshed token replaces the one of the row that was read.
LEMMA ReplaceTokenStep == ASSUME IInv, NEW c \in Callers, ReplaceToken(c) PROVE IInv'
  <1> DEFINE k == calls[c].row
  <1>0. /\ calls \in [Callers -> Call] /\ calls[c] \in Call /\ rows \in Seq(Row)
        /\ \A d \in Callers : CallKnows(calls[d])
        /\ \A i \in DOMAIN rows : rows[i] \in Row /\ RowIsSound(rows[i])
    BY RowIds DEF IInv, TypeOK
  <1>1. /\ calls[c].at = "refresh" /\ rows[k].live
        /\ rows' = [rows EXCEPT ![k] = [rows[k] EXCEPT !.token = calls[c].token,
                                                       !.slipped = @ \/ calls[c].late]]
        /\ calls' = [calls EXCEPT ![c] = Idle]
        /\ UNCHANGED <<platform, erasures>>
    BY DEF ReplaceToken, StillLive
  <1>2. /\ k \in DOMAIN rows /\ platform = "meta_threads"
        /\ calls[c].token \in Token /\ calls[c].token.of \in Accounts /\ calls[c].late \in BOOLEAN
        /\ ~calls[c].late /\ ~rows[k].slipped =>
             calls[c].token.of = rows[k].account /\ Valid(calls[c].token)
    <2>1. CallKnows(calls[c]) /\ platform \in {"github", "meta_threads"}
      BY <1>0 DEF IInv, TypeOK
    <2> QED
      BY <1>0, <1>1, <2>1 DEF CallKnows, Reading, Call
  <1>3. /\ rows'[k] \in Row /\ rows'[k].live /\ rows'[k].token = calls[c].token
        /\ rows'[k].ws = rows[k].ws /\ rows'[k].account = rows[k].account
        /\ rows'[k].repos = rows[k].repos /\ rows'[k].chosen = rows[k].chosen
        /\ rows'[k].mixed = rows[k].mixed
        /\ ~rows'[k].slipped => ~rows[k].slipped /\ ~calls[c].late
    <2>1. rows'[k] = [rows[k] EXCEPT !.token = calls[c].token, !.slipped = @ \/ calls[c].late]
      BY <1>1, <1>2
    <2>2. rows[k] \in Row /\ rows[k].live
      BY <1>0, <1>1, <1>2
    <2> HIDE DEF k
    <2> QED
      BY <1>2, <2>1, <2>2 DEF Row
  <1>4. \A i \in DOMAIN rows : i # k => rows'[i] = rows[i]
    BY <1>1
  <1> HIDE DEF k
  <1>5. RowIsSound(rows'[k])
    <2>1. RowIsSound(rows[k]) /\ rows[k].live
      BY <1>0, <1>1, <1>2
    <2>2. rows[k].repos = {}
      BY <1>2, <2>1 DEF RowIsSound
    <2> QED
      BY <1>2, <1>3, <2>1, <2>2 DEF RowIsSound
  <1>6. rows' \in Seq(Row) /\ Len(rows') = Len(rows) /\ DOMAIN rows' = DOMAIN rows
    <2>1. rows' = [i \in DOMAIN rows |-> rows'[i]]
      BY <1>1
    <2>2. \A i \in DOMAIN rows : rows'[i] \in Row
      BY <1>0, <1>3, <1>4
    <2> QED
      BY <1>0, <2>1, <2>2, SameRows
  <1>7. /\ calls' \in [Callers -> Call] /\ calls'[c] = Idle
        /\ \A d \in Callers \ {c} : calls'[d] = calls[d]
    BY <1>0, <1>1, IdleIsACall
  <1>8. TypeOK'
    <2>1. \A i \in DOMAIN rows' : rows'[i] \in Row
      BY <1>0, <1>3, <1>4, <1>6
    <2> QED
      BY <1>1, <1>7, <2>1 DEF IInv, TypeOK
  <1>9. OneLive'
    <2>1. \A i \in DOMAIN rows : rows'[i].ws = rows[i].ws /\ (rows'[i].live => rows[i].live)
      BY <1>1, <1>3, <1>4 DEF k
    <2> QED
      BY <1>6, <2>1 DEF IInv, OneLive
  <1>10. Len(rows') + Cardinality(Connecting') <= MaxRows
    <2>1. Connecting' = Connecting
      BY <1>1, <1>7 DEF Connecting, Idle
    <2> QED
      BY <1>6, <2>1 DEF IInv
  <1>11. \A j \in DOMAIN rows' : RowIsSound(rows[j])'
    <2>1. \A j \in DOMAIN rows' : RowIsSound(rows'[j])
      BY <1>0, <1>4, <1>5, <1>6
    <2> QED
      BY <1>1, <2>1, AtRest DEF RowIsSound, Valid
  <1>12. ASSUME NEW d \in Callers PROVE CallKnows(calls[d])'
    <2>1. CASE d = c
      BY <1>7, <2>1 DEF CallKnows, Reading, Idle
    <2>2. CASE d # c
      <3>1. CallKnows(calls[d]) /\ calls'[d] = calls[d]
        BY <1>0, <1>7, <2>2
      <3>2. CASE calls[d].at \notin Reading
        BY <1>1, <1>2, <3>1, <3>2 DEF CallKnows, Valid
      <3>3. CASE calls[d].at \in Reading
        <4>1. calls[d].at = "refresh" /\ calls[d].row \in DOMAIN rows
          BY <1>2, <3>1, <3>3 DEF CallKnows
        <4>2. rows'[calls[d].row].account = rows[calls[d].row].account
              /\ (rows'[calls[d].row].live => rows[calls[d].row].live)
              /\ (~rows'[calls[d].row].slipped => ~rows[calls[d].row].slipped)
          BY <1>1, <1>3, <1>4, <4>1 DEF k
        <4> QED
          BY <1>1, <1>2, <1>6, <3>1, <4>1, <4>2 DEF CallKnows, Reading, Valid
      <3> QED
        BY <3>2, <3>3
    <2> QED
      BY <2>1, <2>2
  <1> QED
    BY <1>6, <1>8, <1>9, <1>10, <1>11, <1>12 DEF IInv

\* GitHub: the choice is stored beside what another one left, and who read is late.
LEMMA InsertRepositoriesStep == ASSUME IInv, NEW c \in Callers, InsertRepositories(c) PROVE IInv'
  <1> DEFINE k == calls[c].row
             left == rows[k].repos \ calls[c].seen
             forgetting == [d \in Callers |-> IF calls[d].row = k
                                              THEN [calls[d] EXCEPT !.seen = @ \cap left] ELSE calls[d]]
  <1>0. /\ calls \in [Callers -> Call] /\ calls[c] \in Call /\ rows \in Seq(Row)
        /\ \A d \in Callers : calls[d] \in Call /\ CallKnows(calls[d])
        /\ \A i \in DOMAIN rows : rows[i] \in Row /\ RowIsSound(rows[i])
    BY RowIds DEF IInv, TypeOK
  <1>1. /\ calls[c].at = "authorise"
        /\ calls[c].names # {} => rows[k].live
        /\ rows' = [rows EXCEPT ![k] = [rows[k] EXCEPT !.repos = left \cup calls[c].names,
                                          !.chosen = calls[c].names, !.mixed = calls[c].late]]
        /\ calls' = Overtake(forgetting, c, k)
        /\ UNCHANGED <<platform, erasures>>
    BY DEF InsertRepositories
  <1>2. /\ k \in DOMAIN rows /\ platform = "github" /\ calls[c].names \in SUBSET Repos
        /\ calls[c].late \in BOOLEAN
        /\ rows[k].live => calls[c].names \subseteq Accessible[rows[k].token.of]
        /\ rows[k].live /\ ~calls[c].late => left = {}
    <2>1. CallKnows(calls[c]) /\ platform \in {"github", "meta_threads"}
      BY <1>0 DEF IInv, TypeOK
    <2>2. k \in DOMAIN rows /\ platform = "github"
      BY <1>1, <2>1 DEF CallKnows, Reading
    <2>3. /\ rows[k].live => calls[c].names \subseteq Accessible[rows[k].token.of]
          /\ rows[k].live /\ ~calls[c].late => rows[k].repos \subseteq calls[c].seen
      BY <1>1, <2>1 DEF CallKnows, Reading
    <2> QED
      BY <1>0, <2>2, <2>3 DEF Call
  <1>3. rows[k] \in Row /\ RowIsSound(rows[k]) /\ left \subseteq rows[k].repos /\ left \in SUBSET Repos
    BY <1>0, <1>2 DEF Row
  <1>4. /\ rows'[k] \in Row /\ rows'[k].live = rows[k].live /\ rows'[k].token = rows[k].token
        /\ rows'[k].ws = rows[k].ws /\ rows'[k].account = rows[k].account
        /\ rows'[k].slipped = rows[k].slipped
        /\ rows'[k].repos = left \cup calls[c].names /\ rows'[k].chosen = calls[c].names
        /\ rows'[k].mixed = calls[c].late
    <2>1. rows'[k] = [rows[k] EXCEPT !.repos = left \cup calls[c].names,
                                     !.chosen = calls[c].names, !.mixed = calls[c].late]
      BY <1>1, <1>2
    <2> HIDE DEF k, left
    <2> QED
      BY <1>2, <1>3, <2>1 DEF Row
  <1>5. \A i \in DOMAIN rows : i # k => rows'[i] = rows[i]
    BY <1>1
  <1>6. /\ forgetting \in [Callers -> Call]
        /\ \A d \in Callers :
             /\ forgetting[d].at = calls[d].at /\ forgetting[d].ws = calls[d].ws
             /\ forgetting[d].row = calls[d].row /\ forgetting[d].token = calls[d].token
             /\ forgetting[d].names = calls[d].names /\ forgetting[d].late = calls[d].late
             /\ calls[d].row # k => forgetting[d] = calls[d]
    <2>1. ASSUME NEW d \in Callers
          PROVE  /\ forgetting[d] \in Call
                 /\ forgetting[d].at = calls[d].at /\ forgetting[d].ws = calls[d].ws
                 /\ forgetting[d].row = calls[d].row /\ forgetting[d].token = calls[d].token
                 /\ forgetting[d].names = calls[d].names /\ forgetting[d].late = calls[d].late
                 /\ calls[d].row # k => forgetting[d] = calls[d]
      <3>1. calls[d] \in Call /\ forgetting[d] = IF calls[d].row = k
                                  THEN [calls[d] EXCEPT !.seen = @ \cap left] ELSE calls[d]
        BY <1>0
      <3> HIDE DEF forgetting, left, k
      <3>2. CASE calls[d].row = k
        <4>1. forgetting[d] = [calls[d] EXCEPT !.seen = @ \cap left]
          BY <3>1, <3>2
        <4> QED
          BY <3>1, <3>2, <4>1 DEF Call
      <3>3. CASE calls[d].row # k
        BY <3>1, <3>3
      <3> QED
        BY <3>2, <3>3
    <2>2. forgetting = [d \in Callers |-> forgetting[d]]
      OBVIOUS
    <2> HIDE DEF forgetting
    <2> QED
      BY <2>1, <2>2
  <1> HIDE DEF forgetting, left, k
  <1>7. /\ calls' \in [Callers -> Call] /\ calls'[c] = Idle
        /\ \A d \in Callers \ {c} :
             /\ calls'[d].at = calls[d].at /\ calls'[d].ws = calls[d].ws
             /\ calls'[d].row = calls[d].row /\ calls'[d].token = calls[d].token
             /\ calls'[d].names = calls[d].names
             /\ calls[d].at = "authorise" /\ calls[d].row = k => calls'[d].late
             /\ calls[d].row # k => calls'[d] = calls[d]
             /\ calls[d].at \notin {"refresh", "authorise"} => calls'[d].late = calls[d].late
    <2>1. ASSUME NEW d \in Callers
          PROVE  calls'[d] = IF d = c THEN Idle
                             ELSE IF forgetting[d].at \in {"refresh", "authorise"} /\ forgetting[d].row = k
                                  THEN [forgetting[d] EXCEPT !.late = TRUE] ELSE forgetting[d]
      BY <1>1 DEF Overtake
    <2>2. ASSUME NEW d \in Callers, d # c
          PROVE  /\ calls'[d] \in Call
                 /\ calls'[d].at = calls[d].at /\ calls'[d].ws = calls[d].ws
                 /\ calls'[d].row = calls[d].row /\ calls'[d].token = calls[d].token
                 /\ calls'[d].names = calls[d].names
                 /\ calls[d].at = "authorise" /\ calls[d].row = k => calls'[d].late
                 /\ calls[d].row # k => calls'[d] = calls[d]
                 /\ calls[d].at \notin {"refresh", "authorise"} => calls'[d].late = calls[d].late
      <3>1. forgetting[d] \in Call
        BY <1>6
      <3>2. CASE forgetting[d].at \in {"refresh", "authorise"} /\ forgetting[d].row = k
        <4>1. calls'[d] = [forgetting[d] EXCEPT !.late = TRUE]
          BY <2>1, <2>2, <3>2
        <4>2. calls'[d] \in Call /\ calls'[d].late = TRUE
              /\ calls'[d].at = forgetting[d].at /\ calls'[d].ws = forgetting[d].ws
              /\ calls'[d].row = forgetting[d].row /\ calls'[d].token = forgetting[d].token
              /\ calls'[d].names = forgetting[d].names
          BY <3>1, <4>1 DEF Call
        <4> QED
          BY <1>6, <3>2, <4>2
      <3>3. CASE ~(forgetting[d].at \in {"refresh", "authorise"} /\ forgetting[d].row = k)
        <4>1. calls'[d] = forgetting[d]
          BY <2>1, <2>2, <3>3
        <4> QED
          BY <1>6, <3>1, <3>3, <4>1
      <3> QED
        BY <3>2, <3>3
    <2>3. calls' = [d \in Callers |-> calls'[d]]
      BY <1>1 DEF Overtake
    <2>4. calls'[c] = Idle
      BY <2>1
    <2>5. calls' \in [Callers -> Call]
      BY <2>2, <2>3, <2>4, IdleIsACall
    <2> QED
      BY <2>2, <2>4, <2>5
  <1>8. RowIsSound(rows'[k])
    <2>1. CASE ~rows[k].live
      <3>1. rows[k].token = NoToken /\ left = {} /\ calls[c].names = {}
        BY <1>1, <1>3, <2>1 DEF RowIsSound
      <3> QED
        BY <1>2, <1>4, <2>1, <3>1 DEF RowIsSound
    <2>2. CASE rows[k].live
      <3>1. /\ rows'[k].repos \subseteq Accessible[rows[k].token.of]
            /\ ~rows'[k].mixed => rows'[k].repos = rows'[k].chosen
        BY <1>2, <1>3, <1>4, <2>2 DEF RowIsSound
      <3> QED
        BY <1>2, <1>3, <1>4, <2>2, <3>1 DEF RowIsSound
    <2> QED
      BY <2>1, <2>2
  <1>9. rows' \in Seq(Row) /\ Len(rows') = Len(rows) /\ DOMAIN rows' = DOMAIN rows
    <2>1. rows' = [i \in DOMAIN rows |-> rows'[i]]
      BY <1>1
    <2>2. \A i \in DOMAIN rows : rows'[i] \in Row
      BY <1>0, <1>4, <1>5
    <2> QED
      BY <1>0, <2>1, <2>2, SameRows
  <1>10. TypeOK'
    <2>1. \A i \in DOMAIN rows' : rows'[i] \in Row
      BY <1>0, <1>4, <1>5, <1>9
    <2> QED
      BY <1>1, <1>7, <2>1 DEF IInv, TypeOK
  <1>11. OneLive'
    <2>1. \A i \in DOMAIN rows : rows'[i].ws = rows[i].ws /\ rows'[i].live = rows[i].live
      BY <1>4, <1>5
    <2> QED
      BY <1>9, <2>1 DEF IInv, OneLive
  <1>12. Len(rows') + Cardinality(Connecting') <= MaxRows
    <2>1. Connecting' = Connecting
      BY <1>1, <1>7 DEF Connecting, Idle
    <2> QED
      BY <1>9, <2>1 DEF IInv
  <1>13. \A j \in DOMAIN rows' : RowIsSound(rows[j])'
    <2>1. \A j \in DOMAIN rows' : RowIsSound(rows'[j])
      BY <1>0, <1>5, <1>8, <1>9
    <2> QED
      BY <1>1, <2>1, AtRest DEF RowIsSound, Valid
  <1>14. ASSUME NEW d \in Callers PROVE CallKnows(calls[d])'
    <2>1. CASE d = c
      BY <1>7, <2>1 DEF CallKnows, Reading, Idle
    <2>2. CASE d # c
      <3>1. CallKnows(calls[d]) /\ calls[d].at # "refresh"
        BY <1>0, <1>2 DEF CallKnows, Reading
      <3>2. CASE calls[d].at \notin Reading
        BY <1>1, <1>2, <1>7, <1>9, <2>2, <3>1, <3>2 DEF CallKnows, Reading, Valid
      <3>3. CASE calls[d].at \in Reading /\ calls[d].row = k
        BY <1>1, <1>2, <1>4, <1>7, <1>9, <2>2, <3>1, <3>3 DEF CallKnows, Reading, Valid
      <3>4. CASE calls[d].at \in Reading /\ calls[d].row # k
        <4>1. calls'[d] = calls[d] /\ calls[d].row \in DOMAIN rows /\ rows'[calls[d].row] = rows[calls[d].row]
          BY <1>5, <1>7, <2>2, <3>1, <3>4 DEF CallKnows
        <4> QED
          BY <1>1, <1>2, <1>9, <3>1, <3>4, <4>1 DEF CallKnows, Reading, Valid
      <3> QED
        BY <3>2, <3>3, <3>4
    <2> QED
      BY <2>1, <2>2
  <1> QED
    BY <1>9, <1>10, <1>11, <1>12, <1>13, <1>14 DEF IInv

--------------------------------------------------------------------------------
(* The theorems.                                                           *)

\* The inductive invariant of the connected accounts, however the calls interleave.
THEOREM Inductive == Spec => []IInv
  <1>1. Init => IInv
    <2> SUFFICES ASSUME Init PROVE IInv
      OBVIOUS
    <2>1. rows = <<>> /\ rows \in Seq(Row) /\ Len(rows) = 0 /\ DOMAIN rows = {}
      BY DEF Init
    <2>2. calls \in [Callers -> Call] /\ \A d \in Callers : calls[d] = Idle
      BY IdleIsACall DEF Init
    <2>3. Cardinality(Connecting) = 0
      <3>1. Connecting = {}
        BY <2>2 DEF Connecting, Idle
      <3> QED
        BY <3>1, FS_EmptySet
    <2>4. TypeOK /\ OneLive
      BY <2>1, <2>2 DEF Init, TypeOK, OneLive
    <2> QED
      BY <2>1, <2>2, <2>3, <2>4, IdleIsACall DEF IInv
  <1>2. IInv /\ [Next]_vars => IInv'
    <2> SUFFICES ASSUME IInv, [Next]_vars PROVE IInv'
      OBVIOUS
    <2>1. CASE Disconnect
      BY <2>1, DisconnectStep
    <2>2. CASE DisconnectByAccountID
      BY <2>2, DisconnectByAccountIDStep
    <2>3. ASSUME NEW c \in Callers,
                 \/ Connect(c) \/ DeletePrevious(c) \/ Refresh(c) \/ SetAuthorizedRepositories(c)
                 \/ ClearRepositories(c) \/ Resolve(c) \/ FindByFullName(c) \/ Finish(c)
          PROVE  IInv'
      BY <2>3, ReadingStep
    <2>4. ASSUME NEW c \in Callers,
                 Upsert(c) \/ InsertConnection(c) \/ ReplaceToken(c) \/ InsertRepositories(c)
          PROVE  IInv'
      BY <2>4, UpsertStep, InsertConnectionStep, ReplaceTokenStep, InsertRepositoriesStep
    <2>5. CASE UNCHANGED vars
      BY <2>5 DEF vars, IInv, TypeOK, OneLive, Connecting, RowIsSound, CallKnows, Reading, Valid
    <2> QED
      BY <2>1, <2>2, <2>3, <2>4, <2>5 DEF Next
  <1> QED
    BY <1>1, <1>2, PTL DEF Spec

\* Every reachable row, call and withdrawal is well typed.
THEOREM TypeCorrect == Spec => []TypeOK
  <1>1. IInv => TypeOK
    BY DEF IInv
  <1> QED
    BY <1>1, Inductive, PTL

\* A workspace has at most one connection, with its own account's token; one that ended
\* holds nothing; what is authorised was chosen for it and a tool reads nothing else,
\* unless the row was last written by a call that another had overtaken.
THEOREM ConnectionsHold == Spec => []ConnectionsAreSound
  <1>1. IInv => ConnectionsAreSound
    <2> SUFFICES ASSUME IInv PROVE ConnectionsAreSound
      OBVIOUS
    <2>1. OneConnection
      <3> SUFFICES ASSUME NEW w \in Workspaces PROVE Cardinality(LiveIn(w)) <= 1
        BY DEF OneConnection
      <3>1. CASE LiveIn(w) = {}
        BY <3>1, FS_EmptySet
      <3>2. CASE LiveIn(w) # {}
        <4>1. PICK i \in LiveIn(w) : TRUE
          BY <3>2
        <4>2. LiveIn(w) = {i}
          BY <4>1 DEF IInv, OneLive, LiveIn
        <4>3. Cardinality({i}) = 1
          BY FS_Singleton
        <4> QED
          BY <4>2, <4>3
      <3> QED
        BY <3>1, <3>2
    <2>2. EndedHoldsNothing /\ TokenIsTheAccounts /\ AuthorisedIsAccessible /\ ChosenIsAuthorised
      BY DEF IInv, RowIsSound, EndedHoldsNothing, TokenIsTheAccounts, AuthorisedIsAccessible,
             ChosenIsAuthorised
    <2>3. ReadsStayInside
      BY DEF IInv, CallKnows, ReadsStayInside
    <2> QED
      BY <2>1, <2>2, <2>3 DEF ConnectionsAreSound, IInv
  <1> QED
    BY <1>1, Inductive, PTL

\* No call revives a connection that ended, nor gives it a token that was on its way.
THEOREM EndingHolds == Spec => EndedForGood
  <1> DEFINE Kept == \A i \in DOMAIN rows :
         ~rows[i].live => rows'[i].live = FALSE /\ rows'[i].token = rows[i].token /\ rows'[i].account = rows[i].account
  <1>1. IInv /\ [Next]_vars => [Kept]_vars
    <2> SUFFICES ASSUME IInv, [Next]_vars PROVE [Kept]_vars
      OBVIOUS
    <2>0. /\ \A i \in DOMAIN rows : rows[i] \in Row /\ RowIsSound(rows[i])
          /\ rows \in Seq(Row) /\ \A d \in Callers : CallKnows(calls[d])
      BY RowIds DEF IInv
    <2>1. CASE Disconnect
      BY <2>1 DEF Disconnect, LiveIn
    <2>2. CASE DisconnectByAccountID
      BY <2>2 DEF DisconnectByAccountID, NamedBy
    <2>3. ASSUME NEW c \in Callers, Upsert(c) PROVE Kept
      <3>1. PICK i \in Conflicting(calls[c].ws) :
              rows' = [j \in DOMAIN rows \cup {i} |->
                         IF j = i THEN Overwrite(i, Connected(calls[c].ws, calls[c].token, calls[c].late))
                         ELSE rows[j]]
        BY <2>3 DEF Upsert
      <3>2. i \in DOMAIN rows => rows[i].live
        BY <2>0, RowIds DEF Conflicting, LiveIn
      <3> QED
        BY <2>0, <3>1, <3>2 DEF Row
    <2>4. ASSUME NEW c \in Callers, InsertConnection(c) PROVE Kept
      <3> DEFINE kept == [i \in DOMAIN rows |-> IF i = calls[c].row THEN Gone(rows[i]) ELSE rows[i]]
      <3>1. PICK new : rows' = Append(kept, new)
        BY <2>4 DEF InsertConnection
      <3>2. DOMAIN rows = 1..Len(rows) /\ Len(rows) \in Nat /\ \A i \in DOMAIN rows : kept[i] \in Row
        BY <2>0, RowIds, GoneRow
      <3>3. kept \in Seq(Row) /\ Len(kept) = Len(rows)
        BY <3>2
      <3>4. \A i \in DOMAIN rows : rows'[i] = kept[i]
        <4> HIDE DEF kept
        <4> QED
          BY <3>1, <3>2, <3>3
      <3>5. \A i \in DOMAIN rows : ~rows[i].live =>
              kept[i].live = FALSE /\ kept[i].token = rows[i].token /\ kept[i].account = rows[i].account
        BY <2>0, GoneRow DEF RowIsSound, Row
      <3> QED
        BY <3>4, <3>5
    <2>5. ASSUME NEW c \in Callers, ReplaceToken(c) PROVE Kept
      <3>1. \A i \in DOMAIN rows : ~rows[i].live => rows'[i] = rows[i]
        BY <2>5 DEF ReplaceToken, StillLive
      <3> QED
        BY <2>0, <3>1 DEF Row
    <2>6. ASSUME NEW c \in Callers, InsertRepositories(c) PROVE Kept
      <3> DEFINE k == calls[c].row
      <3>1. \A i \in DOMAIN rows : i # k => rows'[i] = rows[i]
        BY <2>6 DEF InsertRepositories
      <3>2. PICK repos, chosen, mixed :
              rows' = [rows EXCEPT ![k] = [rows[k] EXCEPT !.repos = repos, !.chosen = chosen, !.mixed = mixed]]
        BY <2>6 DEF InsertRepositories
      <3>3. k \in DOMAIN rows => /\ rows'[k].live = rows[k].live /\ rows'[k].token = rows[k].token
                                 /\ rows'[k].account = rows[k].account
        BY <2>0, <3>2 DEF Row
      <3> QED
        BY <2>0, <3>1, <3>3 DEF Row
    <2>7. ASSUME NEW c \in Callers,
                 \/ Connect(c) \/ DeletePrevious(c) \/ Refresh(c) \/ SetAuthorizedRepositories(c)
                 \/ ClearRepositories(c) \/ Resolve(c) \/ FindByFullName(c) \/ Finish(c)
          PROVE  Kept
      <3>1. rows' = rows
        BY <2>7 DEF Connect, DeletePrevious, Refresh, SetAuthorizedRepositories, ClearRepositories,
                    Resolve, FindByFullName, Finish
      <3> QED
        BY <2>0, <3>1 DEF Row
    <2>8. CASE UNCHANGED vars
      BY <2>8
    <2> QED
      BY <2>1, <2>2, <2>3, <2>4, <2>5, <2>6, <2>7, <2>8 DEF Next
  <1> QED
    BY <1>1, Inductive, PTL DEF Spec, EndedForGood
================================================================================
