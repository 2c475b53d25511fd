--------------------------- MODULE ConversationProofs ---------------------------
(***************************************************************************)
(* Proofs about Conversation and TurnContext for any runners, work, window,*)
(* transcript, trail and budgets.  Of Conversation two claims live side by *)
(* side: what holds however operations interleave (RowsFit to Told), and what*)
(* holds while they follow one another (OneByOne).  Both rest on the window:*)
(* what is newer than something in it is in it too.  Of TurnContext they are*)
(* what the two selections return, and that nothing a turn was told changes*)
(* while the trail grows.                                                  *)
(***************************************************************************)
EXTENDS Conversation, TurnContext, FiniteLemmas, FiniteSetTheorems, SequenceTheorems, TLAPS

USE ConversationAssumption DEF ConversationAssumption

--------------------------------------------------------------------------------
(* The window.                                                             *)

\* What the types say of one row.
LEMMA RowTypes ==
  ASSUME TypeOK, NEW m \in messages
  PROVE  /\ m.seq \in Nat /\ m.seq >= 1 /\ m.seq <= MaxSeq /\ m.asked \in Nat /\ m.turn \in Nat
         /\ m.role \in {"user", "assistant"} /\ m.executed \subseteq Items
         /\ m.turn \in 0..MaxTurns /\ next \in Nat
  BY DEF TypeOK, Message

\* What is newer than a row of the window is in the window.
LEMMA NewerIsSeen ==
  ASSUME TypeOK, RowsFit, NEW m \in Window, NEW n \in messages, n.seq >= m.seq
  PROVE  n \in Window
  <1> DEFINE After(x) == {k \in messages : k.seq > x.seq}
  <1>1. m \in messages /\ IsFiniteSet(After(m)) /\ Cardinality(After(m)) < HistoryLimit
    BY FS_Subset DEF Window, RowsFit
  <1>2. After(n) \subseteq After(m)
    <2>1. m.seq \in Nat /\ n.seq \in Nat /\ \A k \in messages : k.seq \in Nat
      BY <1>1, RowTypes
    <2> QED
      BY <2>1
  <1>3. Cardinality(After(n)) <= Cardinality(After(m)) /\ Cardinality(After(n)) \in Nat
        /\ Cardinality(After(m)) \in Nat
    <2> HIDE DEF After
    <2> QED
      BY <1>1, <1>2, FS_Subset, FS_CardinalityType
  <1>4. Cardinality(After(n)) < HistoryLimit
    <2> HIDE DEF After
    <2> QED
      BY <1>1, <1>3
  <1> QED
    BY <1>4 DEF Window

\* The last HistoryLimit rows stored are in the window.
LEMMA RecentIsSeen ==
  ASSUME TypeOK, RowsFit, NEW m \in messages, next <= m.seq + HistoryLimit
  PROVE  m \in Window
  <1> DEFINE After == {k \in messages : k.seq > m.seq}
             Room == (m.seq + 1)..(next - 1)
             f == [k \in After |-> k.seq]
  <1>1. \A k \in messages : k.seq \in Nat /\ k.seq < next
    BY RowTypes DEF RowsFit
  <1>2. m.seq \in Nat /\ next \in Nat /\ m.seq < next
    BY <1>1, RowTypes
  <1>3. f \in Injection(After, Room)
    <2>1. f \in [After -> Room]
      BY <1>1, <1>2
    <2>2. \A j, k \in After : f[j] = f[k] => j = k
      BY DEF RowsFit
    <2> QED
      BY <2>1, <2>2 DEF Injection, IsInjective
  <1>4. IsFiniteSet(Room) /\ Cardinality(Room) = next - 1 - m.seq
    <2>1. m.seq + 1 \in Int /\ next - 1 \in Int /\ ~(m.seq + 1 > next)
      BY <1>2
    <2>2. IsFiniteSet(Room) /\ Cardinality(Room) = IF m.seq + 1 > next - 1 THEN 0 ELSE (next - 1) - (m.seq + 1) + 1
      BY <2>1, FS_Interval
    <2> HIDE DEF Room
    <2> QED
      BY <1>2, <2>2
  <1>5. IsFiniteSet(After) /\ Cardinality(After) <= Cardinality(Room)
    <2> HIDE DEF After, Room, f
    <2> QED
      BY <1>3, <1>4, FS_Injection
  <1>6. Cardinality(After) \in Nat
    BY <1>5, FS_CardinalityType
  <1>7. Cardinality(After) < HistoryLimit
    <2> HIDE DEF After, Room, f
    <2> QED
      BY <1>2, <1>4, <1>5, <1>6
  <1> QED
    BY <1>7 DEF Window

\* The question of the window is its last user row, or 0.
LEMMA LastQuestionIs ==
  ASSUME TypeOK, RowsFit
  PROVE  /\ LastQuestion \in 0..MaxSeq
         /\ \A u \in Users(Window) : u.seq <= LastQuestion
         /\ LastQuestion # 0 => \E q \in Users(Window) : q.seq = LastQuestion
  <1> DEFINE S == {m.seq : m \in Users(Window)}
             T == S \cup {0}
  <1>1. S \subseteq 0..MaxSeq
    <2>1. \A m \in Users(Window) : m \in messages
      BY DEF Users, Window
    <2>2. \A m \in Users(Window) : m.seq \in 0..MaxSeq
      BY <2>1, RowTypes
    <2> QED
      BY <2>2
  <1>2. T \subseteq 0..MaxSeq /\ T # {} /\ MaxSeq \in Nat
    BY <1>1
  <1>3. \E x \in T : \A y \in T : y <= x
    <2> HIDE DEF T
    <2> QED
      BY <1>2, HighestExists
  <1>4. \E x \in T : \A y \in S : y <= x
    BY <1>3
  <1>5. LastQuestion = CHOOSE x \in T : \A y \in S : y <= x
    BY DEF LastQuestion, Newest
  <1>6. LastQuestion \in T /\ \A y \in S : y <= LastQuestion
    <2> HIDE DEF S, T
    <2> QED
      BY <1>4, <1>5
  <1> QED
    BY <1>2, <1>6

--------------------------------------------------------------------------------
(* Types.                                                                  *)

\* What can have been executed once n turns have begun.
Executions(n) == [turn : 1..n, after : SUBSET (1..n), missed : SUBSET (0..MaxTurns),
                  target : 0..MaxSeq, question : 0..MaxSeq, item : Items, reported : BOOLEAN]

\* What the types say of what was executed and resumed.
LEMMA HistoryTypes ==
  ASSUME TypeOK
  PROVE  /\ \A v \in executed : /\ v.turn \in 1..turns /\ v.after \subseteq 1..turns
                                /\ v.missed \subseteq 0..MaxTurns /\ v.target \in 0..MaxSeq
                                /\ v.question \in 0..MaxSeq /\ v.item \in Items
                                /\ v.reported \in BOOLEAN
                                /\ v = [turn |-> v.turn, after |-> v.after, missed |-> v.missed,
                                        target |-> v.target, question |-> v.question,
                                        item |-> v.item, reported |-> v.reported]
         /\ \A x \in resumes : /\ x.target \in 1..MaxSeq /\ x.turn \in 1..turns
                               /\ x = [target |-> x.target, turn |-> x.turn]
  BY DEF TypeOK

\* A turn begins: the history of the others stays typed.
LEMMA BeginTypes ==
  ASSUME TypeOK, NEW r \in Runners, NEW doing \in {"receipts", "context"},
         NEW q \in 0..MaxSeq, NEW t \in 0..MaxSeq, q # 0,
         MayBegin(r), Begin(r, doing, q, t), UNCHANGED <<told, did, failed, missed, ended, executed, failures, lost>>
  PROVE  /\ turns' \in 0..MaxTurns /\ turns' = turns + 1 /\ turns \in Nat
         /\ at' \in [Runners -> {"idle", "receipts", "context", "working"}]
         /\ question' \in [Runners -> 0..MaxSeq] /\ target' \in [Runners -> 0..MaxSeq]
         /\ \A s \in Runners : at'[s] # "idle" => question'[s] # 0
         /\ turn' \in [Runners -> 0..turns'] /\ ended' \subseteq 1..turns'
         /\ seen' \in [Runners -> SUBSET (1..turns')]
         /\ executed' \subseteq Executions(turns')
         /\ resumes \subseteq [target : 1..MaxSeq, turn : 1..turns']
         /\ {overlapped', lost'} \subseteq BOOLEAN
  <1>1. turns \in 0..MaxTurns /\ turns < MaxTurns /\ turns' = turns + 1
    BY DEF TypeOK, MayBegin, Begin
  <1>2. 1..turns \subseteq 1..turns' /\ 0..turns \subseteq 0..turns' /\ turns + 1 \in 0..turns'
        /\ turns' \in 0..MaxTurns /\ turns \in Nat
    BY <1>1
  <1>3. /\ at' = [at EXCEPT ![r] = doing] /\ question' = [question EXCEPT ![r] = q]
        /\ target' = [target EXCEPT ![r] = t] /\ turn' = [turn EXCEPT ![r] = turns + 1]
        /\ seen' = [seen EXCEPT ![r] = ended] /\ overlapped' = (overlapped \/ ~Alone)
    BY DEF Begin, Beside
  <1>4. /\ turn \in [Runners -> 0..turns'] /\ seen \in [Runners -> SUBSET (1..turns')]
        /\ ended \in SUBSET (1..turns')
    BY <1>2 DEF TypeOK
  <1>5. executed' \subseteq Executions(turns')
    BY <1>2, HistoryTypes DEF Executions
  <1>6. resumes \subseteq [target : 1..MaxSeq, turn : 1..turns']
    BY <1>2, HistoryTypes
  <1>7. turn' \in [Runners -> 0..turns'] /\ seen' \in [Runners -> SUBSET (1..turns')]
    BY <1>2, <1>3, <1>4
  <1>8. /\ at' \in [Runners -> {"idle", "receipts", "context", "working"}]
        /\ question' \in [Runners -> 0..MaxSeq] /\ target' \in [Runners -> 0..MaxSeq]
        /\ \A s \in Runners : at'[s] # "idle" => question'[s] # 0
    BY <1>3 DEF TypeOK
  <1> QED
    BY <1>1, <1>2, <1>3, <1>4, <1>5, <1>6, <1>7, <1>8 DEF TypeOK

\* A row is stored: rows stay typed, and the next seq is one more.
LEMMA StoredTypes ==
  ASSUME TypeOK, NEW role \in {"user", "assistant"}, NEW finish \in Finish \cup {"none"},
         NEW writes \in SUBSET Items, NEW fails \in SUBSET Items,
         NEW q \in 0..MaxSeq, NEW t \in 0..MaxTurns, Stored(role, finish, writes, fails, q, t)
  PROVE  /\ messages' \subseteq Message /\ next' \in 1..(MaxSeq + 1)
         /\ next \in 1..MaxSeq /\ next' = next + 1
  <1>1. next \in 1..MaxSeq /\ next' = next + 1
    BY DEF Stored, TypeOK
  <1>2. next' \in 1..(MaxSeq + 1)
    BY <1>1
  <1>3. messages' \subseteq Message
    BY <1>1 DEF Stored, TypeOK, Message
  <1> QED
    BY <1>1, <1>2, <1>3

\* An operation ends: its turn is over.
LEMMA EndTypes ==
  ASSUME IInv, NEW r \in Runners, Active(r), End(r)
  PROVE  /\ at' \in [Runners -> {"idle", "receipts", "context", "working"}]
         /\ question' \in [Runners -> 0..MaxSeq] /\ target' \in [Runners -> 0..MaxSeq]
         /\ \A s \in Runners : at'[s] # "idle" => question'[s] # 0
         /\ {told', did', failed'} \subseteq [Runners -> SUBSET Items]
         /\ missed' \in [Runners -> SUBSET (0..MaxTurns)]
         /\ turn' \in [Runners -> 0..turns] /\ ended' \subseteq 1..turns
         /\ seen' \in [Runners -> SUBSET (1..turns)]
  <1>1. turn[r] \in 0..turns /\ turn[r] > 0 /\ turns \in Nat
    BY DEF IInv, TypeOK, RunsFit
  <1>2. turn[r] \in 1..turns /\ 0 \in 0..turns /\ 0 \in 0..MaxSeq
    BY <1>1
  <1>3. at[r] \in {"idle", "receipts", "context", "working"} /\ TypeOK
    BY DEF IInv, TypeOK
  <1>4. /\ at' \in [Runners -> {"idle", "receipts", "context", "working"}]
        /\ question' \in [Runners -> 0..MaxSeq] /\ target' \in [Runners -> 0..MaxSeq]
    BY <1>2, <1>3 DEF End, TypeOK
  <1>5. \A s \in Runners : at'[s] # "idle" => question'[s] # 0
    BY <1>3 DEF End, TypeOK
  <1>6. {told', did', failed'} \subseteq [Runners -> SUBSET Items]
    BY <1>3 DEF End, TypeOK
  <1>7. missed' \in [Runners -> SUBSET (0..MaxTurns)] /\ seen' \in [Runners -> SUBSET (1..turns)]
    BY <1>3 DEF End, TypeOK
  <1>8. turn' \in [Runners -> 0..turns] /\ ended' \subseteq 1..turns
    BY <1>2, <1>3 DEF End, TypeOK
  <1> QED
    BY <1>4, <1>5, <1>6, <1>7, <1>8

\* What is shown are records, whatever the budget.
LEMMA ShownAreRecords ==
  ASSUME NEW records
  PROVE  Shown(records) \subseteq records
  BY DEF Shown

\* An answer is stored with its lines or without any; what it executed is lost only then.
LEMMA KeptOrLost ==
  ASSUME TypeOK, NEW r \in Runners, PersistAssistant(r)
  PROVE  \E finish \in Finish, writes \in {did[r], {}}, fails \in {failed[r], {}} :
           /\ Stored("assistant", finish, writes, fails, question[r], turn[r])
           /\ lost' = (lost \/ writes # did[r])
  <1>1. PICK finish \in Finish :
          \/ /\ Stored("assistant", finish, did[r], failed[r], question[r], turn[r])
             /\ lost' = lost
          \/ /\ Stored("assistant", finish, {}, {}, question[r], turn[r])
             /\ lost' = (lost \/ did[r] # {})
    BY DEF PersistAssistant
  <1>2. lost \in BOOLEAN
    BY DEF TypeOK
  <1>3. CASE Stored("assistant", finish, did[r], failed[r], question[r], turn[r]) /\ lost' = lost
    <2>1. lost' = (lost \/ did[r] # did[r])
      BY <1>2, <1>3
    <2> QED
      BY <1>3, <2>1
  <1>4. CASE Stored("assistant", finish, {}, {}, question[r], turn[r]) /\ lost' = (lost \/ did[r] # {})
    <2>1. lost' = (lost \/ {} # did[r])
      BY <1>4
    <2> QED
      BY <1>4, <2>1
  <1> QED
    BY <1>1, <1>3, <1>4

\* Every step keeps the types.
LEMMA TypeKept ==
  ASSUME IInv, Next
  PROVE  TypeOK'
  <1> USE DEF IInv
  <1>1. CASE TruncateFrom
    BY <1>1 DEF TruncateFrom, DeleteFromSeq, Beside, Alone, runVars, TypeOK
  <1>2. ASSUME NEW r \in Runners, Send(r) PROVE TypeOK'
    <2>1. MayBegin(r) /\ Stored("user", "none", {}, {}, next, turns + 1) /\ Begin(r, "context", next, 0)
          /\ UNCHANGED <<told, did, failed, missed, ended, executed, failures, resumes, lost>>
      BY <1>2 DEF Send
    <2>2. next \in 1..MaxSeq /\ next # 0 /\ next \in 0..MaxSeq /\ 0 \in 0..MaxSeq
      BY <2>1 DEF Stored, TypeOK
    <2>3. turns + 1 \in 0..MaxTurns
      BY <2>1 DEF MayBegin, TypeOK
    <2>4. messages' \subseteq Message /\ next' \in 1..(MaxSeq + 1)
      BY <2>1, <2>2, <2>3, StoredTypes
    <2>5. /\ {told', did', failed'} \subseteq [Runners -> SUBSET Items]
          /\ missed' \in [Runners -> SUBSET (0..MaxTurns)] /\ failures' \in 0..MaxFailures
      BY <2>1 DEF TypeOK
    <2> QED
      BY <2>1, <2>2, <2>4, <2>5, BeginTypes DEF TypeOK, Executions
  <1>3. ASSUME NEW r \in Runners, ResumeTurn(r) PROVE TypeOK'
    <2>1. PICK want \in 1..MaxSeq :
            /\ MayBegin(r) /\ ResumeTarget(want) /\ Begin(r, "receipts", LastQuestion, want)
            /\ resumes' = resumes \cup {[target |-> want, turn |-> turns + 1]}
            /\ UNCHANGED <<messages, next, told, did, failed, missed, ended, executed, failures, lost>>
      BY <1>3 DEF ResumeTurn
    <2>2. LastQuestion \in 0..MaxSeq /\ LastQuestion # 0
      BY <2>1, LastQuestionIs DEF ResumeTarget
    <2>3. want \in 0..MaxSeq
      BY <2>1
    <2> HIDE DEF IInv
    <2>a. TypeOK
      BY DEF IInv
    <2>4. /\ turns' \in 0..MaxTurns /\ turns' = turns + 1 /\ turns \in Nat
          /\ at' \in [Runners -> {"idle", "receipts", "context", "working"}]
          /\ question' \in [Runners -> 0..MaxSeq] /\ target' \in [Runners -> 0..MaxSeq]
          /\ \A s \in Runners : at'[s] # "idle" => question'[s] # 0
          /\ turn' \in [Runners -> 0..turns'] /\ ended' \subseteq 1..turns'
          /\ seen' \in [Runners -> SUBSET (1..turns')]
          /\ executed' \subseteq Executions(turns')
          /\ resumes \subseteq [target : 1..MaxSeq, turn : 1..turns']
          /\ {overlapped', lost'} \subseteq BOOLEAN
      BY <2>1, <2>2, <2>3, <2>a, BeginTypes
    <2>5. turns + 1 \in 1..turns'
      BY <2>4
    <2>6. resumes' \subseteq [target : 1..MaxSeq, turn : 1..turns']
      BY <2>1, <2>4, <2>5
    <2>7. /\ {told', did', failed'} \subseteq [Runners -> SUBSET Items]
          /\ missed' \in [Runners -> SUBSET (0..MaxTurns)] /\ failures' \in 0..MaxFailures
          /\ messages' \subseteq Message /\ next' \in 1..(MaxSeq + 1)
      BY <2>1, <2>a DEF TypeOK
    <2> QED
      BY <2>4, <2>6, <2>7 DEF TypeOK, Executions
  <1>4. ASSUME NEW r \in Runners, ReadReceipts(r) PROVE TypeOK'
    <2>1. Receipt(r) \subseteq Items
      BY RowTypes DEF Receipt
    <2>2. /\ told' \in [Runners -> SUBSET Items]
          /\ at' \in [Runners -> {"idle", "receipts", "context", "working"}]
          /\ at[r] # "idle" /\ \A s \in Runners \ {r} : at'[s] = at[s]
      BY <1>4, <2>1 DEF ReadReceipts, TypeOK
    <2>3. UNCHANGED <<messages, next, question, target, did, failed, missed, seen, turn, history>>
      BY <1>4 DEF ReadReceipts
    <2>4. \A s \in Runners : at'[s] # "idle" => question'[s] # 0
      BY <2>2, <2>3 DEF TypeOK
    <2> QED
      BY <2>2, <2>3, <2>4 DEF TypeOK, history
  <1>8. ASSUME NEW r \in Runners, BuildContext(r) \/ RecordsUnread(r) PROVE TypeOK'
    <2>1. PICK writes \in SUBSET Items, left \in SUBSET messages : Tell(r, writes, left)
      <3>1. Records(r) \subseteq messages /\ Shown(Records(r)) \subseteq Records(r)
        BY ShownAreRecords DEF Records, Window
      <3>2. Evidence(r) \subseteq Items
        BY <3>1, RowTypes DEF Evidence
      <3>3. CASE BuildContext(r)
        BY <3>1, <3>2, <3>3 DEF BuildContext
      <3>4. CASE RecordsUnread(r)
        BY <3>1, <3>4 DEF RecordsUnread
      <3> QED
        BY <1>8, <3>3, <3>4
    <2>2. /\ told' \in [Runners -> SUBSET Items]
          /\ at' \in [Runners -> {"idle", "receipts", "context", "working"}]
          /\ at[r] # "idle" /\ \A s \in Runners \ {r} : at'[s] = at[s]
      BY <2>1 DEF Tell, TypeOK
    <2>3. missed' \in [Runners -> SUBSET (0..MaxTurns)]
      <3>1. {m.turn : m \in left} \subseteq 0..MaxTurns
        BY RowTypes
      <3> QED
        BY <2>1, <3>1 DEF Tell, TypeOK
    <2>4. UNCHANGED <<messages, next, question, target, did, failed, seen, turn, history>>
      BY <2>1 DEF Tell
    <2>5. \A s \in Runners : at'[s] # "idle" => question'[s] # 0
      BY <2>2, <2>4 DEF TypeOK
    <2> QED
      BY <2>2, <2>3, <2>4, <2>5 DEF TypeOK, history
  <1>5. ASSUME NEW r \in Runners, ExecuteWrite(r) \/ WriteFails(r) PROVE TypeOK'
    <2>1. PICK i \in Items, reported \in BOOLEAN :
            executed' = executed \/ executed' = executed \cup {Execution(r, i, reported)}
      BY <1>5 DEF ExecuteWrite, WriteFails
    <2>2. at[r] = "working" /\ UNCHANGED <<messages, next, at, question, target, told, missed, seen,
                                           turn, turns, ended, resumes, overlapped, lost>>
      BY <1>5 DEF ExecuteWrite, WriteFails
    <2>3. turn[r] \in 1..turns
      BY <2>2 DEF TypeOK, RunsFit, Active
    <2>4. executed' \subseteq Executions(turns)
      <3>1. Execution(r, i, reported) \in Executions(turns)
        BY <2>3 DEF TypeOK, Execution, Executions
      <3>2. executed \subseteq Executions(turns)
        BY DEF TypeOK, Executions
      <3> QED
        BY <2>1, <3>1, <3>2
    <2>5. {did', failed'} \subseteq [Runners -> SUBSET Items] /\ failures' \in 0..MaxFailures
      <3>1. CASE ExecuteWrite(r)
        BY <3>1 DEF ExecuteWrite, TypeOK
      <3>2. CASE WriteFails(r)
        <4>1. did' = did /\ failures' = failures + 1 /\ failures < MaxFailures
          BY <3>2 DEF WriteFails
        <4>2. failed' \in [Runners -> SUBSET Items]
          BY <3>2 DEF WriteFails, TypeOK
        <4>3. failures' \in 0..MaxFailures
          BY <4>1 DEF TypeOK
        <4> QED
          BY <4>1, <4>2, <4>3 DEF TypeOK
      <3> QED
        BY <1>5, <3>1, <3>2
    <2> QED
      BY <2>2, <2>4, <2>5 DEF TypeOK, Executions
  <1>6. ASSUME NEW r \in Runners, PersistAssistant(r) PROVE TypeOK'
    <2>1. PICK finish \in Finish, writes \in {did[r], {}}, fails \in {failed[r], {}} :
            /\ Stored("assistant", finish, writes, fails, question[r], turn[r])
            /\ lost' = (lost \/ writes # did[r])
      BY <1>6, KeptOrLost
    <2>2. Active(r) /\ End(r) /\ UNCHANGED <<turns, executed, failures, resumes, overlapped>>
      BY <1>6 DEF PersistAssistant, Active
    <2>3. /\ writes \in SUBSET Items /\ fails \in SUBSET Items
          /\ question[r] \in 0..MaxSeq /\ turn[r] \in 0..MaxTurns
      BY DEF TypeOK
    <2>4. messages' \subseteq Message /\ next' \in 1..(MaxSeq + 1)
      BY <2>1, <2>3, StoredTypes
    <2> QED
      BY <2>1, <2>2, <2>4, EndTypes DEF TypeOK
  <1>7. ASSUME NEW r \in Runners, TurnLost(r) PROVE TypeOK'
    BY <1>7, EndTypes DEF TurnLost, TypeOK, Active
  <1> QED
    BY <1>1, <1>2, <1>3, <1>4, <1>5, <1>6, <1>7, <1>8 DEF Next

--------------------------------------------------------------------------------
(* Rows go.                                                                *)

\* Truncating from a question takes its answers with it, and what they recorded is of
\* no question that is left.
LEMMA TruncateKeeps ==
  ASSUME IInv, TruncateFrom
  PROVE  IInv'
  <1>0. TypeOK /\ RowsFit /\ TypeOK'
    BY TypeKept DEF IInv, Next
  <1>1. PICK p \in Users(messages) : messages' = {m \in messages : m.seq < p.seq}
    BY DEF TruncateFrom, DeleteFromSeq
  <1>2. /\ UNCHANGED <<next, at, question, target, told, did, missed, seen, turn>>
        /\ UNCHANGED <<turns, ended, executed, resumes, lost>>
        /\ overlapped' = (overlapped \/ ~Alone)
    BY DEF TruncateFrom, runVars, Beside
  <1>3. /\ messages' \subseteq messages
        /\ Users(messages') \subseteq Users(messages) /\ Answers' \subseteq Answers
        /\ \A m \in messages : m \in messages' <=> m.seq < p.seq
    BY <1>1 DEF Users, Answers
  <1>4. p \in messages /\ p.role = "user"
    BY DEF Users
  <1>5. RowsFit'
    <2>1. IsFiniteSet(messages')
      BY <1>0, <1>3, FS_Subset DEF RowsFit
    <2> QED
      BY <1>0, <1>2, <1>3, <2>1 DEF RowsFit
  <1>6. RunsFit'
    BY <1>2 DEF IInv, RunsFit, Active
  <1>7. ExecutionsFit'
    BY <1>2, <1>3 DEF IInv, ExecutionsFit, Active
  <1>8. \A r \in Runners : Told(r)'
    BY <1>2, <1>3 DEF IInv, Told
  <1>9. WritesAreNotRepeated' /\ ResumedOnce'
    <2>1. NeverRepeatedInTurn' /\ ResumedOnce'
      BY <1>2 DEF IInv, WritesAreNotRepeated, NeverRepeatedInTurn, ResumedOnce
    <2>2. RecordedNeverRepeated' /\ ReceiptNeverRepeated'
      BY <1>2, <1>3 DEF IInv, WritesAreNotRepeated, RecordedNeverRepeated, ReceiptNeverRepeated
    <2> QED
      BY <2>1, <2>2 DEF WritesAreNotRepeated
  <1>10. ASSUME ~overlapped' PROVE OneByOne'
    <2>1. ~overlapped /\ OneByOne /\ \A r \in Runners : ~Active(r) /\ ~Active(r)'
      BY <1>2, <1>10 DEF IInv, Alone, Active
    <2>2. \A m \in messages : m.seq \in Nat
      BY <1>0, RowTypes
    <2>3. ASSUME NEW m \in Answers'
          PROVE  /\ \E q \in Users(messages') : q.seq = m.asked
                 /\ \A u \in Users(messages') : u.seq < m.seq => u.seq <= m.asked
      <3>1. m \in Answers /\ m \in messages /\ m.seq < p.seq
        BY <1>3, <2>3 DEF Answers
      <3>2. PICK q \in Users(messages) : q.seq = m.asked
        BY <2>1, <3>1 DEF OneByOne
      <3>3. q \in messages /\ q.role = "user" /\ q.seq < m.seq
        BY <1>0, <3>1, <3>2 DEF Users, RowsFit
      <3>4. q.seq < p.seq
        BY <1>4, <2>2, <3>1, <3>3
      <3>5. q \in Users(messages')
        BY <1>3, <3>3, <3>4 DEF Users
      <3> QED
        BY <1>3, <2>1, <3>1, <3>2, <3>5 DEF OneByOne
    <2>4. ASSUME NEW n \in Answers, n \notin messages' PROVE n.seq > p.seq
      <3>1. n \in messages /\ n.role = "assistant" /\ ~(n.seq < p.seq)
        BY <1>3, <2>4 DEF Answers
      <3>2. n.seq # p.seq
        BY <1>0, <1>4, <3>1 DEF RowsFit
      <3> QED
        BY <1>4, <2>2, <3>1, <3>2
    <2>5. ASSUME ~lost, NEW v \in executed, v.reported PROVE OnRecord(v)'
      <3>1. \/ \A u \in Users(messages) : u.seq # v.question
            \/ \E m \in Answers : m.turn = v.turn /\ v.item \in m.executed
        BY <2>1, <2>5 DEF OneByOne, OnRecord
      <3>2. CASE \A u \in Users(messages) : u.seq # v.question
        BY <1>3, <3>2 DEF OnRecord
      <3>3. ASSUME NEW m \in Answers, m.turn = v.turn, v.item \in m.executed PROVE OnRecord(v)'
        <4>1. CASE m \in messages'
          <5>1. m \in Answers'
            BY <3>3, <4>1 DEF Answers
          <5> QED
            BY <3>3, <5>1 DEF OnRecord
        <4>2. CASE m \notin messages'
          <5>1. m.seq > p.seq /\ m.asked = v.question
            BY <2>4, <3>3, <4>2 DEF IInv, ExecutionsFit
          <5>2. p.seq <= m.asked
            <6>1. p.seq < m.seq
              BY <1>4, <2>2, <3>3, <5>1 DEF Answers
            <6> QED
              BY <2>1, <3>3, <6>1 DEF OneByOne
          <5>3. \A u \in Users(messages') : u.seq < p.seq /\ u.seq \in Nat
            BY <1>1, <2>2 DEF Users
          <5>4. p.seq \in Nat /\ m.asked \in Nat
            BY <1>0, <1>4, <3>3, RowTypes DEF Answers
          <5>5. \A u \in Users(messages') : u.seq # v.question
            BY <5>1, <5>2, <5>3, <5>4
          <5> QED
            BY <5>5 DEF OnRecord
        <4> QED
          BY <4>1, <4>2
      <3> QED
        BY <3>1, <3>2, <3>3
    <2>6. ASSUME ~lost, NEW x \in resumes PROVE Continued(x)'
      <3>0. x.target \in Nat /\ p.seq \in Nat
        BY <1>0, <1>4, <2>2, HistoryTypes
      <3>1. \/ \A m \in messages : m.seq # x.target
            \/ \E n \in Answers : /\ n.seq > x.target
                                  /\ \A u \in Users(messages) : u.seq > x.target => u.seq > n.seq
        BY <2>1, <2>6 DEF OneByOne, Continued
      <3>2. CASE \A m \in messages : m.seq # x.target
        BY <1>3, <3>2 DEF Continued
      <3>3. ASSUME NEW n \in Answers, n.seq > x.target,
                   \A u \in Users(messages) : u.seq > x.target => u.seq > n.seq
            PROVE  Continued(x)'
        <4>1. CASE n \in messages'
          <5>1. n \in Answers'
            BY <3>3, <4>1 DEF Answers
          <5> QED
            BY <1>3, <3>3, <5>1 DEF Continued
        <4>2. CASE n \notin messages'
          <5>1. n.seq > p.seq /\ n.seq \in Nat
            BY <2>2, <2>4, <3>3, <4>2 DEF Answers
          <5>2. ~(p.seq > x.target)
            BY <3>0, <3>3, <5>1
          <5>3. \A m \in messages' : m.seq < p.seq /\ m.seq \in Nat
            BY <1>1, <2>2
          <5>4. \A m \in messages' : m.seq # x.target
            BY <3>0, <5>2, <5>3
          <5> QED
            BY <1>2, <5>4 DEF Continued
        <4> QED
          BY <4>1, <4>2
      <3> QED
        BY <3>1, <3>2, <3>3
    <2> QED
      BY <1>2, <2>1, <2>3, <2>5, <2>6 DEF OneByOne
  <1> QED
    BY <1>0, <1>5, <1>6, <1>7, <1>8, <1>9, <1>10 DEF IInv

--------------------------------------------------------------------------------
(* Operations begin.                                                       *)

\* What a beginning changes, and what it finds when nothing else is under way.
LEMMA BeginChanges ==
  ASSUME IInv, NEW r \in Runners, NEW doing, NEW q, NEW t, MayBegin(r), Begin(r, doing, q, t)
  PROVE  /\ \A s \in Runners :
              /\ at'[s] = IF s = r THEN doing ELSE at[s]
              /\ question'[s] = IF s = r THEN q ELSE question[s]
              /\ target'[s] = IF s = r THEN t ELSE target[s]
              /\ turn'[s] = IF s = r THEN turns + 1 ELSE turn[s]
              /\ seen'[s] = IF s = r THEN ended ELSE seen[s]
         /\ ~Active(r) /\ turns \in Nat
         /\ turns + 1 \notin ended /\ \A s \in Runners : turn[s] # turns + 1
         /\ \A v \in executed : v.turn # turns + 1
         /\ ~overlapped' => ~overlapped /\ OneByOne /\ \A s \in Runners : ~Active(s)
  <1>1. turns \in Nat /\ ended \subseteq 1..turns /\ turn \in [Runners -> 0..turns]
    BY DEF IInv, TypeOK
  <1>2. turns + 1 \notin ended /\ \A s \in Runners : turn[s] # turns + 1
    BY <1>1
  <1>3. \A v \in executed : v.turn \in 1..turns
    BY HistoryTypes DEF IInv
  <1>4. \A v \in executed : v.turn # turns + 1
    BY <1>1, <1>3
  <1>5. \A s \in Runners :
              /\ at'[s] = IF s = r THEN doing ELSE at[s]
              /\ question'[s] = IF s = r THEN q ELSE question[s]
              /\ target'[s] = IF s = r THEN t ELSE target[s]
              /\ turn'[s] = IF s = r THEN turns + 1 ELSE turn[s]
              /\ seen'[s] = IF s = r THEN ended ELSE seen[s]
    BY DEF Begin, IInv, TypeOK
  <1>6. ~overlapped' => ~overlapped /\ OneByOne /\ \A s \in Runners : ~Active(s)
    BY DEF Begin, Beside, Alone, Active, IInv
  <1>7. ~Active(r)
    BY DEF MayBegin, Active
  <1> QED
    BY <1>1, <1>2, <1>4, <1>5, <1>6, <1>7

\* A question is stored, and is the last.
LEMMA SendKeeps ==
  ASSUME IInv, NEW r \in Runners, Send(r)
  PROVE  IInv'
  <1>0. TypeOK /\ RowsFit /\ TypeOK'
    BY TypeKept DEF IInv, Next
  <1>1. /\ MayBegin(r) /\ Begin(r, "context", next, 0)
        /\ Stored("user", "none", {}, {}, next, turns + 1)
        /\ UNCHANGED <<told, did, failed, missed, ended, executed, failures, resumes, lost>>
    BY DEF Send
  <1>2. PICK n : /\ n = [seq |-> next, role |-> "user", finish |-> "none", executed |-> {},
                         failed |-> {}, asked |-> next, turn |-> turns + 1]
                 /\ messages' = messages \cup {n}
    BY <1>1 DEF Stored
  <1>3. next' = next + 1 /\ next \in Nat
    BY <1>0, <1>1 DEF Stored, TypeOK
  <1>4. /\ n.seq = next /\ n.role = "user" /\ n.executed = {} /\ n.failed = {}
        /\ Users(messages') = Users(messages) \cup {n} /\ Answers' = Answers
        /\ n \in messages'
    BY <1>2 DEF Users, Answers
  <1>5. /\ \A s \in Runners :
             /\ at'[s] = IF s = r THEN "context" ELSE at[s]
             /\ question'[s] = IF s = r THEN next ELSE question[s]
             /\ target'[s] = IF s = r THEN 0 ELSE target[s]
             /\ turn'[s] = IF s = r THEN turns + 1 ELSE turn[s]
             /\ seen'[s] = IF s = r THEN ended ELSE seen[s]
        /\ ~Active(r) /\ turns \in Nat
        /\ turns + 1 \notin ended /\ \A s \in Runners : turn[s] # turns + 1
        /\ \A v \in executed : v.turn # turns + 1
        /\ ~overlapped' => ~overlapped /\ OneByOne /\ \A s \in Runners : ~Active(s)
    BY <1>1, BeginChanges
  <1>a. /\ \A m \in messages : m.seq \in Nat /\ m.seq >= 1 /\ m.seq < next
        /\ \A s \in Runners : target[s] < next /\ target[s] \in Nat
    BY <1>0, RowTypes DEF RowsFit, IInv, RunsFit, TypeOK
  <1>6. RowsFit'
    <2>1. IsFiniteSet(messages')
      BY <1>0, <1>2, FS_AddElement DEF RowsFit
    <2>2. \A m \in messages' : m.seq < next'
      BY <1>2, <1>3, <1>4, <1>a
    <2>3. \A m, k \in messages' : m.seq = k.seq => m = k
      <3>1. \A m \in messages : m.seq # n.seq
        BY <1>3, <1>4, <1>a
      <3>2. \A m, k \in messages : m.seq = k.seq => m = k
        BY <1>0 DEF RowsFit
      <3>3. \A m \in messages' : m \in messages \/ m = n
        BY <1>2
      <3> QED
        BY <3>1, <3>2, <3>3
    <2> QED
      BY <1>0, <1>1, <1>4, <2>1, <2>2, <2>3 DEF RowsFit
  <1>7. RunsFit'
    <2>1. \A s \in Runners : question[s] < next' /\ target[s] < next'
      BY <1>3 DEF IInv, RunsFit, TypeOK
    <2>2. \A x \in resumes : x.target < next'
      BY <1>0, <1>3, HistoryTypes DEF IInv, RunsFit
    <2>3. next < next' /\ 0 < next' /\ turns + 1 > 0
      BY <1>3, <1>5
    <2> QED
      BY <1>1, <1>5, <2>1, <2>2, <2>3 DEF IInv, RunsFit, Active
  <1>8. ExecutionsFit'
    <2>1. \A v \in executed : v.question < next' /\ v.target < next'
      BY <1>0, <1>3, HistoryTypes DEF IInv, ExecutionsFit
    <2> QED
      BY <1>1, <1>4, <1>5, <2>1 DEF IInv, ExecutionsFit, Active
  <1>9. ASSUME NEW s \in Runners PROVE Told(s)'
    <2>1. \A m \in messages' : m.seq # target'[s] \/ (s # r /\ m \in messages)
      BY <1>2, <1>4, <1>5, <1>a
    <2>2. \A m \in Answers : next' <= m.seq + HistoryLimit => next <= m.seq + HistoryLimit
      BY <1>3, <1>a DEF Answers
    <2> QED
      BY <1>1, <1>4, <1>5, <2>1, <2>2 DEF IInv, Told
  <1>10. WritesAreNotRepeated' /\ ResumedOnce'
    <2>1. NeverRepeatedInTurn' /\ ResumedOnce'
      BY <1>1, <1>5 DEF IInv, WritesAreNotRepeated, NeverRepeatedInTurn, ResumedOnce
    <2>2. \A m \in messages' : m \in messages \/ m.executed = {}
      BY <1>2, <1>4
    <2>3. \A m \in messages : next' <= m.seq + HistoryLimit => next <= m.seq + HistoryLimit
      BY <1>3, <1>a
    <2>4. RecordedNeverRepeated' /\ ReceiptNeverRepeated'
      BY <1>1, <2>2, <2>3 DEF IInv, WritesAreNotRepeated, RecordedNeverRepeated, ReceiptNeverRepeated
    <2> QED
      BY <2>1, <2>4 DEF WritesAreNotRepeated
  <1>11. ASSUME ~overlapped' PROVE OneByOne'
    <2>1. ~overlapped /\ OneByOne /\ (\A s \in Runners : ~Active(s)) /\ \A s \in Runners : Active(s)' => s = r
      BY <1>5, <1>11 DEF Active
    <2>2. AboutTheLast(r)'
      <3>1. \A u \in Users(messages') : u.seq <= next
        BY <1>3, <1>4, <1>a DEF Users
      <3>2. n \in Users(Window')
        <4>1. {k \in messages' : k.seq > n.seq} = {}
          BY <1>2, <1>3, <1>4, <1>a
        <4>2. Cardinality({k \in messages' : k.seq > n.seq}) < HistoryLimit
          <5>1. Cardinality({}) = 0
            BY FS_EmptySet
          <5>2. 0 < HistoryLimit
            OBVIOUS
          <5> QED
            BY <4>1, <5>1, <5>2
        <4> QED
          BY <1>4, <4>2 DEF Users, Window
      <3> QED
        BY <1>4, <1>5, <3>1, <3>2 DEF AboutTheLast
    <2>3. ASSUME NEW m \in Answers'
          PROVE  /\ \E q \in Users(messages') : q.seq = m.asked
                 /\ \A u \in Users(messages') : u.seq < m.seq => u.seq <= m.asked
      <3>1. m \in Answers /\ ~(n.seq < m.seq)
        BY <1>3, <1>4, <1>a, <2>3 DEF Answers
      <3> QED
        BY <1>4, <2>1, <3>1 DEF OneByOne
    <2>4. ASSUME ~lost, NEW v \in executed, v.reported PROVE OnRecord(v)'
      <3>1. v.question < next /\ v.question \in Nat
        BY <1>0, HistoryTypes DEF IInv, ExecutionsFit
      <3>2. n.seq # v.question
        BY <1>3, <1>4, <3>1
      <3> QED
        BY <1>4, <2>1, <2>4, <3>2 DEF OneByOne, OnRecord
    <2>5. ASSUME ~lost, NEW x \in resumes PROVE Continued(x)'
      <3>1. x.target < next /\ x.target \in Nat
        BY <1>0, HistoryTypes DEF IInv, RunsFit
      <3>2. n.seq # x.target /\ \A m \in Answers : n.seq > m.seq
        BY <1>3, <1>4, <1>a, <3>1 DEF Answers
      <3>3. messages' = messages \cup {n} /\ Answers' = Answers
        BY <1>2, <1>4
      <3>4. Continued(x)
        BY <2>1, <2>5 DEF OneByOne
      <3>5. CASE \A m \in messages : m.seq # x.target
        BY <3>2, <3>3, <3>5 DEF Continued
      <3>6. CASE \E m \in Answers : /\ m.seq > x.target
                                   /\ \A u \in Users(messages) : u.seq > x.target => u.seq > m.seq
        <4>1. PICK m \in Answers : /\ m.seq > x.target
                                  /\ \A u \in Users(messages) : u.seq > x.target => u.seq > m.seq
          BY <3>6
        <4>2. \A u \in Users(messages') : u.seq > x.target => u.seq > m.seq
          BY <3>2, <3>3, <4>1 DEF Users
        <4> QED
          BY <3>3, <4>1, <4>2 DEF Continued
      <3> QED
        BY <2>1, <3>4, <3>5, <3>6 DEF Continued
    <2> QED
      BY <1>1, <2>1, <2>2, <2>3, <2>4, <2>5 DEF OneByOne
  <1> QED
    BY <1>0, <1>6, <1>7, <1>8, <1>9, <1>10, <1>11 DEF IInv

\* A resume continues the last answer, which nothing has continued, at its question.
LEMMA ResumeKeeps ==
  ASSUME IInv, NEW r \in Runners, ResumeTurn(r)
  PROVE  IInv'
  <1>0. TypeOK /\ RowsFit /\ TypeOK'
    BY TypeKept DEF IInv, Next
  <1>1. PICK want \in 1..MaxSeq :
          /\ MayBegin(r) /\ ResumeTarget(want) /\ Begin(r, "receipts", LastQuestion, want)
          /\ resumes' = resumes \cup {[target |-> want, turn |-> turns + 1]}
          /\ UNCHANGED <<messages, next, told, did, failed, missed, ended, executed, failures, lost>>
    BY DEF ResumeTurn
  <1>2. /\ \A s \in Runners :
             /\ at'[s] = IF s = r THEN "receipts" ELSE at[s]
             /\ question'[s] = IF s = r THEN LastQuestion ELSE question[s]
             /\ target'[s] = IF s = r THEN want ELSE target[s]
             /\ turn'[s] = IF s = r THEN turns + 1 ELSE turn[s]
             /\ seen'[s] = IF s = r THEN ended ELSE seen[s]
        /\ ~Active(r) /\ turns \in Nat
        /\ turns + 1 \notin ended /\ \A s \in Runners : turn[s] # turns + 1
        /\ \A v \in executed : v.turn # turns + 1
        /\ ~overlapped' => ~overlapped /\ OneByOne /\ \A s \in Runners : ~Active(s)
    BY <1>1, BeginChanges
  <1>3. PICK last \in messages : /\ last.seq = want /\ IsLast(last, Window)
                                 /\ last.role = "assistant" /\ LastQuestion # 0
    BY <1>1 DEF ResumeTarget
  <1>4. PICK q \in Users(Window) : q.seq = LastQuestion
    BY <1>0, <1>3, LastQuestionIs
  <1>5. q \in messages /\ q \in Window /\ q.role = "user" /\ last \in Window /\ last \in Answers
    BY <1>3, <1>4 DEF Users, Window, IsLast, Answers
  <1>6. \A m \in messages : m.seq \in Nat /\ m.seq >= 1 /\ m.seq < next
    BY <1>0, RowTypes DEF RowsFit
  <1>7. \A m \in messages : m.seq <= want
    <2> SUFFICES ASSUME NEW m \in messages, ~(m.seq <= want) PROVE FALSE
      OBVIOUS
    <2>1. m.seq >= last.seq
      BY <1>3, <1>6
    <2>2. m \in Window
      BY <1>0, <1>5, <2>1, NewerIsSeen
    <2> QED
      BY <1>3, <2>2 DEF IsLast
  <1>8. \A u \in Users(messages) : u.seq <= LastQuestion
    <2> SUFFICES ASSUME NEW u \in Users(messages), ~(u.seq <= LastQuestion) PROVE FALSE
      OBVIOUS
    <2>1. u \in messages /\ u.role = "user"
      BY DEF Users
    <2>2. u.seq >= q.seq
      BY <1>4, <1>5, <1>6, <2>1
    <2>3. u \in Window
      BY <1>0, <1>5, <2>1, <2>2, NewerIsSeen
    <2> QED
      BY <1>0, <2>1, <2>3, LastQuestionIs DEF Users
  <1>9. RowsFit'
    BY <1>0, <1>1 DEF RowsFit, Users, Answers
  <1>10. RunsFit'
    <2>1. want < next /\ LastQuestion < next /\ turns + 1 > 0
      BY <1>2, <1>3, <1>4, <1>5, <1>6
    <2>2. \A x \in resumes' : x.target < next
      BY <1>1, <2>1 DEF IInv, RunsFit
    <2> QED
      BY <1>1, <1>2, <2>1, <2>2 DEF IInv, RunsFit, Active
  <1>11. ExecutionsFit'
    BY <1>1, <1>2 DEF IInv, ExecutionsFit, Active, Answers
  <1>12. \A s \in Runners : Told(s)'
    BY <1>1, <1>2 DEF IInv, Told, Answers
  <1>13. WritesAreNotRepeated'
    BY <1>1, <1>2 DEF IInv, WritesAreNotRepeated, NeverRepeatedInTurn,
                      RecordedNeverRepeated, ReceiptNeverRepeated
  <1>14. ResumedOnce'
    <2> SUFFICES ASSUME ~overlapped', ~lost PROVE \A x, y \in resumes' : x.target = y.target => x = y
      BY <1>1 DEF ResumedOnce
    <2>1. \A x, y \in resumes : x.target = y.target => x = y
      BY <1>2 DEF IInv, ResumedOnce
    <2>2. ASSUME NEW y \in resumes PROVE y.target # want
      <3>1. Continued(y) /\ \A s \in Runners : ~Active(s)
        BY <1>2 DEF OneByOne
      <3>2. ASSUME NEW n \in Answers, n.seq > want PROVE FALSE
        BY <1>6, <1>7, <3>2 DEF Answers
      <3> QED
        BY <1>3, <3>1, <3>2 DEF Continued
    <2> QED
      BY <1>1, <2>1, <2>2
  <1>15. ASSUME ~overlapped' PROVE OneByOne'
    <2>1. ~overlapped /\ OneByOne /\ (\A s \in Runners : ~Active(s)) /\ \A s \in Runners : Active(s)' => s = r
      BY <1>2, <1>15 DEF Active
    <2>2. /\ Users(messages') = Users(messages) /\ Answers' = Answers
          /\ Users(Window') = Users(Window)
      BY <1>1 DEF Answers, Window
    <2>3. last.asked = LastQuestion
      <3>1. PICK p \in Users(messages) : p.seq = last.asked
        BY <1>5, <2>1 DEF OneByOne
      <3>2. p \in messages /\ p.role = "user" /\ p.seq \in Nat
        BY <1>6, <3>1 DEF Users
      <3>3. p.seq <= LastQuestion
        BY <1>8, <3>1
      <3>4. q.seq < last.seq
        <4>1. q.seq # last.seq
          BY <1>0, <1>3, <1>5 DEF RowsFit
        <4> QED
          BY <1>3, <1>5, <1>6, <1>7, <4>1
      <3>5. q.seq <= last.asked
        <4>1. q \in Users(messages)
          BY <1>5 DEF Users
        <4> QED
          BY <1>5, <2>1, <3>4, <4>1 DEF OneByOne
      <3> QED
        BY <1>4, <1>5, <1>6, <3>1, <3>2, <3>3, <3>5
    <2>4. AboutTheLast(r)'
      <3>1. q \in Users(messages)
        BY <1>5 DEF Users
      <3> QED
        BY <1>1, <1>2, <1>3, <1>4, <1>5, <1>7, <1>8, <2>2, <2>3, <3>1 DEF AboutTheLast
    <2>5. ASSUME ~lost, NEW v \in executed, v.reported PROVE OnRecord(v)'
      BY <2>1, <2>2, <2>5 DEF OneByOne, OnRecord
    <2>6. ASSUME ~lost, NEW x \in resumes' PROVE Continued(x)'
      <3>1. CASE x \in resumes
        BY <1>1, <2>1, <2>2, <2>6, <3>1 DEF OneByOne, Continued
      <3>2. CASE x = [target |-> want, turn |-> turns + 1]
        <4>1. at'[r] # "idle" /\ turn'[r] = x.turn /\ target'[r] = x.target
          BY <1>2, <3>2
        <4> QED
          BY <4>1 DEF Continued, Active
      <3> QED
        BY <1>1, <2>6, <3>1, <3>2
    <2> QED
      BY <1>1, <2>1, <2>2, <2>4, <2>5, <2>6 DEF OneByOne
  <1> QED
    BY <1>0, <1>9, <1>10, <1>11, <1>12, <1>13, <1>14, <1>15 DEF IInv

--------------------------------------------------------------------------------
(* The provider is told, and works.                                        *)

\* A step that moves one operation on and tells it something: all that is left to show
\* is that what it was told is what it needs.
LEMMA TellingKeeps ==
  ASSUME IInv, NEW r \in Runners, Active(r), TypeOK', NEW now \in {"context", "working"},
         NEW news, NEW left,
         at' = [at EXCEPT ![r] = now], told' = [told EXCEPT ![r] = news],
         missed' = [missed EXCEPT ![r] = left],
         UNCHANGED <<messages, next, question, target, did, seen, turn, history>>,
         Told(r)', ~overlapped => AboutTheLast(r)'
  PROVE  IInv'
  <1>1. /\ \A s \in Runners : Active(s)' <=> Active(s)
        /\ \A s \in Runners : s # r => at'[s] = at[s] /\ told'[s] = told[s] /\ missed'[s] = missed[s]
    BY DEF Active, IInv, TypeOK
  <1>2. /\ Users(messages') = Users(messages) /\ Answers' = Answers /\ Users(Window') = Users(Window)
        /\ UNCHANGED <<messages, next, question, target, did, seen, turn>>
        /\ UNCHANGED <<turns, ended, executed, resumes, overlapped, lost>>
    BY DEF Answers, Window, history
  <1>3. RowsFit'
    BY <1>2 DEF IInv, RowsFit
  <1>4. RunsFit'
    BY <1>1, <1>2 DEF IInv, RunsFit
  <1>5. ExecutionsFit'
    BY <1>1, <1>2 DEF IInv, ExecutionsFit
  <1>6. \A s \in Runners : Told(s)'
    BY <1>1, <1>2 DEF IInv, Told
  <1>7. WritesAreNotRepeated' /\ ResumedOnce'
    BY <1>2 DEF IInv, WritesAreNotRepeated, NeverRepeatedInTurn,
                RecordedNeverRepeated, ReceiptNeverRepeated, ResumedOnce
  <1>8. ASSUME ~overlapped' PROVE OneByOne'
    <2>1. OneByOne
      BY <1>2, <1>8 DEF IInv
    <2>2. \A s \in Runners : Active(s)' => s = r
      BY <1>1, <2>1 DEF OneByOne
    <2>3. AboutTheLast(r)'
      BY <1>2, <1>8
    <2>4. \A v \in executed : OnRecord(v) => OnRecord(v)'
      BY <1>1, <1>2 DEF OnRecord
    <2>5. \A x \in resumes : Continued(x) => Continued(x)'
      BY <1>1, <1>2 DEF Continued
    <2> QED
      BY <1>2, <2>1, <2>2, <2>3, <2>4, <2>5 DEF OneByOne
  <1> QED
    BY <1>3, <1>4, <1>5, <1>6, <1>7, <1>8 DEF IInv

\* The receipt of the turn that is continued is read first.
LEMMA ReceiptsKeep ==
  ASSUME IInv, NEW r \in Runners, ReadReceipts(r)
  PROVE  IInv'
  <1>0. TypeOK' /\ Active(r) /\ at[r] = "receipts"
    BY TypeKept DEF Next, ReadReceipts, Active
  <1>1. /\ at' = [at EXCEPT ![r] = "context"] /\ told' = [told EXCEPT ![r] = Receipt(r)]
        /\ missed' = [missed EXCEPT ![r] = missed[r]]
        /\ UNCHANGED <<messages, next, question, target, did, seen, turn, history>>
    BY DEF ReadReceipts, IInv, TypeOK
  <1>2. at'[r] = "context" /\ told'[r] = Receipt(r)
    BY <1>1 DEF IInv, TypeOK
  <1>3. Told(r)'
    <2>1. ASSUME NEW m \in messages, m.seq = target[r] PROVE m.executed \subseteq Receipt(r)
      BY <2>1 DEF Receipt
    <2> QED
      BY <1>1, <1>2, <2>1 DEF Told
  <1>4. ~overlapped => AboutTheLast(r)'
    <2> SUFFICES ASSUME ~overlapped PROVE AboutTheLast(r)'
      OBVIOUS
    <2>1. AboutTheLast(r)
      BY <1>0 DEF IInv, OneByOne
    <2>2. Users(Window') = Users(Window) /\ Users(messages') = Users(messages) /\ Answers' = Answers
      BY <1>1 DEF Window, Answers
    <2> QED
      BY <1>0, <1>1, <1>2, <2>1, <2>2 DEF AboutTheLast
  <1> QED
    BY <1>0, <1>1, <1>3, <1>4, TellingKeeps

\* What a turn knows once it was told the records it was shown: an answer to its question
\* that is in the window was told of, or left out.
LEMMA ToldOrMissed ==
  ASSUME IInv, NEW r \in Runners, at[r] = "context", NEW writes, NEW left,
         \A m \in Answers \cap Records(r) :
           m.asked = question[r] => m \in left \/ m.executed \subseteq writes,
         NEW m \in Answers \cap Window, m.asked = question[r]
  PROVE  m.turn \in {n.turn : n \in left} \/ m.executed \subseteq told[r] \cup writes
  <1>1. m \in messages /\ m \in Answers /\ m \in Window
    BY DEF Answers
  <1>2. CASE m.seq = target[r]
    BY <1>1, <1>2 DEF IInv, Told
  <1>3. CASE m.executed = {}
    BY <1>3
  <1>4. CASE m.seq # target[r] /\ m.executed # {}
    <2>1. m \in Answers \cap Records(r)
      BY <1>1, <1>4 DEF Records
    <2> QED
      BY <2>1
  <1> QED
    BY <1>2, <1>3, <1>4

\* The window is read again: of every answer to the question that is in it the turn is told,
\* or misses it; and all of them are when nothing else is under way.
LEMMA TellKeeps ==
  ASSUME IInv, TypeOK', NEW r \in Runners, NEW writes, NEW left, Tell(r, writes, left),
         \A m \in Answers \cap Records(r) :
           m.asked = question[r] => m \in left \/ m.executed \subseteq writes
  PROVE  IInv'
  <1> DEFINE turnsLeft == {m.turn : m \in left}
             news == told[r] \cup writes
  <1>0. TypeOK /\ RowsFit /\ Active(r) /\ at[r] = "context" /\ Told(r)
    BY DEF IInv, Tell, Active
  <1>1. /\ at' = [at EXCEPT ![r] = "working"] /\ told' = [told EXCEPT ![r] = news]
        /\ missed' = [missed EXCEPT ![r] = turnsLeft]
        /\ UNCHANGED <<messages, next, question, target, did, seen, turn, history>>
    BY DEF Tell
  <1>2. at'[r] = "working" /\ told'[r] = news /\ missed'[r] = turnsLeft /\ told[r] \subseteq news
    BY <1>1 DEF IInv, TypeOK
  <1>3. \A m \in Answers \cap Window : m.asked = question[r] => m.turn \in turnsLeft \/ m.executed \subseteq news
    BY <1>0, ToldOrMissed
  <1> HIDE DEF turnsLeft, news
  <1>4. Told(r)'
    <2>1. ASSUME NEW m \in Answers, m.asked = question[r], next <= m.seq + HistoryLimit,
                 m.turn \notin turnsLeft
          PROVE  m.executed \subseteq news
      <3>1. m \in Window
        BY <1>0, <2>1, RecentIsSeen DEF Answers
      <3> QED
        BY <1>3, <2>1, <3>1
    <2>2. \A m \in messages : m.seq = target[r] => m.executed \subseteq news
      BY <1>0, <1>2 DEF Told
    <2> QED
      BY <1>1, <1>2, <2>1, <2>2 DEF Told, Answers
  <1>5. ~overlapped => AboutTheLast(r)'
    <2> SUFFICES ASSUME ~overlapped PROVE AboutTheLast(r)'
      OBVIOUS
    <2>1. AboutTheLast(r)
      BY <1>0 DEF IInv, OneByOne
    <2>2. Users(messages') = Users(messages) /\ Answers' = Answers
      BY <1>1 DEF Answers
    <2>3. PICK q \in Users(Window) : q.seq = question[r]
      BY <1>0, <2>1 DEF AboutTheLast
    <2>4. ASSUME NEW m \in Answers, m.asked = question[r], m.turn \notin turnsLeft
          PROVE  m.executed \subseteq news
      <3>1. m \in messages /\ m.asked < m.seq /\ m.asked \in Nat /\ m.seq \in Nat
        BY <1>0, RowTypes DEF Answers, RowsFit
      <3>2. m.seq >= q.seq /\ q \in Window
        BY <2>3, <2>4, <3>1 DEF Users
      <3>3. m \in Window
        BY <1>0, <3>1, <3>2, NewerIsSeen
      <3> QED
        BY <1>3, <2>4, <3>3
    <2> QED
      BY <1>1, <1>2, <2>1, <2>2, <2>4 DEF AboutTheLast
  <1> QED
    BY <1>0, <1>1, <1>4, <1>5, TellingKeeps

\* Records are shown newest first, within the budget.
LEMMA ContextKeeps ==
  ASSUME IInv, NEW r \in Runners, BuildContext(r)
  PROVE  IInv'
  <1>1. TypeOK' /\ TypeOK /\ RowsFit
    BY TypeKept DEF IInv, Next
  <1>2. ASSUME NEW m \in Answers \cap Records(r), m.asked = question[r]
        PROVE  m \in Records(r) \ Shown(Records(r)) \/ m.executed \subseteq Evidence(r)
    <2>1. m \in Answers /\ m \in messages /\ m \in Records(r)
      BY DEF Answers
    <2>2. m.seq > question[r]
      BY <1>1, <1>2, <2>1, RowTypes DEF RowsFit
    <2> QED
      BY <2>1, <2>2 DEF Evidence
  <1> QED
    BY <1>1, <1>2, TellKeeps DEF BuildContext

\* No record is read: all are left out.
LEMMA UnreadKeeps ==
  ASSUME IInv, NEW r \in Runners, RecordsUnread(r)
  PROVE  IInv'
  <1>1. TypeOK'
    BY TypeKept DEF Next
  <1> QED
    BY <1>1, TellKeeps DEF RecordsUnread

\* What the invariant is about stays as it is.
LEMMA NothingMoves ==
  ASSUME IInv, TypeOK',
         UNCHANGED <<messages, next, at, question, target, told, did, missed, seen, turn>>,
         UNCHANGED <<turns, ended, executed, resumes, overlapped, lost>>
  PROVE  IInv'
  <1>1. Answers' = Answers /\ Window' = Window /\ \A r \in Runners : Active(r)' <=> Active(r)
    BY DEF Answers, Window, Active
  <1>2. RowsFit' /\ RunsFit' /\ ExecutionsFit'
    BY <1>1 DEF IInv, RowsFit, RunsFit, ExecutionsFit
  <1>3. (\A r \in Runners : Told(r)') /\ WritesAreNotRepeated' /\ ResumedOnce'
    BY <1>1 DEF IInv, Told, WritesAreNotRepeated, NeverRepeatedInTurn,
                RecordedNeverRepeated, ReceiptNeverRepeated, ResumedOnce
  <1>4. ~overlapped' => OneByOne'
    BY <1>1 DEF IInv, OneByOne, AboutTheLast, OnRecord, Continued
  <1> QED
    BY <1>2, <1>3, <1>4 DEF IInv

\* A write is applied that no record told of: none of the turn's own, and none of an
\* earlier turn that left one and that the turn was shown; whether it is reported.
LEMMA AppliedKeeps ==
  ASSUME IInv, TypeOK', NEW r \in Runners, at[r] = "working", NEW i \in Items, i \notin told[r],
         i \notin did[r], NEW reported \in BOOLEAN,
         executed' = executed \cup {Execution(r, i, reported)},
         did' = IF reported THEN [did EXCEPT ![r] = did[r] \cup {i}] ELSE did,
         UNCHANGED <<messages, next, at, question, target, told, missed, seen, turn,
                     turns, ended, resumes, overlapped, lost>>
  PROVE  IInv'
  <1>0. TypeOK /\ RowsFit /\ Active(r) /\ Told(r)
    BY DEF IInv, Active
  <1>2. UNCHANGED <<messages, next, at, question, target, told, missed, seen, turn,
                    turns, ended, resumes, overlapped, lost>>
    OBVIOUS
  <1>3. PICK w : w = Execution(r, i, reported) /\ executed' = executed \cup {w}
    OBVIOUS
  <1>4. /\ w.turn = turn[r] /\ w.after = seen[r] /\ w.missed = missed[r] /\ w.target = target[r]
        /\ w.question = question[r] /\ w.item = i /\ w.reported = reported
    BY <1>3 DEF Execution
  <1>5. /\ \A s \in Runners : did[s] \subseteq did'[s]
        /\ reported => i \in did'[r]
        /\ \A s \in Runners : Active(s)' <=> Active(s)
        /\ Users(messages') = Users(messages) /\ Answers' = Answers /\ Users(Window') = Users(Window)
    BY <1>0, <1>2 DEF TypeOK, Active, Answers, Window
  <1>6. RowsFit'
    BY <1>2, <1>5 DEF IInv, RowsFit
  <1>7. RunsFit'
    BY <1>2, <1>5 DEF IInv, RunsFit
  <1>8. ExecutionsFit'
    <2>1. /\ seen[r] \subseteq ended /\ question[r] < next /\ target[r] < next /\ turn[r] \notin ended
          /\ \A s \in Runners : Active(s) /\ turn[s] = turn[r] => s = r
          /\ \A m \in Answers : m.turn \in ended
      BY <1>0 DEF IInv, RunsFit, RowsFit
    <2>2. \A v \in executed :
            /\ v.after \subseteq ended /\ v.question < next /\ v.target < next
            /\ v.turn \in ended \/ \E s \in Runners : Active(s) /\ turn[s] = v.turn
            /\ \A s \in Runners : Active(s) /\ turn[s] = v.turn =>
                 (v.reported => v.item \in did'[s]) /\ v.question = question[s]
            /\ \A m \in Answers : m.turn = v.turn => m.asked = v.question
      BY <1>5 DEF IInv, ExecutionsFit
    <2>3. /\ w.after \subseteq ended /\ w.question < next /\ w.target < next
          /\ \E s \in Runners : Active(s) /\ turn[s] = w.turn
          /\ \A s \in Runners : Active(s) /\ turn[s] = w.turn =>
               (w.reported => w.item \in did'[s]) /\ w.question = question[s]
          /\ \A m \in Answers : m.turn = w.turn => m.asked = w.question
      BY <1>0, <1>4, <1>5, <2>1
    <2> QED
      BY <1>2, <1>3, <1>5, <2>2, <2>3 DEF ExecutionsFit
  <1>9. \A s \in Runners : Told(s)'
    BY <1>2, <1>5 DEF IInv, Told
  <1>a. \A u \in executed : turn[r] \notin u.after
    BY <1>0 DEF IInv, ExecutionsFit, RunsFit
  <1>b. turn[r] \notin seen[r]
    BY <1>0 DEF IInv, RunsFit
  <1>10. NeverRepeatedInTurn'
    <2> SUFFICES ASSUME ~overlapped, ~lost
                 PROVE  \A v, u \in executed' : SameWork(v, u) /\ v.reported => ~Knows(u, v)
      BY <1>2 DEF NeverRepeatedInTurn
    <2>1. \A v, u \in executed : SameWork(v, u) /\ v.reported => ~Knows(u, v)
      BY DEF IInv, WritesAreNotRepeated, NeverRepeatedInTurn
    <2>2. ASSUME NEW v \in executed, v.question = question[r], v.item = i, v.reported,
                 v.turn \in seen[r] \ missed[r]
          PROVE  FALSE
      <3>1. OnRecord(v) /\ AboutTheLast(r) /\ \A s \in Runners : Active(s) => s = r
        BY <1>0, <2>2 DEF IInv, OneByOne
      <3>2. ASSUME NEW s \in Runners, Active(s), turn[s] = v.turn PROVE FALSE
        BY <2>2, <3>1, <3>2 DEF IInv, ExecutionsFit
      <3>3. ASSUME \A u \in Users(messages) : u.seq # v.question PROVE FALSE
        BY <2>2, <3>1, <3>3 DEF AboutTheLast
      <3>4. ASSUME NEW m \in Answers, m.turn = v.turn, v.item \in m.executed PROVE FALSE
        <4>1. m.asked = question[r]
          BY <2>2, <3>4 DEF IInv, ExecutionsFit
        <4>2. m.executed \subseteq told[r]
          BY <2>2, <3>1, <3>4, <4>1 DEF AboutTheLast
        <4> QED
          BY <2>2, <3>4, <4>2
      <3> QED
        BY <3>1, <3>2, <3>3, <3>4 DEF OnRecord
    <2>3. \A u \in executed' : ~Knows(u, w)
      BY <1>3, <1>4, <1>a, <1>b DEF Knows
    <2>4. \A v \in executed : SameWork(v, w) /\ v.reported => ~Knows(w, v)
      BY <1>4, <2>2 DEF SameWork, Knows
    <2> QED
      BY <1>3, <2>1, <2>3, <2>4
  <1>11. RecordedNeverRepeated'
    <2> SUFFICES ASSUME NEW v \in executed', NEW u \in executed', NEW m \in messages, SameWork(v, u),
                        m.turn = v.turn, v.item \in m.executed, next <= m.seq + HistoryLimit
                 PROVE  ~Knows(u, v)
      BY <1>2 DEF RecordedNeverRepeated
    <2>1. m \in Answers /\ m.turn \in ended /\ turn[r] \notin ended
      <3>1. m \in Answers
        BY <1>0, RowTypes DEF RowsFit, Users, Answers
      <3> QED
        BY <1>0, <3>1 DEF RowsFit, IInv, RunsFit
    <2>2. v \in executed
      BY <1>3, <1>4, <2>1
    <2>3. CASE u \in executed
      BY <2>2, <2>3 DEF IInv, WritesAreNotRepeated, RecordedNeverRepeated
    <2>4. CASE u = w
      <3> SUFFICES ASSUME v.turn \in seen[r] \ missed[r] PROVE FALSE
        BY <1>4, <2>4 DEF Knows
      <3>1. m.asked = question[r] /\ v.item = i
        BY <1>4, <2>1, <2>2, <2>4 DEF IInv, ExecutionsFit, SameWork
      <3>2. m.executed \subseteq told[r]
        BY <1>0, <2>1, <3>1 DEF Told
      <3> QED
        BY <3>1, <3>2
    <2> QED
      BY <1>3, <2>3, <2>4
  <1>12. ReceiptNeverRepeated'
    <2>1. \A m \in messages : m.seq = target[r] => m.executed \subseteq told[r]
      BY <1>0 DEF Told
    <2>2. \A m \in messages : m.seq = w.target => w.item \notin m.executed
      BY <1>4, <2>1
    <2> QED
      BY <1>2, <1>3, <2>2 DEF IInv, WritesAreNotRepeated, ReceiptNeverRepeated
  <1>13. ResumedOnce'
    BY <1>2 DEF IInv, ResumedOnce
  <1>14. ASSUME ~overlapped' PROVE OneByOne'
    <2>1. OneByOne
      BY <1>2, <1>14 DEF IInv
    <2>2. \A s \in Runners : AboutTheLast(s) => AboutTheLast(s)'
      BY <1>2, <1>5 DEF AboutTheLast
    <2>3. \A v \in executed : OnRecord(v) => OnRecord(v)'
      BY <1>2, <1>5 DEF OnRecord
    <2>4. OnRecord(w)'
      BY <1>0, <1>2, <1>4, <1>5 DEF OnRecord
    <2>5. \A x \in resumes : Continued(x) => Continued(x)'
      BY <1>2, <1>5 DEF Continued
    <2> QED
      BY <1>2, <1>3, <1>5, <2>1, <2>2, <2>3, <2>4, <2>5 DEF OneByOne
  <1> QED
    BY <1>6, <1>7, <1>8, <1>9, <1>10, <1>11, <1>12, <1>13, <1>14 DEF IInv, WritesAreNotRepeated

\* A write is executed, and reported.
LEMMA WriteKeeps ==
  ASSUME IInv, NEW r \in Runners, ExecuteWrite(r)
  PROVE  IInv'
  <1>1. TypeOK'
    BY TypeKept DEF Next
  <1>2. PICK i \in Items \ (told[r] \cup did[r]) :
          /\ did' = [did EXCEPT ![r] = did[r] \cup {i}]
          /\ executed' = executed \cup {Execution(r, i, TRUE)}
    BY DEF ExecuteWrite
  <1>3. /\ at[r] = "working"
        /\ UNCHANGED <<messages, next, at, question, target, told, missed, seen, turn,
                       turns, ended, resumes, overlapped, lost>>
    BY DEF ExecuteWrite
  <1>4. did' = IF TRUE THEN [did EXCEPT ![r] = did[r] \cup {i}] ELSE did
    BY <1>2
  <1> QED
    BY <1>1, <1>2, <1>3, <1>4, AppliedKeeps

\* A write fails: applied or not, its turn reports the same.
LEMMA FailureKeeps ==
  ASSUME IInv, NEW r \in Runners, WriteFails(r)
  PROVE  IInv'
  <1>1. TypeOK'
    BY TypeKept DEF Next
  <1>2. PICK i \in Items \ (told[r] \cup did[r]) :
          executed' = executed \/ executed' = executed \cup {Execution(r, i, FALSE)}
    BY DEF WriteFails
  <1>3. /\ at[r] = "working" /\ did' = did
        /\ UNCHANGED <<messages, next, at, question, target, told, missed, seen, turn,
                       turns, ended, resumes, overlapped, lost>>
    BY DEF WriteFails
  <1>4. CASE executed' = executed
    BY <1>1, <1>3, <1>4, NothingMoves
  <1>5. CASE executed' = executed \cup {Execution(r, i, FALSE)}
    <2>1. did' = IF FALSE THEN [did EXCEPT ![r] = did[r] \cup {i}] ELSE did
      BY <1>3
    <2> QED
      BY <1>1, <1>2, <1>3, <1>5, <2>1, AppliedKeeps
  <1> QED
    BY <1>2, <1>4, <1>5

--------------------------------------------------------------------------------
(* Operations end.                                                         *)

\* What an end changes.
LEMMA EndChanges ==
  ASSUME IInv, NEW r \in Runners, Active(r), End(r)
  PROVE  /\ \A s \in Runners :
              /\ at'[s] = IF s = r THEN "idle" ELSE at[s]
              /\ question'[s] = IF s = r THEN 0 ELSE question[s]
              /\ target'[s] = IF s = r THEN 0 ELSE target[s]
              /\ told'[s] = IF s = r THEN {} ELSE told[s]
              /\ did'[s] = IF s = r THEN {} ELSE did[s]
              /\ missed'[s] = IF s = r THEN {} ELSE missed[s]
              /\ seen'[s] = IF s = r THEN {} ELSE seen[s]
              /\ turn'[s] = IF s = r THEN 0 ELSE turn[s]
         /\ ended' = ended \cup {turn[r]}
         /\ turn[r] \notin ended
         /\ \A s \in Runners : Active(s)' => s # r /\ Active(s) /\ turn[s] # turn[r]
         /\ \A v \in executed : turn[r] \notin v.after
         /\ \A s \in Runners : turn[r] \notin seen[s]
  <1>1. \A s \in Runners :
              /\ at'[s] = IF s = r THEN "idle" ELSE at[s]
              /\ question'[s] = IF s = r THEN 0 ELSE question[s]
              /\ target'[s] = IF s = r THEN 0 ELSE target[s]
              /\ told'[s] = IF s = r THEN {} ELSE told[s]
              /\ did'[s] = IF s = r THEN {} ELSE did[s]
              /\ missed'[s] = IF s = r THEN {} ELSE missed[s]
              /\ seen'[s] = IF s = r THEN {} ELSE seen[s]
              /\ turn'[s] = IF s = r THEN 0 ELSE turn[s]
    BY DEF End, IInv, TypeOK
  <1>2. turn[r] \notin ended /\ \A v \in executed : v.after \subseteq ended
    BY DEF IInv, RunsFit, ExecutionsFit
  <1>3. \A s \in Runners : Active(s)' => s # r /\ Active(s) /\ turn[s] # turn[r]
    BY <1>1 DEF Active, IInv, RunsFit
  <1>4. \A s \in Runners : seen[s] \subseteq ended
    BY DEF IInv, RunsFit
  <1> QED
    BY <1>1, <1>2, <1>3, <1>4 DEF End

\* What holds of runs and executions when a turn is over, whether its answer was stored.
LEMMA EndFits ==
  ASSUME IInv, NEW r \in Runners, Active(r), End(r), next' \in Nat, next <= next',
         UNCHANGED <<turns, executed, resumes>>,
         \A m \in Answers' : m \in Answers \/ (m.turn = turn[r] /\ m.asked = question[r])
  PROVE  RunsFit' /\ ExecutionsFit'
  <1>0. TypeOK /\ next \in Nat /\ \A s \in Runners : question[s] \in Nat /\ target[s] \in Nat
    BY DEF IInv, TypeOK
  <1>1. /\ \A s \in Runners :
             /\ at'[s] = IF s = r THEN "idle" ELSE at[s]
             /\ question'[s] = IF s = r THEN 0 ELSE question[s]
             /\ target'[s] = IF s = r THEN 0 ELSE target[s]
             /\ did'[s] = IF s = r THEN {} ELSE did[s]
             /\ seen'[s] = IF s = r THEN {} ELSE seen[s]
             /\ turn'[s] = IF s = r THEN 0 ELSE turn[s]
        /\ ended' = ended \cup {turn[r]}
        /\ \A s \in Runners : Active(s)' => s # r /\ Active(s) /\ turn[s] # turn[r]
    BY EndChanges
  <1>2. RunsFit'
    <2>1. \A s \in Runners : question'[s] < next' /\ target'[s] < next'
      <3>1. \A s \in Runners : question[s] < next /\ target[s] < next
        BY DEF IInv, RunsFit
      <3>2. 0 < next'
        BY <1>0, <3>1
      <3> QED
        BY <1>0, <1>1, <3>1, <3>2
    <2>2. \A x \in resumes' : x.target < next'
      BY <1>0, HistoryTypes DEF IInv, RunsFit
    <2>3. \A s \in Runners : Active(s)' => turn'[s] > 0 /\ turn'[s] \notin ended'
      BY <1>1 DEF IInv, RunsFit
    <2>4. \A s \in Runners : seen'[s] \subseteq ended'
      BY <1>1 DEF IInv, RunsFit
    <2>5. \A s, t \in Runners : Active(s)' /\ Active(t)' /\ turn'[s] = turn'[t] => s = t
      BY <1>1 DEF IInv, RunsFit
    <2> QED
      BY <2>1, <2>2, <2>3, <2>4, <2>5 DEF RunsFit
  <1>3. ExecutionsFit'
    <2> SUFFICES ASSUME NEW v \in executed
                 PROVE  /\ v.after \subseteq ended' /\ v.question < next' /\ v.target < next'
                        /\ v.turn \in ended' \/ \E s \in Runners : Active(s)' /\ turn'[s] = v.turn
                        /\ \A s \in Runners : Active(s)' /\ turn'[s] = v.turn =>
                             (v.reported => v.item \in did'[s]) /\ v.question = question'[s]
                        /\ \A m \in Answers' : m.turn = v.turn => m.asked = v.question
      BY DEF ExecutionsFit
    <2>1. v.question \in Nat /\ v.target \in Nat
      BY <1>0, HistoryTypes
    <2>2. v.turn \in ended' \/ \E s \in Runners : Active(s)' /\ turn'[s] = v.turn
      <3>1. CASE v.turn \in ended
        BY <1>1, <3>1
      <3>2. ASSUME NEW s \in Runners, Active(s), turn[s] = v.turn
            PROVE  v.turn \in ended' \/ \E t \in Runners : Active(t)' /\ turn'[t] = v.turn
        <4>1. CASE s = r
          BY <1>1, <3>2, <4>1
        <4>2. CASE s # r
          BY <1>1, <3>2, <4>2 DEF Active
        <4> QED
          BY <4>1, <4>2
      <3> QED
        BY <3>1, <3>2 DEF IInv, ExecutionsFit
    <2>3. \A m \in Answers' : m.turn = v.turn => m.asked = v.question
      BY DEF IInv, ExecutionsFit
    <2> QED
      BY <1>0, <1>1, <2>1, <2>2, <2>3 DEF IInv, ExecutionsFit
  <1> QED
    BY <1>2, <1>3

\* The answer is stored, with what it executed, after the question it answered.
LEMMA PersistKeeps ==
  ASSUME IInv, NEW r \in Runners, PersistAssistant(r)
  PROVE  IInv'
  <1>0. TypeOK /\ TypeOK' /\ RowsFit /\ Active(r)
    BY TypeKept DEF IInv, Next, PersistAssistant, Active
  <1>1. PICK finish \in Finish, writes \in {did[r], {}}, fails \in {failed[r], {}} :
          /\ Stored("assistant", finish, writes, fails, question[r], turn[r])
          /\ lost' = (lost \/ writes # did[r])
    BY <1>0, KeptOrLost
  <1>2. End(r) /\ UNCHANGED <<turns, executed, resumes, overlapped>>
    BY DEF PersistAssistant
  <1>3. PICK n : /\ n = [seq |-> next, role |-> "assistant", finish |-> finish, executed |-> writes,
                         failed |-> fails, asked |-> question[r], turn |-> turn[r]]
                 /\ messages' = messages \cup {n}
    BY <1>1 DEF Stored
  <1>4. next' = next + 1 /\ next \in Nat
    BY <1>0, <1>1 DEF Stored, TypeOK
  <1>5. /\ n.seq = next /\ n.role = "assistant" /\ n.executed = writes
        /\ n.asked = question[r] /\ n.turn = turn[r]
        /\ Users(messages') = Users(messages) /\ Answers' = Answers \cup {n}
        /\ n \in messages'
    BY <1>3 DEF Users, Answers
  <1>6. /\ \A s \in Runners :
             /\ at'[s] = IF s = r THEN "idle" ELSE at[s]
             /\ question'[s] = IF s = r THEN 0 ELSE question[s]
             /\ target'[s] = IF s = r THEN 0 ELSE target[s]
             /\ told'[s] = IF s = r THEN {} ELSE told[s]
             /\ missed'[s] = IF s = r THEN {} ELSE missed[s]
             /\ seen'[s] = IF s = r THEN {} ELSE seen[s]
        /\ ended' = ended \cup {turn[r]} /\ turn[r] \notin ended
        /\ \A s \in Runners : Active(s)' => s # r /\ Active(s)
        /\ \A v \in executed : turn[r] \notin v.after
        /\ \A s \in Runners : turn[r] \notin seen[s]
    BY <1>0, <1>2, EndChanges
  <1>7. /\ \A m \in messages : m.seq \in Nat /\ m.seq >= 1 /\ m.seq < next
        /\ \A s \in Runners : target[s] < next /\ target[s] \in Nat
        /\ question[r] < next /\ question[r] \in Nat
    BY <1>0, RowTypes DEF RowsFit, IInv, RunsFit, TypeOK
  <1>8. RowsFit'
    <2>1. IsFiniteSet(messages')
      BY <1>0, <1>3, FS_AddElement DEF RowsFit
    <2>2. \A m \in messages' : m.seq < next'
      BY <1>3, <1>4, <1>5, <1>7
    <2>3. \A m, k \in messages' : m.seq = k.seq => m = k
      <3>1. \A m \in messages : m.seq # n.seq
        BY <1>4, <1>5, <1>7
      <3>2. \A m, k \in messages : m.seq = k.seq => m = k
        BY <1>0 DEF RowsFit
      <3>3. \A m \in messages' : m \in messages \/ m = n
        BY <1>3
      <3> QED
        BY <3>1, <3>2, <3>3
    <2>4. \A m \in Answers' : m.turn \in ended' /\ m.asked < m.seq
      BY <1>0, <1>5, <1>6, <1>7 DEF RowsFit
    <2> QED
      BY <1>0, <1>5, <2>1, <2>2, <2>3, <2>4 DEF RowsFit
  <1>9. RunsFit' /\ ExecutionsFit'
    <2>1. next' \in Nat /\ next <= next'
      BY <1>4
    <2> QED
      BY <1>0, <1>2, <1>5, <2>1, EndFits
  <1>10. ASSUME NEW s \in Runners PROVE Told(s)'
    <2>1. CASE s = r
      BY <1>6, <2>1 DEF Told
    <2>2. CASE s # r
      <3>1. \A m \in messages' : m.seq = target[s] => m \in messages
        BY <1>3, <1>5, <1>7
      <3>2. \A m \in Answers' : m.turn \in seen[s] => m \in Answers
        BY <1>5, <1>6
      <3>3. \A m \in Answers : next' <= m.seq + HistoryLimit => next <= m.seq + HistoryLimit
        BY <1>4, <1>7 DEF Answers
      <3> QED
        BY <1>6, <2>2, <3>1, <3>2, <3>3 DEF IInv, Told
    <2> QED
      BY <2>1, <2>2
  <1>11. WritesAreNotRepeated' /\ ResumedOnce'
    <2>1. NeverRepeatedInTurn' /\ ResumedOnce'
      BY <1>1, <1>2 DEF IInv, WritesAreNotRepeated, NeverRepeatedInTurn, ResumedOnce
    <2>2. \A m \in messages : next' <= m.seq + HistoryLimit => next <= m.seq + HistoryLimit
      BY <1>4, <1>7
    <2>3. ASSUME NEW v \in executed, NEW u \in executed, NEW m \in messages', SameWork(v, u),
                 m.turn = v.turn, v.item \in m.executed, next' <= m.seq + HistoryLimit
          PROVE  ~Knows(u, v)
      <3>1. CASE m \in messages
        BY <2>2, <2>3, <3>1 DEF IInv, WritesAreNotRepeated, RecordedNeverRepeated
      <3>2. CASE m = n
        BY <1>5, <1>6, <2>3, <3>2 DEF Knows
      <3> QED
        BY <1>3, <2>3, <3>1, <3>2
    <2>4. RecordedNeverRepeated'
      BY <1>2, <2>3 DEF RecordedNeverRepeated
    <2>5. ReceiptNeverRepeated'
      <3>1. \A w \in executed : w.target < next /\ w.target \in Nat
        BY <1>0, HistoryTypes DEF IInv, ExecutionsFit
      <3>2. \A w \in executed : n.seq # w.target
        BY <1>4, <1>5, <3>1
      <3> QED
        BY <1>2, <1>3, <3>2 DEF IInv, WritesAreNotRepeated, ReceiptNeverRepeated
    <2> QED
      BY <2>1, <2>4, <2>5 DEF WritesAreNotRepeated
  <1>12. ASSUME ~overlapped' PROVE OneByOne'
    <2>1. OneByOne /\ AboutTheLast(r) /\ (\A s \in Runners : Active(s) => s = r)
          /\ \A s \in Runners : ~Active(s)'
      BY <1>0, <1>2, <1>6, <1>12 DEF IInv, OneByOne
    <2>2. ASSUME NEW m \in Answers'
          PROVE  /\ \E q \in Users(messages') : q.seq = m.asked
                 /\ \A u \in Users(messages') : u.seq < m.seq => u.seq <= m.asked
      <3>1. CASE m \in Answers
        BY <1>5, <2>1, <3>1 DEF OneByOne
      <3>2. CASE m = n
        BY <1>5, <2>1, <3>2 DEF AboutTheLast
      <3> QED
        BY <1>5, <2>2, <3>1, <3>2
    <2>3. ASSUME ~lost', NEW v \in executed, v.reported PROVE OnRecord(v)'
      <3>1. ~lost /\ writes = did[r] /\ OnRecord(v)
        BY <1>1, <2>1, <2>3 DEF OneByOne
      <3>2. ASSUME NEW s \in Runners, Active(s), turn[s] = v.turn PROVE OnRecord(v)'
        <4>1. s = r /\ v.item \in did[r]
          BY <2>1, <2>3, <3>2 DEF IInv, ExecutionsFit
        <4>2. n \in Answers' /\ n.turn = v.turn /\ v.item \in n.executed
          BY <1>5, <3>1, <3>2, <4>1
        <4> QED
          BY <4>2 DEF OnRecord
      <3>3. CASE \A u \in Users(messages) : u.seq # v.question
        BY <1>5, <3>3 DEF OnRecord
      <3>4. CASE \E m \in Answers : m.turn = v.turn /\ v.item \in m.executed
        BY <1>5, <3>4 DEF OnRecord
      <3> QED
        BY <3>1, <3>2, <3>3, <3>4 DEF OnRecord
    <2>4. ASSUME ~lost', NEW x \in resumes PROVE Continued(x)'
      <3>0. x.target < next /\ x.target \in 1..MaxSeq /\ x.target \in Nat
        BY <1>0, HistoryTypes DEF IInv, RunsFit
      <3>1. ~lost /\ Continued(x)
        BY <1>1, <2>1, <2>4 DEF OneByOne
      <3>2. ASSUME NEW s \in Runners, Active(s), target[s] = x.target PROVE Continued(x)'
        <4>1. s = r /\ target[r] # 0
          BY <2>1, <3>0, <3>2
        <4>2. \A u \in messages : u.seq <= x.target
          BY <2>1, <3>2, <4>1 DEF AboutTheLast
        <4>3. \A u \in Users(messages) : ~(u.seq > x.target)
          BY <1>7, <3>0, <4>2 DEF Users
        <4>4. n \in Answers' /\ n.seq > x.target
          BY <1>4, <1>5, <3>0
        <4> QED
          BY <1>5, <4>3, <4>4 DEF Continued
      <3>3. CASE \A m \in messages : m.seq # x.target
        <4>1. \A m \in messages' : m.seq # x.target
          BY <1>3, <1>4, <1>5, <3>0, <3>3
        <4> QED
          BY <4>1 DEF Continued
      <3>4. CASE \E m \in Answers : /\ m.seq > x.target
                                    /\ \A u \in Users(messages) : u.seq > x.target => u.seq > m.seq
        BY <1>5, <3>4 DEF Continued
      <3> QED
        BY <3>1, <3>2, <3>3, <3>4 DEF Continued
    <2> QED
      BY <1>2, <2>1, <2>2, <2>3, <2>4 DEF OneByOne
  <1> QED
    BY <1>0, <1>8, <1>9, <1>10, <1>11, <1>12 DEF IInv

\* A turn that is lost leaves nothing, and a record was lost.
LEMMA LossKeeps ==
  ASSUME IInv, NEW r \in Runners, TurnLost(r)
  PROVE  IInv'
  <1>0. TypeOK /\ TypeOK' /\ Active(r)
    BY TypeKept DEF IInv, Next, TurnLost, Active
  <1>1. End(r) /\ lost' /\ UNCHANGED <<messages, next, turns, executed, resumes, overlapped>>
    BY DEF TurnLost
  <1>2. /\ \A s \in Runners :
             /\ at'[s] = IF s = r THEN "idle" ELSE at[s]
             /\ question'[s] = IF s = r THEN 0 ELSE question[s]
             /\ target'[s] = IF s = r THEN 0 ELSE target[s]
             /\ told'[s] = IF s = r THEN {} ELSE told[s]
             /\ missed'[s] = IF s = r THEN {} ELSE missed[s]
             /\ seen'[s] = IF s = r THEN {} ELSE seen[s]
        /\ ended' = ended \cup {turn[r]}
        /\ \A s \in Runners : Active(s)' => s # r /\ Active(s)
    BY <1>0, <1>1, EndChanges
  <1>3. Users(messages') = Users(messages) /\ Answers' = Answers
    BY <1>1 DEF Answers
  <1>4. RowsFit'
    BY <1>1, <1>2, <1>3 DEF IInv, RowsFit
  <1>5. RunsFit' /\ ExecutionsFit'
    <2>1. next' \in Nat /\ next <= next'
      BY <1>0, <1>1 DEF TypeOK
    <2> QED
      BY <1>0, <1>1, <1>3, <2>1, EndFits
  <1>6. \A s \in Runners : Told(s)'
    BY <1>1, <1>2, <1>3 DEF IInv, Told
  <1>7. WritesAreNotRepeated' /\ ResumedOnce'
    BY <1>1 DEF IInv, WritesAreNotRepeated, NeverRepeatedInTurn,
                RecordedNeverRepeated, ReceiptNeverRepeated, ResumedOnce
  <1>8. ASSUME ~overlapped' PROVE OneByOne'
    <2>1. OneByOne /\ \A s \in Runners : ~Active(s)'
      BY <1>0, <1>1, <1>2, <1>8 DEF IInv, OneByOne
    <2> QED
      BY <1>1, <1>3, <2>1 DEF OneByOne
  <1> QED
    BY <1>0, <1>4, <1>5, <1>6, <1>7, <1>8 DEF IInv

--------------------------------------------------------------------------------
(* The invariant.                                                          *)

\* Nothing is stored and nothing is under way at first.
LEMMA AtFirst == Init => IInv
  <1> SUFFICES ASSUME Init PROVE IInv
    OBVIOUS
  <1>1. TypeOK
    <2>1. 1 \in 1..(MaxSeq + 1) /\ 0 \in 0..MaxSeq /\ 0 \in 0..MaxTurns /\ 0 \in 0..0
          /\ 0 \in 0..MaxFailures
      OBVIOUS
    <2>2. /\ messages = {} /\ next = 1 /\ turns = 0 /\ ended = {} /\ executed = {} /\ resumes = {}
          /\ failures = 0 /\ overlapped = FALSE /\ lost = FALSE
      BY DEF Init
    <2>3. /\ at \in [Runners -> {"idle", "receipts", "context", "working"}]
          /\ \A r \in Runners : at[r] = "idle"
          /\ {told, did, failed} \subseteq [Runners -> SUBSET Items]
          /\ missed \in [Runners -> SUBSET (0..MaxTurns)]
          /\ seen \in [Runners -> SUBSET (1..turns)]
      BY DEF Init
    <2>4. /\ question \in [Runners -> 0..MaxSeq] /\ target \in [Runners -> 0..MaxSeq]
          /\ turn \in [Runners -> 0..turns]
      BY <2>1, <2>2 DEF Init
    <2> QED
      BY <2>1, <2>2, <2>3, <2>4 DEF TypeOK
  <1>2. RowsFit
    BY FS_EmptySet DEF Init, RowsFit, Users, Answers
  <1>3. RunsFit /\ ExecutionsFit /\ \A r \in Runners : Told(r)
    BY DEF Init, RunsFit, ExecutionsFit, Told, Active
  <1>4. OneByOne
    BY DEF Init, OneByOne, Active, Answers
  <1>5. WritesAreNotRepeated /\ ResumedOnce
    BY DEF Init, WritesAreNotRepeated, NeverRepeatedInTurn, RecordedNeverRepeated,
           ReceiptNeverRepeated, ResumedOnce
  <1> QED
    BY <1>1, <1>2, <1>3, <1>4, <1>5 DEF IInv

\* Whatever the runners, the window and the bounds: what rows, runs and executions have
\* in common, what each provider was told, and what holds while operations follow one
\* another.
THEOREM Inductive == Spec => []IInv
  <1>1. IInv /\ Next => IInv'
    BY TruncateKeeps, SendKeeps, ResumeKeeps, ReceiptsKeep, ContextKeeps, UnreadKeeps, WriteKeeps,
       FailureKeeps, PersistKeeps, LossKeeps DEF Next
  <1>2. IInv /\ UNCHANGED vars => IInv'
    <2> SUFFICES ASSUME IInv, UNCHANGED vars PROVE IInv'
      OBVIOUS
    <2>1. TypeOK'
      BY DEF vars, runVars, history, IInv, TypeOK
    <2>2. /\ UNCHANGED <<messages, next, at, question, target, told, did, missed, seen, turn>>
          /\ UNCHANGED <<turns, ended, executed, resumes, overlapped, lost>>
      BY DEF vars, runVars, history
    <2> QED
      BY <2>1, <2>2, NothingMoves
  <1> QED
    BY <1>1, <1>2, AtFirst, PTL DEF Spec

\* "NEVER REPEAT AN EXECUTED WRITE" (resume.go): in turns that follow one another, as long
\* as records are stored and shown; side by side by no turn that was shown the record; and
\* by no resume of the turn that executed it, whatever it was shown of the others.
THEOREM NothingIsRepeated == Spec => []WritesAreNotRepeated
  <1>1. IInv => WritesAreNotRepeated
    BY DEF IInv
  <1> QED
    BY <1>1, Inductive, PTL

\* A resume continues its turn, once, and at the question that turn was answering.
THEOREM ResumeHolds == Spec => []ResumeIsSound
  <1>1. IInv => ResumeIsSound
    <2> SUFFICES ASSUME IInv PROVE ResumeKeepsQuestion
      BY DEF IInv, ResumeIsSound
    <2> SUFFICES ASSUME ~overlapped, NEW r \in Runners, NEW m \in messages,
                        at[r] # "idle", m.seq = target[r]
                 PROVE  question[r] = m.asked
      BY DEF ResumeKeepsQuestion
    <2>1. AboutTheLast(r) /\ target[r] # 0
      <3>1. m.seq >= 1
        BY RowTypes DEF IInv
      <3> QED
        BY <3>1 DEF IInv, OneByOne, Active
    <2>2. PICK k \in Answers : k.seq = target[r] /\ k.asked = question[r]
      BY <2>1 DEF AboutTheLast
    <2> QED
      BY <2>2 DEF IInv, RowsFit, Answers
  <1> QED
    BY <1>1, Inductive, PTL

\* Rows have their types, and outside an overlap no answer outlives its question.
THEOREM TranscriptHolds == Spec => []TranscriptIsSound
  <1>1. IInv => TranscriptIsSound
    <2> SUFFICES ASSUME IInv, ~overlapped, NEW m \in messages, m.role = "assistant"
                 PROVE  \E q \in Users(messages) : q.seq = m.asked /\ q.seq < m.seq
      BY DEF IInv, TranscriptIsSound, NoOrphanAnswer
    <2>1. m \in Answers
      BY DEF Answers
    <2>2. PICK q \in Users(messages) : q.seq = m.asked
      BY <2>1 DEF IInv, OneByOne
    <2> QED
      BY <2>1, <2>2 DEF IInv, RowsFit
  <1> QED
    BY <1>1, Inductive, PTL

--------------------------------------------------------------------------------
(* TurnContext: the selection of evidence and of the execution record.     *)

HIDE ConversationAssumption DEF ConversationAssumption
USE ContextAssumption DEF ContextAssumption

\* Of a set of positions the lowest is taken last.
LEMMA OldestIsLowest ==
  ASSUME NEW S, S \subseteq Nat, S # {}
  PROVE  OldestLast(S) \in S /\ \A j \in S : OldestLast(S) <= j
  <1>1. \E i \in S : \A j \in S : i <= j
    BY LowestExists
  <1> QED
    BY <1>1 DEF OldestLast, Min

\* What the types say of one record.
LEMMA RecordTypes ==
  ASSUME ContextTypeOK, NEW i \in DOMAIN audit
  PROVE  /\ audit[i] \in Record /\ audit[i].tool \in Tools /\ audit[i].seen \in Nat
         /\ audit[i].about \in Subjects \cup {None} /\ audit[i].turn \in 1..MaxBegun
         /\ audit[i].status \in Status /\ i \in Nat /\ i \in 1..Len(audit) /\ Len(audit) \in Nat
  <1>1. DOMAIN audit = 1..Len(audit) /\ Len(audit) \in Nat /\ audit[i] \in Record
    BY DEF ContextTypeOK
  <1> QED
    BY <1>1 DEF Record

Keys == Tools \X (Subjects \cup {None})

LEMMA CostTypes ==
  ASSUME ContextTypeOK, NEW i \in DOMAIN audit
  PROVE  Cost(audit[i]) \in Nat /\ Key(audit[i]) \in Keys
  <1>1. SizeOf[audit[i].tool] \in Nat
    BY RecordTypes
  <1>2. CutOf(audit[i]) \in Nat /\ CutOf(audit[i]) <= SizeOf[audit[i].tool]
    BY <1>1 DEF CutOf
  <1>3. Cost(audit[i]) \in Nat
    BY <1>1, <1>2 DEF Cost
  <1>4. Key(audit[i]) \in Keys
    BY RecordTypes DEF Key, Keys
  <1> QED
    BY <1>3, <1>4

Costs == [i \in DOMAIN audit |-> Cost(audit[i])]

\* The cost of what is chosen is a sum over the trail.
LEMMA CostIsSum ==
  ASSUME ContextTypeOK, NEW S, IsFiniteSet(S), S \subseteq DOMAIN audit
  PROVE  CostOfAll(S) = SumFunctionOnSet(Costs, S) /\ CostOfAll(S) \in Nat
  <1> DEFINE w == [i \in S |-> Cost(audit[i])]
  <1>1. \A i \in S : w[i] = Costs[i] /\ w[i] \in Nat
    BY CostTypes DEF Costs
  <1>2. SumFunctionOnSet(w, S) = SumFunctionOnSet(Costs, S)
    <2> HIDE DEF w
    <2> QED
      BY <1>1, SumAgrees
  <1>3. SumFunctionOnSet(w, S) \in Nat
    <2> HIDE DEF w
    <2> QED
      BY <1>1, SumType
  <1> QED
    BY <1>2, <1>3 DEF CostOfAll

--------------------------------------------------------------------------------
(* The selection of evidence.                                              *)

\* What has been picked of a set of positions: the newest of each call, in order,
\* within the budget, and none that would fit is left out.
NewestIn(S) ==
  {i \in S : /\ Carried(audit[i])
             /\ \A j \in S : j > i /\ Carried(audit[j]) => Key(audit[j]) # Key(audit[i])}
Increasing(q) == \A m, n \in DOMAIN q : m < n => q[m] < q[n]
Accs(S) == [seen : SUBSET Keys, used : Nat, picked : Seq(S)]
PickedWell(S, acc) ==
  /\ \A k : k \in acc.seen <=> \E i \in S : Carried(audit[i]) /\ k = Key(audit[i])
  /\ Range(acc.picked) \subseteq NewestIn(S) /\ Increasing(acc.picked)
  /\ acc.used = CostOfAll(Range(acc.picked)) /\ acc.used <= EvidenceBudget
  /\ \A i \in NewestIn(S) \ Range(acc.picked) : acc.used + Cost(audit[i]) > EvidenceBudget

LEMMA PrependIs ==
  ASSUME NEW T, NEW q \in Seq(T), NEW x \in T
  PROVE  /\ <<x>> \o q \in Seq(T) /\ Range(<<x>> \o q) = {x} \cup Range(q)
         /\ Len(<<x>> \o q) = Len(q) + 1 /\ Len(q) \in Nat
         /\ (<<x>> \o q)[1] = x /\ \A n \in 1..Len(q) : (<<x>> \o q)[n + 1] = q[n]
  <1> DEFINE p == <<x>> \o q
  <1>1. p \in Seq(T) /\ Len(p) = Len(q) + 1 /\ Len(q) \in Nat
    OBVIOUS
  <1>2. p[1] = x /\ \A n \in 1..Len(q) : p[n + 1] = q[n]
    OBVIOUS
  <1>3. \A k \in 1..Len(p) : k = 1 \/ (k - 1 \in 1..Len(q) /\ p[k] = q[k - 1])
    BY <1>1
  <1>4. Range(p) = {x} \cup Range(q)
    <2>1. DOMAIN p = 1..Len(p) /\ DOMAIN q = 1..Len(q)
      BY <1>1
    <2>2. 1 \in 1..Len(p) /\ \A n \in 1..Len(q) : n + 1 \in 1..Len(p)
      BY <1>1
    <2> HIDE DEF p
    <2>3. ASSUME NEW y \in Range(p) PROVE y \in {x} \cup Range(q)
      <3>1. PICK k \in 1..Len(p) : y = p[k]
        BY <2>1 DEF Range
      <3>2. CASE k = 1
        BY <1>2, <3>1, <3>2
      <3>3. CASE k # 1
        BY <1>3, <2>1, <3>1, <3>3 DEF Range
      <3> QED
        BY <3>2, <3>3
    <2>4. ASSUME NEW y \in {x} \cup Range(q) PROVE y \in Range(p)
      BY <1>2, <2>1, <2>2 DEF Range
    <2> QED
      BY <2>3, <2>4
  <1> QED
    BY <1>1, <1>2, <1>4

LEMMA RangeIsFinite ==
  ASSUME NEW T, NEW q \in Seq(T)
  PROVE  IsFiniteSet(Range(q)) /\ Range(q) \subseteq T /\ DOMAIN q = 1..Len(q) /\ Len(q) \in Nat
  <1>1. DOMAIN q = 1..Len(q) /\ Len(q) \in Nat /\ \A n \in 1..Len(q) : q[n] \in T
    OBVIOUS
  <1>2. IsFiniteSet(1..Len(q))
    BY <1>1, FS_Interval
  <1>3. IsFiniteSet({q[n] : n \in 1..Len(q)})
    BY <1>2, ImageIsFinite
  <1>4. Range(q) = {q[n] : n \in 1..Len(q)}
    BY <1>1 DEF Range
  <1> QED
    BY <1>1, <1>3, <1>4

LEMMA PickType ==
  ASSUME ContextTypeOK, NEW S, S \subseteq DOMAIN audit, NEW i \in S, NEW acc \in Accs(S)
  PROVE  PickItem(i, acc) \in Accs(S)
  <1>1. Cost(audit[i]) \in Nat /\ Key(audit[i]) \in Keys
    BY CostTypes
  <1>2. <<i>> \o acc.picked \in Seq(S)
    BY PrependIs DEF Accs
  <1>3. acc.seen \cup {Key(audit[i])} \in SUBSET Keys
    BY <1>1 DEF Accs
  <1> DEFINE rec == audit[i]
  <1>4. acc.used \in Nat /\ acc.picked \in Seq(S)
    BY DEF Accs
  <1>5. CASE ~Carried(rec) \/ Key(rec) \in acc.seen
    BY <1>5 DEF PickItem
  <1>6. CASE Carried(rec) /\ Key(rec) \notin acc.seen /\ acc.used + Cost(rec) > EvidenceBudget
    <2>1. PickItem(i, acc) = [acc EXCEPT !.seen = @ \cup {Key(rec)}]
      BY <1>6 DEF PickItem
    <2> HIDE DEF Keys, rec
    <2> QED
      BY <1>3, <2>1 DEF Accs, rec
  <1>7. CASE Carried(rec) /\ Key(rec) \notin acc.seen /\ ~(acc.used + Cost(rec) > EvidenceBudget)
    <2>1. PickItem(i, acc) = [seen |-> acc.seen \cup {Key(rec)}, used |-> acc.used + Cost(rec),
                              picked |-> <<i>> \o acc.picked]
      BY <1>7 DEF PickItem
    <2>2. acc.used + Cost(rec) \in Nat
      BY <1>1, <1>4
    <2> HIDE DEF Keys
    <2> QED
      BY <1>2, <1>3, <2>1, <2>2 DEF Accs
  <1> QED
    BY <1>5, <1>6, <1>7

\* One position older than all that were looked at.
LEMMA PickKeeps ==
  ASSUME ContextTypeOK, NEW S, S \subseteq DOMAIN audit, IsFiniteSet(S), NEW s \in SUBSET S,
         NEW i \in S, \A j \in s : i < j, NEW acc \in Accs(S), PickedWell(s, acc)
  PROVE  PickedWell(s \cup {i}, PickItem(i, acc))
  <1> DEFINE rec == audit[i]  t == s \cup {i}  new == PickItem(i, acc)
  <1> SUFFICES PickedWell(t, new)
    OBVIOUS
  <1>1. \A j \in S : j \in Nat /\ Cost(audit[j]) \in Nat
    BY RecordTypes, CostTypes
  <1>2. i \notin s /\ i \in Nat
    BY <1>1
  <1>3. \A j \in s : j \in NewestIn(t) <=> j \in NewestIn(s)
    BY <1>1, <1>2 DEF NewestIn
  <1>4. i \in NewestIn(t) <=> Carried(rec) /\ Key(rec) \notin acc.seen
    BY <1>1 DEF NewestIn, PickedWell
  <1>5. acc.picked \in Seq(S) /\ acc.used \in Nat /\ Range(acc.picked) \subseteq s
    BY DEF Accs, PickedWell, NewestIn
  <1>6. CASE ~Carried(rec) \/ Key(rec) \in acc.seen
    <2>1. new = acc
      BY <1>6 DEF PickItem
    <2>2. i \notin NewestIn(t)
      BY <1>4, <1>6
    <2>3. NewestIn(t) = NewestIn(s)
      BY <1>3, <2>2, <1>2 DEF NewestIn
    <2>4. \A k : k \in acc.seen <=> \E j \in t : Carried(audit[j]) /\ k = Key(audit[j])
      BY <1>6 DEF PickedWell
    <2> HIDE DEF new, t
    <2> QED
      BY <2>1, <2>3, <2>4 DEF PickedWell
  <1>7. CASE Carried(rec) /\ Key(rec) \notin acc.seen
    <2>1. NewestIn(t) = NewestIn(s) \cup {i}
      BY <1>2, <1>3, <1>4, <1>7 DEF NewestIn
    <2>2. \A k : k \in acc.seen \cup {Key(rec)} <=> \E j \in t : Carried(audit[j]) /\ k = Key(audit[j])
      BY <1>7 DEF PickedWell
    <2>3. CASE acc.used + Cost(rec) > EvidenceBudget
      <3>1. new.seen = acc.seen \cup {Key(rec)} /\ new.used = acc.used /\ new.picked = acc.picked
        BY <1>7, <2>3 DEF PickItem, Accs
      <3> HIDE DEF new, t
      <3> QED
        BY <2>1, <2>2, <2>3, <3>1 DEF PickedWell
    <2>4. CASE ~(acc.used + Cost(rec) > EvidenceBudget)
      <3>1. /\ new.seen = acc.seen \cup {Key(rec)} /\ new.used = acc.used + Cost(rec)
            /\ new.picked = <<i>> \o acc.picked
        BY <1>7, <2>4 DEF PickItem
      <3>2. Range(new.picked) = {i} \cup Range(acc.picked)
        BY <1>5, <3>1, PrependIs
      <3>3. Increasing(new.picked)
        <4>1. \A n \in 1..Len(acc.picked) : i < acc.picked[n]
          <5>1. \A n \in 1..Len(acc.picked) : acc.picked[n] \in s
            BY <1>5 DEF Range
          <5> QED
            BY <5>1
        <4>2. /\ Len(new.picked) = Len(acc.picked) + 1 /\ Len(acc.picked) \in Nat /\ new.picked \in Seq(S)
              /\ new.picked[1] = i /\ \A n \in 1..Len(acc.picked) : new.picked[n + 1] = acc.picked[n]
          BY <1>5, <3>1, PrependIs
        <4> DEFINE L == Len(acc.picked)  q == new.picked
        <4>3. \A n \in 1..(L + 1) : n = 1 \/ (n - 1 \in 1..L /\ q[n] = acc.picked[n - 1])
          <5>1. \A n \in 1..(L + 1) : n # 1 => n - 1 \in 1..L /\ (n - 1) + 1 = n
            BY <4>2
          <5> HIDE DEF q, L
          <5> QED
            BY <4>2, <5>1 DEF q, L
        <4>4. \A m, n \in 1..L : m < n => acc.picked[m] < acc.picked[n]
          BY <1>5 DEF PickedWell, Increasing
        <4>5. ASSUME NEW m \in 1..(L + 1), NEW n \in 1..(L + 1), m < n PROVE q[m] < q[n]
          <5>1. n - 1 \in 1..L /\ q[n] = acc.picked[n - 1]
            BY <4>2, <4>3, <4>5
          <5>2. CASE m = 1
            BY <4>1, <4>2, <5>1, <5>2
          <5>3. CASE m # 1
            <6>1. m - 1 \in 1..L /\ q[m] = acc.picked[m - 1] /\ m - 1 < n - 1
              BY <4>2, <4>3, <4>5, <5>3
            <6> QED
              BY <4>4, <5>1, <6>1
          <5> QED
            BY <5>2, <5>3
        <4>6. DOMAIN q = 1..(L + 1)
          BY <4>2
        <4> HIDE DEF q, L
        <4> QED
          BY <4>5, <4>6 DEF Increasing, q
      <3>4. CostOfAll(Range(new.picked)) = Cost(rec) + acc.used
        <4>1. IsFiniteSet(Range(acc.picked)) /\ i \notin Range(acc.picked)
          BY <1>2, <1>5, RangeIsFinite
        <4>2. Range(acc.picked) \cup {i} \subseteq DOMAIN audit /\ IsFiniteSet(Range(acc.picked) \cup {i})
          BY <1>5, <4>1, FS_AddElement
        <4>3. \A j \in Range(acc.picked) \cup {i} : Costs[j] \in Nat
          BY <4>2, CostTypes DEF Costs
        <4>4. SumFunctionOnSet(Costs, Range(acc.picked) \cup {i})
                = Costs[i] + SumFunctionOnSet(Costs, Range(acc.picked))
          BY <4>1, <4>3, SumAdds
        <4>5. /\ CostOfAll(Range(acc.picked)) = SumFunctionOnSet(Costs, Range(acc.picked))
              /\ CostOfAll(Range(acc.picked) \cup {i}) = SumFunctionOnSet(Costs, Range(acc.picked) \cup {i})
          BY <4>1, <4>2, CostIsSum
        <4>6. Costs[i] = Cost(rec) /\ acc.used = CostOfAll(Range(acc.picked))
          BY DEF Costs, PickedWell
        <4>7. Range(new.picked) = Range(acc.picked) \cup {i}
          BY <3>2
        <4> HIDE DEF new, rec
        <4> QED
          BY <4>4, <4>5, <4>6, <4>7
      <3>5. new.used = CostOfAll(Range(new.picked)) /\ new.used <= EvidenceBudget
        <4>1. Cost(rec) \in Nat
          BY <1>1
        <4> HIDE DEF new, rec
        <4> QED
          BY <1>5, <2>4, <3>1, <3>4, <4>1
      <3>6. Range(new.picked) \subseteq NewestIn(t)
        BY <2>1, <3>2 DEF PickedWell
      <3>7. ASSUME NEW j \in NewestIn(t) \ Range(new.picked)
            PROVE  new.used + Cost(audit[j]) > EvidenceBudget
        <4>1. j \in NewestIn(s) \ Range(acc.picked) /\ j \in S
          BY <2>1, <3>2, <3>7 DEF NewestIn
        <4>2. acc.used + Cost(audit[j]) > EvidenceBudget /\ Cost(audit[j]) \in Nat /\ Cost(rec) \in Nat
          BY <1>1, <4>1 DEF PickedWell
        <4> HIDE DEF new, rec
        <4> QED
          BY <1>5, <3>1, <4>2
      <3>8. \A k : k \in new.seen <=> \E j \in t : Carried(audit[j]) /\ k = Key(audit[j])
        BY <2>2, <3>1
      <3> HIDE DEF new, t
      <3> QED
        BY <3>3, <3>5, <3>6, <3>7, <3>8 DEF PickedWell
    <2> QED
      BY <2>3, <2>4
  <1> QED
    BY <1>6, <1>7

LEMMA EvidenceUnfolds ==
  ASSUME NEW S
  PROVE  SelectEvidence(S) = (CHOOSE g : g = [s \in SUBSET S |->
           IF s = {} THEN Picking ELSE PickItem(OldestLast(s), g[s \ {OldestLast(s)}])])[S].picked
  BY DEF SelectEvidence, MapThenFoldSet

\* Nothing is picked of nothing.
LEMMA PickingIsWell ==
  ASSUME ContextTypeOK, NEW S
  PROVE  Picking \in Accs(S) /\ PickedWell({}, Picking)
  <1>1. Picking \in Accs(S)
    BY DEF Picking, Accs
  <1>2. Range(Picking.picked) = {} /\ Increasing(Picking.picked)
    BY DEF Picking, Range, Increasing
  <1>3. CostOfAll({}) = 0
    BY SumEmpty DEF CostOfAll
  <1>4. NewestIn({}) = {} /\ Picking.seen = {} /\ Picking.used = 0
    BY DEF NewestIn, Picking
  <1> QED
    BY <1>1, <1>2, <1>3, <1>4 DEF PickedWell

\* What SelectEvidence makes of a set of positions in the trail.
LEMMA EvidenceSelected ==
  ASSUME ContextTypeOK, NEW S, IsFiniteSet(S), S \subseteq DOMAIN audit
  PROVE  \E acc \in Accs(S) : PickedWell(S, acc) /\ SelectEvidence(S) = acc.picked
  <1> DEFINE Rec(g, s) == IF s = {} THEN Picking ELSE PickItem(OldestLast(s), g[s \ {OldestLast(s)}])
             last == [s \in SUBSET S |-> OldestLast(s)]
             step == [p \in S \X Accs(S) |-> PickItem(p[1], p[2])]
  <1>1. \A s \in SUBSET S : s # {} => OldestLast(s) \in s /\ \A j \in s : OldestLast(s) <= j
    <2>1. S \subseteq Nat
      BY RecordTypes
    <2> QED
      BY <2>1, OldestIsLowest
  <1>2. step \in [S \X Accs(S) -> Accs(S)]
    BY PickType
  <1>3. \E g : g = [s \in SUBSET S |-> Rec(g, s)]
    <2>1. TakesLast(last, S)
      BY <1>1 DEF TakesLast
    <2>2. PICK g : SolvesFold(g, Picking, step, last, Accs(S), S)
      <3>1. Picking \in Accs(S)
        BY PickingIsWell
      <3> HIDE DEF last, step
      <3> QED
        BY <1>2, <2>1, <3>1, FoldExists
    <2>3. g \in [SUBSET S -> Accs(S)] /\ \A s \in SUBSET S : g[s] = FoldStep(Picking, step, last, g, s)
      BY <2>2 DEF SolvesFold
    <2>4. ASSUME NEW s \in SUBSET S PROVE g[s] = Rec(g, s)
      <3>1. CASE s = {}
        BY <2>3, <3>1 DEF FoldStep
      <3>2. CASE s # {}
        <4>1. last[s] = OldestLast(s) /\ OldestLast(s) \in S /\ s \ {OldestLast(s)} \in SUBSET S
          BY <1>1, <3>2
        <4>2. g[s] = step[<<OldestLast(s), g[s \ {OldestLast(s)}]>>]
          BY <2>3, <3>2, <4>1 DEF FoldStep
        <4>3. <<OldestLast(s), g[s \ {OldestLast(s)}]>> \in S \X Accs(S)
          BY <2>3, <4>1
        <4> QED
          BY <3>2, <4>2, <4>3
      <3> QED
        BY <3>1, <3>2
    <2>5. g = [s \in SUBSET S |-> Rec(g, s)]
      <3> HIDE DEF Rec
      <3> QED
        BY <2>3, <2>4
    <2> QED
      BY <2>5
  <1> DEFINE G == CHOOSE g : g = [s \in SUBSET S |-> Rec(g, s)]
  <1>4. G = [s \in SUBSET S |-> Rec(G, s)]
    <2> HIDE DEF Rec
    <2> QED
      BY <1>3
  <1>5. SelectEvidence(S) = G[S].picked
    BY EvidenceUnfolds
  <1> HIDE DEF G
  <1> DEFINE F == {s \in SUBSET S : G[s] \in Accs(S) /\ PickedWell(s, G[s])}
  <1>6. ASSUME NEW s \in SUBSET S, \A u \in SUBSET s : u # s => u \in F
        PROVE  s \in F
    <2>1. G[s] = Rec(G, s)
      <3> HIDE DEF Rec
      <3> QED
        BY <1>4
    <2>2. CASE s = {}
      BY <2>1, <2>2, PickingIsWell
    <2>3. CASE s # {}
      <3> DEFINE i == OldestLast(s)  u == s \ {i}
      <3>1. i \in s /\ i \in S /\ u \in SUBSET S /\ s = u \cup {i}
        BY <1>1, <2>3
      <3>2. u \in F
        BY <1>6, <3>1
      <3>3. \A j \in u : i < j
        <4>1. \A j \in s : j \in Nat /\ i <= j
          BY <1>1, RecordTypes
        <4> QED
          BY <3>1, <4>1
      <3>4. G[s] = PickItem(i, G[u])
        BY <2>1, <2>3
      <3> HIDE DEF i, u, Rec
      <3>5. G[s] \in Accs(S)
        BY <3>1, <3>2, <3>4, PickType
      <3>6. PickedWell(u \cup {i}, PickItem(i, G[u]))
        BY <3>1, <3>2, <3>3, PickKeeps
      <3> QED
        BY <3>1, <3>4, <3>5, <3>6
    <2> QED
      BY <2>2, <2>3
  <1>7. SUBSET S \subseteq F
    <2> HIDE DEF F
    <2> QED
      BY <1>6, StrongInduction
  <1>8. S \in F
    BY <1>7
  <1> QED
    BY <1>5, <1>8

--------------------------------------------------------------------------------
(* The selection of the execution record.                                  *)

\* What the types say of one row.
LEMMA MessageTypes ==
  ASSUME ContextTypeOK, NEW i \in DOMAIN rows
  PROVE  /\ rows[i].turn \in 1..MaxBegun /\ i \in Nat /\ i \in 1..Len(rows) /\ Len(rows) \in Nat
         /\ rows[i].role \in {"user", "assistant"}
  <1>1. rows \in Seq([role : {"user", "assistant"}, turn : 1..MaxBegun])
    BY DEF ContextTypeOK
  <1>2. DOMAIN rows = 1..Len(rows) /\ Len(rows) \in Nat
    BY <1>1
  <1>3. rows[i] \in [role : {"user", "assistant"}, turn : 1..MaxBegun]
    BY <1>1, <1>2, ElementOfSeq
  <1> QED
    BY <1>2, <1>3

\* The entries of a turn are as many as the kinds of its writes, and count them all.
LEMMA EntriesCount ==
  ASSUME ContextTypeOK, NEW n, NEW records, records \subseteq DOMAIN audit, IsFiniteSet(records)
  PROVE  LET entries == EntriesOf(n, records)
             wrote == WritesOf(n, records)
         IN /\ entries \subseteq Entry /\ IsFiniteSet(entries)
            /\ Cardinality(entries) = Cardinality({KindOf(i) : i \in wrote})
            /\ AllCounts(entries) = Cardinality(wrote)
            /\ (entries = {} <=> wrote = {})
  <1> DEFINE wrote == WritesOf(n, records)
             kinds == {KindOf(i) : i \in wrote}
             entries == EntriesOf(n, records)
             Of(k) == {i \in wrote : KindOf(i) = k}
             For(k) == [tool |-> k[1], status |-> k[2], count |-> Cardinality(Of(k)),
                        refs |-> {audit[i].about : i \in Of(k)}]
  <1>1. wrote \subseteq DOMAIN audit /\ IsFiniteSet(wrote)
    BY FS_Subset DEF WritesOf
  <1>2. entries = {For(k) : k \in kinds}
    BY DEF EntriesOf
  <1>3. IsFiniteSet(kinds)
    <2> DEFINE f == [i \in wrote |-> KindOf(i)]
    <2>1. IsFiniteSet({f[i] : i \in wrote})
      <3> HIDE DEF f, wrote
      <3> QED
        BY <1>1, ImageIsFinite
    <2>2. {f[i] : i \in wrote} = kinds
      OBVIOUS
    <2> QED
      BY <2>1, <2>2
  <1>4. \A i \in wrote : /\ KindOf(i) \in Tools \X Status /\ audit[i].about \in Subjects \cup {None}
    BY <1>1, RecordTypes DEF KindOf
  <1>5. \A k : IsFiniteSet(Of(k)) /\ Cardinality(Of(k)) \in Nat /\ Of(k) \subseteq wrote
    <2>1. \A k : Of(k) \subseteq wrote
      OBVIOUS
    <2> HIDE DEF Of
    <2> QED
      BY <1>1, <2>1, FS_Subset, FS_CardinalityType
  <1>6. \A k \in kinds : For(k) \in Entry
    <2>1. ASSUME NEW k \in kinds PROVE For(k) \in Entry
      <3>1. k[1] \in Tools /\ k[2] \in Status
        BY <1>4
      <3>2. {audit[i].about : i \in Of(k)} \in SUBSET (Subjects \cup {None})
        BY <1>4
      <3>3. Cardinality(Of(k)) \in Nat
        BY <1>5
      <3> HIDE DEF Of
      <3> QED
        BY <3>1, <3>2, <3>3 DEF Entry
    <2> QED
      BY <2>1
  <1>7. \A j, k \in kinds : For(j) = For(k) => j = k
    <2>1. \A k \in kinds : k = <<For(k).tool, For(k).status>>
      BY <1>4
    <2> HIDE DEF For, kinds
    <2> QED
      BY <2>1
  <1> DEFINE b == [k \in kinds |-> For(k)]
  <1>8. IsFiniteSet(entries) /\ Cardinality(entries) = Cardinality(kinds)
    <2>1. b \in Bijection(kinds, entries)
      <3>1. b \in [kinds -> entries]
        BY <1>2
      <3>2. \A j, k \in kinds : b[j] = b[k] => j = k
        BY <1>7
      <3>3. \A e \in entries : \E k \in kinds : b[k] = e
        BY <1>2
      <3> HIDE DEF b, kinds, entries
      <3> QED
        BY <3>1, <3>2, <3>3 DEF Bijection, Injection, IsInjective, Surjection
    <2> HIDE DEF b, kinds, entries
    <2> QED
      BY <1>3, <2>1, FS_Bijection DEF ExistsBijection
  <1>9. AllCounts(entries) = Cardinality(wrote)
    <2> DEFINE w == [i \in wrote |-> 1]
               f == [i \in wrote |-> For(KindOf(i))]
               g == [e \in entries |-> Of(<<e.tool, e.status>>)]
               v == [e \in entries |-> e.count]
    <2>1. \A i \in wrote : w[i] = 1 /\ w[i] \in Nat
      OBVIOUS
    <2>2. \A i \in wrote : f[i] \in entries
      <3>1. \A i \in wrote : KindOf(i) \in kinds /\ f[i] = For(KindOf(i))
        OBVIOUS
      <3> HIDE DEF For, f, kinds, entries, wrote
      <3> QED
        BY <1>2, <3>1
    <2>3. \A e \in entries : \E k \in kinds : e = For(k) /\ k = <<e.tool, e.status>>
      <3>1. \A k \in kinds : k = <<For(k).tool, For(k).status>>
        BY <1>4
      <3> HIDE DEF For, kinds, entries
      <3> QED
        BY <1>2, <3>1
    <2>4. \A e \in entries : g[e] \subseteq wrote /\ \A i \in wrote : i \in g[e] <=> f[i] = e
      <3>1. ASSUME NEW e \in entries PROVE g[e] \subseteq wrote /\ \A i \in wrote : i \in g[e] <=> f[i] = e
        <4>1. PICK k \in kinds : e = For(k) /\ k = <<e.tool, e.status>>
          BY <2>3
        <4>2. g[e] = Of(k)
          BY <4>1
        <4>3. \A i \in wrote : KindOf(i) \in kinds /\ f[i] = For(KindOf(i))
          OBVIOUS
        <4>4. \A i \in wrote : i \in Of(k) <=> KindOf(i) = k
          OBVIOUS
        <4>5. Of(k) \subseteq wrote
          OBVIOUS
        <4> HIDE DEF Of, For, kinds, f, g, entries, wrote
        <4> QED
          BY <1>7, <4>1, <4>2, <4>3, <4>4, <4>5
      <3> QED
        BY <3>1
    <2>5. \A e \in entries : v[e] = SumFunctionOnSet(w, g[e])
      <3>1. ASSUME NEW e \in entries PROVE v[e] = SumFunctionOnSet(w, g[e])
        <4>1. PICK k \in kinds : e = For(k) /\ k = <<e.tool, e.status>>
          BY <2>3
        <4>2. v[e] = Cardinality(Of(k)) /\ g[e] = Of(k)
          BY <4>1
        <4>3. \A i \in Of(k) : w[i] = 1
          OBVIOUS
        <4>4. SumFunctionOnSet(w, Of(k)) = Cardinality(Of(k)) * 1
          <5> HIDE DEF Of, w
          <5> QED
            BY <1>5, <4>3, SumOfEqual
        <4> HIDE DEF Of, v, g, w
        <4> QED
          BY <1>5, <4>2, <4>4
      <3> QED
        BY <3>1
    <2>6. SumFunctionOnSet(v, entries) = SumFunctionOnSet(w, wrote)
      <3> HIDE DEF w, f, g, v, entries, wrote
      <3> QED
        BY <1>1, <1>8, <2>1, <2>2, <2>4, <2>5, SumOfFibres
    <2>7. SumFunctionOnSet(w, wrote) = Cardinality(wrote) * 1
      <3> HIDE DEF w, wrote
      <3> QED
        BY <1>1, <2>1, SumOfEqual
    <2>8. Cardinality(wrote) \in Nat
      BY <1>1, FS_CardinalityType
    <2>9. AllCounts(entries) = SumFunctionOnSet(v, entries)
      BY DEF AllCounts
    <2> HIDE DEF w, v, wrote, entries
    <2> QED
      BY <2>6, <2>7, <2>8, <2>9
  <1>10. entries = {} <=> wrote = {}
    <2>1. kinds = {} <=> wrote = {}
      OBVIOUS
    <2> HIDE DEF For, kinds, entries, wrote
    <2> QED
      BY <1>2, <2>1
  <1>11. entries \subseteq Entry
    BY <1>2, <1>6
  <1> QED
    BY <1>8, <1>9, <1>10, <1>11

\* A turn's line in the record, and the record so far: what is in it is within the
\* budget, and what is not would not fit.
Telling == [turn : 1..MaxBegun, entries : SUBSET Entry]
ToldOf(i, records) == [turn |-> rows[i].turn, entries |-> EntriesOf(rows[i].turn, records)]
TurnAccs == [used : Nat, picked : Seq(Telling)]
ToldWell(S, acc, records) ==
  /\ \A e \in Range(acc.picked) : \E i \in S : e = ToldOf(i, records)
  /\ acc.used = CostOfTurns(Range(acc.picked)) /\ acc.used <= ExecutionBudget
  /\ \A i \in S : LET entries == EntriesOf(rows[i].turn, records) IN
       \/ entries = {} \/ ToldOf(i, records) \in Range(acc.picked)
       \/ acc.used + 1 + Cardinality(entries) > ExecutionBudget

LEMMA TurnCostAdds ==
  ASSUME NEW T, IsFiniteSet(T), \A e \in T : IsFiniteSet(e.entries),
         NEW x, x \notin T, IsFiniteSet(x.entries)
  PROVE  /\ CostOfTurns(T \cup {x}) = CostOfTurns(T) + 1 + Cardinality(x.entries)
         /\ CostOfTurns(T) \in Nat
  <1> DEFINE w == [e \in T |-> 1 + Cardinality(e.entries)]
             v == [e \in T \cup {x} |-> 1 + Cardinality(e.entries)]
  <1>1. \A e \in T \cup {x} : v[e] \in Nat
    BY FS_CardinalityType
  <1>2. \A e \in T : w[e] = v[e] /\ w[e] \in Nat
    BY <1>1
  <1>3. SumFunctionOnSet(v, T \cup {x}) = v[x] + SumFunctionOnSet(v, T)
    <2> HIDE DEF v
    <2> QED
      BY <1>1, SumAdds
  <1>4. SumFunctionOnSet(w, T) = SumFunctionOnSet(v, T)
    <2> HIDE DEF v, w
    <2> QED
      BY <1>2, SumAgrees
  <1>5. SumFunctionOnSet(w, T) \in Nat
    <2> HIDE DEF w
    <2> QED
      BY <1>2, SumType
  <1>6. v[x] = 1 + Cardinality(x.entries) /\ Cardinality(x.entries) \in Nat
    BY FS_CardinalityType
  <1>7. CostOfTurns(T) = SumFunctionOnSet(w, T)
        /\ CostOfTurns(T \cup {x}) = SumFunctionOnSet(v, T \cup {x})
    BY DEF CostOfTurns
  <1> HIDE DEF w, v
  <1> QED
    BY <1>3, <1>4, <1>5, <1>6, <1>7

LEMMA ToldTypes ==
  ASSUME ContextTypeOK, NEW i \in DOMAIN rows,
         NEW records, records \subseteq DOMAIN audit, IsFiniteSet(records)
  PROVE  /\ ToldOf(i, records) \in Telling /\ IsFiniteSet(ToldOf(i, records).entries)
         /\ IsFiniteSet(EntriesOf(rows[i].turn, records))
         /\ Cardinality(EntriesOf(rows[i].turn, records)) \in Nat
  <1>1. rows[i].turn \in 1..MaxBegun
    BY MessageTypes
  <1>2. EntriesOf(rows[i].turn, records) \subseteq Entry /\ IsFiniteSet(EntriesOf(rows[i].turn, records))
    BY EntriesCount
  <1> QED
    BY <1>1, <1>2, FS_CardinalityType DEF ToldOf, Telling

LEMMA PickTurnType ==
  ASSUME ContextTypeOK, NEW i \in DOMAIN rows, NEW acc \in TurnAccs,
         NEW records, records \subseteq DOMAIN audit, IsFiniteSet(records)
  PROVE  PickTurn(i, acc, records) \in TurnAccs
  <1>1. ToldOf(i, records) \in Telling /\ Cardinality(EntriesOf(rows[i].turn, records)) \in Nat
    BY ToldTypes
  <1>2. <<ToldOf(i, records)>> \o acc.picked \in Seq(Telling)
    BY <1>1, PrependIs DEF TurnAccs
  <1> QED
    BY <1>1, <1>2 DEF PickTurn, TurnAccs, ToldOf

\* One answer older than all that were looked at.
LEMMA PickTurnKeeps ==
  ASSUME ContextTypeOK, NEW s, s \subseteq DOMAIN rows, NEW i \in DOMAIN rows,
         \A j \in s : rows[j].turn # rows[i].turn,
         NEW records, records \subseteq DOMAIN audit, IsFiniteSet(records),
         NEW acc \in TurnAccs, ToldWell(s, acc, records)
  PROVE  ToldWell(s \cup {i}, PickTurn(i, acc, records), records)
  <1> DEFINE entries == EntriesOf(rows[i].turn, records)
             cost == 1 + Cardinality(entries)
             new == PickTurn(i, acc, records)
             t == s \cup {i}
             line == ToldOf(i, records)
  <1> SUFFICES ToldWell(t, new, records)
    OBVIOUS
  <1>1. \A j \in t : IsFiniteSet(ToldOf(j, records).entries) /\ ToldOf(j, records) \in Telling
                     /\ Cardinality(EntriesOf(rows[j].turn, records)) \in Nat
    BY ToldTypes
  <1>2. acc.picked \in Seq(Telling) /\ acc.used \in Nat
    BY DEF TurnAccs
  <1>3. CASE entries = {} \/ acc.used + cost > ExecutionBudget
    <2>1. new = acc
      BY <1>3 DEF PickTurn
    <2>2. acc.used + 1 + Cardinality(entries) = acc.used + cost
      <3>1. Cardinality(entries) \in Nat
        BY <1>1
      <3> HIDE DEF entries, new, t, line
      <3>2. /\ acc.used \in Nat
            /\ cost = 1 + Cardinality(entries)
        BY <1>2
      <3> HIDE DEF cost
      <3> QED
        BY <3>1, <3>2
    <2>3. entries = {} \/ acc.used + 1 + Cardinality(entries) > ExecutionBudget
      BY <1>3, <2>2
    <2> HIDE DEF new, cost
    <2> QED
      BY <2>1, <2>3 DEF ToldWell
  <1>4. CASE ~(entries = {} \/ acc.used + cost > ExecutionBudget)
    <2>1. new.used = acc.used + cost /\ new.picked = <<line>> \o acc.picked
      BY <1>4 DEF PickTurn, ToldOf
    <2>2. line \in Telling /\ line.entries = entries
      BY <1>1 DEF ToldOf
    <2>3. Range(new.picked) = {line} \cup Range(acc.picked)
      <3> HIDE DEF new, line
      <3> QED
        BY <1>2, <2>1, <2>2, PrependIs
    <2>4. line \notin Range(acc.picked)
      BY DEF ToldWell, ToldOf
    <2>5. IsFiniteSet(Range(acc.picked)) /\ \A e \in Range(acc.picked) : IsFiniteSet(e.entries)
      BY <1>1, <1>2, RangeIsFinite DEF ToldWell
    <2>6. CostOfTurns(Range(acc.picked) \cup {line}) = CostOfTurns(Range(acc.picked)) + 1 + Cardinality(entries)
      <3>1. IsFiniteSet(line.entries)
        BY <1>1
      <3> HIDE DEF line, entries
      <3> QED
        BY <2>2, <2>4, <2>5, <3>1, TurnCostAdds
    <2>7. new.used = CostOfTurns(Range(new.picked)) /\ new.used <= ExecutionBudget
      <3>1. Cardinality(entries) \in Nat
        BY <1>1
      <3>2. Range(new.picked) = Range(acc.picked) \cup {line}
        BY <2>3
      <3>3. acc.used = CostOfTurns(Range(acc.picked))
        BY DEF ToldWell
      <3>4. acc.used + cost = acc.used + 1 + Cardinality(entries)
        <4>1. acc.used \in Nat
          BY <1>2
        <4> HIDE DEF entries
        <4> QED
          BY <3>1, <4>1
      <3>5. acc.used + cost <= ExecutionBudget
        BY <1>2, <1>4, <3>1
      <3> HIDE DEF new, line, entries, cost
      <3> QED
        BY <2>1, <2>6, <3>2, <3>3, <3>4, <3>5
    <2>8. \A e \in Range(new.picked) : \E j \in t : e = ToldOf(j, records)
      <3> HIDE DEF new
      <3> QED
        BY <2>3 DEF ToldWell
    <2>9. ASSUME NEW j \in t
          PROVE  \/ EntriesOf(rows[j].turn, records) = {} \/ ToldOf(j, records) \in Range(new.picked)
                 \/ new.used + 1 + Cardinality(EntriesOf(rows[j].turn, records)) > ExecutionBudget
      <3>1. CASE j = i
        <4> HIDE DEF new
        <4> QED
          BY <2>3, <3>1
      <3>2. CASE j \in s
        <4>1. Cardinality(EntriesOf(rows[j].turn, records)) \in Nat /\ cost \in Nat
          BY <1>1
        <4>2. \/ EntriesOf(rows[j].turn, records) = {} \/ ToldOf(j, records) \in Range(acc.picked)
              \/ acc.used + 1 + Cardinality(EntriesOf(rows[j].turn, records)) > ExecutionBudget
          BY <3>2 DEF ToldWell
        <4>3. new.used >= acc.used /\ new.used \in Nat /\ acc.used \in Nat
          <5> HIDE DEF new, cost
          <5> QED
            BY <1>2, <2>1, <4>1
        <4> DEFINE n == Cardinality(EntriesOf(rows[j].turn, records))
        <4>4. acc.used + 1 + n > ExecutionBudget => new.used + 1 + n > ExecutionBudget
          <5>1. n \in Nat
            BY <4>1
          <5> HIDE DEF new, n
          <5> QED
            BY <4>3, <5>1
        <4> HIDE DEF new, line
        <4> QED
          BY <2>3, <4>2, <4>4
      <3> QED
        BY <3>1, <3>2
    <2> HIDE DEF new, t
    <2> QED
      BY <2>7, <2>8, <2>9 DEF ToldWell
  <1> QED
    BY <1>3, <1>4

LEMMA ExecutionUnfolds ==
  ASSUME NEW S, NEW records
  PROVE  SelectExecution(S, records) = (CHOOSE g : g = [s \in SUBSET S |->
           IF s = {} THEN [used |-> 0, picked |-> <<>>]
           ELSE PickTurn(OldestLast(s), g[s \ {OldestLast(s)}], records)])[S].picked
  BY DEF SelectExecution, MapThenFoldSet

\* What SelectExecution makes of the answers in sight.
LEMMA ExecutionSelected ==
  ASSUME ContextTypeOK, NEW S, IsFiniteSet(S), S \subseteq DOMAIN rows,
         \A i, j \in S : rows[i].turn = rows[j].turn => i = j,
         NEW records, records \subseteq DOMAIN audit, IsFiniteSet(records)
  PROVE  \E acc \in TurnAccs : ToldWell(S, acc, records) /\ SelectExecution(S, records) = acc.picked
  <1> DEFINE Silence == [used |-> 0, picked |-> <<>>]
             Rec(g, s) == IF s = {} THEN Silence
                          ELSE PickTurn(OldestLast(s), g[s \ {OldestLast(s)}], records)
             last == [s \in SUBSET S |-> OldestLast(s)]
             step == [p \in S \X TurnAccs |-> PickTurn(p[1], p[2], records)]
  <1>1. \A s \in SUBSET S : s # {} => OldestLast(s) \in s
    <2>1. S \subseteq Nat
      BY MessageTypes
    <2> QED
      BY <2>1, OldestIsLowest
  <1>2. step \in [S \X TurnAccs -> TurnAccs]
    BY PickTurnType
  <1>3. Silence \in TurnAccs /\ ToldWell({}, Silence, records)
    <2>1. Range(Silence.picked) = {}
      BY DEF Range
    <2>2. CostOfTurns({}) = 0
      BY SumEmpty DEF CostOfTurns
    <2>3. Silence \in TurnAccs
      BY DEF TurnAccs
    <2>4. Silence.used = 0
      OBVIOUS
    <2> HIDE DEF Silence
    <2>5. ToldWell({}, Silence, records)
      BY <2>1, <2>2, <2>4 DEF ToldWell
    <2> QED
      BY <2>3, <2>5
  <1> HIDE DEF Silence
  <1>4. \E g : g = [s \in SUBSET S |-> Rec(g, s)]
    <2>1. TakesLast(last, S)
      BY <1>1 DEF TakesLast
    <2>2. PICK g : SolvesFold(g, Silence, step, last, TurnAccs, S)
      <3> HIDE DEF last, step
      <3> QED
        BY <1>2, <1>3, <2>1, FoldExists
    <2>3. g \in [SUBSET S -> TurnAccs] /\ \A s \in SUBSET S : g[s] = FoldStep(Silence, step, last, g, s)
      BY <2>2 DEF SolvesFold
    <2>4. ASSUME NEW s \in SUBSET S PROVE g[s] = Rec(g, s)
      <3>1. CASE s = {}
        BY <2>3, <3>1 DEF FoldStep
      <3>2. CASE s # {}
        <4>1. last[s] = OldestLast(s) /\ OldestLast(s) \in S /\ s \ {OldestLast(s)} \in SUBSET S
          BY <1>1, <3>2
        <4>2. g[s] = step[<<OldestLast(s), g[s \ {OldestLast(s)}]>>]
          BY <2>3, <3>2, <4>1 DEF FoldStep
        <4>3. <<OldestLast(s), g[s \ {OldestLast(s)}]>> \in S \X TurnAccs
          BY <2>3, <4>1
        <4> QED
          BY <3>2, <4>2, <4>3
      <3> QED
        BY <3>1, <3>2
    <2>5. g = [s \in SUBSET S |-> Rec(g, s)]
      <3> HIDE DEF Rec
      <3> QED
        BY <2>3, <2>4
    <2> QED
      BY <2>5
  <1> DEFINE G == CHOOSE g : g = [s \in SUBSET S |-> Rec(g, s)]
  <1>5. G = [s \in SUBSET S |-> Rec(G, s)]
    <2> HIDE DEF Rec
    <2> QED
      BY <1>4
  <1>6. SelectExecution(S, records) = G[S].picked
    BY ExecutionUnfolds DEF Silence
  <1> HIDE DEF G
  <1> DEFINE F == {s \in SUBSET S : G[s] \in TurnAccs /\ ToldWell(s, G[s], records)}
  <1>7. ASSUME NEW s \in SUBSET S, \A u \in SUBSET s : u # s => u \in F
        PROVE  s \in F
    <2>1. G[s] = Rec(G, s)
      <3> HIDE DEF Rec
      <3> QED
        BY <1>5
    <2>2. CASE s = {}
      BY <1>3, <2>1, <2>2
    <2>3. CASE s # {}
      <3> DEFINE i == OldestLast(s)  u == s \ {i}
      <3>1. i \in s /\ i \in S /\ u \in SUBSET S /\ s = u \cup {i} /\ i \notin u
        BY <1>1, <2>3
      <3>2. u \in F
        BY <1>7, <3>1
      <3>3. \A j \in u : rows[j].turn # rows[i].turn
        <4> HIDE DEF i, u
        <4> QED
          BY <3>1
      <3>4. G[s] = PickTurn(i, G[u], records)
        BY <2>1, <2>3
      <3> HIDE DEF i, u, Rec
      <3>5. G[s] \in TurnAccs
        BY <3>1, <3>2, <3>4, PickTurnType
      <3>6. ToldWell(u \cup {i}, PickTurn(i, G[u], records), records)
        BY <3>1, <3>2, <3>3, PickTurnKeeps
      <3> QED
        BY <3>1, <3>4, <3>5, <3>6
    <2> QED
      BY <2>2, <2>3
  <1>8. SUBSET S \subseteq F
    <2> HIDE DEF F
    <2> QED
      BY <1>7, StrongInduction
  <1>9. S \in F
    BY <1>8
  <1> QED
    BY <1>6, <1>9

--------------------------------------------------------------------------------
(* Types of the steps.                                                     *)

\* What the types say of one runner.
LEMMA TurnTypes ==
  ASSUME ContextTypeOK, NEW r \in TurnRunners
  PROVE  /\ op[r] \in Turn /\ op[r].turn \in 0..MaxBegun /\ op[r].attached \subseteq Subjects
         /\ op[r].scope \subseteq Tools /\ op[r].tools \subseteq Tools /\ op[r].held \subseteq Tools
         /\ op[r].window \subseteq 1..MaxBegun /\ op[r].evidence \in Seq(Nat) /\ op[r].read \in Nat
         /\ op[r].execution \in Seq(Telling) /\ op[r].calls \in Seq(Record)
         /\ op[r].at \in {"idle", "evidence", "hydrate", "loop", "audit"}
         /\ op[r].hydrated \in [Subjects -> {None, "unauthorized", "unavailable", "current"}]
  <1>1. op \in [TurnRunners -> Turn]
    BY DEF ContextTypeOK
  <1>2. op[r] \in Turn
    BY <1>1
  <1> HIDE DEF Record, Entry
  <1> QED
    BY <1>2 DEF Turn, Telling

LEMMA IdleType ==
  Idle \in Turn
  <1>1. <<>> \in Seq(Nat) /\ <<>> \in Seq(Record) /\ <<>> \in Seq(Telling)
    OBVIOUS
  <1>2. [s \in Subjects |-> None] \in [Subjects -> {None, "unauthorized", "unavailable", "current"}]
    OBVIOUS
  <1> QED
    BY <1>1, <1>2 DEF Idle, Turn, Telling

LEMMA InLoopType ==
  ASSUME ContextTypeOK, NEW r \in TurnRunners
  PROVE  InLoop(r) \in Turn
  BY TurnTypes, IdleType DEF InLoop, Turn

\* What the steps do to a turn keeps its type.
LEMMA TurnUpdates ==
  ASSUME NEW t \in Turn
  PROVE  /\ \A g \in SUBSET Tools : [t EXCEPT !.held = g] \in Turn
         /\ \A h \in [Subjects -> {None, "unauthorized", "unavailable", "current"}] :
              [t EXCEPT !.hydrated = h] \in Turn
         /\ \A c \in Seq(Record) : [t EXCEPT !.calls = c] \in Turn
         /\ \A g \in SUBSET Tools : [t EXCEPT !.at = "hydrate", !.tools = g] \in Turn
  <1> DEFINE R == Seq(Record)  E == Seq([turn : 1..MaxBegun, entries : SUBSET Entry])
             H == [Subjects -> {None, "unauthorized", "unavailable", "current"}]
             N == Seq(Nat)
  <1> HIDE DEF R, E, H, N
  <1>1. t \in [at : {"idle", "evidence", "hydrate", "loop", "audit"}, turn : 0..MaxBegun,
         attached : SUBSET Subjects, scope : SUBSET Tools, tools : SUBSET Tools, held : SUBSET Tools,
         window : SUBSET (1..MaxBegun), evidence : N, read : Nat, execution : E, hydrated : H, calls : R]
    BY DEF Turn, R, E, H, N
  <1>2. /\ \A g \in SUBSET Tools : [t EXCEPT !.held = g] \in Turn
        /\ \A h \in H : [t EXCEPT !.hydrated = h] \in Turn
        /\ \A c \in R : [t EXCEPT !.calls = c] \in Turn
        /\ \A g \in SUBSET Tools : [t EXCEPT !.at = "hydrate", !.tools = g] \in Turn
    BY <1>1 DEF Turn, R, E, H, N
  <1> QED
    BY <1>2 DEF R, H

LEMMA TurnBriefed ==
  ASSUME NEW t \in Turn, NEW g, g \subseteq Tools, NEW w, w \subseteq 1..MaxBegun, NEW n \in Nat,
         NEW ev \in Seq(Nat), NEW ex \in Seq(Telling)
  PROVE  [t EXCEPT !.at = "hydrate", !.tools = g, !.window = w, !.read = n,
                   !.evidence = ev, !.execution = ex] \in Turn
  BY DEF Turn, Telling

LEMMA TurnBegun ==
  ASSUME NEW n \in 0..MaxBegun, NEW scope, scope \subseteq Tools, NEW about, about \subseteq Subjects,
         NEW g, g \subseteq Tools
  PROVE  [Idle EXCEPT !.at = "evidence", !.turn = n, !.scope = scope,
                      !.attached = about, !.held = g] \in Turn
  BY IdleType DEF Turn

\* An answer is in the window once.
LEMMA OrderFits ==
  ASSUME ContextTypeOK, TurnsFit
  PROVE  /\ Order \subseteq DOMAIN rows /\ IsFiniteSet(Order)
         /\ \A i, j \in Order : rows[i].turn = rows[j].turn => i = j
         /\ WindowTurns \subseteq 1..MaxBegun
  <1>1. DOMAIN rows = 1..Len(rows) /\ Len(rows) \in Nat
    BY DEF ContextTypeOK
  <1>2. Order \subseteq DOMAIN rows /\ \A i \in Order : rows[i].role = "assistant"
    BY DEF Order
  <1>3. IsFiniteSet(Order)
    <2>1. IsFiniteSet(1..Len(rows))
      BY <1>1, FS_Interval
    <2> QED
      BY <1>1, <1>2, <2>1, FS_Subset
  <1>4. \A i, j \in Order : rows[i].turn = rows[j].turn => i = j
    BY <1>2 DEF TurnsFit
  <1>5. WindowTurns \subseteq 1..MaxBegun
    BY <1>2, MessageTypes DEF WindowTurns
  <1> QED
    BY <1>2, <1>3, <1>4, <1>5

Seen == {i \in DOMAIN audit : audit[i].turn \in WindowTurns}

LEMMA SeenFits ==
  ASSUME ContextTypeOK
  PROVE  /\ DOMAIN audit = 1..Len(audit) /\ Len(audit) \in Nat /\ Seen \subseteq DOMAIN audit
         /\ \A about : IsFiniteSet(DropReadingsOfSubjects(Seen, about))
         /\ \A about : DropReadingsOfSubjects(Seen, about) \subseteq DOMAIN audit
         /\ IsFiniteSet(Seen)
  <1>1. DOMAIN audit = 1..Len(audit) /\ Len(audit) \in Nat
    BY DEF ContextTypeOK
  <1>2. \A T : T \subseteq DOMAIN audit => IsFiniteSet(T)
    <2>1. IsFiniteSet(1..Len(audit))
      BY <1>1, FS_Interval
    <2> QED
      BY <1>1, <2>1, FS_Subset
  <1>3. \A about : DropReadingsOfSubjects(Seen, about) \subseteq DOMAIN audit
    BY DEF DropReadingsOfSubjects, Seen
  <1>4. Seen \subseteq DOMAIN audit
    BY DEF Seen
  <1> QED
    BY <1>1, <1>2, <1>3, <1>4

\* A runner's turn changes and the rest of them stay.
LEMMA OneTurnTypes ==
  ASSUME ContextTypeOK, NEW r \in TurnRunners, NEW x \in Turn, op' = [op EXCEPT ![r] = x]
  PROVE  op' \in [TurnRunners -> Turn]
  BY DEF ContextTypeOK

LEMMA EvidenceTypes ==
  ASSUME ContextTypeOK, TurnsFit, NEW r \in TurnRunners
  PROVE  /\ SelectEvidence(DropReadingsOfSubjects(Seen, TurnReferences(r))) \in Seq(Nat)
         /\ SelectExecution(Order, Seen) \in Seq(Telling)
  <1> DEFINE S == DropReadingsOfSubjects(Seen, TurnReferences(r))
  <1>1. IsFiniteSet(S) /\ S \subseteq DOMAIN audit /\ S \subseteq Nat
    BY SeenFits
  <1>2. PICK acc \in Accs(S) : SelectEvidence(S) = acc.picked
    <2> HIDE DEF S
    <2> QED
      BY <1>1, EvidenceSelected
  <1>3. acc.picked \in Seq(Nat)
    <2>1. acc.picked \in Seq(S)
      BY <1>2 DEF Accs
    <2> HIDE DEF S
    <2> QED
      BY <1>1, <2>1, SeqMonotonic
  <1>4. PICK shown \in TurnAccs : SelectExecution(Order, Seen) = shown.picked
    BY OrderFits, SeenFits, ExecutionSelected
  <1> QED
    BY <1>2, <1>3, <1>4 DEF TurnAccs

LEMMA ContextTypes ==
  ASSUME ContextIInv, [ContextNext]_contextVars
  PROVE  ContextTypeOK'
  <1> USE DEF ContextIInv
  <1>0. /\ clock \in 1..MaxClock /\ begun \in 0..MaxBegun
        /\ state \in [Subjects -> 0..MaxClock] /\ conv \subseteq Subjects /\ grants \subseteq Tools
        /\ rows \in Seq([role : {"user", "assistant"}, turn : 1..MaxBegun])
        /\ audit \in Seq(Record)
        /\ op \in [TurnRunners -> Turn]
        /\ beside \subseteq (1..MaxBegun) \X (1..MaxBegun)
    BY DEF ContextTypeOK
  <1> USE <1>0
  <1>1. CASE Change
    <2>1. PICK s \in Subjects, v \in {0, clock + 1} :
            clock' = clock + 1 /\ clock < MaxClock /\ state' = [state EXCEPT ![s] = v]
      BY <1>1 DEF Change
    <2>2. clock' \in 1..MaxClock /\ v \in 0..MaxClock
      BY <2>1
    <2>3. state' \in [Subjects -> 0..MaxClock]
      BY <2>1, <2>2
    <2> QED
      BY <1>1, <2>2, <2>3 DEF Change, ContextTypeOK
  <1>2. CASE EditGrants
    <2>1. grants' \subseteq Tools
      BY <1>2 DEF EditGrants
    <2>2. op' \in [TurnRunners -> Turn]
      <3>1. ASSUME NEW s \in TurnRunners PROVE [op[s] EXCEPT !.held = @ \cup grants'] \in Turn
        <4>1. op[s].held \cup grants' \in SUBSET Tools /\ op[s] \in Turn
          BY <2>1, TurnTypes
        <4> QED
          BY <4>1, TurnUpdates
      <3> QED
        BY <1>2, <3>1 DEF EditGrants
    <2> QED
      BY <1>2, <2>1, <2>2 DEF EditGrants, ContextTypeOK
  <1>3. ASSUME NEW r \in TurnRunners, BeginTurn(r) PROVE ContextTypeOK'
    <2>1. PICK scope \in Scopes, about \in Attachable :
            op' = [op EXCEPT ![r] = [Idle EXCEPT !.at = "evidence", !.turn = begun + 1, !.scope = scope,
                                                 !.attached = about, !.held = grants]]
      BY <1>3 DEF BeginTurn
    <2>2. begun + 1 \in 1..MaxBegun /\ begun' = begun + 1
      BY <1>3 DEF BeginTurn
    <2>3. [Idle EXCEPT !.at = "evidence", !.turn = begun + 1, !.scope = scope,
                       !.attached = about, !.held = grants] \in Turn
      <3>1. scope \subseteq Tools /\ about \subseteq Subjects /\ grants \subseteq Tools
            /\ begun + 1 \in 0..MaxBegun
        BY <2>2
      <3> QED
        BY <3>1, TurnBegun
    <2>4. op' \in [TurnRunners -> Turn]
      BY <2>1, <2>3, OneTurnTypes
    <2>5. rows' \in Seq([role : {"user", "assistant"}, turn : 1..MaxBegun])
      <3>1. [role |-> "user", turn |-> begun + 1] \in [role : {"user", "assistant"}, turn : 1..MaxBegun]
        BY <2>2
      <3> QED
        BY <1>3, <3>1 DEF BeginTurn
    <2>6. beside' \subseteq (1..MaxBegun) \X (1..MaxBegun)
      <3>1. \A o \in UnderWay : op[o].turn \in 1..MaxBegun
        BY DEF TurnsFit, UnderWay
      <3> QED
        BY <1>3, <2>2, <3>1 DEF BeginTurn
    <2>7. /\ clock' = clock /\ state' = state /\ grants' = grants /\ conv' = conv /\ audit' = audit
          /\ begun' \in 0..MaxBegun
      BY <1>3, <2>2 DEF BeginTurn
    <2> QED
      BY <2>4, <2>5, <2>6, <2>7 DEF ContextTypeOK
  <1>4. ASSUME NEW r \in TurnRunners, EvidenceForTurn(r) PROVE ContextTypeOK'
    <2> DEFINE ev == SelectEvidence(DropReadingsOfSubjects(Seen, TurnReferences(r)))
               ex == SelectExecution(Order, Seen)
               new == [op[r] EXCEPT !.at = "hydrate", !.tools = Declared(r), !.window = WindowTurns,
                                    !.read = Len(audit), !.evidence = ev, !.execution = ex]
    <2>1. op' = [op EXCEPT ![r] = new]
      BY <1>4 DEF EvidenceForTurn, Seen, ForExecution
    <2>2. Declared(r) \subseteq Tools /\ WindowTurns \subseteq 1..MaxBegun /\ Len(audit) \in Nat
      BY TurnTypes, OrderFits DEF Declared
    <2>3. ev \in Seq(Nat) /\ ex \in Seq(Telling)
      BY EvidenceTypes
    <2>4. new \in Turn
      <3>1. op[r] \in Turn
        BY TurnTypes
      <3> HIDE DEF ev, ex
      <3> QED
        BY <2>2, <2>3, <3>1, TurnBriefed
    <2>5. op' \in [TurnRunners -> Turn]
      <3> HIDE DEF new
      <3> QED
        BY <2>1, <2>4, OneTurnTypes
    <2> QED
      BY <1>4, <2>5 DEF EvidenceForTurn, ContextTypeOK
  <1>5. ASSUME NEW r \in TurnRunners, EvidenceUnavailable(r) PROVE ContextTypeOK'
    <2>1. [op[r] EXCEPT !.at = "hydrate", !.tools = Declared(r)] \in Turn
      <3>1. Declared(r) \in SUBSET Tools /\ op[r] \in Turn
        BY TurnTypes DEF Declared
      <3> QED
        BY <3>1, TurnUpdates
    <2>2. op' \in [TurnRunners -> Turn]
      BY <1>5, <2>1, OneTurnTypes DEF EvidenceUnavailable
    <2> QED
      BY <1>5, <2>2 DEF EvidenceUnavailable, ContextTypeOK
  <1>6. ASSUME NEW r \in TurnRunners, HydrateSubjects(r) PROVE ContextTypeOK'
    <2> DEFINE about == TurnReferences(r) \cap PerTurn
    <2>1. PICK h \in [about -> {"unauthorized", "unavailable", "current"}] :
            op' = [op EXCEPT ![r] = [InLoop(r) EXCEPT
                     !.hydrated = [s \in Subjects |-> IF s \in about THEN h[s] ELSE None]]]
      BY <1>6 DEF HydrateSubjects
    <2> DEFINE hy == [s \in Subjects |-> IF s \in about THEN h[s] ELSE None]
    <2>2. hy \in [Subjects -> {None, "unauthorized", "unavailable", "current"}]
      OBVIOUS
    <2>3. [InLoop(r) EXCEPT !.hydrated = hy] \in Turn
      <3>1. InLoop(r) \in Turn
        BY InLoopType
      <3> HIDE DEF hy
      <3> QED
        BY <2>2, <3>1, TurnUpdates
    <2>4. op' \in [TurnRunners -> Turn]
      BY <2>1, <2>3, OneTurnTypes
    <2> QED
      BY <1>6, <2>4 DEF HydrateSubjects, ContextTypeOK
  <1>7. ASSUME NEW r \in TurnRunners, ExecuteCall(r) PROVE ContextTypeOK'
    <2>1. PICK call \in Calls, status \in Status, now \in {clock, clock + 1} :
            /\ now <= MaxClock /\ clock' = now
            /\ state' = state \/ state' = [state EXCEPT ![call[2]] = now]
            /\ op' = [op EXCEPT ![r] = [InLoop(r) EXCEPT !.calls = Append(op[r].calls,
                        [turn |-> op[r].turn, tool |-> call[1], about |-> call[2],
                         status |-> status, seen |-> now])]]
      BY <1>7, Zenon DEF ExecuteCall, Status
    <2>2. now \in 1..MaxClock
      BY <2>1
    <2>3. op[r].turn \in 1..MaxBegun
      BY <1>7 DEF ExecuteCall, At, UnderWay, TurnsFit
    <2>4. [turn |-> op[r].turn, tool |-> call[1], about |-> call[2],
           status |-> status, seen |-> now] \in Record
      BY <2>2, <2>3 DEF Record
    <2>5. op' \in [TurnRunners -> Turn]
      <3> DEFINE c == [turn |-> op[r].turn, tool |-> call[1], about |-> call[2],
                       status |-> status, seen |-> now]
      <3>1. Append(op[r].calls, c) \in Seq(Record)
        <4>1. op[r].calls \in Seq(Record)
          BY TurnTypes
        <4>2. c \in Record
          BY <2>4
        <4> HIDE DEF c
        <4> QED
          BY <4>1, <4>2, AppendProperties
      <3>2. [InLoop(r) EXCEPT !.calls = Append(op[r].calls, c)] \in Turn
        <4>1. InLoop(r) \in Turn
          BY InLoopType
        <4> HIDE DEF c
        <4> QED
          BY <3>1, <4>1, TurnUpdates
      <3> QED
        BY <2>1, <3>2, OneTurnTypes
    <2>6. clock' \in 1..MaxClock /\ state' \in [Subjects -> 0..MaxClock]
      <3>1. state' = state \/ state' = [state EXCEPT ![call[2]] = now]
        BY <2>1
      <3>2. now \in 0..MaxClock /\ state \in [Subjects -> 0..MaxClock]
        BY <2>2
      <3>3. state' \in [Subjects -> 0..MaxClock]
        BY <3>1, <3>2
      <3> QED
        BY <2>1, <2>2, <3>3
    <2> QED
      BY <1>7, <2>5, <2>6 DEF ExecuteCall, ContextTypeOK
  <1>8. ASSUME NEW r \in TurnRunners, StoreAnswer(r) PROVE ContextTypeOK'
    <2>1. op[r].turn \in 1..MaxBegun
      BY <1>8 DEF StoreAnswer, At, UnderWay, TurnsFit
    <2>2. rows' \in Seq([role : {"user", "assistant"}, turn : 1..MaxBegun])
      <3>1. [role |-> "assistant", turn |-> op[r].turn] \in [role : {"user", "assistant"}, turn : 1..MaxBegun]
        BY <2>1
      <3> QED
        BY <1>8, <3>1 DEF StoreAnswer
    <2>3. [Idle EXCEPT !.at = "audit", !.turn = op[r].turn, !.calls = op[r].calls] \in Turn
      BY IdleType, TurnTypes DEF Turn
    <2>4. op' \in [TurnRunners -> Turn]
      BY <1>8, <2>3, IdleType, OneTurnTypes DEF StoreAnswer
    <2> QED
      BY <1>8, <2>2, <2>4 DEF StoreAnswer, ContextTypeOK
  <1>9. ASSUME NEW r \in TurnRunners, PersistToolCalls(r) PROVE ContextTypeOK'
    <2>1. audit' \in Seq(Record)
      BY <1>9, TurnTypes DEF PersistToolCalls
    <2>2. op' \in [TurnRunners -> Turn]
      BY <1>9, IdleType, OneTurnTypes DEF PersistToolCalls
    <2> QED
      BY <1>9, <2>1, <2>2 DEF PersistToolCalls, ContextTypeOK
  <1>10. ASSUME NEW r \in TurnRunners, Fail(r) PROVE ContextTypeOK'
    <2>1. op' \in [TurnRunners -> Turn]
      BY <1>10, IdleType, OneTurnTypes DEF Fail
    <2> QED
      BY <1>10, <2>1 DEF Fail, ContextTypeOK
  <1>11. CASE UNCHANGED contextVars
    BY <1>11 DEF contextVars, ContextTypeOK
  <1> QED
    BY <1>1, <1>2, <1>3, <1>4, <1>5, <1>6, <1>7, <1>8, <1>9, <1>10, <1>11 DEF ContextNext

HIDE ContextAssumption DEF ContextAssumption

--------------------------------------------------------------------------------
(* What each step does to the turn it is of.                               *)

\* The rest of the turns stay.
LEMMA OneTurn ==
  ASSUME ContextTypeOK, NEW r \in TurnRunners, NEW x, op' = [op EXCEPT ![r] = x]
  PROVE  op'[r] = x /\ \A s \in TurnRunners : s # r => op'[s] = op[s]
  BY DEF ContextTypeOK

TurnDomain == {"at", "turn", "attached", "scope", "tools", "held", "window", "evidence", "read",
               "execution", "hydrated", "calls"}

LEMMA TurnDomains ==
  /\ \A t \in Turn : DOMAIN t = TurnDomain
  /\ \A t \in Turn : \A g :
       /\ [t EXCEPT !.held = g].held = g /\ [t EXCEPT !.held = g].at = t.at
       /\ [t EXCEPT !.held = g].turn = t.turn /\ [t EXCEPT !.held = g].attached = t.attached
       /\ [t EXCEPT !.held = g].scope = t.scope /\ [t EXCEPT !.held = g].tools = t.tools
       /\ [t EXCEPT !.held = g].window = t.window /\ [t EXCEPT !.held = g].evidence = t.evidence
       /\ [t EXCEPT !.held = g].read = t.read /\ [t EXCEPT !.held = g].execution = t.execution
       /\ [t EXCEPT !.held = g].hydrated = t.hydrated /\ [t EXCEPT !.held = g].calls = t.calls
  <1>1. ASSUME NEW t \in Turn PROVE DOMAIN t = TurnDomain
    BY DEF Turn, TurnDomain
  <1>2. ASSUME NEW t \in Turn, NEW g
        PROVE  /\ [t EXCEPT !.held = g].held = g /\ [t EXCEPT !.held = g].at = t.at
               /\ [t EXCEPT !.held = g].turn = t.turn /\ [t EXCEPT !.held = g].attached = t.attached
               /\ [t EXCEPT !.held = g].scope = t.scope /\ [t EXCEPT !.held = g].tools = t.tools
               /\ [t EXCEPT !.held = g].window = t.window /\ [t EXCEPT !.held = g].evidence = t.evidence
               /\ [t EXCEPT !.held = g].read = t.read /\ [t EXCEPT !.held = g].execution = t.execution
               /\ [t EXCEPT !.held = g].hydrated = t.hydrated /\ [t EXCEPT !.held = g].calls = t.calls
    BY <1>1 DEF TurnDomain
  <1> QED
    BY <1>1, <1>2

\* Somebody edits an entity, or nothing happens.
LEMMA ChangedIs ==
  ASSUME ContextTypeOK, Change \/ UNCHANGED contextVars
  PROVE  /\ clock' \in Nat /\ clock <= clock' /\ op' = op /\ grants' = grants /\ conv' = conv
         /\ rows' = rows /\ audit' = audit /\ begun' = begun /\ beside' = beside
  BY DEF Change, contextVars, ContextTypeOK

\* The operator edits the grants.
LEMMA GrantedIs ==
  ASSUME ContextTypeOK, EditGrants
  PROVE  /\ UNCHANGED <<clock, state, conv, rows, audit, begun, beside>>
         /\ \A s \in TurnRunners :
              /\ op'[s].at = op[s].at /\ op'[s].turn = op[s].turn /\ op'[s].attached = op[s].attached
              /\ op'[s].scope = op[s].scope /\ op'[s].tools = op[s].tools
              /\ op'[s].window = op[s].window /\ op'[s].evidence = op[s].evidence
              /\ op'[s].read = op[s].read /\ op'[s].execution = op[s].execution
              /\ op'[s].hydrated = op[s].hydrated /\ op'[s].calls = op[s].calls
              /\ op[s].at # "idle" => op'[s].held = op[s].held \cup grants'
  <1>1. ASSUME NEW s \in TurnRunners
        PROVE  /\ op'[s].at = op[s].at /\ op'[s].turn = op[s].turn /\ op'[s].attached = op[s].attached
               /\ op'[s].scope = op[s].scope /\ op'[s].tools = op[s].tools
               /\ op'[s].window = op[s].window /\ op'[s].evidence = op[s].evidence
               /\ op'[s].read = op[s].read /\ op'[s].execution = op[s].execution
               /\ op'[s].hydrated = op[s].hydrated /\ op'[s].calls = op[s].calls
               /\ op[s].at # "idle" => op'[s].held = op[s].held \cup grants'
    <2>1. op[s] \in Turn
      BY TurnTypes
    <2>2. op'[s] = IF s \in UnderWay THEN [op[s] EXCEPT !.held = @ \cup grants'] ELSE op[s]
      BY DEF EditGrants
    <2>3. CASE s \in UnderWay
      <3> DEFINE g == op[s].held \cup grants'
      <3>1. op'[s] = [op[s] EXCEPT !.held = g]
        BY <2>2, <2>3
      <3> HIDE DEF g
      <3>2. /\ op'[s].held = g /\ op'[s].at = op[s].at
            /\ op'[s].turn = op[s].turn /\ op'[s].attached = op[s].attached
            /\ op'[s].scope = op[s].scope /\ op'[s].tools = op[s].tools
            /\ op'[s].window = op[s].window /\ op'[s].evidence = op[s].evidence
            /\ op'[s].read = op[s].read /\ op'[s].execution = op[s].execution
            /\ op'[s].hydrated = op[s].hydrated /\ op'[s].calls = op[s].calls
        BY <2>1, <3>1, TurnDomains
      <3> QED
        BY <3>2 DEF g
    <2>4. CASE s \notin UnderWay
      <3>1. op'[s] = op[s] /\ op[s].at = "idle"
        BY <2>2, <2>4 DEF UnderWay, At
      <3> QED
        BY <3>1
    <2> QED
      BY <2>3, <2>4
  <1> QED
    BY <1>1 DEF EditGrants

\* A turn begins.
LEMMA BegunIs ==
  ASSUME ContextTypeOK, NEW r \in TurnRunners, BeginTurn(r)
  PROVE  /\ op[r].at = "idle" /\ op'[r].at = "evidence" /\ op'[r].turn = begun + 1
         /\ op'[r].scope \subseteq grants /\ op'[r].held = grants
         /\ op'[r].calls = <<>> /\ op'[r].evidence = <<>> /\ op'[r].execution = <<>>
         /\ op'[r].window = {} /\ op'[r].read = 0
         /\ \A s \in TurnRunners : s # r => op'[s] = op[s]
         /\ begun' = begun + 1 /\ rows' = Append(rows, [role |-> "user", turn |-> begun + 1])
         /\ beside' = beside \cup {<<op[o].turn, begun + 1>> : o \in UnderWay}
         /\ UNCHANGED <<clock, state, grants, conv, audit, edits>>
  <1>1. PICK scope \in Scopes, about \in Attachable :
          /\ scope \subseteq grants
          /\ op' = [op EXCEPT ![r] = [Idle EXCEPT !.at = "evidence", !.turn = begun + 1, !.scope = scope,
                                                  !.attached = about, !.held = grants]]
    BY DEF BeginTurn, Selectable
  <1> DEFINE new == [Idle EXCEPT !.at = "evidence", !.turn = begun + 1, !.scope = scope,
                                 !.attached = about, !.held = grants]
  <1>2. op'[r] = new /\ \A s \in TurnRunners : s # r => op'[s] = op[s]
    <2> HIDE DEF new
    <2> QED
      BY <1>1, OneTurn DEF new
  <1>3. /\ new.at = "evidence" /\ new.turn = begun + 1 /\ new.scope = scope /\ new.held = grants
        /\ new.calls = <<>> /\ new.evidence = <<>> /\ new.execution = <<>>
        /\ new.window = {} /\ new.read = 0
    BY DEF Idle
  <1>4. /\ begun' = begun + 1 /\ rows' = Append(rows, [role |-> "user", turn |-> begun + 1])
        /\ beside' = beside \cup {<<op[o].turn, begun + 1>> : o \in UnderWay}
        /\ UNCHANGED <<clock, state, grants, conv, audit, edits>> /\ op[r].at = "idle"
    BY DEF BeginTurn, At
  <1> HIDE DEF new
  <1> QED
    BY <1>1, <1>2, <1>3, <1>4

\* The evidence is read ...
LEMMA BriefedIs ==
  ASSUME ContextTypeOK, NEW r \in TurnRunners, EvidenceForTurn(r)
  PROVE  /\ op[r].at = "evidence" /\ op'[r].at = "hydrate" /\ op'[r].tools = Declared(r)
         /\ op'[r].turn = op[r].turn /\ op'[r].attached = op[r].attached /\ op'[r].scope = op[r].scope
         /\ op'[r].held = op[r].held /\ op'[r].calls = op[r].calls
         /\ op'[r].window = WindowTurns /\ op'[r].read = Len(audit)
         /\ op'[r].evidence = SelectEvidence(DropReadingsOfSubjects(Seen, TurnReferences(r)))
         /\ op'[r].execution = SelectExecution(Order, Seen)
         /\ \A s \in TurnRunners : s # r => op'[s] = op[s]
         /\ UNCHANGED <<clock, state, grants, conv, rows, audit, begun, edits, beside>>
  <1>1. DOMAIN op[r] = TurnDomain
    BY TurnTypes, TurnDomains
  <1> DEFINE ev == SelectEvidence(DropReadingsOfSubjects(Seen, TurnReferences(r)))
             ex == SelectExecution(Order, Seen)
             new == [op[r] EXCEPT !.at = "hydrate", !.tools = Declared(r), !.window = WindowTurns,
                                  !.read = Len(audit), !.evidence = ev, !.execution = ex]
  <1>2. op' = [op EXCEPT ![r] = new] /\ op[r].at = "evidence"
        /\ UNCHANGED <<clock, state, grants, conv, rows, audit, begun, edits, beside>>
    BY DEF EvidenceForTurn, Seen, ForExecution, At
  <1>3. op'[r] = new /\ \A s \in TurnRunners : s # r => op'[s] = op[s]
    <2> HIDE DEF new
    <2> QED
      BY <1>2, OneTurn
  <1>4. /\ new.at = "hydrate" /\ new.tools = Declared(r) /\ new.window = WindowTurns
        /\ new.read = Len(audit) /\ new.evidence = ev /\ new.execution = ex
        /\ new.turn = op[r].turn /\ new.attached = op[r].attached /\ new.scope = op[r].scope
        /\ new.held = op[r].held /\ new.calls = op[r].calls
    <2> HIDE DEF ev, ex
    <2> QED
      BY <1>1 DEF TurnDomain
  <1> HIDE DEF new
  <1> QED
    BY <1>2, <1>3, <1>4

\* ... or cannot be.
LEMMA UnbriefedIs ==
  ASSUME ContextTypeOK, NEW r \in TurnRunners, EvidenceUnavailable(r)
  PROVE  /\ op[r].at = "evidence" /\ op'[r].at = "hydrate" /\ op'[r].tools = Declared(r)
         /\ op'[r].turn = op[r].turn /\ op'[r].attached = op[r].attached /\ op'[r].scope = op[r].scope
         /\ op'[r].held = op[r].held /\ op'[r].calls = op[r].calls
         /\ op'[r].window = op[r].window /\ op'[r].read = op[r].read
         /\ op'[r].evidence = op[r].evidence /\ op'[r].execution = op[r].execution
         /\ \A s \in TurnRunners : s # r => op'[s] = op[s]
         /\ UNCHANGED <<clock, state, grants, conv, rows, audit, begun, edits, beside>>
  <1>1. DOMAIN op[r] = TurnDomain
    BY TurnTypes, TurnDomains
  <1>2. op'[r] = [op[r] EXCEPT !.at = "hydrate", !.tools = Declared(r)]
        /\ \A s \in TurnRunners : s # r => op'[s] = op[s]
    BY OneTurn DEF EvidenceUnavailable
  <1>3. /\ op[r].at = "evidence"
        /\ UNCHANGED <<clock, state, grants, conv, rows, audit, begun, edits, beside>>
    BY DEF EvidenceUnavailable, At
  <1>4. /\ op'[r].at = "hydrate" /\ op'[r].tools = Declared(r)
        /\ op'[r].turn = op[r].turn /\ op'[r].attached = op[r].attached /\ op'[r].scope = op[r].scope
        /\ op'[r].held = op[r].held /\ op'[r].calls = op[r].calls
        /\ op'[r].window = op[r].window /\ op'[r].read = op[r].read
        /\ op'[r].evidence = op[r].evidence /\ op'[r].execution = op[r].execution
    BY <1>1, <1>2 DEF TurnDomain
  <1> QED
    BY <1>2, <1>3, <1>4

\* The context is sent.
LEMMA HydratedIs ==
  ASSUME ContextTypeOK, NEW r \in TurnRunners, HydrateSubjects(r)
  PROVE  /\ op[r].at = "hydrate" /\ op'[r].at = "loop" /\ op'[r].turn = op[r].turn
         /\ op'[r].scope = op[r].scope /\ op'[r].tools = op[r].tools /\ op'[r].held = op[r].held
         /\ op'[r].calls = <<>> /\ op'[r].evidence = <<>>
         /\ \A s \in Subjects :
              /\ s \in TurnReferences(r) \cap PerTurn => op'[r].hydrated[s] \in HydrationAnswers(r, s)
              /\ s \notin TurnReferences(r) \cap PerTurn => op'[r].hydrated[s] = None
         /\ \A s \in TurnRunners : s # r => op'[s] = op[s]
         /\ UNCHANGED <<clock, state, grants, conv, rows, audit, begun, edits, beside>>
  <1> DEFINE about == TurnReferences(r) \cap PerTurn
  <1>1. PICK h \in [about -> {"unauthorized", "unavailable", "current"}] :
          /\ \A s \in about : h[s] \in HydrationAnswers(r, s)
          /\ op' = [op EXCEPT ![r] = [InLoop(r) EXCEPT
                   !.hydrated = [s \in Subjects |-> IF s \in about THEN h[s] ELSE None]]]
    BY DEF HydrateSubjects
  <1> DEFINE hy == [s \in Subjects |-> IF s \in about THEN h[s] ELSE None]
             new == [InLoop(r) EXCEPT !.hydrated = hy]
  <1>2. op'[r] = new /\ \A s \in TurnRunners : s # r => op'[s] = op[s]
    <2>1. op' = [op EXCEPT ![r] = new]
      BY <1>1
    <2> HIDE DEF new
    <2> QED
      BY <2>1, OneTurn
  <1>3. /\ new.at = "loop" /\ new.turn = op[r].turn /\ new.scope = op[r].scope /\ new.tools = op[r].tools
        /\ new.held = op[r].held /\ new.calls = <<>> /\ new.hydrated = hy /\ new.evidence = <<>>
    <2> HIDE DEF hy
    <2> QED
      BY DEF InLoop, Idle
  <1>4. /\ op[r].at = "hydrate"
        /\ UNCHANGED <<clock, state, grants, conv, rows, audit, begun, edits, beside>>
    BY DEF HydrateSubjects, At
  <1>5. \A s \in Subjects : /\ s \in about => hy[s] \in HydrationAnswers(r, s)
                            /\ s \notin about => hy[s] = None
    BY <1>1
  <1> HIDE DEF new, hy
  <1> QED
    BY <1>2, <1>3, <1>4, <1>5

\* A call is made.
LEMMA CalledIs ==
  ASSUME ContextTypeOK, NEW r \in TurnRunners, ExecuteCall(r)
  PROVE  /\ op[r].at = "loop" /\ op'[r].at = "loop" /\ op'[r].turn = op[r].turn
         /\ op'[r].scope = op[r].scope /\ op'[r].tools = op[r].tools /\ op'[r].held = op[r].held
         /\ \A s \in Subjects : op'[r].hydrated[s] = None
         /\ clock' \in Nat /\ clock <= clock'
         /\ \E c : /\ op'[r].calls = Append(op[r].calls, c) /\ c.turn = op[r].turn /\ c.seen = clock'
                   /\ c.status # "not_executed" => c.tool \in op[r].tools
         /\ \A s \in TurnRunners : s # r => op'[s] = op[s]
         /\ UNCHANGED <<grants, conv, rows, audit, begun, edits, beside>>
  <1>1. PICK call \in Calls, status \in Status, now \in {clock, clock + 1} :
          /\ clock' = now /\ (status # "not_executed" => call[1] \in op[r].tools)
          /\ op' = [op EXCEPT ![r] = [InLoop(r) EXCEPT !.calls = Append(op[r].calls,
                      [turn |-> op[r].turn, tool |-> call[1], about |-> call[2],
                       status |-> status, seen |-> now])]]
    BY Zenon DEF ExecuteCall, Status
  <1> DEFINE c == [turn |-> op[r].turn, tool |-> call[1], about |-> call[2], status |-> status, seen |-> now]
             q == Append(op[r].calls, c)
             new == [InLoop(r) EXCEPT !.calls = q]
  <1>2. op'[r] = new /\ \A s \in TurnRunners : s # r => op'[s] = op[s]
    <2>1. op' = [op EXCEPT ![r] = new]
      BY <1>1
    <2> HIDE DEF new
    <2> QED
      BY <2>1, OneTurn
  <1>3. /\ new.at = "loop" /\ new.turn = op[r].turn /\ new.scope = op[r].scope /\ new.tools = op[r].tools
        /\ new.held = op[r].held /\ new.calls = q /\ \A s \in Subjects : new.hydrated[s] = None
    <2> HIDE DEF q
    <2> QED
      BY DEF InLoop, Idle
  <1>4. c.turn = op[r].turn /\ c.seen = clock' /\ (c.status # "not_executed" => c.tool \in op[r].tools)
    BY <1>1
  <1>5. clock' \in Nat /\ clock <= clock'
    BY <1>1 DEF ContextTypeOK
  <1>6. op[r].at = "loop" /\ UNCHANGED <<grants, conv, rows, audit, begun, edits, beside>>
    BY DEF ExecuteCall, At
  <1>7. op'[r].calls = Append(op[r].calls, c)
    BY <1>2, <1>3
  <1> HIDE DEF new, q, c
  <1> QED
    BY <1>2, <1>3, <1>4, <1>5, <1>6, <1>7

\* The answer is stored.
LEMMA StoredIs ==
  ASSUME ContextTypeOK, NEW r \in TurnRunners, StoreAnswer(r)
  PROVE  /\ op[r].at = "loop" /\ op'[r].at \in {"idle", "audit"}
         /\ op'[r].at = "idle" => op'[r].calls = <<>>
         /\ op'[r].at = "audit" => op'[r].turn = op[r].turn /\ op'[r].calls = op[r].calls
         /\ \A s \in TurnRunners : s # r => op'[s] = op[s]
         /\ rows' = Append(rows, [role |-> "assistant", turn |-> op[r].turn])
         /\ UNCHANGED <<clock, state, grants, conv, audit, begun, edits, beside>>
  <1> DEFINE new == [Idle EXCEPT !.at = "audit", !.turn = op[r].turn, !.calls = op[r].calls]
  <1>1. /\ op' = [op EXCEPT ![r] = IF op[r].calls = <<>> THEN Idle ELSE new]
        /\ op[r].at = "loop" /\ rows' = Append(rows, [role |-> "assistant", turn |-> op[r].turn])
        /\ UNCHANGED <<clock, state, grants, conv, audit, begun, edits, beside>>
    BY DEF StoreAnswer, At
  <1>2. op'[r] = (IF op[r].calls = <<>> THEN Idle ELSE new) /\ \A s \in TurnRunners : s # r => op'[s] = op[s]
    <2> HIDE DEF new
    <2> QED
      BY <1>1, OneTurn
  <1>3. /\ new.at = "audit" /\ new.turn = op[r].turn /\ new.calls = op[r].calls
        /\ Idle.at = "idle" /\ Idle.calls = <<>>
    BY DEF Idle
  <1> HIDE DEF new
  <1> QED
    BY <1>1, <1>2, <1>3

\* The turn ends, with its calls in the trail or without.
LEMMA EndedIs ==
  ASSUME ContextTypeOK, NEW r \in TurnRunners, PersistToolCalls(r) \/ Fail(r)
  PROVE  /\ op[r].at \in {"loop", "audit"} /\ op'[r].at = "idle" /\ op'[r].calls = <<>>
         /\ \A s \in TurnRunners : s # r => op'[s] = op[s]
         /\ UNCHANGED <<clock, state, grants, conv, rows, begun, edits, beside>>
         /\ PersistToolCalls(r) => audit' = audit \o op[r].calls
         /\ ~PersistToolCalls(r) => audit' = audit
  <1>1. op'[r] = Idle /\ \A s \in TurnRunners : s # r => op'[s] = op[s]
    BY OneTurn DEF PersistToolCalls, Fail
  <1>2. op'[r].at = "idle" /\ op'[r].calls = <<>>
    BY <1>1 DEF Idle
  <1> QED
    BY <1>1, <1>2 DEF PersistToolCalls, Fail, At

--------------------------------------------------------------------------------
(* Turns side by side.                                                     *)

\* A step that stores nothing and begins nothing.
LEMMA TurnsStay ==
  ASSUME TurnsFit, rows' = rows, begun' = begun, beside' = beside,
         \A s \in TurnRunners : op'[s].at # "idle" =>
           op[s].at # "idle" /\ op'[s].turn = op[s].turn /\ (op[s].at = "audit" => op'[s].at = "audit")
  PROVE  TurnsFit'
  <1>1. \A s \in UnderWay' : s \in UnderWay /\ s \in TurnRunners /\ op'[s].turn = op[s].turn
                             /\ (At(s, "audit") => At(s, "audit")')
    BY DEF UnderWay, At
  <1>2. \A r \in UnderWay' : op'[r].turn \in 1..begun'
    BY <1>1 DEF TurnsFit
  <1>3. \A r, s \in UnderWay' : r # s => op'[r].turn # op'[s].turn /\ SideBySide(op[r].turn, op[s].turn)'
    BY <1>1 DEF TurnsFit, SideBySide
  <1>4. \A r \in UnderWay' : \A i \in DOMAIN rows' :
          rows'[i].role = "assistant" /\ rows'[i].turn = op'[r].turn => At(r, "audit")'
    BY <1>1 DEF TurnsFit
  <1> QED
    BY <1>2, <1>3, <1>4 DEF TurnsFit, SideBySide, At

\* A message is stored.
LEMMA RowAdded ==
  ASSUME ContextTypeOK, NEW m, rows' = Append(rows, m)
  PROVE  /\ DOMAIN rows = 1..Len(rows) /\ Len(rows) \in Nat /\ DOMAIN rows' = 1..(Len(rows) + 1)
         /\ \A i \in DOMAIN rows : i \in DOMAIN rows' /\ rows'[i] = rows[i]
         /\ \A i \in DOMAIN rows' : (i \in DOMAIN rows /\ rows'[i] = rows[i])
                                    \/ (i = Len(rows) + 1 /\ rows'[i] = m)
  BY DEF ContextTypeOK

LEMMA TurnsBegun ==
  ASSUME ContextIInv, NEW r \in TurnRunners, BeginTurn(r)
  PROVE  TurnsFit'
  <1> DEFINE n == begun + 1
             m == [role |-> "user", turn |-> n]
  <1>1. ContextTypeOK /\ TurnsFit
    BY DEF ContextIInv
  <1>2. /\ op[r].at = "idle" /\ op'[r].at = "evidence" /\ op'[r].turn = n
        /\ \A s \in TurnRunners : s # r => op'[s] = op[s]
        /\ begun' = n /\ rows' = Append(rows, m)
        /\ beside' = beside \cup {<<op[o].turn, n>> : o \in UnderWay}
    BY <1>1, BegunIs
  <1>0. begun \in Nat
    BY <1>1 DEF ContextTypeOK
  <1>3. m.role = "user" /\ m.turn = n
    OBVIOUS
  <1> HIDE DEF m
  <1>4. \A s \in UnderWay' : s \in TurnRunners /\ (s = r \/ (s # r /\ s \in UnderWay /\ op'[s] = op[s]))
    BY <1>0, <1>2 DEF UnderWay, At
  <1>5. \A s \in UnderWay : op[s].turn \in 1..begun
    BY <1>1 DEF TurnsFit
  <1>6. \A s \in UnderWay : <<op[s].turn, n>> \in beside'
    BY <1>0, <1>2
  <1>7. beside \subseteq beside'
    BY <1>0, <1>2
  <1>8. /\ \A i \in DOMAIN rows' : (i \in DOMAIN rows /\ rows'[i] = rows[i]) \/ rows'[i] = m
    BY <1>1, <1>0, <1>2, RowAdded
  <1>9. \A i \in DOMAIN rows' : rows'[i].role = "assistant" => i \in DOMAIN rows /\ rows'[i] = rows[i]
    BY <1>3, <1>8
  <1>10. \A s \in UnderWay' : op'[s].turn \in 1..begun'
    <2>1. 1..begun \subseteq 1..n /\ n \in 1..n
      BY <1>0, <1>2
    <2> HIDE DEF n
    <2> QED
      BY <1>0, <1>2, <1>4, <1>5, <2>1
  <1>11. \A i \in DOMAIN rows' : rows'[i].turn \in 1..begun'
    <2>1. 1..begun \subseteq 1..n /\ n \in 1..n
      BY <1>0, <1>2
    <2>2. \A i \in DOMAIN rows : rows[i].turn \in 1..begun
      BY <1>1 DEF TurnsFit
    <2> HIDE DEF n
    <2> QED
      BY <1>0, <1>2, <1>3, <1>8, <2>1, <2>2
  <1>12. \A s, q \in UnderWay' : s # q =>
           /\ op'[s].turn # op'[q].turn
           /\ <<op'[s].turn, op'[q].turn>> \in beside' \/ <<op'[q].turn, op'[s].turn>> \in beside'
    <2>1. \A t \in 1..begun : t # n
      BY <1>0, <1>2
    <2>2. \A s, q \in UnderWay : s # q =>
            /\ op[s].turn # op[q].turn
            /\ <<op[s].turn, op[q].turn>> \in beside \/ <<op[q].turn, op[s].turn>> \in beside
      BY <1>1 DEF TurnsFit, SideBySide
    <2> HIDE DEF n
    <2> TAKE s, q \in UnderWay'
    <2> HAVE s # q
    <2>3. CASE s = r
      <3>1. q \in UnderWay /\ op'[q] = op[q] /\ op'[s].turn = n
        BY <1>0, <1>2, <1>4, <2>3
      <3> QED
        BY <1>5, <1>6, <2>1, <3>1
    <2>4. CASE q = r
      <3>1. s \in UnderWay /\ op'[s] = op[s] /\ op'[q].turn = n
        BY <1>0, <1>2, <1>4, <2>4
      <3> QED
        BY <1>5, <1>6, <2>1, <3>1
    <2>5. CASE s # r /\ q # r
      <3>1. s \in UnderWay /\ op'[s] = op[s] /\ q \in UnderWay /\ op'[q] = op[q]
        BY <1>4, <2>5
      <3> QED
        BY <1>7, <2>2, <3>1
    <2> QED
      BY <2>3, <2>4, <2>5
  <1>13. \A i, j \in DOMAIN rows' :
           rows'[i].role = "assistant" /\ rows'[j].role = "assistant" /\ rows'[i].turn = rows'[j].turn => i = j
    BY <1>1, <1>9 DEF TurnsFit
  <1>14. \A s \in UnderWay' : \A i \in DOMAIN rows' :
           rows'[i].role = "assistant" /\ rows'[i].turn = op'[s].turn => op'[s].at = "audit"
    <2> TAKE s \in UnderWay'
    <2> TAKE i \in DOMAIN rows'
    <2> HAVE rows'[i].role = "assistant" /\ rows'[i].turn = op'[s].turn
    <2>1. i \in DOMAIN rows /\ rows'[i] = rows[i] /\ rows[i].turn \in 1..begun
      BY <1>1, <1>9 DEF TurnsFit
    <2>2. s # r
      BY <1>0, <1>2, <2>1
    <2>3. s \in UnderWay /\ op'[s] = op[s]
      BY <1>4, <2>2
    <2> QED
      BY <1>1, <2>1, <2>3 DEF TurnsFit, At
  <1> HIDE DEF n
  <1> QED
    BY <1>10, <1>11, <1>12, <1>13, <1>14 DEF TurnsFit, SideBySide, At

LEMMA TurnsStored ==
  ASSUME ContextIInv, NEW r \in TurnRunners, StoreAnswer(r)
  PROVE  TurnsFit'
  <1> DEFINE n == op[r].turn
             m == [role |-> "assistant", turn |-> n]
  <1>1. ContextTypeOK /\ TurnsFit
    BY DEF ContextIInv
  <1>2. /\ op[r].at = "loop" /\ op'[r].at \in {"idle", "audit"}
        /\ op'[r].at = "audit" => op'[r].turn = op[r].turn
        /\ \A s \in TurnRunners : s # r => op'[s] = op[s]
        /\ begun' = begun /\ rows' = Append(rows, m) /\ beside' = beside
    BY <1>1, StoredIs
  <1>3. m.turn = n
    OBVIOUS
  <1> HIDE DEF m
  <1>4. r \in UnderWay
    BY <1>2 DEF UnderWay, At
  <1>5. \A s \in UnderWay' : s \in UnderWay /\ op'[s].turn = op[s].turn /\ (s # r => op'[s] = op[s])
                             /\ (s = r => op'[s].at = "audit")
    BY <1>2, <1>4 DEF UnderWay, At
  <1>6. \A i \in DOMAIN rows' : (i \in DOMAIN rows /\ rows'[i] = rows[i])
                                \/ (i = Len(rows) + 1 /\ rows'[i].turn = n)
    BY <1>1, <1>2, <1>3, RowAdded
  <1>7. \A i \in DOMAIN rows : rows[i].role = "assistant" => rows[i].turn # n
    BY <1>1, <1>2, <1>4 DEF TurnsFit, At
  <1>8. n \in 1..begun
    BY <1>1, <1>4 DEF TurnsFit
  <1>9. \A s \in UnderWay' : op'[s].turn \in 1..begun'
    BY <1>1, <1>2, <1>5 DEF TurnsFit
  <1>10. \A i \in DOMAIN rows' : rows'[i].turn \in 1..begun'
    <2>1. \A i \in DOMAIN rows : rows[i].turn \in 1..begun
      BY <1>1 DEF TurnsFit
    <2> HIDE DEF n
    <2> QED
      BY <1>2, <1>6, <1>8, <2>1
  <1>11. \A s, q \in UnderWay' : s # q =>
           op'[s].turn # op'[q].turn
           /\ (<<op'[s].turn, op'[q].turn>> \in beside' \/ <<op'[q].turn, op'[s].turn>> \in beside')
    <2>1. \A s, q \in UnderWay : s # q =>
            /\ op[s].turn # op[q].turn
            /\ <<op[s].turn, op[q].turn>> \in beside \/ <<op[q].turn, op[s].turn>> \in beside
      BY <1>1 DEF TurnsFit, SideBySide
    <2>2. \A s \in UnderWay' : s \in UnderWay /\ op'[s].turn = op[s].turn
      BY <1>5
    <2> TAKE s, q \in UnderWay'
    <2> HAVE s # q
    <2> QED
      BY <1>2, <2>1, <2>2
  <1>12. \A i, j \in DOMAIN rows' :
           rows'[i].role = "assistant" /\ rows'[j].role = "assistant" /\ rows'[i].turn = rows'[j].turn => i = j
    <2>1. \A i, j \in DOMAIN rows :
            rows[i].role = "assistant" /\ rows[j].role = "assistant" /\ rows[i].turn = rows[j].turn => i = j
      BY <1>1 DEF TurnsFit
    <2> HIDE DEF n
    <2> QED
      BY <1>6, <1>7, <2>1
  <1>13. \A s \in UnderWay' : \A i \in DOMAIN rows' :
           rows'[i].role = "assistant" /\ rows'[i].turn = op'[s].turn => op'[s].at = "audit"
    <2> TAKE s \in UnderWay'
    <2> TAKE i \in DOMAIN rows'
    <2> HAVE rows'[i].role = "assistant" /\ rows'[i].turn = op'[s].turn
    <2>1. CASE s = r
      BY <1>5, <2>1
    <2>2. CASE s # r
      <3>1. s \in UnderWay /\ op'[s] = op[s]
        BY <1>5, <2>2
      <3>2. op[s].turn # n
        BY <1>1, <1>4, <2>2, <3>1 DEF TurnsFit
      <3>3. i \in DOMAIN rows /\ rows'[i] = rows[i]
        BY <1>6, <3>1, <3>2
      <3> QED
        BY <1>1, <3>1, <3>3 DEF TurnsFit, At
    <2> QED
      BY <2>1, <2>2
  <1> HIDE DEF n
  <1> QED
    BY <1>9, <1>10, <1>11, <1>12, <1>13 DEF TurnsFit, SideBySide, At

LEMMA TurnsKept ==
  ASSUME ContextIInv, [ContextNext]_contextVars
  PROVE  TurnsFit'
  <1>0. ContextTypeOK /\ TurnsFit
    BY DEF ContextIInv
  <1>1. CASE Change \/ UNCHANGED contextVars
    <2>1. rows' = rows /\ begun' = begun /\ beside' = beside /\ op' = op
      BY <1>0, <1>1, ChangedIs
    <2> QED
      BY <1>0, <2>1, TurnsStay
  <1>2. CASE EditGrants
    <2>1. rows' = rows /\ begun' = begun /\ beside' = beside
          /\ \A s \in TurnRunners : op'[s].at = op[s].at /\ op'[s].turn = op[s].turn
      BY <1>0, <1>2, GrantedIs
    <2> QED
      BY <1>0, <2>1, TurnsStay
  <1>3. ASSUME NEW r \in TurnRunners, BeginTurn(r) PROVE TurnsFit'
    BY <1>3, TurnsBegun
  <1>4. ASSUME NEW r \in TurnRunners, EvidenceForTurn(r) PROVE TurnsFit'
    <2>1. /\ op'[r].at = "hydrate" /\ op'[r].turn = op[r].turn /\ op[r].at = "evidence"
          /\ \A s \in TurnRunners : s # r => op'[s] = op[s]
          /\ rows' = rows /\ begun' = begun /\ beside' = beside
      BY <1>0, <1>4, BriefedIs
    <2> QED
      BY <1>0, <2>1, TurnsStay
  <1>5. ASSUME NEW r \in TurnRunners, EvidenceUnavailable(r) PROVE TurnsFit'
    <2>1. /\ op'[r].at = "hydrate" /\ op'[r].turn = op[r].turn /\ op[r].at = "evidence"
          /\ \A s \in TurnRunners : s # r => op'[s] = op[s]
          /\ rows' = rows /\ begun' = begun /\ beside' = beside
      BY <1>0, <1>5, UnbriefedIs
    <2> QED
      BY <1>0, <2>1, TurnsStay
  <1>6. ASSUME NEW r \in TurnRunners, HydrateSubjects(r) PROVE TurnsFit'
    <2>1. /\ op'[r].at = "loop" /\ op'[r].turn = op[r].turn /\ op[r].at = "hydrate"
          /\ \A s \in TurnRunners : s # r => op'[s] = op[s]
          /\ rows' = rows /\ begun' = begun /\ beside' = beside
      BY <1>0, <1>6, HydratedIs
    <2> QED
      BY <1>0, <2>1, TurnsStay
  <1>7. ASSUME NEW r \in TurnRunners, ExecuteCall(r) PROVE TurnsFit'
    <2>1. /\ op'[r].at = "loop" /\ op'[r].turn = op[r].turn /\ op[r].at = "loop"
          /\ \A s \in TurnRunners : s # r => op'[s] = op[s]
          /\ rows' = rows /\ begun' = begun /\ beside' = beside
      BY <1>0, <1>7, CalledIs
    <2> QED
      BY <1>0, <2>1, TurnsStay
  <1>8. ASSUME NEW r \in TurnRunners, StoreAnswer(r) PROVE TurnsFit'
    BY <1>8, TurnsStored
  <1>9. ASSUME NEW r \in TurnRunners, PersistToolCalls(r) \/ Fail(r) PROVE TurnsFit'
    <2>1. /\ op'[r].at = "idle" /\ \A s \in TurnRunners : s # r => op'[s] = op[s]
          /\ rows' = rows /\ begun' = begun /\ beside' = beside
      BY <1>0, <1>9, EndedIs
    <2> QED
      BY <1>0, <2>1, TurnsStay
  <1> QED
    BY <1>1, <1>2, <1>3, <1>4, <1>5, <1>6, <1>7, <1>8, <1>9 DEF ContextNext

--------------------------------------------------------------------------------
(* The order of the trail.                                                 *)

\* What the types say of the calls of a turn.
LEMMA CallTypes ==
  ASSUME ContextTypeOK, NEW s \in TurnRunners
  PROVE  /\ DOMAIN op[s].calls = 1..Len(op[s].calls) /\ Len(op[s].calls) \in Nat
         /\ \A n \in DOMAIN op[s].calls : op[s].calls[n].seen \in Nat /\ op[s].calls[n] \in Record
  <1>1. op[s].calls \in Seq(Record)
    BY TurnTypes
  <1>2. \A c \in Record : c.seen \in Nat
    BY DEF Record
  <1> HIDE DEF Record
  <1> QED
    BY <1>1, <1>2

\* The calls a turn has made fit the trail they will be added to.
CallsFit(s) ==
  \A n \in DOMAIN op[s].calls :
    /\ op[s].calls[n].turn = op[s].turn /\ op[s].calls[n].seen <= clock
    /\ \A m \in 1..n : op[s].calls[m].seen <= op[s].calls[n].seen
    /\ \A i \in DOMAIN audit : InOrder(audit[i], op[s].calls[n])

LEMMA TrailUnfolds ==
  TrailFits <=>
    /\ \A i \in DOMAIN audit : audit[i].seen <= clock
    /\ \A i, j \in DOMAIN audit : i < j => InOrder(audit[i], audit[j])
    /\ \A s \in TurnRunners :
         /\ At(s, "idle") => op[s].calls = <<>>
         /\ At(s, "evidence") => /\ op[s].evidence = <<>> /\ op[s].execution = <<>>
                                 /\ op[s].window = {} /\ op[s].read = 0 /\ op[s].calls = <<>>
         /\ CallsFit(s)
    /\ \A s \in Briefed : op[s].read <= Len(audit)
  BY DEF TrailFits, CallsFit

\* The trail stays, and a turn's calls stay or are forgotten.
LEMMA CallsStay ==
  ASSUME ContextTypeOK, NEW s \in TurnRunners, CallsFit(s),
         audit' = audit, clock' \in Nat, clock <= clock', beside \subseteq beside',
         op'[s].calls = <<>> \/ (op'[s].calls = op[s].calls /\ op'[s].turn = op[s].turn)
  PROVE  CallsFit(s)'
  <1>1. CASE op'[s].calls = <<>>
    BY <1>1 DEF CallsFit
  <1>2. CASE op'[s].calls = op[s].calls /\ op'[s].turn = op[s].turn
    <2>1. SUFFICES ASSUME NEW n \in DOMAIN op[s].calls
                   PROVE  /\ op[s].calls[n].turn = op[s].turn /\ op[s].calls[n].seen <= clock'
                          /\ \A m \in 1..n : op[s].calls[m].seen <= op[s].calls[n].seen
                          /\ \A i \in DOMAIN audit :
                               \/ audit[i].seen <= op[s].calls[n].seen
                               \/ <<audit[i].turn, op[s].calls[n].turn>> \in beside'
                               \/ <<op[s].calls[n].turn, audit[i].turn>> \in beside'
      BY <1>2 DEF CallsFit, InOrder, SideBySide
    <2>2. op[s].calls[n].seen \in Nat /\ clock \in Nat
      BY <2>1, CallTypes DEF ContextTypeOK
    <2>3. \A i \in DOMAIN audit :
            \/ audit[i].seen <= op[s].calls[n].seen
            \/ <<audit[i].turn, op[s].calls[n].turn>> \in beside
            \/ <<op[s].calls[n].turn, audit[i].turn>> \in beside
      BY <2>1 DEF CallsFit, InOrder, SideBySide
    <2>4. op[s].calls[n].turn = op[s].turn /\ op[s].calls[n].seen <= clock
          /\ \A m \in 1..n : op[s].calls[m].seen <= op[s].calls[n].seen
      BY <2>1 DEF CallsFit
    <2> QED
      BY <2>2, <2>3, <2>4
  <1> QED
    BY <1>1, <1>2

LEMMA TrailStays ==
  ASSUME ContextTypeOK, TrailFits, audit' = audit, clock' \in Nat, clock <= clock', beside \subseteq beside',
         \A s \in TurnRunners :
           /\ op'[s].at = "idle" => op'[s].calls = <<>>
           /\ op'[s].at = "evidence" => /\ op'[s].evidence = <<>> /\ op'[s].execution = <<>>
                                        /\ op'[s].window = {} /\ op'[s].read = 0 /\ op'[s].calls = <<>>
           /\ op'[s].at = "hydrate" => op'[s].read <= Len(audit)
           /\ CallsFit(s)'
  PROVE  TrailFits'
  <1>1. \A i \in DOMAIN audit' : audit'[i].seen <= clock'
    <2>1. \A i \in DOMAIN audit : audit[i].seen \in Nat /\ audit[i].seen <= clock /\ clock \in Nat
      BY RecordTypes DEF TrailFits, ContextTypeOK
    <2> QED
      BY <2>1
  <1>2. \A i, j \in DOMAIN audit' : i < j =>
          \/ audit'[i].seen <= audit'[j].seen
          \/ <<audit'[i].turn, audit'[j].turn>> \in beside' \/ <<audit'[j].turn, audit'[i].turn>> \in beside'
    BY DEF TrailFits, InOrder, SideBySide
  <1>3. \A s \in TurnRunners :
          /\ At(s, "idle")' => op'[s].calls = <<>>
          /\ At(s, "evidence")' => /\ op'[s].evidence = <<>> /\ op'[s].execution = <<>>
                                   /\ op'[s].window = {} /\ op'[s].read = 0 /\ op'[s].calls = <<>>
          /\ CallsFit(s)'
    BY DEF At
  <1>4. \A s \in Briefed' : op'[s].read <= Len(audit')
    BY DEF Briefed, At
  <1> QED
    BY <1>1, <1>2, <1>3, <1>4 DEF TrailFits, InOrder, SideBySide, CallsFit

\* One runner's turn changes.
LEMMA TrailOfOne ==
  ASSUME ContextTypeOK, TrailFits, audit' = audit, clock' \in Nat, clock <= clock', beside \subseteq beside',
         NEW r \in TurnRunners, \A s \in TurnRunners : s # r => op'[s] = op[s],
         op'[r].at = "idle" => op'[r].calls = <<>>,
         op'[r].at = "evidence" => /\ op'[r].evidence = <<>> /\ op'[r].execution = <<>>
                                   /\ op'[r].window = {} /\ op'[r].read = 0 /\ op'[r].calls = <<>>,
         op'[r].at = "hydrate" => op'[r].read <= Len(audit),
         CallsFit(r)'
  PROVE  TrailFits'
  <1>1. \A s \in TurnRunners : s # r => CallsFit(s)'
    <2>1. \A s \in TurnRunners : CallsFit(s)
      BY TrailUnfolds
    <2> QED
      BY <2>1, CallsStay
  <1>2. ASSUME NEW s \in TurnRunners, s # r
        PROVE  /\ op'[s].at = "idle" => op'[s].calls = <<>>
               /\ op'[s].at = "evidence" => /\ op'[s].evidence = <<>> /\ op'[s].execution = <<>>
                                            /\ op'[s].window = {} /\ op'[s].read = 0 /\ op'[s].calls = <<>>
               /\ op'[s].at = "hydrate" => op'[s].read <= Len(audit)
    BY <1>2 DEF TrailFits, Briefed, At
  <1>3. \A s \in TurnRunners :
          /\ op'[s].at = "idle" => op'[s].calls = <<>>
          /\ op'[s].at = "evidence" => /\ op'[s].evidence = <<>> /\ op'[s].execution = <<>>
                                       /\ op'[s].window = {} /\ op'[s].read = 0 /\ op'[s].calls = <<>>
          /\ op'[s].at = "hydrate" => op'[s].read <= Len(audit)
          /\ CallsFit(s)'
    BY <1>1, <1>2
  <1> QED
    BY <1>3, TrailStays

\* A call is made no earlier than what is on record.
LEMMA CallAdded ==
  ASSUME ContextTypeOK, TrailFits, NEW r \in TurnRunners, ExecuteCall(r)
  PROVE  CallsFit(r)'
  <1> DEFINE q == op[r].calls  L == Len(op[r].calls)
  <1>1. PICK c : op'[r].calls = Append(q, c) /\ c.turn = op[r].turn /\ c.seen = clock'
    BY CalledIs
  <1>2. /\ op'[r].turn = op[r].turn /\ clock' \in Nat /\ clock \in Nat /\ clock <= clock'
        /\ audit' = audit /\ beside' = beside
    BY CalledIs DEF ContextTypeOK
  <1>3. /\ q \in Seq(Record) /\ DOMAIN q = 1..L /\ L \in Nat /\ \A n \in 1..L : q[n].seen \in Nat
    BY CallTypes, TurnTypes
  <1>4. CallsFit(r)
    BY TrailUnfolds
  <1>5. DOMAIN op'[r].calls = 1..(L + 1) /\ op'[r].calls[L + 1] = c /\ \A n \in 1..L : op'[r].calls[n] = q[n]
    <2> HIDE DEF q
    <2>1. /\ DOMAIN Append(q, c) = 1..(Len(q) + 1) /\ Append(q, c)[Len(q) + 1] = c
          /\ \A n \in 1..Len(q) : Append(q, c)[n] = q[n]
      BY <1>3
    <2> QED
      BY <1>1, <2>1 DEF q
  <1>6. \A n \in 1..L :
          /\ q[n].turn = op[r].turn /\ q[n].seen <= clock
          /\ \A m \in 1..n : q[m].seen <= q[n].seen
          /\ \A i \in DOMAIN audit :
               \/ audit[i].seen <= q[n].seen
               \/ <<audit[i].turn, q[n].turn>> \in beside \/ <<q[n].turn, audit[i].turn>> \in beside
    BY <1>3, <1>4 DEF CallsFit, InOrder, SideBySide
  <1>7. \A i \in DOMAIN audit : audit[i].seen \in Nat /\ audit[i].seen <= clock
    BY RecordTypes DEF TrailFits
  <1> HIDE DEF q, L
  <1>8. ASSUME NEW n \in 1..(L + 1)
        PROVE  /\ op'[r].calls[n].turn = op'[r].turn /\ op'[r].calls[n].seen <= clock'
               /\ \A m \in 1..n : op'[r].calls[m].seen <= op'[r].calls[n].seen
               /\ \A i \in DOMAIN audit :
                    \/ audit[i].seen <= op'[r].calls[n].seen
                    \/ <<audit[i].turn, op'[r].calls[n].turn>> \in beside
                    \/ <<op'[r].calls[n].turn, audit[i].turn>> \in beside
    <2>1. CASE n = L + 1
      <3>1. op'[r].calls[n] = c
        BY <1>5, <2>1
      <3>2. \A m \in 1..L : q[m].seen <= clock'
        <4>1. \A m \in 1..L : q[m].seen \in Nat /\ q[m].seen <= clock
          BY <1>3, <1>6
        <4> QED
          BY <1>2, <4>1
      <3>3. \A m \in 1..n : m = n \/ m \in 1..L
        BY <1>3, <2>1
      <3>4. \A m \in 1..n : op'[r].calls[m].seen <= c.seen
        <4> TAKE m \in 1..n
        <4>1. CASE m = n
          <5>1. op'[r].calls[m].seen = c.seen
            BY <3>1, <4>1
          <5>2. c.seen \in Nat
            BY <1>1, <1>2
          <5>3. c.seen <= c.seen
            BY <5>2
          <5> QED
            BY <5>1, <5>3
        <4>2. CASE m \in 1..L
          <5>1. op'[r].calls[m] = q[m] /\ q[m].seen <= clock'
            BY <1>5, <3>2, <4>2
          <5> QED
            BY <1>1, <5>1
        <4> QED
          BY <3>3, <4>1, <4>2
      <3>5. \A i \in DOMAIN audit : audit[i].seen <= c.seen
        BY <1>1, <1>2, <1>7
      <3>6. op'[r].calls[n].turn = op'[r].turn /\ op'[r].calls[n].seen <= clock'
        BY <1>1, <1>2, <3>1
      <3> QED
        BY <3>1, <3>4, <3>5, <3>6
    <2>2. CASE n # L + 1
      <3>1. n \in 1..L
        BY <1>3, <2>2
      <3>2. \A m \in 1..n : m \in 1..L
        BY <1>3, <3>1
      <3>3. q[n].seen <= clock'
        <4>1. q[n].seen \in Nat /\ q[n].seen <= clock
          BY <1>3, <1>6, <3>1
        <4> QED
          BY <1>2, <4>1
      <3> QED
        BY <1>2, <1>5, <1>6, <3>1, <3>2, <3>3
    <2> QED
      BY <2>1, <2>2
  <1> QED
    BY <1>2, <1>5, <1>8 DEF CallsFit, InOrder, SideBySide

\* The calls of a turn are added to the trail.
LEMMA TrailGrows ==
  ASSUME ContextTypeOK, TurnsFit, TrailFits, NEW r \in TurnRunners, PersistToolCalls(r)
  PROVE  TrailFits'
  <1> DEFINE q == op[r].calls  L == Len(audit)
  <1>1. /\ audit' = audit \o q /\ clock' = clock /\ beside' = beside
        /\ op[r].at \in {"loop", "audit"} /\ op'[r].at = "idle" /\ op'[r].calls = <<>>
        /\ \A s \in TurnRunners : s # r => op'[s] = op[s]
    BY EndedIs
  <1>2. /\ q \in Seq(Record) /\ DOMAIN q = 1..Len(q) /\ Len(q) \in Nat
        /\ audit \in Seq(Record) /\ DOMAIN audit = 1..L /\ L \in Nat
    <2>1. q \in Seq(Record)
      BY TurnTypes
    <2>2. audit \in Seq(Record)
      BY DEF ContextTypeOK
    <2> HIDE DEF q, Record
    <2> QED
      BY <2>1, <2>2
  <1>3. CallsFit(r) /\ \A s \in TurnRunners : CallsFit(s)
    BY TrailUnfolds
  <1>4. /\ \A i \in 1..L : i \in DOMAIN audit' /\ audit'[i] = audit[i]
        /\ \A i \in DOMAIN audit' : i \in Nat /\
             (i \in 1..L \/ (L < i /\ i - L \in 1..Len(q) /\ audit'[i] = q[i - L]))
        /\ Len(audit') = L + Len(q)
    <2> HIDE DEF q
    <2>1. /\ Len(audit \o q) = Len(audit) + Len(q) /\ DOMAIN (audit \o q) = 1..(Len(audit) + Len(q))
          /\ \A i \in 1..(Len(audit) + Len(q)) :
               (audit \o q)[i] = IF i <= Len(audit) THEN audit[i] ELSE q[i - Len(audit)]
      BY <1>2
    <2>2. /\ Len(audit') = L + Len(q) /\ DOMAIN audit' = 1..(L + Len(q))
          /\ \A i \in 1..(L + Len(q)) : audit'[i] = IF i <= L THEN audit[i] ELSE q[i - L]
      BY <1>1, <2>1
    <2> HIDE DEF L
    <2> QED
      BY <1>2, <2>2
  <1>5. \A n \in 1..Len(q) :
          /\ q[n].turn = op[r].turn /\ q[n].seen <= clock
          /\ \A m \in 1..n : q[m].seen <= q[n].seen
          /\ \A i \in DOMAIN audit :
               \/ audit[i].seen <= q[n].seen
               \/ <<audit[i].turn, q[n].turn>> \in beside \/ <<q[n].turn, audit[i].turn>> \in beside
    BY <1>2, <1>3 DEF CallsFit, InOrder, SideBySide
  <1>6. /\ \A i \in 1..L : audit[i].seen <= clock
        /\ \A i, j \in 1..L : i < j =>
             \/ audit[i].seen <= audit[j].seen
             \/ <<audit[i].turn, audit[j].turn>> \in beside \/ <<audit[j].turn, audit[i].turn>> \in beside
    BY <1>2 DEF TrailFits, InOrder, SideBySide
  <1> HIDE DEF q, L
  <1>7. \A i \in DOMAIN audit' : audit'[i].seen <= clock'
    BY <1>1, <1>4, <1>5, <1>6
  <1>8. ASSUME NEW i \in DOMAIN audit', NEW j \in DOMAIN audit', i < j
        PROVE  \/ audit'[i].seen <= audit'[j].seen
               \/ <<audit'[i].turn, audit'[j].turn>> \in beside \/ <<audit'[j].turn, audit'[i].turn>> \in beside
    <2>1. CASE j \in 1..L
      <3>1. i \in 1..L
        BY <1>2, <1>4, <1>8, <2>1
      <3> QED
        BY <1>4, <1>6, <1>8, <2>1, <3>1
    <2>2. CASE j \notin 1..L /\ i \in 1..L
      <3>1. j - L \in 1..Len(q) /\ audit'[j] = q[j - L] /\ audit'[i] = audit[i] /\ i \in DOMAIN audit
        BY <1>2, <1>4, <2>2
      <3> QED
        BY <1>5, <3>1
    <2>3. CASE j \notin 1..L /\ i \notin 1..L
      <3>1. /\ j - L \in 1..Len(q) /\ audit'[j] = q[j - L] /\ i - L \in 1..Len(q) /\ audit'[i] = q[i - L]
            /\ i \in Nat /\ j \in Nat
        BY <1>4, <2>3
      <3>2. i - L \in 1..(j - L)
        BY <1>2, <1>8, <3>1
      <3> QED
        BY <1>5, <3>1, <3>2
    <2> QED
      BY <2>1, <2>2, <2>3
  <1>9. ASSUME NEW s \in TurnRunners PROVE CallsFit(s)'
    <2>1. CASE s = r
      BY <1>1, <2>1 DEF CallsFit
    <2>2. CASE s # r
      <3>1. op'[s] = op[s]
        BY <1>1, <2>2
      <3>2. SUFFICES ASSUME NEW n \in DOMAIN op[s].calls
                     PROVE  /\ op[s].calls[n].turn = op[s].turn /\ op[s].calls[n].seen <= clock
                            /\ \A m \in 1..n : op[s].calls[m].seen <= op[s].calls[n].seen
                            /\ \A i \in DOMAIN audit' :
                                 \/ audit'[i].seen <= op[s].calls[n].seen
                                 \/ <<audit'[i].turn, op[s].calls[n].turn>> \in beside
                                 \/ <<op[s].calls[n].turn, audit'[i].turn>> \in beside
        BY <1>1, <3>1 DEF CallsFit, InOrder, SideBySide
      <3>3. /\ op[s].calls[n].turn = op[s].turn /\ op[s].calls[n].seen <= clock
            /\ \A m \in 1..n : op[s].calls[m].seen <= op[s].calls[n].seen
            /\ \A i \in DOMAIN audit :
                 \/ audit[i].seen <= op[s].calls[n].seen
                 \/ <<audit[i].turn, op[s].calls[n].turn>> \in beside
                 \/ <<op[s].calls[n].turn, audit[i].turn>> \in beside
        BY <1>3, <3>2 DEF CallsFit, InOrder, SideBySide
      <3>4. s \in UnderWay /\ r \in UnderWay
        <4>1. op[s].calls # <<>>
          BY <3>2
        <4>2. op[s].at # "idle"
          BY <4>1 DEF TrailFits, At
        <4> QED
          BY <1>1, <4>2 DEF UnderWay, At
      <3>5. <<op[r].turn, op[s].turn>> \in beside \/ <<op[s].turn, op[r].turn>> \in beside
        BY <2>2, <3>4 DEF TurnsFit, SideBySide
      <3>6. ASSUME NEW i \in DOMAIN audit'
            PROVE  \/ audit'[i].seen <= op[s].calls[n].seen
                   \/ <<audit'[i].turn, op[s].calls[n].turn>> \in beside
                   \/ <<op[s].calls[n].turn, audit'[i].turn>> \in beside
        <4>1. CASE i \in 1..L
          BY <1>2, <1>4, <3>3, <4>1
        <4>2. CASE i \notin 1..L
          <5>1. audit'[i].turn = op[r].turn
            BY <1>4, <1>5, <4>2
          <5> QED
            BY <3>3, <3>5, <5>1
        <4> QED
          BY <4>1, <4>2
      <3> QED
        BY <3>3, <3>6
    <2> QED
      BY <2>1, <2>2
  <1>10. ASSUME NEW s \in TurnRunners
         PROVE  /\ At(s, "idle")' => op'[s].calls = <<>>
                /\ At(s, "evidence")' => /\ op'[s].evidence = <<>> /\ op'[s].execution = <<>>
                                         /\ op'[s].window = {} /\ op'[s].read = 0 /\ op'[s].calls = <<>>
    <2>1. CASE s = r
      BY <1>1, <2>1 DEF At
    <2>2. CASE s # r
      BY <1>1, <2>2 DEF At, TrailFits
    <2> QED
      BY <2>1, <2>2
  <1>11. ASSUME NEW s \in Briefed' PROVE op'[s].read <= Len(audit')
    <2>1. s \in TurnRunners /\ s # r /\ op'[s] = op[s] /\ s \in Briefed
      BY <1>1, <1>11 DEF Briefed, At
    <2>2. op[s].read <= L /\ op[s].read \in Nat
      BY <2>1, TurnTypes DEF TrailFits, L
    <2> QED
      BY <1>2, <1>4, <2>1, <2>2
  <1> QED
    BY <1>1, <1>7, <1>8, <1>9, <1>10, <1>11 DEF TrailFits, InOrder, SideBySide, CallsFit

LEMMA TrailKept ==
  ASSUME ContextIInv, [ContextNext]_contextVars
  PROVE  TrailFits'
  <1>0. ContextTypeOK /\ TurnsFit /\ TrailFits /\ clock \in Nat /\ clock <= clock
    BY DEF ContextIInv, ContextTypeOK
  <1>00. \A s \in TurnRunners : CallsFit(s)
    BY <1>0, TrailUnfolds
  <1>1. CASE Change \/ UNCHANGED contextVars
    <2>1. /\ clock' \in Nat /\ clock <= clock' /\ op' = op /\ audit' = audit /\ beside' = beside
      BY <1>0, <1>1, ChangedIs
    <2>2. \A s \in TurnRunners : CallsFit(s)'
      BY <1>0, <1>00, <2>1, CallsStay
    <2>3. ASSUME NEW s \in TurnRunners
          PROVE  /\ op'[s].at = "idle" => op'[s].calls = <<>>
                 /\ op'[s].at = "evidence" => /\ op'[s].evidence = <<>> /\ op'[s].execution = <<>>
                                              /\ op'[s].window = {} /\ op'[s].read = 0 /\ op'[s].calls = <<>>
                 /\ op'[s].at = "hydrate" => op'[s].read <= Len(audit)
      BY <1>0, <2>1 DEF TrailFits, Briefed, At
    <2>4. \A s \in TurnRunners :
            /\ op'[s].at = "idle" => op'[s].calls = <<>>
            /\ op'[s].at = "evidence" => /\ op'[s].evidence = <<>> /\ op'[s].execution = <<>>
                                         /\ op'[s].window = {} /\ op'[s].read = 0 /\ op'[s].calls = <<>>
            /\ op'[s].at = "hydrate" => op'[s].read <= Len(audit)
            /\ CallsFit(s)'
      BY <2>2, <2>3
    <2> QED
      BY <1>0, <2>1, <2>4, TrailStays
  <1>2. CASE EditGrants
    <2>1. /\ clock' = clock /\ audit' = audit /\ beside' = beside
          /\ \A s \in TurnRunners :
               /\ op'[s].at = op[s].at /\ op'[s].turn = op[s].turn /\ op'[s].calls = op[s].calls
               /\ op'[s].window = op[s].window /\ op'[s].evidence = op[s].evidence
               /\ op'[s].read = op[s].read /\ op'[s].execution = op[s].execution
      BY <1>0, <1>2, GrantedIs
    <2>2. \A s \in TurnRunners : CallsFit(s)'
      BY <1>0, <1>00, <2>1, CallsStay
    <2>3. ASSUME NEW s \in TurnRunners
          PROVE  /\ op'[s].at = "idle" => op'[s].calls = <<>>
                 /\ op'[s].at = "evidence" => /\ op'[s].evidence = <<>> /\ op'[s].execution = <<>>
                                              /\ op'[s].window = {} /\ op'[s].read = 0 /\ op'[s].calls = <<>>
                 /\ op'[s].at = "hydrate" => op'[s].read <= Len(audit)
      BY <1>0, <2>1 DEF TrailFits, Briefed, At
    <2>4. \A s \in TurnRunners :
            /\ op'[s].at = "idle" => op'[s].calls = <<>>
            /\ op'[s].at = "evidence" => /\ op'[s].evidence = <<>> /\ op'[s].execution = <<>>
                                         /\ op'[s].window = {} /\ op'[s].read = 0 /\ op'[s].calls = <<>>
            /\ op'[s].at = "hydrate" => op'[s].read <= Len(audit)
            /\ CallsFit(s)'
      BY <2>2, <2>3
    <2> QED
      BY <1>0, <2>1, <2>4, TrailStays
  <1>3. ASSUME NEW r \in TurnRunners, BeginTurn(r) PROVE TrailFits'
    <2>1. /\ op'[r].at = "evidence" /\ op'[r].calls = <<>> /\ op'[r].evidence = <<>>
          /\ op'[r].execution = <<>> /\ op'[r].window = {} /\ op'[r].read = 0
          /\ \A s \in TurnRunners : s # r => op'[s] = op[s]
          /\ beside \subseteq beside' /\ clock' = clock /\ audit' = audit
      BY <1>0, <1>3, BegunIs
    <2>2. CallsFit(r)'
      BY <2>1 DEF CallsFit
    <2> QED
      BY <1>0, <2>1, <2>2, TrailOfOne
  <1>4. ASSUME NEW r \in TurnRunners, EvidenceForTurn(r) PROVE TrailFits'
    <2>1. /\ op'[r].at = "hydrate" /\ op'[r].turn = op[r].turn /\ op'[r].calls = op[r].calls
          /\ op'[r].read = Len(audit) /\ Len(audit) \in Nat
          /\ \A s \in TurnRunners : s # r => op'[s] = op[s]
          /\ audit' = audit /\ beside' = beside /\ clock' = clock
      BY <1>0, <1>4, BriefedIs, SeenFits
    <2>2. CallsFit(r)'
      BY <1>0, <1>00, <2>1, CallsStay
    <2> QED
      BY <1>0, <2>1, <2>2, TrailOfOne
  <1>5. ASSUME NEW r \in TurnRunners, EvidenceUnavailable(r) PROVE TrailFits'
    <2>1. /\ op'[r].at = "hydrate" /\ op'[r].turn = op[r].turn /\ op'[r].calls = op[r].calls
          /\ op'[r].read = op[r].read /\ op[r].at = "evidence" /\ Len(audit) \in Nat
          /\ \A s \in TurnRunners : s # r => op'[s] = op[s]
          /\ audit' = audit /\ beside' = beside /\ clock' = clock
      BY <1>0, <1>5, UnbriefedIs, SeenFits
    <2>2. CallsFit(r)'
      BY <1>0, <1>00, <2>1, CallsStay
    <2>3. op'[r].read <= Len(audit)
      BY <1>0, <2>1 DEF TrailFits, At
    <2> QED
      BY <1>0, <2>1, <2>2, <2>3, TrailOfOne
  <1>6. ASSUME NEW r \in TurnRunners, HydrateSubjects(r) PROVE TrailFits'
    <2>1. /\ op'[r].at = "loop" /\ op'[r].calls = <<>>
          /\ \A s \in TurnRunners : s # r => op'[s] = op[s]
          /\ audit' = audit /\ beside' = beside /\ clock' = clock
      BY <1>0, <1>6, HydratedIs
    <2>2. CallsFit(r)'
      BY <2>1 DEF CallsFit
    <2> QED
      BY <1>0, <2>1, <2>2, TrailOfOne
  <1>7. ASSUME NEW r \in TurnRunners, ExecuteCall(r) PROVE TrailFits'
    <2>1. /\ op'[r].at = "loop" /\ clock' \in Nat /\ clock <= clock'
          /\ \A s \in TurnRunners : s # r => op'[s] = op[s]
          /\ audit' = audit /\ beside' = beside
      BY <1>0, <1>7, CalledIs
    <2>2. CallsFit(r)'
      BY <1>0, <1>7, CallAdded
    <2> QED
      BY <1>0, <2>1, <2>2, TrailOfOne
  <1>8. ASSUME NEW r \in TurnRunners, StoreAnswer(r) PROVE TrailFits'
    <2>1. /\ op'[r].at \in {"idle", "audit"} /\ (op'[r].at = "idle" => op'[r].calls = <<>>)
          /\ (op'[r].at = "audit" => op'[r].turn = op[r].turn /\ op'[r].calls = op[r].calls)
          /\ \A s \in TurnRunners : s # r => op'[s] = op[s]
          /\ audit' = audit /\ beside' = beside /\ clock' = clock
      BY <1>0, <1>8, StoredIs
    <2>2. CallsFit(r)'
      BY <1>0, <1>00, <2>1, CallsStay
    <2> QED
      BY <1>0, <2>1, <2>2, TrailOfOne
  <1>9. ASSUME NEW r \in TurnRunners, PersistToolCalls(r) PROVE TrailFits'
    BY <1>0, <1>9, TrailGrows
  <1>10. ASSUME NEW r \in TurnRunners, Fail(r) PROVE TrailFits'
    <2>1. CASE PersistToolCalls(r)
      BY <1>0, <2>1, TrailGrows
    <2>2. CASE ~PersistToolCalls(r)
      <3>1. /\ op'[r].at = "idle" /\ op'[r].calls = <<>>
            /\ \A s \in TurnRunners : s # r => op'[s] = op[s]
            /\ audit' = audit /\ beside' = beside /\ clock' = clock
        BY <1>0, <1>10, <2>2, EndedIs
      <3>2. CallsFit(r)'
        BY <3>1 DEF CallsFit
      <3> QED
        BY <1>0, <3>1, <3>2, TrailOfOne
    <2> QED
      BY <2>1, <2>2
  <1> QED
    BY <1>1, <1>2, <1>3, <1>4, <1>5, <1>6, <1>7, <1>8, <1>9, <1>10 DEF ContextNext

--------------------------------------------------------------------------------
(* What a turn may use.                                                    *)

\* One runner's share of GrantsFit.
UsesFit(s) ==
  /\ op[s].at \notin {"idle", "audit"} => grants \cup op[s].scope \subseteq op[s].held
  /\ op[s].at \in {"hydrate", "loop"} =>
       /\ op[s].tools \subseteq op[s].held
       /\ op[s].scope # {} => op[s].tools = op[s].scope
  /\ op[s].at = "loop" =>
       /\ \A x \in Subjects : op[s].hydrated[x] \notin {None, "unauthorized"} => Capability \in op[s].tools
       /\ \A i \in DOMAIN op[s].calls :
            op[s].calls[i].status # "not_executed" => op[s].calls[i].tool \in op[s].tools

LEMMA GrantsUnfold ==
  GrantsFit <=> \A s \in TurnRunners : UsesFit(s)
  <1>1. ASSUME GrantsFit, NEW s \in TurnRunners PROVE UsesFit(s)
    <2>1. CASE op[s].at = "idle"
      BY <2>1 DEF UsesFit
    <2>2. CASE op[s].at # "idle"
      BY <1>1, <2>2 DEF UsesFit, GrantsFit, UnderWay, At
    <2> QED
      BY <2>1, <2>2
  <1>2. ASSUME \A s \in TurnRunners : UsesFit(s) PROVE GrantsFit
    BY <1>2 DEF UsesFit, GrantsFit, UnderWay, At
  <1> QED
    BY <1>1, <1>2

LEMMA GrantsKept ==
  ASSUME ContextIInv, [ContextNext]_contextVars
  PROVE  GrantsFit'
  <1>0. ContextTypeOK /\ TrailFits /\ \A s \in TurnRunners : UsesFit(s)
    BY GrantsUnfold DEF ContextIInv
  <1> SUFFICES ASSUME NEW s \in TurnRunners PROVE UsesFit(s)'
    BY DEF UsesFit, GrantsFit, UnderWay, At
  <1>1. ASSUME op'[s] = op[s], grants' = grants PROVE UsesFit(s)'
    BY <1>0, <1>1 DEF UsesFit
  <1>2. CASE Change \/ UNCHANGED contextVars
    <2>1. op' = op /\ grants' = grants
      BY <1>0, <1>2, ChangedIs
    <2> QED
      BY <1>1, <2>1
  <1>3. CASE EditGrants
    <2>1. /\ op'[s].at = op[s].at /\ op'[s].scope = op[s].scope /\ op'[s].tools = op[s].tools
          /\ op'[s].hydrated = op[s].hydrated /\ op'[s].calls = op[s].calls
          /\ op[s].at # "idle" => op'[s].held = op[s].held \cup grants'
      BY <1>0, <1>3, GrantedIs
    <2>2. UsesFit(s)
      BY <1>0
    <2> QED
      BY <2>1, <2>2 DEF UsesFit
  <1>4. ASSUME NEW r \in TurnRunners, BeginTurn(r) PROVE UsesFit(s)'
    <2>1. /\ op'[r].at = "evidence" /\ op'[r].scope \subseteq grants /\ op'[r].held = grants
          /\ \A q \in TurnRunners : q # r => op'[q] = op[q]
          /\ grants' = grants
      BY <1>0, <1>4, BegunIs
    <2>2. CASE s = r
      BY <2>1, <2>2 DEF UsesFit
    <2>3. CASE s # r
      BY <1>1, <2>1, <2>3
    <2> QED
      BY <2>2, <2>3
  <1>5. ASSUME NEW r \in TurnRunners, EvidenceForTurn(r) \/ EvidenceUnavailable(r) PROVE UsesFit(s)'
    <2>1. /\ op[r].at = "evidence" /\ op'[r].at = "hydrate" /\ op'[r].tools = Declared(r)
          /\ op'[r].scope = op[r].scope /\ op'[r].held = op[r].held
          /\ \A q \in TurnRunners : q # r => op'[q] = op[q]
          /\ grants' = grants
      BY <1>0, <1>5, BriefedIs, UnbriefedIs
    <2>2. CASE s = r
      <3>1. grants \cup op[r].scope \subseteq op[r].held
        BY <1>0, <2>1 DEF UsesFit
      <3> QED
        BY <2>1, <2>2, <3>1 DEF UsesFit, Declared
    <2>3. CASE s # r
      BY <1>1, <2>1, <2>3
    <2> QED
      BY <2>2, <2>3
  <1>6. ASSUME NEW r \in TurnRunners, HydrateSubjects(r) PROVE UsesFit(s)'
    <2>1. /\ op[r].at = "hydrate" /\ op'[r].at = "loop"
          /\ op'[r].scope = op[r].scope /\ op'[r].tools = op[r].tools /\ op'[r].held = op[r].held
          /\ op'[r].calls = <<>>
          /\ \A x \in Subjects :
               /\ x \in TurnReferences(r) \cap PerTurn => op'[r].hydrated[x] \in HydrationAnswers(r, x)
               /\ x \notin TurnReferences(r) \cap PerTurn => op'[r].hydrated[x] = None
          /\ \A q \in TurnRunners : q # r => op'[q] = op[q]
          /\ grants' = grants
      BY <1>0, <1>6, HydratedIs
    <2>2. CASE s = r
      <3>1. /\ grants \cup op[r].scope \subseteq op[r].held /\ op[r].tools \subseteq op[r].held
            /\ op[r].scope # {} => op[r].tools = op[r].scope
        BY <1>0, <2>1 DEF UsesFit
      <3>2. ASSUME NEW x \in Subjects, op'[r].hydrated[x] \notin {None, "unauthorized"}
            PROVE  Capability \in op'[r].tools
        <4>1. op'[r].hydrated[x] \in HydrationAnswers(r, x)
          BY <2>1, <3>2
        <4> QED
          BY <2>1, <3>2, <4>1 DEF HydrationAnswers, HydrationAuthorized
      <3> QED
        BY <2>1, <2>2, <3>1, <3>2 DEF UsesFit
    <2>3. CASE s # r
      BY <1>1, <2>1, <2>3
    <2> QED
      BY <2>2, <2>3
  <1>7. ASSUME NEW r \in TurnRunners, ExecuteCall(r) PROVE UsesFit(s)'
    <2>1. /\ op[r].at = "loop" /\ op'[r].at = "loop"
          /\ op'[r].scope = op[r].scope /\ op'[r].tools = op[r].tools /\ op'[r].held = op[r].held
          /\ \A x \in Subjects : op'[r].hydrated[x] = None
          /\ \A q \in TurnRunners : q # r => op'[q] = op[q]
          /\ grants' = grants
      BY <1>0, <1>7, CalledIs
    <2>2. PICK c : /\ op'[r].calls = Append(op[r].calls, c)
                   /\ c.status # "not_executed" => c.tool \in op[r].tools
      BY <1>0, <1>7, CalledIs
    <2>3. CASE s = r
      <3>1. /\ grants \cup op[r].scope \subseteq op[r].held /\ op[r].tools \subseteq op[r].held
            /\ op[r].scope # {} => op[r].tools = op[r].scope
            /\ \A i \in DOMAIN op[r].calls :
                 op[r].calls[i].status # "not_executed" => op[r].calls[i].tool \in op[r].tools
        BY <1>0, <2>1 DEF UsesFit
      <3>2. ASSUME NEW i \in DOMAIN op'[r].calls
            PROVE  (i \in DOMAIN op[r].calls /\ op'[r].calls[i] = op[r].calls[i]) \/ op'[r].calls[i] = c
        <4>1. op[r].calls \in Seq(Record)
          BY <1>0, TurnTypes
        <4> HIDE DEF Record
        <4> QED
          BY <2>2, <3>2, <4>1
      <3>3. \A i \in DOMAIN op'[r].calls :
              op'[r].calls[i].status # "not_executed" => op'[r].calls[i].tool \in op'[r].tools
        BY <2>1, <2>2, <3>1, <3>2
      <3> QED
        BY <2>1, <2>3, <3>1, <3>3 DEF UsesFit
    <2>4. CASE s # r
      BY <1>1, <2>1, <2>4
    <2> QED
      BY <2>3, <2>4
  <1>8. ASSUME NEW r \in TurnRunners, StoreAnswer(r) PROVE UsesFit(s)'
    <2>1. /\ op'[r].at \in {"idle", "audit"} /\ \A q \in TurnRunners : q # r => op'[q] = op[q]
          /\ grants' = grants
      BY <1>0, <1>8, StoredIs
    <2>2. CASE s = r
      BY <2>1, <2>2 DEF UsesFit
    <2>3. CASE s # r
      BY <1>1, <2>1, <2>3
    <2> QED
      BY <2>2, <2>3
  <1>9. ASSUME NEW r \in TurnRunners, PersistToolCalls(r) \/ Fail(r) PROVE UsesFit(s)'
    <2>1. /\ op'[r].at = "idle" /\ \A q \in TurnRunners : q # r => op'[q] = op[q]
          /\ grants' = grants
      BY <1>0, <1>9, EndedIs
    <2>2. CASE s = r
      BY <2>1, <2>2 DEF UsesFit
    <2>3. CASE s # r
      BY <1>1, <2>1, <2>3
    <2> QED
      BY <2>2, <2>3
  <1> QED
    BY <1>2, <1>3, <1>4, <1>5, <1>6, <1>7, <1>8, <1>9 DEF ContextNext

--------------------------------------------------------------------------------
(* What a turn is told.                                                    *)

\* One runner's share of EvidenceIsSound and of WritesAreTold.
SoundIn(evidence, newest) ==
  LET chosen == Range(evidence) IN
  /\ chosen \subseteq newest /\ Increasing(evidence)
  /\ CostOfAll(chosen) <= EvidenceBudget
  /\ \A i \in newest \ chosen : CostOfAll(chosen) + Cost(audit[i]) > EvidenceBudget
KindsOf(r, t) == {KindOf(i) : i \in Wrote(r, t)}
ToldIn(execution, window, r) ==
  LET shown == Range(execution) IN
  /\ CostOfTurns(shown) <= ExecutionBudget
  /\ \A t \in window : Wrote(r, t) # {} =>
       IF \E e \in shown : e.turn = t
       THEN \A e \in shown : e.turn = t => AllCounts(e.entries) = Cardinality(Wrote(r, t))
       ELSE CostOfTurns(shown) + 1 + Cardinality(KindsOf(r, t)) > ExecutionBudget
ToldWellTo(r) ==
  SoundIn(op[r].evidence, NewestOfCall(r)) /\ ToldIn(op[r].execution, op[r].window, r)

LEMMA ToldUnfolds ==
  EvidenceIsSound /\ WritesAreTold <=> \A r \in Briefed : ToldWellTo(r)
  BY DEF EvidenceIsSound, WritesAreTold, ToldWellTo, SoundIn, ToldIn, KindsOf, Increasing

\* What is visible to a turn stays as it is when calls are added to the trail.
LEMMA VisibleStays ==
  ASSUME ContextTypeOK, NEW r \in TurnRunners, op[r].read <= Len(audit),
         \A i \in DOMAIN audit : audit'[i] = audit[i],
         op'[r].read = op[r].read, op'[r].window = op[r].window,
         op'[r].attached = op[r].attached, conv' = conv
  PROVE  /\ Visible(r)' = Visible(r) /\ Visible(r) \subseteq DOMAIN audit
         /\ NewestOfCall(r)' = NewestOfCall(r) /\ NewestOfCall(r) \subseteq Visible(r)
         /\ \A t : Wrote(r, t)' = Wrote(r, t) /\ Wrote(r, t) \subseteq Visible(r)
  <1>1. DOMAIN audit = 1..Len(audit) /\ Len(audit) \in Nat /\ op[r].read \in Nat
    BY TurnTypes, SeenFits
  <1>2. \A i \in 1..op[r].read : i \in DOMAIN audit /\ audit'[i] = audit[i]
    BY <1>1
  <1>3. Visible(r)' = Visible(r) /\ Visible(r) \subseteq DOMAIN audit
    BY <1>2 DEF Visible
  <1>4. About(r)' = About(r)
    BY DEF About
  <1>5. \A i \in Visible(r) : audit'[i] = audit[i]
    BY <1>3
  <1>6. NewestOfCall(r)' = NewestOfCall(r) /\ NewestOfCall(r) \subseteq Visible(r)
    BY <1>3, <1>4, <1>5 DEF NewestOfCall, Carried, Key
  <1>7. \A t : Wrote(r, t)' = Wrote(r, t) /\ Wrote(r, t) \subseteq Visible(r)
    BY <1>3, <1>5 DEF Wrote
  <1> QED
    BY <1>3, <1>6, <1>7

\* So does what a turn is told of it.
LEMMA ToldStays ==
  ASSUME ContextTypeOK, NEW r \in TurnRunners, op[r].read <= Len(audit),
         \A i \in DOMAIN audit : audit'[i] = audit[i],
         op'[r].read = op[r].read, op'[r].window = op[r].window,
         op'[r].attached = op[r].attached, conv' = conv,
         op'[r].evidence = op[r].evidence, op'[r].execution = op[r].execution,
         ToldWellTo(r)
  PROVE  ToldWellTo(r)'
  <1> DEFINE ev == op[r].evidence  ex == op[r].execution  newest == NewestOfCall(r)
             chosen == Range(ev)
  <1>1. /\ Visible(r)' = Visible(r) /\ Visible(r) \subseteq DOMAIN audit
        /\ NewestOfCall(r)' = newest /\ newest \subseteq Visible(r)
        /\ \A t : Wrote(r, t)' = Wrote(r, t) /\ Wrote(r, t) \subseteq Visible(r)
    BY VisibleStays
  <1>2. \A i \in Visible(r) : audit'[i] = audit[i]
    BY <1>1
  <1>3. SoundIn(ev, newest) /\ chosen \subseteq Visible(r)
    BY <1>1 DEF ToldWellTo, SoundIn
  <1>4. /\ op'[r].evidence = ev /\ op'[r].execution = ex /\ op'[r].window = op[r].window
    OBVIOUS
  <1>5. \A i \in Visible(r) : Cost(audit'[i]) = Cost(audit[i])
    BY <1>2
  <1>6. SumFunctionOnSet([i \in chosen |-> Cost(audit'[i])], chosen) = CostOfAll(chosen)
    <2> HIDE DEF chosen
    <2>1. [i \in chosen |-> Cost(audit'[i])] = [i \in chosen |-> Cost(audit[i])]
      BY <1>3, <1>5
    <2> QED
      BY <2>1 DEF CostOfAll
  <1>7. SoundIn(ev, newest)'
    <2>1. /\ chosen \subseteq newest /\ Increasing(ev) /\ CostOfAll(chosen) <= EvidenceBudget
          /\ \A i \in newest \ chosen : CostOfAll(chosen) + Cost(audit[i]) > EvidenceBudget
      BY <1>3 DEF SoundIn
    <2>2. \A i \in newest \ chosen : CostOfAll(chosen) + Cost(audit'[i]) > EvidenceBudget
      BY <1>1, <1>5, <2>1
    <2> QED
      BY <1>1, <1>4, <1>6, <2>1, <2>2 DEF SoundIn, CostOfAll
  <1>8. ToldIn(ex, op[r].window, r)'
    <2>1. ASSUME NEW t PROVE KindsOf(r, t)' = KindsOf(r, t)
      BY <1>1, <1>2 DEF KindsOf, KindOf
    <2>2. ToldIn(ex, op[r].window, r)
      BY DEF ToldWellTo
    <2> QED
      BY <1>1, <1>4, <2>1, <2>2 DEF ToldIn
  <1> QED
    BY <1>7, <1>8 DEF ToldWellTo

\* Reading the trail, a turn sees all of it that is in its window.
LEMMA VisibleWhenRead ==
  ASSUME ContextTypeOK, NEW r \in TurnRunners, audit' = audit, conv' = conv,
         op'[r].attached = op[r].attached, op'[r].read = Len(audit), op'[r].window = WindowTurns
  PROVE  /\ Visible(r)' = Seen
         /\ NewestOfCall(r)' = NewestIn(DropReadingsOfSubjects(Seen, TurnReferences(r)))
         /\ \A t : Wrote(r, t)' = WritesOf(t, Seen)
  <1>1. DOMAIN audit = 1..Len(audit)
    BY SeenFits
  <1>2. Visible(r)' = Seen
    BY <1>1 DEF Visible, Seen
  <1>3. About(r)' = TurnReferences(r)
    <2>1. conv \subseteq Subjects /\ op[r].attached \subseteq Subjects
      BY TurnTypes DEF ContextTypeOK
    <2> QED
      BY <2>1 DEF About, TurnReferences
  <1> DEFINE S == DropReadingsOfSubjects(Seen, TurnReferences(r))
  <1>4. \A i : i \in S <=> i \in Seen /\ audit[i].about \notin TurnReferences(r)
    BY DEF DropReadingsOfSubjects
  <1>5. \A i : i \in NewestOfCall(r)' <=>
          /\ i \in Seen /\ Carried(audit[i]) /\ audit[i].about \notin TurnReferences(r)
          /\ \A j \in Seen : (j > i /\ Carried(audit[j])) => Key(audit[j]) # Key(audit[i])
    BY <1>2, <1>3 DEF NewestOfCall, Carried, Key
  <1>6. \A i, j : Key(audit[j]) = Key(audit[i]) => audit[j].about = audit[i].about
    BY DEF Key
  <1>7. \A i : i \in NewestIn(S) <=>
          /\ i \in S /\ Carried(audit[i])
          /\ \A j \in S : j > i /\ Carried(audit[j]) => Key(audit[j]) # Key(audit[i])
    BY DEF NewestIn
  <1>8. \A i : i \in NewestOfCall(r)' <=> i \in NewestIn(S)
    <2> HIDE DEF S
    <2> QED
      BY <1>4, <1>5, <1>6, <1>7
  <1>9. NewestOfCall(r)' = NewestIn(S)
    BY <1>8 DEF NewestOfCall, NewestIn
  <1>10. \A t : Wrote(r, t)' = WritesOf(t, Seen)
    BY <1>2 DEF Wrote, WritesOf
  <1> QED
    BY <1>2, <1>9, <1>10

LEMMA SoundWhenRead ==
  ASSUME ContextTypeOK, TurnsFit, NEW r \in TurnRunners, EvidenceForTurn(r)
  PROVE  SoundIn(op[r].evidence, NewestOfCall(r))'
  <1> DEFINE S == DropReadingsOfSubjects(Seen, TurnReferences(r))
  <1>1. /\ audit' = audit /\ conv' = conv /\ op'[r].attached = op[r].attached
        /\ op'[r].read = Len(audit) /\ op'[r].window = WindowTurns /\ op'[r].evidence = SelectEvidence(S)
    BY BriefedIs
  <1>2. NewestOfCall(r)' = NewestIn(S)
    BY <1>1, VisibleWhenRead
  <1>3. IsFiniteSet(S) /\ S \subseteq DOMAIN audit
    BY SeenFits
  <1> HIDE DEF S
  <1>4. PICK acc \in Accs(S) : PickedWell(S, acc) /\ SelectEvidence(S) = acc.picked
    BY <1>3, EvidenceSelected
  <1> DEFINE chosen == Range(acc.picked)
  <1>5. /\ chosen \subseteq NewestIn(S) /\ Increasing(acc.picked)
        /\ CostOfAll(chosen) <= EvidenceBudget
        /\ \A i \in NewestIn(S) \ chosen : CostOfAll(chosen) + Cost(audit[i]) > EvidenceBudget
    BY <1>4 DEF PickedWell
  <1>6. CostOfAll(chosen) = SumFunctionOnSet([i \in chosen |-> Cost(audit[i])], chosen)
    BY DEF CostOfAll
  <1>7. op'[r].evidence = acc.picked
    BY <1>1, <1>4
  <1> QED
    BY <1>1, <1>2, <1>5, <1>6, <1>7 DEF SoundIn, CostOfAll

LEMMA ToldWhenRead ==
  ASSUME ContextTypeOK, TurnsFit, NEW r \in TurnRunners, EvidenceForTurn(r)
  PROVE  ToldIn(op[r].execution, op[r].window, r)'
  <1>1. /\ audit' = audit /\ conv' = conv /\ op'[r].attached = op[r].attached
        /\ op'[r].read = Len(audit) /\ op'[r].window = WindowTurns
        /\ op'[r].execution = SelectExecution(Order, Seen)
    BY BriefedIs
  <1>2. /\ Order \subseteq DOMAIN rows /\ IsFiniteSet(Order)
        /\ \A i, j \in Order : rows[i].turn = rows[j].turn => i = j
        /\ Seen \subseteq DOMAIN audit /\ IsFiniteSet(Seen)
    BY OrderFits, SeenFits
  <1>3. PICK acc \in TurnAccs : ToldWell(Order, acc, Seen) /\ SelectExecution(Order, Seen) = acc.picked
    BY <1>2, ExecutionSelected
  <1> DEFINE shown == Range(acc.picked)
  <1>4. op'[r].execution = acc.picked
    BY <1>1, <1>3
  <1>5. /\ \A e \in shown : \E i \in Order : e = ToldOf(i, Seen)
        /\ CostOfTurns(shown) <= ExecutionBudget
        /\ \A i \in Order :
             \/ EntriesOf(rows[i].turn, Seen) = {} \/ ToldOf(i, Seen) \in shown
             \/ CostOfTurns(shown) + 1 + Cardinality(EntriesOf(rows[i].turn, Seen)) > ExecutionBudget
    BY <1>3 DEF ToldWell
  <1> HIDE DEF shown
  <1>6. ASSUME NEW t \in WindowTurns, WritesOf(t, Seen) # {}
        PROVE  IF \E e \in shown : e.turn = t
               THEN \A e \in shown : e.turn = t => AllCounts(e.entries) = Cardinality(WritesOf(t, Seen))
               ELSE CostOfTurns(shown) + 1 + Cardinality({KindOf(i) : i \in WritesOf(t, Seen)}) > ExecutionBudget
    <2> DEFINE entries == EntriesOf(t, Seen)
    <2>1. /\ Cardinality(entries) = Cardinality({KindOf(i) : i \in WritesOf(t, Seen)})
          /\ AllCounts(entries) = Cardinality(WritesOf(t, Seen))
      BY <1>2, EntriesCount
    <2>2. entries # {}
      <3> DEFINE Of(k) == {i \in WritesOf(t, Seen) : KindOf(i) = k}
                 E(k) == [tool |-> k[1], status |-> k[2], count |-> Cardinality(Of(k)),
                          refs |-> {audit[i].about : i \in Of(k)}]
                 kinds == {KindOf(i) : i \in WritesOf(t, Seen)}
      <3>1. PICK i \in WritesOf(t, Seen) : TRUE
        BY <1>6
      <3>2. KindOf(i) \in kinds
        BY <3>1
      <3>3. entries = {E(k) : k \in kinds}
        BY DEF EntriesOf
      <3> HIDE DEF entries, E, kinds
      <3>4. E(KindOf(i)) \in entries
        BY <3>2, <3>3
      <3> QED
        BY <3>4
    <2>3. \A i : ToldOf(i, Seen).turn = rows[i].turn /\ ToldOf(i, Seen).entries = EntriesOf(rows[i].turn, Seen)
      BY DEF ToldOf
    <2>4. \A e \in shown : e.turn = t => e.entries = entries
      BY <1>5, <2>3
    <2>5. PICK i \in Order : rows[i].turn = t
      BY <1>6 DEF WindowTurns
    <2> HIDE DEF entries
    <2>6. CASE \E e \in shown : e.turn = t
      BY <2>1, <2>4, <2>6
    <2>7. CASE ~\E e \in shown : e.turn = t
      <3>1. ToldOf(i, Seen) \notin shown
        BY <2>3, <2>5, <2>7
      <3>2. CostOfTurns(shown) + 1 + Cardinality(entries) > ExecutionBudget
        BY <1>5, <2>2, <2>5, <3>1 DEF entries
      <3> QED
        BY <2>1, <2>7, <3>2
    <2> QED
      BY <2>6, <2>7
  <1>7. \A t : Wrote(r, t)' = WritesOf(t, Seen)
    BY <1>1, VisibleWhenRead
  <1>8. ASSUME NEW t PROVE KindsOf(r, t)' = {KindOf(i) : i \in WritesOf(t, Seen)}
    BY <1>1, <1>7 DEF KindsOf, KindOf
  <1>9. CostOfTurns(shown) <= ExecutionBudget
    BY <1>5
  <1>10. \A t \in WindowTurns : Wrote(r, t)' # {} =>
           IF \E e \in shown : e.turn = t
           THEN \A e \in shown : e.turn = t => AllCounts(e.entries) = Cardinality(Wrote(r, t)')
           ELSE CostOfTurns(shown) + 1 + Cardinality(KindsOf(r, t)') > ExecutionBudget
    <2> TAKE t \in WindowTurns
    <2>1. Wrote(r, t)' = WritesOf(t, Seen) /\ KindsOf(r, t)' = {KindOf(i) : i \in WritesOf(t, Seen)}
      BY <1>7, <1>8
    <2> QED
      BY <1>6, <2>1
  <1>11. Range(op'[r].execution) = shown
    BY <1>4 DEF shown
  <1> QED
    BY <1>1, <1>9, <1>10, <1>11 DEF ToldIn

\* Told nothing, a turn is told nothing that is wrong.
LEMMA ToldNothing ==
  ASSUME NEW r \in TurnRunners, op'[r].evidence = <<>>, op'[r].execution = <<>>,
         op'[r].window = {}, op'[r].read = 0
  PROVE  ToldWellTo(r)'
  <1>1. Range(<<>>) = {} /\ Increasing(<<>>)
    BY DEF Range, Increasing
  <1>2. NewestOfCall(r)' = {}
    BY DEF NewestOfCall, Visible
  <1>3. CostOfTurns({}) = 0
    BY SumEmpty DEF CostOfTurns
  <1>4. CostOfAll({})' = 0
    BY SumEmpty DEF CostOfAll
  <1>5. 0 <= EvidenceBudget /\ 0 <= ExecutionBudget
    BY ContextAssumption DEF ContextAssumption
  <1>6. SoundIn(op[r].evidence, NewestOfCall(r))'
    <2>1. Range(op'[r].evidence) = {} /\ Increasing(op'[r].evidence)
      BY <1>1
    <2> QED
      BY <1>2, <1>4, <1>5, <2>1 DEF SoundIn
  <1>7. ToldIn(op[r].execution, op[r].window, r)'
    <2>1. Range(op'[r].execution) = {}
      BY <1>1
    <2> QED
      BY <1>3, <1>5, <2>1 DEF ToldIn
  <1> QED
    BY <1>6, <1>7 DEF ToldWellTo

\* The trail only grows.
LEMMA TrailIsKept ==
  ASSUME ContextTypeOK, [ContextNext]_contextVars
  PROVE  conv' = conv /\ \A i \in DOMAIN audit : audit'[i] = audit[i]
  <1>1. CASE Change \/ UNCHANGED contextVars
    BY <1>1, ChangedIs
  <1>2. CASE EditGrants
    BY <1>2, GrantedIs
  <1>3. ASSUME NEW r \in TurnRunners, BeginTurn(r)
        PROVE  conv' = conv /\ audit' = audit
    BY <1>3, BegunIs
  <1>4. ASSUME NEW r \in TurnRunners, EvidenceForTurn(r) \/ EvidenceUnavailable(r)
        PROVE  conv' = conv /\ audit' = audit
    BY <1>4, BriefedIs, UnbriefedIs
  <1>5. ASSUME NEW r \in TurnRunners, HydrateSubjects(r) \/ ExecuteCall(r) \/ StoreAnswer(r)
        PROVE  conv' = conv /\ audit' = audit
    BY <1>5, HydratedIs, CalledIs, StoredIs
  <1>6. ASSUME NEW r \in TurnRunners, PersistToolCalls(r) \/ Fail(r)
        PROVE  conv' = conv /\ (audit' = audit \/ audit' = audit \o op[r].calls)
    BY <1>6, EndedIs
  <1>7. \A r \in TurnRunners : \A i \in DOMAIN audit : (audit \o op[r].calls)[i] = audit[i]
    <2>1. ASSUME NEW r \in TurnRunners, NEW i \in DOMAIN audit PROVE (audit \o op[r].calls)[i] = audit[i]
      <3>1. audit \in Seq(Record) /\ op[r].calls \in Seq(Record)
        BY TurnTypes DEF ContextTypeOK
      <3> HIDE DEF Record
      <3> QED
        BY <3>1
    <2> QED
      BY <2>1
  <1> QED
    BY <1>1, <1>2, <1>3, <1>4, <1>5, <1>6, <1>7 DEF ContextNext

LEMMA ToldKept ==
  ASSUME ContextIInv, [ContextNext]_contextVars
  PROVE  EvidenceIsSound' /\ WritesAreTold'
  <1>0. ContextTypeOK /\ TurnsFit /\ TrailFits /\ \A r \in Briefed : ToldWellTo(r) /\ op[r].read <= Len(audit)
    BY ToldUnfolds DEF ContextIInv, TrailFits
  <1>1. conv' = conv /\ \A i \in DOMAIN audit : audit'[i] = audit[i]
    BY <1>0, TrailIsKept
  <1>2. ASSUME NEW r \in TurnRunners, r \in Briefed,
               op'[r].read = op[r].read, op'[r].window = op[r].window, op'[r].attached = op[r].attached,
               op'[r].evidence = op[r].evidence, op'[r].execution = op[r].execution
        PROVE  ToldWellTo(r)'
    BY <1>0, <1>1, <1>2, ToldStays
  <1> SUFFICES ASSUME NEW s \in TurnRunners, op'[s].at = "hydrate" PROVE ToldWellTo(s)'
    BY DEF EvidenceIsSound, WritesAreTold, ToldWellTo, SoundIn, ToldIn, KindsOf, Increasing, Briefed, At
  <1>3. CASE op'[s] = op[s]
    <2>1. s \in Briefed
      BY <1>3 DEF Briefed, At
    <2> QED
      BY <1>2, <1>3, <2>1
  <1>4. CASE Change \/ UNCHANGED contextVars
    BY <1>0, <1>3, <1>4, ChangedIs
  <1>5. CASE EditGrants
    <2>1. /\ op'[s].at = op[s].at /\ op'[s].attached = op[s].attached
          /\ op'[s].window = op[s].window /\ op'[s].evidence = op[s].evidence
          /\ op'[s].read = op[s].read /\ op'[s].execution = op[s].execution
      BY <1>0, <1>5, GrantedIs
    <2>2. s \in Briefed
      BY <2>1 DEF Briefed, At
    <2> QED
      BY <1>2, <2>1, <2>2
  <1>6. ASSUME NEW r \in TurnRunners, EvidenceForTurn(r) PROVE ToldWellTo(s)'
    <2>1. CASE s = r
      BY <1>0, <1>6, <2>1, SoundWhenRead, ToldWhenRead DEF ToldWellTo
    <2>2. CASE s # r
      BY <1>0, <1>3, <1>6, <2>2, BriefedIs
    <2> QED
      BY <2>1, <2>2
  <1>7. ASSUME NEW r \in TurnRunners, EvidenceUnavailable(r) PROVE ToldWellTo(s)'
    <2>1. /\ op[r].at = "evidence" /\ op'[r].window = op[r].window /\ op'[r].read = op[r].read
          /\ op'[r].evidence = op[r].evidence /\ op'[r].execution = op[r].execution
          /\ \A q \in TurnRunners : q # r => op'[q] = op[q]
      BY <1>0, <1>7, UnbriefedIs
    <2>2. CASE s = r
      <3>1. op[r].evidence = <<>> /\ op[r].execution = <<>> /\ op[r].window = {} /\ op[r].read = 0
        BY <1>0, <2>1 DEF TrailFits, At
      <3> QED
        BY <2>1, <2>2, <3>1, ToldNothing
    <2>3. CASE s # r
      BY <1>3, <2>1, <2>3
    <2> QED
      BY <2>2, <2>3
  <1>8. ASSUME NEW r \in TurnRunners, BeginTurn(r) PROVE ToldWellTo(s)'
    <2>1. op'[r].at = "evidence" /\ \A q \in TurnRunners : q # r => op'[q] = op[q]
      BY <1>0, <1>8, BegunIs
    <2> QED
      BY <1>3, <2>1
  <1>9. ASSUME NEW r \in TurnRunners, HydrateSubjects(r) \/ ExecuteCall(r) \/ StoreAnswer(r)
        PROVE  ToldWellTo(s)'
    <2>1. op'[r].at # "hydrate" /\ \A q \in TurnRunners : q # r => op'[q] = op[q]
      <3>1. CASE HydrateSubjects(r)
        BY <1>0, <3>1, HydratedIs
      <3>2. CASE ExecuteCall(r)
        BY <1>0, <3>2, CalledIs
      <3>3. CASE StoreAnswer(r)
        BY <1>0, <3>3, StoredIs
      <3> QED
        BY <1>9, <3>1, <3>2, <3>3
    <2> QED
      BY <1>3, <2>1
  <1>10. ASSUME NEW r \in TurnRunners, PersistToolCalls(r) \/ Fail(r) PROVE ToldWellTo(s)'
    <2>1. op'[r].at = "idle" /\ \A q \in TurnRunners : q # r => op'[q] = op[q]
      BY <1>0, <1>10, EndedIs
    <2> QED
      BY <1>3, <2>1
  <1> QED
    BY <1>4, <1>5, <1>6, <1>7, <1>8, <1>9, <1>10 DEF ContextNext

LEMMA ContextStarts ==
  ContextInit => ContextIInv
  <1> SUFFICES ASSUME ContextInit PROVE ContextIInv
    OBVIOUS
  <1>1. /\ \A r \in TurnRunners : op[r] = Idle
        /\ rows = <<>> /\ audit = <<>> /\ clock = 1 /\ begun = 0 /\ beside = {}
    BY DEF ContextInit
  <1>2. \A r \in TurnRunners : op[r].at = "idle" /\ op[r].calls = <<>>
    BY <1>1 DEF Idle
  <1>3. ContextTypeOK
    <2>1. op \in [TurnRunners -> Turn]
      BY IdleType DEF ContextInit
    <2>2. /\ clock \in 1..MaxClock /\ begun \in 0..MaxBegun
          /\ state \in [Subjects -> 0..MaxClock] /\ conv \subseteq Subjects /\ grants \subseteq Tools
          /\ beside \subseteq (1..MaxBegun) \X (1..MaxBegun)
      <3>1. 1 \in 1..MaxClock /\ 0 \in 0..MaxBegun
        BY ContextAssumption DEF ContextAssumption
      <3>2. conv \subseteq Subjects /\ grants \subseteq Tools
        BY ContextAssumption DEF ContextInit, ContextAssumption
      <3>3. 1 \in 0..MaxClock
        BY <3>1
      <3> QED
        BY <1>1, <3>1, <3>2, <3>3 DEF ContextInit
    <2>3. audit \in Seq(Record) /\ rows \in Seq([role : {"user", "assistant"}, turn : 1..MaxBegun])
      BY <1>1
    <2> QED
      BY <2>1, <2>2, <2>3 DEF ContextTypeOK
  <1>4. UnderWay = {} /\ Briefed = {}
    BY <1>2 DEF UnderWay, Briefed, At
  <1>5. TurnsFit
    BY <1>1, <1>4 DEF TurnsFit
  <1>6. TrailFits
    BY <1>1, <1>2, <1>4 DEF TrailFits, At
  <1>7. GrantsFit
    BY <1>4 DEF GrantsFit
  <1>8. EvidenceIsSound /\ WritesAreTold
    BY <1>4 DEF EvidenceIsSound, WritesAreTold
  <1> QED
    BY <1>3, <1>5, <1>6, <1>7, <1>8 DEF ContextIInv

\* The strengthening is inductive.
THEOREM ContextInductive ==
  ContextSpec => []ContextIInv
  <1>1. ContextInit => ContextIInv
    BY ContextStarts
  <1>2. ContextIInv /\ [ContextNext]_contextVars => ContextIInv'
    <2> SUFFICES ASSUME ContextIInv, [ContextNext]_contextVars PROVE ContextIInv'
      OBVIOUS
    <2>1. ContextTypeOK'
      BY ContextTypes
    <2>2. TurnsFit' /\ TrailFits' /\ GrantsFit'
      BY TurnsKept, TrailKept, GrantsKept
    <2>3. EvidenceIsSound' /\ WritesAreTold'
      BY ToldKept
    <2> QED
      BY <2>1, <2>2, <2>3 DEF ContextIInv
  <1> QED
    BY <1>1, <1>2, PTL DEF ContextSpec

\* A record in evidence is a newest of its call, and the trail is in order but for turns
\* side by side.
LEMMA NewestFollows ==
  ContextIInv => NewestUnlessBeside
  <1> SUFFICES ASSUME ContextIInv, NEW r \in Briefed, NEW e \in Range(op[r].evidence),
                      NEW i \in NewerThan(r, e)
               PROVE  SideBySide(audit[i].turn, audit[e].turn)
    BY DEF NewestUnlessBeside
  <1>0. ContextTypeOK /\ TrailFits /\ r \in TurnRunners /\ op[r].read <= Len(audit)
    BY DEF ContextIInv, Briefed, TrailFits
  <1>1. e \in NewestOfCall(r)
    BY DEF ContextIInv, EvidenceIsSound
  <1>2. /\ i \in Visible(r) /\ Carried(audit[i]) /\ Key(audit[i]) = Key(audit[e])
        /\ audit[i].seen > audit[e].seen
    BY DEF NewerThan
  <1>3. e \in Visible(r) /\ ~(i > e)
    BY <1>1, <1>2 DEF NewestOfCall
  <1>4. Visible(r) \subseteq DOMAIN audit
    <2>1. DOMAIN audit = 1..Len(audit) /\ Len(audit) \in Nat /\ op[r].read \in Nat
      BY <1>0, TurnTypes, SeenFits
    <2> QED
      BY <1>0, <2>1 DEF Visible
  <1>5. i \in DOMAIN audit /\ e \in DOMAIN audit
    BY <1>2, <1>3, <1>4
  <1>6. i \in Nat /\ e \in Nat /\ audit[i].seen \in Nat /\ audit[e].seen \in Nat
    BY <1>0, <1>5, RecordTypes
  <1>7. i # e
    BY <1>2, <1>6
  <1>8. i < e
    BY <1>3, <1>6, <1>7
  <1>9. InOrder(audit[i], audit[e])
    BY <1>0, <1>5, <1>8 DEF TrailFits
  <1>10. ~(audit[i].seen <= audit[e].seen)
    BY <1>2, <1>6
  <1> QED
    BY <1>9, <1>10 DEF InOrder

\* What earlier turns did and saw, as it is told to the next: the evidence is newest
\* records within the budget and leaves out none that fits, no reading is replayed that
\* another was made after but by a turn beside it, and writes are told in full.
THEOREM RecordsHold ==
  ContextSpec => []RecordsAreTold
  <1>1. ContextIInv => RecordsAreTold
    BY NewestFollows DEF RecordsAreTold, ContextIInv
  <1> QED
    BY <1>1, ContextInductive, PTL

\* What a turn reads or runs was granted at some moment since it began, and is in its
\* selection if it made one.
THEOREM ReadsHold ==
  ContextSpec => []ReadsAreAuthorised
  <1>1. ContextIInv => ReadsAreAuthorised
    <2> SUFFICES ASSUME ContextIInv, NEW r \in Looping
                 PROVE  /\ \A s \in Subjects :
                             op[r].hydrated[s] \notin {None, "unauthorized"} => Permitted(r, Capability)
                        /\ \A i \in DOMAIN op[r].calls :
                             op[r].calls[i].status # "not_executed" => Permitted(r, op[r].calls[i].tool)
      BY DEF ReadsAreAuthorised
    <2>1. r \in TurnRunners /\ op[r].at = "loop" /\ UsesFit(r)
      BY GrantsUnfold DEF ContextIInv, Looping, At
    <2>2. \A t \in op[r].tools : Permitted(r, t)
      BY <2>1 DEF UsesFit, Permitted
    <2> QED
      BY <2>1, <2>2 DEF UsesFit
  <1> QED
    BY <1>1, ContextInductive, PTL

\* When the context is sent no earlier reading of what it is about is in it, and what is
\* read anew has its state or the reason why not, and no frozen description.
THEOREM PromptHolds ==
  ContextSpec => PromptIsFresh
  <1>1. ContextIInv /\ [ContextNext]_contextVars =>
          [\A r \in Briefed : op'[r].at = "loop" =>
             \A s \in About(r) :
               /\ \A i \in Range(op[r].evidence) : audit[i].about # s
               /\ s \in PerTurn =>
                    op'[r].hydrated[s] # None /\ s \notin Described(r, op'[r].hydrated)]_contextVars
    <2> SUFFICES ASSUME ContextIInv, ContextNext, NEW r \in Briefed, op'[r].at = "loop", NEW s \in About(r)
                 PROVE  /\ \A i \in Range(op[r].evidence) : audit[i].about # s
                        /\ s \in PerTurn =>
                             op'[r].hydrated[s] # None /\ s \notin Described(r, op'[r].hydrated)
      OBVIOUS
    <2>0. ContextTypeOK /\ r \in TurnRunners /\ op[r].at = "hydrate"
      BY DEF ContextIInv, Briefed, At
    <2>1. \A i \in Range(op[r].evidence) : audit[i].about # s
      BY DEF ContextIInv, EvidenceIsSound, NewestOfCall
    <2>2. HydrateSubjects(r)
      <3>1. CASE Change
        BY <2>0, <3>1, ChangedIs
      <3>2. CASE EditGrants
        BY <2>0, <3>2, GrantedIs
      <3>3. ASSUME NEW q \in TurnRunners, BeginTurn(q) PROVE FALSE
        BY <2>0, <3>3, BegunIs
      <3>4. ASSUME NEW q \in TurnRunners, EvidenceForTurn(q) \/ EvidenceUnavailable(q) PROVE FALSE
        BY <2>0, <3>4, BriefedIs, UnbriefedIs
      <3>5. ASSUME NEW q \in TurnRunners, HydrateSubjects(q) PROVE q = r
        BY <2>0, <3>5, HydratedIs
      <3>6. ASSUME NEW q \in TurnRunners, ExecuteCall(q) PROVE FALSE
        BY <2>0, <3>6, CalledIs
      <3>7. ASSUME NEW q \in TurnRunners, StoreAnswer(q) PROVE FALSE
        BY <2>0, <3>7, StoredIs
      <3>8. ASSUME NEW q \in TurnRunners, PersistToolCalls(q) \/ Fail(q) PROVE FALSE
        BY <2>0, <3>8, EndedIs
      <3> QED
        BY <3>1, <3>2, <3>3, <3>4, <3>5, <3>6, <3>7, <3>8, <2>0 DEF ContextNext
    <2>3. s \in TurnReferences(r) /\ s \in Subjects
      BY DEF About, TurnReferences
    <2>4. ASSUME s \in PerTurn PROVE op'[r].hydrated[s] # None
      <3>1. op'[r].hydrated[s] \in HydrationAnswers(r, s)
        BY <2>0, <2>2, <2>3, <2>4, HydratedIs
      <3> QED
        BY <3>1 DEF HydrationAnswers, None
    <2> QED
      BY <2>1, <2>3, <2>4 DEF Described, StateShown
  <1> QED
    BY <1>1, ContextInductive, PTL DEF ContextSpec, PromptIsFresh
================================================================================
