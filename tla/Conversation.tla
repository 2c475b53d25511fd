------------------------------ MODULE Conversation ------------------------------
(***************************************************************************)
(* One conversation and the operations that share it: SendMessage and      *)
(* ResumeTurn (internal/chat/app, send.go and resume.go) and TruncateFrom  *)
(* (conversations.go), each reading the stored transcript in steps and     *)
(* none holding a lock on it.  The turn in the middle is ChatTurn's; here  *)
(* it is the writes it executed and the answer it stored.                  *)
(*                                                                         *)
(* What is at stake is safe resume: "CONTINUE THE PENDING WORK; NEVER      *)
(* REPEAT AN EXECUTED WRITE".  The provider is taken to be obedient: it    *)
(* does the work the question asks for, and none that the records it was   *)
(* shown list as executed.  What it is shown is best effort: the receipt   *)
(* of the turn it continues is read or the turn fails, but the record of   *)
(* the others may be unread, or too long to be shown whole (evidence.go,   *)
(* execution.go).                                                          *)
(***************************************************************************)
EXTENDS Integers, FiniteSetsExt

CONSTANTS
  Items,          \* the pieces of work a question asks for, a write each
  Runners,        \* operations that may be under way: HTTP requests, the bot
  HistoryLimit,   \* agent.HistoryLimit: messages in a window
  Reasons,        \* reasons turns end for: a subset of Finish
  RecordBudget,   \* ExecutionBudgetChars, past its header: lines shown
  MaxSeq,         \* bound: messages ever stored
  MaxTurns,       \* bound: turns ever begun
  MaxFailures     \* bound: writes that ever fail

\* "stop" stands for every reason that ends a turn for good.
Finish == {"stop", "deadline", "tool_round_limit", "aborted"}

ASSUME ConversationAssumption ==
  /\ Reasons \subseteq Finish
  /\ HistoryLimit \in Nat \ {0}
  /\ {RecordBudget, MaxSeq, MaxTurns, MaxFailures} \subseteq Nat

VARIABLES
  messages,   \* the rows of chat.messages, each with its audit rows
  next,       \* the next seq
  at,         \* runner -> what it is doing
  question,   \* runner -> the user message it answers
  target,     \* runner -> the turn it continues, 0 for a new question
  told,       \* runner -> writes its provider was shown as executed
  did,        \* runner -> writes it executed and reported so
  failed,     \* runner -> writes it reported otherwise
  missed,     \* runner -> turns whose records it was not shown (history)
  seen,       \* runner -> turns that had ended when it began (history)
  turns,      \* turns begun so far (history)
  turn,       \* runner -> which of them it is (history)
  ended,      \* turns over (history)
  executed,   \* writes applied, by turn and question (history)
  failures,   \* writes that failed so far (history)
  resumes,    \* resumes admitted: target and turn (history)
  overlapped, \* an operation began while another was under way (history)
  lost        \* a record was not stored (history)

runVars == <<at, question, target, told, did, failed, missed, seen, turn>>
history == <<turns, ended, executed, failures, resumes, overlapped, lost>>
vars == <<messages, next, runVars, history>>

Message == [seq : 1..MaxSeq, role : {"user", "assistant"},
            finish : Finish \cup {"none"},
            executed : SUBSET Items,   \* the EXECUTED lines of its receipt
            failed : SUBSET Items,     \* the FAILED and NOT_EXECUTED ones
            asked : 0..MaxSeq,         \* the question it answered (history)
            turn : 0..MaxTurns]        \* the turn that wrote it (history)

Init ==
  /\ messages = {} /\ next = 1
  /\ at = [r \in Runners |-> "idle"]
  /\ question = [r \in Runners |-> 0] /\ target = [r \in Runners |-> 0]
  /\ told = [r \in Runners |-> {}] /\ did = [r \in Runners |-> {}]
  /\ failed = [r \in Runners |-> {}] /\ missed = [r \in Runners |-> {}]
  /\ seen = [r \in Runners |-> {}] /\ turn = [r \in Runners |-> 0]
  /\ turns = 0 /\ ended = {} /\ executed = {} /\ failures = 0 /\ resumes = {}
  /\ overlapped = FALSE /\ lost = FALSE

--------------------------------------------------------------------------------
(* The reads.                                                              *)

\* ListRecent: the last HistoryLimit rows in seq order.
Window == {m \in messages : Cardinality({n \in messages : n.seq > m.seq}) < HistoryLimit}

Users(ms) == {m \in ms : m.role = "user"}
IsLast(m, ms) == m \in ms /\ \A n \in ms : n.seq <= m.seq

\* The question is the last user row of that window, whoever it was for; 0 if
\* the window has none.
Newest(seqs) == CHOOSE q \in seqs \cup {0} : \A p \in seqs : p <= q
Oldest(seqs) == CHOOSE q \in seqs \cup {0} : seqs = {} \/ (q > 0 /\ \A p \in seqs : q <= p)
FirstQuestion == Oldest({m.seq : m \in Users(Window)})         \* faulty
LastQuestion == Newest({m.seq : m \in Users(Window)})

ResumableFinish(reason) == reason \in {"tool_round_limit", "deadline"}

\* resumeTarget: the window's last row must be the named answer, have stopped
\* resumably, and have a question before it.
ResumableNotLast(want) ==                                      \* faulty
  \E m \in Window : /\ m.seq = want /\ m.role = "assistant"
                    /\ ResumableFinish(m.finish) /\ LastQuestion # 0
ResumableUnasked(want) ==                                      \* faulty
  \E m \in messages : /\ m.seq = want /\ IsLast(m, Window)
                      /\ m.role = "assistant" /\ ResumableFinish(m.finish)
ResumeTarget(want) ==
  \E m \in messages : /\ m.seq = want /\ IsLast(m, Window)
                      /\ m.role = "assistant" /\ ResumableFinish(m.finish)
                      /\ LastQuestion # 0

--------------------------------------------------------------------------------
(* An operation begins.                                                    *)

Alone == \A s \in Runners : at[s] = "idle"
Beside == overlapped' = (overlapped \/ ~Alone)

MayBegin(r) ==
  /\ at[r] = "idle"
  /\ turns < MaxTurns

Begin(r, doing, q, t) ==
  /\ at' = [at EXCEPT ![r] = doing]
  /\ question' = [question EXCEPT ![r] = q]
  /\ target' = [target EXCEPT ![r] = t]
  /\ turns' = turns + 1
  /\ turn' = [turn EXCEPT ![r] = turns + 1]
  /\ seen' = [seen EXCEPT ![r] = ended]
  /\ Beside

Stored(role, finish, writes, fails, q, t) ==
  /\ next <= MaxSeq
  /\ messages' = messages \cup {[seq |-> next, role |-> role, finish |-> finish,
                                 executed |-> writes, failed |-> fails,
                                 asked |-> q, turn |-> t]}
  /\ next' = next + 1

\* SendMessage: the question is stored before anything else.
Send(r) ==
  /\ MayBegin(r)
  /\ Stored("user", "none", {}, {}, next, turns + 1)
  /\ Begin(r, "context", next, 0)
  /\ UNCHANGED <<told, did, failed, missed, ended, executed, failures, resumes, lost>>

\* ResumeTurn reads the window and decides; a refusal changes nothing.
ResumeTurn(r) ==
  /\ MayBegin(r)
  /\ \E want \in 1..MaxSeq :
       /\ ResumeTarget(want)
       /\ Begin(r, "receipts", LastQuestion, want)
       /\ resumes' = resumes \cup {[target |-> want, turn |-> turns + 1]}
  /\ UNCHANGED <<messages, next, told, did, failed, missed, ended, executed, failures, lost>>

\* TruncateFrom: only from a user message, and everything after it.
TruncateExactly(s) == messages' = {m \in messages : m.seq # s}  \* faulty
DeleteFromSeq(s) == messages' = {m \in messages : m.seq < s}
TruncateFrom ==
  /\ \E m \in Users(messages) : DeleteFromSeq(m.seq)
  /\ Beside
  /\ UNCHANGED <<next, runVars, turns, ended, executed, failures, resumes, lost>>

--------------------------------------------------------------------------------
(* What the provider is told, in two reads.                                *)

\* WriteReceiptsFor the target; its rows may be gone by now.
ForgetReceipt(r) == {}                                         \* faulty
Receipt(r) == UNION {m.executed : m \in {n \in messages : n.seq = target[r]}}
ReadReceipts(r) ==
  /\ at[r] = "receipts"
  /\ told' = [told EXCEPT ![r] = Receipt(r)]
  /\ at' = [at EXCEPT ![r] = "context"]
  /\ UNCHANGED <<messages, next, question, target, did, failed, missed, seen, turn, history>>

\* answerTurn reads the window again, drops the interrupted turn from it, and
\* reads the records of the others; a turn without a line has none.
Records(r) == {m \in Window : m.seq # target[r] /\ m.executed \cup m.failed # {}}

\* SelectExecutionEvidence: newest first while the budget lasts, and what does not
\* fit does not hide the older ones behind it.
RecordCost(m) == 1 + Cardinality(m.executed) + Cardinality(m.failed)
Shown(records) ==
  LET taken[s \in 0..MaxSeq] ==    \* by the records after seq s
        IF s = MaxSeq THEN 0
        ELSE taken[s + 1] +
             MapThenSumSet(RecordCost, {m \in records : /\ m.seq = s + 1
                                                  /\ taken[s + 1] + RecordCost(m) <= RecordBudget})
  IN  {m \in records : taken[m.seq] + RecordCost(m) <= RecordBudget}

\* Those after the question are about it.
NoEvidence(r) == {}                                            \* faulty
Evidence(r) == UNION {m.executed : m \in {n \in Shown(Records(r)) : n.seq > question[r]}}

Tell(r, writes, left) ==
  /\ at[r] = "context"
  /\ told' = [told EXCEPT ![r] = @ \cup writes]
  /\ missed' = [missed EXCEPT ![r] = {m.turn : m \in left}]
  /\ at' = [at EXCEPT ![r] = "working"]
  /\ UNCHANGED <<messages, next, question, target, did, failed, seen, turn, history>>

BuildContext(r) == Tell(r, Evidence(r), Records(r) \ Shown(Records(r)))

\* evidenceForTurn: "a failed read costs continuity, not the turn".
RecordsUnread(r) == Tell(r, {}, Records(r))

--------------------------------------------------------------------------------
(* The turn runs and ends.                                                 *)

Execution(r, i, reported) ==
  [turn |-> turn[r], after |-> seen[r], missed |-> missed[r], target |-> target[r],
   question |-> question[r], item |-> i, reported |-> reported]

ExecuteWrite(r) ==
  /\ at[r] = "working"
  /\ \E i \in Items \ (told[r] \cup did[r]) :
       /\ did' = [did EXCEPT ![r] = @ \cup {i}]
       /\ executed' = executed \cup {Execution(r, i, TRUE)}
  /\ UNCHANGED <<messages, next, at, question, target, told, failed, missed, seen, turn,
                 turns, ended, failures, resumes, overlapped, lost>>

\* A write that is refused, or fails; its module may have applied it by then, and
\* the receipt says "failed" all the same.
WriteFails(r) ==
  /\ at[r] = "working"
  /\ failures < MaxFailures
  /\ \E i \in Items \ (told[r] \cup did[r]) :
       /\ failed' = [failed EXCEPT ![r] = @ \cup {i}]
       /\ \E applied \in {{}, {Execution(r, i, FALSE)}} : executed' = executed \cup applied
  /\ failures' = failures + 1
  /\ UNCHANGED <<messages, next, at, question, target, told, did, missed, seen, turn,
                 turns, ended, resumes, overlapped, lost>>

\* The request returns, and its locals with it.
End(r) ==
  /\ at' = [at EXCEPT ![r] = "idle"]
  /\ question' = [question EXCEPT ![r] = 0]
  /\ target' = [target EXCEPT ![r] = 0]
  /\ told' = [told EXCEPT ![r] = {}]
  /\ did' = [did EXCEPT ![r] = {}]
  /\ failed' = [failed EXCEPT ![r] = {}]
  /\ missed' = [missed EXCEPT ![r] = {}]
  /\ seen' = [seen EXCEPT ![r] = {}]
  /\ turn' = [turn EXCEPT ![r] = 0]
  /\ ended' = ended \cup {turn[r]}

\* persistAssistant, with the audit rows; the latter may be lost alone.
PersistAssistant(r) ==
  /\ at[r] = "working"
  /\ \E finish \in Reasons :
       \/ /\ Stored("assistant", finish, did[r], failed[r], question[r], turn[r])
          /\ lost' = lost
       \/ /\ Stored("assistant", finish, {}, {}, question[r], turn[r])
          /\ lost' = (lost \/ did[r] # {})
  /\ End(r)
  /\ UNCHANGED <<turns, executed, failures, resumes, overlapped>>

\* The answer is not stored, another read fails on the way (the window, the
\* receipts, the grants), or the turn gives up.
TurnLost(r) ==
  /\ at[r] # "idle"
  /\ End(r)
  /\ lost' = TRUE
  /\ UNCHANGED <<messages, next, turns, executed, failures, resumes, overlapped>>

Next ==
  \/ TruncateFrom
  \/ \E r \in Runners : \/ Send(r) \/ ResumeTurn(r) \/ ReadReceipts(r) \/ BuildContext(r)
                        \/ RecordsUnread(r) \/ ExecuteWrite(r) \/ WriteFails(r)
                        \/ PersistAssistant(r) \/ TurnLost(r)

Spec == Init /\ [][Next]_vars

--------------------------------------------------------------------------------

TypeOK ==
  /\ messages \subseteq Message
  /\ next \in 1..(MaxSeq + 1)
  /\ at \in [Runners -> {"idle", "receipts", "context", "working"}]
  /\ question \in [Runners -> 0..MaxSeq]
  /\ \A r \in Runners : at[r] # "idle" => question[r] # 0
  /\ target \in [Runners -> 0..MaxSeq]
  /\ {told, did, failed} \subseteq [Runners -> SUBSET Items]
  /\ missed \in [Runners -> SUBSET (0..MaxTurns)]
  /\ failures \in 0..MaxFailures /\ turns \in 0..MaxTurns /\ turn \in [Runners -> 0..turns]
  /\ ended \subseteq 1..turns /\ seen \in [Runners -> SUBSET (1..turns)]
  /\ executed \subseteq [turn : 1..turns, after : SUBSET (1..turns),
                         missed : SUBSET (0..MaxTurns), target : 0..MaxSeq,
                         question : 0..MaxSeq, item : Items, reported : BOOLEAN]
  /\ resumes \subseteq [target : 1..MaxSeq, turn : 1..turns]
  /\ {overlapped, lost} \subseteq BOOLEAN

SameWork(v, w) == v.question = w.question /\ v.item = w.item
Knows(w, v) == v.turn \in w.after \ w.missed

\* "NEVER REPEAT AN EXECUTED WRITE" (resume.go): over a question and every attempt
\* at it, each piece of work is reported executed by one turn at most, while records
\* are stored and each turn is shown all of them.
NeverRepeated ==
  ~lost => \A v, w \in executed :
    SameWork(v, w) /\ v.reported /\ w.reported /\ v.turn # w.turn =>
      v.turn \in w.missed \/ w.turn \in v.missed

\* And so it would be of turns that follow one another, whatever they are shown; but
\* only the turn it continues is shown to a resume in full.
NeverRepeatedOneByOne ==
  ~overlapped /\ ~lost => \A v, w \in executed :
    SameWork(v, w) /\ v.reported => v.turn \notin w.after

\* It is as long as no two operations overlap, by every turn that was shown the record,
\* however long the window.
NeverRepeatedInTurn ==
  ~overlapped /\ ~lost => \A v, w \in executed :
    SameWork(v, w) /\ v.reported => ~Knows(w, v)

\* A turn is continued at most once: a second press of the button is refused,
\* "the conversation has moved on" (telegram turn.go, resumeTurn).  It takes the
\* answer of the first to have been stored, and no second request meanwhile.
ResumedOnce ==
  ~overlapped /\ ~lost => \A x, y \in resumes : x.target = y.target => x = y

\* A resume is "a SECOND ATTEMPT AT THE SAME QUESTION" (resume.go): the one the
\* interrupted turn was answering, unless turns overlapped.
ResumeKeepsQuestion ==
  ~overlapped =>
    \A r \in Runners : \A m \in messages :
      at[r] # "idle" /\ m.seq = target[r] => question[r] = m.asked

\* A resume continues its turn, once.
ResumeIsSound == ResumedOnce /\ ResumeKeepsQuestion

\* No answer outlives its question: truncating takes both, unless it came in the
\* middle of a turn.
NoOrphanAnswer ==
  ~overlapped =>
    \A m \in messages : m.role = "assistant" =>
      \E q \in Users(messages) : q.seq = m.asked /\ q.seq < m.seq

\* The transcript is well formed, and outside an overlap its answers have their
\* questions.
TranscriptIsSound == TypeOK /\ NoOrphanAnswer

\* Even with requests running side by side and records lost, a write is not
\* repeated by a turn that began after the first one ended and left a record of
\* it, as long as that record is among the last HistoryLimit stored and was not left
\* out of what the turn was shown.  Past that it may be: a resume asks for the window
\* twice, and others may fill it in between.
RecordedNeverRepeated ==
  \A v, w \in executed :
    /\ SameWork(v, w)
    /\ \E m \in messages : /\ m.turn = v.turn /\ v.item \in m.executed
                           /\ next <= m.seq + HistoryLimit
    => ~Knows(w, v)

\* Whatever overlaps, is lost, unread or too long, a resume does not repeat a write
\* the receipt of the turn it continues lists: that one it reads, or fails.
ReceiptNeverRepeated ==
  \A w \in executed, m \in messages : m.seq = w.target => w.item \notin m.executed

\* A write is not repeated by a turn that could know of it.
WritesAreNotRepeated == NeverRepeatedInTurn /\ RecordedNeverRepeated /\ ReceiptNeverRepeated

\* The inductive strengthening: what the rows and the operations under way have in
\* common, whatever runs side by side ...
Active(r) == at[r] # "idle"
Answers == {m \in messages : m.role = "assistant"}

RowsFit ==
  /\ IsFiniteSet(messages)
  /\ \A m \in messages : m.seq < next
  /\ \A m, n \in messages : m.seq = n.seq => m = n
  /\ \A m \in Users(messages) : m.executed = {} /\ m.failed = {}
  /\ \A m \in Answers : m.turn \in ended /\ m.asked < m.seq

RunsFit ==
  /\ \A r \in Runners : /\ Active(r) => turn[r] > 0 /\ turn[r] \notin ended
                        /\ question[r] < next /\ target[r] < next
                        /\ seen[r] \subseteq ended
  /\ \A r, s \in Runners : Active(r) /\ Active(s) /\ turn[r] = turn[s] => r = s
  /\ \A x \in resumes : x.target < next

ExecutionsFit ==
  \A v \in executed :
    /\ v.after \subseteq ended /\ v.question < next /\ v.target < next
    /\ v.turn \in ended \/ \E r \in Runners : Active(r) /\ turn[r] = v.turn
    /\ \A r \in Runners : Active(r) /\ turn[r] = v.turn =>
         (v.reported => v.item \in did[r]) /\ v.question = question[r]
    /\ \A m \in Answers : m.turn = v.turn => m.asked = v.question

\* ... and what a provider was told of the records it needs ...
Told(r) ==
  /\ at[r] \in {"context", "working"} =>
       \A m \in messages : m.seq = target[r] => m.executed \subseteq told[r]
  /\ at[r] = "working" =>
       \A m \in Answers : /\ m.turn \in seen[r] \ missed[r] /\ m.asked = question[r]
                          /\ next <= m.seq + HistoryLimit
                          => m.executed \subseteq told[r]

\* ... and, as long as operations follow one another, that the one under way is about
\* the last question, and told of every answer to it it did not miss; that a write is on record until
\* its question goes; and that a resume leaves an answer to the same question.
AboutTheLast(r) ==
  /\ \E q \in Users(messages) : q.seq = question[r]
  /\ \A u \in Users(messages) : u.seq <= question[r]
  /\ target[r] # 0 => /\ \E m \in Answers : m.seq = target[r] /\ m.asked = question[r]
                      /\ \A n \in messages : n.seq <= target[r]
  /\ at[r] \in {"receipts", "context"} => \E q \in Users(Window) : q.seq = question[r]
  /\ at[r] = "working" => \A m \in Answers : m.asked = question[r] /\ m.turn \notin missed[r] =>
                                               m.executed \subseteq told[r]

OnRecord(v) ==
  \/ \E r \in Runners : Active(r) /\ turn[r] = v.turn
  \/ \A u \in Users(messages) : u.seq # v.question
  \/ \E m \in Answers : m.turn = v.turn /\ v.item \in m.executed

Continued(x) ==
  \/ \E r \in Runners : Active(r) /\ turn[r] = x.turn /\ target[r] = x.target
  \/ \A m \in messages : m.seq # x.target
  \/ \E n \in Answers : n.seq > x.target /\ \A u \in Users(messages) : u.seq > x.target => u.seq > n.seq

OneByOne ==
  /\ \A r, s \in Runners : Active(r) /\ Active(s) => r = s
  /\ \A r \in Runners : Active(r) => AboutTheLast(r)
  /\ \A m \in Answers : /\ \E q \in Users(messages) : q.seq = m.asked
                        /\ \A u \in Users(messages) : u.seq < m.seq => u.seq <= m.asked
  /\ ~lost => (\A v \in executed : v.reported => OnRecord(v)) /\ (\A x \in resumes : Continued(x))

IInv ==
  /\ TypeOK /\ RowsFit /\ RunsFit /\ ExecutionsFit
  /\ \A r \in Runners : Told(r)
  /\ ~overlapped => OneByOne
  /\ WritesAreNotRepeated /\ ResumedOnce
================================================================================
