----------------------------- MODULE TelegramProofs -----------------------------
(***************************************************************************)
(* Proofs about what reaches a turn from Telegram.  Of TelegramGateway,    *)
(* for any chats, any number of updates and any number of deaths of the    *)
(* process.  Of TelegramPairing, for any chats, workspaces, agents and     *)
(* operators: operators, the bot and the web client hold nothing between   *)
(* two statements, so PairingInvariant says what each still knows of what  *)
(* it read - that a code in hand is spent and no other's, that an update's *)
(* agent is its workspace's, and that the thread it opened is nobody       *)
(* else's yet.                                                             *)
(***************************************************************************)
EXTENDS TelegramGateway, TelegramPairing, SequenceTheorems, TLAPS

USE GatewayAssumption DEF GatewayAssumption

\* The ids of a batch (poller.go): a batch that waits is not empty, and its
\* first and last ids bound the others.
LEMMA BatchBounds ==
  ASSUME TypeOK, Interval, batch # <<>>
  PROVE  /\ Len(batch) \in Nat \ {0} /\ DOMAIN batch = 1..Len(batch)
         /\ \A k \in 1..Len(batch) : batch[k] \in 1..Len(updates)
         /\ \A k \in 1..Len(batch) : batch[1] <= batch[k] /\ batch[k] <= batch[Len(batch)]
         /\ batch[Len(batch)] = batch[1] + Len(batch) - 1
         /\ Len(updates) \in Nat /\ Len(updates) <= MaxUpdates
  <1>1. batch \in Seq(1..Len(updates)) /\ Len(updates) \in Nat /\ Len(updates) <= MaxUpdates
    BY DEF TypeOK
  <1>2. Len(batch) \in Nat \ {0} /\ DOMAIN batch = 1..Len(batch)
    BY <1>1
  <1>3. \A k \in 1..Len(batch) : batch[k] \in 1..Len(updates)
    BY <1>1, <1>2
  <1>4. \A k \in 1..Len(batch) : batch[k] = batch[1] + k - 1
    BY <1>2 DEF Interval
  <1> QED
    BY <1>1, <1>2, <1>3, <1>4

\* highestUpdateID: the highest id of a batch is its last (poller.go).
LEMMA HighestIsLast ==
  ASSUME TypeOK, Interval, batch # <<>>
  PROVE  HighestOf(batch) = batch[Len(batch)]
  <1> DEFINE S == {batch[k] : k \in DOMAIN batch}
             last == batch[Len(batch)]
  <1>1. last \in S /\ \A k \in DOMAIN batch : batch[k] <= last
    BY BatchBounds
  <1>2. \A i \in S : (\A k \in DOMAIN batch : batch[k] <= i) => i = last
    BY BatchBounds
  <1> QED
    BY <1>1, <1>2 DEF HighestOf

\* What is left of a batch when its first update has been handled (dispatch).
LEMMA TailOfBatch ==
  ASSUME TypeOK, Interval, batch # <<>>
  PROVE  /\ Tail(batch) \in Seq(1..Len(updates))
         /\ Len(Tail(batch)) = Len(batch) - 1
         /\ Tail(batch) = <<>> <=> Len(batch) = 1
         /\ \A k \in DOMAIN Tail(batch) : Tail(batch)[k] = batch[k + 1]
         /\ Len(batch) # 1 => Tail(batch)[1] = batch[1] + 1
         /\ Current = batch[1] /\ Current \in Ids
  <1>1. batch \in Seq(1..Len(updates)) /\ Len(batch) \in Nat \ {0}
    BY BatchBounds DEF TypeOK
  <1>2. /\ Head(batch) = batch[1] /\ Tail(batch) \in Seq(1..Len(updates))
        /\ Len(Tail(batch)) = Len(batch) - 1
        /\ \A k \in 1..Len(Tail(batch)) : Tail(batch)[k] = batch[k + 1]
    BY <1>1, HeadTailProperties
  <1>3. DOMAIN Tail(batch) = 1..Len(Tail(batch))
    BY <1>2
  <1>4. Tail(batch) = <<>> <=> Len(batch) = 1
    <2>1. Tail(batch) = <<>> <=> Len(Tail(batch)) = 0
      BY <1>2, EmptySeq
    <2> QED
      BY <1>1, <1>2, <2>1
  <1>5. batch[1] \in Ids
    BY BatchBounds DEF Ids
  <1>6. ASSUME Len(batch) # 1 PROVE Tail(batch)[1] = batch[1] + 1
    <2>1. 1 \in 1..Len(Tail(batch)) /\ 2 \in 1..Len(batch) /\ 2 \in DOMAIN batch
      BY <1>1, <1>2, <1>6, BatchBounds
    <2>2. Tail(batch)[1] = batch[2]
      <3>1. 1 + 1 = 2
        OBVIOUS
      <3> QED
        BY <1>2, <2>1, <3>1
    <2>3. batch[2] = batch[1] + 2 - 1
      BY <2>1 DEF Interval
    <2>4. batch[1] \in Nat
      BY <1>5 DEF Ids
    <2>5. batch[1] + 2 - 1 = batch[1] + 1
      BY <2>4
    <2> QED
      BY <2>2, <2>3, <2>5
  <1> QED
    BY <1>2, <1>3, <1>4, <1>5, <1>6 DEF Current

--------------------------------------------------------------------------------

\* A gateway that has never polled satisfies the invariant.
LEMMA InitIInv == Init => IInv
  <1> SUFFICES ASSUME Init PROVE IInv
    OBVIOUS
  <1>1. TypeOK
    BY DEF Init, TypeOK, Fates
  <1>2. AtMostOnce /\ NothingSkipped /\ SlotIsFree
    BY DEF Init, AtMostOnce, NothingSkipped, SlotIsFree
  <1>3. Offsets /\ Interval /\ Begun /\ Slot
    BY DEF Init, Offsets, Interval, Begun, Slot
  <1> QED
    BY <1>1, <1>2, <1>3 DEF IInv

\* Nothing a user sends disturbs what has been received (Post).
LEMMA PostStep == ASSUME IInv, Post PROVE IInv'
  <1> USE DEF IInv, pollVars
  <1>1. PICK c \in Chats, k \in Kinds :
          updates' = Append(updates, [chat |-> c, kind |-> k, during |-> c \in busy])
    BY DEF Post
  <1>2. /\ updates \in Seq([chat : Chats, kind : Kinds, during : BOOLEAN])
        /\ [chat |-> c, kind |-> k, during |-> c \in busy]
             \in [chat : Chats, kind : Kinds, during : BOOLEAN]
    BY DEF TypeOK
  <1>3. /\ updates' \in Seq([chat : Chats, kind : Kinds, during : BOOLEAN])
        /\ Len(updates) \in Nat /\ Len(updates') = Len(updates) + 1
        /\ \A i \in 1..Len(updates) : updates'[i] = updates[i]
    BY <1>1, <1>2
  <1>4. TypeOK'
    <2>1. batch' \in Seq(1..Len(updates'))
      <3>1. 1..Len(updates) \subseteq 1..Len(updates')
        BY <1>3
      <3> QED
        BY <3>1 DEF Post, TypeOK
    <2> QED
      BY <1>3, <2>1 DEF Post, TypeOK
  <1>5. NothingSkipped'
    <2> SUFFICES ASSUME NEW i \in 1..Len(updates'), i < offset'
                 PROVE  fate'[i] # "waiting" \/ i \in Waiting'
      BY DEF NothingSkipped
    <2>1. i \in 1..Len(updates)
      BY <1>3 DEF Post, Offsets, TypeOK
    <2> QED
      BY <2>1 DEF Post, NothingSkipped, Waiting
  <1>6. Offsets'
    BY <1>3 DEF Post, Offsets, TypeOK
  <1>7. Slot'
    <2>1. CASE pc = "turn"
      <3>1. batch # <<>> /\ Current \in 1..Len(updates)
        BY <2>1, BatchBounds, TailOfBatch DEF TypeOK
      <3> QED
        BY <2>1, <3>1, <1>3 DEF Post, Slot, Current
    <2> QED
      BY <2>1 DEF Post, Slot
  <1> QED
    BY <1>4, <1>5, <1>6, <1>7
       DEF Post, AtMostOnce, SlotIsFree, Interval, Begun

\* getUpdates returns an interval that starts at the offset it was given.
LEMMA PollStep == ASSUME IInv, Poll PROVE IInv'
  <1> USE DEF IInv
  <1> DEFINE low == AtLeast(1, confirmed')
  <1>1. confirmed' = offset /\ low \in Nat \ {0} /\ low = AtLeast(1, offset)
    BY DEF Poll, Confirm, AtLeast, Offsets, TypeOK
  <1>2. PICK hi \in low..Len(updates) : batch' = [k \in 1..(hi + 1 - low) |-> low + k - 1]
    BY DEF Poll
  <1>3. Len(updates) \in Nat /\ hi \in Nat /\ hi + 1 - low \in Nat \ {0}
    BY <1>1, <1>2 DEF TypeOK
  <1>4. /\ batch' \in Seq(1..Len(updates)) /\ batch' # <<>>
        /\ DOMAIN batch' = 1..(hi + 1 - low) /\ batch'[1] = low
    <2>1. \A k \in 1..(hi + 1 - low) : low + k - 1 \in 1..Len(updates)
      BY <1>1, <1>2, <1>3
    <2>2. batch' \in [1..(hi + 1 - low) -> 1..Len(updates)]
      BY <1>2, <2>1
    <2>3. batch' \in Seq(1..Len(updates)) /\ Len(batch') = hi + 1 - low
      BY <1>3, <2>2
    <2>4. batch' # <<>>
      BY <1>3, <2>3, EmptySeq
    <2> QED
      BY <1>1, <1>2, <1>3, <2>3, <2>4
  <1>5. TypeOK'
    BY <1>1, <1>4 DEF Poll, TypeOK
  <1>6. NothingSkipped'
    BY DEF Poll, NothingSkipped, Waiting, TypeOK
  <1>7. Offsets'
    BY <1>1 DEF Poll, Offsets, TypeOK
  <1>8. Interval'
    BY <1>1, <1>2, <1>3, <1>4 DEF Poll, Interval
  <1>9. Begun' /\ Slot' /\ AtMostOnce' /\ SlotIsFree'
    BY DEF Poll, Begun, Slot, AtMostOnce, SlotIsFree
  <1> QED
    BY <1>5, <1>6, <1>7, <1>8, <1>9

\* An answer that never arrived confirmed nothing new (Poller.Run).
LEMMA PollFailsStep == ASSUME IInv, PollFails PROVE IInv'
  <1> USE DEF IInv
  <1>1. confirmed' = offset
    BY DEF PollFails, Confirm, AtLeast, Offsets, TypeOK
  <1>2. TypeOK'
    BY <1>1 DEF PollFails, TypeOK
  <1>3. NothingSkipped' /\ AtMostOnce' /\ SlotIsFree'
    BY DEF PollFails, NothingSkipped, Waiting, AtMostOnce, SlotIsFree
  <1>4. Offsets' /\ Interval' /\ Begun' /\ Slot'
    BY <1>1 DEF PollFails, Offsets, Interval, Begun, Slot, Current, TypeOK
  <1> QED
    BY <1>2, <1>3, <1>4

\* The cursor moves past the batch before any of it is handled (Poller.Run).
LEMMA SaveCursorStep == ASSUME IInv, SaveCursor PROVE IInv'
  <1> USE DEF IInv
  <1> DEFINE last == batch[Len(batch)]
  <1>1. pc = "save" /\ batch # <<>>
    BY DEF SaveCursor, TypeOK
  <1>2. NextOffset = last + 1 /\ last \in 1..Len(updates)
    BY <1>1, BatchBounds, HighestIsLast DEF NextOffset
  <1>3. batch[1] = AtLeast(1, offset) /\ offset \in Nat /\ cursor \in Nat
    BY <1>1 DEF Interval, TypeOK
  <1>4. /\ offset' = last + 1 /\ offset <= offset'
        /\ cursor' \in Nat /\ cursor <= cursor' /\ offset' <= cursor'
        /\ cursor' <= Len(updates) + 1
    <2>1. offset <= last
      BY <1>1, <1>3, BatchBounds DEF AtLeast
    <2> QED
      BY <1>1, <1>2, <1>3, <2>1, BatchBounds DEF SaveCursor, AtLeast, Offsets
  <1>5. TypeOK'
    BY SMTT(20), <1>1, <1>2, <1>4, BatchBounds DEF SaveCursor, TypeOK
  <1>6. NothingSkipped'
    <2> SUFFICES ASSUME NEW i \in 1..Len(updates), i < offset'
                 PROVE  fate[i] # "waiting" \/ i \in Waiting
      BY DEF NothingSkipped, SaveCursor, Waiting
    <2>1. CASE i < offset
      BY <2>1 DEF NothingSkipped
    <2>2. CASE ~(i < offset)
      <3>1. batch[1] <= i /\ i <= last
        BY <2>2, <1>3, <1>4, <1>2 DEF AtLeast
      <3>2. /\ batch[1] \in Nat /\ Len(batch) \in Nat /\ DOMAIN batch = 1..Len(batch)
            /\ last = batch[1] + Len(batch) - 1
        BY <1>1, BatchBounds
      <3>3. i - batch[1] + 1 \in DOMAIN batch
        BY <3>1, <3>2
      <3>4. batch[i - batch[1] + 1] = i
        BY <3>2, <3>3 DEF Interval
      <3> QED
        BY <3>3, <3>4 DEF Waiting
    <2> QED
      BY <2>1, <2>2
  <1>7. Offsets'
    BY <1>1, <1>3, <1>4 DEF SaveCursor, Offsets, TypeOK
  <1>8. Interval'
    BY <1>2, <1>4 DEF SaveCursor, Interval
  <1>9. Begun'
    <2> SUFFICES ASSUME NEW i \in Ids, runs[i] > 0
                 PROVE  i < cursor' /\ i < offset' /\ i < batch[1]
      BY DEF Begun, SaveCursor
    <2>1. i < offset /\ i < cursor /\ i \in Nat
      BY <1>1 DEF Begun, Ids
    <2> QED
      BY <2>1, <1>2, <1>3, <1>4 DEF AtLeast
  <1>10. Slot' /\ AtMostOnce' /\ SlotIsFree'
    BY <1>1 DEF SaveCursor, Slot, AtMostOnce, SlotIsFree
  <1> QED
    BY <1>5, <1>6, <1>7, <1>8, <1>9, <1>10

\* A save reported as failed, made or not (Poller.Run).
LEMMA SaveFailsStep == ASSUME IInv, SaveFails PROVE IInv'
  <1> USE DEF IInv
  <1> DEFINE last == batch[Len(batch)]
  <1>1. pc = "save" /\ batch # <<>>
    BY DEF SaveFails, TypeOK
  <1>2. NextOffset = last + 1 /\ last \in 1..Len(updates)
    BY <1>1, BatchBounds, HighestIsLast DEF NextOffset
  <1>3. /\ cursor \in Nat /\ offset \in Nat /\ cursor' \in Nat
        /\ cursor <= cursor' /\ cursor' <= Len(updates) + 1
    BY SMTT(20), <1>1, <1>2, BatchBounds DEF SaveFails, AtLeast, Offsets, TypeOK
  <1>4. TypeOK'
    BY <1>1, <1>3, BatchBounds DEF SaveFails, TypeOK
  <1>5. NothingSkipped'
    <2> SUFFICES ASSUME NEW i \in 1..Len(updates), i < offset
                 PROVE  fate[i] # "waiting"
      BY DEF NothingSkipped, SaveFails
    <2>1. i \notin Waiting
      <3>1. batch[1] = AtLeast(1, offset)
        BY <1>1 DEF Interval
      <3>2. \A k \in DOMAIN batch : offset <= batch[k]
        BY <3>1, <1>1, <1>3, BatchBounds DEF AtLeast
      <3> QED
        BY <3>2, <1>1, <1>3, BatchBounds DEF Waiting
    <2> QED
      BY <2>1 DEF NothingSkipped
  <1>6. Offsets'
    BY <1>1, <1>3 DEF SaveFails, Offsets, TypeOK
  <1>7. Interval' /\ Slot' /\ AtMostOnce' /\ SlotIsFree'
    BY <1>1 DEF SaveFails, Interval, Slot, AtMostOnce, SlotIsFree
  <1>8. Begun'
    <2> SUFFICES ASSUME NEW i \in Ids, runs[i] > 0
                 PROVE  i < cursor' /\ i < offset
      BY DEF Begun, SaveFails
    <2>1. i < offset /\ i < cursor /\ i \in Nat
      BY <1>1 DEF Begun, Ids
    <2> QED
      BY <2>1, <1>3
  <1> QED
    BY <1>4, <1>5, <1>6, <1>7, <1>8

--------------------------------------------------------------------------------

\* An update handled without a turn beginning for it leaves the rest of its
\* batch as it was (dispatch).
LEMMA HandledStep ==
  ASSUME IInv, pc \in {"dispatch", "turn"}, NEW f \in {"answered", "refused"}, Handled(f),
         busy' = {}, UNCHANGED <<updates, pollVars, runs, crashes>>
  PROVE  IInv'
  <1> USE DEF IInv, pollVars
  <1> DEFINE n == Len(batch)
  <1>1. batch # <<>> /\ n \in Nat \ {0}
    BY BatchBounds DEF TypeOK
  <1>2. /\ batch' \in Seq(1..Len(updates)) /\ Len(batch') = n - 1
        /\ batch' = <<>> <=> n = 1
        /\ DOMAIN batch' = 1..(n - 1)
        /\ \A k \in 1..(n - 1) : batch'[k] = batch[k + 1]
        /\ Current = batch[1] /\ Current \in Ids
    <2>1. batch' = Tail(batch)
      BY DEF Handled
    <2>2. DOMAIN Tail(batch) = 1..(n - 1)
      BY <1>1, TailOfBatch
    <2> QED
      BY <1>1, <2>1, <2>2, TailOfBatch
  <1>3. /\ fate' = [fate EXCEPT ![Current] = f] /\ fate \in [Ids -> Fates]
        /\ pc' = IF n = 1 THEN "poll" ELSE "dispatch"
    BY DEF Handled, TypeOK
  <1>4. TypeOK'
    BY <1>1, <1>2, <1>3 DEF TypeOK, Fates
  <1>5. NothingSkipped'
    <2> SUFFICES ASSUME NEW i \in 1..Len(updates), i < offset, fate'[i] = "waiting"
                 PROVE  i \in Waiting'
      BY DEF NothingSkipped
    <2>1. i \in Ids
      BY BatchBounds, <1>1 DEF Ids
    <2>2. i # Current /\ fate[i] = "waiting"
      BY <1>2, <1>3, <2>1
    <2>3. PICK k \in DOMAIN batch : batch[k] = i
      BY <2>2 DEF NothingSkipped, Waiting
    <2>4. k \in 2..n
      BY <1>1, <1>2, <2>2, <2>3, BatchBounds
    <2>5. k - 1 \in 1..(n - 1) /\ batch'[k - 1] = i
      BY <1>1, <1>2, <2>3, <2>4
    <2> QED
      BY <1>2, <2>5 DEF Waiting
  <1>6. Offsets'
    BY <1>3 DEF Offsets
  <1>7. Interval'
    <2>1. \A k \in 1..(n - 1) : batch'[k] = batch'[1] + k - 1
      <3> SUFFICES ASSUME NEW k \in 1..(n - 1) PROVE batch'[k] = batch'[1] + k - 1
        OBVIOUS
      <3>1. 1 \in 1..(n - 1) /\ k + 1 \in 1..n /\ 2 \in 1..n
        BY <1>1
      <3>2. batch'[k] = batch[k + 1] /\ batch'[1] = batch[2]
        BY <1>2, <3>1
      <3>3. batch[k + 1] = batch[1] + (k + 1) - 1 /\ batch[2] = batch[1] + 2 - 1
        BY <1>1, <3>1, BatchBounds DEF Interval
      <3> QED
        BY <1>1, <3>2, <3>3, BatchBounds
    <2>2. n # 1 => batch'[n - 1] = batch[n]
      BY <1>1, <1>2
    <2>3. batch[n] < offset
      BY DEF Interval
    <2> QED
      BY <1>2, <1>3, <2>1, <2>2, <2>3 DEF Interval
  <1>8. Begun'
    <2> SUFFICES ASSUME NEW i \in Ids, runs[i] > 0
                 PROVE  /\ i < cursor /\ i < offset
                        /\ n # 1 => i < batch'[1]
      BY <1>3 DEF Begun
    <2>1. i < cursor /\ i < offset /\ i <= batch[1] /\ i \in Nat
      BY BatchBounds, <1>1 DEF Begun, Ids
    <2>2. n # 1 => batch'[1] = batch[1] + 1
      BY <1>1, TailOfBatch DEF Handled
    <2> QED
      BY <1>1, <2>1, <2>2, BatchBounds
  <1>9. Slot' /\ AtMostOnce' /\ SlotIsFree'
    BY <1>2, <1>3 DEF Slot, AtMostOnce, SlotIsFree
  <1> QED
    BY <1>4, <1>5, <1>6, <1>7, <1>8, <1>9

\* The slot is free whenever a turn is asked for, and the turn is the first of
\* its update (inflight.acquire).
LEMMA AskForTurnStep == ASSUME IInv, AskForTurn PROVE IInv'
  <1> USE DEF IInv, pollVars
  <1>1. pc = "dispatch" /\ batch # <<>> /\ busy = {}
    BY DEF AskForTurn, Dispatching, Slot
  <1>2. Current = batch[1] /\ Current \in Ids /\ Current \in 1..Len(updates)
    BY <1>1, TailOfBatch, BatchBounds
  <1>3. /\ busy' = {updates[Current].chat} /\ pc' = "turn"
        /\ runs' = [runs EXCEPT ![Current] = @ + 1]
        /\ UNCHANGED <<updates, pollVars, batch, fate, crashes>>
    BY <1>1 DEF AskForTurn
  <1>4. runs \in [Ids -> Nat] /\ runs[Current] = 0
    <2>1. runs \in [Ids -> Nat]
      BY DEF TypeOK
    <2>2. ~(runs[Current] > 0)
      BY <1>1, <1>2, BatchBounds DEF Begun
    <2> QED
      BY <1>2, <2>1, <2>2
  <1>5. TypeOK'
    <2>1. updates[Current] \in [chat : Chats, kind : Kinds, during : BOOLEAN]
      BY <1>2, ElementOfSeq DEF TypeOK
    <2>2. runs' \in [Ids -> Nat] /\ busy' \subseteq Chats
      BY <1>2, <1>3, <1>4, <2>1
    <2> QED
      BY <1>1, <1>3, <2>2 DEF TypeOK
  <1>6. AtMostOnce'
    BY <1>2, <1>3, <1>4 DEF AtMostOnce
  <1>7. Begun'
    <2> SUFFICES ASSUME NEW i \in Ids, runs'[i] > 0
                 PROVE  i < cursor /\ i < offset /\ (i < batch[1] \/ i = batch[1])
      BY <1>3 DEF Begun
    <2>1. CASE i = Current
      <3>1. batch[Len(batch)] < offset /\ offset <= cursor
        BY <1>1 DEF Interval, Offsets
      <3>2. /\ Len(batch) \in Nat \ {0} /\ batch[1] \in Nat
            /\ batch[Len(batch)] \in Nat /\ batch[1] <= batch[Len(batch)]
        BY <1>1, BatchBounds
      <3>3. offset \in Nat /\ cursor \in Nat
        BY DEF TypeOK
      <3> QED
        BY <2>1, <1>2, <3>1, <3>2, <3>3
    <2>2. CASE i # Current
      BY <2>2, <1>1, <1>3, <1>4 DEF Begun
    <2> QED
      BY <2>1, <2>2
  <1>8. NothingSkipped' /\ SlotIsFree' /\ Offsets' /\ Interval' /\ Slot'
    BY <1>1, <1>3 DEF NothingSkipped, Waiting, SlotIsFree, Offsets, Interval, Slot, Current
  <1> QED
    BY <1>5, <1>6, <1>7, <1>8

\* Every way of handling an update keeps the invariant (HandleUpdate).
LEMMA HandleStep == ASSUME IInv, Handle PROVE IInv'
  <1>1. CASE AnswerCommand
    BY <1>1, HandledStep DEF AnswerCommand, Dispatching, IInv, Slot
  <1>2. CASE RefuseTurn
    BY <1>2, HandledStep DEF RefuseTurn, Dispatching, IInv, Slot
  <1>3. CASE AskForTurn
    BY <1>3, AskForTurnStep
  <1>4. CASE EndTurn
    <2>1. busy' = {} /\ UNCHANGED <<updates, pollVars, runs, crashes>>
      BY <1>4 DEF EndTurn, Release, IInv, Slot
    <2> QED
      BY <1>4, <2>1, HandledStep DEF EndTurn
  <1> QED
    BY <1>1, <1>2, <1>3, <1>4 DEF Handle

--------------------------------------------------------------------------------

\* What the process held is gone; what the cursor had passed is lost with it.
LEMMA CrashStep == ASSUME IInv, Crash PROVE IInv'
  <1> USE DEF IInv, pollVars
  <1>1. fate' \in [Ids -> Fates] /\ batch' = <<>> /\ pc' = "down" /\ busy' = {}
    BY DEF Crash, TypeOK, Fates
  <1>2. TypeOK'
    BY <1>1 DEF Crash, TypeOK
  <1>3. \A i \in 1..Len(updates) : i < cursor => fate'[i] # "waiting"
    <2> SUFFICES ASSUME NEW i \in 1..Len(updates), i < cursor PROVE fate'[i] # "waiting"
      OBVIOUS
    <2>1. i \in Ids
      BY DEF TypeOK, Ids
    <2> QED
      BY <2>1 DEF Crash
  <1>4. NothingSkipped' /\ Offsets'
    BY <1>1, <1>3 DEF Crash, NothingSkipped, Offsets, TypeOK
  <1>5. AtMostOnce' /\ SlotIsFree'
    BY DEF Crash, AtMostOnce, SlotIsFree
  <1>6. Interval' /\ Begun' /\ Slot'
    BY <1>1 DEF Crash, Interval, Begun, Slot
  <1> QED
    BY <1>2, <1>4, <1>5, <1>6

\* A process that starts takes the stored cursor for its offset.
LEMMA StartStep == ASSUME IInv, Start PROVE IInv'
  <1> USE DEF IInv, pollVars
  <1>1. pc = "down" /\ pc' = "poll" /\ offset' = cursor /\ batch = <<>>
    BY DEF Start, StartOffset, TypeOK
  <1>2. TypeOK'
    BY <1>1 DEF Start, TypeOK
  <1>3. NothingSkipped' /\ Offsets'
    BY <1>1 DEF Start, NothingSkipped, Offsets, TypeOK
  <1>4. AtMostOnce' /\ SlotIsFree' /\ Interval' /\ Begun' /\ Slot'
    BY <1>1 DEF Start, AtMostOnce, SlotIsFree, Interval, Begun, Slot
  <1> QED
    BY <1>2, <1>3, <1>4

\* The invariant is inductive: it holds at the start and every step of the loop,
\* of the handler and of the process's deaths keeps it.
THEOREM Inductive == Spec => []IInv
  <1>1. IInv /\ [Next]_vars => IInv'
    <2> SUFFICES ASSUME IInv, [Next]_vars PROVE IInv'
      OBVIOUS
    <2>1. CASE UNCHANGED vars
      BY <2>1 DEF vars, pollVars, IInv, TypeOK, AtMostOnce, NothingSkipped, Waiting,
         SlotIsFree, Offsets, Interval, Begun, Slot, Current
    <2> QED
      BY <2>1, PostStep, PollStep, PollFailsStep, SaveCursorStep, SaveFailsStep,
         HandleStep, CrashStep, StartStep DEF Next
  <1> QED
    BY <1>1, InitIInv, PTL DEF Spec

\* Every reachable state of the gateway is well typed.
THEOREM TypeCorrect == Spec => []TypeOK
  <1>1. IInv => TypeOK
    BY DEF IInv
  <1> QED
    BY <1>1, Inductive, PTL

\* No death, lost answer or failed save makes an update begin a second turn.
THEOREM BeginsAtMostOnce == Spec => []AtMostOnce
  <1>1. IInv => AtMostOnce
    BY DEF IInv
  <1> QED
    BY <1>1, Inductive, PTL

\* What the poller moved past was handled, is in hand, or died with the process.
THEOREM SkipsNothing == Spec => []NothingSkipped
  <1>1. IInv => NothingSkipped
    BY DEF IInv
  <1> QED
    BY <1>1, Inductive, PTL

\* The two together: neither twice nor never, as far as the poller has got.
THEOREM DeliversOnce == Spec => []DeliveredOnce
  BY BeginsAtMostOnce, SkipsNothing, PTL DEF DeliveredOnce

\* No turn is refused because its chat's slot was left taken.
THEOREM SlotAlwaysFree == Spec => []SlotIsFree
  <1>1. IInv => SlotIsFree
    BY DEF IInv
  <1> QED
    BY <1>1, Inductive, PTL

\* Turns begin in the order of their messages: one begins only for the head of a
\* batch, and every turn so far was for an earlier id.
THEOREM BeginsInOrder == Spec => BeginInOrder
  <1>1. IInv /\ [Next]_vars =>
          [\A i, j \in Ids : runs'[i] > runs[i] /\ j > i => runs[j] = 0]_vars
    <2> SUFFICES ASSUME IInv, Next, NEW i \in Ids, NEW j \in Ids, runs'[i] > runs[i], j > i
                 PROVE  runs[j] = 0
      BY DEF vars, pollVars
    <2> USE DEF IInv
    <2>1. AskForTurn
      BY DEF Next, Post, Poll, PollFails, SaveCursor, SaveFails, Crash, Start, Handle,
         AnswerCommand, RefuseTurn, EndTurn, TypeOK
    <2>2. pc = "dispatch" /\ batch # <<>> /\ busy = {}
      BY <2>1 DEF AskForTurn, Dispatching, Slot
    <2>3. runs' = [runs EXCEPT ![Current] = @ + 1] /\ Current = batch[1]
      BY <2>1, <2>2, TailOfBatch DEF AskForTurn
    <2>4. i = batch[1] /\ runs \in [Ids -> Nat]
      BY <2>3 DEF TypeOK
    <2>5. ~(runs[j] > 0)
      BY <2>2, <2>4 DEF Begun, Ids
    <2> QED
      BY <2>4, <2>5
  <1> QED
    BY <1>1, Inductive, PTL DEF Spec, BeginInOrder

--------------------------------------------------------------------------------
(* Pairing.                                                                *)

USE PairingAssumption DEF PairingAssumption

--------------------------------------------------------------------------------
(* The tables.                                                             *)

\* A statement that writes over rows leaves as many of them.
LEMMA SameLength ==
  ASSUME NEW R, NEW s \in Seq(R), NEW t, t = [i \in DOMAIN s |-> t[i]], \A i \in DOMAIN s : t[i] \in R
  PROVE  t \in Seq(R) /\ Len(t) = Len(s) /\ DOMAIN t = DOMAIN s
  <1>1. t \in [1..Len(s) -> R] /\ Len(s) \in Nat
    OBVIOUS
  <1> QED
    BY <1>1

\* A statement that inserts a row gives it the next id and leaves the others.
LEMMA OneMore ==
  ASSUME NEW R, NEW s \in Seq(R), NEW x \in R
  PROVE  /\ Append(s, x) \in Seq(R) /\ Len(s) \in Nat /\ Len(Append(s, x)) = Len(s) + 1
         /\ DOMAIN s \subseteq DOMAIN Append(s, x) /\ Len(s) + 1 \in DOMAIN Append(s, x)
         /\ \A i \in DOMAIN Append(s, x) : i \in DOMAIN s \/ i = Len(s) + 1
         /\ Append(s, x)[Len(s) + 1] = x /\ Len(s) + 1 \notin DOMAIN s
         /\ \A i \in DOMAIN s : Append(s, x)[i] = s[i]
  OBVIOUS

\* The rows are what they are typed to be, and ids are the numbers of the rows.
LEMMA Rows ==
  ASSUME RowsFit
  PROVE  /\ Len(codes) \in Nat /\ DOMAIN codes = 1..Len(codes)
         /\ \A i \in DOMAIN codes : codes[i] \in Code
         /\ Len(bindings) \in Nat /\ DOMAIN bindings = 1..Len(bindings)
         /\ \A b \in DOMAIN bindings : bindings[b] \in Binding
         /\ Len(convs) \in Nat /\ DOMAIN convs = 1..Len(convs)
         /\ \A k \in DOMAIN convs : convs[k] \in Thread
         /\ \A k \in DOMAIN threadOf : threadOf[k] \in DOMAIN convs /\ k[1] \in DOMAIN bindings /\ k[2] \in Agents
  <1>1. codes \in Seq(Code) /\ bindings \in Seq(Binding) /\ convs \in Seq(Thread)
    BY DEF RowsFit
  <1>2. /\ Len(codes) \in Nat /\ DOMAIN codes = 1..Len(codes)
        /\ \A i \in DOMAIN codes : codes[i] \in Code
    BY <1>1
  <1>3. /\ Len(bindings) \in Nat /\ DOMAIN bindings = 1..Len(bindings)
        /\ \A b \in DOMAIN bindings : bindings[b] \in Binding
    BY <1>1
  <1>4. /\ Len(convs) \in Nat /\ DOMAIN convs = 1..Len(convs)
        /\ \A k \in DOMAIN convs : convs[k] \in Thread
    BY <1>1
  <1>5. \A k \in DOMAIN threadOf : threadOf[k] \in DOMAIN convs /\ k[1] \in DOMAIN bindings /\ k[2] \in Agents
    BY DEF RowsFit
  <1> QED
    BY <1>2, <1>3, <1>4, <1>5

\* The update and the command at rest are well typed and know nothing.
LEMMA AtRest ==
  ASSUME RowsFit
  PROVE  /\ NoUpdate \in Update /\ NoUpdate.at = "idle"
         /\ NoCommand \in Command /\ NoCommand.at = "idle"
  <1>1. 0 \in 0..Len(codes) /\ 0 \in 0..Len(bindings) /\ 0 \in 0..Len(convs)
    BY Rows
  <1> QED
    BY <1>1 DEF NoUpdate, Update, NoCommand, Command

\* What an update knows does not depend on codes and commands, survives the bindings
\* that appear, and a thread that is deleted is no thread of its agent.
LEMMA UpdateStillKnows ==
  ASSUME RowsFit, UpdateKnows, UNCHANGED <<bot, threadOf>>,
         DOMAIN bindings \subseteq DOMAIN bindings',
         \A b \in DOMAIN bindings : bindings'[b].ws = bindings[b].ws
                                    /\ (bindings'[b].revoked => bindings[b].revoked),
         DOMAIN convs \subseteq DOMAIN convs',
         \A k \in DOMAIN convs : /\ convs'[k].agent = convs[k].agent /\ convs'[k].ws = convs[k].ws
                                 /\ convs'[k].live => convs[k].live
  PROVE  UpdateKnows'
  <1>1. bot.binding \in LiveBindings => bot.binding \in LiveBindings'
    BY DEF LiveBindings
  <1>2. HasThread' => HasThread
    BY Rows DEF HasThread, Mapped, Exists, Pair
  <1> QED
    BY <1>1, <1>2 DEF UpdateKnows

--------------------------------------------------------------------------------
(* The steps of the bot that read and go on.                               *)

\* A step of the bot alone keeps PairingInvariant if the update knows what it should.
LEMMA OnlyTheBot ==
  ASSUME PairingInvariant, UNCHANGED <<codes, bindings, threadOf, convs, agents, op, web>>,
         bot' \in Update, UpdateKnows'
  PROVE  PairingInvariant'
  BY DEF PairingInvariant, RowsFit, Update, Command, CodesAreSpent, Holding, OneWorkspace, LiveBindings,
         CodeBindsOnce, OneUsableCode, Usable, AgentIsOwn, ThreadIsIsolated

\* Taking an update up, finding its agent and its thread, beginning its turn, failing.
LEMMA BotReads ==
  ASSUME PairingInvariant, \/ CommandStart \/ RequireBinding \/ FindAgent \/ FindThread \/ FindToResume
               \/ FindAgentAgain \/ BeginTurn \/ BotFails
  PROVE  PairingInvariant'
  <1>0. RowsFit /\ UpdateKnows /\ bot \in Update /\ ThreadIsIsolated
    BY DEF PairingInvariant, RowsFit
  <1>a. UNCHANGED <<codes, bindings, threadOf, convs, agents, op, web>>
    BY DEF CommandStart, RequireBinding, FindAgent, FindThread, FindToResume, FindAgentAgain,
           BeginTurn, BotFails
  <1>b. ASSUME bot' = NoUpdate PROVE PairingInvariant'
    <2>1. bot' \in Update /\ UpdateKnows'
      BY <1>0, <1>a, <1>b, AtRest DEF UpdateKnows
    <2> QED
      BY <1>a, <2>1, OnlyTheBot
  <1>c. /\ LiveBindings' = LiveBindings /\ \A conv : Exists(conv)' = Exists(conv)
        /\ (bot'.binding = bot.binding /\ bot'.agent = bot.agent) => HasThread' = HasThread
    BY <1>a DEF LiveBindings, Exists, HasThread, Mapped, Pair
  <1>1. CASE CommandStart
    <2>1. PICK chat \in PrivateChats : bot' = [NoUpdate EXCEPT !.at = "issue", !.chat = chat]
      BY <1>1 DEF CommandStart
    <2>2. bot' \in Update /\ bot'.at = "issue" /\ bot'.chat = chat
      BY <1>0, <2>1, AtRest DEF NoUpdate, Update
    <2>3. UpdateKnows'
      BY <2>2 DEF UpdateKnows
    <2> QED
      BY <1>a, <2>2, <2>3, OnlyTheBot
  <1>2. CASE RequireBinding
    <2>0. PICK chat \in PrivateChats, kind \in {"message", "resume", "select"}, wanted \in Agents :
            \E b \in FindByChat(chat) :
              bot' = [NoUpdate EXCEPT !.at = "agent", !.chat = chat, !.kind = kind, !.binding = b,
                                      !.agent = wanted]
      BY <1>2 DEF RequireBinding
    <2>1. PICK b \in LiveBindings :
            bot' = [NoUpdate EXCEPT !.at = "agent", !.chat = chat, !.kind = kind, !.binding = b,
                                    !.agent = wanted]
      BY <2>0 DEF FindByChat
    <2>2. b \in DOMAIN bindings /\ b \in 0..Len(bindings)
      BY <1>0, Rows DEF LiveBindings
    <2>3. bot' \in Update /\ bot'.at = "agent" /\ bot'.binding = b /\ bot'.agent = wanted
      BY <1>0, <2>1, <2>2, AtRest DEF NoUpdate, Update
    <2>4. UpdateKnows'
      BY <1>a, <1>c, <2>2, <2>3 DEF UpdateKnows
    <2> QED
      BY <1>a, <2>3, <2>4, OnlyTheBot
  <1>3. CASE FindAgent
    <2>1. PICK at \in {"select", "thread"} : bot' = [bot EXCEPT !.at = at]
      BY <1>3 DEF FindAgent
    <2>2. /\ bot' \in Update /\ bot'.at = at /\ bot'.binding = bot.binding /\ bot'.agent = bot.agent
          /\ bot'.late = bot.late
      BY <1>0, <2>1 DEF Update
    <2>3. bot.at = "agent" /\ OwnerOf[bot.agent] = bindings[bot.binding].ws
      BY <1>3 DEF FindAgent, ListAgents
    <2>4. UpdateKnows'
      BY <1>0, <1>a, <1>c, <2>1, <2>2, <2>3 DEF UpdateKnows
    <2> QED
      BY <1>a, <2>2, <2>4, OnlyTheBot
  <1>4. CASE FindThread
    <2>1. CASE HasThread /\ bot.kind # "select"
      <3>1. bot' = [bot EXCEPT !.at = "turn", !.conv = threadOf[Pair]] /\ bot.at = "thread"
        BY <1>4, <2>1 DEF FindThread, Continue
      <3>2. threadOf[Pair] \in DOMAIN convs /\ threadOf[Pair] \in 0..Len(convs)
            /\ convs[threadOf[Pair]].ws = bindings[bot.binding].ws
        BY <1>0, <2>1, Rows DEF HasThread, Mapped, ThreadIsIsolated, Pair
      <3>3. /\ bot' \in Update /\ bot'.at = "turn" /\ bot'.binding = bot.binding /\ bot'.agent = bot.agent
            /\ bot'.late = bot.late /\ bot'.conv = threadOf[Pair]
        BY <1>0, <3>1, <3>2 DEF Update
      <3>4. UpdateKnows'
        BY <1>0, <1>a, <1>c, <3>1, <3>2, <3>3 DEF UpdateKnows
      <3> QED
        BY <1>a, <3>3, <3>4, OnlyTheBot
    <2>2. CASE HasThread /\ bot.kind = "select"
      BY <1>4, <1>b, <2>2 DEF FindThread, Continue
    <2>3. CASE ~HasThread
      <3>1. bot' = [bot EXCEPT !.at = "open"] /\ bot.at = "thread"
        BY <1>4, <2>3 DEF FindThread
      <3>2. /\ bot' \in Update /\ bot'.at = "open" /\ bot'.binding = bot.binding /\ bot'.agent = bot.agent
            /\ bot'.late = bot.late
        BY <1>0, <3>1 DEF Update
      <3>3. UpdateKnows'
        BY <1>0, <1>a, <1>c, <2>3, <3>1, <3>2 DEF UpdateKnows
      <3> QED
        BY <1>a, <3>2, <3>3, OnlyTheBot
    <2> QED
      BY <2>1, <2>2, <2>3
  <1>5. CASE FindToResume
    <2>1. bot' = [bot EXCEPT !.at = "turn", !.conv = threadOf[Pair]] /\ bot.at = "thread" /\ Mapped
      BY <1>5 DEF FindToResume
    <2>2. threadOf[Pair] \in DOMAIN convs /\ threadOf[Pair] \in 0..Len(convs)
          /\ convs[threadOf[Pair]].ws = bindings[bot.binding].ws
      BY <1>0, <2>1, Rows DEF Mapped, ThreadIsIsolated, Pair
    <2>3. /\ bot' \in Update /\ bot'.at = "turn" /\ bot'.binding = bot.binding /\ bot'.agent = bot.agent
          /\ bot'.late = bot.late /\ bot'.conv = threadOf[Pair]
      BY <1>0, <2>1, <2>2 DEF Update
    <2>4. UpdateKnows'
      BY <1>0, <1>a, <1>c, <2>1, <2>2, <2>3 DEF UpdateKnows
    <2> QED
      BY <1>a, <2>3, <2>4, OnlyTheBot
  <1>6. CASE BeginTurn \/ BotFails
    BY <1>6, <1>b DEF BeginTurn, BotFails
  <1>7. CASE FindAgentAgain
    <2>1. bot' = [bot EXCEPT !.at = "create"] /\ bot.at = "open"
      BY <1>7 DEF FindAgentAgain
    <2>2. /\ bot' \in Update /\ bot'.at = "create" /\ bot'.binding = bot.binding /\ bot'.agent = bot.agent
          /\ bot'.late = bot.late
      BY <1>0, <2>1 DEF Update
    <2>3. UpdateKnows'
      BY <1>0, <1>a, <1>c, <2>1, <2>2 DEF UpdateKnows
    <2> QED
      BY <1>a, <2>2, <2>3, OnlyTheBot
  <1> QED
    BY <1>1, <1>2, <1>3, <1>4, <1>5, <1>6, <1>7

--------------------------------------------------------------------------------
(* Codes and commands.                                                     *)

\* Whose a code is never changes, and what is spent stays spent: what rests on it holds.
LEMMA CodesOnlySpend ==
  ASSUME CodesAreSpent, CodeBindsOnce, UNCHANGED <<bindings, op>>,
         DOMAIN codes \subseteq DOMAIN codes',
         \A i \in DOMAIN codes : /\ codes'[i].chat = codes[i].chat
                                 /\ codes[i].consumed => codes'[i].consumed
  PROVE  CodesAreSpent' /\ CodeBindsOnce'
  BY DEF CodesAreSpent, CodeBindsOnce, Holding

\* A new code retires those its user still holds.
LEMMA IssueStep == ASSUME PairingInvariant, Issue PROVE PairingInvariant'
  <1> DEFINE old == Retired(bot.chat)
             new == [chat |-> bot.chat, consumed |-> FALSE, expired |-> FALSE]
  <1>0. RowsFit /\ UpdateKnows /\ CodesAreSpent /\ CodeBindsOnce /\ OneUsableCode
    BY DEF PairingInvariant
  <1>1. /\ bot.at = "issue" /\ codes' = Append(old, new) /\ bot' = NoUpdate
        /\ UNCHANGED <<bindings, threadOf, convs, agents, op, web>>
    BY DEF Issue
  <1>2. new \in Code /\ new.chat = bot.chat
    BY <1>0, <1>1 DEF UpdateKnows, Code
  <1>3. ASSUME NEW i \in DOMAIN codes
        PROVE  /\ old[i] \in Code /\ old[i].chat = codes[i].chat
               /\ codes[i].consumed => old[i].consumed
               /\ Usable(old[i]) => Usable(codes[i]) /\ codes[i].chat # bot.chat
    <2>1. codes[i] \in Code
      BY <1>0, Rows
    <2>2. CASE codes[i].chat = bot.chat
      <3>1. old[i] = [codes[i] EXCEPT !.consumed = TRUE]
        BY <2>2 DEF Retired
      <3> QED
        BY <2>1, <3>1 DEF Code, Usable
    <2>3. CASE codes[i].chat # bot.chat
      <3>1. old[i] = codes[i]
        BY <2>3 DEF Retired
      <3> QED
        BY <2>1, <2>3, <3>1
    <2> QED
      BY <2>2, <2>3
  <1>4. old \in Seq(Code) /\ Len(old) = Len(codes) /\ DOMAIN old = DOMAIN codes
    <2>1. codes \in Seq(Code) /\ old = [i \in DOMAIN codes |-> old[i]]
      BY <1>0 DEF RowsFit, Retired
    <2> HIDE DEF old
    <2> QED
      BY <1>3, <2>1, SameLength
  <1> HIDE DEF old, new
  <1>5. /\ codes' \in Seq(Code) /\ Len(codes') = Len(codes) + 1 /\ Len(codes) \in Nat
        /\ DOMAIN codes \subseteq DOMAIN codes'
        /\ \A i \in DOMAIN codes' : i \in DOMAIN codes \/ i = Len(codes) + 1
        /\ codes'[Len(codes) + 1] = new /\ \A i \in DOMAIN codes : codes'[i] = old[i]
    <2>1. /\ Append(old, new) \in Seq(Code) /\ Len(old) \in Nat /\ Len(Append(old, new)) = Len(old) + 1
          /\ DOMAIN old \subseteq DOMAIN Append(old, new)
          /\ \A i \in DOMAIN Append(old, new) : i \in DOMAIN old \/ i = Len(old) + 1
          /\ Append(old, new)[Len(old) + 1] = new
          /\ \A i \in DOMAIN old : Append(old, new)[i] = old[i]
      BY <1>2, <1>4, OneMore
    <2> QED
      BY <1>1, <1>4, <2>1
  <1>6. RowsFit'
    <2>1. bot' \in Update'
      BY <1>0, <1>1, AtRest DEF Update
    <2>2. op' \in [Operators -> Command']
      <3>1. Command \subseteq Command'
        BY <1>1, <1>5 DEF Command
      <3> QED
        BY <1>0, <1>1, <3>1 DEF RowsFit
    <2> QED
      BY <1>0, <1>1, <1>5, <2>1, <2>2 DEF RowsFit
  <1>7. UpdateKnows'
    BY <1>0, <1>1, AtRest DEF UpdateKnows
  <1>8. CodesAreSpent' /\ CodeBindsOnce'
    BY <1>0, <1>1, <1>3, <1>5, CodesOnlySpend
  <1>9. OneUsableCode'
    BY <1>0, <1>2, <1>3, <1>5 DEF OneUsableCode
  <1> QED
    BY <1>1, <1>6, <1>7, <1>8, <1>9 DEF PairingInvariant, OneWorkspace, LiveBindings, AgentIsOwn, ThreadIsIsolated

\* A code that expires, or that an operator redeems, is no longer usable.
LEMMA CodeStep == ASSUME PairingInvariant, Expire \/ \E o \in Operators : Redeem(o) PROVE PairingInvariant'
  <1>0. /\ RowsFit /\ UpdateKnows /\ CodesAreSpent /\ CodeBindsOnce /\ OneUsableCode
        /\ codes \in Seq(Code) /\ \A i \in DOMAIN codes : codes[i] \in Code
    BY Rows DEF PairingInvariant, RowsFit
  <1>1. UNCHANGED <<bindings, threadOf, convs, agents, bot, web>>
    BY DEF Expire, Redeem
  <1>2. ASSUME NEW i \in DOMAIN codes, NEW row \in Code, row.chat = codes[i].chat,
               codes[i].consumed => row.consumed, ~Usable(row), codes' = [codes EXCEPT ![i] = row]
        PROVE  /\ codes' \in Seq(Code) /\ Len(codes') = Len(codes) /\ DOMAIN codes' = DOMAIN codes
               /\ codes'[i] = row /\ \A j \in DOMAIN codes \ {i} : codes'[j] = codes[j]
               /\ OneUsableCode'
    <2>1. codes'[i] = row /\ \A j \in DOMAIN codes \ {i} : codes'[j] = codes[j]
      BY <1>2
    <2>2. codes' = [j \in DOMAIN codes |-> codes'[j]] /\ \A j \in DOMAIN codes : codes'[j] \in Code
      BY <1>0, <1>2, <2>1
    <2>3. codes' \in Seq(Code) /\ Len(codes') = Len(codes) /\ DOMAIN codes' = DOMAIN codes
      BY <1>0, <2>2, SameLength
    <2>4. OneUsableCode'
      BY <1>0, <1>2, <2>1, <2>3 DEF OneUsableCode
    <2> QED
      BY <2>1, <2>3, <2>4
  <1>3. ASSUME RowsFit', CodesAreSpent', CodeBindsOnce', OneUsableCode' PROVE PairingInvariant'
    <2>1. UpdateKnows'
      BY <1>0, <1>1, Rows, UpdateStillKnows
    <2> QED
      BY <1>1, <1>3, <2>1 DEF PairingInvariant, OneWorkspace, LiveBindings, AgentIsOwn, ThreadIsIsolated
  <1>4. ASSUME Len(codes') = Len(codes)
        PROVE  bot' \in Update' /\ Command' = Command
    BY <1>0, <1>1, <1>4 DEF RowsFit, Update, Command
  <1>5. CASE Expire
    <2>0. PICK i \in DOMAIN codes : codes' = [codes EXCEPT ![i].expired = TRUE]
      BY <1>5 DEF Expire
    <2>1. PICK row : row = [codes[i] EXCEPT !.expired = TRUE] /\ codes' = [codes EXCEPT ![i] = row]
      BY <1>0, <2>0
    <2>2. row \in Code /\ row.chat = codes[i].chat /\ row.consumed = codes[i].consumed /\ ~Usable(row)
      BY <1>0, <2>1 DEF Code, Usable
    <2>3. /\ codes' \in Seq(Code) /\ Len(codes') = Len(codes) /\ DOMAIN codes' = DOMAIN codes
          /\ codes'[i] = row /\ \A j \in DOMAIN codes \ {i} : codes'[j] = codes[j]
          /\ OneUsableCode'
      BY <1>2, <2>1, <2>2
    <2>4. UNCHANGED op
      BY <1>5 DEF Expire
    <2>5. RowsFit'
      BY <1>0, <1>1, <1>4, <2>3, <2>4 DEF RowsFit
    <2>6. CodesAreSpent' /\ CodeBindsOnce'
      BY <1>0, <1>1, <2>2, <2>3, <2>4, CodesOnlySpend
    <2> QED
      BY <1>3, <2>3, <2>5, <2>6
  <1>6. ASSUME NEW o \in Operators, Redeem(o) PROVE PairingInvariant'
    <2>0. PICK i \in DOMAIN codes, w \in Workspaces :
            /\ Usable(codes[i]) /\ codes' = [codes EXCEPT ![i].consumed = TRUE]
            /\ op' = [op EXCEPT ![o] = [NoCommand EXCEPT !.at = "check", !.code = i, !.ws = w]]
      BY <1>6 DEF Redeem, Redeemable
    <2>1. PICK row : row = [codes[i] EXCEPT !.consumed = TRUE] /\ codes' = [codes EXCEPT ![i] = row]
      BY <1>0, <2>0
    <2>2. row \in Code /\ row.chat = codes[i].chat /\ row.consumed /\ ~Usable(row)
      BY <1>0, <2>1 DEF Code, Usable
    <2>3. /\ codes' \in Seq(Code) /\ Len(codes') = Len(codes) /\ DOMAIN codes' = DOMAIN codes
          /\ codes'[i] = row /\ \A j \in DOMAIN codes \ {i} : codes'[j] = codes[j]
          /\ OneUsableCode'
      BY <1>2, <2>1, <2>2
    <2>4. PICK cmd : cmd = [NoCommand EXCEPT !.at = "check", !.code = i, !.ws = w]
                     /\ op' = [op EXCEPT ![o] = cmd]
      BY <2>0
    <2>5. cmd \in Command /\ cmd.at = "check" /\ cmd.code = i /\ cmd.ws = w
      <3>1. i \in 0..Len(codes)
        BY <1>0, Rows
      <3> QED
        BY <1>0, <2>4, <3>1, AtRest DEF NoCommand, Command
    <2>6. op' \in [Operators -> Command] /\ op'[o] = cmd /\ \A p \in Operators \ {o} : op'[p] = op[p]
      BY <1>0, <2>4, <2>5 DEF RowsFit
    <2>7. RowsFit'
      BY <1>0, <1>1, <1>4, <2>3, <2>6 DEF RowsFit
    <2>8. /\ \A b \in DOMAIN bindings : bindings[b].code # i
          /\ \A p \in Operators : Holding(p) => op[p].code # i
      BY <1>0, <2>0 DEF CodesAreSpent, Usable
    <2>9. /\ \A b \in DOMAIN bindings : bindings[b].code \in DOMAIN codes /\ codes'[bindings[b].code].consumed
          /\ \A p \in Operators \ {o} : Holding(p) =>
               op[p].code \in DOMAIN codes /\ codes'[op[p].code].consumed
      BY <1>0, <2>3, <2>8 DEF CodesAreSpent
    <2>10. CodesAreSpent'
      <3>1. \A p \in Operators \ {o} : Holding(p)' = Holding(p)
        BY <2>6 DEF Holding
      <3> QED
        BY <1>0, <1>1, <2>2, <2>3, <2>5, <2>6, <2>8, <2>9, <3>1 DEF CodesAreSpent
    <2>11. CodeBindsOnce'
      BY <1>0, <1>1, <2>2, <2>3 DEF CodeBindsOnce, CodesAreSpent
    <2> QED
      BY <1>3, <2>3, <2>7, <2>10, <2>11
  <1> QED
    BY <1>5, <1>6

\* A command that reads and goes on, or that ends, holds no more than it held.
LEMMA CommandReads ==
  ASSUME PairingInvariant, NEW o \in Operators, CheckUnbound(o) \/ FindToRevoke(o) \/ OperatorFails(o)
  PROVE  PairingInvariant'
  <1>0. RowsFit /\ UpdateKnows /\ CodesAreSpent /\ op \in [Operators -> Command]
    BY DEF PairingInvariant, RowsFit
  <1>1. UNCHANGED <<codes, bindings, threadOf, convs, agents, bot, web>>
    BY DEF CheckUnbound, FindToRevoke, OperatorFails
  <1>2. PICK cmd \in Command :
          /\ op' = [op EXCEPT ![o] = cmd]
          /\ cmd.at \in {"check", "create"} => Holding(o) /\ cmd.code = op[o].code /\ cmd.ws = op[o].ws
    <2>1. CASE CheckUnbound(o)
      <3>1. PICK cmd : cmd = [op[o] EXCEPT !.at = "create"] /\ op' = [op EXCEPT ![o] = cmd]
        BY <2>1 DEF CheckUnbound
      <3>2. cmd \in Command /\ cmd.code = op[o].code /\ cmd.ws = op[o].ws
        BY <1>0, <3>1 DEF Command
      <3>3. Holding(o)
        BY <2>1 DEF CheckUnbound, Holding
      <3> QED
        BY <3>1, <3>2, <3>3
    <2>2. CASE FindToRevoke(o)
      <3>1. PICK b \in LiveBindings : op' = [op EXCEPT ![o] = [NoCommand EXCEPT !.at = "revoke", !.binding = b]]
        BY <2>2 DEF FindToRevoke
      <3>2. b \in 0..Len(bindings)
        BY <1>0, Rows DEF LiveBindings
      <3>3. PICK cmd : cmd = [NoCommand EXCEPT !.at = "revoke", !.binding = b] /\ op' = [op EXCEPT ![o] = cmd]
        BY <3>1
      <3>4. cmd \in Command /\ cmd.at = "revoke"
        BY <1>0, <3>2, <3>3, AtRest DEF NoCommand, Command
      <3> QED
        BY <3>3, <3>4
    <2>3. CASE OperatorFails(o)
      <3>1. op' = [op EXCEPT ![o] = NoCommand] /\ NoCommand \in Command /\ NoCommand.at = "idle"
        BY <1>0, <2>3, AtRest DEF OperatorFails
      <3> QED
        BY <3>1
    <2> QED
      BY <2>1, <2>2, <2>3
  <1>3. op' \in [Operators -> Command] /\ op'[o] = cmd /\ \A p \in Operators \ {o} : op'[p] = op[p]
    BY <1>0, <1>2
  <1>4. CodesAreSpent'
    <2>1. \A p \in Operators : Holding(p)' => Holding(p) /\ op'[p].code = op[p].code /\ op'[p].ws = op[p].ws
      BY <1>2, <1>3 DEF Holding
    <2> QED
      BY <1>0, <1>1, <2>1 DEF CodesAreSpent
  <1>5. RowsFit'
    <2>1. bot' \in Update' /\ Command' = Command
      BY <1>0, <1>1 DEF RowsFit, Update, Command
    <2> QED
      BY <1>0, <1>1, <1>3, <2>1 DEF RowsFit
  <1>6. UpdateKnows'
    BY <1>0, <1>1, UpdateStillKnows
  <1> QED
    BY <1>1, <1>4, <1>5, <1>6 DEF PairingInvariant, OneWorkspace, LiveBindings, CodeBindsOnce, OneUsableCode,
                                   Usable, AgentIsOwn, ThreadIsIsolated

--------------------------------------------------------------------------------
(* Bindings.                                                               *)

\* The chat is bound, once by this code, and at the index to one workspace.
LEMMA CreateBindingStep == ASSUME PairingInvariant, NEW o \in Operators, CreateBinding(o) PROVE PairingInvariant'
  <1> DEFINE n == Len(bindings) + 1
             new == [ws |-> op[o].ws, chat |-> codes[op[o].code].chat, agent |-> None,
                     revoked |-> FALSE, code |-> op[o].code]
  <1>0. /\ RowsFit /\ UpdateKnows /\ CodesAreSpent /\ OneWorkspace /\ CodeBindsOnce /\ AgentIsOwn
        /\ ThreadIsIsolated /\ op \in [Operators -> Command] /\ bindings \in Seq(Binding)
    BY DEF PairingInvariant, RowsFit
  <1>1. /\ op[o].at = "create" /\ OnePerChat(codes[op[o].code].chat)
        /\ bindings' = Append(bindings, new) /\ op' = [op EXCEPT ![o] = NoCommand]
        /\ UNCHANGED <<codes, threadOf, convs, agents, bot, web>>
    BY DEF CreateBinding
  <1>2. /\ op[o].code \in DOMAIN codes /\ codes[op[o].code].consumed /\ op[o].ws \in Workspaces
        /\ \A b \in DOMAIN bindings : bindings[b].code # op[o].code
        /\ \A p \in Operators : Holding(p) /\ op[p].code = op[o].code => p = o
    BY <1>0, <1>1 DEF CodesAreSpent, Holding
  <1>3. /\ new \in Binding /\ new.chat = codes[op[o].code].chat /\ new.code = op[o].code
        /\ new.agent = None
    <2>1. codes[op[o].code] \in Code /\ op[o].code \in Nat
      BY <1>0, <1>2, Rows
    <2> QED
      BY <1>2, <2>1 DEF Binding, Code
  <1> HIDE DEF new
  <1>4. /\ bindings' \in Seq(Binding) /\ Len(bindings') = n /\ Len(bindings) \in Nat
        /\ DOMAIN bindings \subseteq DOMAIN bindings' /\ n \notin DOMAIN bindings
        /\ \A b \in DOMAIN bindings' : b \in DOMAIN bindings \/ b = n
        /\ bindings'[n] = new /\ \A b \in DOMAIN bindings : bindings'[b] = bindings[b]
    BY <1>0, <1>1, <1>3, OneMore
  <1> HIDE DEF n
  <1>5. /\ op' \in [Operators -> Command] /\ op'[o].at = "idle"
        /\ \A p \in Operators \ {o} : op'[p] = op[p]
    BY <1>0, <1>1, AtRest
  <1>6. RowsFit'
    <2>1. Update \subseteq Update' /\ Command \subseteq Command'
      BY <1>1, <1>4 DEF Update, Command, n
    <2>2. bot' \in Update' /\ op' \in [Operators -> Command']
      BY <1>0, <1>1, <1>5, <2>1 DEF RowsFit
    <2>3. DOMAIN threadOf' \subseteq (DOMAIN bindings') \X Agents
      BY <1>0, <1>1, <1>4 DEF RowsFit
    <2> QED
      BY <1>0, <1>1, <1>4, <2>2, <2>3 DEF RowsFit
  <1>7. UpdateKnows'
    BY <1>0, <1>1, <1>4, UpdateStillKnows
  <1>8. CodesAreSpent'
    <2>1. ASSUME NEW p \in Operators, Holding(p)'
          PROVE  p # o /\ Holding(p) /\ op'[p] = op[p] /\ op[p].code # op[o].code
      <3>1. p # o
        BY <1>5, <2>1 DEF Holding
      <3>2. op'[p] = op[p] /\ Holding(p)
        BY <1>5, <2>1, <3>1 DEF Holding
      <3> QED
        BY <1>2, <3>1, <3>2
    <2>2. \A b \in DOMAIN bindings' : bindings'[b].code \in DOMAIN codes /\ codes[bindings'[b].code].consumed
      BY <1>0, <1>2, <1>3, <1>4 DEF CodesAreSpent
    <2>3. \A p \in Operators : Holding(p)' =>
            \A b \in DOMAIN bindings' : bindings'[b].code # op'[p].code
      BY <1>0, <1>3, <1>4, <2>1 DEF CodesAreSpent
    <2> QED
      BY <1>0, <1>1, <2>1, <2>2, <2>3 DEF CodesAreSpent
  <1>9. OneWorkspace'
    <2>1. \A b \in LiveBindings : bindings[b].chat # new.chat
      BY <1>1, <1>3 DEF OnePerChat, FindByChat
    <2>2. \A b \in LiveBindings' : b = n \/ (b \in LiveBindings /\ bindings'[b] = bindings[b])
      BY <1>4 DEF LiveBindings
    <2> QED
      BY <1>0, <1>4, <2>1, <2>2 DEF OneWorkspace
  <1>10. CodeBindsOnce'
    BY <1>0, <1>1, <1>2, <1>3, <1>4 DEF CodeBindsOnce
  <1>11. AgentIsOwn'
    BY <1>0, <1>3, <1>4 DEF AgentIsOwn
  <1>12. ThreadIsIsolated'
    BY <1>0, <1>1, <1>4, Rows DEF ThreadIsIsolated
  <1> QED
    BY <1>1, <1>6, <1>7, <1>8, <1>9, <1>10, <1>11, <1>12 DEF PairingInvariant, OneUsableCode, Usable

\* A binding that only ends or changes its agent keeps what rests on the others.
LEMMA BindingStep ==
  ASSUME PairingInvariant, UNCHANGED <<codes, threadOf, convs, agents, web>>,
         NEW x \in DOMAIN bindings, NEW row \in Binding, bindings' = [bindings EXCEPT ![x] = row],
         row.chat = bindings[x].chat, row.ws = bindings[x].ws, row.code = bindings[x].code,
         bindings[x].revoked => row.revoked,
         row.agent # None => OwnerOf[row.agent] = row.ws,
         bot' \in Update, UpdateKnows', op' \in [Operators -> Command],
         \A p \in Operators : Holding(p)' => Holding(p) /\ op'[p].code = op[p].code /\ op'[p].ws = op[p].ws
  PROVE  PairingInvariant'
  <1>0. /\ RowsFit /\ CodesAreSpent /\ OneWorkspace /\ CodeBindsOnce /\ AgentIsOwn
        /\ ThreadIsIsolated /\ bindings \in Seq(Binding) /\ \A b \in DOMAIN bindings : bindings[b] \in Binding
    BY Rows DEF PairingInvariant, RowsFit
  <1>1. bindings'[x] = row /\ \A b \in DOMAIN bindings : b # x => bindings'[b] = bindings[b]
    OBVIOUS
  <1>2. bindings' \in Seq(Binding) /\ Len(bindings') = Len(bindings) /\ DOMAIN bindings' = DOMAIN bindings
    <2>1. bindings' = [b \in DOMAIN bindings |-> bindings'[b]] /\ \A b \in DOMAIN bindings : bindings'[b] \in Binding
      BY <1>0, <1>1
    <2> QED
      BY <1>0, <2>1, SameLength
  <1>3. \A b \in DOMAIN bindings : /\ bindings'[b].chat = bindings[b].chat /\ bindings'[b].ws = bindings[b].ws
                                   /\ bindings'[b].code = bindings[b].code
                                   /\ bindings[b].revoked => bindings'[b].revoked
    BY <1>1
  <1>4. RowsFit'
    <2>1. Update' = Update /\ Command' = Command
      BY <1>2 DEF Update, Command
    <2> QED
      BY <1>0, <1>2, <2>1 DEF RowsFit
  <1>5. CodesAreSpent' /\ CodeBindsOnce'
    BY <1>0, <1>2, <1>3 DEF CodesAreSpent, CodeBindsOnce
  <1>6. OneWorkspace'
    <2>1. \A b \in LiveBindings' : b \in LiveBindings /\ bindings'[b].chat = bindings[b].chat
      BY <1>2, <1>3 DEF LiveBindings
    <2> QED
      BY <1>0, <2>1 DEF OneWorkspace
  <1>7. AgentIsOwn'
    BY <1>0, <1>1, <1>2 DEF AgentIsOwn
  <1>8. ThreadIsIsolated'
    BY <1>0, <1>2, <1>3, Rows DEF ThreadIsIsolated
  <1> QED
    BY <1>4, <1>5, <1>6, <1>7, <1>8 DEF PairingInvariant, OneUsableCode, Usable

\* A revocation is told to the update in hand, if it is the chat's (late).
LEMMA RevokeStep == ASSUME PairingInvariant, NEW o \in Operators, Revoke(o) PROVE PairingInvariant'
  <1> DEFINE x == op[o].binding
  <1>0. /\ RowsFit /\ UpdateKnows /\ AgentIsOwn /\ bot \in Update /\ op \in [Operators -> Command]
        /\ \A b \in DOMAIN bindings : bindings[b] \in Binding
    BY Rows DEF PairingInvariant, RowsFit
  <1>1. /\ x \in DOMAIN bindings /\ x \in LiveBindings
        /\ op' = [op EXCEPT ![o] = NoCommand]
        /\ bot' = IF bot.binding = x THEN [bot EXCEPT !.late = TRUE] ELSE bot
        /\ UNCHANGED <<codes, threadOf, convs, agents, web>>
    BY DEF Revoke, LiveBindings
  <1>2. PICK row : row = [bindings[x] EXCEPT !.revoked = TRUE] /\ bindings' = [bindings EXCEPT ![x] = row]
    BY <1>1 DEF Revoke
  <1>3. /\ row \in Binding /\ row.chat = bindings[x].chat /\ row.ws = bindings[x].ws
        /\ row.code = bindings[x].code /\ row.revoked /\ row.agent = bindings[x].agent
    BY <1>0, <1>1, <1>2 DEF Binding
  <1> HIDE DEF x
  <1>4. row.agent # None => OwnerOf[row.agent] = row.ws
    BY <1>0, <1>1, <1>3 DEF AgentIsOwn
  <1>5. /\ bot' \in Update /\ bot'.at = bot.at /\ bot'.binding = bot.binding /\ bot'.agent = bot.agent
        /\ bot'.chat = bot.chat /\ bot'.conv = bot.conv
        /\ bot.late => bot'.late
        /\ bot.binding = x => bot'.late
    <2>1. CASE bot.binding = x
      <3>1. bot' = [bot EXCEPT !.late = TRUE]
        BY <1>1, <2>1
      <3> QED
        BY <1>0, <3>1 DEF Update
    <2>2. CASE bot.binding # x
      BY <1>0, <1>1, <2>2
    <2> QED
      BY <2>1, <2>2
  <1>6. UpdateKnows'
    <2>1. \A b \in DOMAIN bindings : b \in DOMAIN bindings' /\ bindings'[b].ws = bindings[b].ws
      BY <1>1, <1>2, <1>3
    <2>2. bot.binding \in LiveBindings /\ bot.binding # x => bot.binding \in LiveBindings'
      BY <1>1, <1>2 DEF LiveBindings
    <2>3. HasThread' = HasThread
      BY <1>1, <1>5 DEF HasThread, Mapped, Pair, Exists
    <2> QED
      BY <1>0, <1>1, <1>5, <2>1, <2>2, <2>3 DEF UpdateKnows
  <1>7. /\ op' \in [Operators -> Command]
        /\ \A p \in Operators : Holding(p)' => Holding(p) /\ op'[p].code = op[p].code /\ op'[p].ws = op[p].ws
    BY <1>0, <1>1, AtRest DEF Holding
  <1> QED
    BY <1>1, <1>2, <1>3, <1>4, <1>5, <1>6, <1>7, BindingStep

\* A selection gives the binding an agent that was found among its workspace's.
LEMMA SetActiveAgentStep == ASSUME PairingInvariant, SetActiveAgent PROVE PairingInvariant'
  <1> DEFINE x == bot.binding
  <1>0. /\ RowsFit /\ UpdateKnows /\ bot \in Update /\ op \in [Operators -> Command]
        /\ \A b \in DOMAIN bindings : bindings[b] \in Binding
    BY Rows DEF PairingInvariant, RowsFit
  <1>1. /\ bot.at = "select" /\ x \in DOMAIN bindings /\ x \in LiveBindings
        /\ bot' = [bot EXCEPT !.at = "thread"]
        /\ UNCHANGED <<codes, threadOf, convs, agents, op, web>>
    BY DEF SetActiveAgent, StillLive, LiveBindings
  <1>2. PICK row : row = [bindings[x] EXCEPT !.agent = bot.agent] /\ bindings' = [bindings EXCEPT ![x] = row]
    BY <1>1 DEF SetActiveAgent
  <1>3. bot.agent \in Agents /\ OwnerOf[bot.agent] = bindings[x].ws
    BY <1>0, <1>1 DEF UpdateKnows
  <1>4. /\ row \in Binding /\ row.chat = bindings[x].chat /\ row.ws = bindings[x].ws
        /\ row.code = bindings[x].code /\ row.revoked = bindings[x].revoked /\ row.agent = bot.agent
    BY <1>0, <1>1, <1>2, <1>3 DEF Binding
  <1> HIDE DEF x
  <1>5. /\ bot' \in Update /\ bot'.at = "thread" /\ bot'.binding = bot.binding /\ bot'.agent = bot.agent
        /\ bot'.late = bot.late
    BY <1>0, <1>1 DEF Update
  <1>6. UpdateKnows'
    <2>1. x \in LiveBindings' /\ x \in DOMAIN bindings' /\ bindings'[x].ws = bindings[x].ws
      BY <1>1, <1>2, <1>4 DEF LiveBindings
    <2> QED
      BY <1>0, <1>1, <1>3, <1>5, <2>1 DEF UpdateKnows, x
  <1>7. \A p \in Operators : Holding(p)' => Holding(p) /\ op'[p].code = op[p].code /\ op'[p].ws = op[p].ws
    BY <1>1 DEF Holding
  <1> QED
    BY <1>0, <1>1, <1>2, <1>3, <1>4, <1>5, <1>6, <1>7, BindingStep

--------------------------------------------------------------------------------
(* Threads, agents and the web client.                                     *)

\* A new conversation is the update's alone.
LEMMA CreateConversationStep == ASSUME PairingInvariant, CreateConversation PROVE PairingInvariant'
  <1> DEFINE n == Len(convs) + 1
             new == [ws |-> bindings[bot.binding].ws, agent |-> bot.agent, live |-> TRUE]
  <1>0. RowsFit /\ UpdateKnows /\ ThreadIsIsolated /\ bot \in Update /\ convs \in Seq(Thread)
    BY DEF PairingInvariant, RowsFit
  <1>1. /\ bot.at = "create" /\ convs' = Append(convs, new)
        /\ bot' = [bot EXCEPT !.at = "map", !.conv = Len(convs')]
        /\ UNCHANGED <<codes, bindings, threadOf, agents, op, web>>
    BY DEF CreateConversation
  <1>2. bot.agent \in Agents /\ bot.binding \in DOMAIN bindings /\ bindings[bot.binding].ws \in Workspaces
    BY <1>0, <1>1, Rows DEF UpdateKnows, Binding
  <1>3. new \in Thread /\ new.agent = bot.agent /\ new.ws = bindings[bot.binding].ws
    BY <1>2 DEF Thread
  <1> HIDE DEF new
  <1>4. /\ convs' \in Seq(Thread) /\ Len(convs') = n /\ Len(convs) \in Nat /\ n \in DOMAIN convs'
        /\ DOMAIN convs \subseteq DOMAIN convs' /\ n \notin DOMAIN convs
        /\ convs'[n] = new /\ \A k \in DOMAIN convs : convs'[k] = convs[k]
    BY <1>0, <1>1, <1>3, OneMore
  <1>5. /\ bot' \in Update' /\ bot'.at = "map" /\ bot'.binding = bot.binding /\ bot'.agent = bot.agent
        /\ bot'.late = bot.late /\ bot'.conv = n
    <2>1. Update \subseteq Update' /\ n \in 0..Len(convs')
      BY <1>1, <1>4 DEF Update
    <2>2. bot \in Update'
      BY <1>0, <2>1
    <2> QED
      BY <1>1, <1>4, <2>1, <2>2 DEF Update
  <1> HIDE DEF n
  <1>6. RowsFit'
    BY <1>0, <1>1, <1>4, <1>5 DEF RowsFit, Command
  <1>7. UpdateKnows'
    <2>1. HasThread' => HasThread
      BY <1>1, <1>4, <1>5, <1>0, Rows DEF HasThread, Mapped, Pair, Exists
    <2>2. LiveBindings' = LiveBindings
      BY <1>1 DEF LiveBindings
    <2>3. \A k \in DOMAIN threadOf : threadOf[k] # n
      BY <1>0, <1>4, Rows
    <2> QED
      BY <1>0, <1>1, <1>3, <1>4, <1>5, <2>1, <2>2, <2>3 DEF UpdateKnows
  <1>8. ThreadIsIsolated'
    BY <1>0, <1>1, <1>4, Rows DEF ThreadIsIsolated
  <1> QED
    BY <1>1, <1>6, <1>7, <1>8 DEF PairingInvariant, CodesAreSpent, Holding, OneWorkspace, LiveBindings,
         CodeBindsOnce, OneUsableCode, Usable, AgentIsOwn

\* The pair is given the conversation that was opened for it.
LEMMA UpsertStep == ASSUME PairingInvariant, Upsert PROVE PairingInvariant'
  <1>0. RowsFit /\ UpdateKnows /\ ThreadIsIsolated /\ bot \in Update
    BY DEF PairingInvariant, RowsFit
  <1>1. /\ bot.at = "map"
        /\ threadOf' = [k \in DOMAIN threadOf \cup {Pair} |-> IF k = Pair THEN bot.conv ELSE threadOf[k]]
        /\ bot' = IF bot.kind = "select" THEN NoUpdate ELSE [bot EXCEPT !.at = "turn", !.conv = bot.conv]
        /\ UNCHANGED <<codes, bindings, convs, agents, op, web>>
    BY DEF Upsert, OfThePair, Continue
  <1>2. /\ bot.binding \in DOMAIN bindings /\ bot.agent \in Agents
        /\ bot.conv \in DOMAIN convs /\ convs[bot.conv].agent = bot.agent
        /\ convs[bot.conv].ws = bindings[bot.binding].ws
        /\ \A k \in DOMAIN threadOf : threadOf[k] # bot.conv
    BY <1>0, <1>1 DEF UpdateKnows
  <1>3. /\ DOMAIN threadOf' = DOMAIN threadOf \cup {Pair} /\ threadOf'[Pair] = bot.conv
        /\ \A k \in DOMAIN threadOf : k # Pair => threadOf'[k] = threadOf[k]
        /\ Pair[1] = bot.binding /\ Pair[2] = bot.agent /\ Pair \in (DOMAIN bindings) \X Agents
    BY <1>1, <1>2 DEF Pair
  <1>4. threadOf' \in [DOMAIN threadOf' -> DOMAIN convs]
    BY <1>0, <1>1, <1>2, <1>3, Rows
  <1>5. bot' \in Update /\ UpdateKnows'
    <2>1. CASE bot.kind = "select"
      BY <1>0, <1>1, <2>1, AtRest DEF UpdateKnows
    <2>2. CASE bot.kind # "select"
      <3>1. bot' = [bot EXCEPT !.at = "turn", !.conv = bot.conv]
        BY <1>1, <2>2
      <3>2. /\ bot' \in Update /\ bot'.at = "turn" /\ bot'.binding = bot.binding /\ bot'.agent = bot.agent
            /\ bot'.late = bot.late /\ bot'.conv = bot.conv
        BY <1>0, <3>1 DEF Update
      <3>3. LiveBindings' = LiveBindings
        BY <1>1 DEF LiveBindings
      <3> QED
        BY <1>0, <1>1, <1>2, <3>2, <3>3 DEF UpdateKnows
    <2> QED
      BY <2>1, <2>2
  <1>6. RowsFit'
    BY <1>0, <1>1, <1>3, <1>4, <1>5 DEF RowsFit, Update, Command
  <1>7. ThreadIsIsolated'
    <2>1. ASSUME NEW k \in DOMAIN threadOf'
          PROVE  /\ convs[threadOf'[k]].agent = k[2] /\ convs[threadOf'[k]].ws = bindings[k[1]].ws
                 /\ \A l \in DOMAIN threadOf' : threadOf'[k] = threadOf'[l] => k = l
      <3>1. CASE k = Pair
        BY <1>2, <1>3, <3>1
      <3>2. CASE k # Pair
        <4>1. k \in DOMAIN threadOf /\ threadOf'[k] = threadOf[k]
          BY <1>3, <3>2
        <4> QED
          BY <1>0, <1>2, <1>3, <3>2, <4>1 DEF ThreadIsIsolated
      <3> QED
        BY <3>1, <3>2
    <2> QED
      BY <1>1, <2>1 DEF ThreadIsIsolated
  <1> QED
    BY <1>1, <1>5, <1>6, <1>7 DEF PairingInvariant, CodesAreSpent, Holding, OneWorkspace, LiveBindings,
         CodeBindsOnce, OneUsableCode, Usable, AgentIsOwn

\* The web client deletes agents and conversations, and gives nothing to anybody.
LEMMA WebStep ==
  ASSUME PairingInvariant, CountConversations \/ DeleteAgent \/ DeleteConversation
  PROVE  PairingInvariant'
  <1>0. RowsFit /\ UpdateKnows /\ ThreadIsIsolated /\ convs \in Seq(Thread)
        /\ \A k \in DOMAIN convs : convs[k] \in Thread
    BY Rows DEF PairingInvariant, RowsFit
  <1>1. UNCHANGED <<codes, bindings, threadOf, bot, op>>
    BY DEF CountConversations, DeleteAgent, DeleteConversation
  <1>2. agents' \subseteq Agents /\ web' \in Agents \cup {None}
    BY <1>0 DEF RowsFit, CountConversations, DeleteAgent, DeleteConversation
  <1>3. /\ convs' \in Seq(Thread) /\ Len(convs') = Len(convs) /\ DOMAIN convs' = DOMAIN convs
        /\ \A k \in DOMAIN convs : /\ convs'[k].agent = convs[k].agent /\ convs'[k].ws = convs[k].ws
                                   /\ convs'[k].live => convs[k].live
    <2>1. CASE UNCHANGED convs
      BY <1>0, <2>1
    <2>2. CASE DeleteConversation
      <3>1. PICK k \in DOMAIN convs : convs' = [convs EXCEPT ![k].live = FALSE]
        BY <2>2 DEF DeleteConversation
      <3>2. PICK row : row = [convs[k] EXCEPT !.live = FALSE] /\ convs' = [convs EXCEPT ![k] = row]
        BY <1>0, <3>1
      <3>3. row \in Thread /\ row.agent = convs[k].agent /\ row.ws = convs[k].ws /\ row.live = FALSE
        BY <1>0, <3>2 DEF Thread
      <3>4. \A j \in DOMAIN convs : convs'[j] = IF j = k THEN row ELSE convs[j]
        BY <3>2
      <3>5. convs' = [j \in DOMAIN convs |-> convs'[j]] /\ \A j \in DOMAIN convs : convs'[j] \in Thread
        BY <1>0, <3>2, <3>3, <3>4
      <3>6. convs' \in Seq(Thread) /\ Len(convs') = Len(convs) /\ DOMAIN convs' = DOMAIN convs
        BY <1>0, <3>5, SameLength
      <3> QED
        BY <3>3, <3>4, <3>6
    <2> QED
      BY <2>1, <2>2 DEF CountConversations, DeleteAgent
  <1>4. RowsFit'
    BY <1>0, <1>1, <1>2, <1>3 DEF RowsFit, Update, Command
  <1>5. UpdateKnows'
    BY <1>0, <1>1, <1>3, UpdateStillKnows
  <1>6. ThreadIsIsolated'
    BY <1>0, <1>1, <1>3, Rows DEF ThreadIsIsolated
  <1> QED
    BY <1>1, <1>4, <1>5, <1>6 DEF PairingInvariant, CodesAreSpent, Holding, OneWorkspace, LiveBindings,
         CodeBindsOnce, OneUsableCode, Usable, AgentIsOwn

--------------------------------------------------------------------------------
(* The theorems.                                                           *)

\* Every step keeps PairingInvariant.
LEMMA PairingStep == PairingInvariant /\ [PairingNext]_pairingVars => PairingInvariant'
  <1> SUFFICES ASSUME PairingInvariant, [PairingNext]_pairingVars PROVE PairingInvariant'
    OBVIOUS
  <1>1. CASE CommandStart \/ RequireBinding \/ FindAgent \/ FindThread \/ FindToResume
              \/ FindAgentAgain \/ BeginTurn \/ BotFails
    BY <1>1, BotReads
  <1>2. CASE Issue \/ Expire
    BY <1>2, IssueStep, CodeStep
  <1>3. CASE SetActiveAgent \/ CreateConversation \/ Upsert
    BY <1>3, SetActiveAgentStep, CreateConversationStep, UpsertStep
  <1>4. CASE CountConversations \/ DeleteAgent \/ DeleteConversation
    BY <1>4, WebStep
  <1>5. ASSUME NEW o \in Operators, Redeem(o) \/ CreateBinding(o) \/ Revoke(o) PROVE PairingInvariant'
    BY <1>5, CodeStep, CreateBindingStep, RevokeStep
  <1>6. ASSUME NEW o \in Operators, CheckUnbound(o) \/ FindToRevoke(o) \/ OperatorFails(o) PROVE PairingInvariant'
    BY <1>6, CommandReads
  <1>7. CASE UNCHANGED pairingVars
    BY <1>7 DEF pairingVars, PairingInvariant, RowsFit, Update, Command, CodesAreSpent, Holding, UpdateKnows, HasThread,
                Mapped, Pair, Exists, OneWorkspace, LiveBindings, CodeBindsOnce, OneUsableCode,
                Usable, AgentIsOwn, ThreadIsIsolated
  <1> QED
    BY <1>1, <1>2, <1>3, <1>4, <1>5, <1>6, <1>7 DEF PairingNext

\* The inductive invariant of pairing, however operators, bot and web interleave.
THEOREM PairingInductive == PairingSpec => []PairingInvariant
  <1>1. PairingInit => PairingInvariant
    <2> SUFFICES ASSUME PairingInit PROVE PairingInvariant
      OBVIOUS
    <2>1. /\ codes = <<>> /\ bindings = <<>> /\ convs = <<>> /\ threadOf = <<>>
          /\ agents = Agents /\ web = None /\ bot = NoUpdate /\ op = [o \in Operators |-> NoCommand]
      BY DEF PairingInit
    <2>2. DOMAIN codes = {} /\ DOMAIN bindings = {} /\ DOMAIN convs = {} /\ DOMAIN threadOf = {}
      BY <2>1
    <2>3. Len(codes) = 0 /\ Len(bindings) = 0 /\ Len(convs) = 0
      BY <2>1
    <2>4. NoUpdate \in Update /\ NoUpdate.at = "idle" /\ NoCommand \in Command /\ NoCommand.at = "idle"
      BY <2>3 DEF NoUpdate, Update, NoCommand, Command
    <2>5. RowsFit
      <3>1. threadOf \in [DOMAIN threadOf -> DOMAIN convs]
        BY <2>1, <2>2
      <3> QED
        BY <2>1, <2>2, <2>4, <3>1 DEF RowsFit
    <2>6. \A o \in Operators : ~Holding(o)
      BY <2>1, <2>4 DEF Holding
    <2>7. LiveBindings = {}
      BY <2>2 DEF LiveBindings
    <2> QED
      BY <2>1, <2>2, <2>4, <2>5, <2>6, <2>7
         DEF PairingInvariant, CodesAreSpent, UpdateKnows, OneWorkspace, CodeBindsOnce, OneUsableCode, AgentIsOwn,
             ThreadIsIsolated
  <1> QED
    BY <1>1, PairingStep, PTL DEF PairingSpec

\* A code binds one chat once, a chat reaches one workspace and only its agents, each in
\* a thread of its own.
THEOREM PairingHolds == PairingSpec => []PairingIsSound
  <1>1. PairingInvariant => PairingIsSound
    <2> SUFFICES ASSUME PairingInvariant PROVE PairingIsSound
      OBVIOUS
    <2>1. RowsFit
      BY DEF PairingInvariant
    <2>2. PairingTypeOK
      <3>1. \A i \in DOMAIN codes : codes[i].chat \in PrivateChats /\ {codes[i].consumed, codes[i].expired} \subseteq BOOLEAN
        BY <2>1, Rows DEF Code
      <3>2. \A b \in DOMAIN bindings : bindings[b].chat \in PrivateChats /\ bindings[b].ws \in Workspaces
                                       /\ bindings[b].agent \in Agents \cup {None}
        BY <2>1, Rows DEF Binding
      <3>3. \A o \in Operators : op[o].code \in 0..Len(codes) /\ op[o].binding \in 0..Len(bindings)
        BY <2>1 DEF RowsFit, Command
      <3>4. bot.binding \in 0..Len(bindings) /\ bot.conv \in 0..Len(convs)
        BY <2>1 DEF RowsFit, Update
      <3> QED
        BY <2>1, <3>1, <3>2, <3>3, <3>4, Rows DEF PairingTypeOK, RowsFit
    <2> QED
      BY <2>2 DEF PairingInvariant, PairingIsSound
  <1> QED
    BY <1>1, PairingInductive, PTL

\* A pair's thread is replaced only once it has been deleted.
THEOREM ThreadsAreKept == PairingSpec => ThreadIsKept
  <1> DEFINE Replaced == \A k \in DOMAIN threadOf : threadOf'[k] # threadOf[k] => ~convs[threadOf[k]].live
  <1>1. PairingInvariant /\ [PairingNext]_pairingVars => [Replaced]_pairingVars
    <2> SUFFICES ASSUME PairingInvariant, PairingNext, NEW k \in DOMAIN threadOf, threadOf'[k] # threadOf[k]
                 PROVE  ~convs[threadOf[k]].live
      OBVIOUS
    <2>1. CASE Upsert
      <3>1. threadOf' = [j \in DOMAIN threadOf \cup {Pair} |-> IF j = Pair THEN bot.conv ELSE threadOf[j]]
        BY <2>1 DEF Upsert, OfThePair
      <3>2. k = Pair
        BY <3>1
      <3>3. ~HasThread
        BY <2>1 DEF PairingInvariant, UpdateKnows, Upsert
      <3> QED
        BY <3>2, <3>3 DEF HasThread, Mapped, Exists
    <2>2. CASE ~Upsert
      BY <2>2 DEF PairingNext, CommandStart, Issue, Expire, RequireBinding, FindAgent, SetActiveAgent, FindThread,
           FindToResume, FindAgentAgain, CreateConversation, BeginTurn, BotFails, CountConversations, DeleteAgent,
           DeleteConversation, Redeem, CheckUnbound, CreateBinding, FindToRevoke, Revoke, OperatorFails
    <2> QED
      BY <2>1, <2>2
  <1> QED
    BY <1>1, PairingInductive, PTL DEF PairingSpec, ThreadIsKept

\* A turn begins for a chat that is bound to its workspace, or that was until after its
\* update was taken up.
THEOREM RevokedRefused == PairingSpec => RevokedIsRefused
  <1> DEFINE Bound == BeginTurn => /\ bot.binding \in LiveBindings \/ bot.late
                                   /\ convs[bot.conv].ws = bindings[bot.binding].ws
  <1>1. PairingInvariant /\ [PairingNext]_pairingVars => [Bound]_pairingVars
    BY DEF PairingInvariant, UpdateKnows, BeginTurn
  <1> QED
    BY <1>1, PairingInductive, PTL DEF PairingSpec, RevokedIsRefused

\* A revoked binding stays as it was, and a selection changes only the binding its own
\* update found.
THEOREM RevokedFinal == PairingSpec => RevokedIsFinal
  <1> DEFINE Final == \A b \in DOMAIN bindings :
                        /\ bindings[b].revoked => bindings'[b] = bindings[b]
                        /\ bindings'[b].agent # bindings[b].agent => b = bot.binding
  <1>1. PairingInvariant /\ [PairingNext]_pairingVars => [Final]_pairingVars
    <2> SUFFICES ASSUME PairingInvariant, PairingNext, NEW b \in DOMAIN bindings
                 PROVE  /\ bindings[b].revoked => bindings'[b] = bindings[b]
                        /\ bindings'[b].agent # bindings[b].agent => b = bot.binding
      OBVIOUS
    <2>0. bindings \in Seq(Binding) /\ bindings[b] \in Binding
      BY Rows DEF PairingInvariant, RowsFit
    <2>1. ASSUME NEW o \in Operators, CreateBinding(o) PROVE bindings'[b] = bindings[b]
      <3> DEFINE new == [ws |-> op[o].ws, chat |-> codes[op[o].code].chat, agent |-> None,
                         revoked |-> FALSE, code |-> op[o].code]
      <3>1. bindings' = Append(bindings, new)
        BY <2>1 DEF CreateBinding
      <3>2. new \in Binding
        <4>1. op[o].ws \in Workspaces /\ op[o].code \in DOMAIN codes
          BY <2>1 DEF PairingInvariant, CodesAreSpent, Holding, CreateBinding
        <4>2. codes[op[o].code] \in Code /\ op[o].code \in Nat
          BY <4>1, Rows DEF PairingInvariant
        <4> QED
          BY <4>1, <4>2 DEF Binding, Code
      <3> HIDE DEF new
      <3> QED
        BY <2>0, <3>1, <3>2, OneMore
    <2>2. ASSUME NEW o \in Operators, Revoke(o)
          PROVE  /\ bindings[b].revoked => bindings'[b] = bindings[b]
                 /\ bindings'[b].agent = bindings[b].agent
      <3>1. /\ ~bindings[op[o].binding].revoked
            /\ bindings' = [bindings EXCEPT ![op[o].binding] = [bindings[op[o].binding] EXCEPT !.revoked = TRUE]]
        BY <2>0, <2>2 DEF Revoke, LiveBindings
      <3>2. CASE b = op[o].binding
        <4>1. bindings'[b] = [bindings[b] EXCEPT !.revoked = TRUE]
          BY <3>1, <3>2
        <4> QED
          BY <2>0, <3>1, <3>2, <4>1 DEF Binding
      <3>3. CASE b # op[o].binding
        BY <3>1, <3>3
      <3> QED
        BY <3>2, <3>3
    <2>3. CASE SetActiveAgent
      <3>1. /\ ~bindings[bot.binding].revoked
            /\ \A d \in DOMAIN bindings : d # bot.binding => bindings'[d] = bindings[d]
        BY <2>3 DEF SetActiveAgent, StillLive, LiveBindings
      <3> QED
        BY <3>1
    <2>4. CASE ~SetActiveAgent /\ \A o \in Operators : ~CreateBinding(o) /\ ~Revoke(o)
      <3>1. bindings' = bindings
        BY <2>4 DEF PairingNext, CommandStart, Issue, Expire, RequireBinding, FindAgent, FindThread,
             FindToResume, FindAgentAgain, CreateConversation, Upsert, BeginTurn, BotFails, CountConversations,
             DeleteAgent, DeleteConversation, Redeem, CheckUnbound, FindToRevoke, OperatorFails
      <3> QED
        BY <3>1
    <2> QED
      BY <2>1, <2>2, <2>3, <2>4
  <1> QED
    BY <1>1, PairingInductive, PTL DEF PairingSpec, RevokedIsFinal

\* What a pairing gives lasts as long as it does and no longer.
THEOREM PairingEndures == PairingSpec => PairingLasts
  BY ThreadsAreKept, RevokedRefused, RevokedFinal DEF PairingLasts, RevocationHolds
================================================================================
