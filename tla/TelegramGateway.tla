---------------------------- MODULE TelegramGateway ----------------------------
(***************************************************************************)
(* How updates reach a turn from Telegram: the long-polling loop and its   *)
(* stored cursor (telegram/adapters/poller), the single entry point        *)
(* HandleUpdate, and the one-turn-per-chat slot (telegram/app).  A turn    *)
(* itself is ChatTurn's; here it begins and ends.                          *)
(*                                                                         *)
(* Telegram keeps an update until a getUpdates call names a higher offset. *)
(* The process may die anywhere and is started again from the cursor.      *)
(***************************************************************************)
EXTENDS Naturals, Sequences

CONSTANTS
  Chats,        \* paired private chats
  MaxUpdates,   \* bound: updates ever sent
  MaxCrashes    \* bound: times the process dies or is stopped

ASSUME GatewayAssumption == MaxUpdates \in Nat /\ MaxCrashes \in Nat

VARIABLES
  updates,    \* what the users sent, in update-id order
  confirmed,  \* Telegram's side: updates below it are gone
  cursor,     \* telegram.update_cursor.last_update_id: the next offset
  offset,     \* the poller's own copy
  pc,         \* poll, save, dispatch, turn, or down
  batch,      \* ids received and not handled
  busy,       \* inflight: chats with a turn running
  fate,       \* id -> what became of it (history)
  runs,       \* id -> turns begun for it (history)
  crashes     \* times the process died (history)

pollVars == <<confirmed, cursor, offset>>
vars == <<updates, pollVars, pc, batch, busy, fate, runs, crashes>>

Ids == 1..MaxUpdates
Kinds == {"turn", "command"}   \* text and [Continuar]; /status, /agents, ...

Init ==
  /\ updates = <<>>
  /\ confirmed = 0 /\ cursor = 0 /\ offset = 0
  /\ pc = "poll" /\ batch = <<>> /\ busy = {}
  /\ fate = [i \in Ids |-> "waiting"]
  /\ runs = [i \in Ids |-> 0]
  /\ crashes = 0

\* Somebody types, or presses a button.
Post ==
  /\ Len(updates) < MaxUpdates
  /\ \E c \in Chats, k \in Kinds :
       updates' = Append(updates, [chat |-> c, kind |-> k, during |-> c \in busy])
  /\ UNCHANGED <<pollVars, pc, batch, busy, fate, runs, crashes>>

--------------------------------------------------------------------------------
(* Poller.Run.                                                             *)

AtLeast(m, n) == IF m >= n THEN m ELSE n

\* getUpdates: naming the offset confirms everything below it, whether or not
\* the answer arrives.
Confirm == confirmed' = AtLeast(confirmed, offset)

Poll ==
  /\ pc = "poll"
  /\ Confirm
  /\ \E hi \in AtLeast(1, confirmed')..Len(updates) :
       batch' = [k \in 1..(hi + 1 - AtLeast(1, confirmed')) |->
                   AtLeast(1, confirmed') + k - 1]
  /\ pc' = "save"
  /\ UNCHANGED <<updates, cursor, offset, busy, fate, runs, crashes>>

PollFails ==
  /\ pc = "poll"
  /\ Confirm
  /\ UNCHANGED <<updates, cursor, offset, pc, batch, busy, fate, runs, crashes>>

HighestOf(ids) == CHOOSE i \in {ids[k] : k \in DOMAIN ids} :
                    \A k \in DOMAIN ids : ids[k] <= i
HighestReceived == HighestOf(batch)                            \* faulty
NextOffset == HighestOf(batch) + 1

\* The cursor advances before the work, and never back.
SaveCursor ==
  /\ pc = "save"
  /\ cursor' = AtLeast(cursor, NextOffset)
  /\ offset' = NextOffset
  /\ pc' = "dispatch"
  /\ UNCHANGED <<updates, confirmed, batch, busy, fate, runs, crashes>>

\* A save reported as failed drops the batch; it may have been made.
SaveFails ==
  /\ pc = "save"
  /\ cursor' \in {cursor, AtLeast(cursor, NextOffset)}
  /\ batch' = <<>>
  /\ pc' = "poll"
  /\ UNCHANGED <<updates, confirmed, offset, busy, fate, runs, crashes>>

--------------------------------------------------------------------------------
(* dispatch and HandleUpdate: one update at a time, each to its end.       *)

Current == Head(batch)

AbandonBatch(f) ==                                             \* faulty
  /\ fate' = [fate EXCEPT ![Current] = f]
  /\ batch' = <<>>
  /\ pc' = "poll"
NeverPollsAgain(f) ==                                          \* faulty
  /\ fate' = [fate EXCEPT ![Current] = f]
  /\ batch' = Tail(batch)
  /\ pc' = "dispatch"
\* What handling it came to; an error does not stop the batch.
Handled(f) ==
  /\ fate' = [fate EXCEPT ![Current] = f]
  /\ batch' = Tail(batch)
  /\ pc' = IF Len(batch) = 1 THEN "poll" ELSE "dispatch"

Dispatching(kind) ==
  /\ pc = "dispatch"
  /\ batch # <<>>
  /\ updates[Current].kind = kind

AnswerCommand ==
  /\ Dispatching("command")
  /\ Handled("answered")
  /\ UNCHANGED <<updates, pollVars, busy, runs, crashes>>

\* Not bound, no agent selected, a read failed: no turn.
RefuseTurn ==
  /\ Dispatching("turn")
  /\ Handled("refused")
  /\ UNCHANGED <<updates, pollVars, busy, runs, crashes>>

\* inflight.acquire: a chat whose slot is taken is told so.
AskForTurn ==
  /\ Dispatching("turn")
  /\ IF updates[Current].chat \in busy
     THEN Handled("busy") /\ UNCHANGED <<busy, runs>>
     ELSE /\ busy' = busy \cup {updates[Current].chat}
          /\ runs' = [runs EXCEPT ![Current] = @ + 1]
          /\ pc' = "turn"
          /\ UNCHANGED <<batch, fate>>
  /\ UNCHANGED <<updates, pollVars, crashes>>

KeepSlot == UNCHANGED busy                                     \* faulty
Release == busy' = busy \ {updates[Current].chat}
EndTurn ==
  /\ pc = "turn"
  /\ Release
  /\ Handled("answered")
  /\ UNCHANGED <<updates, pollVars, runs, crashes>>

--------------------------------------------------------------------------------
(* The process stops, with everything it held, and starts again.  What the *)
(* cursor had moved past and nobody had finished is lost.                  *)

Crash ==
  /\ pc # "down"
  /\ crashes < MaxCrashes
  /\ crashes' = crashes + 1
  /\ pc' = "down" /\ batch' = <<>> /\ busy' = {}
  /\ fate' = [i \in Ids |-> IF fate[i] = "waiting" /\ i < cursor THEN "lost" ELSE fate[i]]
  /\ UNCHANGED <<updates, pollVars, runs>>

FromMemory == 0                                                \* faulty
StartOffset == cursor
Start ==
  /\ pc = "down"
  /\ offset' = StartOffset
  /\ pc' = "poll"
  /\ UNCHANGED <<updates, confirmed, cursor, batch, busy, fate, runs, crashes>>

Handle == AnswerCommand \/ RefuseTurn \/ AskForTurn \/ EndTurn
Next == Post \/ Poll \/ PollFails \/ SaveCursor \/ SaveFails \/ Handle \/ Crash \/ Start

Spec == Init /\ [][Next]_vars

\* Handling is bounded by the turn's timeout, and whoever runs the product
\* starts it again.  Telegram and the database fail at times, not for ever:
\* the loop retries both with a backoff and no limit.
FairSpec == Spec /\ WF_vars(Handle) /\ WF_vars(Start) /\ SF_vars(Poll) /\ SF_vars(SaveCursor)

--------------------------------------------------------------------------------

Waiting == {batch[k] : k \in DOMAIN batch}
Fates == {"waiting", "answered", "refused", "busy", "lost"}

TypeOK ==
  /\ updates \in Seq([chat : Chats, kind : Kinds, during : BOOLEAN])
  /\ Len(updates) <= MaxUpdates
  /\ {confirmed, cursor, offset} \subseteq 0..(MaxUpdates + 1)
  /\ pc \in {"poll", "save", "dispatch", "turn", "down"}
  /\ batch \in Seq(1..Len(updates))
  /\ pc \in {"save", "dispatch", "turn"} <=> batch # <<>>
  /\ busy \subseteq Chats
  /\ fate \in [Ids -> Fates]
  /\ runs \in [Ids -> Nat]
  /\ crashes \in 0..MaxCrashes

\* At most once: no crash, lost answer or failed save makes an update begin a
\* second turn; "a replayed message is a second paid provider call and a second
\* execution of whatever writes the first turn performed" (telegram migration).
AtMostOnce == \A i \in Ids : runs[i] <= 1

\* An update the poller has moved past was handled, is in hand, or was lost
\* with the process: errors, refusals, failed saves and restarts skip none.
NothingSkipped ==
  \A i \in 1..Len(updates) : i < offset => fate[i] # "waiting" \/ i \in Waiting

\* Neither twice nor never, as far as the poller has got.
DeliveredOnce == AtMostOnce /\ NothingSkipped

\* Turns begin in the order their messages were sent, across restarts too.
BeginInOrder == [][\A i, j \in Ids : runs'[i] > runs[i] /\ j > i => runs[j] = 0]_vars

\* The slot is never found taken: dispatch is sequential and every end of a
\* turn frees it, so the only refusals are about pairing and agents.
SlotIsFree == \A i \in Ids : fate[i] # "busy"

\* The strengthening that makes the invariants above inductive.  Telegram never
\* confirmed more than the poller asked for, nor the poller asked for more than
\* the cursor covers.
Offsets ==
  /\ confirmed <= offset /\ offset <= cursor
  /\ cursor <= Len(updates) + 1
  /\ pc = "down" => \A i \in 1..Len(updates) : i < cursor => fate[i] # "waiting"

\* A batch is an interval of ids: it starts where the poller asked, and lies
\* below the cursor once that is saved.
Interval ==
  /\ \A k \in DOMAIN batch : batch[k] = batch[1] + k - 1
  /\ pc = "save" => batch[1] = AtLeast(1, offset)
  /\ pc \in {"dispatch", "turn"} => batch[Len(batch)] < offset

\* Turns began only for ids that were saved, all of them before those in hand.
Begun ==
  \A i \in Ids : runs[i] > 0 =>
    /\ i < cursor
    /\ pc # "down" => i < offset
    /\ pc \in {"dispatch", "turn"} => i < batch[1] \/ (pc = "turn" /\ i = batch[1])

Slot == busy = IF pc = "turn" THEN {updates[Current].chat} ELSE {}

IInv ==
  /\ TypeOK /\ AtMostOnce /\ NothingSkipped /\ SlotIsFree
  /\ Offsets /\ Interval /\ Begun /\ Slot

\* Every update is handled in the end, or is lost with a process that died
\* having moved the cursor past it.
EveryUpdateSettles == \A i \in Ids : i <= Len(updates) ~> fate[i] # "waiting"

--------------------------------------------------------------------------------
(* A statement of the sources that the code does not keep.                 *)

\* "A second message arriving while the first is still being answered is
\* REFUSED with a sentence, not queued and not run alongside" (inflight.go).
SecondMessageRefused ==
  \A i \in 1..Len(updates) : updates[i].during => runs[i] = 0
================================================================================
