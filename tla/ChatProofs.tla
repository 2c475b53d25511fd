------------------------------- MODULE ChatProofs -------------------------------
(***************************************************************************)
(* Proofs about a turn and about the day it is spent in.                   *)
(*                                                                         *)
(* ChatTurn, for every set of tools, every bound and every budget: IInv is *)
(* inductive; the properties and the refinement of WriteLedger follow.     *)
(*                                                                         *)
(* ChatDay, for every number of operations side by side, every budget and  *)
(* every day: DayInvariant is inductive.  What bounds a day is not what an *)
(* operation has spent but what it may still come to: it was let in with   *)
(* what the day had left, so the day's tokens and all the room given out   *)
(* never pass one limit and one call for each operation.                   *)
(***************************************************************************)
EXTENDS ChatTurn, ChatDay, FiniteLemmas, TLAPS

USE ToolAssumption, BoundAssumption DEF ToolAssumption, BoundAssumption

\* A turn that has not been admitted satisfies the invariant (runTurn).
LEMMA InitIInv == Init => IInv
  <1> SUFFICES ASSUME Init PROVE IInv
    OBVIOUS
  <1>1. TypeOK
    <2>1. round \in 1..MaxToolRounds /\ pos \in 1..MaxCalls
      BY DEF Init
    <2>2. used \in Nat /\ spent \in Nat /\ terminals \in Nat
      BY DEF Init
    <2> QED
      BY <2>1, <2>2 DEF Init, TypeOK, Phase
  <1>2. NothingAskedIsLost /\ CeilingNeverRuns /\ Account /\ Numbered
    BY DEF Init, NothingAskedIsLost, CeilingNeverRuns, Account, Numbered, Settled,
           CallsOf, Decided, RoundCalls
  <1>3. Effects /\ Stored /\ Budget
    BY DEF Init, Effects, Stored, Budget, Executed, CallsOf
  <1> QED
    BY <1>1, <1>2, <1>3 DEF IInv

--------------------------------------------------------------------------------
(* Type correctness, action by action.                                     *)

\* What a provider may deliver in one answer are calls (streamOneCall).
LEMMA DeliveredAreCalls ==
  ASSUME TypeOK, NEW n \in 1..MaxCalls, NEW ask \in [1..n -> Tools \X CallIds]
  PROVE  {[round |-> round, pos |-> i, tool |-> ask[i][1], id |-> ask[i][2]] :
            i \in 1..n} \subseteq Call
  <1> SUFFICES ASSUME NEW i \in 1..n
               PROVE  [round |-> round, pos |-> i, tool |-> ask[i][1],
                       id |-> ask[i][2]] \in Call
    OBVIOUS
  <1>1. ask[i] \in Tools \X CallIds
    OBVIOUS
  <1>2. ask[i][1] \in Tools /\ ask[i][2] \in CallIds
    BY <1>1
  <1>3. i \in 1..MaxCalls /\ round \in 1..MaxToolRounds
    BY DEF TypeOK
  <1> QED
    BY <1>2, <1>3 DEF Call

\* No step takes a variable out of its type.
LEMMA TypeStep == IInv /\ [Next]_vars => TypeOK'
  <1> SUFFICES ASSUME IInv, [Next]_vars PROVE TypeOK'
    OBVIOUS
  <1> USE DEF IInv, loopVars, gateVars, storeVars, ctxVars
  <1>1. CASE Admit \/ Refuse \/ StoreQuestion \/ BuildContext
    BY <1>1 DEF TypeOK, Admit, Refuse, StoreQuestion, BuildContext, Phase, Ended
  <1>2. CASE Gate \/ OpenFails \/ OpenStream
    BY <1>2 DEF TypeOK, Gate, OpenFails, OpenStream, Leave, Phase, Ended, Finish, Exits
  <1>3. CASE StreamBreaks \/ SinkFails \/ StreamDrains
    BY <1>3 DEF TypeOK, StreamBreaks, SinkFails, StreamDrains, Leave, Charge,
                TerminalFor, Phase, Ended, Finish, Exits
  <1>4. CASE DeliverCalls
    BY <1>4, DeliveredAreCalls DEF TypeOK, DeliverCalls
  <1>5. CASE Answered \/ BeginTools
    BY <1>5 DEF TypeOK, Answered, BeginTools, Leave, Phase, Ended, Finish, Exits
  <1>6. CASE StopAtCeiling \/ StopWithCallsPending
    <2>1. RoundCalls \subseteq Call
      BY DEF TypeOK, RoundCalls
    <2>2. outcomes' \subseteq Outcome
      <3>1. PICK code \in RefusalCodes : RefuseRequestedCalls(code)
        BY <1>6 DEF StopAtCeiling, StopWithCallsPending, RefusalCodes
      <3> SUFFICES ASSUME NEW o \in outcomes' PROVE o \in Outcome
        OBVIOUS
      <3>2. CASE o \in outcomes
        BY <3>2 DEF TypeOK
      <3>3. CASE \E c \in RoundCalls :
                   o = [call |-> c, status |-> "not_executed", code |-> code]
        <4>1. PICK c \in RoundCalls :
                o = [call |-> c, status |-> "not_executed", code |-> code]
          BY <3>3
        <4>2. c \in Call
          BY <2>1
        <4> QED
          BY <4>1, <4>2 DEF Outcome, Status
      <3> QED
        BY <3>1, <3>2, <3>3 DEF RefuseRequestedCalls
    <2> QED
      BY <1>6, <2>2 DEF TypeOK, StopAtCeiling, StopWithCallsPending, Leave,
         TerminalFor, Phase, Ended, Finish, Exits
  <1>7. CASE ExecuteCall
    <2>1. PICK c \in RoundCalls :
            /\ c.pos = pos
            /\ ToolRefused(c) \/ ToolSucceeds(c) \/ ToolFails(c)
            /\ Advance(c)
      BY <1>7 DEF ExecuteCall
    <2>2. c \in Call /\ c \in asked
      BY DEF TypeOK, RoundCalls
    <2>3. outcomes' \subseteq Outcome
      <3>1. PICK st \in Status, code \in {""} \cup RefusalCodes \cup FailureCodes :
              Record(c, st, code)
        BY <2>1 DEF ToolRefused, ToolSucceeds, ToolFails, Refusals, FailureStatus,
                    Status, Ran, RefusalCodes
      <3>2. [call |-> c, status |-> st, code |-> code] \in Outcome
        BY <2>2 DEF Outcome
      <3> QED
        BY <3>1, <3>2 DEF Record, TypeOK
    <2>4. applied' \subseteq asked
      BY <2>1, <2>2 DEF TypeOK, ToolRefused, ToolSucceeds, ToolFails
    <2>5. phase' \in Phase /\ round' \in 1..MaxToolRounds /\ pos' \in 1..MaxCalls
      <3>1. CASE \E d \in RoundCalls : d.pos = c.pos + 1
        <4>1. PICK d \in RoundCalls : d.pos = c.pos + 1
          BY <3>1
        <4>2. d.pos \in 1..MaxCalls
          BY DEF TypeOK, RoundCalls, Call
        <4> QED
          BY <2>1, <3>1, <4>1, <4>2 DEF Advance, TypeOK
      <3>2. CASE ~\E d \in RoundCalls : d.pos = c.pos + 1
        BY <2>1, <3>2, <1>7 DEF Advance, TypeOK, Account, ExecuteCall, Phase
      <3> QED
        BY <3>1, <3>2
    <2> QED
      BY <1>7, <2>3, <2>4, <2>5 DEF TypeOK, ExecuteCall
  <1>8. CASE StoreAnswer \/ AnswerNotStored \/ StoreAudit \/ AuditNotStored
    BY <1>8 DEF TypeOK, StoreAnswer, AnswerNotStored, StoreAudit, AuditNotStored,
                EmitTerminal, Phase, Ended
  <1>9. CASE Cancel \/ DeadlinePasses \/ InheritedDeadlineFires \/ Crash
    BY <1>9 DEF TypeOK, Cancel, DeadlinePasses, InheritedDeadlineFires, Crash, Phase, Ended
  <1>10. CASE UNCHANGED vars
    BY <1>10 DEF TypeOK, vars
  <1> QED
    BY <1>1, <1>2, <1>3, <1>4, <1>5, <1>6, <1>7, <1>8, <1>9, <1>10 DEF Next, Turn

--------------------------------------------------------------------------------
(* What the two ways of deciding calls add to the account.                 *)

\* Recording an outcome for a call decides that call and no other.
LEMMA RecordDecides ==
  ASSUME NEW c, NEW st, NEW code, Record(c, st, code)
  PROVE  CallsOf(outcomes') = Decided \cup {c}
  <1> DEFINE new == [call |-> c, status |-> st, code |-> code]
  <1>1. new \in outcomes' /\ new.call = c /\ outcomes' = outcomes \cup {new}
    BY DEF Record
  <1> HIDE DEF new
  <1> QED
    BY <1>1 DEF CallsOf, Decided

\* refuseRequestedCalls decides exactly the calls of the round.
LEMMA RefusalDecides ==
  ASSUME NEW code, RefuseRequestedCalls(code)
  PROVE  CallsOf(outcomes') = Decided \cup RoundCalls
  <1> DEFINE refused(c) == [call |-> c, status |-> "not_executed", code |-> code]
  <1>1. outcomes' = outcomes \cup {refused(c) : c \in RoundCalls}
    BY DEF RefuseRequestedCalls
  <1>2. \A c : refused(c).call = c
    OBVIOUS
  <1> HIDE DEF refused
  <1> QED
    BY <1>1, <1>2 DEF CallsOf, Decided

\* One step of executeToolCall, whichever way it goes.
LEMMA OneCallRuns ==
  ASSUME ExecuteCall
  PROVE  \E c \in RoundCalls, st \in Status :
           /\ c.pos = pos
           /\ \E code : Record(c, st, code)
           /\ Advance(c)
           /\ applied' = applied \/ (st \in Ran /\ applied' = applied \cup {c})
           /\ st = "ok" /\ c.tool \in Writes => c \in applied'
  <1>1. PICK c \in RoundCalls :
          /\ c.pos = pos
          /\ ToolRefused(c) \/ ToolSucceeds(c) \/ ToolFails(c)
          /\ Advance(c)
    BY DEF ExecuteCall
  <1>2. \E st \in Status :
          /\ \E code : Record(c, st, code)
          /\ applied' = applied \/ (st \in Ran /\ applied' = applied \cup {c})
          /\ st = "ok" /\ c.tool \in Writes => c \in applied'
    <2>1. CASE ToolRefused(c)
      <3>1. "not_executed" \in Status /\ applied' = applied
        BY <2>1 DEF ToolRefused, Status
      <3>2. \E code : Record(c, "not_executed", code)
        BY <2>1 DEF ToolRefused
      <3> QED
        BY <3>1, <3>2
    <2>2. CASE ToolSucceeds(c)
      <3>1. "ok" \in Status /\ "ok" \in Ran
        BY DEF Status, Ran
      <3>2. Record(c, "ok", "")
        BY <2>2 DEF ToolSucceeds
      <3>3. /\ applied' = applied \/ applied' = applied \cup {c}
            /\ c.tool \in Writes => c \in applied'
        BY <2>2 DEF ToolSucceeds
      <3> QED
        BY <3>1, <3>2, <3>3
    <2>3. CASE ToolFails(c)
      <3>1. "error" \in Status /\ "error" \in Ran
        BY DEF Status, Ran
      <3>2. \E code : Record(c, "error", code)
        BY <2>3 DEF ToolFails, FailureStatus
      <3>3. applied' = applied \/ applied' = applied \cup {c}
        BY <2>3 DEF ToolFails
      <3> QED
        BY <3>1, <3>2, <3>3
    <2> QED
      BY <1>1, <2>1, <2>2, <2>3
  <1> QED
    BY <1>1, <1>2

--------------------------------------------------------------------------------
(* Each call is decided once, and by the end every one is.                 *)

\* No step gives a call a second outcome, or ends the loop with one undecided.
LEMMA DecidedOnceStep ==
  ASSUME IInv, [Next]_vars
  PROVE  \A o, p \in outcomes' : o.call = p.call => o = p
  <1> USE DEF IInv, loopVars, gateVars, storeVars, ctxVars
  <1>1. \A o, p \in outcomes : o.call = p.call => o = p
    BY DEF NothingAskedIsLost
  <1>2. CASE StopAtCeiling \/ StopWithCallsPending
    <2>1. PICK code : RefuseRequestedCalls(code)
      BY <1>2 DEF StopAtCeiling, StopWithCallsPending
    <2>2. \A o \in outcomes : o.call \notin RoundCalls
      BY <1>2 DEF StopAtCeiling, StopWithCallsPending, Account, Decided, CallsOf
    <2> QED
      BY <1>1, <2>1, <2>2 DEF RefuseRequestedCalls
  <1>3. CASE ExecuteCall
    <2>1. PICK c \in RoundCalls, st \in Status : c.pos = pos /\ \E code : Record(c, st, code)
      BY <1>3, OneCallRuns
    <2>2. c \notin Decided
      BY <2>1, <1>3 DEF ExecuteCall, Account, RoundCalls, TypeOK
    <2>3. \A o \in outcomes : o.call # c
      BY <2>2 DEF Decided, CallsOf
    <2> QED
      BY <1>1, <2>1, <2>3 DEF Record
  <1>4. CASE Crash
    BY <1>4 DEF Crash
  <1>5. CASE UNCHANGED outcomes
    BY <1>1, <1>5
  <1> QED
    BY <1>2, <1>3, <1>4, <1>5 DEF Next, Turn, vars, Admit, Refuse, StoreQuestion,
       BuildContext, Gate, OpenFails, OpenStream, StreamBreaks, SinkFails, StreamDrains,
       Answered, BeginTools, StoreAnswer, AnswerNotStored, StoreAudit, AuditNotStored,
       DeliverCalls, Cancel, DeadlinePasses, InheritedDeadlineFires

\* The calls of a round stay numbered from 1, one call to a number.
LEMMA NumberedStep == ASSUME IInv, [Next]_vars PROVE Numbered'
  <1> USE DEF IInv, loopVars, gateVars, storeVars, ctxVars
  <1>1. CASE DeliverCalls
    <2>a. PICK n \in 1..MaxCalls : \E ask \in [1..n -> Tools \X CallIds] :
            asked' = asked \cup {[round |-> round, pos |-> i,
                                  tool |-> ask[i][1], id |-> ask[i][2]] : i \in 1..n}
      BY <1>1 DEF DeliverCalls
    <2>1. PICK ask \in [1..n -> Tools \X CallIds] :
            asked' = asked \cup {[round |-> round, pos |-> i,
                                  tool |-> ask[i][1], id |-> ask[i][2]] : i \in 1..n}
      BY <2>a
    <2> DEFINE new == {[round |-> round, pos |-> i,
                        tool |-> ask[i][1], id |-> ask[i][2]] : i \in 1..n}
    <2>2. \A c \in asked : c.round # round
      BY <1>1 DEF DeliverCalls, RoundCalls
    <2>3. \A c \in new : c.round = round /\ c.pos \in 1..n
      OBVIOUS
    <2>4. \A c, d \in new : c.pos = d.pos => c = d
      OBVIOUS
    <2>5. ASSUME NEW i \in 1..n PROVE \E d \in new : d.round = round /\ d.pos = i
      <3> DEFINE d == [round |-> round, pos |-> i, tool |-> ask[i][1], id |-> ask[i][2]]
      <3>1. d \in new /\ d.round = round /\ d.pos = i
        OBVIOUS
      <3> QED
        BY <3>1
    <2>6. asked' = asked \cup new
      BY <2>1
    <2> HIDE DEF new
    <2>7. \A c, d \in asked' : c.round = d.round /\ c.pos = d.pos => c = d
      BY <2>2, <2>3, <2>4, <2>6 DEF Numbered
    <2>8. ASSUME NEW c \in asked', NEW i \in 1..c.pos
          PROVE  \E d \in asked' : d.round = c.round /\ d.pos = i
      BY <2>3, <2>5, <2>6, <2>8 DEF Numbered
    <2> QED
      BY <2>7, <2>8 DEF Numbered
  <1>2. CASE UNCHANGED asked
    BY <1>2 DEF Numbered
  <1> QED
    BY <1>1, <1>2 DEF Next, Turn, vars, Admit, Refuse, StoreQuestion, ExecuteCall, Crash,
       BuildContext, Gate, OpenFails, OpenStream, StreamBreaks, SinkFails, StreamDrains,
       Answered, BeginTools, StoreAnswer, AnswerNotStored, StoreAudit, AuditNotStored,
       StopAtCeiling, StopWithCallsPending, Cancel, DeadlinePasses, InheritedDeadlineFires

\* Every step keeps the account of what has been decided so far.
LEMMA AccountStep == ASSUME IInv, [Next]_vars PROVE Account'
  <1> USE DEF IInv, loopVars, gateVars, storeVars, ctxVars
  <1>1. CASE Admit \/ Refuse \/ StoreQuestion \/ BuildContext
    BY <1>1 DEF Account, Admit, Refuse, StoreQuestion, BuildContext, Decided, CallsOf,
                RoundCalls, Settled
  <1>2. CASE Gate \/ OpenFails \/ OpenStream
    <2>1. Decided = asked /\ \A c \in asked : c.round < round
      BY <1>2 DEF Account, Gate, OpenFails, OpenStream
    <2>2. UNCHANGED <<round, asked, outcomes>> /\ Decided' = Decided
      BY <1>2 DEF Gate, OpenFails, OpenStream, Leave, Decided
    <2>3. phase' \in {"settle", "call", "stream"}
      BY <1>2 DEF Gate, OpenFails, OpenStream, Leave
    <2>4. /\ asked \ RoundCalls = asked
          /\ \A c \in asked : c.round <= round
          /\ RoundCalls' = RoundCalls
      BY <2>1, <2>2 DEF RoundCalls, TypeOK, Call
    <2> QED
      BY <2>1, <2>2, <2>3, <2>4 DEF Account, Settled
  <1>3. CASE StreamBreaks \/ SinkFails \/ StreamDrains
    BY <1>3 DEF Account, StreamBreaks, SinkFails, StreamDrains, Leave, Decided, RoundCalls,
                Settled
  <1>4. CASE DeliverCalls
    <2>1. PICK n \in 1..MaxCalls : \E ask \in [1..n -> Tools \X CallIds] :
            asked' = asked \cup {[round |-> round, pos |-> i,
                                  tool |-> ask[i][1], id |-> ask[i][2]] : i \in 1..n}
      BY <1>4 DEF DeliverCalls
    <2>2. PICK ask \in [1..n -> Tools \X CallIds] :
            asked' = asked \cup {[round |-> round, pos |-> i,
                                  tool |-> ask[i][1], id |-> ask[i][2]] : i \in 1..n}
      BY <2>1
    <2> DEFINE new == {[round |-> round, pos |-> i,
                        tool |-> ask[i][1], id |-> ask[i][2]] : i \in 1..n}
    <2>3. asked' = asked \cup new /\ \A c \in new : c.round = round
      BY <2>2
    <2> HIDE DEF new
    <2>4. \A c \in asked : c.round < round
      BY <1>4 DEF Account, DeliverCalls, RoundCalls, TypeOK, Call
    <2>5. /\ phase = "stream" /\ phase' = "stream" /\ round' = round
          /\ outcomes' = outcomes /\ Decided = asked /\ round \in Nat
      BY <1>4 DEF Account, DeliverCalls, TypeOK
    <2>6. asked' \ RoundCalls' = asked
      BY <2>3, <2>4, <2>5 DEF RoundCalls
    <2>7. \A c \in asked' : c.round <= round'
      BY <2>3, <2>4, <2>5 DEF TypeOK, Call
    <2>8. Decided' = Decided
      BY <2>5 DEF Decided
    <2> QED
      BY <2>5, <2>6, <2>7, <2>8 DEF Account, Settled
  <1>5. CASE Answered
    BY <1>5 DEF Account, Answered, Leave, Decided, RoundCalls, Settled
  <1>6. CASE StopAtCeiling \/ StopWithCallsPending
    <2>1. PICK code : RefuseRequestedCalls(code)
      BY <1>6 DEF StopAtCeiling, StopWithCallsPending
    <2>2. Decided' = Decided \cup RoundCalls
      BY <2>1, RefusalDecides DEF Decided
    <2>3. Decided = asked \ RoundCalls /\ asked' = asked /\ phase' = "settle"
      BY <1>6 DEF StopAtCeiling, StopWithCallsPending, Leave, Account
    <2>4. RoundCalls \subseteq asked
      BY DEF RoundCalls
    <2> QED
      BY <2>2, <2>3, <2>4 DEF Account, Settled
  <1>7. CASE BeginTools
    <2>1. /\ phase = "decide" /\ phase' = "tools" /\ pos' = 1
          /\ UNCHANGED <<round, asked, outcomes>>
          /\ round < MaxToolRounds
          /\ RoundCalls # {}
      BY <1>7 DEF BeginTools, AtCeiling, TypeOK
    <2>2. Decided = asked \ RoundCalls /\ \A c \in asked : c.round <= round
      BY <2>1 DEF Account
    <2>3. \E c \in RoundCalls : c.pos = 1
      <3>1. PICK d \in RoundCalls : TRUE
        BY <2>1
      <3>2. d \in asked /\ d.round = round /\ 1 \in 1..d.pos
        BY DEF RoundCalls, TypeOK, Call
      <3>3. PICK c \in asked : c.round = round /\ c.pos = 1
        BY <3>2 DEF Numbered
      <3> QED
        BY <3>3 DEF RoundCalls
    <2>4. \A c \in asked : c.round \in Nat /\ c.pos \in Nat \ {0} /\ round \in Nat
      BY DEF TypeOK, Call
    <2>5. asked \ RoundCalls = {c \in asked : c.round < round \/ c.pos < 1}
      BY <2>2, <2>4 DEF RoundCalls
    <2> QED
      BY <2>1, <2>2, <2>3, <2>5 DEF Account, Decided, RoundCalls, Settled
  <1>8. CASE ExecuteCall
    <2>1. PICK c \in RoundCalls, st \in Status :
            /\ c.pos = pos
            /\ \E code : Record(c, st, code)
            /\ Advance(c)
      BY <1>8, OneCallRuns
    <2>2. Decided' = Decided \cup {c}
      BY <2>1, RecordDecides DEF Decided
    <2>3. /\ phase = "tools" /\ asked' = asked
          /\ round < MaxToolRounds
          /\ \A d \in asked : d.round <= round
          /\ Decided = {d \in asked : d.round < round \/ d.pos < pos}
      BY <1>8 DEF ExecuteCall, Account
    <2>4. /\ c \in asked /\ c.round = round /\ round \in Nat /\ pos \in Nat
          /\ \A d \in asked : d.round \in Nat /\ d.pos \in Nat
      BY DEF RoundCalls, TypeOK, Call
    <2>5. Decided' = {d \in asked : d.round < round \/ d.pos < pos + 1}
      <3>1. \A d \in asked : d.round = round /\ d.pos = pos => d = c
        BY <2>1, <2>4 DEF Numbered
      <3> QED
        BY <2>1, <2>2, <2>3, <2>4, <3>1
    <2>6. CASE \E d \in RoundCalls : d.pos = c.pos + 1
      <3>1. pos' = pos + 1 /\ phase' = "tools" /\ round' = round
        BY <2>1, <2>3, <2>6 DEF Advance
      <3>2. RoundCalls' = RoundCalls
        BY <3>1, <2>3 DEF RoundCalls
      <3> QED
        BY <2>1, <2>3, <2>5, <2>6, <3>1, <3>2 DEF Account, Settled
    <2>7. CASE ~\E d \in RoundCalls : d.pos = c.pos + 1
      <3>1. phase' = "gate" /\ round' = round + 1
        BY <2>1, <2>7 DEF Advance
      <3>2. \A d \in asked : d.round = round => d.pos < pos + 1
        <4> SUFFICES ASSUME NEW d \in asked, d.round = round, ~(d.pos < pos + 1)
                     PROVE  FALSE
          OBVIOUS
        <4>1. pos + 1 \in 1..d.pos
          BY <2>4
        <4>2. PICK e \in asked : e.round = d.round /\ e.pos = pos + 1
          BY <4>1 DEF Numbered
        <4> QED
          BY <2>1, <2>7, <4>2 DEF RoundCalls
      <3>3. Decided' = asked'
        BY <2>3, <2>4, <2>5, <3>2
      <3>4. \A d \in asked' : d.round < round'
        BY <2>3, <2>4, <3>1
      <3> QED
        BY <3>1, <3>3, <3>4 DEF Account, Settled
    <2> QED
      BY <2>6, <2>7
  <1>9. CASE StoreAnswer \/ AnswerNotStored \/ StoreAudit \/ AuditNotStored
    BY <1>9 DEF Account, StoreAnswer, AnswerNotStored, StoreAudit, AuditNotStored,
                Decided, Settled
  <1>10. CASE Crash
    BY <1>10 DEF Account, Crash, Settled
  <1>11. CASE UNCHANGED <<phase, round, pos, asked, outcomes, endedBy>>
    BY <1>11 DEF Account, Decided, RoundCalls, Settled
  <1> QED
    BY <1>1, <1>2, <1>3, <1>4, <1>5, <1>6, <1>7, <1>8, <1>9, <1>10, <1>11
       DEF Next, Turn, vars, Cancel, DeadlinePasses, InheritedDeadlineFires

--------------------------------------------------------------------------------
(* Only calls that may run do, and the records tell what became of them.   *)

\* No step runs a tool in the last round (maxToolRounds).
LEMMA CeilingStep == ASSUME IInv, [Next]_vars PROVE CeilingNeverRuns'
  <1> USE DEF IInv, loopVars, gateVars, storeVars, ctxVars
  <1>1. CASE StopAtCeiling \/ StopWithCallsPending
    <2>1. PICK code : RefuseRequestedCalls(code)
      BY <1>1 DEF StopAtCeiling, StopWithCallsPending
    <2>2. \A o \in outcomes' : o \in outcomes \/ o.status = "not_executed"
      BY <2>1 DEF RefuseRequestedCalls
    <2> QED
      BY <2>2 DEF CeilingNeverRuns, Ran
  <1>2. CASE ExecuteCall
    <2>1. PICK c \in RoundCalls : \E st, code : Record(c, st, code)
      BY <1>2, OneCallRuns
    <2>2. c.round < MaxToolRounds
      BY <1>2 DEF ExecuteCall, Account, RoundCalls
    <2> QED
      BY <2>1, <2>2 DEF CeilingNeverRuns, Record
  <1>3. CASE Crash
    BY <1>3 DEF CeilingNeverRuns, Crash
  <1>4. CASE UNCHANGED outcomes
    BY <1>4 DEF CeilingNeverRuns
  <1> QED
    BY <1>1, <1>2, <1>3, <1>4 DEF Next, Turn, vars, Admit, Refuse, StoreQuestion,
       BuildContext, Gate, OpenFails, OpenStream, StreamBreaks, SinkFails, StreamDrains,
       Answered, BeginTools, StoreAnswer, AnswerNotStored, StoreAudit, AuditNotStored,
       DeliverCalls, Cancel, DeadlinePasses, InheritedDeadlineFires

\* No step changes something without recording a run, or claims more than it did.
LEMMA EffectsStep == ASSUME IInv, [Next]_vars PROVE Effects'
  <1> USE DEF IInv, loopVars, gateVars, storeVars, ctxVars
  <1>1. CASE StopAtCeiling \/ StopWithCallsPending
    <2>1. PICK code : RefuseRequestedCalls(code)
      BY <1>1 DEF StopAtCeiling, StopWithCallsPending
    <2>2. /\ \A o \in outcomes' : o \in outcomes \/ o.status = "not_executed"
          /\ outcomes \subseteq outcomes'
      BY <2>1 DEF RefuseRequestedCalls
    <2>3. applied' = applied /\ phase # "crashed"
      BY <1>1 DEF StopAtCeiling, StopWithCallsPending
    <2> QED
      BY <2>2, <2>3 DEF Effects, Executed, CallsOf
  <1>2. CASE ExecuteCall
    <2>1. PICK c \in RoundCalls, st \in Status :
            /\ \E code : Record(c, st, code)
            /\ applied' = applied \/ (st \in Ran /\ applied' = applied \cup {c})
            /\ st = "ok" /\ c.tool \in Writes => c \in applied'
      BY <1>2, OneCallRuns
    <2>2. PICK code : Record(c, st, code)
      BY <2>1
    <2> DEFINE new == [call |-> c, status |-> st, code |-> code]
    <2>3. outcomes' = outcomes \cup {new} /\ new.call = c /\ new.status = st
      BY <2>2 DEF Record
    <2> HIDE DEF new
    <2>4. applied \subseteq CallsOf({o \in outcomes : o.status \in Ran})
      BY <1>2 DEF Effects, ExecuteCall
    <2>5. Executed(outcomes') \subseteq applied'
      BY <2>1, <2>3 DEF Effects, Executed
    <2>6. applied' \subseteq CallsOf({o \in outcomes' : o.status \in Ran})
      BY <2>1, <2>3, <2>4 DEF CallsOf
    <2> QED
      BY <2>5, <2>6 DEF Effects
  <1>3. CASE Crash
    BY <1>3 DEF Effects, Crash, Executed
  <1>4. CASE UNCHANGED <<outcomes, applied>> /\ (phase' # "crashed" => phase # "crashed")
    BY <1>4 DEF Effects
  <1> QED
    BY <1>1, <1>2, <1>3, <1>4 DEF Next, Turn, vars, Admit, Refuse, StoreQuestion,
       BuildContext, Gate, OpenFails, OpenStream, StreamBreaks, SinkFails, StreamDrains,
       Answered, BeginTools, StoreAnswer, AnswerNotStored, StoreAudit, AuditNotStored,
       DeliverCalls, Cancel, DeadlinePasses, InheritedDeadlineFires

\* Audit rows are the outcomes of the turn, all of them, or there are none.
LEMMA StoredStep == ASSUME IInv, [Next]_vars PROVE Stored'
  <1> USE DEF IInv, loopVars, gateVars, storeVars, ctxVars
  <1>1. CASE StoreAudit
    BY <1>1 DEF Stored, StoreAudit
  <1>2. CASE UNCHANGED rows /\ phase # "done"
    BY <1>2 DEF Stored
  <1>3. CASE UNCHANGED vars
    BY <1>3 DEF Stored, vars
  <1> QED
    BY <1>1, <1>2, <1>3 DEF Next, Turn, Admit, Refuse, StoreQuestion,
       BuildContext, Gate, OpenFails, OpenStream, StreamBreaks, SinkFails, StreamDrains,
       Answered, BeginTools, StoreAnswer, AnswerNotStored, AuditNotStored, Crash, Running,
       StopAtCeiling, StopWithCallsPending, ExecuteCall, Ended, ContextMatters,
       DeliverCalls, Cancel, DeadlinePasses, InheritedDeadlineFires

\* A call is opened only under the limit, and charges at most its own tokens.
LEMMA BudgetStep == ASSUME IInv, [Next]_vars PROVE Budget'
  <1> USE DEF IInv, loopVars, gateVars, storeVars, ctxVars
  <1>1. CASE Admit \/ Refuse \/ StoreQuestion \/ BuildContext
    BY <1>1 DEF Budget, TypeOK, Admit, Refuse, StoreQuestion, BuildContext, Blocked
  <1>2. CASE Gate \/ OpenFails \/ OpenStream
    BY <1>2 DEF Budget, TypeOK, Gate, OpenFails, OpenStream, Leave, Blocked
  <1>3. CASE StreamBreaks \/ SinkFails \/ StreamDrains
    <2>1. PICK t \in 0..MaxCallTokens : Charge(t)
      BY <1>3 DEF StreamBreaks, SinkFails, StreamDrains
    <2>2. BudgetEnabled => spent' = spent + t /\ used + spent < Limit
      BY <1>3, <2>1 DEF StreamBreaks, SinkFails, StreamDrains, Charge, Budget
    <2>3. used' = used /\ phase' \in {"settle", "decide"}
      BY <1>3 DEF StreamBreaks, SinkFails, StreamDrains, Leave
    <2> QED
      BY <2>2, <2>3 DEF Budget, TypeOK
  <1>4. CASE DeliverCalls \/ Answered \/ StopAtCeiling \/ StopWithCallsPending \/ BeginTools
    BY <1>4 DEF Budget, DeliverCalls, Answered, StopAtCeiling, StopWithCallsPending,
                BeginTools, Leave
  <1>5. CASE ExecuteCall
    BY <1>5 DEF Budget, ExecuteCall, Advance
  <1>6. CASE StoreAnswer \/ AnswerNotStored \/ StoreAudit \/ AuditNotStored
    BY <1>6 DEF Budget, StoreAnswer, AnswerNotStored, StoreAudit, AuditNotStored
  <1>7. CASE Cancel \/ DeadlinePasses \/ InheritedDeadlineFires \/ UNCHANGED vars
    BY <1>7 DEF Budget, Cancel, DeadlinePasses, InheritedDeadlineFires, vars
  <1>8. CASE Crash
    BY <1>8 DEF Budget, Crash
  <1> QED
    BY <1>1, <1>2, <1>3, <1>4, <1>5, <1>6, <1>7, <1>8 DEF Next, Turn

--------------------------------------------------------------------------------
(* The theorems.                                                           *)

\* IInv is inductive: whatever the provider, the reader, the tools and the
\* database do, a turn never leaves it (runTurn and persistAssistant).
THEOREM Inductive == Spec => []IInv
  <1>1. IInv /\ [Next]_vars => IInv'
    <2> SUFFICES ASSUME IInv, [Next]_vars PROVE IInv'
      OBVIOUS
    <2>1. NothingAskedIsLost'
      BY DecidedOnceStep, AccountStep DEF NothingAskedIsLost, Account, Decided
    <2> QED
      BY <2>1, TypeStep, CeilingStep, AccountStep, NumberedStep, EffectsStep, StoredStep,
         BudgetStep DEF IInv
  <1> QED
    BY InitIInv, <1>1, PTL DEF Spec

\* Every variable keeps its type.
THEOREM TypeCorrect == Spec => []TypeOK
  <1>1. IInv => TypeOK
    BY DEF IInv
  <1> QED
    BY Inductive, <1>1, PTL

\* However the loop ends, short of a stream cut in the middle, each call the
\* provider asked for has exactly one recorded outcome (refuseRequestedCalls).
THEOREM EveryCallDecided == Spec => []NothingAskedIsLost
  <1>1. IInv => NothingAskedIsLost
    BY DEF IInv
  <1> QED
    BY Inductive, <1>1, PTL

\* The answer that spends the last provider call runs no tool (maxToolRounds).
THEOREM CeilingHolds == Spec => []CeilingNeverRuns
  <1>1. IInv => CeilingNeverRuns
    BY DEF IInv
  <1> QED
    BY Inductive, <1>1, PTL

\* A stored receipt claims only changes that were made and denies none that
\* was (NewWriteReceipt over the rows persistToolCalls wrote).
THEOREM ReceiptHolds == Spec => []ReceiptIsHonest
  <1>1. IInv => ReceiptIsHonest
    <2> SUFFICES ASSUME IInv PROVE ReceiptIsHonest
      OBVIOUS
    <2>1. CASE rows = {}
      BY <2>1 DEF ReceiptIsHonest, Executed
    <2>2. CASE phase = "done" /\ rows = outcomes
      <3>1. Executed(rows) \subseteq applied
        BY <2>2 DEF IInv, Effects
      <3>2. ASSUME NEW o \in rows, o.status = "not_executed", o.call \in applied
            PROVE  FALSE
        <4>1. PICK p \in outcomes : p.status \in Ran /\ p.call = o.call
          BY <2>2, <3>2 DEF IInv, Effects, CallsOf
        <4>2. p = o
          BY <2>2, <4>1 DEF IInv, NothingAskedIsLost
        <4> QED
          BY <3>2, <4>1, <4>2 DEF Ran
      <3> QED
        BY <3>1, <3>2 DEF ReceiptIsHonest
    <2> QED
      BY <2>1, <2>2 DEF IInv, Stored
  <1> QED
    BY Inductive, <1>1, PTL

\* A turn overshoots its daily limit by less than one provider call (turnGate).
THEOREM OvershootBounded == Spec => []OvershootIsOneCall
  <1>1. IInv => OvershootIsOneCall
    BY DEF IInv, Budget, OvershootIsOneCall
  <1> QED
    BY Inductive, <1>1, PTL

--------------------------------------------------------------------------------
(* What a stopped turn is filed under.                                     *)

\* The exit of the loop is taken once, and from then on neither the context
\* nor the finish reason changes: the reason is the one of a cause of the end.
StopHasCause ==
  /\ endedBy # "none" => phase \in {"settle", "audit", "done", "crashed"}
  /\ endedBy \in {"stopped", "pending"} =>
       \E cause \in StoppedBy : finish = TerminalFor(cause)
  /\ inherited => Web

\* No step files a stopped turn under anything but a cause of its end (stoppedBy).
LEMMA StopHasCauseStep == ASSUME StopHasCause, [Next]_vars PROVE StopHasCause'
  <1> USE DEF loopVars, gateVars, storeVars, ctxVars
  <1>1. CASE Admit \/ Refuse \/ StoreQuestion \/ BuildContext
    BY <1>1 DEF StopHasCause, Admit, Refuse, StoreQuestion, BuildContext, StoppedBy
  <1>2. CASE Gate \/ OpenFails \/ OpenStream \/ StreamDrains \/ DeliverCalls
    BY <1>2 DEF StopHasCause, Gate, OpenFails, OpenStream, StreamDrains, DeliverCalls,
                Leave, StoppedBy
  <1>3. CASE StreamBreaks \/ SinkFails \/ StopWithCallsPending
    <2>1. /\ phase' = "settle" /\ UNCHANGED <<ctx, inherited>>
          /\ \/ endedBy' = "recv"
             \/ \E cause \in StoppedBy : finish' = TerminalFor(cause)
      BY <1>3 DEF StreamBreaks, SinkFails, StopWithCallsPending, Leave
    <2>2. StoppedBy' = StoppedBy
      BY <2>1 DEF StoppedBy
    <2> QED
      BY <2>1, <2>2 DEF StopHasCause, TerminalFor
  <1>4. CASE Answered \/ StopAtCeiling \/ BeginTools \/ ExecuteCall
    BY <1>4 DEF StopHasCause, Answered, StopAtCeiling, BeginTools, ExecuteCall, Advance,
                Leave, StoppedBy
  <1>5. CASE StoreAnswer \/ AnswerNotStored \/ StoreAudit \/ AuditNotStored \/ Crash
    BY <1>5 DEF StopHasCause, StoreAnswer, AnswerNotStored, StoreAudit, AuditNotStored,
                Crash, StoppedBy, TerminalFor
  <1>6. CASE Cancel \/ DeadlinePasses \/ InheritedDeadlineFires
    BY <1>6 DEF StopHasCause, Cancel, DeadlinePasses, InheritedDeadlineFires,
                ContextMatters, Running, Ended
  <1>7. CASE UNCHANGED vars
    BY <1>7 DEF StopHasCause, vars, StoppedBy, TerminalFor
  <1> QED
    BY <1>1, <1>2, <1>3, <1>4, <1>5, <1>6, <1>7 DEF Next, Turn

\* A stopped turn is filed under a cause of its end, on any route: what ended its
\* context, or the generic deadline of a web request if that one fired (stoppedBy).
THEOREM StopFollowsCause == Spec => []StopHasCause
  <1>1. Init => StopHasCause
    BY DEF Init, StopHasCause
  <1> QED
    BY <1>1, StopHasCauseStep, PTL DEF Spec

\* Unless a web request's generic deadline fired first, the cause is unique and a stop
\* is named for it (types.go, FinishReason).
THEOREM StopNamedUnlessInherited == Spec => [](~inherited => StopIsNamed)
  <1>1. StopHasCause => (~inherited => StopIsNamed)
    BY DEF StopHasCause, StopIsNamed, StoppedBy, TerminalFor
  <1> QED
    BY StopFollowsCause, <1>1, PTL

\* On Telegram no generic deadline exists, so every stop is named for what stopped it.
THEOREM StopNamed == ~Web => (Spec => []StopIsNamed)
  <1>1. StopHasCause /\ ~Web => StopIsNamed
    BY DEF StopHasCause, StopIsNamed, StoppedBy, TerminalFor
  <1>2. CASE Web
    BY <1>2
  <1>3. CASE ~Web
    <2>1. StopHasCause => StopIsNamed
      BY <1>1, <1>3
    <2> QED
      BY StopFollowsCause, <2>1, PTL
  <1> QED
    BY <1>2, <1>3

--------------------------------------------------------------------------------
(* The turn implements the ledger of writes.                               *)

\* A turn not yet admitted is an open ledger without effects.
LEMMA InitLedger == Init => Ledger!Init
  BY DEF Init, Ledger!Init, Ended, Executed

\* Each step of a turn performs, closes or leaves the ledger as it is.
LEMMA StepLedger == IInv /\ [Next]_vars => [Ledger!Next]_(Ledger!ledger)
  <1> SUFFICES ASSUME IInv, [Next]_vars PROVE [Ledger!Next]_(Ledger!ledger)
    OBVIOUS
  <1> USE DEF IInv, loopVars, gateVars, storeVars, ctxVars
  <1>1. CASE ExecuteCall
    <2>1. PICK c \in RoundCalls : applied' = applied \/ applied' = applied \cup {c}
      BY <1>1, OneCallRuns
    <2>2. c \in Call
      BY DEF RoundCalls, TypeOK
    <2>3. ~(phase \in Ended) /\ ~(phase' \in Ended) /\ rows' = rows
      BY <1>1, OneCallRuns DEF ExecuteCall, Advance, Ended
    <2> QED
      BY <2>1, <2>2, <2>3 DEF Ledger!Next, Ledger!Perform, Ledger!ledger
  <1>2. CASE /\ phase \notin Ended /\ phase' \in Ended
             /\ applied' = applied
             /\ rows' = rows \/ (rows' = outcomes /\ phase # "crashed")
    <2>1. Executed(rows') \in SUBSET applied
      BY <1>2 DEF Stored, Effects, Executed, Ended
    <2> QED
      BY <1>2, <2>1 DEF Ledger!Next, Ledger!Close, Ledger!ledger
  <1>3. CASE (phase' \in Ended <=> phase \in Ended) /\ UNCHANGED <<applied, rows>>
    BY <1>3 DEF Ledger!ledger
  <1> QED
    BY <1>1, <1>2, <1>3 DEF Next, Turn, vars, Admit, Refuse, StoreQuestion,
       BuildContext, Gate, OpenFails, OpenStream, StreamBreaks, SinkFails, StreamDrains,
       Answered, BeginTools, StoreAnswer, AnswerNotStored, StoreAudit, AuditNotStored,
       StopAtCeiling, StopWithCallsPending, DeliverCalls, Cancel, DeadlinePasses,
       InheritedDeadlineFires, Crash, Running, Leave, Ended

\* A turn makes changes only while it is open, closes once, and what it then
\* claims was made: runTurn and persistAssistant implement WriteLedger.
THEOREM TurnImplementsLedger == Spec => ImplementsLedger
  BY Inductive, InitLedger, StepLedger, PTL DEF Spec, ImplementsLedger, Ledger!Spec

--------------------------------------------------------------------------------
(* The day.                                                                *)

\* What the configuration gives: finitely many operations, limits that are numbers or not set.
LEMMA DayConstants ==
  /\ NoLimit \notin Nat /\ IsFiniteSet(Callers)
  /\ MaxCall \in Nat /\ MaxCall > 0 /\ LastDay \in Nat /\ LastDay > 0 /\ MaxRows \in Nat /\ MaxBurnt \in Nat
  /\ \A b \in Budgets : b.tokens \in Nat \cup {NoLimit} /\ b.cost \in Nat \cup {NoLimit}
  /\ NoBudget.tokens = NoLimit /\ NoBudget.cost = NoLimit
  BY DayAssumption DEF DayAssumption, NoBudget

--------------------------------------------------------------------------------
(* Sums over the rows.                                                     *)

Units == [r \in MessageRow |-> r.tokens]
Money == [r \in MessageRow |-> KnownCost(r)]

\* What a row adds to the day's tokens and to its known cost (usage.go).
LEMMA RowWeights ==
  \A r \in MessageRow : /\ Units[r] = r.tokens /\ r.tokens \in Nat \ {0} /\ r.priced \in BOOLEAN
                        /\ Money[r] = (IF r.priced THEN r.tokens ELSE 0) /\ Money[r] \in Nat
                        /\ Money[r] <= Units[r]
  BY DEF Units, Money, MessageRow, KnownCost

\* The usage of a set of rows is the sum of those weights over it.
LEMMA TokensSum ==
  ASSUME NEW T \in SUBSET MessageRow, IsFiniteSet(T)
  PROVE  /\ Tokens(T) = SumFunctionOnSet(Units, T) /\ Tokens(T) \in Nat
         /\ Cost(T) = SumFunctionOnSet(Money, T) /\ Cost(T) \in Nat
  <1>1. \A r \in T : /\ Units[r] \in Nat /\ [q \in T |-> q.tokens][r] = Units[r]
                     /\ Money[r] \in Nat /\ [q \in T |-> KnownCost(q)][r] = Money[r]
    BY RowWeights DEF KnownCost
  <1>2. Tokens(T) = SumFunctionOnSet([q \in T |-> q.tokens], T)
    BY DEF Tokens, SumFunction
  <1>3. Cost(T) = SumFunctionOnSet([q \in T |-> KnownCost(q)], T)
    BY DEF Cost, SumFunction
  <1>4. SumFunctionOnSet([q \in T |-> q.tokens], T) = SumFunctionOnSet(Units, T)
    <2> DEFINE w == [q \in T |-> q.tokens]
    <2>1. \A r \in T : w[r] = Units[r]
      BY <1>1
    <2>2. SumFunctionOnSet(w, T) = SumFunctionOnSet(Units, T)
      <3> HIDE DEF w
      <3> QED
        BY <2>1, SumAgrees
    <2> QED
      BY <2>2
  <1>5. SumFunctionOnSet([q \in T |-> KnownCost(q)], T) = SumFunctionOnSet(Money, T)
    <2> DEFINE w == [q \in T |-> KnownCost(q)]
    <2>1. \A r \in T : w[r] = Money[r]
      BY <1>1
    <2>2. SumFunctionOnSet(w, T) = SumFunctionOnSet(Money, T)
      <3> HIDE DEF w
      <3> QED
        BY <2>1, SumAgrees
    <2> QED
      BY <2>2
  <1>6. SumFunctionOnSet(Units, T) \in Nat /\ SumFunctionOnSet(Money, T) \in Nat
    BY <1>1, SumType
  <1> QED
    BY <1>2, <1>3, <1>4, <1>5, <1>6

\* One row more adds its tokens, and its cost where its price is known.
LEMMA TokensAdd ==
  ASSUME NEW T \in SUBSET MessageRow, IsFiniteSet(T), NEW r \in MessageRow \ T
  PROVE  /\ Tokens(T \cup {r}) = Tokens(T) + r.tokens
         /\ Cost(T \cup {r}) = Cost(T) + Money[r]
  <1>1. IsFiniteSet(T \cup {r}) /\ T \cup {r} \in SUBSET MessageRow
    BY FS_AddElement
  <1>2. \A q \in T \cup {r} : Units[q] \in Nat /\ Money[q] \in Nat
    BY RowWeights
  <1>3. SumFunctionOnSet(Units, T \cup {r}) = Units[r] + SumFunctionOnSet(Units, T)
    BY <1>2, SumAdds
  <1>4. SumFunctionOnSet(Money, T \cup {r}) = Money[r] + SumFunctionOnSet(Money, T)
    BY <1>2, SumAdds
  <1>5. Units[r] = r.tokens /\ r.tokens \in Nat /\ Money[r] \in Nat
    BY RowWeights
  <1>6. Tokens(T \cup {r}) = Units[r] + Tokens(T) /\ Cost(T \cup {r}) = Money[r] + Cost(T)
    BY <1>1, <1>3, <1>4, TokensSum
  <1>7. Tokens(T) \in Nat /\ Cost(T) \in Nat
    BY TokensSum
  <1> QED
    BY <1>5, <1>6, <1>7

\* Rows taken away take their tokens with them and leave no more than there was.
LEMMA TokensPart ==
  ASSUME NEW S \in SUBSET MessageRow, IsFiniteSet(S), NEW T \in SUBSET S
  PROVE  /\ Tokens(S) = Tokens(T) + Tokens(S \ T)
         /\ Tokens(T) <= Tokens(S) /\ Cost(T) <= Cost(S)
  <1>1. \A q \in S : Units[q] \in Nat /\ Money[q] \in Nat
    BY RowWeights
  <1>2. IsFiniteSet(T) /\ IsFiniteSet(S \ T) /\ T \in SUBSET MessageRow /\ S \ T \in SUBSET MessageRow
    BY FS_Subset
  <1>3. /\ SumFunctionOnSet(Units, S) = SumFunctionOnSet(Units, T) + SumFunctionOnSet(Units, S \ T)
        /\ SumFunctionOnSet(Units, T) <= SumFunctionOnSet(Units, S)
    BY <1>1, SumOfPart
  <1>4. SumFunctionOnSet(Money, T) <= SumFunctionOnSet(Money, S)
    BY <1>1, SumOfPart
  <1> QED
    BY <1>2, <1>3, <1>4, TokensSum

\* A day of no rows costs nothing.
LEMMA TokensOfNone == Tokens({}) = 0 /\ Cost({}) = 0
  <1>1. Tokens({}) = SumFunctionOnSet(Units, {}) /\ Cost({}) = SumFunctionOnSet(Money, {})
    BY TokensSum, FS_EmptySet
  <1> QED
    BY <1>1, SumEmpty

\* The cost of a day is at most its tokens, and equal when every row has its price.
LEMMA CostIsFloor ==
  ASSUME NEW T \in SUBSET MessageRow, IsFiniteSet(T)
  PROVE  Cost(T) <= Tokens(T) /\ ((\A r \in T : r.priced) <=> Cost(T) = Tokens(T))
  <1>1. \A r \in T : Money[r] \in Nat /\ Units[r] \in Nat /\ Money[r] <= Units[r]
    BY RowWeights
  <1>2. SumFunctionOnSet(Money, T) <= SumFunctionOnSet(Units, T)
    BY <1>1, SumCompares
  <1>3. ASSUME \A r \in T : r.priced PROVE SumFunctionOnSet(Money, T) = SumFunctionOnSet(Units, T)
    <2>1. \A r \in T : Money[r] = Units[r]
      BY <1>3, RowWeights
    <2> QED
      BY <2>1, SumAgrees
  <1>4. ASSUME NEW r \in T, ~r.priced PROVE SumFunctionOnSet(Money, T) < SumFunctionOnSet(Units, T)
    <2>1. Money[r] < Units[r]
      BY <1>4, RowWeights
    <2> QED
      BY <1>1, <2>1, SumIsLess
  <1>5. /\ Tokens(T) = SumFunctionOnSet(Units, T) /\ Tokens(T) \in Nat
        /\ Cost(T) = SumFunctionOnSet(Money, T) /\ Cost(T) \in Nat
    BY TokensSum
  <1>6. (\A r \in T : r.priced) => Cost(T) = Tokens(T)
    BY <1>3, <1>5
  <1>7. Cost(T) = Tokens(T) => \A r \in T : r.priced
    BY <1>4, <1>5
  <1> QED
    BY <1>2, <1>5, <1>6, <1>7

--------------------------------------------------------------------------------
(* The rows of a day, and what a step does to them.                        *)

\* A day's usage is two numbers, summed from finitely many rows.
LEMMA DayUsage ==
  ASSUME DayTypeOK, RowsOfTheDay, NEW d
  PROVE  /\ OfDay(d) \in SUBSET MessageRow /\ IsFiniteSet(OfDay(d))
         /\ Tokens(OfDay(d)) \in Nat /\ Cost(OfDay(d)) \in Nat
         /\ DailyUsage(d).tokens = Tokens(OfDay(d)) /\ DailyUsage(d).cost = Cost(OfDay(d))
         /\ DailyUsage(d) \in [tokens : Nat, cost : Nat]
  <1>1. OfDay(d) \in SUBSET MessageRow /\ OfDay(d) \in SUBSET messages
    BY DEF OfDay, DayTypeOK
  <1>2. IsFiniteSet(OfDay(d))
    BY <1>1, FS_Subset DEF RowsOfTheDay
  <1>3. Tokens(OfDay(d)) \in Nat /\ Cost(OfDay(d)) \in Nat
    BY <1>1, <1>2, TokensSum
  <1> QED
    BY <1>1, <1>2, <1>3 DEF DailyUsage

\* What each operation holds sums to a number,
LEMMA CallersSum ==
  ASSUME NEW f \in [Callers -> Nat]
  PROVE  SumFunction(f) = SumFunctionOnSet(f, Callers) /\ SumFunction(f) \in Nat
  <1>1. SumFunction(f) = SumFunctionOnSet(f, Callers)
    BY DEF SumFunction
  <1>2. \A c \in Callers : f[c] \in Nat
    OBVIOUS
  <1>3. SumFunctionOnSet(f, Callers) \in Nat
    BY <1>2, SumType, DayConstants
  <1> QED
    BY <1>1, <1>3

\* which follows the one operation that moves,
LEMMA CallersChange ==
  ASSUME NEW f \in [Callers -> Nat], NEW g \in [Callers -> Nat], NEW c \in Callers,
         \A x \in Callers \ {c} : f[x] = g[x]
  PROVE  SumFunction(f) + g[c] = SumFunction(g) + f[c]
  <1>1. \A x \in Callers : f[x] \in Nat /\ g[x] \in Nat
    OBVIOUS
  <1>2. SumFunctionOnSet(f, Callers) + g[c] = SumFunctionOnSet(g, Callers) + f[c]
    BY <1>1, SumChanges, DayConstants
  <1> QED
    BY <1>2, CallersSum

\* and stays when none does.
LEMMA CallersSame ==
  ASSUME NEW f \in [Callers -> Nat], NEW g \in [Callers -> Nat],
         \A x \in Callers : f[x] = g[x]
  PROVE  SumFunction(f) = SumFunction(g)
  OBVIOUS

\* The row a turn or a consolidation stores (persistAssistant).
LEMMA StoreAdds ==
  ASSUME DayTypeOK, RowsOfTheDay, NEW c \in Callers, InProgress(c), OperationKnows(op[c]), Store(c)
  PROVE  \E r \in MessageRow :
           /\ r \notin messages /\ messages' = messages \cup {r}
           /\ r.seq = next /\ r.day = day /\ r.tokens = op[c].spent
           /\ op[c].priced => r.priced
           /\ \A q \in messages : q.seq # r.seq
  <1>1. op[c] \in Operation /\ op[c].spent > 0 /\ next <= MaxRows /\ next \in 1..(MaxRows + 1) /\ day \in 1..LastDay
    BY DEF Store, DayTypeOK
  <1>2. PICK priced \in BOOLEAN :
          /\ op[c].priced => priced
          /\ messages' = messages \cup {[seq |-> next, conv |-> op[c].conv, kind |-> op[c].kind, day |-> day,
                                         tokens |-> op[c].spent, priced |-> priced]}
    BY DEF Store, Consumed
  <1> DEFINE r == [seq |-> next, conv |-> op[c].conv, kind |-> op[c].kind, day |-> day,
                   tokens |-> op[c].spent, priced |-> priced]
  <1>3. op[c].conv \in Conversations /\ op[c].kind \in {"turn", "auxiliary"} /\ op[c].spent \in Nat \ {0}
    BY <1>1 DEF OperationKnows, Operation
  <1>4. next \in 1..MaxRows
    BY <1>1, DayConstants
  <1>5. r \in MessageRow
    BY <1>1, <1>3, <1>4 DEF MessageRow
  <1>6. \A q \in messages : q.seq # next
    BY DEF RowsOfTheDay, DayTypeOK, MessageRow
  <1>7. r.seq = next /\ r.day = day /\ r.tokens = op[c].spent /\ r.priced = priced
    OBVIOUS
  <1> HIDE DEF r
  <1>8. r \notin messages
    BY <1>6, <1>7
  <1>9. messages' = messages \cup {r}
    BY <1>2 DEF r
  <1> QED
    BY <1>2, <1>5, <1>6, <1>7, <1>8, <1>9

\* Rows stay typed, finite, of the days that came and numbered apart.
LEMMA TypesStep ==
  ASSUME DayInvariant, [DayNext]_dayVars
  PROVE  DayTypeOK' /\ RowsOfTheDay'
  <1>0. DayTypeOK /\ RowsOfTheDay
    BY DEF DayInvariant
  <1>1. CASE TruncateFrom
    <2>1. PICK deleted \in SUBSET messages :
            messages' = messages \ deleted /\ lost' = lost + Tokens({r \in deleted : r.kind = "turn"})
      BY <1>1 DEF TruncateFrom
    <2>2. Tokens({r \in deleted : r.kind = "turn"}) \in Nat
      <3>1. {r \in deleted : r.kind = "turn"} \in SUBSET messages
        OBVIOUS
      <3> QED
        BY <1>0, <3>1, FS_Subset, TokensSum DEF DayTypeOK, RowsOfTheDay
    <2>3. IsFiniteSet(messages')
      BY <1>0, <2>1, FS_Subset DEF RowsOfTheDay
    <2>4. messages' \subseteq messages
      BY <2>1
    <2> QED
      BY <1>0, <1>1, <2>1, <2>2, <2>3, <2>4 DEF TruncateFrom, DayTypeOK, RowsOfTheDay
  <1>2. CASE DeleteConversation
    BY <1>0, <1>2 DEF DeleteConversation, ghosts, DayTypeOK, RowsOfTheDay
  <1>3. CASE UpdateBudget
    <2>1. PICK b \in Budgets : budget' = b /\ top' = Higher(top, b.tokens)
      BY <1>3 DEF UpdateBudget
    <2>2. top' \in Nat \cup {NoLimit}
      BY <1>0, <2>1, DayConstants DEF Higher, DayTypeOK
    <2> QED
      BY <1>0, <1>3, <2>1, <2>2 DEF UpdateBudget, DayTypeOK, RowsOfTheDay
  <1>4. CASE Midnight
    <2>1. day' \in 1..LastDay /\ day' = day + 1
      BY <1>0, <1>4, DayConstants DEF Midnight, DayTypeOK
    <2>2. DayTypeOK'
      BY <1>0, <1>4, <2>1 DEF Midnight, ghosts, DayTypeOK
    <2>3. RowsOfTheDay'
      BY <1>0, <1>4, <2>1 DEF Midnight, ghosts, DayTypeOK, RowsOfTheDay, MessageRow
    <2> QED
      BY <2>2, <2>3
  <1>5. ASSUME NEW c \in Callers, Preflight(c) PROVE DayTypeOK' /\ RowsOfTheDay'
    <2>1. PICK k \in Conversations \ gone, kind \in {"turn", "auxiliary"}, priced \in BOOLEAN :
            op' = [x \in Callers |->
                     IF x = c THEN [at |-> "open", kind |-> kind, conv |-> k, budget |-> budget, spent |-> 0,
                                    usage |-> IF Enabled(budget) THEN DailyUsage(day) ELSE Nothing,
                                    priced |-> priced, alone |-> \A y \in Callers : ~InProgress(y)]
                     ELSE [op[x] EXCEPT !.alone = FALSE]]
      BY <1>5 DEF Preflight
    <2>2. DailyUsage(day) \in [tokens : Nat, cost : Nat] /\ Nothing \in [tokens : Nat, cost : Nat]
      BY <1>0, DayUsage DEF Nothing
    <2>3. (IF Enabled(budget) THEN DailyUsage(day) ELSE Nothing) \in [tokens : Nat, cost : Nat]
      BY <2>2
    <2>4. \A x \in Callers \ {c} : op'[x] \in Operation /\ op'[x].kind = op[x].kind /\ op'[x].spent = op[x].spent
      <3> SUFFICES ASSUME NEW x \in Callers \ {c}
                   PROVE  op'[x] \in Operation /\ op'[x].kind = op[x].kind /\ op'[x].spent = op[x].spent
        OBVIOUS
      <3>1. op'[x] = [op[x] EXCEPT !.alone = FALSE]
        BY <2>1
      <3>2. op[x] \in Operation
        BY <1>0 DEF DayTypeOK
      <3> QED
        BY <3>1, <3>2 DEF Operation
    <2>5. op'[c] \in Operation /\ op'[c].spent = 0
      BY <1>0, <2>1, <2>3 DEF DayTypeOK, Operation
    <2>6. op' \in [Callers -> Operation]
      BY <2>1, <2>4, <2>5
    <2>7. \A x \in Callers : op'[x].kind = "auxiliary" => op'[x].spent <= MaxCall
      BY <1>0, <2>4, <2>5, DayConstants DEF DayTypeOK
    <2> QED
      BY <1>0, <1>5, <2>6, <2>7 DEF Preflight, ghosts, DayTypeOK, RowsOfTheDay
  <1>6. ASSUME NEW c \in Callers, ProviderCall(c) PROVE DayTypeOK' /\ RowsOfTheDay'
    <2>1. PICK n \in 1..MaxCall : op' = [op EXCEPT ![c] = [op[c] EXCEPT !.spent = @ + n]] /\ burnt' = burnt + n
      BY <1>6 DEF ProviderCall, Move
    <2>2. op[c] \in Operation /\ op[c].spent \in Nat /\ n \in Nat /\ n <= MaxCall
      BY <1>0, DayConstants DEF DayTypeOK, Operation
    <2>3. op' \in [Callers -> Operation] /\ burnt' \in Nat
      BY <1>0, <2>1, <2>2 DEF DayTypeOK, Operation
    <2>4. op'[c].kind = "auxiliary" => op'[c].spent <= MaxCall
      BY <1>0, <1>6, <2>1, <2>2, DayConstants DEF ProviderCall, CallsAgain, DayTypeOK, Operation
    <2>5. \A x \in Callers \ {c} : op'[x] = op[x]
      BY <1>0, <2>1 DEF DayTypeOK
    <2>6. \A x \in Callers : op'[x].kind = "auxiliary" => op'[x].spent <= MaxCall
      BY <1>0, <2>4, <2>5 DEF DayTypeOK
    <2> QED
      BY <1>0, <1>6, <2>3, <2>6 DEF ProviderCall, DayTypeOK, RowsOfTheDay
  <1>7. ASSUME NEW c \in Callers, Store(c) PROVE DayTypeOK' /\ RowsOfTheDay'
    <2>0. InProgress(c) /\ OperationKnows(op[c])
      BY <1>7 DEF Store, DayInvariant
    <2>1. PICK r \in MessageRow :
            /\ r \notin messages /\ messages' = messages \cup {r} /\ r.seq = next /\ r.day = day
            /\ \A q \in messages : q.seq # r.seq
      BY <1>0, <1>7, <2>0, StoreAdds
    <2>2. op' = [op EXCEPT ![c] = Idle] /\ next' = next + 1 /\ next <= MaxRows
      BY <1>7 DEF Store, Move
    <2>3. Idle \in Operation /\ Idle.kind = "none"
      BY DEF Idle, Operation, Nothing
    <2>4. op' \in [Callers -> Operation] /\ \A x \in Callers : op'[x].kind = "auxiliary" => op'[x].spent <= MaxCall
      BY <1>0, <2>2, <2>3 DEF DayTypeOK
    <2>5. next' \in 1..(MaxRows + 1) /\ next \in Nat
      BY <1>0, <2>2, DayConstants DEF DayTypeOK
    <2>6. IsFiniteSet(messages')
      BY <1>0, <2>1, FS_AddElement DEF RowsOfTheDay
    <2>7. messages' \subseteq MessageRow /\ \A q, u \in messages' : q.seq = u.seq => q = u
      BY <1>0, <2>1 DEF DayTypeOK
    <2>8. \A q \in messages' : q.seq < next' /\ q.day <= day
      BY <1>0, <2>1, <2>2, <2>5 DEF RowsOfTheDay, DayTypeOK, MessageRow
    <2> QED
      BY <1>0, <1>7, <2>4, <2>5, <2>6, <2>7, <2>8 DEF Store, ghosts, DayTypeOK, RowsOfTheDay
  <1>8. ASSUME NEW c \in Callers, EndUnrecorded(c) PROVE DayTypeOK' /\ RowsOfTheDay'
    <2>1. Idle \in Operation /\ Idle.kind = "none"
      BY DEF Idle, Operation, Nothing
    <2>2. op' = [op EXCEPT ![c] = Idle] /\ lost' = lost + op[c].spent /\ op[c].spent \in Nat
      BY <1>0, <1>8 DEF EndUnrecorded, Move, DayTypeOK, Operation
    <2>3. op' \in [Callers -> Operation] /\ \A x \in Callers : op'[x].kind = "auxiliary" => op'[x].spent <= MaxCall
      BY <1>0, <2>1, <2>2 DEF DayTypeOK
    <2> QED
      BY <1>0, <1>8, <2>2, <2>3 DEF EndUnrecorded, DayTypeOK, RowsOfTheDay
  <1>9. CASE UNCHANGED dayVars
    BY <1>0, <1>9 DEF dayVars, DayTypeOK, RowsOfTheDay
  <1> QED
    BY <1>1, <1>2, <1>3, <1>4, <1>5, <1>6, <1>7, <1>8, <1>9 DEF DayNext

--------------------------------------------------------------------------------
(* Nothing is hidden.                                                      *)

SpentBy == [c \in Callers |-> op[c].spent]

\* No step produces, moves or drops units without its books (accounting.go).
LEMMA HiddenStep ==
  ASSUME DayInvariant, [DayNext]_dayVars
  PROVE  NothingHidden'
  <1>0. DayTypeOK /\ RowsOfTheDay /\ NothingHidden /\ DayTypeOK' /\ RowsOfTheDay'
    BY TypesStep DEF DayInvariant
  <1>1. SpentBy \in [Callers -> Nat] /\ SpentBy' \in [Callers -> Nat]
    BY <1>0 DEF SpentBy, DayTypeOK, Operation
  <1>2. burnt = Tokens(messages) + SumFunction(SpentBy) + lost
    BY <1>0 DEF NothingHidden, SpentBy
  <1>3. Tokens(messages) \in Nat /\ SumFunction(SpentBy) \in Nat /\ SumFunction(SpentBy') \in Nat
        /\ burnt \in Nat /\ lost \in Nat /\ \A c \in Callers : op[c].spent \in Nat
    BY <1>0, <1>1, TokensSum, CallersSum DEF DayTypeOK, RowsOfTheDay, Operation
  <1>4. SUFFICES burnt' = Tokens(messages') + SumFunction(SpentBy') + lost'
    BY DEF NothingHidden, SpentBy
  <1>5. CASE op' = op /\ messages' = messages /\ burnt' = burnt /\ lost' = lost
    BY <1>2, <1>5 DEF SpentBy
  <1>6. CASE TruncateFrom
    <2>1. PICK k \in Conversations \ gone, s \in {r.seq : r \in messages} :
            LET deleted == {r \in messages : r.conv = k /\ r.seq >= s /\ ConversationRows(r)} IN
            /\ messages' = messages \ deleted
            /\ lost' = lost + Tokens({r \in deleted : r.kind = "turn"})
      BY <1>6 DEF TruncateFrom
    <2> DEFINE deleted == {r \in messages : r.conv = k /\ r.seq >= s /\ ConversationRows(r)}
    <2>2. {r \in deleted : r.kind = "turn"} = deleted /\ deleted \in SUBSET messages
      BY DEF ConversationRows
    <2>3. messages' = messages \ deleted /\ lost' = lost + Tokens(deleted)
      BY <2>1, <2>2
    <2> HIDE DEF deleted
    <2>4. Tokens(messages) = Tokens(deleted) + Tokens(messages \ deleted)
      BY <1>0, <2>2, TokensPart DEF DayTypeOK, RowsOfTheDay
    <2>5. Tokens(deleted) \in Nat /\ Tokens(messages \ deleted) \in Nat
      BY <1>0, <2>2, FS_Subset, TokensSum DEF DayTypeOK, RowsOfTheDay
    <2>6. SpentBy' = SpentBy /\ burnt' = burnt
      BY <1>6 DEF TruncateFrom, SpentBy
    <2> QED
      BY <1>2, <1>3, <2>3, <2>4, <2>5, <2>6
  <1>7. ASSUME NEW c \in Callers, Preflight(c)
        PROVE  burnt' = Tokens(messages') + SumFunction(SpentBy') + lost'
    <2>1. ~InProgress(c) /\ messages' = messages /\ burnt' = burnt /\ lost' = lost
      BY <1>7 DEF Preflight, ghosts
    <2>2. \A x \in Callers \ {c} : SpentBy'[x] = SpentBy[x]
      BY <1>0, <1>7 DEF Preflight, SpentBy, DayTypeOK, Operation
    <2>3. SpentBy'[c] = 0
      BY <1>7 DEF Preflight, SpentBy
    <2>4. SpentBy[c] = 0
      BY <1>0, <2>1 DEF SpentBy, DayInvariant, InProgress
    <2> QED
      BY <1>1, <1>2, <2>1, <2>2, <2>3, <2>4, CallersSame
  <1>8. ASSUME NEW c \in Callers, ProviderCall(c)
        PROVE  burnt' = Tokens(messages') + SumFunction(SpentBy') + lost'
    <2>1. PICK n \in 1..MaxCall : op' = [op EXCEPT ![c] = [op[c] EXCEPT !.spent = @ + n]] /\ burnt' = burnt + n
      BY <1>8 DEF ProviderCall, Move
    <2>2. messages' = messages /\ lost' = lost /\ n \in Nat
      BY <1>8, DayConstants DEF ProviderCall
    <2>3. SpentBy'[c] = SpentBy[c] + n /\ SpentBy[c] \in Nat /\ \A x \in Callers \ {c} : SpentBy'[x] = SpentBy[x]
      BY <1>0, <1>3, <2>1 DEF SpentBy, DayTypeOK, Operation
    <2>4. SumFunction(SpentBy') + SpentBy[c] = SumFunction(SpentBy) + SpentBy'[c]
      BY <1>1, <2>3, CallersChange
    <2>5. SumFunction(SpentBy') = SumFunction(SpentBy) + n
      BY <1>3, <2>2, <2>3, <2>4
    <2> QED
      BY <1>2, <1>3, <2>1, <2>2, <2>5
  <1>9. ASSUME NEW c \in Callers, op' = [op EXCEPT ![c] = Idle]
        PROVE  SumFunction(SpentBy) = SumFunction(SpentBy') + op[c].spent
    <2>1. SpentBy'[c] = 0 /\ SpentBy[c] = op[c].spent /\ \A x \in Callers \ {c} : SpentBy'[x] = SpentBy[x]
      BY <1>0, <1>9 DEF SpentBy, DayTypeOK, Idle
    <2>2. SumFunction(SpentBy') + SpentBy[c] = SumFunction(SpentBy) + SpentBy'[c]
      BY <1>1, <2>1, CallersChange
    <2> QED
      BY <1>3, <2>1, <2>2
  <1>10. ASSUME NEW c \in Callers, Store(c)
         PROVE  burnt' = Tokens(messages') + SumFunction(SpentBy') + lost'
    <2>0. InProgress(c) /\ OperationKnows(op[c]) /\ op' = [op EXCEPT ![c] = Idle] /\ burnt' = burnt /\ lost' = lost
      BY <1>10 DEF Store, DayInvariant, Move, ghosts
    <2>1. PICK r \in MessageRow :
            /\ r \notin messages /\ messages' = messages \cup {r} /\ r.tokens = op[c].spent
      BY <1>0, <1>10, <2>0, StoreAdds
    <2>2. Tokens(messages') = Tokens(messages) + op[c].spent
      BY <1>0, <2>1, TokensAdd DEF DayTypeOK, RowsOfTheDay
    <2>3. SumFunction(SpentBy) = SumFunction(SpentBy') + op[c].spent
      BY <1>9, <2>0
    <2> QED
      BY <1>2, <1>3, <2>0, <2>2, <2>3
  <1>11. ASSUME NEW c \in Callers, EndUnrecorded(c)
         PROVE  burnt' = Tokens(messages') + SumFunction(SpentBy') + lost'
    <2>1. op' = [op EXCEPT ![c] = Idle] /\ burnt' = burnt /\ lost' = lost + op[c].spent /\ messages' = messages
      BY <1>11 DEF EndUnrecorded, Move
    <2>2. SumFunction(SpentBy) = SumFunction(SpentBy') + op[c].spent
      BY <1>9, <2>1
    <2> QED
      BY <1>2, <1>3, <2>1, <2>2
  <1>12. DeleteConversation \/ UpdateBudget \/ Midnight \/ UNCHANGED dayVars =>
           op' = op /\ messages' = messages /\ burnt' = burnt /\ lost' = lost
    BY DEF DeleteConversation, UpdateBudget, Midnight, dayVars, ghosts
  <1> QED
    BY <1>5, <1>6, <1>7, <1>8, <1>10, <1>11, <1>12 DEF DayNext

--------------------------------------------------------------------------------
(* What an operation knows.                                                *)

\* A day's usage falls when turns are edited away, grows by what is stored, and a new day
\* has none.
LEMMA UsageStep ==
  ASSUME DayInvariant, [DayNext]_dayVars, ~(\E c \in Callers : Store(c))
  PROVE  \A d \in Nat : /\ Tokens(OfDay(d)') <= Tokens(OfDay(d))
                        /\ Cost(OfDay(d)') <= Cost(OfDay(d))
  <1>0. DayTypeOK /\ RowsOfTheDay
    BY DEF DayInvariant
  <1> SUFFICES ASSUME NEW d \in Nat
               PROVE  Tokens(OfDay(d)') <= Tokens(OfDay(d)) /\ Cost(OfDay(d)') <= Cost(OfDay(d))
    OBVIOUS
  <1>1. messages' \subseteq messages
    BY DEF DayNext, TruncateFrom, DeleteConversation, UpdateBudget, Midnight, Preflight,
           ProviderCall, EndUnrecorded, dayVars, ghosts
  <1>2. OfDay(d)' \in SUBSET OfDay(d)
    BY <1>1 DEF OfDay
  <1>3. OfDay(d) \in SUBSET MessageRow /\ IsFiniteSet(OfDay(d))
    BY <1>0, DayUsage
  <1> QED
    BY <1>2, <1>3, TokensPart

\* A stored row counts in full on its day, and on no other.
LEMMA StoreCounts ==
  ASSUME DayInvariant, NEW c \in Callers, Store(c)
  PROVE  /\ Tokens(OfDay(day)') = Tokens(OfDay(day)) + op[c].spent
         /\ Cost(OfDay(day)') <= Cost(OfDay(day)) + op[c].spent
         /\ \A d \in Nat \ {day} : OfDay(d)' = OfDay(d)
  <1>0. DayTypeOK /\ RowsOfTheDay /\ InProgress(c) /\ OperationKnows(op[c])
    BY DEF DayInvariant, Store
  <1>1. PICK r \in MessageRow :
          /\ r \notin messages /\ messages' = messages \cup {r} /\ r.day = day /\ r.tokens = op[c].spent
    BY <1>0, StoreAdds
  <1>2. day' = day
    BY DEF Store
  <1>3. OfDay(day)' = OfDay(day) \cup {r} /\ r \notin OfDay(day)
    BY <1>1, <1>2 DEF OfDay
  <1>4. \A d \in Nat \ {day} : OfDay(d)' = OfDay(d)
    BY <1>1 DEF OfDay
  <1>5. /\ Tokens(OfDay(day)') = Tokens(OfDay(day)) + r.tokens
        /\ Cost(OfDay(day)') = Cost(OfDay(day)) + Money[r]
    BY <1>0, <1>3, DayUsage, TokensAdd
  <1>6. Money[r] \in Nat /\ Money[r] <= r.tokens /\ Cost(OfDay(day)) \in Nat /\ r.tokens \in Nat
    BY <1>0, RowWeights, DayUsage
  <1> QED
    BY <1>1, <1>4, <1>5, <1>6

\* Nothing is counted yet on a day that begins.
LEMMA NewDayIsEmpty ==
  ASSUME DayInvariant, Midnight
  PROVE  Tokens(OfDay(day)') = 0 /\ Cost(OfDay(day)') = 0
  <1>1. OfDay(day)' = {}
    <2>1. day \in Nat /\ day' = day + 1 /\ messages' = messages
      BY DEF Midnight, DayInvariant, DayTypeOK
    <2>2. \A r \in messages : r.day <= day /\ r.day \in Nat
      BY DEF DayInvariant, DayTypeOK, RowsOfTheDay, MessageRow
    <2> QED
      BY <2>1, <2>2 DEF OfDay
  <1> QED
    BY <1>1, TokensOfNone

\* What the gate let through (budgetPreflight, turnGate).
LEMMA GateHolds ==
  ASSUME NEW o, o.budget \in Budgets \cup {NoBudget}, o.usage \in [tokens : Nat, cost : Nat],
         o.spent \in Nat, MayCall(o)
  PROVE  /\ o.budget.tokens # NoLimit => o.usage.tokens + o.spent < o.budget.tokens
         /\ o.budget.cost # NoLimit => o.priced /\ o.usage.cost + o.spent < o.budget.cost
  <1>1. /\ o.budget.tokens \in Nat \cup {NoLimit} /\ o.budget.cost \in Nat \cup {NoLimit}
        /\ o.usage.tokens \in Nat /\ o.usage.cost \in Nat
    BY DayConstants
  <1>2. CASE o.budget = NoBudget
    BY <1>2, DayConstants
  <1>3. CASE o.budget # NoBudget
    <2>1. /\ ~Reached(o.budget.tokens, Used(o).tokens) /\ ~Reached(o.budget.cost, Used(o).cost)
          /\ ~(o.budget.cost # NoLimit /\ ~o.priced)
      BY <1>3 DEF MayCall, Enabled, BudgetBlocks
    <2>2. Used(o).tokens = o.usage.tokens + o.spent /\ (o.priced => Used(o).cost = o.usage.cost + o.spent)
      BY DEF Used
    <2> QED
      BY <1>1, <2>1, <2>2 DEF Reached
  <1> QED
    BY <1>2, <1>3

\* An operation's last call may pass its limits, and no call follows it.
LEMMA OperationStep ==
  ASSUME DayInvariant, [DayNext]_dayVars, NEW c \in Callers
  PROVE  (InProgress(c) => OperationKnows(op[c]))' /\ (~InProgress(c) => op[c].spent = 0)'
  <1>0. /\ DayTypeOK /\ RowsOfTheDay /\ RoomIsLeft /\ op[c] \in Operation
        /\ InProgress(c) => OperationKnows(op[c])
        /\ ~InProgress(c) => op[c].spent = 0
    BY DEF DayInvariant, DayTypeOK
  <1>1. CASE op'[c] = op[c] /\ top' = top
    BY <1>0, <1>1 DEF InProgress, OperationKnows
  <1>2. CASE UpdateBudget
    <2>1. PICK b \in Budgets : top' = Higher(top, b.tokens) /\ op' = op
      BY <1>2 DEF UpdateBudget
    <2>2. ASSUME top' # NoLimit PROVE top # NoLimit /\ top' \in Nat /\ top \in Nat /\ top <= top'
      BY <1>0, <2>1, <2>2, DayConstants DEF Higher, DayTypeOK
    <2>3. ASSUME OperationKnows(op[c]), top' # NoLimit
          PROVE  op[c].budget.tokens # NoLimit /\ op[c].budget.tokens <= top'
      <3>1. op[c].budget.tokens \in Nat /\ op[c].budget.tokens <= top
        BY <1>0, <2>2, <2>3, DayConstants DEF OperationKnows, Operation
      <3> QED
        BY <2>2, <2>3, <3>1, DayConstants
    <2> QED
      BY <1>0, <2>1, <2>3 DEF InProgress, OperationKnows
  <1>3. ASSUME NEW x \in Callers, x # c, Preflight(x)
        PROVE  (InProgress(c) => OperationKnows(op[c]))' /\ (~InProgress(c) => op[c].spent = 0)'
    <2>1. op'[c] = [op[c] EXCEPT !.alone = FALSE] /\ top' = top
      BY <1>3 DEF Preflight, ghosts
    <2>2. /\ op'[c].at = op[c].at /\ op'[c].conv = op[c].conv /\ op'[c].kind = op[c].kind
          /\ op'[c].budget = op[c].budget /\ op'[c].usage = op[c].usage /\ op'[c].priced = op[c].priced
          /\ op'[c].spent = op[c].spent
      BY <1>0, <2>1 DEF Operation
    <2> QED
      BY <1>0, <2>1, <2>2 DEF InProgress, OperationKnows
  <1>4. CASE Preflight(c)
    <2>1. /\ op'[c].at = "open" /\ op'[c].conv \in Conversations /\ op'[c].kind # "none"
          /\ op'[c].budget = budget /\ op'[c].spent = 0
          /\ op'[c].usage = (IF Enabled(budget) THEN DailyUsage(day) ELSE Nothing)
          /\ MayCall(op'[c]) /\ top' = top
      BY <1>4 DEF Preflight, ghosts
    <2>2. op'[c].usage \in [tokens : Nat, cost : Nat]
      BY <1>0, <2>1, DayUsage DEF Nothing
    <2>3. budget \in Budgets
      BY <1>0 DEF DayTypeOK
    <2>4. /\ budget.tokens # NoLimit => op'[c].usage.tokens + 0 < budget.tokens
          /\ budget.cost # NoLimit => op'[c].priced /\ op'[c].usage.cost + 0 < budget.cost
      BY <2>1, <2>2, <2>3, GateHolds
    <2>5. /\ op'[c].usage.tokens \in Nat /\ op'[c].usage.cost \in Nat
          /\ budget.tokens \in Nat \cup {NoLimit} /\ budget.cost \in Nat \cup {NoLimit}
      BY <2>2, <2>3, DayConstants
    <2>6. WithinLimit(budget.tokens, op'[c].usage.tokens, 0)
      BY <2>4, <2>5, DayConstants DEF WithinLimit
    <2>7. WithinLimit(budget.cost, op'[c].usage.cost, 0) /\ (budget.cost # NoLimit => op'[c].priced)
      BY <2>4, <2>5, DayConstants DEF WithinLimit
    <2> QED
      BY <1>0, <2>1, <2>6, <2>7 DEF InProgress, OperationKnows, RoomIsLeft
  <1>5. CASE ProviderCall(c)
    <2>1. PICK n \in 1..MaxCall : op' = [op EXCEPT ![c] = [op[c] EXCEPT !.spent = @ + n]]
      BY <1>5 DEF ProviderCall, Move
    <2>2. InProgress(c) /\ OperationKnows(op[c]) /\ MayCall(op[c]) /\ top' = top
      BY <1>0, <1>5 DEF ProviderCall
    <2>3. /\ op'[c].at = op[c].at /\ op'[c].conv = op[c].conv /\ op'[c].kind = op[c].kind
          /\ op'[c].budget = op[c].budget /\ op'[c].usage = op[c].usage /\ op'[c].priced = op[c].priced
          /\ op'[c].spent = op[c].spent + n
      BY <1>0, <2>1 DEF Operation, DayTypeOK
    <2>4. /\ op[c].budget \in Budgets \cup {NoBudget} /\ op[c].usage \in [tokens : Nat, cost : Nat]
          /\ op[c].spent \in Nat
      BY <1>0 DEF Operation
    <2>5. /\ op[c].budget.tokens # NoLimit => op[c].usage.tokens + op[c].spent < op[c].budget.tokens
          /\ op[c].budget.cost # NoLimit => op[c].usage.cost + op[c].spent < op[c].budget.cost
      BY <2>2, <2>4, GateHolds
    <2>6. /\ op[c].usage.tokens \in Nat /\ op[c].usage.cost \in Nat /\ n \in Nat /\ n <= MaxCall
          /\ op[c].budget.tokens \in Nat \cup {NoLimit} /\ op[c].budget.cost \in Nat \cup {NoLimit}
      BY <2>4, DayConstants
    <2>7. WithinLimit(op[c].budget.tokens, op[c].usage.tokens, op[c].spent + n)
      BY <2>2, <2>4, <2>5, <2>6, DayConstants DEF WithinLimit, OperationKnows
    <2>8. WithinLimit(op[c].budget.cost, op[c].usage.cost, op[c].spent + n)
      BY <2>2, <2>4, <2>5, <2>6, DayConstants DEF WithinLimit, OperationKnows
    <2> QED
      BY <2>2, <2>3, <2>7, <2>8 DEF InProgress, OperationKnows
  <1>6. CASE Store(c) \/ EndUnrecorded(c)
    <2>1. op'[c] = Idle
      BY <1>0, <1>6 DEF Store, EndUnrecorded, Move, DayTypeOK
    <2> QED
      BY <2>1 DEF Idle, InProgress
  <1>7. ASSUME NEW x \in Callers, x # c, ProviderCall(x) \/ Store(x) \/ EndUnrecorded(x)
        PROVE  op'[c] = op[c] /\ top' = top
    BY <1>0, <1>7 DEF ProviderCall, Store, EndUnrecorded, Move, ghosts, DayTypeOK
  <1>8. ASSUME TruncateFrom \/ DeleteConversation \/ Midnight \/ UNCHANGED dayVars
        PROVE  op'[c] = op[c] /\ top' = top
    BY <1>8 DEF TruncateFrom, DeleteConversation, Midnight, dayVars, ghosts
  <1> QED
    BY <1>1, <1>2, <1>3, <1>4, <1>5, <1>6, <1>7, <1>8 DEF DayNext

--------------------------------------------------------------------------------
\* Whoever joins, an operation is alone no more; until then nothing is stored beside it.
LEMMA AloneStep ==
  ASSUME DayInvariant, [DayNext]_dayVars, NEW c \in Callers
  PROVE  (InProgress(c) /\ op[c].alone => AloneKnows(c))'
  <1>0. /\ DayTypeOK /\ RowsOfTheDay /\ op[c] \in Operation
        /\ \A x \in Callers : op[x] \in Operation
        /\ InProgress(c) /\ op[c].alone => AloneKnows(c)
        /\ DayTypeOK' /\ RowsOfTheDay' /\ day \in Nat /\ day' \in Nat
    BY TypesStep DEF DayInvariant, DayTypeOK
  <1>1. /\ Tokens(OfDay(day)) \in Nat /\ Cost(OfDay(day)) \in Nat
        /\ DailyUsage(day).tokens = Tokens(OfDay(day)) /\ DailyUsage(day).cost = Cost(OfDay(day))
        /\ DailyUsage(day)'.tokens = Tokens(OfDay(day))' /\ DailyUsage(day)'.cost = Cost(OfDay(day))'
    BY <1>0, DayUsage DEF DailyUsage
  <1>2. SUFFICES ASSUME op'[c].at = "open", op'[c].alone
                 PROVE  /\ \A x \in Callers \ {c} : op'[x].at # "open"
                        /\ Enabled(op'[c].budget) => /\ Tokens(OfDay(day))' <= op'[c].usage.tokens
                                                     /\ Cost(OfDay(day))' <= op'[c].usage.cost
    BY <1>1 DEF AloneKnows, InProgress
  <1>3. ASSUME op'[c].usage = op[c].usage, op'[c].budget = op[c].budget, op'[c].alone = op[c].alone,
               \A x \in Callers : op'[x].at = op[x].at,
               (Tokens(OfDay(day))' <= Tokens(OfDay(day)) /\ Cost(OfDay(day))' <= Cost(OfDay(day)))
                 \/ (Tokens(OfDay(day))' = 0 /\ Cost(OfDay(day))' = 0),
               Tokens(OfDay(day))' \in Nat, Cost(OfDay(day))' \in Nat
        PROVE  /\ \A x \in Callers \ {c} : op'[x].at # "open"
               /\ Enabled(op'[c].budget) => /\ Tokens(OfDay(day))' <= op'[c].usage.tokens
                                            /\ Cost(OfDay(day))' <= op'[c].usage.cost
    <2>1. AloneKnows(c)
      BY <1>0, <1>2, <1>3 DEF InProgress
    <2>2. op[c].usage.tokens \in Nat /\ op[c].usage.cost \in Nat
      BY <1>0 DEF Operation
    <2> QED
      BY <1>1, <1>3, <2>1, <2>2 DEF AloneKnows, InProgress
  <1>4. Tokens(OfDay(day))' \in Nat /\ Cost(OfDay(day))' \in Nat
    <2>1. OfDay(day)' \in SUBSET MessageRow /\ OfDay(day)' \in SUBSET messages'
      BY <1>0 DEF OfDay, DayTypeOK
    <2>2. IsFiniteSet(OfDay(day)')
      BY <1>0, <2>1, FS_Subset DEF RowsOfTheDay
    <2> QED
      BY <2>1, <2>2, TokensSum
  <1>5. CASE TruncateFrom \/ DeleteConversation \/ UpdateBudget \/ UNCHANGED dayVars
    <2>1. op' = op /\ day' = day /\ ~(\E x \in Callers : Store(x))
      BY <1>0, <1>5 DEF TruncateFrom, DeleteConversation, UpdateBudget, dayVars, ghosts, Store, DayTypeOK
    <2>2. Tokens(OfDay(day))' <= Tokens(OfDay(day)) /\ Cost(OfDay(day))' <= Cost(OfDay(day))
      <3>1. /\ Tokens(OfDay(day)') <= Tokens(OfDay(day)) /\ Cost(OfDay(day)') <= Cost(OfDay(day))
        <4>1. messages' \subseteq messages
          BY <1>5 DEF TruncateFrom, DeleteConversation, UpdateBudget, dayVars, ghosts
        <4>2. OfDay(day)' \in SUBSET OfDay(day)
          BY <2>1, <4>1 DEF OfDay
        <4> QED
          BY <1>0, <4>2, DayUsage, TokensPart
      <3> QED
        BY <3>1
    <2> QED
      BY <1>3, <1>4, <2>1, <2>2
  <1>6. CASE Midnight
    BY <1>3, <1>4, <1>6, NewDayIsEmpty DEF Midnight, ghosts
  <1>7. ASSUME NEW x \in Callers, x # c, Preflight(x) PROVE FALSE
    BY <1>0, <1>2, <1>7 DEF Preflight, Operation
  <1>8. ASSUME Preflight(c)
        PROVE  /\ \A x \in Callers \ {c} : op'[x].at # "open"
               /\ Enabled(op'[c].budget) => /\ Tokens(OfDay(day))' <= op'[c].usage.tokens
                                            /\ Cost(OfDay(day))' <= op'[c].usage.cost
    <2>1. messages' = messages /\ day' = day
      BY <1>8 DEF Preflight, ghosts
    <2>2. OfDay(day)' = OfDay(day)
      BY <2>1 DEF OfDay
    <2>3. \A x \in Callers \ {c} : op'[x].at = op[x].at
      BY <1>0, <1>8 DEF Preflight, Operation
    <2>4. op'[c].budget = budget /\ op'[c].usage = (IF Enabled(budget) THEN DailyUsage(day) ELSE Nothing)
      BY <1>8 DEF Preflight
    <2>5. op'[c].alone => \A x \in Callers : op[x].at # "open"
      BY <1>8 DEF Preflight, InProgress
    <2>6. Enabled(op'[c].budget) => op'[c].usage = DailyUsage(day)
      BY <2>4
    <2> QED
      BY <1>1, <1>2, <2>2, <2>3, <2>5, <2>6
  <1>9. ASSUME ProviderCall(c)
        PROVE  /\ \A x \in Callers \ {c} : op'[x].at # "open"
               /\ Enabled(op'[c].budget) => /\ Tokens(OfDay(day))' <= op'[c].usage.tokens
                                            /\ Cost(OfDay(day))' <= op'[c].usage.cost
    <2>1. PICK n \in 1..MaxCall : op' = [op EXCEPT ![c] = [op[c] EXCEPT !.spent = @ + n]]
      BY <1>9 DEF ProviderCall, Move
    <2>2. /\ op'[c].usage = op[c].usage /\ op'[c].budget = op[c].budget /\ op'[c].alone = op[c].alone
          /\ op'[c].at = op[c].at /\ \A x \in Callers \ {c} : op'[x] = op[x]
      BY <1>0, <2>1 DEF DayTypeOK, Operation
    <2>3. OfDay(day)' = OfDay(day)
      BY <1>9 DEF ProviderCall, OfDay
    <2> QED
      BY <1>1, <1>3, <1>4, <2>2, <2>3
  <1>10. ASSUME Store(c) \/ EndUnrecorded(c) PROVE FALSE
    <2>1. op'[c] = Idle
      BY <1>0, <1>10 DEF Store, EndUnrecorded, Move, DayTypeOK
    <2> QED
      BY <1>2, <2>1 DEF Idle
  <1>11. ASSUME NEW x \in Callers, x # c, ProviderCall(x) \/ Store(x) \/ EndUnrecorded(x) PROVE FALSE
    <2>1. op'[c] = op[c] /\ InProgress(x)
      BY <1>0, <1>11 DEF ProviderCall, Store, EndUnrecorded, Move, DayTypeOK
    <2> QED
      BY <1>0, <1>2, <1>11, <2>1 DEF AloneKnows, InProgress
  <1> QED
    BY <1>5, <1>6, <1>7, <1>8, <1>9, <1>10, <1>11 DEF DayNext

--------------------------------------------------------------------------------
(* What operations side by side may still come to.                         *)

Cap(t) == t + MaxCall - 1
Fits(o, t) ==
  o.at = "open" => o.usage.tokens <= Cap(t) /\ o.usage.tokens + o.spent <= Cap(t)
Rest(ops, t) == [c \in Callers |-> IF ops[c].at = "open" THEN Cap(t) - ops[c].usage.tokens ELSE 0]

\* The most one operation may count against the highest limit t, and how it grows with t.
LEMMA CapGrows ==
  ASSUME NEW t \in Nat
  PROVE  /\ Cap(t) \in Nat /\ t <= Cap(t)
         /\ \A n \in Nat : n < t + MaxCall => n <= Cap(t)
         /\ \A u \in Nat : u <= t => t - u \in Nat /\ Cap(t) = Cap(u) + (t - u)
  BY DayConstants DEF Cap

\* What an operation may still add is at most that, and covers what it has spent.
LEMMA RestIsBounded ==
  ASSUME NEW t \in Nat, NEW ops \in [Callers -> Operation], \A c \in Callers : Fits(ops[c], t)
  PROVE  /\ Cap(t) \in Nat
         /\ Rest(ops, t) \in [Callers -> Nat]
         /\ \A c \in Callers : /\ Rest(ops, t)[c] <= Cap(t)
                               /\ ops[c].at = "open" => ops[c].spent <= Rest(ops, t)[c]
  <1>1. Cap(t) \in Nat
    BY CapGrows
  <1>2. \A c \in Callers : ops[c].usage.tokens \in Nat /\ ops[c].spent \in Nat
    BY DEF Operation
  <1>3. \A c \in Callers : /\ Rest(ops, t)[c] \in Nat /\ Rest(ops, t)[c] <= Cap(t)
                           /\ ops[c].at = "open" => ops[c].spent <= Rest(ops, t)[c]
    BY <1>1, <1>2 DEF Rest, Fits
  <1> QED
    BY <1>1, <1>3 DEF Rest

\* An operation within its own limit, and a call, is within the highest one's.
LEMMA LimitFits ==
  ASSUME NEW t \in Nat, NEW b \in Nat, NEW u \in Nat, NEW s \in Nat,
         b <= t, u < b, u + s < b + MaxCall
  PROVE  u <= Cap(t) /\ u + s <= Cap(t)
  <1>1. MaxCall \in Nat /\ MaxCall > 0 /\ Cap(t) = t + MaxCall - 1
    BY DayConstants DEF Cap
  <1> QED
    BY <1>1

\* Operations under way are within the highest limit,
LEMMA KnowsFits ==
  ASSUME DayInvariant, top # NoLimit
  PROVE  /\ top \in Nat /\ op \in [Callers -> Operation] /\ \A c \in Callers : Fits(op[c], top)
         /\ Allowed = Rest(op, top) /\ PerCaller = Cap(top)
  <1>1. top \in Nat /\ op \in [Callers -> Operation]
    BY DEF DayInvariant, DayTypeOK
  <1>2. ASSUME NEW c \in Callers PROVE Fits(op[c], top)
    <2>1. SUFFICES ASSUME InProgress(c) PROVE Fits(op[c], top)
      BY DEF Fits, InProgress
    <2>2. OperationKnows(op[c])
      BY <2>1 DEF DayInvariant
    <2>3. op[c].budget \in Budgets \cup {NoBudget} /\ op[c].usage.tokens \in Nat /\ op[c].spent \in Nat
      BY <1>1 DEF Operation
    <2>4. op[c].budget.tokens \in Nat /\ op[c].budget.tokens <= top
      BY <2>2, <2>3, DayConstants DEF OperationKnows
    <2>5. /\ op[c].usage.tokens < op[c].budget.tokens
          /\ op[c].usage.tokens + op[c].spent < op[c].budget.tokens + MaxCall
      BY <2>2, <2>4, DayConstants DEF OperationKnows, WithinLimit
    <2> QED
      BY <1>1, <2>3, <2>4, <2>5, LimitFits DEF Fits
  <1> QED
    BY <1>1, <1>2 DEF Allowed, Rest, PerCaller, InProgress, Cap

\* Products of numbers, which the solver is told once.
LEMMA Times ==
  \A n, a, b \in Nat : /\ n * a \in Nat /\ n * (a + b) = n * a + n * b
                       /\ (n + 1) * a = n * a + a
  OBVIOUS

\* The highest limit only rises, and the one in force is never above it.
LEMMA LimitRises ==
  ASSUME DayInvariant, [DayNext]_dayVars, top' # NoLimit
  PROVE  /\ top # NoLimit /\ top \in Nat /\ top' \in Nat /\ top <= top'
         /\ budget'.tokens # NoLimit /\ budget'.tokens <= top'
  <1>0. /\ RoomIsLeft /\ top' \in Nat \cup {NoLimit} /\ top \in Nat \cup {NoLimit}
    BY TypesStep DEF DayInvariant, DayTypeOK
  <1>1. CASE UpdateBudget
    <2>1. PICK b \in Budgets : budget' = b /\ top' = Higher(top, b.tokens)
      BY <1>1 DEF UpdateBudget
    <2>2. b.tokens \in Nat \cup {NoLimit}
      BY DayConstants
    <2> QED
      BY <1>0, <2>1, <2>2, DayConstants DEF Higher
  <1>2. CASE top' = top /\ budget' = budget
    BY <1>0, <1>2, DayConstants DEF RoomIsLeft
  <1>3. UpdateBudget \/ (top' = top /\ budget' = budget)
    BY DEF DayNext, TruncateFrom, DeleteConversation, Midnight, Preflight,
           ProviderCall, Store, EndUnrecorded, dayVars, ghosts
  <1> QED
    BY <1>1, <1>2, <1>3

\* and still are after any step.
LEMMA FitsAfter ==
  ASSUME DayInvariant, [DayNext]_dayVars, top' # NoLimit, NEW c \in Callers
  PROVE  Fits(op'[c], top')
  <1>0. op'[c] \in Operation /\ top' \in Nat
    BY TypesStep, LimitRises DEF DayTypeOK
  <1>1. SUFFICES ASSUME op'[c].at = "open" PROVE Fits(op'[c], top')
    BY DEF Fits
  <1>2. (InProgress(c) => OperationKnows(op[c]))'
    BY OperationStep
  <1>3. OperationKnows(op[c])'
    BY <1>1, <1>2 DEF InProgress
  <1>4. op'[c].budget \in Budgets \cup {NoBudget} /\ op'[c].usage.tokens \in Nat /\ op'[c].spent \in Nat
    BY <1>0 DEF Operation
  <1>5. op'[c].budget.tokens \in Nat /\ op'[c].budget.tokens <= top'
    BY <1>3, <1>4, DayConstants DEF OperationKnows
  <1>6. /\ op'[c].usage.tokens < op'[c].budget.tokens
        /\ op'[c].usage.tokens + op'[c].spent < op'[c].budget.tokens + MaxCall
    BY <1>3, <1>5, DayConstants DEF OperationKnows, WithinLimit
  <1> QED
    BY <1>0, <1>4, <1>5, <1>6, LimitFits DEF Fits

\* The day's tokens, and all that operations may still add to them, stay below one limit and
\* one call each: an operation that begins is given what the day has left, whoever runs.
LEMMA RoomStep ==
  ASSUME DayInvariant, [DayNext]_dayVars
  PROVE  RoomIsLeft'
  <1>0. /\ DayTypeOK /\ RowsOfTheDay /\ RoomIsLeft /\ DayTypeOK' /\ RowsOfTheDay'
        /\ op \in [Callers -> Operation] /\ op' \in [Callers -> Operation]
        /\ top' \in Nat \cup {NoLimit} /\ top \in Nat \cup {NoLimit} /\ day \in Nat /\ day' \in Nat
    BY TypesStep DEF DayInvariant, DayTypeOK
  <1> DEFINE N == Cardinality(Callers)
             T == Tokens(OfDay(day))
             Tn == Tokens(OfDay(day)')
             B == Cap(top)
             Bn == Cap(top')
             A == SumFunction(Rest(op, top))
             An == SumFunction(Rest(op', top'))
  <1>1. SUFFICES ASSUME top' # NoLimit
                 PROVE  /\ budget'.tokens # NoLimit /\ budget'.tokens <= top'
                        /\ Tn + An <= N * Bn
    BY DEF RoomIsLeft, Allowed, Rest, PerCaller, InProgress, Cap
  <1>2. top # NoLimit /\ top \in Nat /\ top' \in Nat /\ top <= top'
        /\ budget'.tokens # NoLimit /\ budget'.tokens <= top'
    BY <1>1, LimitRises
  <1>3. /\ N \in Nat /\ T \in Nat /\ B \in Nat /\ Bn \in Nat
        /\ \A c \in Callers : Fits(op[c], top)
        /\ T + A <= N * B /\ A \in Nat /\ Rest(op, top) \in [Callers -> Nat]
        /\ \A c \in Callers : Rest(op, top)[c] <= B
    <2>1. N \in Nat
      BY DayConstants, FS_CardinalityType
    <2>2. /\ \A c \in Callers : Fits(op[c], top)
          /\ Allowed = Rest(op, top) /\ PerCaller = B
      BY <1>2, KnowsFits
    <2>3. /\ B \in Nat /\ Rest(op, top) \in [Callers -> Nat]
          /\ \A c \in Callers : Rest(op, top)[c] <= B
      BY <1>0, <1>2, <2>2, RestIsBounded
    <2>4. A \in Nat
      BY <2>3, CallersSum
    <2>5. T + A <= N * B
      BY <1>0, <1>2, <2>2 DEF RoomIsLeft
    <2>6. T \in Nat
      BY <1>0, DayUsage
    <2>7. Bn \in Nat
      BY <1>2, CapGrows
    <2> QED
      BY <2>1, <2>2, <2>3, <2>4, <2>5, <2>6, <2>7
  <1>4. /\ Tn \in Nat /\ An \in Nat /\ Rest(op', top') \in [Callers -> Nat]
        /\ \A c \in Callers : /\ Rest(op', top')[c] <= Bn
    <2>1. OfDay(day)' \in SUBSET MessageRow /\ OfDay(day)' \in SUBSET messages'
      BY <1>0 DEF OfDay, DayTypeOK
    <2>2. Tn \in Nat
      BY <1>0, <2>1, FS_Subset, TokensSum DEF RowsOfTheDay
    <2>3. \A c \in Callers : Fits(op'[c], top')
      BY <1>1, FitsAfter
    <2>4. Rest(op', top') \in [Callers -> Nat] /\ \A c \in Callers : Rest(op', top')[c] <= Bn
      BY <1>0, <1>2, <2>3, RestIsBounded
    <2> QED
      BY <2>2, <2>4, CallersSum
  <1>5. SUFFICES Tn + An <= N * Bn
    BY <1>2
  <1>6. CASE top' = top /\ Tn <= T /\ \A c \in Callers : Rest(op', top')[c] <= Rest(op, top)[c]
    <2>1. An <= A
      <3> DEFINE w == Rest(op', top')  v == Rest(op, top)
      <3>1. \A c \in Callers : w[c] \in Nat /\ v[c] \in Nat /\ w[c] <= v[c]
        BY <1>3, <1>4, <1>6
      <3>2. SumFunctionOnSet(w, Callers) <= SumFunctionOnSet(v, Callers)
        <4> HIDE DEF w, v
        <4> QED
          BY <3>1, SumCompares, DayConstants
      <3> QED
        BY <1>3, <1>4, <3>2, CallersSum
    <2>2. N * Bn = N * B
      BY <1>6
    <2> HIDE DEF N, T, Tn, A, An, B, Bn
    <2> QED
      BY <1>3, <1>4, <1>6, <2>1, <2>2, Times
  <1>7. CASE TruncateFrom \/ DeleteConversation \/ UNCHANGED dayVars
    <2>1. op' = op /\ top' = top /\ day' = day /\ messages' \subseteq messages
      BY <1>7 DEF TruncateFrom, DeleteConversation, dayVars, ghosts
    <2>2. OfDay(day)' \in SUBSET OfDay(day)
      BY <2>1 DEF OfDay
    <2>3. Tn <= T
      BY <1>0, <2>2, DayUsage, TokensPart
    <2>4. \A c \in Callers : Rest(op', top')[c] <= Rest(op, top)[c]
      BY <1>3, <2>1
    <2> QED
      BY <1>6, <2>1, <2>3, <2>4
  <1>8. CASE Midnight
    <2>1. op' = op /\ top' = top
      BY <1>8 DEF Midnight, ghosts
    <2>2. Tn = 0
      BY <1>8, NewDayIsEmpty
    <2>3. \A c \in Callers : Rest(op', top')[c] <= Rest(op, top)[c]
      BY <1>3, <2>1
    <2> QED
      BY <1>3, <1>6, <2>1, <2>2, <2>3
  <1>9. CASE UpdateBudget
    <2>1. op' = op /\ OfDay(day)' = OfDay(day)
      BY <1>9 DEF UpdateBudget, OfDay
    <2> DEFINE k == top' - top
    <2>2. k \in Nat /\ Bn = B + k
      BY <1>2, CapGrows
    <2>3. \A c \in Callers : Rest(op', top')[c] <= Rest(op, top)[c] + k
      <3>1. \A c \in Callers : op[c].usage.tokens \in Nat
        BY <1>0 DEF Operation
      <3> QED
        BY <1>3, <2>1, <2>2, <3>1 DEF Rest
    <2>4. An <= A + N * k
      <3> DEFINE w == Rest(op', top')  v == Rest(op, top)
      <3>1. \A c \in Callers : w[c] \in Nat /\ v[c] \in Nat /\ w[c] <= v[c] + k
        BY <1>3, <1>4, <2>3
      <3>2. SumFunctionOnSet(w, Callers) <= SumFunctionOnSet(v, Callers) + Cardinality(Callers) * k
        <4> HIDE DEF w, v, k
        <4> QED
          BY <2>2, <3>1, SumGrows, DayConstants
      <3> QED
        BY <1>3, <1>4, <3>2, CallersSum
    <2>5. Tn = T
      BY <2>1
    <2> HIDE DEF N, T, Tn, A, An, B, Bn, k
    <2>6. N * Bn = N * B + N * k /\ N * B \in Nat /\ N * k \in Nat
      BY <1>3, <2>2, Times
    <2> QED
      BY <1>3, <1>4, <2>4, <2>5, <2>6
  <1>10. ASSUME NEW c \in Callers, Preflight(c) PROVE Tn + An <= N * Bn
    <2>1. top' = top /\ OfDay(day)' = OfDay(day)
      BY <1>10 DEF Preflight, ghosts, OfDay
    <2>2. op'[c].at = "open" /\ op'[c].usage = DailyUsage(day)
      <3>1. Enabled(budget)
        BY <1>0, <1>2, DayConstants DEF RoomIsLeft, Enabled
      <3> QED
        BY <1>10, <3>1 DEF Preflight
    <2>3. DailyUsage(day).tokens = T
      BY DEF DailyUsage
    <2>4. Rest(op', top')[c] = B - T
      BY <2>1, <2>2, <2>3 DEF Rest
    <2>5. An = Rest(op', top')[c] + SumFunctionOnSet(Rest(op', top'), Callers \ {c})
      <3> DEFINE w == Rest(op', top')
      <3>1. \A x \in Callers : w[x] \in Nat
        BY <1>4
      <3>2. SumFunctionOnSet(w, Callers) = w[c] + SumFunctionOnSet(w, Callers \ {c})
        <4> HIDE DEF w
        <4> QED
          BY <3>1, SumRemoves, DayConstants
      <3> QED
        BY <1>4, <3>2, CallersSum
    <2>6. /\ SumFunctionOnSet(Rest(op', top'), Callers \ {c}) <= (N - 1) * B
          /\ SumFunctionOnSet(Rest(op', top'), Callers \ {c}) \in Nat
      <3> DEFINE w == Rest(op', top')  S == Callers \ {c}
      <3>1. \A x \in S : w[x] \in Nat /\ w[x] <= B
        BY <1>4, <2>1
      <3>2. IsFiniteSet(S) /\ Cardinality(S) = N - 1
        BY DayConstants, FS_RemoveElement
      <3>3. /\ SumFunctionOnSet(w, S) <= Cardinality(S) * B
            /\ SumFunctionOnSet(w, S) \in Nat
        <4> HIDE DEF w, S, B, N
        <4> QED
          BY <1>3, <3>1, <3>2, SumBounded, SumType
      <3> QED
        BY <3>2, <3>3
    <2>7. N - 1 \in Nat
      <3>1. N # 0
        BY DayConstants, FS_EmptySet
      <3> QED
        BY <1>3, <3>1
    <2> DEFINE R == SumFunctionOnSet(Rest(op', top'), Callers \ {c})
    <2>8. An = (B - T) + R /\ R <= (N - 1) * B /\ R \in Nat /\ Tn = T /\ Bn = B
      BY <2>1, <2>4, <2>5, <2>6
    <2> HIDE DEF N, T, Tn, A, An, B, Bn, R
    <2>9. N * B = (N - 1) * B + B /\ (N - 1) * B \in Nat
      <3>1. ((N - 1) + 1) * B = (N - 1) * B + B /\ (N - 1) * B \in Nat
        BY <1>3, <2>7, Times
      <3>2. (N - 1) + 1 = N
        BY <1>3
      <3> QED
        BY <3>1, <3>2
    <2>10. N * Bn = N * B
      BY <2>8
    <2> QED
      BY <1>3, <1>4, <2>8, <2>9, <2>10
  <1>11. ASSUME NEW c \in Callers, ProviderCall(c) PROVE Tn + An <= N * Bn
    <2>1. top' = top /\ OfDay(day)' = OfDay(day)
      BY <1>11 DEF ProviderCall, OfDay
    <2>2. \A x \in Callers : op'[x].at = op[x].at /\ op'[x].usage = op[x].usage
      BY <1>0, <1>11 DEF ProviderCall, Move, Operation
    <2>3. \A x \in Callers : Rest(op', top')[x] = Rest(op, top)[x]
      BY <2>1, <2>2 DEF Rest
    <2> QED
      BY <1>3, <1>4, <1>6, <2>1, <2>3
  <1>12. ASSUME NEW c \in Callers, EndUnrecorded(c) PROVE Tn + An <= N * Bn
    <2>1. top' = top /\ OfDay(day)' = OfDay(day)
      BY <1>12 DEF EndUnrecorded, OfDay
    <2>2. op'[c] = Idle /\ \A x \in Callers \ {c} : op'[x] = op[x]
      BY <1>0, <1>12 DEF EndUnrecorded, Move
    <2>3. Rest(op', top')[c] = 0 /\ \A x \in Callers \ {c} : Rest(op', top')[x] = Rest(op, top)[x]
      BY <2>1, <2>2 DEF Rest, Idle
    <2>4. \A x \in Callers : Rest(op', top')[x] <= Rest(op, top)[x]
      BY <1>3, <1>4, <2>3
    <2> QED
      BY <1>3, <1>4, <1>6, <2>1, <2>4
  <1>13. ASSUME NEW c \in Callers, Store(c) PROVE Tn + An <= N * Bn
    <2>1. top' = top /\ day' = day
      BY <1>13 DEF Store, ghosts
    <2>2. op'[c] = Idle /\ op[c].at = "open" /\ op[c].spent \in Nat /\ \A x \in Callers \ {c} : op'[x] = op[x]
      BY <1>0, <1>13 DEF Store, Move, InProgress, Operation
    <2>3. Rest(op', top')[c] = 0 /\ \A x \in Callers \ {c} : Rest(op', top')[x] = Rest(op, top)[x]
      BY <2>1, <2>2 DEF Rest, Idle
    <2>4. Tn = T + op[c].spent
      BY <1>13, StoreCounts
    <2>5. op[c].spent <= Rest(op, top)[c]
      BY <1>0, <1>2, <1>3, <2>2, RestIsBounded
    <2>6. An + Rest(op, top)[c] = A + Rest(op', top')[c]
      <3> DEFINE w == Rest(op', top')  v == Rest(op, top)
      <3>1. \A x \in Callers \ {c} : w[x] = v[x]
        BY <2>3
      <3>2. SumFunction(w) + v[c] = SumFunction(v) + w[c]
        <4>1. w \in [Callers -> Nat] /\ v \in [Callers -> Nat]
          BY <1>3, <1>4
        <4> HIDE DEF w, v
        <4> QED
          BY <3>1, <4>1, CallersChange
      <3> QED
        BY <3>2
    <2> DEFINE u == Rest(op, top)[c]
    <2>7. u \in Nat /\ An + u = A /\ op[c].spent <= u
      BY <1>3, <1>4, <2>3, <2>5, <2>6
    <2>8. N * Bn = N * B
      BY <2>1
    <2> HIDE DEF N, T, Tn, A, An, B, Bn, u
    <2>9. N * B \in Nat
      BY <1>3, Times
    <2> QED
      BY <1>3, <1>4, <2>2, <2>4, <2>7, <2>8, <2>9
  <1> QED
    BY <1>7, <1>8, <1>9, <1>10, <1>11, <1>12, <1>13 DEF DayNext

\* Hence today's usage keeps the bound, and another day's is not added to.
LEMMA SideBySideStep ==
  ASSUME DayInvariant, [DayNext]_dayVars
  PROVE  SideBySideOvershoot'
  <1>0. /\ DayTypeOK /\ RowsOfTheDay /\ SideBySideOvershoot /\ DayTypeOK' /\ RowsOfTheDay' /\ RoomIsLeft'
        /\ day \in Nat /\ day' \in Nat /\ top \in Nat \cup {NoLimit} /\ top' \in Nat \cup {NoLimit}
        /\ op' \in [Callers -> Operation]
    BY TypesStep, RoomStep DEF DayInvariant, DayTypeOK
  <1> DEFINE N == Cardinality(Callers)
  <1>1. SUFFICES ASSUME top' # NoLimit, NEW d \in 1..LastDay
                 PROVE  Tokens(OfDay(d)') <= N * Cap(top')
    <2>1. \A d \in 1..LastDay : DailyUsage(d)'.tokens = Tokens(OfDay(d)')
      BY DEF DailyUsage
    <2> QED
      BY <2>1 DEF SideBySideOvershoot, Cap
  <1>2. N \in Nat /\ d \in Nat
    BY DayConstants, FS_CardinalityType
  <1>3. CASE d = day'
    <2> DEFINE Tn == Tokens(OfDay(day)')
               An == SumFunction(Rest(op', top'))
    <2>1. Tn + An <= N * Cap(top')
      BY <1>0, <1>1 DEF RoomIsLeft, Allowed, Rest, PerCaller, InProgress, Cap
    <2>2. An \in Nat
      <3>1. \A c \in Callers : Fits(op'[c], top')
        BY <1>0, <1>1, FitsAfter
      <3> QED
        BY <1>0, <1>1, <3>1, RestIsBounded, CallersSum
    <2>3. Tn \in Nat /\ OfDay(d)' = OfDay(day)'
      <3>1. OfDay(day)' \in SUBSET MessageRow /\ OfDay(day)' \in SUBSET messages'
        BY <1>0 DEF OfDay, DayTypeOK
      <3> QED
        BY <1>0, <1>3, <3>1, FS_Subset, TokensSum DEF RowsOfTheDay, OfDay
    <2>4. N * Cap(top') \in Nat
      BY <1>0, <1>1, <1>2, CapGrows, Times
    <2> DEFINE P == N * Cap(top')
    <2>5. Tn <= P
      <3>1. Tn + An <= P /\ P \in Nat
        BY <2>1, <2>4
      <3> HIDE DEF Tn, An, P
      <3> QED
        BY <2>2, <2>3, <3>1
    <2> QED
      BY <2>3, <2>5
  <1>4. CASE d # day'
    <2>1. top \in Nat /\ top' \in Nat /\ top <= top'
      BY <1>0, <1>1, LimitRises
    <2>2. Tokens(OfDay(d)') <= Tokens(OfDay(d))
      <3>1. CASE \E c \in Callers : Store(c)
        <4>1. PICK c \in Callers : Store(c)
          BY <3>1
        <4>2. day' = day
          BY <4>1 DEF Store
        <4>3. OfDay(d)' = OfDay(d)
          BY <1>2, <1>4, <4>1, <4>2, StoreCounts
        <4> QED
          BY <1>0, <4>3, DayUsage
      <3>2. CASE ~(\E c \in Callers : Store(c))
        BY <1>2, <3>2, UsageStep
      <3> QED
        BY <3>1, <3>2
    <2>3. Tokens(OfDay(d)) <= N * Cap(top) /\ Tokens(OfDay(d)) \in Nat
      BY <1>0, <2>1, DayUsage, DayConstants DEF SideBySideOvershoot, Cap
    <2>4. N * Cap(top) \in Nat /\ N * Cap(top') \in Nat /\ N * Cap(top) <= N * Cap(top')
      <3> DEFINE k == top' - top
      <3>1. k \in Nat /\ Cap(top') = Cap(top) + k /\ Cap(top) \in Nat
        BY <2>1, CapGrows
      <3> HIDE DEF k, N
      <3>2. N * Cap(top') = N * Cap(top) + N * k /\ N * Cap(top) \in Nat /\ N * k \in Nat
        BY <1>2, <3>1, Times
      <3> QED
        BY <3>2
    <2>5. Tokens(OfDay(d)') \in Nat
      <3>1. OfDay(d)' \in SUBSET MessageRow /\ OfDay(d)' \in SUBSET messages'
        BY <1>0 DEF OfDay, DayTypeOK
      <3> QED
        BY <1>0, <3>1, FS_Subset, TokensSum DEF RowsOfTheDay
    <2> DEFINE P == N * Cap(top)  Q == N * Cap(top')
               v == Tokens(OfDay(d)')  w == Tokens(OfDay(d))
    <2>6. P \in Nat /\ Q \in Nat /\ P <= Q /\ v \in Nat /\ w \in Nat /\ v <= w /\ w <= P
      BY <2>2, <2>3, <2>4, <2>5
    <2>7. v <= Q
      <3> HIDE DEF P, Q, v, w
      <3> QED
        BY <2>6
    <2> QED
      BY <2>7
  <1> QED
    BY <1>3, <1>4

--------------------------------------------------------------------------------
(* The theorems.                                                           *)

\* An agent that has spent nothing satisfies the invariant.
LEMMA InitDay == DayInit => DayInvariant
  <1> SUFFICES ASSUME DayInit PROVE DayInvariant
    OBVIOUS
  <1>1. messages = {} /\ day = 1 /\ next = 1 /\ gone = {} /\ burnt = 0 /\ lost = 0
        /\ op = [c \in Callers |-> Idle] /\ budget \in Budgets /\ top = budget.tokens
    BY DEF DayInit
  <1>2. Idle \in Operation /\ Idle.kind = "none" /\ Idle.at = "idle" /\ Idle.spent = 0
    BY DEF Idle, Operation, Nothing
  <1>3. DayTypeOK
    BY <1>1, <1>2, DayConstants DEF DayTypeOK
  <1>4. RowsOfTheDay
    BY <1>1, FS_EmptySet DEF RowsOfTheDay
  <1>5. SumFunction([c \in Callers |-> 0]) = 0
    <2> DEFINE z == [c \in Callers |-> 0]
    <2>1. z \in [Callers -> Nat] /\ \A c \in Callers : z[c] = 0
      OBVIOUS
    <2>2. SumFunctionOnSet(z, Callers) = 0
      <3> HIDE DEF z
      <3> QED
        BY <2>1, SumOfNothing, DayConstants
    <2>3. SumFunction(z) = SumFunctionOnSet(z, Callers)
      BY DEF SumFunction
    <2> QED
      BY <2>2, <2>3
  <1>6. [c \in Callers |-> op[c].spent] = [c \in Callers |-> 0]
    BY <1>1, <1>2
  <1>7. NothingHidden
    BY <1>1, <1>5, <1>6, TokensOfNone DEF NothingHidden
  <1>8. \A d : Tokens(OfDay(d)) = 0
    <2>1. \A d : OfDay(d) = {}
      BY <1>1 DEF OfDay
    <2> QED
      BY <2>1, TokensOfNone
  <1>9. ASSUME top # NoLimit
        PROVE  /\ Cardinality(Callers) * Cap(top) \in Nat /\ PerCaller = Cap(top)
               /\ Allowed = [c \in Callers |-> 0]
    <2>1. top \in Nat
      BY <1>3, <1>9 DEF DayTypeOK
    <2>2. Cardinality(Callers) \in Nat /\ Cap(top) \in Nat
      BY <2>1, DayConstants, FS_CardinalityType, CapGrows
    <2> QED
      BY <1>1, <1>2, <2>2, Times DEF PerCaller, Cap, Allowed, InProgress
  <1>10. SideBySideOvershoot
    <2> SUFFICES ASSUME top # NoLimit, NEW d \in 1..LastDay
                 PROVE  Tokens(OfDay(d)) <= Cardinality(Callers) * Cap(top)
      BY DEF SideBySideOvershoot, DailyUsage, Cap
    <2> DEFINE P == Cardinality(Callers) * Cap(top)
    <2>1. P \in Nat
      BY <1>9
    <2> HIDE DEF P
    <2>2. Tokens(OfDay(d)) <= P
      BY <1>8, <2>1
    <2> QED
      BY <2>2 DEF P
  <1>11. RoomIsLeft
    <2> SUFFICES ASSUME top # NoLimit
                 PROVE  /\ budget.tokens # NoLimit /\ budget.tokens <= top
                        /\ Tokens(OfDay(day)) + SumFunction(Allowed) <= Cardinality(Callers) * PerCaller
      BY DEF RoomIsLeft
    <2>1. budget.tokens # NoLimit /\ budget.tokens <= top
      BY <1>1, DayConstants
    <2>2. Tokens(OfDay(day)) + SumFunction(Allowed) = 0
      BY <1>5, <1>8, <1>9
    <2> DEFINE P == Cardinality(Callers) * PerCaller
    <2>3. P \in Nat
      BY <1>9
    <2> HIDE DEF P
    <2>4. Tokens(OfDay(day)) + SumFunction(Allowed) <= P
      BY <2>2, <2>3
    <2> QED
      BY <2>1, <2>4 DEF P
  <1>12. \A c \in Callers : ~InProgress(c) /\ op[c].spent = 0
    BY <1>1, <1>2 DEF InProgress
  <1> QED
    BY <1>3, <1>4, <1>7, <1>10, <1>11, <1>12 DEF DayInvariant

\* What is spent in a day is bounded and accounted for, whatever the operations, their
\* number and the order of their steps: the inductive invariant.
THEOREM DayInductive == DaySpec => []DayInvariant
  <1>1. DayInvariant /\ [DayNext]_dayVars => DayInvariant'
    <2> SUFFICES ASSUME DayInvariant, [DayNext]_dayVars PROVE DayInvariant'
      OBVIOUS
    <2>1. DayTypeOK' /\ RowsOfTheDay' /\ NothingHidden' /\ SideBySideOvershoot' /\ RoomIsLeft'
      BY TypesStep, HiddenStep, SideBySideStep, RoomStep
    <2>2. \A c \in Callers : (InProgress(c) => OperationKnows(op[c]))' /\ (~InProgress(c) => op[c].spent = 0)'
      BY OperationStep
    <2>3. \A c \in Callers : (InProgress(c) /\ op[c].alone => AloneKnows(c))'
      BY AloneStep
    <2> QED
      BY <2>1, <2>2, <2>3 DEF DayInvariant
  <1> QED
    BY InitDay, <1>1, PTL DEF DaySpec

\* The day's books (accounting.go, usage.go): every unit the provider produced is in a row,
\* under way or named as lost, and the cost reported is a floor, exact on a certain day.
THEOREM DayIsAccounted == DaySpec => []Accounted
  <1>1. DayInvariant => Accounted
    <2> SUFFICES ASSUME DayInvariant PROVE Accounted
      OBVIOUS
    <2>1. DayTypeOK /\ RowsOfTheDay /\ NothingHidden
      BY DEF DayInvariant
    <2>2. ASSUME NEW d \in 1..LastDay
          PROVE  /\ DailyUsage(d).cost <= DailyUsage(d).tokens
                 /\ Certain(d) <=> DailyUsage(d).cost = DailyUsage(d).tokens
      <3>1. /\ OfDay(d) \in SUBSET MessageRow /\ IsFiniteSet(OfDay(d))
            /\ DailyUsage(d).tokens = Tokens(OfDay(d)) /\ DailyUsage(d).cost = Cost(OfDay(d))
        BY <2>1, DayUsage
      <3> QED
        BY <3>1, CostIsFloor DEF Certain
    <2> QED
      BY <2>1, <2>2 DEF Accounted, KnownCostIsFloor
  <1> QED
    BY DayInductive, <1>1, PTL

\* The gate of a turn (budgetPreflight, turnGate): what an operation that ran by itself
\* counts passes its limits by less than one call, and what operations side by side count
\* by less than one call and one limit each.
THEOREM OvershootHolds == DaySpec => OvershootIsBounded
  <1>1. DayInvariant => SideBySideOvershoot
    BY DEF DayInvariant
  <1>2. DayInvariant /\ [DayNext]_dayVars =>
          [\A c \in Callers :
             (InProgress(c) /\ op[c].alone /\ messages' # messages /\ op'[c] = Idle) =>
               /\ op[c].budget.tokens # NoLimit => DailyUsage(day)'.tokens < op[c].budget.tokens + MaxCall
               /\ op[c].budget.cost # NoLimit => DailyUsage(day)'.cost < op[c].budget.cost + MaxCall]_dayVars
    <2> SUFFICES ASSUME DayInvariant, DayNext, NEW c \in Callers,
                        InProgress(c), op[c].alone, messages' # messages, op'[c] = Idle
                 PROVE  /\ op[c].budget.tokens # NoLimit
                             => DailyUsage(day)'.tokens < op[c].budget.tokens + MaxCall
                        /\ op[c].budget.cost # NoLimit
                             => DailyUsage(day)'.cost < op[c].budget.cost + MaxCall
      BY DEF dayVars
    <2>1. /\ DayTypeOK /\ RowsOfTheDay /\ AloneKnows(c) /\ OperationKnows(op[c]) /\ op[c] \in Operation
          /\ op \in [Callers -> Operation]
      BY DEF DayInvariant, DayTypeOK
    <2>2. Store(c)
      <3>1. ASSUME NEW x \in Callers, Store(x) PROVE x = c
        BY <3>1, <2>1 DEF AloneKnows, Store
      <3>2. \/ \E x \in Callers : Store(x)
            \/ TruncateFrom
        BY DEF DayNext, DeleteConversation, UpdateBudget, Midnight, Preflight, ProviderCall, EndUnrecorded
      <3>3. ~TruncateFrom
        BY <2>1 DEF TruncateFrom, Idle, InProgress
      <3> QED
        BY <3>1, <3>2, <3>3
    <2>3. day' = day
      BY <2>2 DEF Store
    <2>4. /\ Tokens(OfDay(day)') = Tokens(OfDay(day)) + op[c].spent
          /\ Cost(OfDay(day)') <= Cost(OfDay(day)) + op[c].spent
      BY <2>2, StoreCounts
    <2>5. /\ DailyUsage(day)'.tokens = Tokens(OfDay(day)') /\ DailyUsage(day)'.cost = Cost(OfDay(day)')
          /\ DailyUsage(day).tokens = Tokens(OfDay(day)) /\ DailyUsage(day).cost = Cost(OfDay(day))
          /\ Tokens(OfDay(day)) \in Nat /\ Cost(OfDay(day)) \in Nat
      BY <2>1, DayUsage DEF DailyUsage
    <2>6. /\ op[c].usage.tokens \in Nat /\ op[c].usage.cost \in Nat /\ op[c].spent \in Nat
          /\ op[c].budget \in Budgets \cup {NoBudget}
          /\ op[c].budget.tokens \in Nat \cup {NoLimit} /\ op[c].budget.cost \in Nat \cup {NoLimit}
      BY <2>1, DayConstants DEF Operation
    <2>7. Cost(OfDay(day)') \in Nat
      <3>1. DayTypeOK' /\ RowsOfTheDay'
        BY TypesStep
      <3>2. OfDay(day)' \in SUBSET MessageRow /\ OfDay(day)' \in SUBSET messages'
        BY <3>1 DEF OfDay, DayTypeOK
      <3> QED
        BY <3>1, <3>2, FS_Subset, TokensSum DEF RowsOfTheDay
    <2>8. Enabled(op[c].budget) =>
            Tokens(OfDay(day)) <= op[c].usage.tokens /\ Cost(OfDay(day)) <= op[c].usage.cost
      BY <2>1, <2>5 DEF AloneKnows
    <2>9. op[c].budget.tokens # NoLimit \/ op[c].budget.cost # NoLimit => Enabled(op[c].budget)
      BY DayConstants DEF Enabled
    <2>10. /\ op[c].budget.tokens # NoLimit => op[c].usage.tokens + op[c].spent < op[c].budget.tokens + MaxCall
           /\ op[c].budget.cost # NoLimit => op[c].usage.cost + op[c].spent < op[c].budget.cost + MaxCall
      BY <2>1 DEF OperationKnows, WithinLimit
    <2>11. ASSUME op[c].budget.tokens # NoLimit
           PROVE  Tokens(OfDay(day)') < op[c].budget.tokens + MaxCall
      BY <2>4, <2>5, <2>6, <2>8, <2>9, <2>10, <2>11, DayConstants
    <2>12. ASSUME op[c].budget.cost # NoLimit
           PROVE  Cost(OfDay(day)') < op[c].budget.cost + MaxCall
      BY <2>4, <2>5, <2>6, <2>7, <2>8, <2>9, <2>10, <2>12, DayConstants
    <2> QED
      BY <2>5, <2>11, <2>12
  <1> QED
    BY DayInductive, <1>1, <1>2, PTL DEF DaySpec, OvershootIsBounded, AloneByOneCall

================================================================================
