-------------------------------- MODULE MCAgents --------------------------------
(* Two providers, one agent at a time being created, edited and deleted by   *)
(* two calls, and one tool; or what is kept for one of two agents, edited by *)
(* two requests, or proposed from its thread while memories come and go;     *)
(* each behaviour moves one part and rests the others.                       *)
(* A block holds both facts only if neither is long, one document never      *)
(* fits, and a page shows fewer memories than there may be.                  *)
EXTENDS Agents, AgentMemory, TLC

CONSTANTS mine, theirs, thread, short, long, doc, tome, reader, editor

VARIABLE part

ThreadOwner == thread :> mine
CostIs == (short :> 1) @@ (long :> 2) @@ (doc :> 2) @@ (tome :> 4)
Budgets == [memory |-> 2, source |-> 3]
Pages == [memory |-> 1, source |-> 2]
Replies == {<<"unreadable">>, <<"unfit", short, long>>}

Alike == Permutations(Callers) \cup Permutations(Providers)

\* Without a thread: memories and sources, and what the pages and the turns show of them.
Shelf ==
  \/ CreateMemory \/ CreateSource \/ Delete
  \/ \E c \in Requests : Update(c) \/ WriteUpdate(c) \/ Abandon(c)
\* With one: what is proposed from it while memories are created and deleted.
Thread ==
  \/ Message \/ Truncate \/ CreateMemory \/ Delete
  \/ Consolidate(reader) \/ ReadThread(reader) \/ Answer(reader)
  \/ MarkDuplicates(reader) \/ Confirm(reader) \/ Abandon(reader)

MCInit == Init /\ MemoryInit /\ part \in {"catalogue", "shelf", "thread"}
MCNext ==
  /\ part' = part
  /\ \/ part = "catalogue" /\ Next /\ UNCHANGED memoryVars
     \/ part = "shelf" /\ Shelf /\ UNCHANGED vars
     \/ part = "thread" /\ Thread /\ UNCHANGED vars
MCSpec == MCInit /\ [][MCNext]_<<vars, memoryVars, part>>
================================================================================
