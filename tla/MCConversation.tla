---------------------------- MODULE MCConversation ----------------------------
(* The transcript of Conversation, and what TurnContext's turns are told of  *)
(* the one they belong to; each behaviour moves one and rests the other.     *)
(* Requests are interchangeable, and so are the pieces of work a question    *)
(* asks for.  Of the entities, one is read anew each turn and one is not; a  *)
(* tool reads an entity, one changes it, one lists without naming any.       *)
EXTENDS Conversation, TurnContext, TLC

CONSTANTS a, b, r1, r2, s1, s2, get, set, list

VARIABLE part

Entities == {s1, s2}
Anew == {s1}
Toolset == {get, set, list}
Changing == {set}
Abouts == {{s1}}
Attachments == {{}, {s2}}
Asked == {<<get, s1>>, <<set, s2>>, <<list, "none">>}
AtFirst == {{get, set, list}, {set, list}}
Selections == {{}, {list}}
Sizes == (get :> 1) @@ (set :> 1) @@ (list :> 3)

Symmetry == Permutations(Runners) \cup Permutations(Items)

MCInit ==
  /\ Init /\ ContextInit /\ grants = Toolset /\ part \in {"transcript", "context"}
MCNext ==
  /\ part' = part
  /\ \/ part = "transcript" /\ Next /\ UNCHANGED contextVars
     \/ part = "context" /\ ContextNext /\ UNCHANGED vars
MCSpec == MCInit /\ [][MCNext]_<<vars, contextVars, part>>
================================================================================
