---------------------------- MODULE MCTelegramPairing ----------------------------
(* One chat, two workspaces with two agents and one, two operators.        *)
EXTENDS TelegramPairing, TLC
CONSTANTS w1, w2, a1, a2, b1, o1, o2
Owners == (a1 :> w1) @@ (a2 :> w1) @@ (b1 :> w2)
Alike == Permutations(Operators) \cup Permutations({a1, a2})
================================================================================
