-------------------------------- MODULE MCChatDay --------------------------------
(* Limits of two units, of tokens or of money, and calls of up to two.     *)
EXTENDS ChatDay, TLC
CONSTANTS k1, c1, c2
Limited == {[tokens |-> 2, cost |-> NoLimit], [tokens |-> NoLimit, cost |-> 2]}
TwoCallers == Permutations(Callers)
================================================================================
