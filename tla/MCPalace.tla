-------------------------------- MODULE MCPalace --------------------------------
(* One memory, one artifact, evidence at two levels, two calls.            *)
EXTENDS Palace, TLC
CONSTANTS idea, plan, note, diary, c1, c2
Types == (idea :> "memory") @@ (plan :> "artifact")
Evidence == (note :> 0) @@ (diary :> 1)
TwoCallers == Permutations(Callers)
================================================================================
