----------------------------- MODULE MCConnections -----------------------------
(* Two workspaces, two accounts of which one sees both repositories and    *)
(* the other one of them, two calls under way.                             *)
EXTENDS Connections, TLC
CONSTANTS a1, a2, r1, r2
Sees == (a1 :> {r1, r2}) @@ (a2 :> {r2})
Alike == Permutations(Callers) \cup Permutations(Workspaces)
================================================================================
