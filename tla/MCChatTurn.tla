------------------------------- MODULE MCChatTurn -------------------------------
(***************************************************************************)
(* Small instances of ChatTurn: one granted write and one capability the   *)
(* agent was not granted, ids that may collide.                            *)
(***************************************************************************)
EXTENDS ChatTurn

CONSTANTS save, drop
================================================================================
