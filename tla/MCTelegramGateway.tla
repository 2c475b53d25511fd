--------------------------- MODULE MCTelegramGateway ---------------------------
(* Small instances of TelegramGateway. *)
EXTENDS TelegramGateway

CONSTANTS c1, c2
================================================================================
