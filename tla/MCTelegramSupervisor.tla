------------------------- MODULE MCTelegramSupervisor -------------------------
(* TelegramSupervisor for TLC: one channel by number, one by username, as the *)
(* two sources of main.py may be configured.                                  *)
EXTENDS TelegramSupervisor
=============================================================================
