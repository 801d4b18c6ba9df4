----------------------------- MODULE MCAccessGate -----------------------------
(* AccessGate for TLC: every task may trade and may refresh, as the code      *)
(* allows (a trade that finds old metadata refreshes it itself).              *)
EXTENDS AccessGate, TLC
=============================================================================
