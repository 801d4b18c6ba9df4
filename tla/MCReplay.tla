------------------------------- MODULE MCReplay -------------------------------
(* Replay for TLC.  With a stop rate of 25 percent a fall from 4 to 3 exits;    *)
(* with a drop of 50 percent a small trade after a large one dries up.          *)
EXTENDS Replay

MCTicks == {[price |-> 4, quantity |-> 2], [price |-> 3, quantity |-> 1]}
=============================================================================
