------------------------- MODULE MCChannelController -------------------------
(* ChannelController for TLC.  Two messages fill the queue, the third parks   *)
(* or is with the worker, and the sentinel may find the queue full or not.    *)
EXTENDS ChannelController, TLC
=============================================================================
