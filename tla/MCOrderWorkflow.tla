--------------------------- MODULE MCOrderWorkflow ---------------------------
(* OrderWorkflow for TLC. *)
EXTENDS OrderWorkflow, TLC

CONSTANT s1

\* All calls trade one symbol: they contend for its lock and its leverage.
OneSymbol == [t \in Trades |-> s1]

\* Calls for one symbol are interchangeable.
Symmetry == Permutations(Trades)
=============================================================================
