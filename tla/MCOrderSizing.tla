---------------------------- MODULE MCOrderSizing ----------------------------
(* OrderSizing for TLC: two bracket tables, lots whose step, minima and       *)
(* maximum all bind for some request, and margins around the bracket limits.  *)
EXTENDS OrderSizing

MCBracketTables == {
    <<[floor |-> 0, cap |-> 60, leverage |-> 8, rate |-> 20],
      [floor |-> 60, cap |-> 200, leverage |-> 5, rate |-> 100],
      [floor |-> 200, cap |-> 400, leverage |-> 2, rate |-> 250]>>,
    <<[floor |-> 0, cap |-> 100, leverage |-> 6, rate |-> 100]>>}

\* The last two lots have a maximum below what most requests ask for, and the
\* last one is off its step.
MCLotRules == {
    [step |-> 1, min |-> 1, max |-> 1000, min_notional |-> 5],
    [step |-> 3, min |-> 6, max |-> 1000, min_notional |-> 20],
    [step |-> 2, min |-> 2, max |-> 6, min_notional |-> 20],
    [step |-> 4, min |-> 4, max |-> 10, min_notional |-> 20]}
=============================================================================
