--------------------------- MODULE ListenerPromise ---------------------------
(***************************************************************************)
(* What run_workflows may rely on when it starts the Telegram connection    *)
(* and later stops it.                                                      *)
(*                                                                          *)
(* The listener claims readiness only while every subscription has its      *)
(* handler.  It ends only after it was asked to, and then it does end.      *)
(* Subscriptions are withdrawn after that, so a handler never outlives its  *)
(* subscription.  A listener that was asked to end may still claim          *)
(* readiness once more: nothing in the code prevents it.                    *)
(***************************************************************************)
CONSTANT Channels

VARIABLES
    stage,    \* "running", "asked" to end, "ended"
    up,       \* the listener claims to be ready
    wanted,   \* channels with a subscription
    served    \* channels whose messages reach a handler

vars == <<stage, up, wanted, served>>

TypeOK ==
    /\ stage \in {"running", "asked", "ended"}
    /\ up \in BOOLEAN
    /\ wanted \subseteq Channels
    /\ served \subseteq Channels

Init ==
    /\ stage = "running"
    /\ up = FALSE
    /\ wanted = Channels
    /\ served = {}

\* Handlers are added, and readiness is claimed or withdrawn.
Progress ==
    /\ stage # "ended"
    /\ served \subseteq served'
    /\ served' \subseteq wanted
    /\ up' \in BOOLEAN
    /\ up' => served' = wanted
    /\ UNCHANGED <<stage, wanted>>

Ask ==
    /\ stage = "running"
    /\ stage' = "asked"
    /\ up' = FALSE
    /\ UNCHANGED <<wanted, served>>

End ==
    /\ stage = "asked"
    /\ stage' = "ended"
    /\ up' = FALSE
    /\ UNCHANGED <<wanted, served>>

Withdraw(c) ==
    /\ stage = "ended"
    /\ wanted' = wanted \ {c}
    /\ served' = served \ {c}
    /\ UNCHANGED <<stage, up>>

Next == Progress \/ Ask \/ End \/ \E c \in Channels : Withdraw(c)

Spec == Init /\ [][Next]_vars

FairSpec == Spec /\ WF_vars(End)
=============================================================================
