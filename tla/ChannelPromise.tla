---------------------------- MODULE ChannelPromise ----------------------------
(***************************************************************************)
(* What run_workflows may rely on when it stops a channel: each message is  *)
(* given to the handler at most once, one at a time; after stop() was       *)
(* called nothing more is accepted; and when it has returned, everything    *)
(* that was queued at the call has been handled, no handler is running, and *)
(* none will.                                                               *)
(*                                                                          *)
(* A message that was accepted but found the queue full may be lost with    *)
(* its connection; one in the queue may not.  Nothing is said here of the   *)
(* order of the messages.                                                   *)
(***************************************************************************)
CONSTANT Messages

VARIABLES
    stage,    \* "open", "draining", "stopped"
    place,    \* of each message: "new", "parked", "queued", "dropped", "handled"
    due,      \* what was in the queue when stop() was called
    current   \* the message the handler is working on, if any

vars == <<stage, place, due, current>>

TypeOK ==
    /\ stage \in {"open", "draining", "stopped"}
    /\ place \in [Messages -> {"new", "parked", "queued", "dropped", "handled"}]
    /\ due \subseteq Messages
    /\ current \subseteq Messages

Init ==
    /\ stage = "open"
    /\ place = [m \in Messages |-> "new"]
    /\ due = {}
    /\ current = {}

Move(m, from, to) ==
    /\ place[m] \in from
    /\ place' = [place EXCEPT ![m] = to]

Accept(m) ==
    /\ stage = "open"
    /\ Move(m, {"new"}, "queued") \/ Move(m, {"new"}, "parked")
    /\ UNCHANGED <<stage, due, current>>

\* A parked message finds room, be it after stop() was called.
Queue(m) ==
    /\ Move(m, {"parked"}, "queued")
    /\ UNCHANGED <<stage, due, current>>

Lose(m) ==
    /\ Move(m, {"new", "parked"}, "dropped")
    /\ UNCHANGED <<stage, due, current>>

Handle(m) ==
    /\ stage # "stopped"
    /\ current = {}
    /\ Move(m, {"queued"}, "handled")
    /\ current' = {m}
    /\ UNCHANGED <<stage, due>>

Handled ==
    /\ current # {}
    /\ current' = {}
    /\ UNCHANGED <<stage, place, due>>

Stop ==
    /\ stage = "open"
    /\ stage' = "draining"
    /\ due' = {m \in Messages : place[m] = "queued"}
    /\ UNCHANGED <<place, current>>

Stopped ==
    /\ stage = "draining"
    /\ current = {}
    /\ \A m \in due : place[m] = "handled"
    /\ stage' = "stopped"
    /\ UNCHANGED <<place, due, current>>

Next ==
    \/ \E m \in Messages : Accept(m) \/ Queue(m) \/ Lose(m) \/ Handle(m)
    \/ Handled \/ Stop \/ Stopped

Spec == Init /\ [][Next]_vars
=============================================================================
