---------------------------- MODULE EventDelivery ----------------------------
(***************************************************************************)
(* What a subscriber of an event may count on, and what it may not: the    *)
(* events are numbered in the order they are published; an event may never *)
(* reach the queue; its handler may run any number of times, in any order  *)
(* with the other events; and it is settled only after a handler ran to    *)
(* its end, except while some subscriber is starting, when it may be       *)
(* settled unhandled.                                                      *)
(***************************************************************************)
EXTENDS Naturals

CONSTANT NEvent

VARIABLES
    sent,      \* events published so far: 1..sent
    pending,   \* events in the queue or in a handler
    handled,   \* events some handler ran to its end for
    starting   \* some subscriber is starting

vars == <<sent, pending, handled, starting>>

Init == sent = 0 /\ pending = {} /\ handled = {} /\ starting = FALSE

Publish ==
    /\ sent < NEvent
    /\ sent' = sent + 1
    /\ pending' \in {pending, pending \union {sent + 1}}
    /\ UNCHANGED <<handled, starting>>

\* A handler whose channel was lost, its event free again, runs on: it may end after the
\* event was settled.
Handle(m) ==
    /\ m \in 1..sent
    /\ handled' = handled \union {m}
    /\ UNCHANGED <<sent, pending, starting>>

\* The last event a starting subscriber settles may end its start.
Settle(m) ==
    /\ m \in pending
    /\ m \in handled \/ starting
    /\ pending' = pending \ {m}
    /\ starting' \in {starting, FALSE}
    /\ UNCHANGED <<sent, handled>>

\* A subscriber starts, or the start of the last one ends or fails.
Subscribe ==
    /\ starting' = ~starting
    /\ UNCHANGED <<sent, pending, handled>>

Next ==
    \/ Publish
    \/ \E m \in 1..NEvent : Handle(m) \/ Settle(m)
    \/ Subscribe

Spec == Init /\ [][Next]_vars

=============================================================================
