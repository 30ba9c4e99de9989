----------------------------- MODULE DisplayLock -----------------------------
(* What ika_stream promises the consoles of a display: one client at a time, *)
(* and a display that is free is not kept from those who wait for it.        *)
(* ClientSessions implements it, with threads, a condition variable and      *)
(* hellos that come in time or not.                                          *)
CONSTANTS
    Clients,    \* the connections
    Displays,   \* the displays
    NoClient    \* not a connection

VARIABLES
    holder,     \* the client of each display, or NoClient
    waiting     \* <<c, d>>: client c waits for display d

lockVars == <<holder, waiting>>

Init == /\ holder = [d \in Displays |-> NoClient]
        /\ waiting = {}

(* A client waits for one display, and holds none.                           *)
Idle(c) == \A d \in Displays : <<c, d>> \notin waiting /\ holder[d] # c

Ask(c, d) ==
    /\ Idle(c)
    /\ waiting' = waiting \cup {<<c, d>>}
    /\ UNCHANGED holder

Grant(c, d) ==
    /\ <<c, d>> \in waiting
    /\ holder[d] = NoClient
    /\ holder' = [holder EXCEPT ![d] = c]
    /\ waiting' = waiting \ {<<c, d>>}

(* The stream is stopped.                                                    *)
GiveUp(c, d) ==
    /\ <<c, d>> \in waiting
    /\ waiting' = waiting \ {<<c, d>>}
    /\ UNCHANGED holder

Release(d) ==
    /\ holder[d] # NoClient
    /\ holder' = [holder EXCEPT ![d] = NoClient]
    /\ UNCHANGED waiting

Next == \E d \in Displays :
            \/ Release(d)
            \/ \E c \in Clients : Ask(c, d) \/ Grant(c, d) \/ GiveUp(c, d)

(* A free display somebody waits for is given to one of them.                *)
Fairness == \A d \in Displays : WF_lockVars(\E c \in Clients : Grant(c, d))

Spec == Init /\ [][Next]_lockVars
FairSpec == Spec /\ Fairness
=============================================================================
