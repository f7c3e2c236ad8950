-------------------------------- MODULE Watch --------------------------------
(* What the Store promises the clients of its WebSocket.  Updates that       *)
(* overlap form a burst.  Within a burst a client may see the states in any  *)
(* order and miss any of them; it never goes back to an earlier burst, and   *)
(* as long as it stays attached it does not stay behind the last one.  With  *)
(* updates one at a time, each is a burst: clients see a strictly increasing *)
(* selection of the states and end with the latest.  After a fault, a        *)
(* publisher that died half-way, they may stay behind.                       *)
EXTENDS Integers

CONSTANTS Clients,
          Unseen    \* -1, below every state: what a client knows at first

VARIABLES latest, bases, attached, seen, faulted

vars == <<latest, bases, attached, seen, faulted>>

Init ==
    /\ latest = 0
    /\ bases = {Unseen}     \* the states after which a burst began
    /\ attached = {}
    /\ seen = [c \in Clients |-> Unseen]
    /\ faulted = FALSE

Publish ==
    /\ latest' = latest + 1
    /\ bases' \in {bases, bases \union {latest}}
    /\ UNCHANGED <<attached, seen, faulted>>

Attach(c) ==
    /\ c \notin attached
    /\ seen[c] = Unseen
    /\ attached' = attached \union {c}
    /\ UNCHANGED <<latest, bases, seen, faulted>>

(* State u belongs to an earlier burst than state v.                         *)
Before(u, v) == \E b \in bases : u <= b /\ b < v

Observe(c) ==
    /\ c \in attached
    /\ \E v \in 0 .. latest : ~Before(v, seen[c]) /\ seen' = [seen EXCEPT ![c] = v]
    /\ UNCHANGED <<latest, bases, attached, faulted>>

Detach(c) ==
    /\ attached' = attached \ {c}
    /\ UNCHANGED <<latest, bases, seen, faulted>>

Fault ==
    /\ faulted' = TRUE
    /\ UNCHANGED <<latest, bases, attached, seen>>

Next ==
    \/ Publish
    \/ Fault
    \/ \E c \in Clients : Attach(c) \/ Observe(c) \/ Detach(c)

Spec == Init /\ [][Next]_vars

(* A client that stays behind the last burst gets on, absent a fault.        *)
Behind(c) == ~faulted /\ Before(seen[c], latest)

Progress == \A c \in Clients : WF_vars(Behind(c) /\ Observe(c))
==============================================================================
