------------------------------ MODULE Mailbox ------------------------------
(***************************************************************************)
(* What the message bus promises a program that runs without Redis: boxes  *)
(* in which messages wait in the order they were posted, each received at  *)
(* most once.  A message may be set aside instead, but only when its box   *)
(* has no room for it, and no message is both set aside and received.      *)
(***************************************************************************)
EXTENDS Naturals, Sequences

CONSTANTS
    Boxes,
    Letters,    \* what is posted
    Room        \* messages a box holds, 0 for no limit

VARIABLES
    waiting,    \* waiting[b]: messages in box b, oldest first
    received,   \* received[b]: messages taken from it, in order
    aside       \* messages that found no room

mailVars == <<waiting, received, aside>>

Contents(s) == {s[i] : i \in DOMAIN s}

\* The messages that were posted before.
Posted == aside \union UNION {Contents(waiting[b]) \union Contents(received[b]) : b \in Boxes}

HasRoom(b) == Room = 0 \/ Len(waiting[b]) < Room

Init ==
    /\ waiting = [b \in Boxes |-> <<>>]
    /\ received = [b \in Boxes |-> <<>>]
    /\ aside = {}

Post(b, m) ==
    /\ m \notin Posted
    /\ HasRoom(b)
    /\ waiting' = [waiting EXCEPT ![b] = Append(@, m)]
    /\ UNCHANGED <<received, aside>>

SetAside(b, m) ==
    /\ m \notin Posted
    /\ ~HasRoom(b)
    /\ aside' = aside \union {m}
    /\ UNCHANGED <<waiting, received>>

Receive(b) ==
    /\ waiting[b] # <<>>
    /\ waiting' = [waiting EXCEPT ![b] = Tail(@)]
    /\ received' = [received EXCEPT ![b] = Append(@, Head(waiting[b]))]
    /\ UNCHANGED aside

Next ==
    \/ \E b \in Boxes, m \in Letters : Post(b, m) \/ SetAside(b, m)
    \/ \E b \in Boxes : Receive(b)

Spec == Init /\ [][Next]_mailVars

=============================================================================
