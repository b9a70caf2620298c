-------------------------------- MODULE Channel --------------------------------
(***************************************************************************)
(* What the services promise of their events (abstract specification of    *)
(* the outbox): whatever a transaction accepted may be delivered, any      *)
(* number of times and in any order; nothing else is; and it is taken off  *)
(* the books only after it was delivered.                                  *)
(***************************************************************************)
EXTENDS Sequences, Functions

CONSTANT Events

VARIABLES
    accepted,   \* events whose transaction committed
    delivered,  \* the partition of the topic, oldest first
    confirmed   \* events that will not be delivered again

channel == <<accepted, delivered, confirmed>>

Init == accepted = {} /\ delivered = <<>> /\ confirmed = {}

Accept(r) ==
    /\ r \notin accepted
    /\ accepted' = accepted \union {r}
    /\ UNCHANGED <<delivered, confirmed>>

Deliver(r) ==
    /\ r \in accepted
    /\ delivered' = Append(delivered, r)
    /\ UNCHANGED <<accepted, confirmed>>

Confirm(r) ==
    /\ \E i \in DOMAIN delivered : delivered[i] = r
    /\ confirmed' = confirmed \union {r}
    /\ UNCHANGED <<accepted, delivered>>

Next == \E r \in Events : Accept(r) \/ Deliver(r) \/ Confirm(r)

Spec == Init /\ [][Next]_channel
=============================================================================
