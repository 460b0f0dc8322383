------------------------------- MODULE Outbox -------------------------------
(***************************************************************************)
(* What an outbox of Foundry promises, without publishers, leases, tries   *)
(* or clocks: an item is open from the transaction that creates it until   *)
(* it is delivered, parked for an operator or removed with its owner; it   *)
(* is delivered only after Cloud received it, and Cloud receives it only   *)
(* after the items before it; nothing takes a delivery back.               *)
(*                                                                         *)
(* EventDelivery and ProvisioningHints implement it.                       *)
(***************************************************************************)
CONSTANTS
    Items,
    Earlier   \* the items that Cloud must have before an item

VARIABLES
    status,     \* of each item
    received    \* the items Cloud has

vars == <<status, received>>

Change(S, to) == status' = [i \in Items |-> IF i \in S THEN to ELSE status[i]]
In(st) == {i \in Items : status[i] = st}

Init == status = [i \in Items |-> "none"] /\ received = {}

Create(i) == i \in In("none") /\ Change({i}, "open") /\ UNCHANGED received

Receive(i) ==
    /\ status[i] # "none" /\ Earlier[i] \subseteq received
    /\ received' = received \union {i} /\ UNCHANGED status

Deliver(i) == i \in In("open") \intersect received /\ Change({i}, "delivered") /\ UNCHANGED received

\* One transaction may park several items, or remove all there are.
Park(S) == S \subseteq In("open") /\ Change(S, "parked") /\ UNCHANGED received
Reopen(i) == i \in In("parked") /\ Change({i}, "open") /\ UNCHANGED received
Remove(S) == S \intersect In("none") = {} /\ Change(S, "removed") /\ UNCHANGED received

Next ==
    \/ \E i \in Items : Create(i) \/ Receive(i) \/ Deliver(i) \/ Reopen(i)
    \/ \E S \in SUBSET Items : Park(S) \/ Remove(S)

Spec == Init /\ [][Next]_vars
=============================================================================
