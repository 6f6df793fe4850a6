------------------------- MODULE MCSeatStockAnyMap --------------------------
(* The small room with its sweeper and, in behaviours of their own, the leases *)
(* under which one of three API workers runs a job like the sweep.             *)
EXTENDS MCSeatStock, Leases

CONSTANTS w1, w2, w3

VARIABLE part

MCWorkers == {w1, w2, w3}
MCSlots == {1, 2}

RoomInit == part \in {"stock", "jobs"} /\ Init /\ LeaseInit

RoomNext ==
    /\ UNCHANGED part
    /\ \/ part = "stock" /\ Next /\ UNCHANGED leaseVars
       \/ part = "jobs" /\ LeaseNext /\ UNCHANGED vars

RoomSpec ==
    /\ RoomInit /\ [][RoomNext]_<<part, vars, leaseVars>>
    /\ Fairness
    /\ part = "jobs" => LeaseFairness
=============================================================================
