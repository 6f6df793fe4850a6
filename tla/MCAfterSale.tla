---------------------------- MODULE MCAfterSale ----------------------------
(***************************************************************************)
(* One payment of one ticket, charged two units of which one is the fee.   *)
(* Two handlers race while there are up to three events; with a fourth     *)
(* they run one at a time.                                                 *)
(*                                                                         *)
(* No handler reads what Stripe has done, and none but at "record" reads a *)
(* ticket that is issued: what Stripe and the door do while one is at work *)
(* might as well be done before, and is.                                   *)
(***************************************************************************)
EXTENDS AfterSale

CONSTANTS p1, k1, w1, w2

OnePayment == {p1}
OneTicket == {k1}
TheTicket == [p \in OnePayment |-> OneTicket]
TwoWorkers == {w1, w2}

At(labels) == \A w \in Workers : wpc[w] \in labels
Busy == {w \in Workers : wpc[w] # "idle"}

StripeBetweenDeliveries == sent' # sent => Busy = {}
DoorBetweenDeliveries ==
    (\E t \in Tickets : CheckIn(t) \/ UndoCheckIn(t)) => At({"idle", "record"})
OneByOneAtLast == Cardinality(sent) = MaxEvents => Cardinality(Busy') <= 1

SaleNext == Next /\ StripeBetweenDeliveries /\ DoorBetweenDeliveries /\ OneByOneAtLast
SaleSpec == Init /\ [][SaleNext]_vars /\ Fairness
=============================================================================
