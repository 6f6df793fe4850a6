---------------------------- MODULE StockTickets ----------------------------
(***************************************************************************)
(* StockLocks with the tickets that its payments and door sales issue, so  *)
(* that a seat has an owner: the hold it is with, or whoever its ticket    *)
(* was issued to.  With that, what runs statement by statement under row   *)
(* locks can be compared with SeatPromise, which knows of neither.         *)
(***************************************************************************)
EXTENDS StockLocks

VARIABLE ticket   \* committed tickets: who the ticket that names a seat is for

ticketVars == <<vars, ticket>>

\* Whose ticket names a seat that x wrote: the paid hold's, or the door sale's
\* own; deleting the seat clears it from its ticket.
TicketOf(x, s) ==
    CASE Written(x) = "sold"   -> IF op[x].kind = "fulfil" THEN holder[s] ELSE x
      [] Written(x) = "absent" -> Nobody
      [] OTHER                 -> ticket[s]

\* The tickets are written in the transaction that sells the seats.
Issue(x) ==
    ticket' = [s \in Seats |->
                 IF pc[x] = "commit" /\ s \in op[x].seats /\ seatLock[s] = x
                 THEN TicketOf(x, s) ELSE ticket[s]]

TicketInit == Init /\ ticket = [s \in Seats |-> Nobody]
TicketNext == \E x \in Txns : Step(x) /\ Issue(x)
TicketSpec == TicketInit /\ [][TicketNext]_ticketVars

-----------------------------------------------------------------------------
(* The promise the statements keep *)

OwnerOf(s) ==
    CASE seat[s] = "held" -> holder[s]
      [] seat[s] = "sold" -> ticket[s]
      [] OTHER            -> Nobody

\* The promise calls an available seat free.
PromisedState == [s \in Seats |-> IF seat[s] = "available" THEN "free" ELSE seat[s]]
PromisedOwner == [s \in Seats |-> OwnerOf(s)]

\* A call is named by its transaction, be it a buyer's or the door's.
Promise == INSTANCE SeatPromise WITH
    Buyers <- Txns, Door <- Txns, state <- PromisedState, owner <- PromisedOwner

\* save_venue_map deletes a booked seat, which it does by a stale summary.
DropsBookedSeat == \E s \in Seats : seat[s] \in {"held", "sold"} /\ seat'[s] = "absent"

\* However the statements of the calls interleave, wait and are aborted, each
\* commit is one step of SeatPromise and nothing else is a step of it, but where a
\* map save deletes a booked seat.
EachCommitKeepsThePromise ==
    Promise!Init /\ [][Promise!Next \/ DropsBookedSeat]_<<PromisedState, PromisedOwner>>
=============================================================================
