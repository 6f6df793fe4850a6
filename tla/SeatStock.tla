------------------------------ MODULE SeatStock ------------------------------
(***************************************************************************)
(* The reserved-seating stock of one event: the rows of `seats`, `tables`, *)
(* `reservations`, `reservation_items` and `tickets`, and the Postgres     *)
(* functions that move them.  Each function is one transaction and one     *)
(* action here, so what races is the order in which buyers, the door, the  *)
(* sweeper, the organizer's map editor and the admin run them; what the    *)
(* functions' own statements do to each other is modelled in StockLocks.   *)
(*                                                                         *)
(* Ticket-type allocations, prices and sale windows can only refuse a hold *)
(* or a door sale, which are optional below anyway: they are left out, and *)
(* so is the counting of what an allocation has left.                      *)
(*                                                                         *)
(* The `blocked` statuses of the enums are left out: no code writes them.  *)
(***************************************************************************)
EXTENDS Naturals, FiniteSets

CONSTANTS
    Seats,               \* seats that ever have a row
    Tables,              \* tables that ever have a row
    TableOf,             \* seats.table_id: save_venue_map gives every seat one
    Reservations,        \* ids of the reservations that are ever made
    DoorSales,           \* ids of the orders recorded at the door
    NoHold,              \* held_by_reservation IS NULL
    PurchaseMode,        \* events.purchase_mode
    MaxTicketsPerOrder,  \* events.max_tickets_per_order
    GrowHeldTables       \* TRUE: save_venue_map as it is, which adds seats to a
                         \* table that is held whole.  FALSE: it never happens.

ASSUME StockAssumption ==
    /\ TableOf \in [Seats -> Tables]
    /\ NoHold \notin Reservations \cup DoorSales
    /\ Reservations \cap DoorSales = {}
    /\ PurchaseMode \in {"seat_only", "table_only", "seat_and_table"}
    /\ GrowHeldTables \in BOOLEAN

VARIABLES
    eventStatus,  \* events.status, once the event is on sale
    seatStatus,   \* seats.status; "absent": the row does not exist
    seatHolder,   \* seats.held_by_reservation
    tableStatus,  \* tables.status
    tableHolder,  \* tables.held_by_reservation
    resState,     \* reservations.state; "none": not made yet
    lapsed,       \* reservations whose expires_at has passed
    seatItems,    \* reservation_items with a seat_id
    tableItems,   \* reservation_items with a table_id
    ticketsOf     \* order -> seats its tickets are for (a reservation has at
                  \* most one order, orders_one_per_reservation)

itemVars  == <<seatItems, tableItems>>
resVars   == <<resState, lapsed, seatItems, tableItems>>
stockVars == <<seatStatus, seatHolder, tableStatus, tableHolder>>
vars == <<eventStatus, stockVars, resVars, ticketsOf>>

Orders == Reservations \cup DoorSales

-----------------------------------------------------------------------------
(* The derived table status *)

\* The seat rows of a table, when seat status is `seat`.
RowsAt(t, seat) == {s \in Seats : TableOf[s] = t /\ seat[s] # "absent"}

\* sync_table_status_from_seats: what the trigger writes on the table.
StatusFromSeats(t, seat) ==
    LET rows == RowsAt(t, seat)
        free == {s \in rows : seat[s] = "available"}
    IN  IF free = rows THEN "available" ELSE IF free = {} THEN "sold" ELSE "partial"

\* The trigger fires for every seat written, on the seat's table.  Here it counts
\* and writes at once; in the code its count may come before a wait for the table's
\* row and be old when it is written: StockLocks takes the two apart.
Synced(table, seat, written) ==
    [t \in Tables |-> IF table[t] # "absent" /\ \E s \in written : TableOf[s] = t
                      THEN StatusFromSeats(t, seat) ELSE table[t]]

-----------------------------------------------------------------------------
(* What the functions read *)

\* Mutation: a held seat passes for a free one.
Available_IgnoresHolds(S) == \A s \in S : seatStatus[s] \in {"available", "held"}

\* The seats that are free, as hold_seats, hold_table and record_manual_sale
\* find them under their row locks: all of S or the call is refused.
Available(S) == \A s \in S : seatStatus[s] = "available"

\* Mutation: the seats of a table bought whole are forgotten.
SeatsPaidFor_SeatsOnly(r) == seatItems[r]

\* What fulfill_checkout sells to a hold: the seats its items name and, for a
\* table item, whatever seats the table has NOW.
SeatsPaidFor(r) ==
    seatItems[r] \cup {s \in Seats : seatStatus[s] # "absent" /\ TableOf[s] \in tableItems[r]}

\* Mutation: the sweep takes every lapsed hold, paid or not.
Stale_EveryLapsed == lapsed

\* Mutation: the sweep misses whole-table holds.
Stale_SeatHoldsOnly == {r \in lapsed : resState[r] = "active" /\ tableItems[r] = {}}

\* The holds one sweep claims: WHERE state = 'active' AND expires_at < now().
Stale == {r \in lapsed : resState[r] = "active"}

\* Mutation: the seats of a table held whole are forgotten.
FreedBy_SeatsOnly(R) == {s \in Seats : \E r \in R : s \in seatItems[r]}

\* The seats that go back on sale with the holds R: those that point at them.
FreedBy(R) == {s \in Seats : seatHolder[s] \in R}

\* Mutation: the items stay.
ItemsLeft_All(items, R) == items

\* DELETE FROM reservation_items WHERE reservation_id is one of R.
ItemsLeft(items, R) == [r \in Reservations |-> IF r \in R THEN {} ELSE items[r]]

-----------------------------------------------------------------------------
Init ==
    /\ eventStatus = "published"
    /\ seatStatus  = [s \in Seats |-> "absent"]
    /\ seatHolder  = [s \in Seats |-> NoHold]
    /\ tableStatus = [t \in Tables |-> "absent"]
    /\ tableHolder = [t \in Tables |-> NoHold]
    /\ resState    = [r \in Reservations |-> "none"]
    /\ lapsed      = {}
    /\ seatItems   = [r \in Reservations |-> {}]
    /\ tableItems  = [r \in Reservations |-> {}]
    /\ ticketsOf   = [o \in Orders |-> {}]

(* Holds *)

\* hold_seats: all the seats or none.  The unique index on
\* reservation_items.seat_id aborts the transaction if an item is left over.
HoldSeats(r, S) ==
    /\ eventStatus = "published"
    /\ PurchaseMode # "table_only"
    /\ S # {} /\ Cardinality(S) <= MaxTicketsPerOrder
    /\ Available(S)
    /\ \A q \in Reservations : seatItems[q] \cap S = {}
    /\ resState[r] = "none"
    /\ resState'   = [resState EXCEPT ![r] = "active"]
    /\ seatItems'  = [seatItems EXCEPT ![r] = S]
    /\ seatStatus' = [s \in Seats |-> IF s \in S THEN "held" ELSE seatStatus[s]]
    /\ seatHolder' = [s \in Seats |-> IF s \in S THEN r ELSE seatHolder[s]]
    /\ tableStatus' = Synced(tableStatus, seatStatus', S)
    /\ UNCHANGED <<eventStatus, tableHolder, lapsed, tableItems, ticketsOf>>

\* hold_table: the whole table, every seat with it.  The trigger has marked the
\* table `sold` by the time the function marks it `held`.
HoldTable(r, t) ==
    LET S == RowsAt(t, seatStatus) IN
    /\ eventStatus = "published"
    /\ PurchaseMode # "seat_only"
    /\ tableStatus[t] = "available"
    /\ S # {} /\ Available(S)
    /\ \A q \in Reservations : t \notin tableItems[q]
    /\ resState[r] = "none"
    /\ resState'    = [resState EXCEPT ![r] = "active"]
    /\ tableItems'  = [tableItems EXCEPT ![r] = {t}]
    /\ seatStatus'  = [s \in Seats |-> IF s \in S THEN "held" ELSE seatStatus[s]]
    /\ seatHolder'  = [s \in Seats |-> IF s \in S THEN r ELSE seatHolder[s]]
    /\ tableStatus' = [tableStatus EXCEPT ![t] = "held"]
    /\ tableHolder' = [tableHolder EXCEPT ![t] = r]
    /\ UNCHANGED <<eventStatus, lapsed, seatItems, ticketsOf>>

\* What release_reservation and expire_stale_reservations both do to the stock
\* of the reservations R: seats back on sale, hold markers cleared, items gone.
GiveBack(R) ==
    LET freed == FreedBy(R) IN
    /\ seatStatus'  = [s \in Seats |-> IF s \in freed THEN "available" ELSE seatStatus[s]]
    /\ seatHolder'  = [s \in Seats |-> IF s \in freed THEN NoHold ELSE seatHolder[s]]
    /\ tableStatus' = Synced(tableStatus, seatStatus', freed)
    /\ tableHolder' = [t \in Tables |-> IF tableHolder[t] \in R THEN NoHold ELSE tableHolder[t]]
    /\ seatItems'   = ItemsLeft(seatItems, R)
    /\ tableItems'  = ItemsLeft(tableItems, R)

\* release_reservation: the buyer, an expired Stripe session, or an admin
\* closing the checkouts of a stopped event.  Only a paid hold is refused.
ReleaseReservation(r) ==
    /\ resState[r] \notin {"none", "converted"}
    /\ GiveBack({r})
    /\ resState' = [resState EXCEPT ![r] = "released"]
    /\ UNCHANGED <<eventStatus, lapsed, ticketsOf>>

\* expires_at passes.
Lapse(r) ==
    /\ resState[r] = "active" /\ r \notin lapsed
    /\ lapsed' = lapsed \cup {r}
    /\ UNCHANGED <<eventStatus, stockVars, resState, itemVars, ticketsOf>>

\* expire_stale_reservations: one UPDATE claims every lapsed active hold.
ExpireStaleReservations ==
    /\ Stale # {}
    /\ GiveBack(Stale)
    /\ resState' = [r \in Reservations |-> IF r \in Stale THEN "expired" ELSE resState[r]]
    /\ UNCHANGED <<eventStatus, lapsed, ticketsOf>>

(* Sales *)

\* fulfill_checkout on an active hold; on any other it changes nothing.
FulfillCheckout(r) ==
    LET S == SeatsPaidFor(r)
        marked == [t \in Tables |-> IF t \in tableItems[r] THEN "sold" ELSE tableStatus[t]]
    IN
    /\ resState[r] = "active"
    /\ eventStatus = "published"
    /\ resState'    = [resState EXCEPT ![r] = "converted"]
    /\ tableHolder' = [t \in Tables |-> IF t \in tableItems[r] THEN NoHold ELSE tableHolder[t]]
    /\ seatStatus'  = [s \in Seats |-> IF s \in S THEN "sold" ELSE seatStatus[s]]
    /\ seatHolder'  = [s \in Seats |-> IF s \in S THEN NoHold ELSE seatHolder[s]]
    /\ tableStatus' = Synced(marked, seatStatus', S)
    /\ ticketsOf'   = [ticketsOf EXCEPT ![r] = S]
    /\ UNCHANGED <<eventStatus, lapsed, itemVars>>

\* record_manual_sale, by seats or (S = the rows of one table) by table.
RecordManualSale(o, S) ==
    /\ eventStatus = "published"
    /\ ticketsOf[o] = {}
    /\ S # {} /\ Available(S)
    /\ seatStatus'  = [s \in Seats |-> IF s \in S THEN "sold" ELSE seatStatus[s]]
    /\ tableStatus' = Synced(tableStatus, seatStatus', S)
    /\ ticketsOf'   = [ticketsOf EXCEPT ![o] = S]
    /\ UNCHANGED <<eventStatus, seatHolder, tableHolder, resVars>>

(* The organizer's map, and the admin *)

\* save_venue_map: the map becomes `tables` with the seats `rows`.  A table that
\* goes is judged by its status, a table that shrinks by the seats that go, and
\* a table that grows by nothing.  Deleted rows take their items with them (ON
\* DELETE CASCADE) and leave tickets without a seat (ON DELETE SET NULL).
SaveVenueMap(tables, rows) ==
    LET gone    == {t \in Tables : tableStatus[t] # "absent"} \ tables
        added   == {s \in rows : seatStatus[s] = "absent"}
        removed == {s \in Seats \ rows : seatStatus[s] # "absent"}
        kept    == [t \in Tables |-> IF t \in gone THEN "absent"
                                     ELSE IF t \in tables /\ tableStatus[t] = "absent"
                                          THEN "available" ELSE tableStatus[t]]
    IN
    /\ tables = {TableOf[s] : s \in rows}
    /\ \A t \in gone : tableStatus[t] = "available"
    /\ \A s \in removed : TableOf[s] \in tables => seatStatus[s] = "available"
    /\ \A s \in added, z \in removed : TableOf[s] # TableOf[z]
    /\ GrowHeldTables \/ \A s \in added : tableStatus[TableOf[s]] # "held"
    /\ seatStatus'  = [s \in Seats |-> IF s \in added THEN "available"
                                       ELSE IF s \in removed THEN "absent" ELSE seatStatus[s]]
    /\ seatHolder'  = [s \in Seats |-> IF s \in removed THEN NoHold ELSE seatHolder[s]]
    /\ tableStatus' = Synced(kept, seatStatus', added \cup removed)
    /\ tableHolder' = [t \in Tables |-> IF t \in gone THEN NoHold ELSE tableHolder[t]]
    /\ seatItems'   = [r \in Reservations |-> seatItems[r] \ removed]
    /\ tableItems'  = [r \in Reservations |-> tableItems[r] \ gone]
    /\ ticketsOf'   = [o \in Orders |-> ticketsOf[o] \ removed]
    /\ UNCHANGED <<eventStatus, resState, lapsed>>

\* The event leaves the published state for one it can come back from (it is
\* suspended, rejected after going live, or archived), comes back, or is
\* cancelled for good.  The holds that leaves behind are then released one by
\* one (closeOpenCheckouts, ReleaseReservation above).
SetEventStatus(from, to) ==
    /\ eventStatus = from
    /\ eventStatus' = to
    /\ UNCHANGED <<stockVars, resVars, ticketsOf>>

StopOrResume ==
    \/ SetEventStatus("published", "withdrawn")
    \/ SetEventStatus("withdrawn", "published")
    \/ SetEventStatus("published", "cancelled")
    \/ SetEventStatus("withdrawn", "cancelled")

-----------------------------------------------------------------------------
Next ==
    \/ \E r \in Reservations, S \in SUBSET Seats : HoldSeats(r, S)
    \/ \E r \in Reservations, t \in Tables : HoldTable(r, t)
    \/ \E r \in Reservations : ReleaseReservation(r)
    \/ \E r \in Reservations : Lapse(r)
    \/ ExpireStaleReservations
    \/ \E r \in Reservations : FulfillCheckout(r)
    \/ \E o \in DoorSales, S \in SUBSET Seats : RecordManualSale(o, S)
    \/ \E tables \in SUBSET Tables, rows \in SUBSET Seats : SaveVenueMap(tables, rows)
    \/ StopOrResume

Spec == Init /\ [][Next]_vars

\* The clock moves, and the sweeper is run every minute (scheduler.js): nobody
\* else is obliged to do anything.
Fairness ==
    /\ \A r \in Reservations : WF_vars(Lapse(r))
    /\ WF_vars(ExpireStaleReservations)

FairSpec == Spec /\ Fairness

-----------------------------------------------------------------------------
(* Properties *)

\* The values each column may take.
TypeOK ==
    /\ eventStatus \in {"published", "withdrawn", "cancelled"}
    /\ seatStatus  \in [Seats -> {"absent", "available", "held", "sold"}]
    /\ seatHolder  \in [Seats -> Reservations \cup {NoHold}]
    /\ tableStatus \in [Tables -> {"absent", "available", "partial", "held", "sold"}]
    /\ tableHolder \in [Tables -> Reservations \cup {NoHold}]
    /\ resState    \in [Reservations -> {"none", "active", "expired", "converted", "released"}]
    /\ lapsed      \subseteq Reservations
    /\ seatItems   \in [Reservations -> SUBSET Seats]
    /\ tableItems  \in [Reservations -> SUBSET Tables]
    /\ ticketsOf   \in [Orders -> SUBSET Seats]

\* A held seat always belongs to a hold that is still active and whose items
\* name it or its table, so that a sweep or a payment will end the hold: no path
\* out of a hold (release, sweep, payment, a map save) leaves a seat behind.
HeldSeatsAreBacked ==
    \A s \in Seats :
        IF seatStatus[s] = "held"
        THEN /\ seatHolder[s] \in Reservations
             /\ resState[seatHolder[s]] = "active"
             /\ \/ s \in seatItems[seatHolder[s]]
                \/ TableOf[s] \in tableItems[seatHolder[s]]
        ELSE seatHolder[s] = NoHold

\* Everything an active hold is about to be charged for is still held by it:
\* nothing it names was sold, freed or taken by another buyer meanwhile.
ActiveHoldsAreWhole ==
    \A r \in Reservations : resState[r] = "active" =>
        \A s \in SeatsPaidFor(r) : seatStatus[s] = "held" /\ seatHolder[s] = r

\* "Two buyers holding a ticket for one chair" (20260829180000_seat_holds.sql)
\* never happens, whichever mix of seat holds, table holds and door sales ran.
OneTicketPerSeat ==
    \A o, p \in Orders : o # p => ticketsOf[o] \cap ticketsOf[p] = {}

\* A lemma of the proofs and no promise of the code, which breaks it between the
\* statements of two transactions (StockLocks): the summary never says `available`
\* with a seat taken, nor `sold` or `held` with one free.  Of `partial` it says
\* nothing, and the proofs need nothing.
TableStatusAgrees ==
    \A t \in Tables :
        /\ tableStatus[t] = "absent" <=> RowsAt(t, seatStatus) = {}
        /\ tableStatus[t] = "available" =>
              \A s \in RowsAt(t, seatStatus) : seatStatus[s] = "available"
        /\ tableStatus[t] \in {"sold", "held"} =>
              \A s \in RowsAt(t, seatStatus) : seatStatus[s] # "available"

\* A seat or table that is free is named by no leftover item: the unique indexes
\* would refuse every later hold of it ("free but permanently unreservable").
FreeStockIsHoldable ==
    \A r \in Reservations :
        /\ \A s \in seatItems[r] : seatStatus[s] # "available"
        /\ \A t \in tableItems[r] : tableStatus[t] # "available"

\* A payment issues tickets for exactly the seats its hold has in its hands at
\* that moment: none of its own is missing and none of another buyer's added.
PaymentIssuesWhatWasHeld ==
    [][\A r \in Reservations :
          resState'[r] = "converted" /\ resState[r] # "converted"
            => ticketsOf'[r] = {s \in Seats : seatHolder[s] = r}]_vars

\* What has been paid for stays paid for: a converted hold never changes, and no
\* release, sweep or map save takes a ticket's seat away or puts it back on sale.
\* That goes for whole functions one after the other: a map save that trusts a
\* table's old summary deletes a booked seat (StockLocks, BookedSeatsAreNeverDropped).
PaidStockIsFinal ==
    [][/\ \A r \in Reservations : resState[r] = "converted" => resState'[r] = "converted"
       /\ \A o \in Orders : ticketsOf[o] \subseteq ticketsOf'[o]
       /\ \A o \in Orders : \A s \in ticketsOf'[o] : seatStatus'[s] = "sold"]_vars

\* No abandoned checkout keeps a seat off sale for ever: every hold ends.
EveryHoldEnds ==
    \A s \in Seats : seatStatus[s] = "held" ~> seatStatus[s] # "held"

-----------------------------------------------------------------------------
(* What the proofs add to the properties to make them inductive *)

\* A ticket's seat is sold, and only a paid hold has tickets.
TicketsAreBacked ==
    /\ \A o \in Orders : \A s \in ticketsOf[o] : seatStatus[s] = "sold"
    /\ \A r \in Reservations : resState[r] # "converted" => ticketsOf[r] = {}

\* A reservation that was not made yet has no items, and items name rows.
ItemsAreSound ==
    \A r \in Reservations :
        /\ resState[r] = "none" => seatItems[r] = {} /\ tableItems[r] = {}
        /\ \A s \in seatItems[r] : seatStatus[s] # "absent"
        /\ \A t \in tableItems[r] : tableStatus[t] # "absent"

\* A table with a whole-table hold keeps the status `held`, by which
\* save_venue_map knows it, until the hold ends.
HeldTablesAreMarked ==
    \A r \in Reservations : resState[r] = "active" =>
        \A t \in tableItems[r] : tableStatus[t] = "held"

\* A sold seat has its ticket: needed to say whose it is.
SoldSeatsHaveTickets ==
    \A s \in Seats : seatStatus[s] = "sold" => \E o \in Orders : s \in ticketsOf[o]

\* Inductive whatever the map editor does.
StockInv ==
    /\ TypeOK
    /\ HeldSeatsAreBacked
    /\ TableStatusAgrees
    /\ TicketsAreBacked
    /\ ItemsAreSound

\* Inductive as long as no table grows while it is held.
WholeInv ==
    /\ StockInv
    /\ HeldTablesAreMarked
    /\ ActiveHoldsAreWhole
    /\ OneTicketPerSeat

-----------------------------------------------------------------------------
(* The promise the stock keeps *)

\* Who a seat is with: the hold that has it, or the order whose ticket names it.
OwnerOf(s) ==
    IF seatStatus[s] = "held" THEN seatHolder[s]
    ELSE IF seatStatus[s] = "sold" THEN CHOOSE o \in Orders : s \in ticketsOf[o]
    ELSE NoHold

\* The promise calls an available seat free.
PromisedState == [s \in Seats |-> IF seatStatus[s] = "available" THEN "free" ELSE seatStatus[s]]
PromisedOwner == [s \in Seats |-> OwnerOf(s)]

Promise == INSTANCE SeatPromise WITH
    Buyers <- Reservations, Door <- DoorSales, Nobody <- NoHold,
    state <- PromisedState, owner <- PromisedOwner

\* Every run of the stock is a run of SeatPromise: whole-table and single-seat
\* holds, sweeps, releases, payments, door sales and map saves together never
\* give a buyer a seat outside the hold it took, nor part of a hold.
KeepsThePromise == Promise!Spec
=============================================================================
