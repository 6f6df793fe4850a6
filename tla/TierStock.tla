----------------------------- MODULE TierStock -----------------------------
(***************************************************************************)
(* The allocation of a ticket type (a tier): what is sold of it, what is   *)
(* held, and the sold_count a trigger keeps.  hold_general and             *)
(* tier_allocation_exceeded read sold_count under the tier's row lock; the *)
(* trigger recounts it inside the transaction that issues, scans or voids  *)
(* a ticket.  A recount that has to wait for the row counts with the       *)
(* snapshot its statement took before it waited.                           *)
(*                                                                         *)
(* The tickets and the items of open holds are kept as their number per    *)
(* tier.  An order has one open transaction at a time; the same tier never *)
(* serves both hold_general and the seat map, and both count alike.  Tiers *)
(* without a quantity are never refused and left out.                      *)
(***************************************************************************)
EXTENDS Integers

CONSTANTS
    Tiers,
    NoTier,
    Orders,      \* reservations, and the orders they become
    MaxLine,     \* bound: tickets of a tier in one order
    MaxQuantity  \* bound: the quantities an organizer sets

ASSUME TierAssumption == MaxLine \in Nat /\ MaxQuantity \in Nat /\ NoTier \notin Tiers

VARIABLES
    quantity,   \* ticket_tiers.quantity
    soldCount,  \* ticket_tiers.sold_count, as committed
    tickets,    \* paid tickets that are not void, as committed
    held,       \* quantity of the items of active reservations
    stage,      \* none, held, released, paid or refunded
    lines,      \* of each order: its quantity of each tier
    open,       \* its open transaction: no, sale, refund or scan
    pend,       \* the tickets that transaction adds, not committed
    todo,       \* the rows the trigger has still to fire for
    locked,     \* the tiers whose row it has updated
    written,    \* the sold_count it has written there
    waiting,    \* the tier its UPDATE waits for
    counted,    \* and the count of that UPDATE's snapshot
    late        \* tiers of which some transaction's last recount had to wait

tierRow == <<quantity, soldCount, tickets, held, late>>
tierTx == <<open, pend, todo, locked, written, waiting, counted>>
tierVars == <<tierRow, stage, lines, tierTx>>

Nothing == [t \in Tiers |-> 0]
Lines == [Tiers -> 0..MaxLine] \ {Nothing}

TierInit ==
    /\ quantity \in [Tiers -> 0..MaxQuantity]
    /\ soldCount = Nothing /\ tickets = Nothing /\ held = Nothing
    /\ stage = [r \in Orders |-> "none"]
    /\ lines = [r \in Orders |-> Nothing]
    /\ open = [r \in Orders |-> "no"]
    /\ pend = [r \in Orders |-> Nothing]
    /\ todo = [r \in Orders |-> Nothing]
    /\ locked = [r \in Orders |-> {}]
    /\ written = [r \in Orders |-> Nothing]
    /\ waiting = [r \in Orders |-> NoTier]
    /\ counted = [r \in Orders |-> 0]
    /\ late = {}

RowFree(r, t) == \A o \in Orders \ {r} : t \notin locked[o]

\* The row may be locked FOR UPDATE: no foreign key of a new ticket holds it
\* either.
RowIdle(t) ==
    /\ \A o \in Orders : t \notin locked[o]
    /\ \A o \in Orders : ~ (open[o] = "sale" /\ waiting[o] = t)

-----------------------------------------------------------------------------
(* Holds and door sales *)

\* Mutation: a hold reads what is sold and forgets what others hold.
Within_NoHeld(t, n) == soldCount[t] + n <= quantity[t]

\* The check of hold_general and of tier_allocation_exceeded, the row locked.
Within(t, n) == soldCount[t] + held[t] + n <= quantity[t]

\* hold_general; hold_seats and hold_table where they call
\* tier_allocation_exceeded.  All tiers or none.
Hold(r) ==
    /\ stage[r] = "none"
    /\ \E l \in Lines :
          /\ \A t \in Tiers : l[t] > 0 => RowIdle(t) /\ Within(t, l[t])
          /\ lines' = [lines EXCEPT ![r] = l]
          /\ held' = [t \in Tiers |-> held[t] + l[t]]
    /\ stage' = [stage EXCEPT ![r] = "held"]
    /\ UNCHANGED <<quantity, soldCount, tickets, late, tierTx>>

\* record_manual_sale: checks, sells and recounts under one lock.
DoorSale(r) ==
    /\ stage[r] = "none"
    /\ \E l \in Lines :
          /\ \A t \in Tiers : l[t] > 0 =>
                /\ RowIdle(t) /\ Within(t, l[t])
                /\ tickets[t] + l[t] <= quantity[t]
          /\ lines' = [lines EXCEPT ![r] = l]
          /\ tickets' = [t \in Tiers |-> tickets[t] + l[t]]
          /\ soldCount' = [t \in Tiers |-> IF l[t] > 0 THEN tickets[t] + l[t] ELSE soldCount[t]]
    /\ stage' = [stage EXCEPT ![r] = "paid"]
    /\ UNCHANGED <<quantity, held, late, tierTx>>

\* release_reservation, and expire_stale_reservations for each hold it takes.
Release(r) ==
    /\ stage[r] = "held" /\ open[r] = "no"
    /\ stage' = [stage EXCEPT ![r] = "released"]
    /\ held' = [t \in Tiers |-> held[t] - lines[r][t]]
    /\ UNCHANGED <<quantity, soldCount, tickets, late, lines, tierTx>>

\* PATCH of a tier: sold_within_quantity refuses a cut below sold_count.
SetQuantity(t) ==
    /\ \A o \in Orders : t \notin locked[o]
    /\ \E q \in 0..MaxQuantity :
          q # quantity[t] /\ q >= soldCount[t] /\ quantity' = [quantity EXCEPT ![t] = q]
    /\ UNCHANGED <<soldCount, tickets, held, late, stage, lines, tierTx>>

-----------------------------------------------------------------------------
(* Transactions that write tickets *)

Begin(r, kind, rows, change) ==
    /\ open[r] = "no"
    /\ open' = [open EXCEPT ![r] = kind]
    /\ pend' = [pend EXCEPT ![r] = change]
    /\ todo' = [todo EXCEPT ![r] = rows]
    /\ UNCHANGED <<tierRow, stage, lines, locked, written, waiting, counted>>

\* fulfill_checkout: the tickets are inserted and the trigger is to fire.
BeginSale(r) == stage[r] = "held" /\ Begin(r, "sale", lines[r], lines[r])

\* A full refund or a lost dispute voids the tickets not scanned yet.
BeginRefund(r) ==
    /\ stage[r] = "paid"
    /\ \E k \in Lines :
          /\ \A t \in Tiers : k[t] <= lines[r][t]
          /\ Begin(r, "refund", k, [t \in Tiers |-> - k[t]])

\* A ticket is checked in, or the check-in undone: its status changes.
BeginScan(r) ==
    /\ stage[r] = "paid"
    /\ \E t \in Tiers : lines[r][t] > 0 /\ Begin(r, "scan", [Nothing EXCEPT ![t] = 1], Nothing)

\* The transaction ends without effect.
Rollback(r) ==
    /\ open' = [open EXCEPT ![r] = "no"]
    /\ pend' = [pend EXCEPT ![r] = Nothing]
    /\ todo' = [todo EXCEPT ![r] = Nothing]
    /\ locked' = [locked EXCEPT ![r] = {}]
    /\ written' = [written EXCEPT ![r] = Nothing]
    /\ waiting' = [waiting EXCEPT ![r] = NoTier]
    /\ counted' = [counted EXCEPT ![r] = 0]

\* sold_within_quantity, checked by every UPDATE of the row.
Refused(r, t, n) == n > quantity[t] /\ Rollback(r)

Written(r, t, n) ==
    /\ n <= quantity[t]
    /\ locked' = [locked EXCEPT ![r] = @ \cup {t}]
    /\ written' = [written EXCEPT ![r][t] = n]
    /\ todo' = [todo EXCEPT ![r][t] = @ - 1]
    /\ waiting' = [waiting EXCEPT ![r] = NoTier]
    /\ UNCHANGED <<open, pend, counted>>

\* Mutation: the trigger forgets the rows of its own transaction.
Fresh_Committed(r, t) == tickets[t]

\* What the recount's subquery sees: what is committed and its own rows.
Fresh(r, t) == tickets[t] + pend[r][t]

\* sync_tier_sold_count for one row, the tier's row at hand.
Recount(r, t) ==
    /\ todo[r][t] > 0 /\ waiting[r] = NoTier /\ RowFree(r, t)
    /\ Written(r, t, Fresh(r, t)) \/ Refused(r, t, Fresh(r, t))
    /\ UNCHANGED <<tierRow, stage, lines>>

\* Its snapshot is taken, and another transaction has the row.
Wait(r, t) ==
    /\ todo[r][t] > 0 /\ waiting[r] = NoTier /\ ~ RowFree(r, t)
    /\ waiting' = [waiting EXCEPT ![r] = t]
    /\ counted' = [counted EXCEPT ![r] = Fresh(r, t)]
    /\ UNCHANGED <<tierRow, stage, lines, open, pend, todo, locked, written>>

\* The row is free: the UPDATE goes on with the count it had.
Resume(r, t) ==
    /\ waiting[r] = t /\ RowFree(r, t)
    /\ Written(r, t, counted[r]) \/ Refused(r, t, counted[r])
    /\ late' = IF todo[r][t] = 1 THEN late \cup {t} ELSE late
    /\ UNCHANGED <<quantity, soldCount, tickets, held, stage, lines>>

Commit(r) ==
    /\ open[r] # "no" /\ todo[r] = Nothing
    /\ tickets' = [t \in Tiers |-> tickets[t] + pend[r][t]]
    /\ soldCount' = [t \in Tiers |-> IF t \in locked[r] THEN written[r][t] ELSE soldCount[t]]
    /\ held' = IF open[r] = "sale" THEN [t \in Tiers |-> held[t] - lines[r][t]] ELSE held
    /\ lines' = IF open[r] = "refund"
                THEN [lines EXCEPT ![r] = [t \in Tiers |-> lines[r][t] + pend[r][t]]] ELSE lines
    /\ stage' = [stage EXCEPT ![r] = CASE open[r] = "sale" -> "paid"
                                       [] open[r] = "refund" -> "refunded"
                                       [] OTHER -> @]
    /\ Rollback(r)
    /\ UNCHANGED <<quantity, late>>

\* The connection is lost, or Postgres takes it out of a circular wait.
Abort(r) ==
    /\ open[r] # "no"
    /\ Rollback(r)
    /\ UNCHANGED <<tierRow, stage, lines>>

TierNext ==
    \/ \E r \in Orders : \/ Hold(r) \/ DoorSale(r) \/ Release(r)
                         \/ BeginSale(r) \/ BeginRefund(r) \/ BeginScan(r)
                         \/ Commit(r) \/ Abort(r)
    \/ \E r \in Orders, t \in Tiers : Recount(r, t) \/ Wait(r, t) \/ Resume(r, t)
    \/ \E t \in Tiers : SetQuantity(t)

TierSpec == TierInit /\ [][TierNext]_tierVars

-----------------------------------------------------------------------------
(* Properties *)

TierTypeOK ==
    /\ quantity \in [Tiers -> Int] /\ soldCount \in [Tiers -> Int]
    /\ tickets \in [Tiers -> Int] /\ held \in [Tiers -> Int]
    /\ stage \in [Orders -> {"none", "held", "released", "paid", "refunded"}]
    /\ lines \in [Orders -> [Tiers -> Nat]]
    /\ open \in [Orders -> {"no", "sale", "refund", "scan"}]
    /\ pend \in [Orders -> [Tiers -> Int]] /\ todo \in [Orders -> [Tiers -> Nat]]
    /\ locked \in [Orders -> SUBSET Tiers] /\ written \in [Orders -> [Tiers -> Int]]
    /\ waiting \in [Orders -> Tiers \cup {NoTier}] /\ counted \in [Orders -> Int]
    /\ late \subseteq Tiers

Fits(t) == tickets[t] + held[t] <= quantity[t]

\* "So every path that issues or removes a ticket keeps it true": sold_count
\* never falls behind the tickets, as long as no transaction's last recount of
\* the tier had to wait for another's.
SoldCountKeepsUp == \A t \in Tiers : t \notin late => soldCount[t] >= tickets[t]

\* "Ten buyers at the checkout cannot all take the last allocation": what is sold
\* and held together stays inside it, whatever holds, sales, scans, refunds and
\* releases overlap, and only an organizer's cut takes it out.  Of a tier no last
\* recount of which had to wait.
AllocationHolds ==
    [][\A t \in Tiers :
          t \notin late' /\ quantity'[t] = quantity[t] /\ Fits(t) => Fits(t)']_tierVars
=============================================================================
