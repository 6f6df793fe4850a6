--------------------------- MODULE SeatStockProofs ---------------------------
(***************************************************************************)
(* Proofs about the seat stock for every room, every number of buyers and  *)
(* every length of run.  StockInv is inductive with any map edit; WholeInv *)
(* needs that no table grows while it is held whole, and so does the last  *)
(* part, that the stock implements SeatPromise.                            *)
(***************************************************************************)
EXTENDS SeatStock, TLAPS

-----------------------------------------------------------------------------
(* The derived table status *)

\* The trigger writes one of the enum's values, and only on tables that exist.
LEMMA SyncedType ==
    ASSUME NEW table \in [Tables -> {"absent", "available", "partial", "held", "sold"}],
           NEW seat, NEW written
    PROVE  Synced(table, seat, written)
             \in [Tables -> {"absent", "available", "partial", "held", "sold"}]
<1>1. \A t \in Tables : StatusFromSeats(t, seat) \in {"available", "partial", "sold"}
  BY DEF StatusFromSeats
<1> QED BY <1>1 DEF Synced

\* The trigger neither makes nor drops a table.
LEMMA SyncedExists ==
    ASSUME NEW table, NEW seat, NEW written, NEW t \in Tables
    PROVE  Synced(table, seat, written)[t] = "absent" <=> table[t] = "absent"
BY DEF Synced, StatusFromSeats

\* What the trigger leaves on a table with a written seat, and on any other.
LEMMA SyncedValue ==
    ASSUME NEW table, NEW seat, NEW written, NEW t \in Tables
    PROVE  /\ (table[t] # "absent" /\ \E s \in written : TableOf[s] = t)
                => Synced(table, seat, written)[t] = StatusFromSeats(t, seat)
           /\ ~ (table[t] # "absent" /\ \E s \in written : TableOf[s] = t)
                => Synced(table, seat, written)[t] = table[t]
BY DEF Synced

-----------------------------------------------------------------------------
(* Type correctness *)

LEMMA InitType == Init => TypeOK
BY StockAssumption DEF Init, TypeOK, Orders

\* Every step keeps every column in its enum.
LEMMA NextType == TypeOK /\ [Next]_vars => TypeOK'
<1> SUFFICES ASSUME TypeOK, [Next]_vars PROVE TypeOK'
  OBVIOUS
<1> USE StockAssumption
<1>1. ASSUME NEW r \in Reservations, NEW S \in SUBSET Seats, HoldSeats(r, S) PROVE TypeOK'
  BY <1>1, SyncedType DEF HoldSeats, TypeOK, Orders
<1>2. ASSUME NEW r \in Reservations, NEW t \in Tables, HoldTable(r, t) PROVE TypeOK'
  BY <1>2 DEF HoldTable, TypeOK, Orders
<1>3. ASSUME NEW R \in SUBSET Reservations, GiveBack(R)
      PROVE  /\ seatStatus' \in [Seats -> {"absent", "available", "held", "sold"}]
             /\ seatHolder' \in [Seats -> Reservations \cup {NoHold}]
             /\ tableStatus' \in [Tables -> {"absent", "available", "partial", "held", "sold"}]
             /\ tableHolder' \in [Tables -> Reservations \cup {NoHold}]
             /\ seatItems' \in [Reservations -> SUBSET Seats]
             /\ tableItems' \in [Reservations -> SUBSET Tables]
  BY <1>3, SyncedType DEF GiveBack, TypeOK, ItemsLeft
<1>4. ASSUME NEW r \in Reservations, ReleaseReservation(r) PROVE TypeOK'
  <2>1. GiveBack({r})
    BY <1>4 DEF ReleaseReservation
  <2> QED BY <1>3, <1>4, <2>1 DEF ReleaseReservation, TypeOK
<1>5. ASSUME NEW r \in Reservations, Lapse(r) PROVE TypeOK'
  BY <1>5 DEF Lapse, TypeOK, stockVars, itemVars, Orders
<1>6. CASE ExpireStaleReservations
  <2>1. Stale \in SUBSET Reservations /\ GiveBack(Stale)
    BY <1>6 DEF ExpireStaleReservations, Stale, TypeOK
  <2> QED BY <1>3, <1>6, <2>1 DEF ExpireStaleReservations, TypeOK
<1>7. ASSUME NEW r \in Reservations, FulfillCheckout(r) PROVE TypeOK'
  <2> DEFINE marked == [t \in Tables |-> IF t \in tableItems[r] THEN "sold" ELSE tableStatus[t]]
  <2>1. marked \in [Tables -> {"absent", "available", "partial", "held", "sold"}]
    BY DEF TypeOK
  <2>2. SeatsPaidFor(r) \in SUBSET Seats
    BY DEF SeatsPaidFor, TypeOK
  <2>3. tableStatus' \in [Tables -> {"absent", "available", "partial", "held", "sold"}]
    BY <1>7, <2>1, SyncedType DEF FulfillCheckout
  <2> HIDE DEF marked
  <2> QED BY <1>7, <2>2, <2>3 DEF FulfillCheckout, TypeOK, itemVars, Orders
<1>8. ASSUME NEW o \in DoorSales, NEW S \in SUBSET Seats, RecordManualSale(o, S) PROVE TypeOK'
  BY <1>8, SyncedType DEF RecordManualSale, TypeOK, resVars, Orders
<1>9. ASSUME NEW tables \in SUBSET Tables, NEW rows \in SUBSET Seats, SaveVenueMap(tables, rows)
      PROVE TypeOK'
  <2> DEFINE gone == {t \in Tables : tableStatus[t] # "absent"} \ tables
             kept == [t \in Tables |-> IF t \in gone THEN "absent"
                                       ELSE IF t \in tables /\ tableStatus[t] = "absent"
                                            THEN "available" ELSE tableStatus[t]]
  <2>1. kept \in [Tables -> {"absent", "available", "partial", "held", "sold"}]
    BY DEF TypeOK
  <2>2. tableStatus' \in [Tables -> {"absent", "available", "partial", "held", "sold"}]
    BY <1>9, <2>1, SyncedType DEF SaveVenueMap
  <2> QED BY <1>9, <2>2 DEF SaveVenueMap, TypeOK, Orders
<1>10. CASE StopOrResume
  BY <1>10 DEF StopOrResume, SetEventStatus, TypeOK, stockVars, resVars, itemVars, Orders
<1>11. CASE UNCHANGED vars
  BY <1>11 DEF TypeOK, vars, stockVars, resVars, itemVars, Orders
<1> QED BY <1>1, <1>2, <1>4, <1>5, <1>6, <1>7, <1>8, <1>9, <1>10, <1>11 DEF Next

\* Every column keeps one of its values, whatever the callers do.
THEOREM TypeCorrect == Spec => []TypeOK
BY InitType, NextType, PTL DEF Spec

-----------------------------------------------------------------------------
(* The invariant that holds with any map edit *)

\* TableStatusAgrees, of one table and given statuses.
AgreesAt(t, table, seat) ==
    /\ table[t] = "absent" <=> RowsAt(t, seat) = {}
    /\ table[t] = "available" => \A s \in RowsAt(t, seat) : seat[s] = "available"
    /\ table[t] \in {"sold", "held"} => \A s \in RowsAt(t, seat) : seat[s] # "available"

\* A table the trigger wrote agrees with its seats.
LEMMA WrittenAgrees ==
    ASSUME NEW table, NEW seat, NEW written \in SUBSET Seats, NEW t \in Tables,
           table[t] # "absent", \E s \in written : TableOf[s] = t,
           RowsAt(t, seat) # {}
    PROVE  AgreesAt(t, Synced(table, seat, written), seat)
<1>1. Synced(table, seat, written)[t] = StatusFromSeats(t, seat)
  BY SyncedValue
<1> QED BY <1>1 DEF AgreesAt, StatusFromSeats, RowsAt

\* A table neither whose status nor whose seats changed agrees as before.
LEMMA UntouchedAgrees ==
    ASSUME NEW t \in Tables, NEW table, NEW table2, NEW seat, NEW seat2,
           AgreesAt(t, table, seat), table2[t] = table[t],
           \A s \in Seats : TableOf[s] = t => seat2[s] = seat[s]
    PROVE  AgreesAt(t, table2, seat2)
<1>1. RowsAt(t, seat2) = RowsAt(t, seat)
  BY DEF RowsAt
<1> QED BY <1>1 DEF AgreesAt, RowsAt

\* A transaction that gives the seats S of existing rows a status, and lets the
\* trigger run, leaves every table in agreement.
LEMMA SellingAgrees ==
    ASSUME TypeOK, TableStatusAgrees, NEW S \in SUBSET Seats,
           NEW to \in {"available", "held", "sold"},
           \A s \in S : seatStatus[s] # "absent",
           NEW seat2, seat2 = [s \in Seats |-> IF s \in S THEN to ELSE seatStatus[s]]
    PROVE  \A t \in Tables : AgreesAt(t, Synced(tableStatus, seat2, S), seat2)
<1> TAKE t \in Tables
<1>1. AgreesAt(t, tableStatus, seatStatus)
  BY DEF TableStatusAgrees, AgreesAt
<1>2. CASE \E s \in S : TableOf[s] = t
  <2>1. PICK s \in S : TableOf[s] = t
    BY <1>2
  <2>2. s \in RowsAt(t, seatStatus) /\ s \in RowsAt(t, seat2)
    BY <2>1 DEF RowsAt
  <2>3. tableStatus[t] # "absent"
    BY <1>1, <2>2 DEF AgreesAt
  <2> QED BY <1>2, <2>2, <2>3, WrittenAgrees
<1>3. CASE ~ \E s \in S : TableOf[s] = t
  <2>1. Synced(tableStatus, seat2, S)[t] = tableStatus[t]
    BY <1>3, SyncedValue
  <2>2. \A s \in Seats : TableOf[s] = t => seat2[s] = seatStatus[s]
    BY <1>3
  <2> QED BY <1>1, <2>1, <2>2, UntouchedAgrees
<1> QED BY <1>2, <1>3

LEMMA InitStock == Init => StockInv
BY InitType, StockAssumption
DEF Init, StockInv, HeldSeatsAreBacked, TableStatusAgrees, RowsAt, TicketsAreBacked,
    ItemsAreSound, Orders

\* The parts of StockInv a step leaves alone when it leaves their columns alone.
LEMMA StockFrame ==
    ASSUME StockInv, TypeOK',
           UNCHANGED <<stockVars, seatItems, tableItems, ticketsOf, resState>>
    PROVE  StockInv'
BY DEF StockInv, stockVars, HeldSeatsAreBacked, TableStatusAgrees, RowsAt, TicketsAreBacked,
       ItemsAreSound

LEMMA HoldSeatsStock ==
    ASSUME StockInv, TypeOK', NEW r \in Reservations, NEW S \in SUBSET Seats, HoldSeats(r, S)
    PROVE  StockInv'
<1> USE StockAssumption
<1>1. HeldSeatsAreBacked'
  BY DEF HoldSeats, Available, StockInv, TypeOK, HeldSeatsAreBacked
<1>2. \A t \in Tables : AgreesAt(t, tableStatus', seatStatus')
  BY SellingAgrees DEF HoldSeats, Available, StockInv
<1>3. TableStatusAgrees'
  BY <1>2 DEF AgreesAt, TableStatusAgrees, RowsAt
<1>4. TicketsAreBacked'
  BY DEF HoldSeats, Available, StockInv, TypeOK, TicketsAreBacked, Orders
<1>5. ItemsAreSound'
  BY SyncedExists DEF HoldSeats, Available, StockInv, TypeOK, ItemsAreSound
<1> QED BY <1>1, <1>3, <1>4, <1>5 DEF StockInv

LEMMA HoldTableStock ==
    ASSUME StockInv, TypeOK', NEW r \in Reservations, NEW t \in Tables, HoldTable(r, t)
    PROVE  StockInv'
<1> USE StockAssumption
<1> DEFINE S == RowsAt(t, seatStatus)
<1>1. HeldSeatsAreBacked'
  BY DEF HoldTable, RowsAt, Available, StockInv, TypeOK, HeldSeatsAreBacked
<1>2. ASSUME NEW u \in Tables PROVE AgreesAt(u, tableStatus', seatStatus')
  <2>1. CASE u = t
    <3>1. /\ tableStatus'[t] = "held" /\ S # {}
          /\ \A s \in Seats : s \in S => seatStatus'[s] = "held"
          /\ \A s \in Seats : s \notin S => seatStatus'[s] = seatStatus[s]
      BY DEF HoldTable, StockInv, TypeOK, RowsAt
    <3>2. RowsAt(t, seatStatus') = S
      BY <3>1 DEF RowsAt
    <3> QED BY <2>1, <3>1, <3>2 DEF AgreesAt, RowsAt
  <2>2. CASE u # t
    <3>1. \A s \in Seats : TableOf[s] = u => seatStatus'[s] = seatStatus[s]
      BY <2>2 DEF HoldTable, RowsAt, StockInv, TypeOK
    <3>2. tableStatus'[u] = tableStatus[u]
      BY <2>2 DEF HoldTable, StockInv, TypeOK
    <3>3. AgreesAt(u, tableStatus, seatStatus)
      BY DEF AgreesAt, StockInv, TableStatusAgrees
    <3> QED BY <3>1, <3>2, <3>3, UntouchedAgrees
  <2> QED BY <2>1, <2>2
<1>3. TableStatusAgrees'
  BY <1>2 DEF AgreesAt, TableStatusAgrees, RowsAt
<1>4. TicketsAreBacked'
  BY DEF HoldTable, RowsAt, Available, StockInv, TypeOK, TicketsAreBacked, Orders
<1>5. ItemsAreSound'
  BY DEF HoldTable, RowsAt, Available, StockInv, TypeOK, ItemsAreSound
<1> QED BY <1>1, <1>3, <1>4, <1>5 DEF StockInv

\* The release of the holds R, which end in the state `to`.
LEMMA GiveBackStock ==
    ASSUME StockInv, TypeOK', NEW R \in SUBSET Reservations, GiveBack(R),
           NEW to \in {"released", "expired"},
           \A r \in R : resState[r] \notin {"none", "converted"},
           resState' = [r \in Reservations |-> IF r \in R THEN to ELSE resState[r]],
           UNCHANGED ticketsOf
    PROVE  StockInv'
<1> USE StockAssumption
<1>1. \A s \in FreedBy(R) : seatStatus[s] = "held"
  BY DEF FreedBy, StockInv, TypeOK, HeldSeatsAreBacked
<1>2. HeldSeatsAreBacked'
  BY DEF GiveBack, FreedBy, ItemsLeft, StockInv, TypeOK, HeldSeatsAreBacked
<1>3. FreedBy(R) \in SUBSET Seats
  BY DEF FreedBy
<1>4. \A t \in Tables : AgreesAt(t, tableStatus', seatStatus')
  BY <1>1, <1>3, SellingAgrees DEF GiveBack, StockInv
<1>5. TableStatusAgrees'
  BY <1>4 DEF AgreesAt, TableStatusAgrees, RowsAt
<1>6. TicketsAreBacked'
  BY <1>1 DEF GiveBack, StockInv, TypeOK, TicketsAreBacked, Orders
<1>7. ItemsAreSound'
  BY SyncedExists DEF GiveBack, ItemsLeft, StockInv, TypeOK, ItemsAreSound
<1> QED BY <1>2, <1>5, <1>6, <1>7 DEF StockInv

\* The seats a payment sells are held or free, none of them sold already by
\* the same order; what other orders' tickets name stays sold.
LEMMA FulfillStock ==
    ASSUME StockInv, TypeOK', NEW r \in Reservations, FulfillCheckout(r)
    PROVE  StockInv'
<1> USE StockAssumption
<1> DEFINE S == SeatsPaidFor(r)
           marked == [t \in Tables |-> IF t \in tableItems[r] THEN "sold" ELSE tableStatus[t]]
<1>1. HeldSeatsAreBacked'
  <2>1. ASSUME NEW s \in Seats, s \notin S, seatStatus[s] = "held" PROVE seatHolder[s] # r
    BY <2>1 DEF SeatsPaidFor, StockInv, TypeOK, HeldSeatsAreBacked
  <2>2. ASSUME NEW s \in Seats
        PROVE  /\ s \in S => seatStatus'[s] = "sold" /\ seatHolder'[s] = NoHold
               /\ s \notin S => seatStatus'[s] = seatStatus[s] /\ seatHolder'[s] = seatHolder[s]
    BY DEF FulfillCheckout
  <2>3. /\ \A q \in Reservations : q # r => resState'[q] = resState[q]
        /\ UNCHANGED itemVars
    BY DEF FulfillCheckout, StockInv, TypeOK
  <2> HIDE DEF S
  <2> QED BY <2>1, <2>2, <2>3 DEF itemVars, StockInv, HeldSeatsAreBacked
<1>2. ASSUME NEW t \in Tables PROVE AgreesAt(t, tableStatus', seatStatus')
  <2>1. AgreesAt(t, tableStatus, seatStatus)
    BY DEF AgreesAt, StockInv, TableStatusAgrees
  <2>2. S \in SUBSET Seats /\ \A s \in S : seatStatus[s] # "absent"
    BY DEF SeatsPaidFor, StockInv, TypeOK, ItemsAreSound
  <2>3. seatStatus' = [s \in Seats |-> IF s \in S THEN "sold" ELSE seatStatus[s]]
        /\ tableStatus' = Synced(marked, seatStatus', S)
    BY DEF FulfillCheckout
  <2>4. RowsAt(t, seatStatus') = RowsAt(t, seatStatus)
    BY <2>2, <2>3 DEF RowsAt
  <2>5. marked[t] = "absent" <=> tableStatus[t] = "absent"
    BY DEF StockInv, ItemsAreSound
  <2>6. CASE \E s \in S : TableOf[s] = t
    <3>1. RowsAt(t, seatStatus) # {}
      BY <2>2, <2>6 DEF RowsAt
    <3>2. marked[t] # "absent"
      BY <2>1, <2>5, <3>1 DEF AgreesAt
    <3> HIDE DEF S, marked
    <3> QED BY <2>2, <2>3, <2>4, <2>6, <3>1, <3>2, WrittenAgrees
  <2>7. CASE ~ \E s \in S : TableOf[s] = t
    <3>1. t \notin tableItems[r]
      <4>1. SUFFICES ASSUME t \in tableItems[r] PROVE FALSE
        OBVIOUS
      <4>2. tableStatus[t] # "absent"
        BY <4>1 DEF StockInv, ItemsAreSound
      <4>3. PICK s \in Seats : TableOf[s] = t /\ seatStatus[s] # "absent"
        BY <2>1, <4>2 DEF AgreesAt, RowsAt
      <4> QED BY <2>7, <4>1, <4>3 DEF SeatsPaidFor
    <3>2. marked[t] = tableStatus[t]
      BY <3>1
    <3>3. \A s \in Seats : TableOf[s] = t => seatStatus'[s] = seatStatus[s]
      BY <2>3, <2>7
    <3> HIDE DEF S, marked
    <3>4. tableStatus'[t] = tableStatus[t]
      BY <2>3, <2>7, <3>2, SyncedValue
    <3> QED BY <2>1, <3>3, <3>4, UntouchedAgrees
  <2> QED BY <2>6, <2>7
<1>3. TableStatusAgrees'
  BY <1>2 DEF AgreesAt, TableStatusAgrees, RowsAt
<1>4. TicketsAreBacked'
  BY DEF FulfillCheckout, itemVars, StockInv, TypeOK, TicketsAreBacked, Orders, SeatsPaidFor
<1>5. ItemsAreSound'
  <2>1. \A t \in Tables : marked[t] = "absent" <=> tableStatus[t] = "absent"
    BY DEF StockInv, ItemsAreSound
  <2>2. \A t \in Tables : tableStatus'[t] = "absent" <=> tableStatus[t] = "absent"
    BY <2>1, SyncedExists DEF FulfillCheckout
  <2> QED BY <2>2 DEF FulfillCheckout, itemVars, StockInv, TypeOK, ItemsAreSound
<1> QED BY <1>1, <1>3, <1>4, <1>5 DEF StockInv

LEMMA ManualSaleStock ==
    ASSUME StockInv, TypeOK', NEW o \in DoorSales, NEW S \in SUBSET Seats, RecordManualSale(o, S)
    PROVE  StockInv'
<1> USE StockAssumption
<1>1. HeldSeatsAreBacked'
  BY DEF RecordManualSale, Available, resVars, itemVars, StockInv, TypeOK, HeldSeatsAreBacked
<1>2. \A t \in Tables : AgreesAt(t, tableStatus', seatStatus')
  BY SellingAgrees DEF RecordManualSale, Available, StockInv
<1>3. TableStatusAgrees'
  BY <1>2 DEF AgreesAt, TableStatusAgrees, RowsAt
<1>4. TicketsAreBacked'
  <2>1. \A r \in Reservations : r # o
    BY DEF Orders
  <2> QED BY <2>1 DEF RecordManualSale, resVars, StockInv, TypeOK, TicketsAreBacked, Orders
<1>5. ItemsAreSound'
  BY SyncedExists DEF RecordManualSale, Available, resVars, itemVars, StockInv, TypeOK, ItemsAreSound
<1> QED BY <1>1, <1>3, <1>4, <1>5 DEF StockInv

LEMMA SaveVenueMapStock ==
    ASSUME StockInv, TypeOK', NEW tables \in SUBSET Tables, NEW rows \in SUBSET Seats,
           SaveVenueMap(tables, rows)
    PROVE  StockInv'
<1> USE StockAssumption
<1> DEFINE gone    == {t \in Tables : tableStatus[t] # "absent"} \ tables
           added   == {s \in rows : seatStatus[s] = "absent"}
           removed == {s \in Seats \ rows : seatStatus[s] # "absent"}
           kept    == [t \in Tables |-> IF t \in gone THEN "absent"
                                        ELSE IF t \in tables /\ tableStatus[t] = "absent"
                                             THEN "available" ELSE tableStatus[t]]
<1>1. /\ tables = {TableOf[s] : s \in rows}
      /\ tableStatus' = Synced(kept, seatStatus', added \cup removed)
      /\ seatItems' = [r \in Reservations |-> seatItems[r] \ removed]
      /\ tableItems' = [r \in Reservations |-> tableItems[r] \ gone]
      /\ ticketsOf' = [o \in Orders |-> ticketsOf[o] \ removed]
      /\ UNCHANGED <<eventStatus, resState, lapsed>>
  BY DEF SaveVenueMap
<1>2. ASSUME NEW s \in Seats
      PROVE  /\ s \in added => seatStatus'[s] = "available" /\ seatHolder'[s] = seatHolder[s]
             /\ s \in removed => seatStatus'[s] = "absent" /\ seatHolder'[s] = NoHold
             /\ s \notin added \cup removed
                  => seatStatus'[s] = seatStatus[s] /\ seatHolder'[s] = seatHolder[s]
             /\ seatStatus'[s] # "absent" => s \in rows
             /\ s \in rows => seatStatus'[s] # "absent"
  BY DEF SaveVenueMap
<1>3. \A t \in Tables : tableStatus'[t] = "absent" <=> kept[t] = "absent"
  BY <1>1, SyncedExists
<1>4. HeldSeatsAreBacked'
  <2>1. ASSUME NEW s \in Seats, seatStatus'[s] = "held"
        PROVE  s \notin added \cup removed /\ TableOf[s] \notin gone
    BY <1>1, <1>2, <2>1
  <2> HIDE DEF added, removed, gone, kept
  <2>2. ASSUME NEW s \in Seats, seatStatus'[s] = "held"
        PROVE  /\ seatHolder'[s] \in Reservations
               /\ resState'[seatHolder'[s]] = "active"
               /\ \/ s \in seatItems'[seatHolder'[s]]
                  \/ TableOf[s] \in tableItems'[seatHolder'[s]]
    BY <1>1, <1>2, <2>1, <2>2 DEF StockInv, HeldSeatsAreBacked
  <2>3. ASSUME NEW s \in Seats, seatStatus'[s] # "held" PROVE seatHolder'[s] = NoHold
    <3>1. s \in added => seatStatus[s] # "held"
      BY DEF added
    <3> QED BY <1>2, <2>3, <3>1 DEF StockInv, HeldSeatsAreBacked
  <2> QED BY <2>2, <2>3 DEF HeldSeatsAreBacked
<1>5. ASSUME NEW t \in Tables PROVE AgreesAt(t, tableStatus', seatStatus')
  <2>1. AgreesAt(t, tableStatus, seatStatus)
    BY DEF AgreesAt, StockInv, TableStatusAgrees
  <2>2. CASE t \notin tables
    <3>1. RowsAt(t, seatStatus') = {}
      BY <1>1, <1>2, <2>2 DEF RowsAt
    <3>2. tableStatus'[t] = "absent"
      BY <1>3, <2>2
    <3> QED BY <3>1, <3>2 DEF AgreesAt
  <2>3. CASE t \in tables
    <3>1. PICK s \in rows : TableOf[s] = t
      BY <1>1, <2>3
    <3>2. s \in RowsAt(t, seatStatus') /\ kept[t] # "absent"
      BY <1>2, <2>3, <3>1 DEF RowsAt
    <3>3. CASE \E z \in added \cup removed : TableOf[z] = t
      <4> HIDE DEF kept
      <4> QED BY <1>1, <3>2, <3>3, WrittenAgrees
    <3>4. CASE ~ \E z \in added \cup removed : TableOf[z] = t
      <4>1. tableStatus[t] # "absent"
        BY <2>1, <3>1, <3>4 DEF AgreesAt, RowsAt
      <4>2. kept[t] = tableStatus[t]
        BY <2>3, <4>1
      <4>3. \A z \in Seats : TableOf[z] = t => seatStatus'[z] = seatStatus[z]
        BY <1>2, <3>4
      <4> HIDE DEF kept
      <4>4. tableStatus'[t] = tableStatus[t]
        BY <1>1, <3>4, <4>2, SyncedValue
      <4> QED BY <2>1, <4>3, <4>4, UntouchedAgrees
    <3> QED BY <3>3, <3>4
  <2> QED BY <2>2, <2>3
<1>6. TableStatusAgrees'
  BY <1>5 DEF AgreesAt, TableStatusAgrees, RowsAt
<1>7. TicketsAreBacked'
  <2>1. \A s \in Seats : seatStatus[s] = "sold" => s \notin added
    OBVIOUS
  <2> HIDE DEF added, removed, gone, kept
  <2> QED BY <1>1, <1>2, <2>1 DEF StockInv, TypeOK, TicketsAreBacked, Orders
<1>8. ItemsAreSound'
  <2>1. \A t \in Tables : t \notin gone /\ tableStatus[t] # "absent" => kept[t] # "absent"
    OBVIOUS
  <2>2. \A s \in added : seatStatus[s] = "absent"
    OBVIOUS
  <2> HIDE DEF added, removed, gone, kept
  <2> SUFFICES ASSUME NEW r \in Reservations
               PROVE  /\ resState'[r] = "none" => seatItems'[r] = {} /\ tableItems'[r] = {}
                      /\ \A s \in seatItems'[r] : seatStatus'[s] # "absent"
                      /\ \A t \in tableItems'[r] : tableStatus'[t] # "absent"
    BY DEF ItemsAreSound
  <2>3. /\ seatItems[r] \subseteq Seats /\ tableItems[r] \subseteq Tables
        /\ seatItems'[r] = seatItems[r] \ removed
        /\ tableItems'[r] = tableItems[r] \ gone
    BY <1>1 DEF StockInv, TypeOK
  <2>4. /\ resState[r] = "none" => seatItems[r] = {} /\ tableItems[r] = {}
        /\ \A s \in seatItems[r] : seatStatus[s] # "absent"
        /\ \A t \in tableItems[r] : tableStatus[t] # "absent"
    BY DEF StockInv, ItemsAreSound
  <2>5. \A s \in seatItems[r] \ removed : seatStatus'[s] # "absent"
    BY <1>2, <2>2, <2>3, <2>4
  <2> QED BY <1>1, <1>3, <2>1, <2>3, <2>4, <2>5
<1> QED BY <1>4, <1>6, <1>7, <1>8 DEF StockInv

\* One step per action.
LEMMA NextStock == StockInv /\ [Next]_vars => StockInv'
<1> SUFFICES ASSUME StockInv, [Next]_vars PROVE StockInv'
  OBVIOUS
<1> USE StockAssumption
<1>0. TypeOK /\ TypeOK'
  BY NextType DEF StockInv
<1>1. ASSUME NEW r \in Reservations, ReleaseReservation(r) PROVE StockInv'
  <2>1. resState' = [q \in Reservations |-> IF q \in {r} THEN "released" ELSE resState[q]]
    BY <1>0, <1>1 DEF ReleaseReservation, TypeOK
  <2> QED BY <1>0, <1>1, <2>1, GiveBackStock DEF ReleaseReservation
<1>2. ASSUME NEW r \in Reservations, Lapse(r) PROVE StockInv'
  BY <1>0, <1>2, StockFrame DEF Lapse, itemVars
<1>3. CASE ExpireStaleReservations
  <2>1. Stale \in SUBSET Reservations /\ \A r \in Stale : resState[r] \notin {"none", "converted"}
    BY <1>0 DEF Stale, TypeOK
  <2> QED BY <1>0, <1>3, <2>1, GiveBackStock DEF ExpireStaleReservations
<1>4. CASE StopOrResume
  BY <1>0, <1>4, StockFrame DEF StopOrResume, SetEventStatus, resVars
<1>5. CASE UNCHANGED vars
  BY <1>0, <1>5, StockFrame DEF vars, resVars
<1> QED BY <1>0, <1>1, <1>2, <1>3, <1>4, <1>5, HoldSeatsStock, HoldTableStock, FulfillStock,
           ManualSaleStock, SaveVenueMapStock DEF Next

\* Held seats, table summaries, tickets and items agree after every function, for
\* every room and every map edit.
THEOREM StockInvariant == Spec => []StockInv
BY InitStock, NextStock, PTL DEF Spec

\* A held seat belongs to a hold that is active and names it or its table: no
\* chair stays blocked by a hold that has ended.
THEOREM HoldsAreBacked == Spec => []HeldSeatsAreBacked
<1>1. StockInv => HeldSeatsAreBacked
  BY DEF StockInv
<1> QED BY <1>1, StockInvariant, PTL

-----------------------------------------------------------------------------
(* Paid stock is final *)

\* A step that leaves tickets and conversions alone is final by TicketsAreBacked.
LEMMA PaidStep ==
    ASSUME StockInv, StockInv', Next
    PROVE  /\ \A r \in Reservations : resState[r] = "converted" => resState'[r] = "converted"
           /\ \A o \in Orders : ticketsOf[o] \subseteq ticketsOf'[o]
           /\ \A o \in Orders : \A s \in ticketsOf'[o] : seatStatus'[s] = "sold"
<1> USE StockAssumption
<1>1. \A o \in Orders : \A s \in ticketsOf'[o] : seatStatus'[s] = "sold"
  BY DEF StockInv, TicketsAreBacked
<1>2. \A r \in Reservations : resState[r] = "converted" => resState'[r] = "converted"
  <2>1. resState \in [Reservations -> {"none", "active", "expired", "converted", "released"}]
    BY DEF StockInv, TypeOK
  <2>2. ASSUME NEW r \in Reservations, NEW S \in SUBSET Seats, HoldSeats(r, S)
        PROVE  \A q \in Reservations : resState[q] = "converted" => resState'[q] = "converted"
    BY <2>1, <2>2 DEF HoldSeats
  <2>3. ASSUME NEW r \in Reservations, NEW t \in Tables, HoldTable(r, t)
        PROVE  \A q \in Reservations : resState[q] = "converted" => resState'[q] = "converted"
    BY <2>1, <2>3 DEF HoldTable
  <2>4. ASSUME NEW r \in Reservations, ReleaseReservation(r) \/ FulfillCheckout(r)
        PROVE  \A q \in Reservations : resState[q] = "converted" => resState'[q] = "converted"
    BY <2>1, <2>4 DEF ReleaseReservation, FulfillCheckout
  <2>5. ASSUME ExpireStaleReservations
        PROVE  \A q \in Reservations : resState[q] = "converted" => resState'[q] = "converted"
    BY <2>1, <2>5 DEF ExpireStaleReservations, Stale
  <2>6. CASE UNCHANGED resState
    BY <2>6
  <2> QED BY <2>2, <2>3, <2>4, <2>5, <2>6
    DEF Next, Lapse, RecordManualSale, resVars, SaveVenueMap, StopOrResume, SetEventStatus
<1>3. \A o \in Orders : ticketsOf[o] \subseteq ticketsOf'[o]
  <2>1. ASSUME NEW r \in Reservations, FulfillCheckout(r)
        PROVE  \A o \in Orders : ticketsOf[o] \subseteq ticketsOf'[o]
    BY <2>1 DEF FulfillCheckout, StockInv, TypeOK, TicketsAreBacked, Orders
  <2>2. ASSUME NEW d \in DoorSales, NEW S \in SUBSET Seats, RecordManualSale(d, S)
        PROVE  \A o \in Orders : ticketsOf[o] \subseteq ticketsOf'[o]
    BY <2>2 DEF RecordManualSale, StockInv, TypeOK, Orders
  <2>3. ASSUME NEW tables \in SUBSET Tables, NEW rows \in SUBSET Seats, SaveVenueMap(tables, rows)
        PROVE  \A o \in Orders : ticketsOf[o] \subseteq ticketsOf'[o]
    <3> DEFINE removed == {s \in Seats \ rows : seatStatus[s] # "absent"}
    <3>1. ASSUME NEW s \in removed PROVE seatStatus[s] # "sold"
      <4>1. CASE TableOf[s] \in tables
        BY <2>3, <4>1 DEF SaveVenueMap
      <4>2. CASE TableOf[s] \notin tables
        <5>1. tableStatus[TableOf[s]] = "available"
          BY <2>3, <4>2 DEF SaveVenueMap, StockInv, TableStatusAgrees, RowsAt
        <5> QED BY <5>1 DEF StockInv, TableStatusAgrees, RowsAt
      <4> QED BY <4>1, <4>2
    <3>2. \A o \in Orders : ticketsOf'[o] = ticketsOf[o] \ removed
      BY <2>3 DEF SaveVenueMap
    <3> HIDE DEF removed
    <3> QED BY <3>1, <3>2 DEF StockInv, TicketsAreBacked
  <2>4. CASE UNCHANGED ticketsOf
    BY <2>4
  <2> QED BY <2>1, <2>2, <2>3, <2>4
    DEF Next, HoldSeats, HoldTable, ReleaseReservation, Lapse, ExpireStaleReservations,
        StopOrResume, SetEventStatus
<1> QED BY <1>1, <1>2, <1>3

\* No release, sweep or map edit ever takes back what was paid for.
THEOREM PaidIsFinal == Spec => PaidStockIsFinal
<1>1. StockInv /\ StockInv' /\ [Next]_vars
        => [/\ \A r \in Reservations : resState[r] = "converted" => resState'[r] = "converted"
            /\ \A o \in Orders : ticketsOf[o] \subseteq ticketsOf'[o]
            /\ \A o \in Orders : \A s \in ticketsOf'[o] : seatStatus'[s] = "sold"]_vars
  BY PaidStep
<1> QED BY <1>1, StockInvariant, PTL DEF Spec, PaidStockIsFinal

-----------------------------------------------------------------------------
(* No leftover item *)

\* Each item has a seat that is sold or in the hands of its hold: a table item,
\* some seat of the table, whatever the map editor has added to it.
ItemsAreBacked ==
    \A r \in Reservations :
        /\ \A s \in seatItems[r] : seatStatus[s] = "sold" \/ seatHolder[s] = r
        /\ \A t \in tableItems[r] : \E s \in Seats :
              TableOf[s] = t /\ (seatStatus[s] = "sold" \/ seatHolder[s] = r)

\* A seat that backs an item is not free.
LEMMA BackingSeatIsTaken ==
    ASSUME StockInv, NEW r \in Reservations, NEW s \in Seats,
           seatStatus[s] = "sold" \/ seatHolder[s] = r
    PROVE  seatStatus[s] \in {"held", "sold"}
BY StockAssumption DEF StockInv, HeldSeatsAreBacked

\* A step that keeps the items and every seat that backs one.
LEMMA BackingStays ==
    ASSUME StockInv, ItemsAreBacked,
           \A r \in Reservations : /\ seatItems'[r] \subseteq seatItems[r]
                                   /\ tableItems'[r] \subseteq tableItems[r],
           \A r \in Reservations, s \in Seats :
              /\ seatItems'[r] # {} \/ tableItems'[r] # {}
              /\ seatStatus[s] = "sold" \/ seatHolder[s] = r
              => seatStatus'[s] = "sold" \/ seatHolder'[s] = r
    PROVE  ItemsAreBacked'
<1>1. \A r \in Reservations : seatItems[r] \subseteq Seats
  BY DEF StockInv, TypeOK
<1> QED BY <1>1 DEF ItemsAreBacked

LEMMA MapEditKeepsBacking ==
    ASSUME StockInv, ItemsAreBacked, NEW tables \in SUBSET Tables, NEW rows \in SUBSET Seats,
           SaveVenueMap(tables, rows)
    PROVE  ItemsAreBacked'
<1> USE StockAssumption
<1> DEFINE removed == {s \in Seats \ rows : seatStatus[s] # "absent"}
<1>1. ASSUME NEW s \in removed PROVE seatStatus[s] = "available"
  <2>1. CASE TableOf[s] \in tables
    BY <1>1, <2>1 DEF SaveVenueMap
  <2>2. CASE TableOf[s] \notin tables
    <3>1. tableStatus[TableOf[s]] = "available"
      BY <1>1, <2>2 DEF SaveVenueMap, StockInv, TableStatusAgrees, RowsAt
    <3> QED BY <3>1 DEF StockInv, TableStatusAgrees, RowsAt
  <2> QED BY <2>1, <2>2
<1>2. ASSUME NEW s \in Seats, seatStatus[s] \in {"held", "sold"}
      PROVE  seatStatus'[s] = seatStatus[s] /\ seatHolder'[s] = seatHolder[s]
  BY <1>1, <1>2 DEF SaveVenueMap
<1>3. \A r \in Reservations : /\ seatItems'[r] \subseteq seatItems[r]
                              /\ tableItems'[r] \subseteq tableItems[r]
  BY DEF SaveVenueMap
<1> QED BY <1>2, <1>3, BackingSeatIsTaken, BackingStays

LEMMA NextBacked == StockInv /\ ItemsAreBacked /\ [Next]_vars => ItemsAreBacked'
<1> SUFFICES ASSUME StockInv, ItemsAreBacked, [Next]_vars PROVE ItemsAreBacked'
  OBVIOUS
<1> USE StockAssumption
<1>0. TypeOK
  BY DEF StockInv
<1>1. ASSUME NEW r \in Reservations, NEW S \in SUBSET Seats, HoldSeats(r, S) PROVE ItemsAreBacked'
  <2>1. \A s \in Seats : seatStatus[s] \in {"held", "sold"} =>
           seatStatus'[s] = seatStatus[s] /\ seatHolder'[s] = seatHolder[s]
    BY <1>1 DEF HoldSeats, Available
  <2>2. /\ seatItems'[r] = S /\ \A s \in S : seatHolder'[s] = r
        /\ tableItems' = tableItems /\ tableItems[r] = {}
        /\ \A q \in Reservations \ {r} : seatItems'[q] = seatItems[q]
    BY <1>0, <1>1 DEF HoldSeats, TypeOK, StockInv, ItemsAreSound
  <2>3. \A q \in Reservations : seatItems[q] \subseteq Seats
    BY <1>0 DEF TypeOK
  <2> QED BY <2>1, <2>2, <2>3, BackingSeatIsTaken DEF ItemsAreBacked
<1>2. ASSUME NEW r \in Reservations, NEW t \in Tables, HoldTable(r, t) PROVE ItemsAreBacked'
  <2>1. \A s \in Seats : seatStatus[s] \in {"held", "sold"} =>
           seatStatus'[s] = seatStatus[s] /\ seatHolder'[s] = seatHolder[s]
    BY <1>2 DEF HoldTable, Available
  <2>2. PICK s \in RowsAt(t, seatStatus) : seatHolder'[s] = r
    BY <1>2 DEF HoldTable, RowsAt
  <2>3. /\ tableItems'[r] = {t} /\ seatItems' = seatItems /\ seatItems[r] = {}
        /\ \A q \in Reservations \ {r} : tableItems'[q] = tableItems[q]
    BY <1>0, <1>2 DEF HoldTable, TypeOK, StockInv, ItemsAreSound
  <2>4. \A q \in Reservations : seatItems[q] \subseteq Seats
    BY <1>0 DEF TypeOK
  <2> QED BY <2>1, <2>2, <2>3, <2>4, BackingSeatIsTaken DEF ItemsAreBacked, RowsAt
<1>3. ASSUME NEW R \in SUBSET Reservations, GiveBack(R) PROVE ItemsAreBacked'
  <2>1. \A q \in R : seatItems'[q] = {} /\ tableItems'[q] = {}
    BY <1>3 DEF GiveBack, ItemsLeft
  <2>2. \A q \in Reservations \ R : seatItems'[q] = seatItems[q] /\ tableItems'[q] = tableItems[q]
    BY <1>3 DEF GiveBack, ItemsLeft
  <2>3. ASSUME NEW s \in Seats, seatHolder[s] \notin R
        PROVE  seatStatus'[s] = seatStatus[s] /\ seatHolder'[s] = seatHolder[s]
    BY <1>3, <2>3 DEF GiveBack, FreedBy
  <2>4. \A s \in Seats : seatStatus[s] = "sold" => seatHolder[s] \notin R
    BY DEF StockInv, HeldSeatsAreBacked
  <2> QED BY <2>1, <2>2, <2>3, <2>4, BackingStays
<1>4. ASSUME NEW r \in Reservations, FulfillCheckout(r) PROVE ItemsAreBacked'
  <2>1. \A s \in Seats : \/ seatStatus'[s] = "sold"
                         \/ seatStatus'[s] = seatStatus[s] /\ seatHolder'[s] = seatHolder[s]
    BY <1>4 DEF FulfillCheckout
  <2>2. UNCHANGED itemVars
    BY <1>4 DEF FulfillCheckout
  <2> QED BY <2>1, <2>2, BackingStays DEF itemVars
<1>5. ASSUME NEW o \in DoorSales, NEW S \in SUBSET Seats, RecordManualSale(o, S) PROVE ItemsAreBacked'
  <2>1. \A s \in Seats : seatStatus'[s] \in {"sold", seatStatus[s]} /\ seatHolder' = seatHolder
    BY <1>5 DEF RecordManualSale
  <2>2. UNCHANGED <<seatItems, tableItems>>
    BY <1>5 DEF RecordManualSale, resVars, itemVars
  <2> QED BY <2>1, <2>2, BackingStays
<1>6. CASE UNCHANGED <<seatStatus, seatHolder, seatItems, tableItems>>
  BY <1>6, BackingStays
<1>7. Stale \subseteq Reservations
  BY <1>0 DEF Stale, TypeOK
<1> QED BY <1>1, <1>2, <1>3, <1>4, <1>5, <1>6, <1>7, MapEditKeepsBacking
  DEF Next, ReleaseReservation, ExpireStaleReservations, Lapse, StopOrResume, SetEventStatus,
      stockVars, resVars, itemVars, vars

\* Stock that is free can be held again: no hold, sale, release, sweep or map edit
\* leaves an item that names it.
THEOREM FreeStockStaysHoldable == Spec => []FreeStockIsHoldable
<1>1. Init => ItemsAreBacked
  BY DEF Init, ItemsAreBacked
<1>2. StockInv /\ ItemsAreBacked => FreeStockIsHoldable
  <2> SUFFICES ASSUME StockInv, ItemsAreBacked, NEW r \in Reservations
               PROVE  /\ \A s \in seatItems[r] : seatStatus[s] # "available"
                      /\ \A t \in tableItems[r] : tableStatus[t] # "available"
    BY DEF FreeStockIsHoldable
  <2>1. seatItems[r] \subseteq Seats /\ tableItems[r] \subseteq Tables
    BY DEF StockInv, TypeOK
  <2>2. ASSUME NEW t \in tableItems[r] PROVE tableStatus[t] # "available"
    <3>1. PICK s \in Seats : TableOf[s] = t /\ (seatStatus[s] = "sold" \/ seatHolder[s] = r)
      BY DEF ItemsAreBacked
    <3>2. seatStatus[s] \in {"held", "sold"} /\ s \in RowsAt(t, seatStatus)
      BY <3>1, BackingSeatIsTaken DEF RowsAt
    <3> QED BY <2>1, <3>2 DEF StockInv, TableStatusAgrees
  <2> QED BY <2>1, <2>2, BackingSeatIsTaken DEF ItemsAreBacked
<1> QED BY <1>1, <1>2, StockInvariant, NextBacked, PTL DEF Spec

-----------------------------------------------------------------------------
(* The invariant that holds while no table grows under a hold *)

LEMMA InitWhole == Init => WholeInv
BY InitStock, StockAssumption
DEF Init, WholeInv, HeldTablesAreMarked, ActiveHoldsAreWhole, OneTicketPerSeat, Orders

\* The seats a hold will be charged for, while it is active.
LEMMA SeatsPaidForType == ASSUME TypeOK, NEW r \in Reservations PROVE SeatsPaidFor(r) \subseteq Seats
BY DEF TypeOK, SeatsPaidFor

\* A step that gives the seats S, none of them in the hands of another active
\* hold, a status, and lets the trigger run, keeps every other active hold whole.
LEMMA OthersStayWhole ==
    ASSUME WholeInv, NEW q \in Reservations, resState[q] = "active",
           NEW S \in SUBSET Seats,
           \A s \in S : seatStatus[s] # "absent" /\ ~ (seatStatus[s] = "held" /\ seatHolder[s] = q),
           \A s \in Seats \ S : seatStatus'[s] = seatStatus[s] /\ seatHolder'[s] = seatHolder[s],
           \A s \in S : seatStatus'[s] # "absent",
           seatItems'[q] = seatItems[q], tableItems'[q] = tableItems[q]
    PROVE  /\ \A s \in SeatsPaidFor(q)' : seatStatus'[s] = "held" /\ seatHolder'[s] = q
           /\ \A t \in tableItems[q] : ~ \E s \in S : TableOf[s] = t
<1> USE StockAssumption
<1>1. SeatsPaidFor(q)' = SeatsPaidFor(q)
  BY DEF SeatsPaidFor, WholeInv, StockInv, TypeOK
<1>2. \A s \in SeatsPaidFor(q) : seatStatus[s] = "held" /\ seatHolder[s] = q
  BY DEF WholeInv, ActiveHoldsAreWhole
<1>3. SeatsPaidFor(q) \subseteq Seats \ S
  BY <1>2, SeatsPaidForType DEF WholeInv, StockInv
<1>4. \A t \in tableItems[q] : ~ \E s \in S : TableOf[s] = t
  BY <1>3 DEF SeatsPaidFor
<1> QED BY <1>1, <1>2, <1>3, <1>4

LEMMA HoldSeatsWhole ==
    ASSUME WholeInv, StockInv', NEW r \in Reservations, NEW S \in SUBSET Seats, HoldSeats(r, S)
    PROVE  WholeInv'
<1> USE StockAssumption
<1>1. TypeOK /\ StockInv /\ Available(S) /\ resState[r] = "none"
  BY DEF WholeInv, StockInv, HoldSeats
<1>2. ASSUME NEW q \in Reservations, q # r, resState'[q] = "active"
      PROVE  /\ \A s \in SeatsPaidFor(q)' : seatStatus'[s] = "held" /\ seatHolder'[s] = q
             /\ \A t \in tableItems'[q] : tableStatus'[t] = "held"
  <2>1. /\ resState[q] = "active" /\ seatItems'[q] = seatItems[q] /\ tableItems'[q] = tableItems[q]
        /\ \A s \in S : seatStatus[s] = "available" /\ seatStatus'[s] = "held"
        /\ \A s \in Seats \ S : seatStatus'[s] = seatStatus[s] /\ seatHolder'[s] = seatHolder[s]
        /\ tableStatus' = Synced(tableStatus, seatStatus', S)
    BY <1>1, <1>2 DEF HoldSeats, Available, TypeOK
  <2>2. /\ \A s \in SeatsPaidFor(q)' : seatStatus'[s] = "held" /\ seatHolder'[s] = q
        /\ \A t \in tableItems[q] : ~ \E s \in S : TableOf[s] = t
    BY <2>1, OthersStayWhole
  <2>3. \A t \in tableItems[q] : tableStatus'[t] = tableStatus[t]
    BY <1>1, <2>1, <2>2, SyncedValue DEF TypeOK
  <2> QED BY <2>1, <2>2, <2>3 DEF WholeInv, HeldTablesAreMarked
<1>3. /\ \A s \in SeatsPaidFor(r)' : seatStatus'[s] = "held" /\ seatHolder'[s] = r
      /\ tableItems'[r] = {}
  BY <1>1 DEF HoldSeats, SeatsPaidFor, StockInv, ItemsAreSound, TypeOK
<1>4. HeldTablesAreMarked' /\ ActiveHoldsAreWhole'
  BY <1>2, <1>3 DEF HeldTablesAreMarked, ActiveHoldsAreWhole
<1>5. OneTicketPerSeat'
  BY DEF HoldSeats, WholeInv, OneTicketPerSeat, Orders
<1> QED BY <1>4, <1>5 DEF WholeInv

LEMMA HoldTableWhole ==
    ASSUME WholeInv, StockInv', NEW r \in Reservations, NEW t \in Tables, HoldTable(r, t)
    PROVE  WholeInv'
<1> USE StockAssumption
<1> DEFINE S == RowsAt(t, seatStatus)
<1>1. TypeOK /\ StockInv /\ Available(S) /\ resState[r] = "none"
  BY DEF WholeInv, StockInv, HoldTable
<1>2. S \in SUBSET Seats
  BY DEF RowsAt
<1>3. ASSUME NEW q \in Reservations, q # r, resState'[q] = "active"
      PROVE  /\ \A s \in SeatsPaidFor(q)' : seatStatus'[s] = "held" /\ seatHolder'[s] = q
             /\ \A u \in tableItems'[q] : tableStatus'[u] = "held"
  <2>1. /\ resState[q] = "active" /\ seatItems'[q] = seatItems[q] /\ tableItems'[q] = tableItems[q]
        /\ \A s \in S : seatStatus[s] = "available" /\ seatStatus'[s] = "held"
        /\ \A s \in Seats \ S : seatStatus'[s] = seatStatus[s] /\ seatHolder'[s] = seatHolder[s]
        /\ \A u \in Tables : tableStatus[u] = "held" => tableStatus'[u] = "held"
    BY <1>1, <1>2, <1>3 DEF HoldTable, Available, TypeOK
  <2> HIDE DEF S
  <2>2. \A s \in SeatsPaidFor(q)' : seatStatus'[s] = "held" /\ seatHolder'[s] = q
    BY <1>2, <2>1, OthersStayWhole
  <2> QED BY <1>1, <2>1, <2>2 DEF WholeInv, HeldTablesAreMarked, TypeOK
<1>4. /\ \A s \in SeatsPaidFor(r)' : seatStatus'[s] = "held" /\ seatHolder'[s] = r
      /\ \A u \in tableItems'[r] : tableStatus'[u] = "held"
  BY <1>1 DEF HoldTable, RowsAt, SeatsPaidFor, StockInv, ItemsAreSound, TypeOK
<1>5. HeldTablesAreMarked' /\ ActiveHoldsAreWhole'
  BY <1>3, <1>4 DEF HeldTablesAreMarked, ActiveHoldsAreWhole
<1>6. OneTicketPerSeat'
  BY DEF HoldTable, WholeInv, OneTicketPerSeat, Orders
<1> QED BY <1>5, <1>6 DEF WholeInv

\* The holds R end: no other active hold loses a seat or a table mark.
LEMMA GiveBackWhole ==
    ASSUME WholeInv, StockInv', NEW R \in SUBSET Reservations, GiveBack(R),
           \A r \in R : resState'[r] # "active",
           \A q \in Reservations \ R : resState'[q] = resState[q],
           UNCHANGED ticketsOf
    PROVE  WholeInv'
<1> USE StockAssumption
<1>1. TypeOK /\ StockInv
  BY DEF WholeInv, StockInv
<1>2. FreedBy(R) \in SUBSET Seats
  BY DEF FreedBy
<1>3. ASSUME NEW q \in Reservations, resState'[q] = "active"
      PROVE  /\ \A s \in SeatsPaidFor(q)' : seatStatus'[s] = "held" /\ seatHolder'[s] = q
             /\ \A t \in tableItems'[q] : tableStatus'[t] = "held"
  <2>1. /\ resState[q] = "active" /\ seatItems'[q] = seatItems[q] /\ tableItems'[q] = tableItems[q]
        /\ tableStatus' = Synced(tableStatus, seatStatus', FreedBy(R))
    BY <1>3 DEF GiveBack, ItemsLeft
  <2>2. \A s \in FreedBy(R) : seatStatus[s] = "held" /\ seatHolder[s] # q
    BY <1>1, <1>3 DEF FreedBy, StockInv, HeldSeatsAreBacked
  <2>3. /\ \A s \in FreedBy(R) : seatStatus'[s] = "available"
        /\ \A s \in Seats \ FreedBy(R) : seatStatus'[s] = seatStatus[s] /\ seatHolder'[s] = seatHolder[s]
    BY <1>2 DEF GiveBack
  <2>4. /\ \A s \in SeatsPaidFor(q)' : seatStatus'[s] = "held" /\ seatHolder'[s] = q
        /\ \A t \in tableItems[q] : ~ \E s \in FreedBy(R) : TableOf[s] = t
    BY <1>2, <2>1, <2>2, <2>3, OthersStayWhole
  <2>5. \A t \in tableItems[q] : tableStatus'[t] = tableStatus[t]
    BY <1>1, <2>1, <2>4, SyncedValue DEF TypeOK
  <2> QED BY <2>1, <2>4, <2>5 DEF WholeInv, HeldTablesAreMarked
<1>4. HeldTablesAreMarked' /\ ActiveHoldsAreWhole'
  BY <1>3 DEF HeldTablesAreMarked, ActiveHoldsAreWhole
<1>5. OneTicketPerSeat'
  BY DEF WholeInv, OneTicketPerSeat, Orders
<1> QED BY <1>4, <1>5 DEF WholeInv

LEMMA FulfillWhole ==
    ASSUME WholeInv, StockInv', NEW r \in Reservations, FulfillCheckout(r)
    PROVE  WholeInv'
<1> USE StockAssumption
<1> DEFINE S == SeatsPaidFor(r)
           marked == [t \in Tables |-> IF t \in tableItems[r] THEN "sold" ELSE tableStatus[t]]
<1>1. TypeOK /\ StockInv /\ resState[r] = "active" /\ S \in SUBSET Seats
  BY SeatsPaidForType DEF WholeInv, StockInv, FulfillCheckout
<1>2. \A s \in S : seatStatus[s] = "held" /\ seatHolder[s] = r
  BY <1>1 DEF WholeInv, ActiveHoldsAreWhole
<1>3. ASSUME NEW q \in Reservations, resState'[q] = "active"
      PROVE  /\ \A s \in SeatsPaidFor(q)' : seatStatus'[s] = "held" /\ seatHolder'[s] = q
             /\ \A t \in tableItems'[q] : tableStatus'[t] = "held"
  <2>1. /\ q # r /\ resState[q] = "active"
        /\ seatItems'[q] = seatItems[q] /\ tableItems'[q] = tableItems[q]
        /\ tableStatus' = Synced(marked, seatStatus', S)
    BY <1>1, <1>3 DEF FulfillCheckout, itemVars, TypeOK
  <2>2. /\ \A s \in S : seatStatus'[s] = "sold"
        /\ \A s \in Seats \ S : seatStatus'[s] = seatStatus[s] /\ seatHolder'[s] = seatHolder[s]
    BY <1>1 DEF FulfillCheckout
  <2>3. /\ \A s \in SeatsPaidFor(q)' : seatStatus'[s] = "held" /\ seatHolder'[s] = q
        /\ \A t \in tableItems[q] : ~ \E s \in S : TableOf[s] = t
    <3> HIDE DEF S
    <3> QED BY <1>1, <1>2, <2>1, <2>2, OthersStayWhole
  <2>4. \A t \in tableItems[q] : t \notin tableItems[r]
    <3>1. SUFFICES ASSUME NEW t \in tableItems[q], t \in tableItems[r] PROVE FALSE
      OBVIOUS
    <3>2. t \in Tables /\ tableStatus[t] # "absent"
      BY <1>1 DEF StockInv, ItemsAreSound, TypeOK
    <3>3. PICK s \in Seats : s \in RowsAt(t, seatStatus)
      BY <1>1, <3>2 DEF StockInv, TableStatusAgrees, RowsAt
    <3> QED BY <2>3, <3>1, <3>3 DEF SeatsPaidFor, RowsAt
  <2>5. \A t \in tableItems[q] : t \in Tables /\ marked[t] = tableStatus[t]
    BY <1>1, <2>4 DEF TypeOK
  <2>6. \A t \in tableItems[q] : tableStatus'[t] = tableStatus[t]
    <3> HIDE DEF S, marked
    <3> QED BY <2>1, <2>3, <2>5, SyncedValue
  <2> QED BY <2>1, <2>3, <2>6 DEF WholeInv, HeldTablesAreMarked
<1>4. HeldTablesAreMarked' /\ ActiveHoldsAreWhole'
  BY <1>3 DEF HeldTablesAreMarked, ActiveHoldsAreWhole
<1>5. OneTicketPerSeat'
  <2>1. \A o \in Orders : ticketsOf[o] \cap S = {}
    BY <1>1, <1>2 DEF StockInv, TicketsAreBacked
  <2>2. ticketsOf' = [ticketsOf EXCEPT ![r] = S]
    BY DEF FulfillCheckout
  <2> HIDE DEF S
  <2> QED BY <1>1, <2>1, <2>2 DEF WholeInv, OneTicketPerSeat, TypeOK, Orders
<1> QED BY <1>4, <1>5 DEF WholeInv

LEMMA ManualSaleWhole ==
    ASSUME WholeInv, StockInv', NEW o \in DoorSales, NEW S \in SUBSET Seats, RecordManualSale(o, S)
    PROVE  WholeInv'
<1> USE StockAssumption
<1>1. TypeOK /\ StockInv /\ Available(S)
  BY DEF WholeInv, StockInv, RecordManualSale
<1>2. ASSUME NEW q \in Reservations, resState'[q] = "active"
      PROVE  /\ \A s \in SeatsPaidFor(q)' : seatStatus'[s] = "held" /\ seatHolder'[s] = q
             /\ \A t \in tableItems'[q] : tableStatus'[t] = "held"
  <2>1. /\ resState[q] = "active" /\ seatItems'[q] = seatItems[q] /\ tableItems'[q] = tableItems[q]
        /\ tableStatus' = Synced(tableStatus, seatStatus', S)
        /\ \A s \in S : seatStatus[s] = "available" /\ seatStatus'[s] = "sold"
        /\ \A s \in Seats \ S : seatStatus'[s] = seatStatus[s] /\ seatHolder'[s] = seatHolder[s]
    BY <1>1, <1>2 DEF RecordManualSale, Available, resVars
  <2>2. /\ \A s \in SeatsPaidFor(q)' : seatStatus'[s] = "held" /\ seatHolder'[s] = q
        /\ \A t \in tableItems[q] : ~ \E s \in S : TableOf[s] = t
    BY <2>1, OthersStayWhole
  <2>3. \A t \in tableItems[q] : tableStatus'[t] = tableStatus[t]
    BY <1>1, <2>1, <2>2, SyncedValue DEF TypeOK
  <2> QED BY <2>1, <2>2, <2>3 DEF WholeInv, HeldTablesAreMarked
<1>3. HeldTablesAreMarked' /\ ActiveHoldsAreWhole'
  BY <1>2 DEF HeldTablesAreMarked, ActiveHoldsAreWhole
<1>4. OneTicketPerSeat'
  <2>1. \A p \in Orders : ticketsOf[p] \cap S = {}
    BY <1>1 DEF StockInv, TicketsAreBacked, Available
  <2> QED BY <1>1, <2>1 DEF RecordManualSale, WholeInv, OneTicketPerSeat, TypeOK, Orders
<1> QED BY <1>3, <1>4 DEF WholeInv

\* The one action that needs the assumption: the seats it adds are not at a held
\* table, and a held table neither goes nor shrinks.
LEMMA SaveVenueMapWhole ==
    ASSUME ~ GrowHeldTables, WholeInv, StockInv',
           NEW tables \in SUBSET Tables, NEW rows \in SUBSET Seats, SaveVenueMap(tables, rows)
    PROVE  WholeInv'
<1> USE StockAssumption
<1> DEFINE gone    == {t \in Tables : tableStatus[t] # "absent"} \ tables
           added   == {s \in rows : seatStatus[s] = "absent"}
           removed == {s \in Seats \ rows : seatStatus[s] # "absent"}
           kept    == [t \in Tables |-> IF t \in gone THEN "absent"
                                        ELSE IF t \in tables /\ tableStatus[t] = "absent"
                                             THEN "available" ELSE tableStatus[t]]
<1>1. TypeOK /\ StockInv
  BY DEF WholeInv, StockInv
<1>2. /\ tableStatus' = Synced(kept, seatStatus', added \cup removed)
      /\ seatItems' = [r \in Reservations |-> seatItems[r] \ removed]
      /\ tableItems' = [r \in Reservations |-> tableItems[r] \ gone]
      /\ ticketsOf' = [o \in Orders |-> ticketsOf[o] \ removed]
      /\ UNCHANGED <<eventStatus, resState, lapsed>>
  BY DEF SaveVenueMap
<1>3. /\ \A s \in added : tableStatus[TableOf[s]] # "held"
      /\ \A s \in removed : TableOf[s] \in tables => seatStatus[s] = "available"
      /\ \A t \in gone : tableStatus[t] = "available"
  BY DEF SaveVenueMap
<1>4. \A s \in Seats \ (added \cup removed) :
         seatStatus'[s] = seatStatus[s] /\ seatHolder'[s] = seatHolder[s]
  BY DEF SaveVenueMap
<1>5. \A s \in removed : seatStatus'[s] = "absent"
  BY DEF SaveVenueMap
<1>6. ASSUME NEW q \in Reservations, resState'[q] = "active"
      PROVE  /\ \A s \in SeatsPaidFor(q)' : seatStatus'[s] = "held" /\ seatHolder'[s] = q
             /\ \A t \in tableItems'[q] : tableStatus'[t] = "held"
  <2>1. /\ resState[q] = "active"
        /\ \A s \in SeatsPaidFor(q) : seatStatus[s] = "held" /\ seatHolder[s] = q
        /\ \A t \in tableItems[q] : t \in Tables /\ tableStatus[t] = "held"
    BY <1>1, <1>2, <1>6 DEF WholeInv, ActiveHoldsAreWhole, HeldTablesAreMarked, TypeOK
  <2>2. \A t \in tableItems[q] : t \notin gone /\ t \in tables /\ kept[t] = "held"
    BY <1>3, <2>1
  <2>3. ASSUME NEW t \in tableItems[q], NEW s \in Seats, TableOf[s] = t
        PROVE  s \notin added \cup removed
    <3>1. s \notin added
      BY <1>3, <2>1, <2>3
    <3>2. s \in removed => s \in SeatsPaidFor(q) /\ seatStatus[s] = "available"
      BY <1>3, <2>2, <2>3 DEF SeatsPaidFor
    <3> QED BY <2>1, <3>1, <3>2
  <2>4. /\ \A s \in added : seatStatus[s] = "absent"
        /\ added \cup removed \subseteq Seats
    OBVIOUS
  <2> HIDE DEF added, removed, gone, kept
  <2>5. \A t \in tableItems[q] : tableStatus'[t] = "held"
    BY <1>2, <2>1, <2>2, <2>3, <2>4, SyncedValue
  <2>6. seatItems'[q] \subseteq seatItems[q] \ removed /\ tableItems'[q] \subseteq tableItems[q]
    BY <1>2
  <2>7. ASSUME NEW s \in SeatsPaidFor(q)'
        PROVE  s \in SeatsPaidFor(q) /\ s \in Seats \ (added \cup removed)
    <3>1. CASE s \in seatItems'[q]
      <4>1. s \in Seats /\ s \in SeatsPaidFor(q) /\ s \notin removed
        BY <1>1, <2>6, <3>1 DEF SeatsPaidFor, TypeOK
      <4> QED BY <2>1, <2>4, <4>1
    <3>2. CASE s \in Seats /\ TableOf[s] \in tableItems'[q] /\ seatStatus'[s] # "absent"
      <4>1. TableOf[s] \in tableItems[q]
        BY <2>6, <3>2
      <4>2. s \notin added \cup removed
        BY <2>3, <3>2, <4>1
      <4>3. seatStatus[s] # "absent"
        BY <1>4, <3>2, <4>2
      <4> QED BY <3>2, <4>1, <4>2, <4>3 DEF SeatsPaidFor
    <3> QED BY <2>7, <3>1, <3>2 DEF SeatsPaidFor
  <2>8. \A t \in tableItems'[q] : tableStatus'[t] = "held"
    BY <2>5, <2>6
  <2> QED BY <1>4, <2>1, <2>7, <2>8
<1>7. HeldTablesAreMarked' /\ ActiveHoldsAreWhole'
  BY <1>6 DEF HeldTablesAreMarked, ActiveHoldsAreWhole
<1>8. OneTicketPerSeat'
  <2> HIDE DEF removed
  <2> QED BY <1>2 DEF WholeInv, OneTicketPerSeat
<1> QED BY <1>7, <1>8 DEF WholeInv

LEMMA WholeFrame ==
    ASSUME WholeInv, StockInv', UNCHANGED <<stockVars, seatItems, tableItems, ticketsOf, resState>>
    PROVE  WholeInv'
BY DEF WholeInv, stockVars, HeldTablesAreMarked, ActiveHoldsAreWhole, SeatsPaidFor, OneTicketPerSeat

LEMMA NextWhole == ~ GrowHeldTables /\ WholeInv /\ [Next]_vars => WholeInv'
<1> SUFFICES ASSUME ~ GrowHeldTables, WholeInv, [Next]_vars PROVE WholeInv'
  OBVIOUS
<1> USE StockAssumption
<1>0. StockInv /\ TypeOK /\ StockInv'
  BY NextStock DEF WholeInv, StockInv
<1>1. ASSUME NEW r \in Reservations, ReleaseReservation(r) PROVE WholeInv'
  <2>1. /\ GiveBack({r}) /\ UNCHANGED ticketsOf /\ resState'[r] # "active"
        /\ \A q \in Reservations \ {r} : resState'[q] = resState[q]
    BY <1>0, <1>1 DEF ReleaseReservation, TypeOK
  <2> QED BY <1>0, <2>1, GiveBackWhole
<1>2. ASSUME NEW r \in Reservations, Lapse(r) PROVE WholeInv'
  BY <1>0, <1>2, WholeFrame DEF Lapse, itemVars
<1>3. CASE ExpireStaleReservations
  <2>1. /\ Stale \in SUBSET Reservations /\ GiveBack(Stale) /\ UNCHANGED ticketsOf
        /\ \A r \in Stale : resState'[r] # "active"
        /\ \A q \in Reservations \ Stale : resState'[q] = resState[q]
    BY <1>0, <1>3 DEF ExpireStaleReservations, Stale, TypeOK
  <2> QED BY <1>0, <2>1, GiveBackWhole
<1>4. CASE StopOrResume
  BY <1>0, <1>4, WholeFrame DEF StopOrResume, SetEventStatus, resVars
<1>5. CASE UNCHANGED vars
  BY <1>0, <1>5, WholeFrame DEF vars, resVars
<1> QED BY <1>0, <1>1, <1>2, <1>3, <1>4, <1>5, HoldSeatsWhole, HoldTableWhole, FulfillWhole,
           ManualSaleWhole, SaveVenueMapWhole DEF Next

\* While no table grows under a hold, every active hold is whole and every sold
\* seat has one ticket.
THEOREM WholeInvariant == ~ GrowHeldTables => (Spec => []WholeInv)
<1> SUFFICES ASSUME ~ GrowHeldTables PROVE Spec => []WholeInv
  OBVIOUS
<1>1. WholeInv /\ [Next]_vars => WholeInv'
  BY NextWhole
<1> QED BY <1>1, InitWhole, PTL DEF Spec

\* No two orders ever hold a ticket for one chair.
THEOREM NoSeatSoldTwice == ~ GrowHeldTables => (Spec => []OneTicketPerSeat)
<1> SUFFICES ASSUME ~ GrowHeldTables PROVE Spec => []OneTicketPerSeat
  OBVIOUS
<1>1. WholeInv => OneTicketPerSeat
  BY DEF WholeInv
<1>2. Spec => []WholeInv
  BY WholeInvariant
<1> QED BY <1>1, <1>2, PTL

\* What an active hold is about to be charged for is all still in its hands.
THEOREM HoldsStayWhole == ~ GrowHeldTables => (Spec => []ActiveHoldsAreWhole)
<1> SUFFICES ASSUME ~ GrowHeldTables PROVE Spec => []ActiveHoldsAreWhole
  OBVIOUS
<1>1. WholeInv => ActiveHoldsAreWhole
  BY DEF WholeInv
<1>2. Spec => []WholeInv
  BY WholeInvariant
<1> QED BY <1>1, <1>2, PTL

\* A payment issues tickets for exactly the seats its hold has in its hands.
THEOREM PaymentIsExact == ~ GrowHeldTables => (Spec => PaymentIssuesWhatWasHeld)
<1> SUFFICES ASSUME ~ GrowHeldTables PROVE Spec => PaymentIssuesWhatWasHeld
  OBVIOUS
<1>1. ASSUME WholeInv, [Next]_vars, NEW r \in Reservations,
             resState'[r] = "converted", resState[r] # "converted"
      PROVE  ticketsOf'[r] = {s \in Seats : seatHolder[s] = r}
  <2>1. TypeOK /\ StockInv
    BY <1>1 DEF WholeInv, StockInv
  <2>2. FulfillCheckout(r)
    BY <1>1, <2>1
    DEF Next, vars, resVars, TypeOK, HoldSeats, HoldTable, ReleaseReservation, Lapse, Stale,
        ExpireStaleReservations, FulfillCheckout, RecordManualSale, SaveVenueMap,
        StopOrResume, SetEventStatus
  <2>3. ticketsOf'[r] = SeatsPaidFor(r) /\ resState[r] = "active"
    BY <2>1, <2>2 DEF FulfillCheckout, TypeOK, Orders
  <2>4. SeatsPaidFor(r) = {s \in Seats : seatHolder[s] = r}
    <3>1. \A s \in SeatsPaidFor(r) : s \in Seats /\ seatHolder[s] = r
      BY <1>1, <2>1, <2>3, SeatsPaidForType DEF WholeInv, ActiveHoldsAreWhole
    <3>2. \A s \in Seats : seatHolder[s] = r => s \in SeatsPaidFor(r)
      BY <2>1, StockAssumption DEF StockInv, HeldSeatsAreBacked, SeatsPaidFor
    <3> QED BY <3>1, <3>2
  <2> QED BY <2>3, <2>4
<1>2. WholeInv /\ [Next]_vars
        => [\A r \in Reservations :
              resState'[r] = "converted" /\ resState[r] # "converted"
                => ticketsOf'[r] = {s \in Seats : seatHolder[s] = r}]_vars
  BY <1>1
<1>3. Spec => []WholeInv
  BY WholeInvariant
<1> QED BY <1>2, <1>3, PTL DEF Spec, PaymentIssuesWhatWasHeld

-----------------------------------------------------------------------------
(* Whose a sold seat is *)

\* A seat is only sold together with the ticket that names it, and tickets keep
\* their seats.
LEMMA SoldStep ==
    StockInv /\ StockInv' /\ SoldSeatsHaveTickets /\ [Next]_vars => SoldSeatsHaveTickets'
<1> SUFFICES ASSUME StockInv, StockInv', SoldSeatsHaveTickets, [Next]_vars
             PROVE  SoldSeatsHaveTickets'
  OBVIOUS
<1> USE StockAssumption
<1>1. TypeOK
  BY DEF StockInv
<1>2. ASSUME NEW s \in Seats, seatStatus'[s] = "sold", seatStatus[s] # "sold"
      PROVE  \E o \in Orders : s \in ticketsOf'[o]
  <2>1. ASSUME NEW r \in Reservations, FulfillCheckout(r)
        PROVE  \E o \in Orders : s \in ticketsOf'[o]
    BY <1>1, <1>2, <2>1 DEF FulfillCheckout, TypeOK, Orders
  <2>2. ASSUME NEW o \in DoorSales, NEW S \in SUBSET Seats, RecordManualSale(o, S)
        PROVE  \E p \in Orders : s \in ticketsOf'[p]
    BY <1>1, <1>2, <2>2 DEF RecordManualSale, TypeOK, Orders
  <2>3. ASSUME NEW r \in Reservations, NEW S \in SUBSET Seats, NEW t \in Tables,
               HoldSeats(r, S) \/ HoldTable(r, t)
        PROVE  FALSE
    BY <1>2, <2>3 DEF HoldSeats, HoldTable
  <2>4. ASSUME NEW R, GiveBack(R) PROVE FALSE
    BY <1>2, <2>4 DEF GiveBack
  <2>5. ASSUME NEW tables \in SUBSET Tables, NEW rows \in SUBSET Seats, SaveVenueMap(tables, rows)
        PROVE  FALSE
    BY <1>2, <2>5 DEF SaveVenueMap
  <2>6. seatStatus' # seatStatus
    BY <1>2
  <2> QED BY <2>1, <2>2, <2>3, <2>4, <2>5, <2>6
    DEF Next, vars, stockVars, ReleaseReservation, Lapse, ExpireStaleReservations,
        StopOrResume, SetEventStatus
<1>3. ASSUME NEW s \in Seats, seatStatus[s] = "sold" PROVE \E o \in Orders : s \in ticketsOf'[o]
  <2>1. \A o \in Orders : ticketsOf[o] \subseteq ticketsOf'[o]
    BY PaidStep DEF vars
  <2> QED BY <1>3, <2>1 DEF SoldSeatsHaveTickets
<1> QED BY <1>2, <1>3 DEF SoldSeatsHaveTickets

\* Everything the refinement needs of a state.
PromiseInv == WholeInv /\ SoldSeatsHaveTickets

LEMMA InitPromiseInv == Init => PromiseInv
BY InitWhole DEF Init, PromiseInv, SoldSeatsHaveTickets

LEMMA NextPromiseInv == ~ GrowHeldTables /\ PromiseInv /\ [Next]_vars => PromiseInv'
BY NextWhole, SoldStep DEF PromiseInv, WholeInv

\* The owner of each seat, as the promise sees it.
OwnersAreKnown ==
    \A s \in Seats :
        /\ seatStatus[s] = "held" => PromisedOwner[s] = seatHolder[s]
        /\ \A o \in Orders : s \in ticketsOf[o] => PromisedOwner[s] = o
        /\ seatStatus[s] \in {"absent", "available"} => PromisedOwner[s] = NoHold
        /\ seatStatus[s] = "sold" => PromisedOwner[s] \in Orders /\ s \in ticketsOf[PromisedOwner[s]]

LEMMA Owners == PromiseInv => OwnersAreKnown
<1> SUFFICES ASSUME PromiseInv, NEW s \in Seats
             PROVE  /\ seatStatus[s] = "held" => PromisedOwner[s] = seatHolder[s]
                    /\ \A o \in Orders : s \in ticketsOf[o] => PromisedOwner[s] = o
                    /\ seatStatus[s] \in {"absent", "available"} => PromisedOwner[s] = NoHold
                    /\ seatStatus[s] = "sold"
                         => PromisedOwner[s] \in Orders /\ s \in ticketsOf[PromisedOwner[s]]
  BY DEF OwnersAreKnown
<1>1. PromisedOwner[s] = OwnerOf(s)
  BY DEF PromisedOwner
<1>2. seatStatus[s] = "sold" => PromisedOwner[s] \in Orders /\ s \in ticketsOf[PromisedOwner[s]]
  BY <1>1 DEF OwnerOf, PromiseInv, SoldSeatsHaveTickets
<1>3. \A o \in Orders : s \in ticketsOf[o] => PromisedOwner[s] = o
  BY <1>2 DEF PromiseInv, WholeInv, StockInv, TicketsAreBacked, OneTicketPerSeat
<1> QED BY <1>1, <1>2, <1>3 DEF OwnerOf

LEMMA NextOwners == PromiseInv' => OwnersAreKnown'
BY Owners, PTL

\* How the seats and owners change when the stock gives the seats S a new state.
LEMMA Moved ==
    ASSUME PromiseInv, PromiseInv', NEW S \in SUBSET Seats, NEW to \in {"free", "held", "sold"}, NEW b,
           \A s \in S : seatStatus'[s] = IF to = "free" THEN "available" ELSE to,
           \A s \in S : PromisedOwner'[s] = b,
           \A s \in Seats \ S : seatStatus'[s] = seatStatus[s],
           \A s \in Seats \ S : seatStatus[s] = "held" => seatHolder'[s] = seatHolder[s],
           \A s \in Seats \ S : \A o \in Orders : s \in ticketsOf[o] => s \in ticketsOf'[o]
    PROVE  Promise!Move(S, to, b)
<1>1. \A s \in Seats : PromisedState'[s] = IF s \in S THEN to ELSE PromisedState[s]
  BY DEF PromisedState
<1>2. ASSUME NEW s \in Seats \ S PROVE PromisedOwner'[s] = PromisedOwner[s]
  <2>1. seatStatus[s] \in {"absent", "available", "held", "sold"} /\ seatStatus'[s] = seatStatus[s]
    BY DEF PromiseInv, WholeInv, StockInv, TypeOK
  <2>2. OwnersAreKnown /\ OwnersAreKnown'
    BY Owners, NextOwners
  <2> QED BY <2>1, <2>2 DEF OwnersAreKnown
<1>3. PromisedState' = [s \in Seats |-> IF s \in S THEN to ELSE PromisedState[s]]
  BY <1>1 DEF PromisedState
<1>4. PromisedOwner' = [s \in Seats |-> IF s \in S THEN b ELSE PromisedOwner[s]]
  <2>1. \A s \in Seats : PromisedOwner'[s] = IF s \in S THEN b ELSE PromisedOwner[s]
    BY <1>2
  <2> QED BY <2>1 DEF PromisedOwner
<1> QED BY <1>3, <1>4 DEF Promise!Move

-----------------------------------------------------------------------------
(* Each step of the stock is a step of the promise *)

\* Who has nothing yet: a new reservation, a door sale without tickets.
LEMMA NothingOwned ==
    ASSUME PromiseInv, NEW o \in Orders, ticketsOf[o] = {},
           o \in Reservations => resState[o] = "none"
    PROVE  Promise!Owned(o) = {}
<1> USE StockAssumption
<1>1. ASSUME NEW s \in Seats, PromisedOwner[s] = o PROVE FALSE
  <2>1. seatStatus[s] \in {"absent", "available", "held", "sold"}
    BY DEF PromiseInv, WholeInv, StockInv, TypeOK
  <2>2. OwnersAreKnown
    BY Owners
  <2>3. seatStatus[s] # "held"
    BY <1>1, <2>2 DEF OwnersAreKnown, PromiseInv, WholeInv, StockInv, HeldSeatsAreBacked
  <2> QED BY <1>1, <2>1, <2>2, <2>3 DEF OwnersAreKnown, Orders
<1> QED BY <1>1 DEF Promise!Owned

LEMMA TakeStep ==
    ASSUME PromiseInv, PromiseInv', NEW r \in Reservations, NEW S \in SUBSET Seats,
           S # {}, Available(S), resState[r] = "none", UNCHANGED ticketsOf,
           seatStatus' = [s \in Seats |-> IF s \in S THEN "held" ELSE seatStatus[s]],
           seatHolder' = [s \in Seats |-> IF s \in S THEN r ELSE seatHolder[s]]
    PROVE  Promise!Take(r, S)
<1>1. Promise!Owned(r) = {}
  BY NothingOwned DEF PromiseInv, WholeInv, StockInv, TicketsAreBacked, Orders
<1>2. \A s \in S : PromisedState[s] = "free"
  BY DEF Available, PromisedState
<1>3. \A s \in S : PromisedOwner'[s] = r
  BY NextOwners DEF OwnersAreKnown
<1>4. Promise!Move(S, "held", r)
  BY <1>3, Moved
<1> QED BY <1>1, <1>2, <1>4 DEF Promise!Take

LEMMA BuyStep ==
    ASSUME PromiseInv, PromiseInv', NEW r \in Reservations, FulfillCheckout(r)
    PROVE  Promise!Buy(r)
<1> USE StockAssumption
<1>1. TypeOK /\ SeatsPaidFor(r) \in SUBSET Seats /\ resState[r] = "active" /\ OwnersAreKnown
  BY SeatsPaidForType, Owners DEF PromiseInv, WholeInv, StockInv, FulfillCheckout
<1>2. \A s \in SeatsPaidFor(r) : seatStatus[s] = "held" /\ seatHolder[s] = r
  BY <1>1 DEF PromiseInv, WholeInv, ActiveHoldsAreWhole
<1>3. ASSUME NEW s \in Seats, PromisedOwner[s] = r PROVE s \in SeatsPaidFor(r)
  <2>1. seatStatus[s] \in {"absent", "available", "held", "sold"}
    BY <1>1 DEF TypeOK
  <2>2. seatStatus[s] = "held" /\ seatHolder[s] = r
    BY <1>1, <1>3, <2>1 DEF OwnersAreKnown, PromiseInv, WholeInv, StockInv, TicketsAreBacked
  <2> QED BY <2>2 DEF PromiseInv, WholeInv, StockInv, HeldSeatsAreBacked, SeatsPaidFor
<1>4. Promise!Owned(r) = SeatsPaidFor(r)
  BY <1>1, <1>2, <1>3 DEF OwnersAreKnown, Promise!Owned
<1>5. /\ \A s \in SeatsPaidFor(r) : seatStatus'[s] = "sold" /\ s \in ticketsOf'[r]
      /\ \A s \in Seats \ SeatsPaidFor(r) : seatStatus'[s] = seatStatus[s] /\ seatHolder'[s] = seatHolder[s]
      /\ \A o \in Orders : ticketsOf[o] \subseteq ticketsOf'[o]
  BY <1>1 DEF FulfillCheckout, PromiseInv, WholeInv, StockInv, TicketsAreBacked, TypeOK, Orders
<1>6. \A s \in SeatsPaidFor(r) : PromisedOwner'[s] = r
  BY <1>1, <1>5, NextOwners DEF OwnersAreKnown, Orders
<1>7. Promise!Move(SeatsPaidFor(r), "sold", r)
  BY <1>1, <1>5, <1>6, Moved
<1>8. \A s \in SeatsPaidFor(r) : PromisedState[s] = "held"
  BY <1>1, <1>2 DEF PromisedState
<1> QED BY <1>4, <1>7, <1>8 DEF Promise!Buy

LEMMA GiveBackStep ==
    ASSUME PromiseInv, PromiseInv', NEW R \in SUBSET Reservations, GiveBack(R),
           \A r \in R : resState[r] # "converted", UNCHANGED ticketsOf
    PROVE  Promise!GiveBack(R)
<1> USE StockAssumption
<1>1. OwnersAreKnown /\ TypeOK /\ FreedBy(R) \in SUBSET Seats
  BY Owners DEF PromiseInv, WholeInv, StockInv, FreedBy
<1>2. \A s \in FreedBy(R) : seatStatus[s] = "held"
  BY <1>1 DEF FreedBy, PromiseInv, WholeInv, StockInv, HeldSeatsAreBacked
<1>3. ASSUME NEW s \in Seats, PromisedOwner[s] \in R PROVE s \in FreedBy(R)
  <2>1. seatStatus[s] \in {"absent", "available", "held", "sold"}
    BY <1>1 DEF TypeOK
  <2> QED BY <1>1, <1>3, <2>1
    DEF OwnersAreKnown, FreedBy, PromiseInv, WholeInv, StockInv, TicketsAreBacked
<1>4. {s \in Seats : PromisedOwner[s] \in R} = FreedBy(R)
  BY <1>1, <1>2, <1>3 DEF OwnersAreKnown, FreedBy
<1>5. /\ \A s \in FreedBy(R) : seatStatus'[s] = "available"
      /\ \A s \in Seats \ FreedBy(R) : seatStatus'[s] = seatStatus[s] /\ seatHolder'[s] = seatHolder[s]
  BY <1>1 DEF GiveBack
<1>6. \A s \in FreedBy(R) : PromisedOwner'[s] = NoHold
  BY <1>1, <1>5, NextOwners DEF OwnersAreKnown
<1>7. Promise!Move(FreedBy(R), "free", NoHold)
  BY <1>1, <1>5, <1>6, Moved
<1>8. \A s \in FreedBy(R) : PromisedState[s] = "held"
  BY <1>1, <1>2 DEF PromisedState
<1> QED BY <1>4, <1>7, <1>8 DEF Promise!GiveBack

LEMMA SellAtDoorStep ==
    ASSUME PromiseInv, PromiseInv', NEW o \in DoorSales, NEW S \in SUBSET Seats, RecordManualSale(o, S)
    PROVE  Promise!SellAtDoor(o, S)
<1> USE StockAssumption
<1>1. TypeOK /\ o \in Orders
  BY DEF PromiseInv, WholeInv, StockInv, Orders
<1>2. Promise!Owned(o) = {} /\ S # {} /\ Available(S)
  BY <1>1, NothingOwned DEF RecordManualSale
<1>3. /\ \A s \in S : seatStatus'[s] = "sold" /\ s \in ticketsOf'[o]
      /\ \A s \in Seats \ S : seatStatus'[s] = seatStatus[s] /\ seatHolder'[s] = seatHolder[s]
      /\ \A p \in Orders : ticketsOf[p] \subseteq ticketsOf'[p]
  BY <1>1 DEF RecordManualSale, TypeOK
<1>4. \A s \in S : PromisedOwner'[s] = o
  BY <1>1, <1>3, NextOwners DEF OwnersAreKnown
<1>5. Promise!Move(S, "sold", o)
  BY <1>3, <1>4, Moved
<1>6. \A s \in S : PromisedState[s] = "free"
  BY <1>2 DEF Available, PromisedState
<1> QED BY <1>2, <1>5, <1>6 DEF Promise!SellAtDoor

LEMMA RedrawStep ==
    ASSUME PromiseInv, PromiseInv', NEW tables \in SUBSET Tables, NEW rows \in SUBSET Seats,
           SaveVenueMap(tables, rows)
    PROVE  \E A, D \in SUBSET Seats : Promise!Redraw(A, D)
<1> USE StockAssumption
<1> DEFINE A == {s \in rows : seatStatus[s] = "absent"}
           D == {s \in Seats \ rows : seatStatus[s] # "absent"}
<1>1. A \in SUBSET Seats /\ D \in SUBSET Seats
  OBVIOUS
<1>2. ASSUME NEW s \in D PROVE seatStatus[s] = "available"
  <2>1. CASE TableOf[s] \in tables
    BY <2>1 DEF SaveVenueMap
  <2>2. CASE TableOf[s] \notin tables
    <3>1. tableStatus[TableOf[s]] = "available"
      BY <2>2 DEF SaveVenueMap, PromiseInv, WholeInv, StockInv, TableStatusAgrees, RowsAt
    <3> QED BY <3>1 DEF PromiseInv, WholeInv, StockInv, TableStatusAgrees, RowsAt
  <2> QED BY <2>1, <2>2
<1>3. \A s \in Seats :
         /\ seatStatus'[s] = IF s \in A THEN "available" ELSE IF s \in D THEN "absent" ELSE seatStatus[s]
         /\ s \notin D => seatHolder'[s] = seatHolder[s]
  BY DEF SaveVenueMap
<1>4. \A o \in Orders : ticketsOf'[o] = ticketsOf[o] \ D
  BY DEF SaveVenueMap
<1>5. \A s \in A : seatStatus[s] = "absent"
  OBVIOUS
<1>6. D \subseteq Seats \ A
  OBVIOUS
<1> HIDE DEF A, D
<1>7. /\ \A s \in A : PromisedState[s] = "absent"
      /\ \A s \in D : PromisedState[s] = "free"
  BY <1>1, <1>2, <1>5 DEF PromisedState
<1>8. PromisedState' = [s \in Seats |-> IF s \in A THEN "free" ELSE IF s \in D THEN "absent" ELSE PromisedState[s]]
  BY <1>3 DEF PromisedState
<1>9. ASSUME NEW s \in Seats PROVE PromisedOwner'[s] = PromisedOwner[s]
  <2>1. OwnersAreKnown /\ OwnersAreKnown'
    BY Owners, NextOwners
  <2>2. seatStatus[s] \in {"absent", "available", "held", "sold"}
    BY DEF PromiseInv, WholeInv, StockInv, TypeOK
  <2>3. CASE s \in A \cup D
    BY <1>2, <1>3, <1>5, <1>6, <2>1, <2>3 DEF OwnersAreKnown
  <2>4. CASE s \notin A \cup D
    BY <1>3, <1>4, <2>1, <2>2, <2>4 DEF OwnersAreKnown
  <2> QED BY <2>3, <2>4
<1>10. UNCHANGED PromisedOwner
  BY <1>9 DEF PromisedOwner
<1>11. Promise!Redraw(A, D)
  BY <1>7, <1>8, <1>10 DEF Promise!Redraw
<1> QED BY <1>1, <1>11

LEMMA PromiseStep ==
    ASSUME PromiseInv, PromiseInv', [Next]_vars
    PROVE  [Promise!Next]_(Promise!promiseVars)
<1> USE StockAssumption
<1>1. TypeOK
  BY DEF PromiseInv, WholeInv, StockInv
<1>2. ASSUME NEW r \in Reservations, NEW S \in SUBSET Seats, HoldSeats(r, S) PROVE Promise!Next
  BY <1>2, TakeStep DEF HoldSeats, Promise!Next
<1>3. ASSUME NEW r \in Reservations, NEW t \in Tables, HoldTable(r, t) PROVE Promise!Next
  <2>1. RowsAt(t, seatStatus) \in SUBSET Seats
    BY DEF RowsAt
  <2>2. Promise!Take(r, RowsAt(t, seatStatus))
    BY <1>3, <2>1, TakeStep DEF HoldTable
  <2> QED BY <2>1, <2>2 DEF Promise!Next
<1>4. ASSUME NEW r \in Reservations, ReleaseReservation(r) PROVE Promise!Next
  <2>1. Promise!GiveBack({r})
    BY <1>4, GiveBackStep DEF ReleaseReservation
  <2> QED BY <2>1 DEF Promise!Next
<1>5. CASE ExpireStaleReservations
  <2>1. Stale \in SUBSET Reservations
    BY <1>1 DEF Stale, TypeOK
  <2>2. Promise!GiveBack(Stale)
    BY <1>5, <2>1, GiveBackStep DEF ExpireStaleReservations, Stale
  <2> QED BY <2>1, <2>2 DEF Promise!Next
<1>6. ASSUME NEW r \in Reservations, FulfillCheckout(r) PROVE Promise!Next
  BY <1>6, BuyStep DEF Promise!Next
<1>7. ASSUME NEW o \in DoorSales, NEW S \in SUBSET Seats, RecordManualSale(o, S) PROVE Promise!Next
  BY <1>7, SellAtDoorStep DEF Promise!Next
<1>8. ASSUME NEW tables \in SUBSET Tables, NEW rows \in SUBSET Seats, SaveVenueMap(tables, rows)
      PROVE  Promise!Next
  BY <1>8, RedrawStep DEF Promise!Next
<1>9. ASSUME UNCHANGED <<stockVars, ticketsOf>> PROVE UNCHANGED Promise!promiseVars
  <2>1. UNCHANGED <<seatStatus, seatHolder, ticketsOf>>
    BY <1>9 DEF stockVars
  <2>2. UNCHANGED PromisedState
    BY <2>1 DEF PromisedState
  <2>3. \A s \in Seats : OwnerOf(s)' = OwnerOf(s)
    BY <2>1 DEF OwnerOf
  <2>4. UNCHANGED PromisedOwner
    BY <2>3 DEF PromisedOwner
  <2> QED BY <2>2, <2>4 DEF Promise!promiseVars
<1>10. ASSUME NEW r \in Reservations, Lapse(r) PROVE UNCHANGED <<stockVars, ticketsOf>>
  BY <1>10 DEF Lapse
<1>11. CASE StopOrResume
  BY <1>9, <1>11 DEF StopOrResume, SetEventStatus
<1>12. CASE UNCHANGED vars
  BY <1>9, <1>12 DEF vars
<1> QED BY <1>2, <1>3, <1>4, <1>5, <1>6, <1>7, <1>8, <1>9, <1>10, <1>11, <1>12 DEF Next

LEMMA PromiseInit == Init => Promise!Init
BY DEF Init, Promise!Init, PromisedState, PromisedOwner, OwnerOf

\* Whole-table and single-seat holds, releases, sweeps, payments, door sales and
\* map edits together implement the promise made to a buyer.
THEOREM StockKeepsThePromise == ~ GrowHeldTables => (Spec => KeepsThePromise)
<1> SUFFICES ASSUME ~ GrowHeldTables PROVE Spec => KeepsThePromise
  OBVIOUS
<1>1. PromiseInv /\ [Next]_vars => PromiseInv'
  BY NextPromiseInv
<1>2. PromiseInv /\ PromiseInv' /\ [Next]_vars => [Promise!Next]_(Promise!promiseVars)
  BY PromiseStep
<1> QED BY <1>1, <1>2, InitPromiseInv, PromiseInit, PTL DEF Spec, KeepsThePromise, Promise!Spec
=============================================================================
