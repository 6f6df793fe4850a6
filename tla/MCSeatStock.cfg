SPECIFICATION Spec
CONSTANTS
    s1 = s1
    s2 = s2
    s3 = s3
    s4 = s4
    t1 = t1
    t2 = t2
    r1 = r1
    r2 = r2
    r3 = r3
    d1 = d1
    NoHold = NoHold
    Seats <- MCSeats
    Tables <- MCTables
    TableOf <- MCTableOf
    Reservations <- MCReservations
    DoorSales <- MCDoorSales
    PurchaseMode = "seat_and_table"
    MaxTicketsPerOrder = 2
    GrowHeldTables = FALSE
SYMMETRY Symmetry
CHECK_DEADLOCK FALSE
INVARIANT ActiveHoldsAreWhole
INVARIANT OneTicketPerSeat
PROPERTY PaymentIssuesWhatWasHeld
PROPERTY KeepsThePromise
