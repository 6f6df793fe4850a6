SPECIFICATION SaleSpec
CONSTANTS
    p1 = p1
    k1 = k1
    w1 = w1
    w2 = w2
    Payments <- OnePayment
    Tickets <- OneTicket
    SeatsOf <- TheTicket
    Total = 2
    Fee = 1
    Workers <- TwoWorkers
    MaxEvents = 4
    MaxFaults = 1
CHECK_DEADLOCK FALSE
INVARIANT RefundsAddUp
INVARIANT AnsweredMeansRecorded
INVARIANT SettledBooksAgree
INVARIANT RefundedTicketsAreVoid
PROPERTY RefundsAreRecorded
