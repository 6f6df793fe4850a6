SPECIFICATION BuyerSpec
CONSTANTS
    c1 = c1
    c2 = c2
    w1 = w1
    w2 = w2
    ann = ann
    ben = ben
    Sessions <- TwoSessions
    Calls <- TwoCalls
    Workers <- TwoWorkers
    Buyers <- OneBuyer
    Contact <- OwnContact
    Prices <- TwoPrices
    MaxExtends = 1
    MaxFaults = 1
    CallKinds <- AnyCall
CHECK_DEADLOCK FALSE
INVARIANT OneTabIsFulfilled
INVARIANT OneTabIsRecognised
INVARIANT OneTabIsAnswered
PROPERTY EachHoldIsOnePurchase
SYMMETRY CallsAlike
