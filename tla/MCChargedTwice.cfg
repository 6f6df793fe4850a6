SPECIFICATION BuyerSpec
CONSTANTS
    c1 = c1
    c2 = c2
    w1 = w1
    w2 = w2
    ann = ann
    ben = ben
    Sessions <- TwoSessions
    Calls <- TwoCalls
    Workers <- OneWorker
    Buyers <- TwoBuyers
    Contact <- OwnContact
    Prices <- OnePrice
    MaxExtends = 0
    MaxFaults = 0
    CallKinds <- PayOnly
CHECK_DEADLOCK FALSE
INVARIANT FiledMeansFulfilled
