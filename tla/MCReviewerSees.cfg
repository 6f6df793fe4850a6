SPECIFICATION EventAlone
CONSTANTS
    p1 = p1
    p2 = p2
    p3 = p3
    Pays <- MCPays
    MinSession = 1
    Margin = 2
    HoldAtCheckout = 4
    Ttl = 3
    MaxLife = 7
    Skew = 2
    MaxTime = 6
    tier = tier
    o1 = o1
    o2 = o2
    o3 = o3
    NoTier = NoTier
    Tiers <- OneTier
    Orders <- ThreeOrders
    MaxLine = 2
    MaxQuantity = 3
    Subtotals <- MCSubtotals
    Discounts <- MCDiscounts
    TaxPcts <- Gst
    CommissionPcts <- Cut
    CommissionTaxPcts <- Gst
    FeePcts <- Cut
    FeeFixed <- Cut
    StripePct = 290
    StripeFixed = 30
    s1 = s1
    s2 = s2
    r1 = r1
    r2 = r2
    Sales <- MCSales
    Fee <- MCFee
    Raises <- MCRaises
    MaxDays = 2
    c1 = c1
    c2 = c2
    q1 = q1
    q2 = q2
    Calls <- MCCalls
    Requests <- MCRequests
    ann = ann
    ben = ben
    d1 = d1
    d2 = d2
    d3 = d3
    Organizers <- MCOrganizers
    Drafts <- MCDrafts
    Limit = 1
    GlobalCap = 2
    Window = 2
    Stale = 1
    MaxHours = 4
CHECK_DEADLOCK FALSE
PROPERTY ReviewerSeesWhatIsApproved
