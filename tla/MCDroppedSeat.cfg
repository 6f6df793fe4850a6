SPECIFICATION StockAlone
CONSTANTS
    s1 = s1
    s2 = s2
    s3 = s3
    x1 = x1
    x2 = x2
    x3 = x3
    x4 = x4
    h1 = h1
    h2 = h2
    code = code
    freeCode = freeCode
    Holds <- TwoHolds
    Codes <- MCCodes
    FreeCodes <- MCFreeCodes
    NoCode = NoCode
    MaxUses = 1
    Nobody = Nobody
    Tables <- OneTable
    Seats <- OneTableSeats
    TableOf <- OneTableOf
    Txns <- Four
    Kinds <- AllKinds
SYMMETRY SymmetryOfFour
CHECK_DEADLOCK FALSE
PROPERTY BookedSeatsAreNeverDropped
