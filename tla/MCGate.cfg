SPECIFICATION FairSpec
CONSTANTS
    a = a
    b = b
    t1 = t1
    Devices <- MCDevices
    Tickets <- MCTickets
    Scans <- MCScans
    Requests <- MCRequests
    BatchSize = 2
    MaxFaults = 1
CHECK_DEADLOCK FALSE
INVARIANT AdmissionsAddUp
INVARIANT ShownIsRecorded
PROPERTY EveryScanIsDecided
