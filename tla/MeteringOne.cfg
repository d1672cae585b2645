\* One gateway; prices 0 and 2 (a plan override, the table or, when reading the
\* table fails, the default), limits that renewals change.
SPECIFICATION FairSpec
CONSTANTS
    g1 = g1  g2 = g2
    r1 = r1  r2 = r2  r3 = r3
    Gateway = {g1}
    Request = {r1, r2}
    GatewayOf <- OneGateway
    Quotes = {0, 2}
    Limits = {1, 2}
    CycleLength = 1
    MaxTime = 1
    MaxSubs = 1
    MaxCycles = 4
    AdminCycles = 2
INVARIANTS OneOpenCycle
PROPERTIES ChargeWithinLimit RequestsFinish
CHECK_DEADLOCK FALSE
