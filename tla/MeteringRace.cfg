\* Two gateways find no cycle at the same moment.
SPECIFICATION Spec
CONSTANTS
    g1 = g1  g2 = g2
    r1 = r1  r2 = r2  r3 = r3
    Gateway = {g1, g2}
    Request = {r1, r2}
    GatewayOf <- TwoRequests
    Quotes = {1}
    Limits = {1}
    CycleLength = 1
    MaxTime = 1
    MaxSubs = 1
    MaxCycles = 2
    AdminCycles = 2
INVARIANTS WithinMonthlyLimit
CHECK_DEADLOCK FALSE
