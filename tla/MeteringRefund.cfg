\* A statement fails around a charge that is already committed.
SPECIFICATION Spec
CONSTANTS
    g1 = g1  g2 = g2
    r1 = r1  r2 = r2  r3 = r3
    Gateway = {g1}
    Request = {r1, r2}
    GatewayOf <- OneGateway
    Quotes = {1}
    Limits = {1}
    CycleLength = 1
    MaxTime = 1
    MaxSubs = 1
    MaxCycles = 2
    AdminCycles = 2
INVARIANTS FailureIsRefunded
CHECK_DEADLOCK FALSE
