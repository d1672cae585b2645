\* One payment and every kind of event, on two gateways.
SPECIFICATION Spec
CONSTANTS
    p1 = p1  p2 = p2  h1 = h1  h2 = h2
    Payment = {p1}
    PromoPayment = {}
    Event <- EveryReport
    Handler = {h1, h2}
    GatewayOf <- TwoGateways
    RedisAnswers = {TRUE, FALSE}
    Cancels = FALSE
    Direct = TRUE
    MaxSubs = 2
SYMMETRY Alike
INVARIANTS ProcessedWasApplied NothingUnpaid
CHECK_DEADLOCK FALSE
