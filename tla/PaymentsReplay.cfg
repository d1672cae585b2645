\* One event replayed to two gateways, without Redis.
SPECIFICATION Spec
CONSTANTS
    p1 = p1  p2 = p2  h1 = h1  h2 = h2
    Payment = {p1}
    PromoPayment = {}
    Event <- OneEvent
    Handler = {h1, h2}
    GatewayOf <- TwoGateways
    RedisAnswers = {FALSE}
    Cancels = FALSE
    Direct = FALSE
    MaxSubs = 2
INVARIANTS ReplayMakesNoDuplicate
CHECK_DEADLOCK FALSE
