\* Two payments, one of them for the promo plan, and everything that may activate
\* them, on one gateway.
SPECIFICATION Spec
CONSTANTS
    p1 = p1  p2 = p2  h1 = h1  h2 = h2
    Payment = {p1, p2}
    PromoPayment = {p2}
    Event <- OneEvent
    Handler = {h1, h2}
    GatewayOf <- OneGateway
    RedisAnswers = {FALSE}
    Cancels = TRUE
    Direct = TRUE
    MaxSubs = 2
SYMMETRY Alike
INVARIANTS TypeOK OneActive SettledIsLeftAlone PromoOnce
CHECK_DEADLOCK FALSE
