----------------------------- MODULE MCPayments -----------------------------
(* Instances of Payments for TLC.                                          *)
EXTENDS Payments, TLC

CONSTANTS p1, p2, h1, h2

\* All the requests reach one gateway, or each a gateway of its own.
OneGateway == [h \in Handler |-> 1]
TwoGateways == h1 :> 1 @@ h2 :> 2

Of(p, kind) == [payment |-> p, kind |-> kind]

\* What Razorpay may say of one payment ("paid" is treated as "captured").
EveryReport == {Of(p1, "captured"), Of(p1, "mismatch"), Of(p1, "failed")}

\* One event, to be replayed.
OneEvent == {Of(p1, "captured")}

\* Handlers are alike when they share a gateway, and when each has its own.
Alike == Permutations(Handler)
=============================================================================
