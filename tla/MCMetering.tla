----------------------------- MODULE MCMetering -----------------------------
(* Instances of Metering for TLC.                                          *)
EXTENDS Metering, TLC

CONSTANTS g1, g2, r1, r2, r3

\* r1 and r3 share a gateway: their handlers interleave only at awaits.
TwoGateways == r1 :> g1 @@ r2 :> g2 @@ r3 :> g1
Twins == Permutations({r1, r3})
TwoRequests == r1 :> g1 @@ r2 :> g2
OneGateway == [r \in Request |-> g1]
=============================================================================
