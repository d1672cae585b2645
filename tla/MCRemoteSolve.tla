---------------------------- MODULE MCRemoteSolve ----------------------------
(* Instances of RemoteSolve for TLC.                                       *)
EXTENDS RemoteSolve

CONSTANTS r1, r2, w1, w2, k1

\* The two calls ask for the same captcha.
SameCaptcha == [r \in Request |-> k1]
=============================================================================
