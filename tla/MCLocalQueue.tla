---------------------------- MODULE MCLocalQueue -----------------------------
(* Instances of LocalQueue for TLC.                                        *)
EXTENDS LocalQueue, TLC

CONSTANTS r1, r2, r3, w1, w2, k1, k2

\* Two calls for one captcha, the third for another.
Captchas == [r \in Request |-> IF r \in {r1, r2} THEN k1 ELSE k2]
=============================================================================
