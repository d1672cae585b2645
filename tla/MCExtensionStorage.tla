------------------------- MODULE MCExtensionStorage -------------------------
(* Instances of ExtensionStorage for TLC.                                  *)
EXTENDS ExtensionStorage, TLC

CONSTANTS k1, k2, w1, w2, e1, r1

\* The keys are alike, and so are the two sets.
Alike == Permutations({k1, k2}) \cup Permutations({w1, w2})
=============================================================================
