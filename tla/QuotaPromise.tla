---------------------------- MODULE QuotaPromise ----------------------------
(***************************************************************************)
(* What metering promises, without gateways, databases or prices: a cycle  *)
(* has a number of credits; a solve request holds one of them at most once *)
(* in its life; a hold is granted only while the cycle has a credit left;  *)
(* it ends kept (the user got a result, or nobody is left to give the      *)
(* credit back) or returned, and what is kept is never returned.           *)
(***************************************************************************)
EXTENDS Naturals, FiniteSets

CONSTANTS Request, CycleId

VARIABLES credit,   \* what became of each request's credit
          payer,    \* the cycle each request's credit comes from
          limit     \* credits of each cycle, 0 before the cycle exists

vars == <<credit, payer, limit>>

CreditState == {"unused", "held", "kept", "returned"}

TypeOK == /\ credit \in [Request -> CreditState]
          /\ payer \in [Request -> CycleId \cup {0}]
          /\ limit \in [CycleId -> Nat]

\* The requests whose credit the cycle is short of.
Taken(c) == {r \in Request : credit[r] \in {"held", "kept"} /\ payer[r] = c}

Init == /\ credit = [r \in Request |-> "unused"]
        /\ payer = [r \in Request |-> 0]
        /\ limit = [c \in CycleId |-> 0]

Hold(r, c) == /\ credit[r] = "unused"
              /\ Cardinality(Taken(c)) < limit[c]
              /\ credit' = [credit EXCEPT ![r] = "held"]
              /\ payer' = [payer EXCEPT ![r] = c]
              /\ UNCHANGED limit

Return(r) == /\ credit[r] = "held"
             /\ credit' = [credit EXCEPT ![r] = "returned"]
             /\ UNCHANGED <<payer, limit>>

\* Several requests settle at once when their gateway stops.
Keep(R) == /\ \A r \in R : credit[r] = "held"
           /\ credit' = [r \in Request |-> IF r \in R THEN "kept" ELSE credit[r]]
           /\ UNCHANGED <<payer, limit>>

SetLimit(c) == /\ limit'[c] \in Nat
               /\ limit' = [limit EXCEPT ![c] = limit'[c]]
               /\ UNCHANGED <<credit, payer>>

Next == \/ \E r \in Request, c \in CycleId : Hold(r, c)
        \/ \E r \in Request : Return(r)
        \/ \E R \in SUBSET Request : Keep(R)
        \/ \E c \in CycleId : SetLimit(c)

Spec == Init /\ [][Next]_vars
=============================================================================
