----------------------- MODULE MeteringQuota_proofs -------------------------
(***************************************************************************)
(* At the shipped price of one credit, the counter of a cycle is exactly   *)
(* the number of its unsettled and kept credits, an answer agrees with     *)
(* what it cost, and metering implements QuotaPromise.                     *)
(*                                                                         *)
(* The argument is one inductive invariant, Accounts: each request's bill  *)
(* is determined by where the request is (Billed), rows are named only     *)
(* once they exist (Existing), and the counters match (CounterIsHolders).  *)
(***************************************************************************)
EXTENDS Metering_proofs

\* DEFAULT_METERING_POLICIES and the migration: one credit for one image.
UnitPrice == Quotes = {1}

BilledOne(r) ==
    /\ bill[r].charged \in {0, 1}
    /\ bill[r].returned \in {0, 1}
    /\ bill[r].charged = 0 => bill[r].returned = 0
    /\ bill[r].charged = 1 => bill[r].cycle \in CycleId
    /\ pc[r] = "new" => bill[r].charged = 0 /\ goal[r] = "charge"
    /\ pc[r] \in {"lookup", "insert"} =>
          \/ goal[r] = "charge" /\ bill[r].charged = 0 /\ bill[r].price = 1
          \/ goal[r] = "balance" /\ bill[r].charged = 1 /\ bill[r].returned = 0
    /\ pc[r] = "charge" => bill[r].charged = 0 /\ bill[r].price = 1
    /\ pc[r] \in {"bookcharge", "solving", "balance"} =>
          bill[r].charged = 1 /\ bill[r].returned = 0
    /\ pc[r] = "refund" =>
          bill[r].charged = 1 /\ bill[r].returned = 0 /\ bill[r].price = 1
    /\ pc[r] = "denied" => bill[r].charged = 0
    /\ pc[r] = "served" => bill[r].returned = 0
    /\ pc[r] = "failed" => bill[r].returned = bill[r].charged

Billed == \A r \in Request : BilledOne(r)

Existing ==
    /\ \A r \in Request : /\ bill[r].cycle # 0 => cycle[bill[r].cycle].sub # 0
                          /\ pc[r] = "insert" => plan[r].sub # 0
    /\ \A g \in Gateway : reset[g] # NoReset => cycle[reset[g].old].sub # 0

Accounts == Typed /\ Billed /\ Existing /\ CounterIsHolders

-----------------------------------------------------------------------------
(* Holders and their number.                                               *)

LEMMA HoldersFinite ==
    ASSUME IsFiniteSet(Request), NEW c
    PROVE  IsFiniteSet(Holders(c)) /\ Cardinality(Holders(c)) \in Nat
  BY FS_Subset, FS_CardinalityType DEF Holders

\* A request joins the holders of the cycle that charges it, and leaves them when
\* it is refunded; the holders of the other cycles stay the same.
LEMMA HolderJoins ==
    ASSUME IsFiniteSet(Request), TypeOK, NEW r \in Request, NEW c \in CycleId,
           bill[r].cycle = c, bill[r].charged = 0, bill[r].returned = 0,
           bill' = [bill EXCEPT ![r].charged = 1]
    PROVE  /\ Cardinality(Holders(c)') = Cardinality(Holders(c)) + 1
           /\ \A d \in CycleId \ {c} : Holders(d)' = Holders(d)
<1>1. r \notin Holders(c) /\ Holders(c)' = Holders(c) \cup {r}
  BY DEF Holders, TypeOK, Bill
<1>2. \A d \in CycleId \ {c} : Holders(d)' = Holders(d)
  BY DEF Holders, TypeOK, Bill
<1>3. QED
  BY <1>1, <1>2, HoldersFinite, FS_AddElement

LEMMA HolderLeaves ==
    ASSUME IsFiniteSet(Request), TypeOK, NEW r \in Request, NEW c \in CycleId,
           bill[r].cycle = c, bill[r].charged = 1, bill[r].returned = 0,
           bill' = [bill EXCEPT ![r].returned = 1]
    PROVE  /\ Cardinality(Holders(c)') = Cardinality(Holders(c)) - 1
           /\ \A d \in CycleId \ {c} : Holders(d)' = Holders(d)
<1>1. r \in Holders(c) /\ Holders(c)' = Holders(c) \ {r}
  BY DEF Holders, TypeOK, Bill
<1>2. \A d \in CycleId \ {c} : Holders(d)' = Holders(d)
  BY DEF Holders, TypeOK, Bill
<1>3. QED
  BY <1>1, <1>2, HoldersFinite, FS_RemoveElement

\* Nothing else a step does to the bills changes who holds what.
LEMMA SameHolders ==
    ASSUME \A r \in Request :
              \/ bill'[r] = bill[r]
              \/ bill[r].charged = 0 /\ bill'[r].charged = 0
              \/ /\ bill'[r].cycle = bill[r].cycle
                 /\ bill'[r].charged = bill[r].charged
                 /\ bill'[r].returned = bill[r].returned,
           NEW c
    PROVE  Holders(c)' = Holders(c)
  BY DEF Holders

-----------------------------------------------------------------------------
(* Steps of a request.                                                     *)

\* A step that leaves the rows, the bills' cycles and the plans alone keeps Existing
\* unless it starts an insert or a reset.
LEMMA ExistingKept ==
    ASSUME Existing,
           \A c \in CycleId : cycle[c].sub # 0 => cycle'[c].sub # 0,
           \A r \in Request : bill'[r].cycle \in CycleId \cup {0},
           \A r \in Request : \/ bill'[r].cycle = bill[r].cycle
                              \/ cycle'[bill'[r].cycle].sub # 0,
           \A r \in Request : pc'[r] = "insert" => \/ pc[r] = "insert" /\ plan'[r] = plan[r]
                                                   \/ plan'[r].sub # 0,
           \A g \in Gateway : \/ reset'[g] \in {reset[g], NoReset}
                              \/ cycle'[reset'[g].old].sub # 0,
           \A g \in Gateway : reset[g] # NoReset => reset[g].old \in CycleId
    PROVE  Existing'
<1>1. ASSUME NEW r \in Request, bill'[r].cycle # 0 PROVE cycle'[bill'[r].cycle].sub # 0
  BY <1>1 DEF Existing
<1>2. ASSUME NEW r \in Request, pc'[r] = "insert" PROVE plan'[r].sub # 0
  BY <1>2 DEF Existing
<1>3. \A g \in Gateway : reset'[g] # NoReset => cycle'[reset'[g].old].sub # 0
  BY DEF Existing
<1>4. QED
  BY <1>1, <1>2, <1>3 DEF Existing, NoReset

\* Steps of a request that change no row: only its label, bill, goal and plan.
LEMMA QuietStep ==
    ASSUME Accounts, UnitPrice, NEW r \in Request, TypeOK',
           \/ Begin(r) \/ FindNoSubscription(r) \/ FindCycle(r) \/ FindCycleMissing(r)
           \/ BookCharge(r) \/ SolveSucceeds(r) \/ SolveFails(r) \/ SolveCancelled(r)
           \/ Answer(r) \/ DatabaseFails(r)
    PROVE  /\ BilledOne(r)' /\ Existing' /\ CounterIsHolders'
           /\ cycle' = cycle
           /\ \/ bill[r].charged = 0 /\ bill'[r].charged = 0
              \/ /\ bill'[r].cycle = bill[r].cycle
                 /\ bill'[r].charged = bill[r].charged
                 /\ bill'[r].returned = bill[r].returned
<1>1. /\ TypeOK /\ Named /\ BilledOne(r) /\ Existing /\ CounterIsHolders
      /\ cycle' = cycle /\ reset' = reset
  BY DEF Accounts, Typed, Billed, Begin, FindNoSubscription, FindCycle,
     FindCycleMissing, BookCharge, SolveSucceeds, SolveFails, SolveCancelled, Answer,
     DatabaseFails
<1>2. /\ \A q \in Request \ {r} : /\ pc'[q] = pc[q]
                                  /\ bill'[q] = bill[q]
                                  /\ plan'[q] = plan[q]
      /\ \/ bill[r].charged = 0 /\ bill'[r].charged = 0
         \/ /\ bill'[r].cycle = bill[r].cycle
            /\ bill'[r].charged = bill[r].charged
            /\ bill'[r].returned = bill[r].returned
      /\ \/ bill'[r].cycle = bill[r].cycle
         \/ cycle[bill'[r].cycle].sub # 0
      /\ pc'[r] = "insert" => plan'[r].sub # 0
      /\ BilledOne(r)'
  <2> USE <1>1 DEF TypeOK, Goto, Use, BilledOne
  <2>1. CASE Begin(r)
    BY <2>1 DEF Begin, Bill, UnitPrice
  <2>2. CASE FindNoSubscription(r)
    BY <2>2 DEF FindNoSubscription
  <2>3. CASE FindCycle(r)
    <3>1. PICK c \in CycleId : Open(c) /\ Use(r, c)
      BY <2>3 DEF FindCycle, Chosen
    <3>2. pc[r] = "lookup" /\ goal' = goal /\ plan' = plan
      BY <2>3 DEF FindCycle
    <3>3. CASE goal[r] = "balance"
      BY <3>1, <3>2, <3>3
    <3>4. CASE goal[r] = "charge"
      BY <3>1, <3>2, <3>4 DEF Open, Bill
    <3>5. QED
      BY <3>2, <3>3, <3>4
  <2>4. CASE FindCycleMissing(r)
    <3>1. plan'[r].sub # 0
      BY <2>4, ConstantsAssumption DEF FindCycleMissing, Window, SubId
    <3>2. QED
      BY <2>4, <3>1 DEF FindCycleMissing
  <2>5. CASE BookCharge(r)
    BY <2>5 DEF BookCharge
  <2>6. CASE SolveSucceeds(r)
    BY <2>6 DEF SolveSucceeds
  <2>7. CASE SolveFails(r)
    <3>1. bill[r].cycle \in CycleId /\ bill[r].cycle # 0
      BY <2>7, ConstantsAssumption DEF SolveFails, CycleId
    <3>2. bill' = [bill EXCEPT ![r].price = 1] /\ Goto(r, "refund")
      BY <2>7, <3>1 DEF SolveFails, UnitPrice
    <3>3. QED
      BY <2>7, <3>1, <3>2 DEF SolveFails, Bill
  <2>8. CASE SolveCancelled(r)
    BY <2>8 DEF SolveCancelled
  <2>9. CASE Answer(r)
    BY <2>9 DEF Answer
  <2>10. CASE DatabaseFails(r)
    BY <2>10 DEF DatabaseFails, InLoop
  <2>11. QED
    BY <2>1, <2>2, <2>3, <2>4, <2>5, <2>6, <2>7, <2>8, <2>9, <2>10
<1>3. Existing'
  <2>1. \A q \in Request : bill'[q].cycle \in CycleId \cup {0}
    BY DEF TypeOK, Bill
  <2>2. \A g \in Gateway : reset[g] # NoReset => reset[g].old \in CycleId
    BY <1>1 DEF Named
  <2>3. QED
    BY <1>1, <1>2, <2>1, <2>2, ExistingKept
<1>4. CounterIsHolders'
  <2>1. \A c \in CycleId : Holders(c)' = Holders(c)
    BY <1>2, SameHolders
  <2>2. QED
    BY <1>1, <2>1 DEF CounterIsHolders
<1>5. QED
  BY <1>1, <1>2, <1>3, <1>4

\* A new row takes an id that no bill names, so its counter of 0 is right.
LEMMA NewRowCounts ==
    ASSUME CounterIsHolders, Existing, TypeOK, IsFiniteSet(Request),
           NEW c \in CycleId, cycle[c].sub = 0,
           cycle'[c].used = 0,
           \A d \in CycleId \ {c} : cycle'[d].used = cycle[d].used,
           \A d \in CycleId : Holders(d)' = Holders(d)
    PROVE  CounterIsHolders'
<1>1. Holders(c) = {}
  BY ConstantsAssumption DEF Holders, Existing, CycleId
<1>2. Cardinality(Holders(c)) = 0
  BY <1>1, FS_EmptySet
<1>3. QED
  BY <1>2 DEF CounterIsHolders

LEMMA InsertStep ==
    ASSUME Accounts, UnitPrice, IsFiniteSet(Request), NEW r \in Request, TypeOK',
           InsertCycle(r)
    PROVE  BilledOne(r)' /\ Existing' /\ CounterIsHolders'
<1> DEFINE w == plan[r]
<1>1. /\ TypeOK /\ Named /\ BilledOne(r) /\ Existing /\ CounterIsHolders
  BY DEF Accounts, Typed, Billed
<1>2. PICK c \in CycleId :
        /\ NextCycle(c)
        /\ cycle' = [cycle EXCEPT ![c] =
              [sub |-> w.sub, from |-> w.from, until |-> w.until,
               limit |-> w.limit, used |-> 0]]
        /\ Use(r, c)
  BY DEF InsertCycle
<1>3. pc[r] = "insert" /\ goal' = goal /\ reset' = reset /\ w.sub # 0
  BY <1>1 DEF InsertCycle, Existing
<1>4. /\ cycle[c].sub = 0 /\ cycle'[c].used = 0 /\ cycle'[c].sub # 0
      /\ \A d \in CycleId \ {c} : cycle'[d] = cycle[d]
  BY <1>1, <1>2, <1>3 DEF NextCycle, TypeOK
<1>5. /\ \A q \in Request \ {r} : /\ pc'[q] = pc[q]
                                  /\ bill'[q] = bill[q]
                                  /\ plan'[q] = plan[q]
      /\ pc'[r] = goal[r]
  BY <1>1, <1>2 DEF InsertCycle, Use, Goto, TypeOK
<1>6. /\ \/ bill[r].charged = 0 /\ bill'[r].charged = 0
         \/ bill'[r] = bill[r]
      /\ \/ bill'[r].cycle = bill[r].cycle
         \/ bill'[r].cycle = c
      /\ BilledOne(r)'
  <2>1. CASE goal[r] = "balance"
    BY <1>1, <1>2, <1>3, <1>5, <2>1 DEF Use, BilledOne
  <2>2. CASE goal[r] = "charge"
    BY <1>1, <1>2, <1>3, <1>5, <2>2 DEF Use, BilledOne, TypeOK, Bill
  <2>3. QED
    BY <1>1, <1>3, <2>1, <2>2 DEF BilledOne
<1>7. \A d \in CycleId : Holders(d)' = Holders(d)
  BY <1>5, <1>6, SameHolders
<1>8. CounterIsHolders'
  BY <1>1, <1>4, <1>7, NewRowCounts
<1>9. Existing'
  <2>1. \A q \in Request : bill'[q].cycle \in CycleId \cup {0}
    BY DEF TypeOK, Bill
  <2>2. \A d \in CycleId : cycle[d].sub # 0 => cycle'[d].sub # 0
    BY <1>4
  <2>3. \A q \in Request : \/ bill'[q].cycle = bill[q].cycle
                           \/ cycle'[bill'[q].cycle].sub # 0
    BY <1>4, <1>5, <1>6
  <2>4. pc'[r] # "insert"
    BY <1>1, <1>5 DEF TypeOK
  <2>5. \A g \in Gateway : reset[g] # NoReset => reset[g].old \in CycleId
    BY <1>1 DEF Named
  <2>6. QED
    BY <1>1, <1>3, <1>5, <2>1, <2>2, <2>3, <2>4, <2>5, ExistingKept
<1>10. QED
  BY <1>6, <1>8, <1>9

\* Rows keep their subscription, requests their plan and cycle: Existing stays.
LEMMA CountStep ==
    ASSUME Accounts, UnitPrice, IsFiniteSet(Request), NEW r \in Request, TypeOK',
           Charge(r) \/ Refund(r)
    PROVE  BilledOne(r)' /\ Existing' /\ CounterIsHolders'
<1>1. /\ TypeOK /\ Named /\ BilledOne(r) /\ Existing /\ CounterIsHolders
  BY DEF Accounts, Typed, Billed
<1>0. PICK c \in CycleId : c = bill[r].cycle
  BY <1>1 DEF Charge, Refund, Named
<1>2. /\ bill[r].cycle = c /\ bill[r].price = 1 /\ bill[r] \in Bill
      /\ cycle[c].used \in Nat /\ cycle[c].limit \in Nat
      /\ plan' = plan /\ reset' = reset /\ goal' = goal
  BY <1>0, <1>1 DEF Charge, Refund, BilledOne, TypeOK, CycleRow
<1>3. CASE Charge(r) /\ cycle[c].used + 1 =< cycle[c].limit
  <2>1. /\ cycle' = [cycle EXCEPT ![c].used = @ + 1]
        /\ bill' = [bill EXCEPT ![r].charged = 1]
        /\ pc' = [pc EXCEPT ![r] = "bookcharge"]
        /\ pc[r] = "charge"
    BY <1>2, <1>3 DEF Charge, Goto
  <2>2. BilledOne(r)'
    BY <1>1, <1>2, <2>1 DEF BilledOne, TypeOK, Bill
  <2>3. bill[r].charged = 0 /\ bill[r].returned = 0
    BY <1>1, <2>1 DEF BilledOne
  <2>4. /\ Cardinality(Holders(c)') = Cardinality(Holders(c)) + 1
        /\ \A d \in CycleId \ {c} : Holders(d)' = Holders(d)
    BY <1>1, <1>2, <2>1, <2>3, HolderJoins
  <2>5. CounterIsHolders'
    BY <1>1, <1>2, <2>1, <2>4 DEF CounterIsHolders, TypeOK, CycleRow
  <2>6. Existing'
    <3>1. \A d \in CycleId : cycle'[d].sub = cycle[d].sub
      BY <1>1, <1>2, <2>1 DEF TypeOK, CycleRow
    <3>2. \A q \in Request : /\ bill'[q].cycle = bill[q].cycle
                             /\ bill'[q].cycle \in CycleId \cup {0}
      BY <1>1, <1>2, <2>1 DEF TypeOK, Bill
    <3>3. \A q \in Request : pc'[q] = "insert" => pc[q] = "insert"
      BY <1>1, <2>1 DEF TypeOK
    <3>4. \A g \in Gateway : reset[g] # NoReset => reset[g].old \in CycleId
      BY <1>1 DEF Named
    <3>5. \A q \in Request : bill'[q].cycle # 0 => cycle'[bill'[q].cycle].sub # 0
      BY <1>1, <3>1, <3>2 DEF Existing
    <3>6. \A q \in Request : pc'[q] = "insert" => plan'[q].sub # 0
      BY <1>1, <1>2, <3>3 DEF Existing
    <3>7. \A g \in Gateway : reset'[g] # NoReset => cycle'[reset'[g].old].sub # 0
      BY <1>1, <1>2, <3>1, <3>4 DEF Existing
    <3>8. QED
      BY <3>5, <3>6, <3>7 DEF Existing, NoReset
  <2>7. QED
    BY <2>2, <2>5, <2>6
<1>4. CASE Charge(r) /\ ~(cycle[c].used + 1 =< cycle[c].limit)
  <2>1. /\ cycle' = cycle /\ bill' = bill
        /\ pc' = [pc EXCEPT ![r] = "denied"] /\ pc[r] = "charge"
    BY <1>2, <1>4 DEF Charge, Goto
  <2>2. BilledOne(r)'
    BY <1>1, <1>2, <2>1 DEF BilledOne, TypeOK
  <2>3. CounterIsHolders'
    BY <1>1, <2>1 DEF CounterIsHolders, Holders
  <2>4. Existing'
    BY <1>1, <1>2, <2>1 DEF Existing, TypeOK
  <2>5. QED
    BY <2>2, <2>3, <2>4
<1>5. CASE Refund(r)
  <2>1. /\ bill[r].charged = 1 /\ bill[r].returned = 0 /\ pc[r] = "refund"
    BY <1>1, <1>5 DEF Refund, BilledOne
  <2>2. r \in Holders(c)
    BY <1>2, <2>1 DEF Holders
  <2>3. cycle[c].used >= 1
    BY <1>1, <1>2, <2>2, HoldersFinite, FS_EmptySet DEF CounterIsHolders
  <2>4. /\ cycle' = [cycle EXCEPT ![c].used = @ - 1]
        /\ bill' = [bill EXCEPT ![r].returned = 1]
        /\ pc' = [pc EXCEPT ![r] = "failed"]
    BY <1>2, <1>5, <2>3 DEF Refund, Goto
  <2>5. BilledOne(r)'
    BY <1>1, <1>2, <2>1, <2>4 DEF BilledOne, TypeOK, Bill
  <2>6. /\ Cardinality(Holders(c)') = Cardinality(Holders(c)) - 1
        /\ \A d \in CycleId \ {c} : Holders(d)' = Holders(d)
    BY <1>1, <1>2, <2>1, <2>4, HolderLeaves
  <2>7. CounterIsHolders'
    BY <1>1, <1>2, <2>4, <2>6 DEF CounterIsHolders, TypeOK, CycleRow
  <2>8. Existing'
    <3>1. \A d \in CycleId : cycle'[d].sub = cycle[d].sub
      BY <1>1, <1>2, <2>4 DEF TypeOK, CycleRow
    <3>2. \A q \in Request : /\ bill'[q].cycle = bill[q].cycle
                             /\ bill'[q].cycle \in CycleId \cup {0}
      BY <1>1, <1>2, <2>4 DEF TypeOK, Bill
    <3>3. \A q \in Request : pc'[q] = "insert" => pc[q] = "insert"
      BY <1>1, <2>4 DEF TypeOK
    <3>4. \A g \in Gateway : reset[g] # NoReset => reset[g].old \in CycleId
      BY <1>1 DEF Named
    <3>5. \A q \in Request : bill'[q].cycle # 0 => cycle'[bill'[q].cycle].sub # 0
      BY <1>1, <3>1, <3>2 DEF Existing
    <3>6. \A q \in Request : pc'[q] = "insert" => plan'[q].sub # 0
      BY <1>1, <1>2, <3>3 DEF Existing
    <3>7. \A g \in Gateway : reset'[g] # NoReset => cycle'[reset'[g].old].sub # 0
      BY <1>1, <1>2, <3>1, <3>4 DEF Existing
    <3>8. QED
      BY <3>5, <3>6, <3>7 DEF Existing, NoReset
  <2>9. QED
    BY <2>5, <2>7, <2>8
<1>6. QED
  BY <1>3, <1>4, <1>5

LEMMA RequestAccounts ==
    ASSUME Accounts, UnitPrice, IsFiniteSet(Request), NEW r \in Request,
           ReserveStep(r) \/ SettleStep(r) \/ DatabaseFails(r)
    PROVE  Accounts'
<1>1. Typed /\ TypeOK /\ Named /\ Billed
  BY DEF Accounts, Typed
<1>2. Typed'
  BY <1>1, TypedStep DEF Next
<1>3. TypeOK'
  BY <1>2 DEF Typed
<1>4. BilledOne(r)' /\ Existing' /\ CounterIsHolders'
  BY <1>3, QuietStep, InsertStep, CountStep DEF ReserveStep, SettleStep
<1>5. \A q \in Request \ {r} : BilledOne(q)'
  BY <1>1, Locality DEF Billed, BilledOne
<1>6. Billed'
  BY <1>4, <1>5 DEF Billed
<1>7. QED
  BY <1>2, <1>4, <1>6 DEF Accounts

-----------------------------------------------------------------------------
(* The other steps change no bill, and labels only to "lost".              *)

LEMMA CrashAccounts ==
    ASSUME Accounts, NEW g \in Gateway, Crash(g)
    PROVE  Accounts'
<1>1. Typed /\ TypeOK /\ Billed /\ Existing /\ CounterIsHolders
  BY DEF Accounts, Typed
<1>2. Typed'
  BY <1>1, TypedStep DEF Next
<1>3. UNCHANGED <<cycle, bill, goal>> /\ \A h \in Gateway : reset'[h] \in {reset[h], NoReset}
  BY <1>1 DEF Crash, TypeOK
<1>4. \A r \in Request : pc'[r] = "lost" \/ (pc'[r] = pc[r] /\
                           (pc[r] = "insert" => plan'[r] = plan[r]))
  BY <1>1 DEF Crash, Finished, TypeOK
<1>5. Billed'
  BY <1>1, <1>3, <1>4 DEF Billed, BilledOne
<1>6. Existing'
  BY <1>1, <1>3, <1>4 DEF Existing, NoReset
<1>7. CounterIsHolders'
  BY <1>1, <1>3 DEF CounterIsHolders, Holders
<1>8. QED
  BY <1>2, <1>5, <1>6, <1>7 DEF Accounts

LEMMA AdminAccounts ==
    ASSUME Accounts, IsFiniteSet(Request), AdminStep
    PROVE  Accounts'
<1>1. Typed /\ TypeOK /\ Named /\ Billed /\ Existing /\ CounterIsHolders
  BY DEF Accounts, Typed
<1>2. Typed'
  BY <1>1, TypedStep DEF Next
<1>3. TypeOK'
  BY <1>2 DEF Typed
<1>4. UNCHANGED <<pc, bill, goal, plan>>
  BY DEF AdminStep, Grant, Activate, Renew, EndSubscription, ReadCycleToReset,
     ResetCycle
<1>5. Billed'
  BY <1>1, <1>4 DEF Billed, BilledOne
<1>6. \A d \in CycleId : Holders(d)' = Holders(d)
  BY <1>4 DEF Holders
<1>7. \A g \in Gateway : reset[g] # NoReset => reset[g].old \in CycleId
  BY <1>1 DEF Named
<1>8. \A r \in Request : bill'[r].cycle \in CycleId \cup {0}
  BY <1>3 DEF TypeOK, Bill
\* Two ways a row changes: in place, keeping its subscription and counter, or new.
<1>9. ASSUME \A d \in CycleId : /\ cycle'[d].sub = cycle[d].sub
                                /\ cycle'[d].used = cycle[d].used,
             \A g \in Gateway : \/ reset'[g] \in {reset[g], NoReset}
                                \/ reset'[g].old \in CycleId /\ cycle[reset'[g].old].sub # 0
      PROVE  Existing' /\ CounterIsHolders'
  <2>1. Existing'
    BY <1>1, <1>4, <1>7, <1>8, <1>9, ExistingKept
  <2>2. QED
    BY <1>1, <1>6, <1>9, <2>1 DEF CounterIsHolders
<1>10. ASSUME NEW c \in CycleId, cycle[c].sub = 0, cycle'[c].sub # 0,
              cycle'[c].used = 0,
              \A d \in CycleId \ {c} : /\ cycle'[d].sub = cycle[d].sub
                                       /\ cycle'[d].used = cycle[d].used,
              \A g \in Gateway : reset'[g] \in {reset[g], NoReset}
       PROVE  Existing' /\ CounterIsHolders'
  <2>1. \A d \in CycleId : cycle[d].sub # 0 => cycle'[d].sub # 0
    BY <1>10
  <2>2. Existing'
    BY <1>1, <1>4, <1>7, <1>8, <1>10, <2>1, ExistingKept
  <2>3. CounterIsHolders'
    BY <1>1, <1>6, <1>10, NewRowCounts
  <2>4. QED
    BY <2>2, <2>3
<1>11. \A s \in SubId : s # 0
  BY ConstantsAssumption DEF SubId
<1>12. ASSUME NEW limit \in Limits, Grant(limit) PROVE Existing' /\ CounterIsHolders'
  BY <1>1, <1>9, <1>12 DEF Grant, Named
<1>13. ASSUME EndSubscription PROVE Existing' /\ CounterIsHolders'
  BY <1>1, <1>9, <1>13 DEF EndSubscription, Named
<1>14. ASSUME NEW g \in Gateway, ReadCycleToReset(g) PROVE Existing' /\ CounterIsHolders'
  <2>1. PICK c \in CycleId : /\ cycle[c].sub # 0
                             /\ reset' = [reset EXCEPT ![g] =
                                  [old |-> c, limit |-> cycle[c].limit, at |-> now]]
    BY <1>14 DEF ReadCycleToReset
  <2>2. cycle' = cycle
    BY <1>14 DEF ReadCycleToReset
  <2>3. \A h \in Gateway : reset'[h] = reset[h] \/ reset'[h].old = c
    BY <1>1, <2>1 DEF TypeOK
  <2>4. QED
    BY <1>9, <2>1, <2>2, <2>3
<1>15. ASSUME NEW limit \in Limits, Activate(limit) PROVE Existing' /\ CounterIsHolders'
  <2>1. PICK s \in SubId, c \in CycleId :
          /\ cycle[c].sub = 0
          /\ cycle' = [cycle EXCEPT ![c] =
                [sub |-> s, from |-> now, until |-> now + CycleLength,
                 limit |-> limit, used |-> 0]]
    BY <1>15 DEF Activate, NextAdminCycle, NextCycle
  <2>2. reset' = reset
    BY <1>15 DEF Activate
  <2>3. QED
    BY <1>1, <1>10, <1>11, <2>1, <2>2 DEF TypeOK
<1>16. ASSUME NEW limit \in Limits, Renew(limit) PROVE Existing' /\ CounterIsHolders'
  <2>1. reset' = reset
    BY <1>16 DEF Renew
  <2>2. CASE \E c \in CycleId : cycle' = [cycle EXCEPT ![c].limit = limit]
    <3>1. \A d \in CycleId : /\ cycle'[d].sub = cycle[d].sub
                             /\ cycle'[d].used = cycle[d].used
      BY <1>1, <2>2 DEF TypeOK, CycleRow
    <3>2. QED
      BY <1>7, <1>9, <2>1, <3>1
  <2>3. CASE \E s \in SubId, c \in CycleId :
               /\ cycle[c].sub = 0
               /\ cycle' = [cycle EXCEPT ![c] =
                     [sub |-> s, from |-> now, until |-> now + CycleLength,
                      limit |-> limit, used |-> 0]]
    BY <1>1, <1>10, <1>11, <2>1, <2>3 DEF TypeOK
  <2>4. QED
    BY <1>16, <2>2, <2>3 DEF Renew, NextAdminCycle, NextCycle
<1>17. ASSUME NEW g \in Gateway, ResetCycle(g) PROVE Existing' /\ CounterIsHolders'
  <2>0. PICK v : v = reset[g]
    OBVIOUS
  <2>1. /\ v.old \in CycleId /\ cycle[v.old].sub # 0
        /\ \A h \in Gateway : reset'[h] \in {reset[h], NoReset}
    BY <1>1, <1>7, <1>17, <2>0 DEF ResetCycle, Existing, TypeOK
  <2>2. PICK c \in CycleId :
          /\ cycle[c].sub = 0
          /\ cycle' = [cycle EXCEPT
                ![v.old].until = v.at,
                ![c] = [sub |-> cycle[v.old].sub, from |-> v.at, until |-> v.at + CycleLength,
                        limit |-> v.limit, used |-> 0]]
    BY <1>17, <2>0 DEF ResetCycle, NextCycle
  <2>3. cycle'[c].sub # 0 /\ cycle'[c].used = 0
    BY <1>1, <2>1, <2>2 DEF TypeOK
  <2>4. \A d \in CycleId \ {c} : /\ cycle'[d].sub = cycle[d].sub
                                 /\ cycle'[d].used = cycle[d].used
    BY <1>1, <2>1, <2>2 DEF TypeOK, CycleRow
  <2>5. QED
    BY <1>10, <2>1, <2>2, <2>3, <2>4
<1>18. Existing' /\ CounterIsHolders'
  BY <1>12, <1>13, <1>14, <1>15, <1>16, <1>17 DEF AdminStep
<1>19. QED
  BY <1>2, <1>5, <1>18 DEF Accounts

LEMMA AccountsStep ==
    ASSUME UnitPrice, IsFiniteSet(Request)
    PROVE  Accounts /\ [Next]_vars => Accounts'
<1> SUFFICES ASSUME Accounts, [Next]_vars PROVE Accounts'
  OBVIOUS
<1>1. Typed /\ Billed /\ Existing /\ CounterIsHolders
  BY DEF Accounts
<1>2. Typed'
  BY <1>1, TypedStep
<1>3. CASE Tick \/ UNCHANGED vars
  <2>1. UNCHANGED <<cycle, pc, goal, bill, plan, reset>>
    BY <1>3 DEF Tick, vars
  <2>2. Billed' /\ Existing'
    BY <1>1, <2>1 DEF Billed, BilledOne, Existing
  <2>3. CounterIsHolders'
    BY <1>1, <2>1 DEF CounterIsHolders, Holders
  <2>4. QED
    BY <1>2, <2>2, <2>3 DEF Accounts
<1>4. QED
  BY <1>3, RequestAccounts, CrashAccounts, AdminAccounts DEF Next

LEMMA InitAccounts ==
    ASSUME IsFiniteSet(Request), Init
    PROVE  Accounts
<1>1. Typed
  BY InitType DEF Typed, Named, Init
<1>2. Billed /\ Existing
  BY DEF Init, Billed, BilledOne, Existing
<1>3. \A c \in CycleId : Holders(c) = {}
  BY ConstantsAssumption DEF Init, Holders, CycleId
<1>4. CounterIsHolders
  BY <1>3, FS_EmptySet DEF Init, NoCycle, CounterIsHolders
<1>5. QED
  BY <1>1, <1>2, <1>4 DEF Accounts

LEMMA AccountsAlways ==
    ASSUME UnitPrice, IsFiniteSet(Request)
    PROVE  Spec => []Accounts
<1>1. Init => Accounts
  BY InitAccounts
<1>2. Accounts /\ [Next]_vars => Accounts'
  BY AccountsStep
<1>3. QED
  BY <1>1, <1>2, PTL DEF Spec

\* For any number of gateways, requests, subscriptions and cycles: the counter of a
\* cycle is the number of requests that paid from it and were not paid back.
THEOREM CountersRight ==
    ASSUME UnitPrice, IsFiniteSet(Request)
    PROVE  Spec => []CounterIsHolders
<1>1. Accounts => CounterIsHolders
  BY DEF Accounts
<1>2. QED
  BY <1>1, AccountsAlways, PTL

\* What solve() answers agrees with what it charged and gave back.
THEOREM AnswersRight ==
    ASSUME UnitPrice, IsFiniteSet(Request)
    PROVE  Spec => []AnswerMatchesBill
<1>1. Accounts => AnswerMatchesBill
  BY DEF Accounts, Billed, BilledOne, AnswerMatchesBill
<1>2. QED
  BY <1>1, AccountsAlways, PTL


-----------------------------------------------------------------------------
(* Metering implements QuotaPromise at the price of one credit: a charge   *)
(* is a Hold, a refund a Return, the end of a request that still holds its *)
(* credit (one request, or all those of a gateway that stops) a Keep, a    *)
(* new or renewed row a SetLimit; every other step is a stutter.           *)

PayerOf(r) == IF bill[r].charged = 0 THEN 0 ELSE bill[r].cycle

\* What the abstract specification sees of request r.
SameCredit(r) == CreditOf(r)' = CreditOf(r) /\ PayerOf(r)' = PayerOf(r)
SettlesKept(r) ==
    CreditOf(r) = "held" /\ CreditOf(r)' = "kept" /\ PayerOf(r)' = PayerOf(r)

QuotaStep == [Quota!Next]_(Quota!vars)

\* Requests only settle, limits stay: Keep of those that settle.
LEMMA Settling ==
    ASSUME \A r \in Request : SameCredit(r) \/ SettlesKept(r),
           \A c \in CycleId : cycle'[c].limit = cycle[c].limit
    PROVE  QuotaStep
<1> DEFINE R == {r \in Request : SettlesKept(r)}
<1>1. [r \in Request |-> CreditOf(r)]'
        = [r \in Request |-> IF r \in R THEN "kept" ELSE CreditOf(r)]
  BY DEF SameCredit, SettlesKept
<1>2. \A r \in Request : PayerOf(r)' = PayerOf(r)
  BY DEF SameCredit, SettlesKept
<1>3. Quota!Keep(R)
  BY <1>1, <1>2 DEF Quota!Keep, SettlesKept, PayerOf
<1>4. QED
  BY <1>3 DEF QuotaStep, Quota!Next

\* Credits stay, one limit changes: SetLimit.
LEMMA Relimiting ==
    ASSUME \A r \in Request : SameCredit(r),
           NEW c \in CycleId, cycle'[c].limit \in Nat,
           \A d \in CycleId \ {c} : cycle'[d].limit = cycle[d].limit
    PROVE  QuotaStep
<1>1. Quota!SetLimit(c)
  BY DEF Quota!SetLimit, SameCredit, PayerOf
<1>2. QED
  BY <1>1 DEF QuotaStep, Quota!Next

\* A step that leaves r's bill as it was, or r uncharged, at most settles r.
LEMMA CreditKept ==
    ASSUME TypeOK, NEW r \in Request, ~Finished(r) \/ Finished(r)',
           \/ bill[r].charged = 0 /\ bill'[r].charged = 0
           \/ /\ bill'[r].cycle = bill[r].cycle
              /\ bill'[r].charged = bill[r].charged
              /\ bill'[r].returned = bill[r].returned
    PROVE  SameCredit(r) \/ SettlesKept(r)
  BY DEF SameCredit, SettlesKept, CreditOf, PayerOf

LEMMA SameRequest ==
    ASSUME NEW r \in Request, pc'[r] = pc[r], bill'[r] = bill[r]
    PROVE  SameCredit(r)
  BY DEF SameCredit, CreditOf, PayerOf, Finished

\* The credits a cycle has taken, in the abstract view, are those of its holders.
LEMMA TakenIsHolders ==
    ASSUME Accounts, NEW c \in CycleId
    PROVE  Quota!Taken(c) = Holders(c)
<1>1. \A r \in Request : BilledOne(r)
  BY DEF Accounts, Billed
<1>2. c # 0
  BY ConstantsAssumption DEF CycleId
<1>3. \A r \in Request :
        /\ CreditOf(r) \in {"held", "kept"}
              <=> bill[r].charged > 0 /\ bill[r].returned = 0
        /\ bill[r].charged > 0 => PayerOf(r) = bill[r].cycle
        /\ CreditOf(r) \in {"held", "kept"} => PayerOf(r) = bill[r].cycle
  BY <1>1 DEF BilledOne, CreditOf, PayerOf
<1>4. QED
  BY <1>2, <1>3 DEF Quota!Taken, Holders, PayerOf

\* QuotaPromise counts with the FiniteSets of its own instance.
LEMMA SameCardinality ==
    ASSUME NEW S
    PROVE  Quota!Cardinality(S) = Cardinality(S)
  BY Zenon DEF Quota!Cardinality, Cardinality

LEMMA QuietRefines ==
    ASSUME Accounts, UnitPrice, NEW r \in Request, TypeOK',
           \/ Begin(r) \/ FindNoSubscription(r) \/ FindCycle(r) \/ FindCycleMissing(r)
           \/ BookCharge(r) \/ SolveSucceeds(r) \/ SolveFails(r) \/ SolveCancelled(r)
           \/ Answer(r) \/ DatabaseFails(r)
    PROVE  QuotaStep
<1>1. TypeOK
  BY DEF Accounts, Typed
<1>2. ~Finished(r)
  BY DEF Begin, FindNoSubscription, FindCycle, FindCycleMissing, BookCharge,
     SolveSucceeds, SolveFails, SolveCancelled, Answer, DatabaseFails, InLoop, Finished
<1>3. SameCredit(r) \/ SettlesKept(r)
  BY <1>1, <1>2, QuietStep, CreditKept
<1>4. \A q \in Request \ {r} : SameCredit(q)
  BY <1>1, Locality, SameRequest DEF ReserveStep, SettleStep
<1>5. cycle' = cycle
  BY QuietStep
<1>6. QED
  BY <1>3, <1>4, <1>5, Settling

LEMMA InsertRefines ==
    ASSUME Accounts, NEW r \in Request, TypeOK', InsertCycle(r)
    PROVE  QuotaStep
<1>1. TypeOK /\ BilledOne(r)
  BY DEF Accounts, Typed, Billed
<1>2. PICK c \in CycleId :
        /\ cycle' = [cycle EXCEPT ![c] =
              [sub |-> plan[r].sub, from |-> plan[r].from, until |-> plan[r].until,
               limit |-> plan[r].limit, used |-> 0]]
        /\ Use(r, c)
  BY DEF InsertCycle
<1>3. pc[r] = "insert" /\ pc'[r] = goal[r] /\ goal[r] \in {"charge", "balance"}
  BY <1>1, <1>2 DEF InsertCycle, Use, Goto, TypeOK, BilledOne
<1>4. \/ bill[r].charged = 0 /\ bill'[r].charged = 0
      \/ bill'[r] = bill[r]
  BY <1>1, <1>2, <1>3 DEF Use, BilledOne, TypeOK, Bill
<1>5. SameCredit(r)
  BY <1>3, <1>4 DEF SameCredit, CreditOf, PayerOf, Finished
<1>6. \A q \in Request \ {r} : SameCredit(q)
  BY <1>1, Locality, SameRequest DEF ReserveStep
<1>7. /\ cycle'[c].limit \in Nat
      /\ \A d \in CycleId \ {c} : cycle'[d].limit = cycle[d].limit
  BY <1>1, <1>2 DEF TypeOK, CycleRow
<1>8. QED
  BY <1>5, <1>6, <1>7, Relimiting

LEMMA ChargeRefines ==
    ASSUME Accounts, IsFiniteSet(Request), NEW r \in Request, Charge(r)
    PROVE  QuotaStep
<1>1. TypeOK /\ Named /\ BilledOne(r) /\ CounterIsHolders
  BY DEF Accounts, Typed, Billed
<1>2. PICK c \in CycleId : c = bill[r].cycle
  BY <1>1 DEF Charge, Named
<1>3. /\ bill[r].charged = 0 /\ bill[r].returned = 0 /\ bill[r].price = 1
      /\ pc[r] = "charge"
      /\ cycle[c].used \in Nat /\ cycle[c].limit \in Nat
  BY <1>1 DEF Charge, BilledOne, TypeOK, CycleRow
<1>4. \A q \in Request \ {r} : SameCredit(q)
  BY <1>1, Locality, SameRequest DEF ReserveStep
<1>5. CASE cycle[c].used + 1 =< cycle[c].limit
  <2>1. /\ cycle' = [cycle EXCEPT ![c].used = @ + 1]
        /\ bill' = [bill EXCEPT ![r].charged = 1]
        /\ pc' = [pc EXCEPT ![r] = "bookcharge"]
    BY <1>2, <1>3, <1>5 DEF Charge, Goto
  <2>2. /\ CreditOf(r) = "unused" /\ CreditOf(r)' = "held"
        /\ PayerOf(r)' = c
    BY <1>1, <1>2, <1>3, <2>1 DEF CreditOf, PayerOf, Finished, TypeOK, Bill
  <2>3. Quota!Cardinality(Quota!Taken(c)) < cycle[c].limit
    BY <1>1, <1>3, <1>5, TakenIsHolders, SameCardinality DEF CounterIsHolders
  <2>4. \A d \in CycleId : cycle'[d].limit = cycle[d].limit
    BY <1>1, <2>1 DEF TypeOK, CycleRow
  <2>5. [q \in Request |-> CreditOf(q)]'
          = [[q \in Request |-> CreditOf(q)] EXCEPT ![r] = "held"]
    BY <1>4, <2>2 DEF SameCredit
  <2>6. [q \in Request |-> PayerOf(q)]' = [[q \in Request |-> PayerOf(q)] EXCEPT ![r] = c]
    BY <1>4, <2>2 DEF SameCredit
  <2>7. [d \in CycleId |-> cycle[d].limit]' = [d \in CycleId |-> cycle[d].limit]
    BY <2>4
  <2>8. [q \in Request |-> CreditOf(q)][r] = "unused"
    BY <2>2
  <2>9. [d \in CycleId |-> cycle[d].limit][c] = cycle[c].limit
    OBVIOUS
  <2>10. Quota!Hold(r, c)
    BY <2>3, <2>5, <2>6, <2>7, <2>8, <2>9 DEF Quota!Hold, PayerOf
  <2>11. QED
    BY <2>10 DEF QuotaStep, Quota!Next
<1>6. CASE ~(cycle[c].used + 1 =< cycle[c].limit)
  <2>1. cycle' = cycle /\ bill' = bill
    BY <1>2, <1>3, <1>6 DEF Charge
  <2>2. SameCredit(r)
    BY <1>3, <2>1 DEF SameCredit, CreditOf, PayerOf
  <2>3. QED
    BY <1>4, <2>1, <2>2, Settling
<1>7. QED
  BY <1>5, <1>6

LEMMA RefundRefines ==
    ASSUME Accounts, IsFiniteSet(Request), NEW r \in Request, Refund(r)
    PROVE  QuotaStep
<1>1. TypeOK /\ Named /\ BilledOne(r) /\ CounterIsHolders
  BY DEF Accounts, Typed, Billed
<1>2. PICK c \in CycleId : c = bill[r].cycle
  BY <1>1 DEF Refund, Named
<1>3. /\ bill[r].charged = 1 /\ bill[r].returned = 0 /\ bill[r].price = 1
      /\ pc[r] = "refund" /\ cycle[c].used \in Nat
  BY <1>1 DEF Refund, BilledOne, TypeOK, CycleRow
<1>4. \A q \in Request \ {r} : SameCredit(q)
  BY <1>1, Locality, SameRequest DEF SettleStep
<1>5. r \in Holders(c)
  BY <1>2, <1>3 DEF Holders
<1>6. cycle[c].used >= 1
  BY <1>1, <1>3, <1>5, HoldersFinite, FS_EmptySet DEF CounterIsHolders
<1>7. /\ cycle' = [cycle EXCEPT ![c].used = @ - 1]
      /\ bill' = [bill EXCEPT ![r].returned = 1]
  BY <1>2, <1>3, <1>6 DEF Refund
<1>8. /\ CreditOf(r) = "held" /\ CreditOf(r)' = "returned"
      /\ PayerOf(r)' = PayerOf(r)
  BY <1>1, <1>3, <1>7 DEF CreditOf, PayerOf, Finished, TypeOK, Bill
<1>9. \A d \in CycleId : cycle'[d].limit = cycle[d].limit
  BY <1>1, <1>7 DEF TypeOK, CycleRow
<1>10. [q \in Request |-> CreditOf(q)]'
         = [[q \in Request |-> CreditOf(q)] EXCEPT ![r] = "returned"]
  BY <1>4, <1>8 DEF SameCredit
<1>11. Quota!Return(r)
  BY <1>4, <1>8, <1>9, <1>10 DEF Quota!Return, SameCredit, PayerOf
<1>12. QED
  BY <1>11 DEF QuotaStep, Quota!Next

LEMMA CrashRefines ==
    ASSUME Accounts, NEW g \in Gateway, Crash(g)
    PROVE  QuotaStep
<1>1. TypeOK
  BY DEF Accounts, Typed
<1>2. cycle' = cycle /\ bill' = bill
  BY DEF Crash
<1>3. ASSUME NEW r \in Request PROVE SameCredit(r) \/ SettlesKept(r)
  <2>1. pc'[r] = pc[r] \/ (~Finished(r) /\ pc'[r] = "lost")
    BY <1>1 DEF Crash, TypeOK
  <2>2. ~Finished(r) \/ Finished(r)'
    BY <2>1 DEF Finished
  <2>3. QED
    BY <1>1, <1>2, <2>2, CreditKept
<1>4. QED
  BY <1>2, <1>3, Settling

LEMMA AdminRefines ==
    ASSUME Accounts, TypeOK', AdminStep
    PROVE  QuotaStep
<1>1. TypeOK /\ Named
  BY DEF Accounts, Typed
<1>2. \A r \in Request : SameCredit(r)
  BY SameRequest DEF AdminStep, Grant, Activate, Renew, EndSubscription,
     ReadCycleToReset, ResetCycle
<1>3. \A c \in CycleId : cycle'[c].limit \in Nat
  BY DEF TypeOK, CycleRow
<1>4. ASSUME cycle' = cycle PROVE QuotaStep
  BY <1>2, <1>4, Settling
<1>5. ASSUME NEW c \in CycleId,
             \A d \in CycleId \ {c} : cycle'[d].limit = cycle[d].limit
      PROVE  QuotaStep
  BY <1>2, <1>3, <1>5, Relimiting
<1>6. ASSUME NEW limit \in Limits, Grant(limit) PROVE QuotaStep
  BY <1>4, <1>6 DEF Grant
<1>7. ASSUME NEW limit \in Limits, Activate(limit) PROVE QuotaStep
  BY <1>1, <1>5, <1>7 DEF Activate, TypeOK
<1>8. ASSUME NEW limit \in Limits, Renew(limit) PROVE QuotaStep
  <2>1. PICK c \in CycleId :
          \/ cycle' = [cycle EXCEPT ![c].limit = limit]
          \/ \E row : cycle' = [cycle EXCEPT ![c] = row]
    BY <1>8 DEF Renew
  <2>2. QED
    BY <1>1, <1>5, <2>1 DEF TypeOK
<1>9. ASSUME EndSubscription PROVE QuotaStep
  BY <1>4, <1>9 DEF EndSubscription
<1>10. ASSUME NEW g \in Gateway, ReadCycleToReset(g) PROVE QuotaStep
  BY <1>4, <1>10 DEF ReadCycleToReset
<1>11. ASSUME NEW g \in Gateway, ResetCycle(g) PROVE QuotaStep
  <2>1. PICK c \in CycleId :
          cycle' = [cycle EXCEPT
                ![reset[g].old].until = reset[g].at,
                ![c] = [sub |-> cycle[reset[g].old].sub, from |-> reset[g].at,
                        until |-> reset[g].at + CycleLength,
                        limit |-> reset[g].limit, used |-> 0]]
    BY <1>11 DEF ResetCycle
  <2>2. \A d \in CycleId \ {c} : cycle'[d].limit = cycle[d].limit
    BY <1>1, <2>1 DEF TypeOK, CycleRow
  <2>3. QED
    BY <1>5, <2>2
<1>12. QED
  BY <1>6, <1>7, <1>8, <1>9, <1>10, <1>11 DEF AdminStep

LEMMA StepRefines ==
    ASSUME UnitPrice, IsFiniteSet(Request)
    PROVE  Accounts /\ [Next]_vars => QuotaStep
<1> SUFFICES ASSUME Accounts, [Next]_vars PROVE QuotaStep
  OBVIOUS
<1>1. TypeOK'
  BY AccountsStep DEF Accounts, Typed
<1>2. ASSUME NEW r \in Request, ReserveStep(r) \/ SettleStep(r) \/ DatabaseFails(r)
      PROVE  QuotaStep
  BY <1>1, <1>2, QuietRefines, InsertRefines, ChargeRefines, RefundRefines
     DEF ReserveStep, SettleStep
<1>3. CASE Tick \/ UNCHANGED vars
  <2>1. UNCHANGED <<cycle, pc, bill>>
    BY <1>3 DEF Tick, vars
  <2>2. QED
    BY <2>1, SameRequest, Settling
<1>4. QED
  BY <1>1, <1>2, <1>3, CrashRefines, AdminRefines DEF Next

\* For any number of gateways and requests: no cycle ever grants more credits than
\* it has, a request is granted one at most once, and a kept credit stays kept.
THEOREM MeteringKeepsQuotaPromise ==
    ASSUME UnitPrice, IsFiniteSet(Request)
    PROVE  Spec => QuotaSpec
<1>1. Init => Quota!Init
  BY DEF Init, Quota!Init, NoCycle, CreditOf
<1>2. Accounts /\ [Next]_vars => [Quota!Next]_(Quota!vars)
  BY StepRefines DEF QuotaStep
<1>3. QED
  BY <1>1, <1>2, AccountsAlways, PTL DEF Spec, QuotaSpec, Quota!Spec
=============================================================================
