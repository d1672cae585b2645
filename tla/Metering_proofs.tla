-------------------------- MODULE Metering_proofs ---------------------------
(***************************************************************************)
(* Proofs about Metering, for any number of gateways, requests, cycles and *)
(* subscriptions.                                                          *)
(***************************************************************************)
EXTENDS Metering, FiniteSetTheorems, TLAPS

-----------------------------------------------------------------------------
(* Types. A row is updated one field at a time.                            *)

LEMMA BillUpdate ==
    ASSUME bill \in [Request -> Bill], NEW r \in Request, NEW n \in Nat,
           NEW c \in CycleId
    PROVE  /\ [bill EXCEPT ![r].price = n] \in [Request -> Bill]
           /\ [bill EXCEPT ![r].cycle = c] \in [Request -> Bill]
           /\ [bill EXCEPT ![r].charged = n] \in [Request -> Bill]
           /\ [bill EXCEPT ![r].returned = n] \in [Request -> Bill]
  BY DEF Bill

LEMMA CycleUpdate ==
    ASSUME cycle \in [CycleId -> CycleRow], NEW c \in CycleId, NEW n \in Nat,
           NEW row \in CycleRow
    PROVE  /\ [cycle EXCEPT ![c].used = n] \in [CycleId -> CycleRow]
           /\ [cycle EXCEPT ![c].limit = n] \in [CycleId -> CycleRow]
           /\ [cycle EXCEPT ![c].until = n] \in [CycleId -> CycleRow]
           /\ [cycle EXCEPT ![c] = row] \in [CycleId -> CycleRow]
  BY DEF CycleRow

LEMMA WindowType ==
    ASSUME TypeOK, NEW s \in SubId
    PROVE  Window(s) \in Plan
<1>1. now \in Nat /\ now + CycleLength \in Nat
  BY ConstantsAssumption DEF TypeOK
<1>2. sub[s].from \in Nat /\ sub[s].until \in Nat /\ sub[s].limit \in Nat
  BY DEF TypeOK, SubRow
<1>3. QED
  BY <1>1, <1>2 DEF Window, Plan

LEMMA InitType == Init => TypeOK
  BY DEF Init, TypeOK, NoSub, NoCycle, NoPlan, NoReset, Label, SubRow, CycleRow,
         Bill, Plan, Reset

LEMMA NoPlanType == NoPlan \in Plan
  BY DEF NoPlan, Plan

LEMMA NoResetType == NoReset \in Reset
  BY DEF NoReset, Reset

LEMMA GotoType ==
    ASSUME pc \in [Request -> Label], NEW r \in Request, NEW label \in Label,
           Goto(r, label)
    PROVE  pc' \in [Request -> Label]
  BY DEF Goto

LEMMA UseType ==
    ASSUME TypeOK, NEW r \in Request, NEW c \in CycleId, Use(r, c)
    PROVE  pc' \in [Request -> Label] /\ bill' \in [Request -> Bill]
<1>1. goal[r] \in Label
  BY DEF TypeOK, Label
<1>2. pc' \in [Request -> Label]
  BY <1>1, GotoType DEF Use, TypeOK
<1>3. bill' \in [Request -> Bill]
  BY BillUpdate DEF Use, TypeOK
<1>4. QED
  BY <1>2, <1>3

LEMMA NewCycleType ==
    ASSUME TypeOK, NEW s \in SubId \cup {0}, NEW from \in Nat, NEW until \in Nat,
           NEW limit \in Nat
    PROVE  [sub |-> s, from |-> from, until |-> until, limit |-> limit, used |-> 0]
              \in CycleRow
  BY ConstantsAssumption DEF CycleRow, SubId

LEMMA ReserveStepType ==
    ASSUME TypeOK, NEW r \in Request, ReserveStep(r)
    PROVE  TypeOK'
<1>1. CASE Begin(r)
  <2>1. PICK p \in Quotes : /\ bill' = [bill EXCEPT ![r].price = p]
                            /\ Goto(r, IF p = 0 THEN "solving" ELSE "lookup")
    BY <1>1 DEF Begin
  <2>2. p \in Nat /\ (IF p = 0 THEN "solving" ELSE "lookup") \in Label
    BY ConstantsAssumption DEF Label
  <2>3. bill' \in [Request -> Bill]
    BY <2>1, <2>2 DEF TypeOK, Bill
  <2>4. QED
    BY <1>1, <2>1, <2>2, <2>3, GotoType DEF Begin, TypeOK
<1>2. CASE FindNoSubscription(r)
  <2>1. pc' \in [Request -> Label]
    BY <1>2 DEF FindNoSubscription, TypeOK, Label, Goto
  <2>2. QED
    BY <1>2, <2>1 DEF FindNoSubscription, TypeOK
<1>3. CASE FindCycle(r)
  <2>1. PICK c \in CycleId : Use(r, c)
    BY <1>3 DEF FindCycle
  <2>2. QED
    BY <1>3, <2>1, UseType DEF FindCycle, TypeOK
<1>4. CASE FindCycleMissing(r)
  <2>1. PICK s \in SubId : plan' = [plan EXCEPT ![r] = Window(s)]
    BY <1>4 DEF FindCycleMissing
  <2>2. plan' \in [Request -> Plan]
    BY <2>1, WindowType DEF TypeOK
  <2>3. "insert" \in Label
    BY DEF Label
  <2>4. QED
    BY <1>4, <2>2, <2>3, GotoType DEF FindCycleMissing, TypeOK
<1>5. CASE InsertCycle(r)
  <2> DEFINE w == plan[r]
  <2>1. w \in Plan
    BY DEF TypeOK
  <2>2. /\ w.sub \in SubId \cup {0} /\ w.from \in Nat /\ w.until \in Nat
        /\ w.limit \in Nat
    BY <2>1 DEF Plan
  <2>3. PICK c \in CycleId :
          /\ cycle' = [cycle EXCEPT ![c] =
                [sub |-> w.sub, from |-> w.from, until |-> w.until,
                 limit |-> w.limit, used |-> 0]]
          /\ sub' = IF w.fresh
                    THEN [sub EXCEPT ![w.sub].from = w.from, ![w.sub].until = w.until]
                    ELSE sub
          /\ Use(r, c)
    BY <1>5 DEF InsertCycle
  <2>4. cycle' \in [CycleId -> CycleRow]
    BY <2>2, <2>3, NewCycleType DEF TypeOK
  <2>5. sub' \in [SubId -> SubRow]
    <3>1. sub \in [SubId -> SubRow]
      BY DEF TypeOK
    <3>2. QED
      BY <2>2, <2>3, <3>1 DEF SubRow
  <2>6. pc' \in [Request -> Label] /\ bill' \in [Request -> Bill]
    BY <2>3, UseType
  <2>7. plan' \in [Request -> Plan]
    BY <1>5, NoPlanType DEF InsertCycle, TypeOK
  <2>8. QED
    BY <1>5, <2>4, <2>5, <2>6, <2>7 DEF InsertCycle, TypeOK
<1>6. CASE Charge(r)
  <2>1. "bookcharge" \in Label /\ "denied" \in Label
    BY DEF Label
  <2>2. pc' \in [Request -> Label]
    BY <1>6, <2>1, GotoType DEF Charge, TypeOK
  <2>3. bill[r].price \in Nat
    BY DEF TypeOK, Bill
  <2>4. bill' \in [Request -> Bill]
    BY <1>6, <2>3 DEF Charge, TypeOK, Bill
  <2>5. cycle' \in [CycleId -> CycleRow]
    BY <1>6, <2>3 DEF Charge, TypeOK, CycleRow
  <2>6. QED
    BY <1>6, <2>2, <2>4, <2>5 DEF Charge, TypeOK
<1>7. CASE BookCharge(r)
  <2>1. "solving" \in Label
    BY DEF Label
  <2>2. QED
    BY <1>7, <2>1, GotoType DEF BookCharge, TypeOK
<1>8. QED
  BY <1>1, <1>2, <1>3, <1>4, <1>5, <1>6, <1>7 DEF ReserveStep

\* Whoever is about to charge, refund or reset a cycle knows which one.
Named == /\ \A r \in Request :
               pc[r] \in {"charge", "refund"} => bill[r].cycle \in CycleId
         /\ \A g \in Gateway : reset[g] # NoReset => reset[g].old \in CycleId

LEMMA SettleStepType ==
    ASSUME TypeOK, Named, NEW r \in Request, SettleStep(r) \/ DatabaseFails(r)
    PROVE  TypeOK'
<1>1. {"lookup", "served", "failed", "refund", "cancelled", "errored"} \subseteq Label
  BY DEF Label
<1>2. CASE SolveSucceeds(r)
  BY <1>1, <1>2, GotoType DEF SolveSucceeds, TypeOK
<1>3. CASE SolveFails(r)
  <2>1. PICK p \in Quotes :
          /\ bill' = [bill EXCEPT ![r].price = p]
          /\ Goto(r, IF p = 0 THEN "failed"
                     ELSE IF bill[r].cycle = 0 THEN "lookup" ELSE "refund")
    BY <1>3 DEF SolveFails
  <2>2. pc' \in [Request -> Label]
    BY <1>1, <2>1, GotoType DEF TypeOK
  <2>3. bill' \in [Request -> Bill]
    BY <2>1, ConstantsAssumption DEF TypeOK, Bill
  <2>4. QED
    BY <1>3, <2>2, <2>3 DEF SolveFails, TypeOK
<1>4. CASE SolveCancelled(r)
  BY <1>1, <1>4, GotoType DEF SolveCancelled, TypeOK
<1>5. CASE Refund(r)
  <2> DEFINE c == bill[r].cycle
             back == IF cycle[c].used >= bill[r].price THEN bill[r].price
                     ELSE cycle[c].used
  <2>1. bill[r].price \in Nat
    BY DEF TypeOK, Bill
  <2>2. /\ cycle' = [cycle EXCEPT ![c].used = @ - back]
        /\ bill' = [bill EXCEPT ![r].returned = back]
    BY <1>5 DEF Refund
  <2>3. c \in CycleId
    BY <1>5 DEF Named, Refund
  <2>4. cycle[c].used \in Nat
    BY <2>3 DEF TypeOK, CycleRow
  <2>5. back \in Nat /\ cycle[c].used - back \in Nat
    BY <2>1, <2>4
  <2>6. cycle' \in [CycleId -> CycleRow]
    BY <2>2, <2>3, <2>5 DEF TypeOK, CycleRow
  <2>7. bill' \in [Request -> Bill]
    BY <2>2, <2>5 DEF TypeOK, Bill
  <2>8. QED
    BY <1>1, <1>5, <2>6, <2>7, GotoType DEF Refund, TypeOK
<1>6. CASE Answer(r)
  BY <1>1, <1>6, GotoType DEF Answer, TypeOK
<1>7. CASE DatabaseFails(r)
  <2>1. plan' \in [Request -> Plan]
    BY <1>7, NoPlanType DEF DatabaseFails, TypeOK
  <2>2. QED
    BY <1>1, <1>7, <2>1, GotoType DEF DatabaseFails, TypeOK
<1>8. QED
  BY <1>2, <1>3, <1>4, <1>5, <1>6, <1>7 DEF SettleStep

LEMMA NewSubType ==
    ASSUME TypeOK, NEW limit \in Limits
    PROVE  NewSub(limit) \in SubRow
  BY ConstantsAssumption DEF NewSub, TypeOK, SubRow

LEMMA AdminStepType ==
    ASSUME TypeOK, Named, AdminStep
    PROVE  TypeOK'
<1>0. now \in Nat /\ now + CycleLength \in Nat
  BY ConstantsAssumption DEF TypeOK
<1>1. ASSUME NEW limit \in Limits, Grant(limit) PROVE TypeOK'
  BY <1>1, NewSubType DEF Grant, TypeOK
<1>2. ASSUME NEW limit \in Limits, Activate(limit) PROVE TypeOK'
  <2>1. PICK s \in SubId, c \in CycleId :
          /\ sub' = [t \in SubId |->
                IF t = s THEN NewSub(limit)
                ELSE IF sub[t].state = "active" THEN [sub[t] EXCEPT !.state = "ended"]
                ELSE sub[t]]
          /\ cycle' = [cycle EXCEPT ![c] =
                [sub |-> s, from |-> now, until |-> now + CycleLength,
                 limit |-> limit, used |-> 0]]
    BY <1>2 DEF Activate
  <2>2. limit \in Nat
    BY ConstantsAssumption
  <2>3. cycle' \in [CycleId -> CycleRow]
    BY <1>0, <2>1, <2>2, NewCycleType DEF TypeOK
  <2>4. sub' \in [SubId -> SubRow]
    <3>1. ASSUME NEW t \in SubId PROVE [sub[t] EXCEPT !.state = "ended"] \in SubRow
      BY <3>1 DEF TypeOK, SubRow
    <3>2. QED
      BY <2>1, <3>1, NewSubType DEF TypeOK
  <2>5. QED
    BY <1>2, <2>3, <2>4 DEF Activate, TypeOK
<1>3. ASSUME NEW limit \in Limits, Renew(limit) PROVE TypeOK'
  <2>1. limit \in Nat
    BY ConstantsAssumption
  <2>2. PICK s \in SubId :
          /\ sub' = [sub EXCEPT ![s].limit = limit]
          /\ \/ \E c \in CycleId : cycle' = [cycle EXCEPT ![c].limit = limit]
             \/ \E c \in CycleId :
                   cycle' = [cycle EXCEPT ![c] =
                      [sub |-> s, from |-> now, until |-> now + CycleLength,
                       limit |-> limit, used |-> 0]]
    BY <1>3 DEF Renew
  <2>3. sub' \in [SubId -> SubRow]
    BY <2>1, <2>2 DEF TypeOK, SubRow
  <2>4. cycle' \in [CycleId -> CycleRow]
    <3>1. CASE \E c \in CycleId : cycle' = [cycle EXCEPT ![c].limit = limit]
      BY <2>1, <3>1 DEF TypeOK, CycleRow
    <3>2. CASE \E c \in CycleId :
                  cycle' = [cycle EXCEPT ![c] =
                    [sub |-> s, from |-> now, until |-> now + CycleLength,
                     limit |-> limit, used |-> 0]]
      BY <1>0, <2>1, <3>2, NewCycleType DEF TypeOK
    <3>3. QED
      BY <2>2, <3>1, <3>2
  <2>5. QED
    BY <1>3, <2>3, <2>4 DEF Renew, TypeOK
<1>4. CASE EndSubscription
  <2>1. sub' \in [SubId -> SubRow]
    BY <1>4 DEF EndSubscription, TypeOK, SubRow
  <2>2. QED
    BY <1>4, <2>1 DEF EndSubscription, TypeOK
<1>5. ASSUME NEW g \in Gateway, ReadCycleToReset(g) PROVE TypeOK'
  <2>1. PICK c \in CycleId :
          reset' = [reset EXCEPT ![g] = [old |-> c, limit |-> cycle[c].limit, at |-> now]]
    BY <1>5 DEF ReadCycleToReset
  <2>2. reset' \in [Gateway -> Reset]
    BY <1>0, <2>1 DEF TypeOK, CycleRow, Reset
  <2>3. QED
    BY <1>5, <2>2 DEF ReadCycleToReset, TypeOK
<1>6. ASSUME NEW g \in Gateway, ResetCycle(g) PROVE TypeOK'
  <2>1. PICK v \in Reset : v = reset[g]
    BY DEF TypeOK
  <2>2. v.old \in CycleId
    BY <1>6, <2>1 DEF ResetCycle, Named
  <2>3. PICK c \in CycleId :
          cycle' = [cycle EXCEPT
            ![v.old].until = v.at,
            ![c] = [sub |-> cycle[v.old].sub, from |-> v.at, until |-> v.at + CycleLength,
                    limit |-> v.limit, used |-> 0]]
    BY <1>6, <2>1 DEF ResetCycle
  <2>4. v.limit \in Nat /\ v.at \in Nat /\ v.at + CycleLength \in Nat
    BY ConstantsAssumption DEF Reset
  <2> DEFINE row == [sub |-> cycle[v.old].sub, from |-> v.at, until |-> v.at + CycleLength,
                     limit |-> v.limit, used |-> 0]
             closed == [cycle EXCEPT ![v.old].until = v.at]
  <2>5. row \in CycleRow
    BY <2>2, <2>4 DEF TypeOK, CycleRow
  <2>6. closed \in [CycleId -> CycleRow]
    BY <2>2, <2>4 DEF TypeOK, CycleRow
  <2>7. cycle' = [closed EXCEPT ![c] = row]
    BY <2>3
  <2>8. cycle' \in [CycleId -> CycleRow]
    BY <2>5, <2>6, <2>7
  <2>9. QED
    BY <1>6, <2>8, NoResetType DEF ResetCycle, TypeOK
<1>7. QED
  BY <1>1, <1>2, <1>3, <1>4, <1>5, <1>6 DEF AdminStep

LEMMA CrashType ==
    ASSUME TypeOK, NEW g \in Gateway, Crash(g)
    PROVE  TypeOK'
<1>1. pc' \in [Request -> Label]
  BY DEF Crash, TypeOK, Label
<1>2. plan' \in [Request -> Plan]
  BY NoPlanType DEF Crash, TypeOK
<1>3. reset' \in [Gateway -> Reset]
  BY NoResetType DEF Crash, TypeOK
<1>4. QED
  BY <1>1, <1>2, <1>3 DEF Crash, TypeOK

\* The two facts every other proof starts from.
Typed == TypeOK /\ Named

\* A request's step touches no other request, and no reset in progress.
LEMMA Locality ==
    ASSUME TypeOK, NEW r \in Request,
           ReserveStep(r) \/ SettleStep(r) \/ DatabaseFails(r)
    PROVE  /\ \A q \in Request \ {r} :
                pc'[q] = pc[q] /\ bill'[q] = bill[q] /\ goal'[q] = goal[q]
           /\ reset' = reset
<1> USE DEF TypeOK, Goto, Use
<1>1. CASE Begin(r)
  BY <1>1 DEF Begin
<1>2. CASE FindNoSubscription(r)
  BY <1>2 DEF FindNoSubscription
<1>3. CASE FindCycle(r)
  BY <1>3 DEF FindCycle
<1>4. CASE FindCycleMissing(r)
  BY <1>4 DEF FindCycleMissing
<1>5. CASE InsertCycle(r)
  BY <1>5 DEF InsertCycle
<1>6. CASE Charge(r)
  BY <1>6 DEF Charge
<1>7. CASE BookCharge(r)
  BY <1>7 DEF BookCharge
<1>8. CASE SolveSucceeds(r)
  BY <1>8 DEF SolveSucceeds
<1>9. CASE SolveFails(r)
  BY <1>9 DEF SolveFails
<1>10. CASE SolveCancelled(r)
  BY <1>10 DEF SolveCancelled
<1>11. CASE Refund(r)
  BY <1>11 DEF Refund
<1>12. CASE Answer(r)
  BY <1>12 DEF Answer
<1>13. CASE DatabaseFails(r)
  BY <1>13 DEF DatabaseFails
<1>14. QED
  BY <1>1, <1>2, <1>3, <1>4, <1>5, <1>6, <1>7, <1>8, <1>9, <1>10, <1>11, <1>12, <1>13
     DEF ReserveStep, SettleStep

\* What a request's step does to its own label and bill, coarsely.
LEMMA NamedStep ==
    ASSUME Typed, NEW r \in Request,
           ReserveStep(r) \/ SettleStep(r) \/ DatabaseFails(r)
    PROVE  Named'
<1>1. TypeOK /\ Named
  BY DEF Typed
<1>2. SUFFICES pc'[r] \in {"charge", "refund"} => bill'[r].cycle \in CycleId
  BY <1>1, Locality DEF Named
<1> USE <1>1 DEF TypeOK, Goto
<1>3. ASSUME NEW c \in CycleId, Use(r, c)
      PROVE  pc'[r] \in {"charge", "refund"} => bill'[r].cycle \in CycleId
  BY <1>3 DEF Use, Bill
<1>4. CASE Begin(r)
  BY <1>4 DEF Begin
<1>5. CASE FindNoSubscription(r)
  BY <1>5 DEF FindNoSubscription
<1>6. CASE FindCycle(r)
  BY <1>3, <1>6 DEF FindCycle
<1>7. CASE FindCycleMissing(r)
  BY <1>7 DEF FindCycleMissing
<1>8. CASE InsertCycle(r)
  BY <1>3, <1>8 DEF InsertCycle
<1>9. CASE Charge(r)
  BY <1>9 DEF Charge
<1>10. CASE BookCharge(r)
  BY <1>10 DEF BookCharge
<1>11. CASE SolveSucceeds(r)
  BY <1>11 DEF SolveSucceeds
<1>12. CASE SolveFails(r)
  BY <1>12 DEF SolveFails, Bill
<1>13. CASE SolveCancelled(r)
  BY <1>13 DEF SolveCancelled
<1>14. CASE Refund(r)
  BY <1>14 DEF Refund
<1>15. CASE Answer(r)
  BY <1>15 DEF Answer
<1>16. CASE DatabaseFails(r)
  BY <1>16 DEF DatabaseFails
<1>17. QED
  BY <1>4, <1>5, <1>6, <1>7, <1>8, <1>9, <1>10, <1>11, <1>12, <1>13, <1>14, <1>15,
     <1>16 DEF ReserveStep, SettleStep

LEMMA TypedStep == Typed /\ [Next]_vars => Typed'
<1> SUFFICES ASSUME Typed, [Next]_vars PROVE Typed'
  OBVIOUS
<1>1. TypeOK /\ Named
  BY DEF Typed
<1>2. ASSUME NEW r \in Request, ReserveStep(r) \/ SettleStep(r) \/ DatabaseFails(r)
      PROVE  Typed'
  BY <1>1, <1>2, ReserveStepType, SettleStepType, NamedStep DEF Typed
<1>3. ASSUME NEW g \in Gateway, Crash(g) PROVE Typed'
  <2>1. TypeOK'
    BY <1>1, <1>3, CrashType
  <2>2. \A r \in Request : pc'[r] \in {"charge", "refund"} => pc'[r] = pc[r]
    BY <1>3 DEF Crash
  <2>3. Named'
    BY <1>1, <1>3, <2>2 DEF Crash, Named, TypeOK
  <2>4. QED
    BY <2>1, <2>3 DEF Typed
<1>4. CASE AdminStep
  <2>1. TypeOK'
    BY <1>1, <1>4, AdminStepType
  <2>2. UNCHANGED <<pc, bill>>
    BY <1>4 DEF AdminStep, Grant, Activate, Renew, EndSubscription,
       ReadCycleToReset, ResetCycle
  <2>3. \A g \in Gateway : reset'[g] \in {reset[g], NoReset} \/ reset'[g].old \in CycleId
    <3>1. ASSUME NEW h \in Gateway, ReadCycleToReset(h) \/ ResetCycle(h)
          PROVE  \A g \in Gateway : reset'[g] \in {reset[g], NoReset} \/ reset'[g].old \in CycleId
      BY <1>1, <3>1 DEF ReadCycleToReset, ResetCycle, TypeOK
    <3>2. (\E h \in Gateway : ReadCycleToReset(h) \/ ResetCycle(h)) \/ reset' = reset
      BY <1>4 DEF AdminStep, Grant, Activate, Renew, EndSubscription
    <3>3. QED
      BY <3>1, <3>2
  <2>4. Named'
    BY <1>1, <2>2, <2>3 DEF Named
  <2>5. QED
    BY <2>1, <2>4 DEF Typed
<1>5. CASE Tick
  BY <1>1, <1>5 DEF Tick, Typed, TypeOK, Named
<1>6. CASE UNCHANGED vars
  BY <1>1, <1>6 DEF vars, Typed, TypeOK, Named
<1>7. QED
  BY <1>2, <1>3, <1>4, <1>5, <1>6 DEF Next

LEMMA TypedAlways == Spec => []Typed
<1>1. Init => Typed
  <2>1. Init => Named
    BY DEF Init, Named
  <2>2. QED
    BY <2>1, InitType DEF Typed
<1>2. QED
  BY <1>1, TypedStep, PTL DEF Spec

\* The rows and the requests keep their types: in particular a refund never takes a
\* counter below zero, and a request that charges or refunds knows its cycle.
THEOREM TypeCorrect == Spec => []TypeOK
<1>1. Typed => TypeOK
  BY DEF Typed
<1>2. QED
  BY <1>1, TypedAlways, PTL

-----------------------------------------------------------------------------
(* Charges stay within the limit of their row, at any price.               *)

LEMMA OnlyChargeCounts ==
    ASSUME Typed, Next, NEW c \in CycleId, cycle'[c].used > cycle[c].used
    PROVE  \E r \in Request : Charge(r) /\ bill[r].cycle = c
<1>1. TypeOK /\ Named /\ cycle[c] \in CycleRow /\ cycle[c].used \in Nat
  BY DEF Typed, TypeOK, CycleRow
<1>2. ASSUME NEW row, cycle' = [cycle EXCEPT ![c] = row], row.used = 0 PROVE FALSE
  BY <1>1, <1>2 DEF TypeOK
<1>3. ASSUME NEW r \in Request, ReserveStep(r) PROVE Charge(r) /\ bill[r].cycle = c
  <2>1. CASE InsertCycle(r)
    BY <1>1, <2>1 DEF InsertCycle, TypeOK
  <2>2. CASE Charge(r)
    BY <1>1, <2>2 DEF Charge, TypeOK
  <2>3. CASE Begin(r) \/ FindNoSubscription(r) \/ FindCycle(r) \/ FindCycleMissing(r)
             \/ BookCharge(r)
    BY <1>1, <2>3 DEF Begin, FindNoSubscription, FindCycle, FindCycleMissing, BookCharge
  <2>4. QED
    BY <1>3, <2>1, <2>2, <2>3 DEF ReserveStep
<1>4. ASSUME NEW r \in Request, SettleStep(r) \/ DatabaseFails(r) PROVE FALSE
  <2>1. CASE Refund(r)
    <3>1. bill[r].cycle \in CycleId /\ bill[r].price \in Nat
      BY <1>1, <2>1 DEF Refund, Named, TypeOK, Bill
    <3>2. cycle[bill[r].cycle].used \in Nat
      BY <1>1, <3>1 DEF TypeOK, CycleRow
    <3>3. QED
      BY <1>1, <2>1, <3>1, <3>2 DEF Refund, TypeOK
  <2>2. CASE ~Refund(r)
    BY <1>1, <1>4, <2>2 DEF SettleStep, SolveSucceeds, SolveFails, SolveCancelled,
       Answer, DatabaseFails
  <2>3. QED
    BY <2>1, <2>2
<1>5. ASSUME NEW g \in Gateway, Crash(g) PROVE FALSE
  BY <1>1, <1>5 DEF Crash
<1>6. CASE AdminStep
  <2>1. ASSUME NEW limit \in Limits, Grant(limit) PROVE FALSE
    BY <1>1, <2>1 DEF Grant
  <2>2. ASSUME NEW limit \in Limits, Activate(limit) PROVE FALSE
    BY <1>1, <2>2 DEF Activate, TypeOK
  <2>3. ASSUME NEW limit \in Limits, Renew(limit) PROVE FALSE
    <3>1. PICK d \in CycleId :
            \/ cycle' = [cycle EXCEPT ![d].limit = limit]
            \/ \E s \in SubId :
                  cycle' = [cycle EXCEPT ![d] =
                     [sub |-> s, from |-> now, until |-> now + CycleLength,
                      limit |-> limit, used |-> 0]]
      BY <2>3 DEF Renew
    <3>2. cycle'[c].used = cycle[c].used \/ cycle'[c].used = 0
      BY <1>1, <3>1 DEF TypeOK, CycleRow
    <3>3. QED
      BY <1>1, <2>3, <3>2
  <2>4. ASSUME EndSubscription \/ \E g \in Gateway : ReadCycleToReset(g) PROVE FALSE
    BY <1>1, <2>4 DEF EndSubscription, ReadCycleToReset
  <2>5. ASSUME NEW g \in Gateway, ResetCycle(g) PROVE FALSE
    <3>0. PICK v : v = reset[g]
      OBVIOUS
    <3>1. v.old \in CycleId
      BY <1>1, <2>5, <3>0 DEF ResetCycle, Named
    <3>2. PICK d \in CycleId :
            cycle' = [cycle EXCEPT
              ![v.old].until = v.at,
              ![d] = [sub |-> cycle[v.old].sub, from |-> v.at, until |-> v.at + CycleLength,
                      limit |-> v.limit, used |-> 0]]
      BY <2>5, <3>0 DEF ResetCycle
    <3>3. cycle'[c].used = cycle[c].used \/ cycle'[c].used = 0
      BY <1>1, <3>1, <3>2 DEF TypeOK, CycleRow
    <3>4. QED
      BY <1>1, <3>3
  <2>6. QED
    BY <1>6, <2>1, <2>2, <2>3, <2>4, <2>5 DEF AdminStep
<1>7. CASE Tick
  BY <1>1, <1>7 DEF Tick
<1>8. QED
  BY <1>3, <1>4, <1>5, <1>6, <1>7 DEF Next

\* Whatever the price and whoever else writes the row, a charge that commits leaves
\* the counter within the limit the row then has.
THEOREM ChargesWithinLimit == Spec => ChargeWithinLimit
<1>1. Typed /\ [Next]_vars =>
        [\A c \in CycleId : cycle'[c].used > cycle[c].used
                              => cycle'[c].used =< cycle'[c].limit]_vars
  <2> SUFFICES ASSUME Typed, Next, NEW c \in CycleId, cycle'[c].used > cycle[c].used
               PROVE  cycle'[c].used =< cycle'[c].limit
    OBVIOUS
  <2>1. PICK r \in Request : Charge(r) /\ bill[r].cycle = c
    BY OnlyChargeCounts
  <2>2. QED
    BY <2>1 DEF Charge, Typed, TypeOK, CycleRow
<1>2. QED
  BY <1>1, TypedAlways, PTL DEF Spec, ChargeWithinLimit

-----------------------------------------------------------------------------
(* One gateway keeps one open cycle: what a request has found still holds  *)
(* when it inserts, because nobody else can insert or reset meanwhile.     *)

\* One process serves every call; behind HAProxy there are several.
SingleGateway == \A g, h \in Gateway : g = h

\* The event loop is one request's, or the reset's, or nobody's.
NobodyResets == \A g \in Gateway : reset[g] = NoReset
OneInLoop == /\ \A r, q \in Request : InLoop(r) /\ InLoop(q) => r = q
             /\ NobodyResets \/ \A r \in Request : ~InLoop(r)

\* Windows begin in the past, and cycles are of subscriptions that exist.
Begun == /\ \A s \in SubId : sub[s].from =< now
         /\ \A c \in CycleId : /\ cycle[c].from =< now
                               /\ cycle[c].sub # 0 => /\ cycle[c].sub \in SubId
                                                      /\ sub[cycle[c].sub].state # "none"

OpenFor(c, s) == Open(c) /\ cycle[c].sub = s

\* A request about to insert has found no open cycle, and there is still none.
StillMissing(r) ==
    pc[r] = "insert" =>
        /\ plan[r].sub \in SubId /\ sub[plan[r].sub].state # "none" /\ plan[r].from =< now
        /\ \A c \in CycleId : ~OpenFor(c, plan[r].sub)

\* The cycle a reset is about to close is still the only one of its subscription.
StillOnly ==
    \A g \in Gateway : reset[g] # NoReset =>
        /\ reset[g].at =< now /\ cycle[reset[g].old].sub # 0
        /\ \A c \in CycleId : OpenFor(c, cycle[reset[g].old].sub) => c = reset[g].old

CycleInv == /\ Typed /\ OneInLoop /\ Begun /\ StillOnly /\ OneOpenCycle
            /\ \A r \in Request : StillMissing(r)

LEMMA CycleInitially == Init => CycleInv
<1> SUFFICES ASSUME Init PROVE CycleInv
  OBVIOUS
<1>1. Typed
  BY InitType DEF Init, Named, Typed
<1>2. \A c \in CycleId : ~Open(c)
  BY DEF Init, NoCycle, Open
<1>3. OneInLoop /\ Begun /\ StillOnly /\ \A r \in Request : StillMissing(r)
  BY DEF Init, NobodyResets, OneInLoop, InLoop, Begun, NoSub, NoCycle, StillOnly, StillMissing
<1>4. QED
  BY <1>1, <1>2, <1>3 DEF CycleInv, OneOpenCycle

LEMMA FreeLoop ==
    ASSUME SingleGateway, CycleInv, NEW g \in Gateway, LoopFree(g)
    PROVE  NobodyResets /\ \A r \in Request : ~InLoop(r)
<1>1. \A r \in Request : GatewayOf[r] = g
  BY ConstantsAssumption DEF SingleGateway
<1>2. QED
  BY <1>1 DEF LoopFree, SingleGateway, NobodyResets

\* A request that is not in the loop is not about to insert either.
LEMMA NobodyInserts ==
    ASSUME \A r \in Request : ~InLoop(r)' PROVE \A r \in Request : StillMissing(r)'
  BY DEF StillMissing, InLoop

\* What opens and closes cycles is their window, not their counter or limit.
SameWindows == /\ UNCHANGED now
               /\ \A c \in CycleId : /\ cycle'[c].sub = cycle[c].sub
                                     /\ cycle'[c].from = cycle[c].from
                                     /\ cycle'[c].until = cycle[c].until
               /\ \A s \in SubId : /\ sub'[s].from =< now
                                   /\ sub[s].state # "none" => sub'[s].state # "none"

LEMMA WindowsStay ==
    ASSUME CycleInv, SameWindows
    PROVE  Begun' /\ OneOpenCycle' /\ \A s : \A c \in CycleId : OpenFor(c, s)' <=> OpenFor(c, s)
  BY DEF CycleInv, SameWindows, Begun, OneOpenCycle, Open, OpenFor

\* While a request takes a step, no other one and no reset is in the loop.
LEMMA AloneInLoop ==
    ASSUME SingleGateway, CycleInv, NEW r \in Request,
           ReserveStep(r) \/ SettleStep(r) \/ DatabaseFails(r)
    PROVE  NobodyResets' /\ \A q \in Request \ {r} : ~InLoop(q)'
<1>1. InLoop(r) \/ LoopFree(GatewayOf[r])
  BY DEF ReserveStep, SettleStep, DatabaseFails, Begin, FindNoSubscription, FindCycle,
         FindCycleMissing, InsertCycle, Charge, BookCharge, SolveSucceeds, SolveFails,
         SolveCancelled, Refund, Answer, InLoop
<1>2. NobodyResets /\ \A q \in Request \ {r} : ~InLoop(q)
  <2>1. CASE InLoop(r)
    BY <2>1 DEF CycleInv, OneInLoop
  <2>2. CASE LoopFree(GatewayOf[r])
    BY <2>2, FreeLoop, ConstantsAssumption
  <2>3. QED
    BY <1>1, <2>1, <2>2
<1>3. reset' = reset /\ \A q \in Request \ {r} : pc'[q] = pc[q]
  BY Locality DEF CycleInv, Typed
<1>4. QED
  BY <1>2, <1>3 DEF InLoop, NobodyResets

LEMMA CycleRequestStep ==
    ASSUME SingleGateway, CycleInv, NEW r \in Request, Typed',
           ReserveStep(r) \/ SettleStep(r) \/ DatabaseFails(r)
    PROVE  CycleInv'
<1>1. NobodyResets' /\ \A q \in Request \ {r} : ~InLoop(q)'
  BY AloneInLoop
<1>2. OneInLoop' /\ StillOnly' /\ \A q \in Request \ {r} : StillMissing(q)'
  BY <1>1 DEF OneInLoop, NobodyResets, StillOnly, StillMissing, InLoop
<1>3. SUFFICES Begun' /\ OneOpenCycle' /\ StillMissing(r)'
  BY <1>2 DEF CycleInv
<1>4. TypeOK /\ Named /\ Begun /\ OneOpenCycle /\ StillMissing(r)
  BY DEF CycleInv, Typed
<1>5. CASE FindCycleMissing(r)
  <2>1. PICK s \in SubId : /\ Current(s) /\ \A c \in CycleId : ~Chosen(c, s)
                           /\ plan' = [plan EXCEPT ![r] = Window(s)]
    BY <1>5 DEF FindCycleMissing
  <2>2. \A c \in CycleId : ~OpenFor(c, s)
    <3>1. SUFFICES ASSUME NEW c \in CycleId, OpenFor(c, s) PROVE Chosen(c, s)
      BY <2>1
    <3>2. \A d \in CycleId : Open(d) /\ cycle[d].sub = s => d = c
      BY <1>4, <3>1 DEF OneOpenCycle, OpenFor
    <3>3. c =< c
      BY ConstantsAssumption DEF CycleId
    <3>4. QED
      BY <3>1, <3>2, <3>3 DEF Chosen, OpenFor
  <2>3. plan'[r] = Window(s) /\ UNCHANGED <<now, sub, cycle>>
    BY <1>4, <1>5, <2>1 DEF FindCycleMissing, TypeOK
  <2>4. Window(s).sub = s /\ Window(s).from =< now
    BY <1>4 DEF Window, Begun, TypeOK
  <2>5. SameWindows
    BY <1>4, <2>3 DEF SameWindows, Begun
  <2>6. sub[s].state # "none"
    BY <2>1 DEF Current
  <2>7. StillMissing(r)'
    BY <2>2, <2>3, <2>4, <2>5, <2>6, WindowsStay DEF StillMissing
  <2>8. QED
    BY <2>5, <2>7, WindowsStay
<1>6. CASE InsertCycle(r)
  <2> DEFINE w == plan[r]
  <2>1. PICK c \in CycleId :
          /\ NextCycle(c)
          /\ cycle' = [cycle EXCEPT ![c] = [sub |-> w.sub, from |-> w.from, until |-> w.until,
                                            limit |-> w.limit, used |-> 0]]
          /\ sub' = IF w.fresh
                    THEN [sub EXCEPT ![w.sub].from = w.from, ![w.sub].until = w.until]
                    ELSE sub
          /\ Use(r, c)
    BY <1>6 DEF InsertCycle
  <2>2. /\ w.sub \in SubId /\ sub[w.sub].state # "none" /\ w.from =< now
        /\ \A d \in CycleId : ~OpenFor(d, w.sub)
    BY <1>4, <1>6 DEF StillMissing, InsertCycle
  <2>3. now' = now
    BY <1>6 DEF InsertCycle
  <2>4. \A s \in SubId : sub'[s].from =< now /\ (sub[s].state # "none" => sub'[s].state # "none")
    BY <1>4, <2>1, <2>2 DEF Begun, TypeOK, SubRow
  <2>5. \A d \in CycleId : d # c => cycle'[d] = cycle[d]
    BY <1>4, <2>1 DEF TypeOK
  <2>6. cycle'[c].sub = w.sub /\ cycle'[c].from = w.from /\ cycle'[c].until = w.until
    BY <1>4, <2>1 DEF TypeOK
  <2>7. Begun'
    BY <1>4, <2>2, <2>3, <2>4, <2>5, <2>6 DEF Begun
  <2>8. OneOpenCycle'
    BY <1>4, <2>2, <2>3, <2>5, <2>6 DEF OneOpenCycle, OpenFor, Open
  <2>9. goal[r] # "insert"
    BY <1>4 DEF TypeOK
  <2>10. StillMissing(r)'
    BY <1>4, <2>1, <2>9 DEF Use, Goto, StillMissing, TypeOK
  <2>11. QED
    BY <2>7, <2>8, <2>10
<1>7. CASE ~FindCycleMissing(r) /\ ~InsertCycle(r)
  <2>1. SameWindows
    <3>1. CASE Charge(r)
      BY <1>4, <3>1 DEF Charge, SameWindows, Begun, TypeOK, CycleRow
    <3>2. CASE Refund(r)
      BY <1>4, <3>2 DEF Refund, SameWindows, Begun, TypeOK, CycleRow
    <3>3. CASE ~Charge(r) /\ ~Refund(r)
      <4>1. UNCHANGED <<now, sub, cycle>>
        BY <1>7, <3>3 DEF ReserveStep, SettleStep, DatabaseFails, Begin, FindNoSubscription,
           FindCycle, BookCharge, SolveSucceeds, SolveFails, SolveCancelled, Answer
      <4>2. QED
        BY <1>4, <4>1 DEF SameWindows, Begun
    <3>4. QED
      BY <3>1, <3>2, <3>3
  <2>2. pc'[r] # "insert"
    BY <1>4, <1>7 DEF ReserveStep, SettleStep, DatabaseFails, Begin, FindNoSubscription,
       FindCycle, Charge, Refund, BookCharge, SolveSucceeds, SolveFails, SolveCancelled, Answer,
       Use, Goto, TypeOK
  <2>3. QED
    BY <2>1, <2>2, WindowsStay DEF StillMissing
<1>8. QED
  BY <1>5, <1>6, <1>7

LEMMA CycleAdminStep ==
    ASSUME SingleGateway, CycleInv, Typed', AdminStep
    PROVE  CycleInv'
<1>1. TypeOK /\ Named /\ Begun /\ OneOpenCycle /\ StillOnly
  BY DEF CycleInv, Typed
<1>2. \A q \in Request : StillMissing(q)
  BY DEF CycleInv
<1>3. OneInLoop
  BY DEF CycleInv
<1>4. ASSUME SomeLoopFree PROVE NobodyResets /\ \A r \in Request : ~InLoop(r)
  BY <1>4, FreeLoop DEF SomeLoopFree
<1>5. ASSUME SomeLoopFree, UNCHANGED <<pc, reset>>
      PROVE  OneInLoop' /\ StillOnly' /\ \A q \in Request : StillMissing(q)'
  BY <1>4, <1>5 DEF OneInLoop, NobodyResets, StillOnly, StillMissing, InLoop
<1>6. ASSUME NEW limit \in Limits, Grant(limit) PROVE CycleInv'
  <2>1. SameWindows
    BY <1>1, <1>6 DEF Grant, NextSub, NewSub, SameWindows, Begun, TypeOK
  <2>2. QED
    BY <1>5, <1>6, <2>1, WindowsStay DEF Grant, CycleInv
<1>7. ASSUME NEW limit \in Limits, Activate(limit) PROVE CycleInv'
  <2>1. PICK s \in SubId, c \in CycleId :
          /\ NextSub(s) /\ NextAdminCycle(c)
          /\ sub' = [t \in SubId |->
                IF t = s THEN NewSub(limit)
                ELSE IF sub[t].state = "active" THEN [sub[t] EXCEPT !.state = "ended"]
                ELSE sub[t]]
          /\ cycle' = [cycle EXCEPT ![c] =
                [sub |-> s, from |-> now, until |-> now + CycleLength,
                 limit |-> limit, used |-> 0]]
    BY <1>7 DEF Activate
  <2>2. now' = now /\ now \in Nat
    BY <1>1, <1>7 DEF Activate, TypeOK
  <2>3. \A t \in SubId : sub'[t].from =< now /\ (sub[t].state # "none" => sub'[t].state # "none")
    BY <1>1, <2>1, <2>2 DEF Begun, NewSub, TypeOK, SubRow
  <2>4. sub[s].state = "none" /\ sub'[s].state # "none"
    BY <2>1 DEF NextSub, NewSub
  <2>5. /\ \A d \in CycleId : d # c => cycle'[d] = cycle[d]
        /\ cycle'[c].sub = s /\ cycle'[c].from = now
    BY <1>1, <2>1 DEF TypeOK
  <2>6. \A d \in CycleId : cycle[d].sub # s
    BY <1>1, <2>4 DEF Begun, SubId
  <2>7. Begun'
    BY <1>1, <2>2, <2>3, <2>4, <2>5 DEF Begun
  <2>8. OneOpenCycle'
    BY <1>1, <2>2, <2>5, <2>6 DEF OneOpenCycle, Open
  <2>9. QED
    BY <1>5, <1>7, <2>7, <2>8 DEF Activate, CycleInv
<1>8. ASSUME NEW limit \in Limits, Renew(limit) PROVE CycleInv'
  <2>1. PICK s \in SubId :
          /\ Current(s)
          /\ sub' = [sub EXCEPT ![s].limit = limit]
          /\ \/ \E c \in CycleId : cycle' = [cycle EXCEPT ![c].limit = limit]
             \/ \E c \in CycleId :
                   /\ \A d \in CycleId : cycle[d].sub # s
                   /\ cycle' = [cycle EXCEPT ![c] =
                         [sub |-> s, from |-> now, until |-> now + CycleLength,
                          limit |-> limit, used |-> 0]]
    BY <1>8 DEF Renew
  <2>2. now' = now /\ now \in Nat
    BY <1>1, <1>8 DEF Renew, TypeOK
  <2>3. \A t \in SubId : sub'[t].from =< now /\ sub'[t].state = sub[t].state
    BY <1>1, <2>1 DEF Begun, TypeOK, SubRow
  <2>4. CASE \E c \in CycleId : cycle' = [cycle EXCEPT ![c].limit = limit]
    <3>1. SameWindows
      BY <1>1, <2>2, <2>3, <2>4 DEF SameWindows, TypeOK, CycleRow
    <3>2. QED
      BY <1>5, <1>8, <3>1, WindowsStay DEF Renew, CycleInv
  <2>5. CASE \E c \in CycleId :
                /\ \A d \in CycleId : cycle[d].sub # s
                /\ cycle' = [cycle EXCEPT ![c] =
                      [sub |-> s, from |-> now, until |-> now + CycleLength,
                       limit |-> limit, used |-> 0]]
    <3>1. PICK c \in CycleId :
                /\ \A d \in CycleId : d # c => cycle'[d] = cycle[d] /\ cycle'[d].sub # s
                /\ cycle'[c].sub = s /\ cycle'[c].from = now
      BY <1>1, <2>5 DEF TypeOK
    <3>2. sub[s].state # "none"
      BY <2>1 DEF Current
    <3>3. Begun' /\ OneOpenCycle'
      BY <1>1, <2>2, <2>3, <3>1, <3>2 DEF Begun, OneOpenCycle, Open
    <3>4. QED
      BY <1>5, <1>8, <3>3 DEF Renew, CycleInv
  <2>6. QED
    BY <2>1, <2>4, <2>5
<1>9. CASE EndSubscription
  <2>1. PICK s \in SubId : sub' = [sub EXCEPT ![s].state = "ended"]
    BY <1>9 DEF EndSubscription
  <2>2. UNCHANGED <<now, cycle, pc, plan, reset>>
    BY <1>9 DEF EndSubscription
  <2>3. \A t \in SubId : sub'[t].from = sub[t].from
                         /\ (sub[t].state # "none" => sub'[t].state # "none")
    BY <1>1, <2>1 DEF TypeOK, SubRow
  <2>4. SameWindows
    BY <1>1, <2>2, <2>3 DEF SameWindows, Begun
  <2>5. OneInLoop' /\ StillOnly'
    BY <1>1, <1>3, <2>2 DEF OneInLoop, NobodyResets, InLoop, StillOnly, OpenFor, Open
  <2>6. \A q \in Request : StillMissing(q)'
    BY <1>2, <2>2, <2>3 DEF StillMissing, OpenFor, Open
  <2>7. QED
    BY <2>4, <2>5, <2>6, WindowsStay DEF CycleInv
<1>10. ASSUME NEW g \in Gateway, ReadCycleToReset(g) PROVE CycleInv'
  <2>1. PICK c \in CycleId :
          /\ cycle[c].sub # 0 /\ now < cycle[c].until
          /\ reset' = [reset EXCEPT ![g] = [old |-> c, limit |-> cycle[c].limit, at |-> now]]
    BY <1>10 DEF ReadCycleToReset
  <2>2. UNCHANGED <<now, sub, cycle, pc, plan>> /\ NobodyResets /\ \A r \in Request : ~InLoop(r)
    BY <1>10, FreeLoop DEF ReadCycleToReset
  <2>3. SameWindows
    BY <1>1, <2>2 DEF SameWindows, Begun
  <2>4. Open(c)
    BY <1>1, <2>1 DEF Begun, Open
  <2>5. OneInLoop' /\ \A q \in Request : StillMissing(q)'
    BY <2>1, <2>2 DEF OneInLoop, InLoop, StillMissing
  <2>6. StillOnly'
    <3>1. \A h \in Gateway : reset'[h] # NoReset => reset'[h].old = c /\ reset'[h].at = now
      BY <1>1, <2>1, <2>2 DEF NobodyResets, TypeOK
    <3>2. now =< now
      BY <1>1 DEF TypeOK
    <3>3. \A d \in CycleId : OpenFor(d, cycle[c].sub)' => d = c
      BY <1>1, <2>2, <2>4 DEF OneOpenCycle, OpenFor, Open
    <3>4. QED
      BY <2>1, <2>2, <3>1, <3>2, <3>3 DEF StillOnly
  <2>7. QED
    BY <2>3, <2>5, <2>6, WindowsStay DEF CycleInv
<1>11. ASSUME NEW g \in Gateway, ResetCycle(g) PROVE CycleInv'
  <2> DEFINE at == reset[g].at
  <2>0. PICK old \in CycleId, s \in Nat : old = reset[g].old /\ s = cycle[old].sub
    BY <1>1, <1>11 DEF ResetCycle, Named, TypeOK, CycleRow
  <2>1. PICK c \in CycleId :
          /\ NextCycle(c)
          /\ cycle' = [cycle EXCEPT
                ![old].until = at,
                ![c] = [sub |-> s, from |-> at, until |-> at + CycleLength,
                        limit |-> reset[g].limit, used |-> 0]]
    BY <1>11, <2>0 DEF ResetCycle
  <2>2. reset[g] # NoReset /\ NobodyResets' /\ UNCHANGED <<now, sub, pc, plan>>
    BY <1>1, <1>11 DEF ResetCycle, NobodyResets, SingleGateway, TypeOK
  <2>3. s # 0 /\ at =< now /\ \A d \in CycleId : OpenFor(d, s) => d = old
    BY <1>1, <2>0, <2>2 DEF StillOnly
  <2>4. c # old
    BY <2>0, <2>1, <2>3 DEF NextCycle
  <2>5. /\ \A d \in CycleId : d \notin {c, old} => cycle'[d] = cycle[d]
        /\ cycle'[c].sub = s /\ cycle'[c].from = at
        /\ cycle'[old].sub = s /\ cycle'[old].from = cycle[old].from
        /\ cycle'[old].until = at
    BY <1>1, <2>0, <2>1, <2>4 DEF TypeOK, CycleRow
  <2>6. Begun'
    BY <1>1, <2>0, <2>2, <2>3, <2>5 DEF Begun
  <2>7. now \in Nat /\ at \in Nat
    BY <1>1 DEF TypeOK, Reset
  <2>8. ~Open(old)'
    BY <2>2, <2>3, <2>5, <2>7 DEF Open
  <2>9. \A d \in CycleId : OpenFor(d, s)' => d = c
    BY <2>2, <2>3, <2>5, <2>8 DEF OpenFor, Open
  <2>10. OneOpenCycle'
    BY <1>1, <2>2, <2>5, <2>8, <2>9 DEF OneOpenCycle, OpenFor, Open
  <2>11. \A r \in Request : ~InLoop(r)'
    BY <1>3, <2>2 DEF OneInLoop, NobodyResets, InLoop
  <2>12. OneInLoop' /\ StillOnly' /\ \A q \in Request : StillMissing(q)'
    BY <2>2, <2>11, NobodyInserts DEF OneInLoop, NobodyResets, StillOnly
  <2>13. QED
    BY <2>6, <2>10, <2>12 DEF CycleInv
<1>12. QED
  BY <1>6, <1>7, <1>8, <1>9, <1>10, <1>11 DEF AdminStep

LEMMA CycleStep == SingleGateway /\ CycleInv /\ [Next]_vars => CycleInv'
<1> SUFFICES ASSUME SingleGateway, CycleInv, [Next]_vars PROVE CycleInv'
  OBVIOUS
<1>1. Typed'
  BY TypedStep DEF CycleInv
<1>2. ASSUME NEW r \in Request, ReserveStep(r) \/ SettleStep(r) \/ DatabaseFails(r)
      PROVE  CycleInv'
  BY <1>1, <1>2, CycleRequestStep
<1>3. CASE AdminStep
  BY <1>1, <1>3, CycleAdminStep
<1>4. ASSUME NEW g \in Gateway, Crash(g) PROVE CycleInv'
  <2>1. UNCHANGED <<now, sub, cycle>> /\ \A h \in Gateway : reset'[h] \in {reset[h], NoReset}
    BY <1>4 DEF Crash, CycleInv, Typed, TypeOK
  <2>2. \A r \in Request : ~InLoop(r)'
    <3>1. \A r \in Request : GatewayOf[r] = g
      BY ConstantsAssumption DEF SingleGateway
    <3>2. QED
      BY <1>4, <3>1 DEF Crash, InLoop, Finished
  <2>3. SameWindows
    BY <2>1 DEF SameWindows, CycleInv, Begun
  <2>4. OneInLoop' /\ StillOnly'
    BY <2>1, <2>2 DEF OneInLoop, StillOnly, OpenFor, Open, CycleInv
  <2>5. QED
    BY <1>1, <2>2, <2>3, <2>4, WindowsStay, NobodyInserts DEF CycleInv
<1>5. CASE Tick
  <2>1. now' = now + 1 /\ now \in Nat /\ UNCHANGED <<sub, cycle, pc, plan, reset>>
    BY <1>5 DEF Tick, CycleInv, Typed, TypeOK
  <2>2. Begun /\ \A c \in CycleId : cycle[c] \in CycleRow
    BY DEF CycleInv, Typed, TypeOK
  <2>3. \A s \in SubId : sub[s] \in SubRow
    BY DEF CycleInv, Typed, TypeOK
  <2>4. \A c \in CycleId : Open(c)' => Open(c)
    BY <2>1, <2>2 DEF Open, Begun, CycleRow
  <2>5. Begun'
    BY <2>1, <2>2, <2>3 DEF Begun, CycleRow, SubRow
  <2>6. (\A g \in Gateway : reset[g].at \in Nat) /\ \A r \in Request : plan[r].from \in Nat
    BY DEF CycleInv, Typed, TypeOK, Reset, Plan
  <2>7. OneInLoop' /\ OneOpenCycle'
    BY <2>1, <2>4 DEF CycleInv, OneInLoop, NobodyResets, InLoop, OneOpenCycle
  <2>8. StillOnly' /\ \A r \in Request : StillMissing(r)'
    BY <2>1, <2>4, <2>6 DEF CycleInv, StillOnly, StillMissing, OpenFor
  <2>9. QED
    BY <1>1, <2>5, <2>7, <2>8 DEF CycleInv
<1>6. CASE UNCHANGED vars
  BY <1>1, <1>6 DEF vars, CycleInv, OneInLoop, NobodyResets, InLoop, Begun, StillOnly, StillMissing, OneOpenCycle,
     OpenFor, Open
<1>7. QED
  BY <1>2, <1>3, <1>4, <1>5, <1>6 DEF Next

\* On one gateway, whatever the price and the clock, a subscription never has two open
\* cycles, so that its allowance is that of one (OneOpenCycle).
THEOREM OneOpenCycleAlways == ASSUME SingleGateway PROVE Spec => []OneOpenCycle
<1>1. CycleInv => OneOpenCycle
  BY DEF CycleInv
<1>2. CycleInv /\ [Next]_vars => CycleInv'
  BY CycleStep
<1>3. QED
  BY <1>1, <1>2, CycleInitially, PTL DEF Spec
=============================================================================
