------------------------------ MODULE Metering ------------------------------
(***************************************************************************)
(* Metered CAPTCHA solves of one user.                                     *)
(*                                                                         *)
(* Code: backend/app/services/usage_cycle_service.py (cycles and their     *)
(* counters), services/credit_service.py (quote, reserve, refund, ledger), *)
(* api/v2_routes/captcha.py solve() (reserve, solve, refund), and the      *)
(* administrator's cycle and subscription handlers that rewrite the same   *)
(* rows (api/admin_routes/system.py and users.py).                         *)
(*                                                                         *)
(* A gateway is one API process. Its handlers are coroutines of one event  *)
(* loop and the database calls inside them are synchronous: between two    *)
(* awaits a handler runs alone in its process (LoopFree), but each SQL     *)
(* statement or transaction interleaves with those of the other gateways   *)
(* (READ COMMITTED). One action is one transaction.                        *)
(*                                                                         *)
(* blocked_at_limit is left out: no running code ever sets it.             *)
(***************************************************************************)
EXTENDS Integers, FiniteSets

CONSTANTS
    Gateway,        \* API processes behind the load balancer
    Request,        \* POST /v2/captcha/solve calls
    GatewayOf,      \* the gateway each call is routed to
    Quotes,         \* prices CreditService.quote can return for one solve
    Limits,         \* monthly_limit of the plans on sale
    CycleLength,    \* length of a cycle (30 days), in ticks of the clock
    MaxTime,        \* bound: last tick
    MaxSubs,        \* bound: rows of user_subscriptions
    MaxCycles,      \* bound: rows of usage_cycles
    AdminCycles     \* bound: those an administrator's handlers may make

ASSUME ConstantsAssumption ==
    /\ GatewayOf \in [Request -> Gateway]
    /\ Quotes \subseteq Nat
    /\ Limits \subseteq Nat
    /\ CycleLength \in Nat \ {0}
    /\ MaxTime \in Nat
    /\ MaxSubs \in Nat
    /\ MaxCycles \in Nat
    /\ AdminCycles \in Nat

SubId == 1 .. MaxSubs
CycleId == 1 .. MaxCycles

VARIABLES
    now,      \* the clock the gateways share
    sub,      \* user_subscriptions: state, limit snapshot, current window
    cycle,    \* usage_cycles: subscription (0: no such row), window, limit, used
    pc,       \* where each request is
    goal,     \* what a request wants the current cycle for
    bill,     \* each request: quoted price, cycle, credits charged, given back
    plan,     \* the cycle a request has found missing and is about to insert
    reset     \* the reset_cycle in progress on each gateway, or its absence

vars == <<now, sub, cycle, pc, goal, bill, plan, reset>>

NoSub == [state |-> "none", limit |-> 0, from |-> 0, until |-> 0]
NoCycle == [sub |-> 0, from |-> 0, until |-> 0, limit |-> 0, used |-> 0]
NoPlan == [sub |-> 0, from |-> 0, until |-> 0, limit |-> 0, fresh |-> FALSE]
NoReset == [old |-> 0, limit |-> 0, at |-> 0]

-----------------------------------------------------------------------------
(* Rows and the queries over them.                                         *)

\* Ids grow: the next row of each table.
NextSub(s) == sub[s].state = "none" /\ \A t \in 1 .. s - 1 : sub[t].state # "none"
NextCycle(c) == cycle[c].sub = 0 /\ \A d \in 1 .. c - 1 : cycle[d].sub # 0

\* Leaves rows to the requests, so that the bound never stops one of them.
NextAdminCycle(c) == c =< AdminCycles /\ NextCycle(c)

\* The newest active subscription: order_by(created_at desc, id desc).first().
Current(s) == /\ sub[s].state = "active"
              /\ \A t \in s + 1 .. MaxSubs : sub[t].state # "active"

Open(c) == cycle[c].sub # 0 /\ cycle[c].from =< now /\ now < cycle[c].until

\* order_by(cycle_start_at desc, id desc).first() over the open cycles of s.
Chosen(c, s) ==
    /\ Open(c) /\ cycle[c].sub = s
    /\ \A d \in CycleId : Open(d) /\ cycle[d].sub = s =>
          \/ cycle[d].from < cycle[c].from
          \/ cycle[d].from = cycle[c].from /\ d =< c

\* The window of a new cycle: the subscription's, or a fresh one if that is over.
Window(s) ==
    LET over == sub[s].until =< now
    IN  [sub |-> s, limit |-> sub[s].limit, fresh |-> over,
         from |-> IF over THEN now ELSE sub[s].from,
         until |-> IF over THEN now + CycleLength ELSE sub[s].until]

\* A request in one of these steps holds its gateway's event loop.
InLoop(r) == pc[r] \in {"lookup", "insert", "charge", "bookcharge",
                        "refund", "balance"}

\* MUTANT of LoopFree: database calls moved off the loop, so handlers interleave.
LoopFreeThreaded(g) == g \in Gateway
LoopFree(g) == /\ reset[g] = NoReset
               /\ \A r \in Request : GatewayOf[r] = g => ~InLoop(r)

Finished(r) == pc[r] \in {"served", "denied", "failed", "errored", "cancelled", "lost"}

Goto(r, label) == pc' = [pc EXCEPT ![r] = label]

-----------------------------------------------------------------------------
(* Reserve: CreditService.reserve, before the solve.                       *)

\* A quote of zero skips the cycle: allowed, nothing charged, no cycle id.
Begin(r) ==
    /\ pc[r] = "new" /\ LoopFree(GatewayOf[r])
    /\ \E p \in Quotes :
          /\ bill' = [bill EXCEPT ![r].price = p]
          /\ Goto(r, IF p = 0 THEN "solving" ELSE "lookup")
    /\ UNCHANGED <<now, sub, cycle, goal, plan, reset>>

\* MUTANT of FindNoSubscription: waits for a subscription instead of refusing.
FindNoSubscriptionWaits(r) ==
    /\ pc[r] = "lookup" /\ \A s \in SubId : ~Current(s)
    /\ UNCHANGED vars

\* get_or_create_cycle, first half: no subscription, an open cycle, or none yet.
FindNoSubscription(r) ==
    /\ pc[r] = "lookup" /\ \A s \in SubId : ~Current(s)
    /\ Goto(r, CASE goal[r] = "charge" -> "denied"
                 [] goal[r] = "refund" -> "failed"
                 [] goal[r] = "balance" -> "balance")
    /\ UNCHANGED <<now, sub, cycle, goal, bill, plan, reset>>

\* The cycle found is the one the request goes on with; "balance" only reads it.
Use(r, c) == /\ Goto(r, goal[r])
             /\ bill' = IF goal[r] = "balance" THEN bill
                        ELSE [bill EXCEPT ![r].cycle = c]

FindCycle(r) ==
    /\ pc[r] = "lookup"
    /\ \E s \in SubId, c \in CycleId : Current(s) /\ Chosen(c, s) /\ Use(r, c)
    /\ UNCHANGED <<now, sub, cycle, goal, plan, reset>>

FindCycleMissing(r) ==
    /\ pc[r] = "lookup"
    /\ \E s \in SubId :
          /\ Current(s)
          /\ \A c \in CycleId : ~Chosen(c, s)
          /\ plan' = [plan EXCEPT ![r] = Window(s)]
    /\ Goto(r, "insert")
    /\ UNCHANGED <<now, sub, cycle, goal, bill, reset>>

\* Second half, one commit later: nothing stops a second gateway's insert.
InsertCycle(r) ==
    /\ pc[r] = "insert"
    /\ LET w == plan[r] IN
       \E c \in CycleId :
          /\ NextCycle(c)
          /\ cycle' = [cycle EXCEPT ![c] =
                [sub |-> w.sub, from |-> w.from, until |-> w.until,
                 limit |-> w.limit, used |-> 0]]
          /\ sub' = IF w.fresh
                    THEN [sub EXCEPT ![w.sub].from = w.from, ![w.sub].until = w.until]
                    ELSE sub
          /\ Use(r, c)
    /\ plan' = [plan EXCEPT ![r] = NoPlan]
    /\ UNCHANGED <<now, goal, reset>>

\* MUTANTS of Charge: the WHERE clause dropped, and its comparison off by one.
ChargeUnguarded(r) ==
    /\ pc[r] = "charge"
    /\ cycle' = [cycle EXCEPT ![bill[r].cycle].used = @ + bill[r].price]
    /\ bill' = [bill EXCEPT ![r].charged = bill[r].price]
    /\ Goto(r, "bookcharge")
    /\ UNCHANGED <<now, sub, goal, plan, reset>>

ChargeOffByOne(r) ==
    /\ ChargeUnguarded(r)
    /\ cycle[bill[r].cycle].used =< cycle[bill[r].cycle].limit

\* UPDATE ... SET used_count = used_count + :amount WHERE ... <= monthly_limit.
Charge(r) ==
    /\ pc[r] = "charge"
    /\ LET c == bill[r].cycle
           p == bill[r].price
       IN  IF cycle[c].used + p =< cycle[c].limit
           THEN /\ cycle' = [cycle EXCEPT ![c].used = @ + p]
                /\ bill' = [bill EXCEPT ![r].charged = p]
                /\ Goto(r, "bookcharge")
           ELSE /\ Goto(r, "denied")
                /\ UNCHANGED <<cycle, bill>>
    /\ UNCHANGED <<now, sub, goal, plan, reset>>

\* MUTANT of BookCharge: a ledger failure refuses the call that was just charged.
BookChargeRefuses(r) ==
    /\ pc[r] = "bookcharge"
    /\ \E label \in {"solving", "denied"} : Goto(r, label)
    /\ UNCHANGED <<now, sub, cycle, goal, bill, plan, reset>>

\* The counter is read back, and the ledger entry is a transaction of its own whose
\* failure is swallowed (the entries are write-only here and are not modelled).
BookCharge(r) ==
    /\ pc[r] = "bookcharge"
    /\ Goto(r, "solving")
    /\ UNCHANGED <<now, sub, cycle, goal, bill, plan, reset>>

-----------------------------------------------------------------------------
(* The solve (awaited, so the loop is free meanwhile) and what follows it. *)

\* The answer carries the balance, which looks the cycle up again.
SolveSucceeds(r) ==
    /\ pc[r] = "solving" /\ LoopFree(GatewayOf[r])
    /\ goal' = [goal EXCEPT ![r] = "balance"]
    /\ Goto(r, "lookup")
    /\ UNCHANGED <<now, sub, cycle, bill, plan, reset>>

Answer(r) ==
    /\ pc[r] = "balance"
    /\ Goto(r, "served")
    /\ UNCHANGED <<now, sub, cycle, goal, bill, plan, reset>>

\* HTTPException or Exception: refund what a new quote says, to the cycle that
\* paid; a reservation of nothing has no cycle, so the current one is looked up.
SolveFails(r) ==
    /\ pc[r] = "solving" /\ LoopFree(GatewayOf[r])
    /\ \E p \in Quotes :
          /\ bill' = [bill EXCEPT ![r].price = p]
          /\ Goto(r, IF p = 0 THEN "failed"
                     ELSE IF bill[r].cycle = 0 THEN "lookup" ELSE "refund")
    /\ goal' = [goal EXCEPT ![r] = "refund"]
    /\ UNCHANGED <<now, sub, cycle, plan, reset>>

\* MUTANT of Refund: retried after its commit, and without the clamp at zero.
RefundRetried(r) ==
    /\ pc[r] = "refund"
    /\ cycle' = [cycle EXCEPT ![bill[r].cycle].used = @ - bill[r].price]
    /\ bill' = [bill EXCEPT ![r].returned = bill[r].price]
    /\ \E label \in {"refund", "failed"} : Goto(r, label)
    /\ UNCHANGED <<now, sub, goal, plan, reset>>

\* CASE WHEN used_count >= :amount THEN used_count - :amount ELSE 0 END.
Refund(r) ==
    /\ pc[r] = "refund"
    /\ LET c == bill[r].cycle
           back == IF cycle[c].used >= bill[r].price THEN bill[r].price
                   ELSE cycle[c].used
       IN  /\ cycle' = [cycle EXCEPT ![c].used = @ - back]
           /\ bill' = [bill EXCEPT ![r].returned = back]
    /\ Goto(r, "failed")
    /\ UNCHANGED <<now, sub, goal, plan, reset>>

\* asyncio.CancelledError passes both except clauses: no refund.
SolveCancelled(r) ==
    /\ pc[r] = "solving" /\ LoopFree(GatewayOf[r])
    /\ Goto(r, "cancelled")
    /\ UNCHANGED <<now, sub, cycle, goal, bill, plan, reset>>

\* A statement raises: before the solve (the reservation is outside the try), in
\* the refund, or in the balance of a solve that succeeded. Nothing is undone.
DatabaseFails(r) ==
    /\ InLoop(r)
    /\ Goto(r, "errored")
    /\ plan' = [plan EXCEPT ![r] = NoPlan]
    /\ UNCHANGED <<now, sub, cycle, goal, bill, reset>>

\* The process dies between two transactions; nothing records its requests.
Crash(g) ==
    /\ \E r \in Request : GatewayOf[r] = g /\ pc[r] # "new" /\ ~Finished(r)
    /\ pc' = [r \in Request |->
                IF GatewayOf[r] = g /\ pc[r] # "new" /\ ~Finished(r)
                THEN "lost" ELSE pc[r]]
    /\ plan' = [r \in Request |-> IF GatewayOf[r] = g THEN NoPlan ELSE plan[r]]
    /\ reset' = [reset EXCEPT ![g] = NoReset]
    /\ UNCHANGED <<now, sub, cycle, goal, bill>>

-----------------------------------------------------------------------------
(* Subscriptions and the administrator.                                    *)

\* These handlers too run on some gateway's loop, each as one transaction.
SomeLoopFree == \E g \in Gateway : LoopFree(g)

NewSub(limit) == [state |-> "active", limit |-> limit,
                  from |-> now, until |-> now + CycleLength]

\* create_subscription and the free plan of ensure_current_or_free_subscription:
\* others stay active, and no cycle is made.
Grant(limit) ==
    /\ SomeLoopFree
    /\ \E s \in SubId : NextSub(s) /\ sub' = [sub EXCEPT ![s] = NewSub(limit)]
    /\ UNCHANGED <<now, cycle, pc, goal, bill, plan, reset>>

\* activate_payment and _create_active_subscription: the others expire, and the
\* first cycle is made in the same transaction.
Activate(limit) ==
    /\ SomeLoopFree
    /\ \E s \in SubId, c \in CycleId :
          /\ NextSub(s) /\ NextAdminCycle(c)
          /\ sub' = [t \in SubId |->
                IF t = s THEN NewSub(limit)
                ELSE IF sub[t].state = "active" THEN [sub[t] EXCEPT !.state = "ended"]
                ELSE sub[t]]
          /\ cycle' = [cycle EXCEPT ![c] =
                [sub |-> s, from |-> now, until |-> now + CycleLength,
                 limit |-> limit, used |-> 0]]
    /\ UNCHANGED <<now, pc, goal, bill, plan, reset>>

\* Renewal on the same plan, whose limit may have been edited: the snapshot and
\* one cycle of the subscription take it (first() of an unordered query), or a
\* cycle is made if there is none.
Renew(limit) ==
    /\ SomeLoopFree
    /\ \E s \in SubId :
          /\ Current(s)
          /\ sub' = [sub EXCEPT ![s].limit = limit]
          /\ \/ \E c \in CycleId :
                   /\ cycle[c].sub = s
                   /\ cycle' = [cycle EXCEPT ![c].limit = limit]
             \/ \E c \in CycleId :
                   /\ \A d \in CycleId : cycle[d].sub # s
                   /\ NextAdminCycle(c)
                   /\ cycle' = [cycle EXCEPT ![c] =
                         [sub |-> s, from |-> now, until |-> now + CycleLength,
                          limit |-> limit, used |-> 0]]
    /\ UNCHANGED <<now, pc, goal, bill, plan, reset>>

\* Expired, cancelled, or past its end.
EndSubscription ==
    /\ \E s \in SubId : /\ sub[s].state = "active"
                        /\ sub' = [sub EXCEPT ![s].state = "ended"]
    /\ UNCHANGED <<now, cycle, pc, goal, bill, plan, reset>>

\* reset_cycle reads any cycle that has not ended, in no order. (Without one its
\* insert breaks the foreign key on subscription 0 and nothing changes.)  Another
\* gateway may be resetting the same cycle: there is no lock.
ReadCycleToReset(g) ==
    /\ LoopFree(g)
    /\ \E c \in CycleId : NextAdminCycle(c)    \* bound
    /\ \E c \in CycleId :
          /\ cycle[c].sub # 0 /\ now < cycle[c].until
          /\ reset' = [reset EXCEPT ![g] = [old |-> c, limit |-> cycle[c].limit, at |-> now]]
    /\ UNCHANGED <<now, sub, cycle, pc, goal, bill, plan>>

\* MUTANT of ResetCycle: the cycle it closes has its counter cleared too.
ResetCycleClears(g) ==
    /\ reset[g] # NoReset
    /\ \E c \in CycleId :
          /\ NextCycle(c)
          /\ cycle' = [cycle EXCEPT
                ![reset[g].old].until = reset[g].at, ![reset[g].old].used = 0,
                ![c] = [sub |-> cycle[reset[g].old].sub, from |-> reset[g].at,
                        until |-> reset[g].at + CycleLength,
                        limit |-> reset[g].limit, used |-> 0]]
    /\ reset' = [reset EXCEPT ![g] = NoReset]
    /\ UNCHANGED <<now, sub, pc, goal, bill, plan>>

\* The commit writes only the columns it assigned: used_count is untouched.
ResetCycle(g) ==
    /\ reset[g] # NoReset
    /\ \E c \in CycleId :
          /\ NextCycle(c)
          /\ cycle' = [cycle EXCEPT
                ![reset[g].old].until = reset[g].at,
                ![c] = [sub |-> cycle[reset[g].old].sub, from |-> reset[g].at,
                        until |-> reset[g].at + CycleLength,
                        limit |-> reset[g].limit, used |-> 0]]
    /\ reset' = [reset EXCEPT ![g] = NoReset]
    /\ UNCHANGED <<now, sub, pc, goal, bill, plan>>

Tick == /\ now < MaxTime
        /\ now' = now + 1
        /\ UNCHANGED <<sub, cycle, pc, goal, bill, plan, reset>>

-----------------------------------------------------------------------------
Init == /\ now = 0
        /\ sub = [s \in SubId |-> NoSub]
        /\ cycle = [c \in CycleId |-> NoCycle]
        /\ pc = [r \in Request |-> "new"]
        /\ goal = [r \in Request |-> "charge"]
        /\ bill = [r \in Request |->
                     [price |-> 0, cycle |-> 0, charged |-> 0, returned |-> 0]]
        /\ plan = [r \in Request |-> NoPlan]
        /\ reset = [g \in Gateway |-> NoReset]

ReserveStep(r) ==
    Begin(r) \/ FindNoSubscription(r) \/ FindCycle(r) \/ FindCycleMissing(r)
      \/ InsertCycle(r) \/ Charge(r) \/ BookCharge(r)

SettleStep(r) ==
    SolveSucceeds(r) \/ SolveFails(r) \/ SolveCancelled(r) \/ Refund(r) \/ Answer(r)

AdminStep == \/ \E limit \in Limits : Grant(limit) \/ Activate(limit) \/ Renew(limit)
             \/ EndSubscription
             \/ \E g \in Gateway : ReadCycleToReset(g) \/ ResetCycle(g)

Next == \/ \E r \in Request : ReserveStep(r) \/ SettleStep(r) \/ DatabaseFails(r)
        \/ \E g \in Gateway : Crash(g)
        \/ AdminStep
        \/ Tick

Spec == Init /\ [][Next]_vars

\* A coroutine that holds the loop runs on, the solver answers or fails every job
\* it took, and a handler that began its transaction finishes it.
Fairness == /\ \A r \in Request : WF_vars(ReserveStep(r)) /\ WF_vars(SettleStep(r))
            /\ \A g \in Gateway : WF_vars(ResetCycle(g))

FairSpec == Spec /\ Fairness

-----------------------------------------------------------------------------
(* Properties.                                                             *)

Label == {"new", "lookup", "insert", "charge", "bookcharge", "solving", "refund",
          "balance", "served", "denied", "failed", "errored",
          "cancelled", "lost"}

SubRow == [state : {"none", "active", "ended"}, limit : Nat, from : Nat, until : Nat]
CycleRow == [sub : Nat, from : Nat, until : Nat, limit : Nat, used : Nat]
Bill == [price : Nat, cycle : CycleId \cup {0}, charged : Nat, returned : Nat]
Plan == [sub : SubId \cup {0}, from : Nat, until : Nat, limit : Nat, fresh : BOOLEAN]
Reset == [old : CycleId \cup {0}, limit : Nat, at : Nat]

\* The types of the rows and of the requests' local state.
TypeOK ==
    /\ now \in Nat
    /\ sub \in [SubId -> SubRow]
    /\ cycle \in [CycleId -> CycleRow]
    /\ pc \in [Request -> Label]
    /\ goal \in [Request -> {"charge", "refund", "balance"}]
    /\ bill \in [Request -> Bill]
    /\ plan \in [Request -> Plan]
    /\ reset \in [Gateway -> Reset]

\* The requests whose credits cycle c is short of.
Holders(c) == {r \in Request : /\ bill[r].cycle = c
                               /\ bill[r].charged > 0 /\ bill[r].returned = 0}

\* With the shipped price of one credit, a cycle's counter is the number of
\* requests that paid from it and were not paid back: whatever the gateways,
\* crashes, resets and failed statements do in between, no charge is lost, counted
\* twice, or refunded to another cycle (usage_cycle_service's two UPDATEs).
CounterIsHolders == \A c \in CycleId : cycle[c].used = Cardinality(Holders(c))

\* What the request's answer says agrees with what it cost: a refusal cost nothing,
\* a result is never paid back, and a failed solve that was answered as such has
\* its credit back in full (captcha.py solve()).
AnswerMatchesBill ==
    \A r \in Request :
        /\ pc[r] = "denied" => bill[r].charged = 0
        /\ pc[r] = "served" => bill[r].returned = 0
        /\ pc[r] = "failed" => bill[r].returned = bill[r].charged

\* "The current API attempts to refund a reserved credit when processing fails before
\* a result is returned" (docs/eazyfill_launch/support_faq.md): a call that ended in an
\* error costs nothing, whichever statement failed.
FailureIsRefunded ==
    \A r \in Request :
        pc[r] \in {"failed", "errored"} => bill[r].returned = bill[r].charged

\* Several cycles of one subscription are never open at once.
OneOpenCycle ==
    \A c, d \in CycleId :
        Open(c) /\ Open(d) /\ cycle[c].sub = cycle[d].sub => c = d

\* increment_usage_atomic's promise, "prevents TOCTOU races that could exceed the
\* monthly limit under concurrent load": what the open cycles of a subscription
\* have charged together stays within the allowance of one of them.
WithinMonthlyLimit ==
    \A c, d \in CycleId :
        /\ Open(c) /\ Open(d) /\ c # d /\ cycle[c].sub = cycle[d].sub
        /\ cycle[c].limit = cycle[d].limit
        => cycle[c].used + cycle[d].used =< cycle[c].limit

\* No step that charges takes a counter past the limit of its row, as the row is when
\* it is charged; a renewal may still lower a limit below its counter.
ChargeWithinLimit ==
    [][\A c \in CycleId :
          cycle'[c].used > cycle[c].used => cycle'[c].used =< cycle'[c].limit]_vars

\* A request that got as far as asking for credits ends one way or another.
RequestsFinish == \A r \in Request : pc[r] = "lookup" ~> Finished(r)

\* Metering keeps QuotaPromise when a solve costs one credit: a request's credit
\* is held from its charge to its answer.
CreditOf(r) == IF bill[r].charged = 0 THEN "unused"
               ELSE IF bill[r].returned > 0 THEN "returned"
               ELSE IF Finished(r) THEN "kept" ELSE "held"

Quota == INSTANCE QuotaPromise
           WITH credit <- [r \in Request |-> CreditOf(r)],
                payer <- [r \in Request |->
                            IF bill[r].charged = 0 THEN 0 ELSE bill[r].cycle],
                limit <- [c \in CycleId |-> cycle[c].limit]
QuotaSpec == Quota!Spec
=============================================================================
