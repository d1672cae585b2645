------------------------------ MODULE Payments ------------------------------
(***************************************************************************)
(* One user's Razorpay payments: orders, webhook deliveries, checkout      *)
(* verification and the administrator's decisions, which all end in        *)
(* PaymentService.activate_payment.                                        *)
(*                                                                         *)
(* Code: backend/app/api/webhooks.py, api/v2_routes/billing.py,            *)
(* api/admin_routes/payments.py, services/payment_service.py and           *)
(* services/promo_plan_policy.py; cancellation and expiry from             *)
(* services/subscription_service.py.                                       *)
(*                                                                         *)
(* A handler holds its gateway's event loop from one await to the next;    *)
(* statements and commits of several gateways interleave (READ COMMITTED,  *)
(* sessions without autoflush). Razorpay delivers every event at least     *)
(* once, in any order. The plan of a payment is fixed when it is made. The *)
(* first cycle, the user's status and the API key, which activation writes *)
(* in the same transaction, are not part of this module.                   *)
(***************************************************************************)
EXTENDS Naturals, FiniteSets

CONSTANTS
    Payment,        \* rows of payment_records
    PromoPayment,   \* those for the one promo plan on sale
    Event,          \* webhook events: [payment, kind]; the payment may be unknown
    Handler,        \* requests in progress
    GatewayOf,      \* the gateway of each handler
    RedisAnswers,   \* {TRUE}: Redis always works; FALSE: it is off or raises
    Cancels,        \* BOOLEAN: subscriptions may be cancelled or run out
    Direct,         \* BOOLEAN: the user verifies, the administrator decides
    MaxSubs         \* bound: rows of user_subscriptions

ASSUME ConstantsAssumption ==
    /\ PromoPayment \subseteq Payment
    /\ RedisAnswers \subseteq BOOLEAN
    /\ \A e \in Event : \/ e.kind \in {"stranger", "ignored"}
                        \/ /\ e.kind \in {"captured", "paid", "mismatch", "failed"}
                           /\ e.payment \in Payment
    /\ Cancels \in BOOLEAN
    /\ Direct \in BOOLEAN
    /\ MaxSubs \in Nat

SubId == 1 .. MaxSubs

VARIABLES
    pay,        \* payment_records: status and subscription_id (0: null)
    subs,       \* user_subscriptions: state, and the payment that made it
    event,      \* payment_webhook_events: status of each event's row
    claim,      \* events with a deduplication key in Redis
    hand,       \* each handler: step, payment, event and what it has read
    provider,   \* external: an order's state at Razorpay
    granted     \* history: payments an administrator has approved by hand

vars == <<pay, subs, event, claim, hand, provider, granted>>

Idle == [step |-> "idle"]
Unread == [was |-> "none", keeps |-> FALSE, others |-> {}]
InLoop(h) == hand[h].step \in {"insert", "write", "read", "expire", "commit", "mark"}
LoopFree(g) == \A h \in Handler : GatewayOf[h] = g => ~InLoop(h)
Starts(h) == hand[h] = Idle /\ LoopFree(GatewayOf[h])

\* The handler goes on to another step; or it has answered.
Goes(h, step) == hand' = [hand EXCEPT ![h].step = step]
Ends(h) == hand' = [hand EXCEPT ![h] = Idle]

\* The handler is razorpay_webhook.
ForEvent(h) == "event" \in DOMAIN hand[h]

NextSub(s) == subs[s].state = "none" /\ \A t \in 1 .. s - 1 : subs[t].state # "none"
Active(s) == subs[s].state = "active"

\* MUTANT of Eligible: only an active subscription counts as having had it.
EligibleUnlessActive(p) ==
    p \in PromoPayment =>
        /\ \A s \in SubId : Active(s) => subs[s].payment \notin PromoPayment
        /\ \A q \in PromoPayment \ {p} : pay[q].status # "created"

\* check_promo_plan_eligibility, for a plan open to every user: never had it, and no
\* other payment for it is open.
Eligible(p) ==
    p \in PromoPayment =>
        /\ \A s \in SubId : subs[s].state # "none" => subs[s].payment \notin PromoPayment
        /\ \A q \in PromoPayment \ {p} : pay[q].status # "created"

-----------------------------------------------------------------------------
(* Orders: a row, a call to Razorpay, the order id.                        *)

OrderCheck(h) ==
    /\ Starts(h)
    /\ \E p \in Payment :
          /\ pay[p].status = "none" /\ Eligible(p)
          /\ \A k \in Handler : hand[k] # Idle => hand[k].payment # p    \* ids differ
          /\ hand' = [hand EXCEPT ![h] = [step |-> "insert", payment |-> p]]
    /\ UNCHANGED <<pay, subs, event, claim, provider, granted>>

OrderInsert(h) ==
    /\ hand[h].step = "insert"
    /\ pay' = [pay EXCEPT ![hand[h].payment].status = "created"]
    /\ Goes(h, "order")
    /\ UNCHANGED <<subs, event, claim, provider, granted>>

\* Created and recorded; refused, so the payment failed; or an exception, which
\* leaves the row as it is. The user can pay only once the order id is out.
OrderReply(h) ==
    /\ hand[h].step = "order" /\ LoopFree(GatewayOf[h])
    /\ LET p == hand[h].payment IN
       \/ provider' = [provider EXCEPT ![p] = "ordered"] /\ UNCHANGED pay
       \/ pay' = [pay EXCEPT ![p].status = "failed"] /\ UNCHANGED provider
       \/ UNCHANGED <<pay, provider>>
    /\ Ends(h)
    /\ UNCHANGED <<subs, event, claim, granted>>

\* External: attempts to pay an order fail or, once, succeed.
Pays(p) ==
    \/ provider[p] = "ordered" /\ provider' = [provider EXCEPT ![p] = "tried"]
    \/ provider[p] = "ordered" /\ provider' = [provider EXCEPT ![p] = "captured"]
    \/ provider[p] = "tried" /\ provider' = [provider EXCEPT ![p] = "retried"]

Captured(p) == provider[p] \in {"captured", "retried"}

\* External: what Razorpay may report, and report again.
Reportable(e) ==
    CASE e.kind \in {"captured", "paid", "mismatch"} -> Captured(e.payment)
      [] e.kind = "failed" -> provider[e.payment] \in {"tried", "retried"}
      [] OTHER -> TRUE

UserPays == /\ \E p \in Payment : Pays(p)
            /\ UNCHANGED <<pay, subs, event, claim, hand, granted>>

-----------------------------------------------------------------------------
(* razorpay_webhook.                                                       *)

\* SET NX EX 300; a key that is there already is answered as a duplicate. When Redis
\* raises the event is handled without a key, which may have been set all the same.
Deliver(h) ==
    /\ Starts(h)
    /\ \E e \in Event, redis \in RedisAnswers :
          /\ Reportable(e)
          /\ redis => e \notin claim
          /\ \/ claim' = claim \cup {e}
             \/ ~redis /\ UNCHANGED claim
          /\ hand' = [hand EXCEPT ![h] = [step |-> "look", payment |-> e.payment, event |-> e,
                                          claimed |-> redis, known |-> FALSE,
                                          found |-> Unread]]
    /\ UNCHANGED <<pay, subs, event, provider, granted>>

\* The key outlives any handler, but not for ever.
ClaimExpires(e) ==
    /\ e \in claim
    /\ \A h \in Handler : ForEvent(h) => hand[h].event # e
    /\ claim' = claim \ {e}
    /\ UNCHANGED <<pay, subs, event, hand, provider, granted>>

\* MUTANT of Look: an event is looked up but its status is not.
LookOnly(h) ==
    /\ hand[h].step = "look" /\ LoopFree(GatewayOf[h])
    /\ LET e == hand[h].event IN
       hand' = [hand EXCEPT ![h].step = "write", ![h].known = event[e] # "none"]
    /\ UNCHANGED <<pay, subs, event, claim, provider, granted>>

\* The first SELECT of the event row.
Look(h) ==
    /\ hand[h].step = "look" /\ LoopFree(GatewayOf[h])
    /\ LET e == hand[h].event IN
       IF event[e] = "processed" THEN Ends(h)
       ELSE hand' = [hand EXCEPT ![h].step = "write", ![h].known = event[e] # "none"]
    /\ UNCHANGED <<pay, subs, event, claim, provider, granted>>

\* Its transaction. A row that another delivery has inserted meanwhile makes this one
\* a duplicate.
WriteDuplicate(h) ==
    /\ hand[h].step = "write"
    /\ ~hand[h].known /\ event[hand[h].event] # "none"
    /\ Ends(h)
    /\ UNCHANGED <<pay, subs, event, claim, provider, granted>>

\* The handler may write its event's row, which tells of a kind in kinds.
Writes(h, kinds) ==
    /\ hand[h].step = "write"
    /\ event[hand[h].event] # "none" => hand[h].known
    /\ hand[h].event.kind \in kinds

\* MUTANT of WriteCapture: the event is settled before it is acted on.
WriteCaptureEarly(h) ==
    /\ Writes(h, {"captured", "paid"})
    /\ event' = [event EXCEPT ![hand[h].event] = "processed"]
    /\ Goes(h, "read")
    /\ UNCHANGED <<pay, subs, claim, provider, granted>>

\* A capture is only recorded before it is acted on.
WriteCapture(h) ==
    /\ Writes(h, {"captured", "paid"})
    /\ event' = [event EXCEPT ![hand[h].event] = IF @ = "none" THEN "received" ELSE @]
    /\ Goes(h, "read")
    /\ UNCHANGED <<pay, subs, claim, provider, granted>>

\* MUTANT of WriteFailure: a failed attempt takes the branch of a captured one.
WriteFailureActivates(h) ==
    /\ Writes(h, {"failed"})
    /\ event' = [event EXCEPT ![hand[h].event] = "received"]
    /\ Goes(h, "read")
    /\ UNCHANGED <<pay, subs, claim, provider, granted>>

\* A failed attempt to pay rejects the payment, whatever its status.
WriteFailure(h) ==
    /\ Writes(h, {"failed"})
    /\ event' = [event EXCEPT ![hand[h].event] = "processed"]
    /\ pay' = [pay EXCEPT ![hand[h].payment].status = "rejected"]
    /\ Ends(h)
    /\ UNCHANGED <<subs, claim, provider, granted>>

\* A wrong amount, no such payment, an event of no interest.
WriteOther(h) ==
    /\ \/ /\ Writes(h, {"mismatch", "stranger"})
          /\ event' = [event EXCEPT ![hand[h].event] = "failed"]
       \/ /\ Writes(h, {"ignored"})
          /\ event' = [event EXCEPT ![hand[h].event] = "processed"]
    /\ Ends(h)
    /\ UNCHANGED <<pay, subs, claim, provider, granted>>

\* After activate_payment has returned.
Mark(h) ==
    /\ hand[h].step = "mark"
    /\ event' = [event EXCEPT ![hand[h].event] = "processed"]
    /\ Ends(h)
    /\ UNCHANGED <<pay, subs, claim, provider, granted>>

\* except Exception: the key is deleted, unless Redis raises now, and the 500 makes
\* Razorpay try again.
Release(h) ==
    /\ hand[h].step = "release"
    /\ \E redis \in RedisAnswers :
          claim' = IF hand[h].claimed /\ redis THEN claim \ {hand[h].event} ELSE claim
    /\ Ends(h)
    /\ UNCHANGED <<pay, subs, event, provider, granted>>

-----------------------------------------------------------------------------
(* The other callers of activate_payment, and the activation.              *)

\* The signature proves that an order of Razorpay's is paid: billing.verify_payment
\* activates whatever the status; the checkout page's verification answers at once if
\* it is approved.  The order's id comes with the request and is not compared with the
\* payment's.  That a proof serves its own payment is supposed here; in the code it can
\* serve one only, the provider's payment ids being unique in the table.
Verify(h) ==
    /\ Starts(h) /\ Direct
    /\ \E p \in Payment :
          /\ Captured(p)
          /\ hand' = [hand EXCEPT ![h] = [step |-> "read", payment |-> p, found |-> Unread]]
    /\ UNCHANGED <<pay, subs, event, claim, provider, granted>>

Approve(h) ==
    /\ Starts(h) /\ Direct
    /\ \E p \in Payment :
          /\ pay[p].status # "none"
          /\ granted' = granted \cup {p}
          /\ hand' = [hand EXCEPT ![h] = [step |-> "read", payment |-> p, found |-> Unread]]
    /\ UNCHANGED <<pay, subs, event, claim, provider>>

\* MUTANT of Reject: the administrator's word is stored as it is.
RejectByWord(h) ==
    /\ Starts(h) /\ Direct
    /\ \E p \in Payment : /\ pay[p].status # "none"
                          /\ pay' = [pay EXCEPT ![p].status = "refused"]
    /\ UNCHANGED <<subs, event, claim, hand, provider, granted>>

Reject(h) ==
    /\ Starts(h) /\ Direct
    /\ \E p \in Payment : /\ pay[p].status # "none"
                          /\ pay' = [pay EXCEPT ![p].status = "rejected"]
    /\ UNCHANGED <<subs, event, claim, hand, provider, granted>>

\* What the handler does when activation raises.
Gives(h) == IF ForEvent(h) THEN Goes(h, "release") ELSE Ends(h)

\* The payment, the promo policy, and the payment's own subscription.
ReadPayment(h) ==
    /\ hand[h].step = "read"
    /\ LET p == hand[h].payment
           keeps == pay[p].sub # 0 /\ Active(pay[p].sub)
       IN  IF Eligible(p)
           THEN hand' = [hand EXCEPT ![h].step = IF keeps THEN "commit" ELSE "expire",
                            ![h].found = [was |-> pay[p].status, keeps |-> keeps, others |-> {}]]
           ELSE Gives(h)
    /\ UNCHANGED <<pay, subs, event, claim, provider, granted>>

\* MUTANT of ExpireOthers: only subscriptions of the same payment.
ExpireOwn(h) ==
    /\ hand[h].step = "expire"
    /\ hand' = [hand EXCEPT ![h].step = "commit",
           ![h].found.others = {s \in SubId : Active(s) /\ subs[s].payment = hand[h].payment}]
    /\ UNCHANGED <<pay, subs, event, claim, provider, granted>>

\* UPDATE user_subscriptions SET status = 'expired' WHERE status = 'active': it sees
\* the rows that are committed, and others see it when this transaction commits.
ExpireOthers(h) ==
    /\ hand[h].step = "expire"
    /\ hand' = [hand EXCEPT ![h].step = "commit",
                            ![h].found.others = {s \in SubId : Active(s)}]
    /\ UNCHANGED <<pay, subs, event, claim, provider, granted>>

\* Only a changed status is written back.
Commit(h) ==
    /\ hand[h].step = "commit"
    /\ LET p == hand[h].payment
           status == IF hand[h].found.was = "approved" THEN pay[p].status ELSE "approved"
       IN  IF hand[h].found.keeps
           THEN /\ pay' = [pay EXCEPT ![p].status = status]
                /\ UNCHANGED subs
           ELSE \E s \in SubId :
                   /\ NextSub(s)
                   /\ pay' = [pay EXCEPT ![p] = [status |-> status, sub |-> s]]
                   /\ subs' = [t \in SubId |->
                         IF t = s THEN [state |-> "active", payment |-> p]
                         ELSE IF t \in hand[h].found.others /\ Active(t)
                         THEN [subs[t] EXCEPT !.state = "ended"] ELSE subs[t]]
    /\ IF ForEvent(h) THEN Goes(h, "mark") ELSE Ends(h)
    /\ UNCHANGED <<event, claim, provider, granted>>

\* A statement raises and its transaction is rolled back.
Fails(h) ==
    /\ hand[h].step \in {"look", "insert", "write", "read", "expire", "commit", "mark"}
    /\ Gives(h)
    /\ UNCHANGED <<pay, subs, event, claim, provider, granted>>

Crash(g) ==
    /\ \E h \in Handler : GatewayOf[h] = g /\ hand[h] # Idle
    /\ hand' = [h \in Handler |-> IF GatewayOf[h] = g THEN Idle ELSE hand[h]]
    /\ UNCHANGED <<pay, subs, event, claim, provider, granted>>

\* cancel_subscription, expire_subscription and expire_overdue.
EndSubscription ==
    /\ Cancels
    /\ \E s \in SubId : /\ Active(s)
                        /\ subs' = [subs EXCEPT ![s].state = "ended"]
    /\ UNCHANGED <<pay, event, claim, hand, provider, granted>>

-----------------------------------------------------------------------------
Init == /\ pay = [p \in Payment |-> [status |-> "none", sub |-> 0]]
        /\ subs = [s \in SubId |-> [state |-> "none"]]
        /\ event = [e \in Event |-> "none"]
        /\ claim = {}
        /\ hand = [h \in Handler |-> Idle]
        /\ provider = [p \in Payment |-> "none"]
        /\ granted = {}

OrderStep(h) == OrderCheck(h) \/ OrderInsert(h) \/ OrderReply(h)
WebhookStep(h) == \/ Deliver(h) \/ Look(h) \/ Mark(h) \/ Release(h)
                  \/ WriteDuplicate(h) \/ WriteCapture(h) \/ WriteFailure(h) \/ WriteOther(h)
ActivateStep(h) == Verify(h) \/ Approve(h) \/ ReadPayment(h) \/ ExpireOthers(h) \/ Commit(h)

Next == \/ \E h \in Handler : \/ OrderStep(h) \/ WebhookStep(h) \/ ActivateStep(h)
                              \/ Reject(h) \/ Fails(h)
        \/ \E e \in Event : ClaimExpires(e)
        \/ UserPays
        \/ \E h \in Handler : Crash(GatewayOf[h])
        \/ EndSubscription

Spec == Init /\ [][Next]_vars

-----------------------------------------------------------------------------
Status == {"none", "created", "failed", "approved", "rejected"}
Step == {"idle", "insert", "order", "look", "write", "read", "expire", "commit", "mark",
         "release"}

(* Every row, key and handler holds a value of its column; a payment's     *)
(* subscription is one it made; a released key was the handler's own.      *)
TypeOK ==
    /\ \A p \in Payment :
          /\ pay[p].status \in Status
          /\ pay[p].sub # 0 => subs[pay[p].sub].state # "none" /\ subs[pay[p].sub].payment = p
    /\ \A s \in SubId : subs[s].state # "none" =>
                          subs[s].state \in {"active", "ended"} /\ subs[s].payment \in Payment
    /\ event \in [Event -> {"none", "received", "processed", "failed"}]
    /\ claim \subseteq Event /\ granted \subseteq Payment
    /\ \A h \in Handler : /\ hand[h].step \in Step
                          /\ hand[h].step = "release" => ForEvent(h)
    /\ provider \in [Payment -> {"none", "ordered", "tried", "captured", "retried"}]

(* On one gateway activate_payment's read, update and insert are one       *)
(* section of the event loop, so however orders, webhooks, verifications,  *)
(* approvals and cancellations interleave, a user has one active           *)
(* subscription at most. Nothing in the database enforces it.              *)
OneActive == Cardinality({s \in SubId : Active(s)}) <= 1

(* The promo plan "can be availed only once per user": not even a payment  *)
(* opened before, or verified again after the first was cancelled, makes a *)
(* second subscription of it.                                              *)
PromoOnce ==
    \A s, t \in SubId :
        /\ subs[s].state # "none" /\ subs[s].payment \in PromoPayment
        /\ subs[t].state # "none" /\ subs[t].payment \in PromoPayment
        => s = t

(* Every subscription was paid for or approved by hand: no order of        *)
(* failures, mismatches, duplicates and rejections activates another one.  *)
NothingUnpaid ==
    \A s \in SubId : subs[s].state # "none" =>
        Captured(subs[s].payment) \/ subs[s].payment \in granted

(* A capture is settled only once it has been acted on, across rollbacks   *)
(* and crashes between the webhook's three transactions; and a payment     *)
(* that is approved has been given its subscription.                       *)
ProcessedWasApplied ==
    /\ \A e \in Event : e.kind \in {"captured", "paid"} /\ event[e] = "processed"
                         => pay[e.payment].sub # 0
    /\ \A p \in Payment : pay[p].status = "approved" => pay[p].sub # 0

(* On one gateway an event that is settled is not acted on again, with or  *)
(* without Redis: the row alone stops a duplicate that was let through.    *)
SettledIsLeftAlone ==
    \A h \in Handler : ForEvent(h) /\ hand[h].step \in {"write", "read", "expire", "commit"}
                       => event[hand[h].event] # "processed"

(* Replaying an event makes no second subscription of its payment          *)
(* (docs/razorpay_staging_validation.md:68), whatever gateways it reaches. *)
ReplayMakesNoDuplicate ==
    \A s, t \in SubId :
        /\ subs[s].state # "none" /\ subs[t].state # "none"
        /\ subs[s].payment = subs[t].payment
        => s = t
=============================================================================
