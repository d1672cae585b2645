--------------------------- MODULE Payments_proofs ---------------------------
(***************************************************************************)
(* Proofs about Payments, for any number of payments, events, handlers and *)
(* gateways, with or without Redis, cancellations and direct decisions.    *)
(***************************************************************************)
EXTENDS Payments, FiniteSetTheorems, TLAPS

Provider == {"none", "ordered", "tried", "captured", "retried"}
Account == [status : Status, sub : SubId \cup {0}]
Row == [state : {"none"}] \cup [state : {"active", "ended"}, payment : Payment]

\* The rows of the tables, and the two properties that are about rows alone.
Rows ==
    /\ pay \in [Payment -> Account]
    /\ subs \in [SubId -> Row]
    /\ event \in [Event -> {"none", "received", "processed", "failed"}]
    /\ claim \subseteq Event /\ granted \subseteq Payment
    /\ provider \in [Payment -> Provider]
    /\ \A p \in Payment : pay[p].sub # 0 =>
          subs[pay[p].sub].state # "none" /\ subs[pay[p].sub].payment = p
    /\ \A p \in Payment : provider[p] # "none" => pay[p].status # "none"
    /\ NothingUnpaid
    /\ ProcessedWasApplied

\* A payment whose order is being made is unknown to Razorpay, and to other orders.
Ordering(h) == hand[h].step \in {"insert", "order"}
Orders ==
    \A h \in Handler : Ordering(h) =>
        /\ hand[h].payment \in Payment /\ provider[hand[h].payment] = "none"
        /\ \A k \in Handler \ {h} : Ordering(k) => hand[k].payment # hand[h].payment

\* What a handler knows at each step. Until it writes, its event is a true report of
\* Razorpay's; once it activates, its payment is captured or approved by hand; if it
\* keeps a subscription, or marks its event, the payment has one.
Knows(h) ==
    /\ "step" \in DOMAIN hand[h] /\ hand[h].step \in Step
    /\ hand[h].step # "idle" => "payment" \in DOMAIN hand[h]
    /\ ForEvent(h) => /\ "payment" \in DOMAIN hand[h] /\ hand[h].event \in Event
                      /\ hand[h].payment = hand[h].event.payment
    /\ hand[h].step = "order" => /\ hand[h].payment \in Payment
                                 /\ pay[hand[h].payment].status # "none"
    /\ hand[h].step \in {"look", "write"} =>
          /\ ForEvent(h)
          /\ "found" \in DOMAIN hand[h] /\ hand[h].found = Unread
          /\ hand[h].event.kind \in {"captured", "paid"} => Captured(hand[h].payment)
    /\ hand[h].step \in {"read", "expire", "commit"} =>
          /\ "found" \in DOMAIN hand[h] /\ "keeps" \in DOMAIN hand[h].found
          /\ hand[h].payment \in Payment
          /\ Captured(hand[h].payment) \/ hand[h].payment \in granted
    /\ hand[h].step \in {"expire", "commit"} /\ hand[h].found.keeps =>
          pay[hand[h].payment].sub # 0
    /\ hand[h].step = "mark" =>
          ForEvent(h) /\ hand[h].payment \in Payment /\ pay[hand[h].payment].sub # 0
    /\ hand[h].step = "release" => ForEvent(h)

IInv == /\ Rows
        /\ hand = [h \in Handler |-> hand[h]]
        /\ Orders
        /\ \A h \in Handler : Knows(h)

\* What handlers rely on is never taken back.
Grows == /\ \A p \in Payment : /\ Captured(p) => Captured(p)'
                               /\ pay[p].sub # 0 => pay'[p].sub # 0
                               /\ pay[p].status # "none" => pay'[p].status # "none"
         /\ granted \subseteq granted'

-----------------------------------------------------------------------------
LEMMA Initially == Init => IInv
  <1> SUFFICES ASSUME Init PROVE IInv
    OBVIOUS
  <1> USE ConstantsAssumption DEF Init
  <1>1. Rows
    BY DEF Rows, Account, Row, Status, Provider, NothingUnpaid, ProcessedWasApplied, SubId
  <1>2. \A h \in Handler : Knows(h)
    BY DEF Knows, Idle, Step, ForEvent
  <1> QED
    BY <1>1, <1>2 DEF IInv, Orders, Ordering, Idle

\* A handler that does not move still knows what it knew.
LEMMA StillKnows ==
    ASSUME NEW h \in Handler, Knows(h), Rows, Grows, hand'[h] = hand[h]
    PROVE  Knows(h)'
  <1>1. hand[h].event \in Event /\ hand[h].event.kind \in {"captured", "paid"}
          => hand[h].event.payment \in Payment
    BY ConstantsAssumption
  <1> QED
    BY <1>1 DEF Knows, Grows, ForEvent

\* One handler moves, or none.
LEMMA AllKnow ==
    ASSUME IInv, Grows, NEW m \in Handler, Knows(m)',
           \A h \in Handler \ {m} : hand'[h] = hand[h]
    PROVE  \A h \in Handler : Knows(h)'
  BY StillKnows DEF IInv

LEMMA OneMoves ==
    ASSUME IInv, Grows, Rows', UNCHANGED provider, hand' = [h \in Handler |-> hand'[h]],
           NEW m \in Handler, Knows(m)',
           Ordering(m)' => Ordering(m) /\ hand'[m].payment = hand[m].payment,
           \A h \in Handler \ {m} : hand'[h] = hand[h]
    PROVE  IInv'
  <1>1. Orders'
    BY DEF IInv, Orders, Ordering
  <1> QED
    BY <1>1, AllKnow DEF IInv

LEMMA NoneMoves ==
    ASSUME IInv, Grows, Rows', UNCHANGED hand,
           \A p \in Payment : provider[p] = "none" => provider'[p] = "none"
    PROVE  IInv'
  <1>1. Orders'
    BY DEF IInv, Orders, Ordering
  <1> QED
    BY <1>1, StillKnows DEF IInv

\* Rows depend on the tables, the keys and what Razorpay holds, not on handlers.
LEMMA SameRows ==
    ASSUME Rows, claim' \subseteq Event, granted' \subseteq Payment, granted \subseteq granted',
           UNCHANGED <<pay, subs, event, provider>>
    PROVE  Rows' /\ Grows
  BY DEF Rows, Grows, NothingUnpaid, ProcessedWasApplied, Captured

\* So do they when a payment is opened, refused or rejected.
LEMMA StatusChanges ==
    ASSUME Rows, pay' \in [Payment -> Account],
           \A p \in Payment : /\ pay'[p].sub = pay[p].sub
                              /\ \/ pay'[p].status = pay[p].status
                                 \/ pay'[p].status \in {"created", "failed", "rejected"},
           event' \in [Event -> {"none", "received", "processed", "failed"}],
           \A e \in Event : e.kind \in {"captured", "paid"} /\ event'[e] = "processed" =>
                              event[e] = "processed" \/ pay[e.payment].sub # 0,
           UNCHANGED <<subs, claim, granted, provider>>
    PROVE  Rows' /\ Grows
  <1>1. \A e \in Event : e.kind \in {"captured", "paid"} => e.payment \in Payment
    BY ConstantsAssumption
  <1>2. ProcessedWasApplied'
    BY <1>1 DEF Rows, ProcessedWasApplied
  <1>3. NothingUnpaid'
    BY DEF Rows, NothingUnpaid, Captured
  <1> QED
    BY <1>2, <1>3 DEF Rows, Grows, Captured

\* The status of one payment is set.
LEMMA SetStatus ==
    ASSUME Rows, NEW p \in Payment, NEW status \in {"created", "failed", "rejected"},
           pay' = [pay EXCEPT ![p].status = status]
    PROVE  /\ pay' \in [Payment -> Account]
           /\ \A q \in Payment : /\ pay'[q].sub = pay[q].sub
                                 /\ \/ pay'[q].status = pay[q].status
                                    \/ pay'[q].status \in {"created", "failed", "rejected"}
           /\ pay'[p].status = status
  BY DEF Rows, Account, Status

\* So do they when Razorpay makes an order or the user pays.
LEMMA ProviderChanges ==
    ASSUME Rows, provider' \in [Payment -> Provider],
           \A p \in Payment : /\ Captured(p) => Captured(p)'
                              /\ provider'[p] # "none" => pay[p].status # "none",
           UNCHANGED <<pay, subs, event, claim, granted>>
    PROVE  Rows' /\ Grows
  <1>1. \A s \in SubId : subs[s].state # "none" => subs[s].payment \in Payment
    BY DEF Rows, Row
  <1>2. NothingUnpaid'
    BY <1>1 DEF Rows, NothingUnpaid
  <1> QED
    BY <1>2 DEF Rows, Grows, ProcessedWasApplied

\* A handler that goes to another step keeps the rest of its record.
LEMMA GoesOn ==
    ASSUME IInv, NEW h \in Handler, NEW s, Goes(h, s)
    PROVE  /\ hand' = [k \in Handler |-> hand'[k]]
           /\ \A k \in Handler \ {h} : hand'[k] = hand[k]
           /\ DOMAIN hand'[h] = DOMAIN hand[h]
           /\ hand'[h].step = s
           /\ "payment" \in DOMAIN hand[h] => hand'[h].payment = hand[h].payment
           /\ "event" \in DOMAIN hand[h] => hand'[h].event = hand[h].event
           /\ "found" \in DOMAIN hand[h] => hand'[h].found = hand[h].found
  BY DEF IInv, Goes, Knows

\* A handler that has answered knows nothing.
LEMMA Answered ==
    ASSUME IInv, NEW h \in Handler, Ends(h)
    PROVE  /\ hand' = [k \in Handler |-> hand'[k]]
           /\ \A k \in Handler \ {h} : hand'[k] = hand[k]
           /\ Knows(h)' /\ ~Ordering(h)'
  BY DEF IInv, Ends, Knows, Idle, Step, ForEvent, Ordering

\* The end of a step that leads to a step outside the making of an order.
LEMMA MovesTo ==
    ASSUME IInv, Rows', Grows, UNCHANGED provider, NEW h \in Handler,
           NEW s \in Step \ {"insert", "order"}, Goes(h, s), Knows(h)'
    PROVE  IInv'
  <1>1. ~Ordering(h)'
    BY GoesOn DEF Ordering
  <1> QED
    BY <1>1, GoesOn, OneMoves

LEMMA Ended ==
    ASSUME IInv, Rows', Grows, UNCHANGED provider, NEW h \in Handler, Ends(h)
    PROVE  IInv'
  BY Answered, OneMoves

\* Activation raises: a webhook releases its key, the others are over.
LEMMA GivesUp ==
    ASSUME IInv, Rows', Grows, UNCHANGED provider, NEW h \in Handler, Gives(h)
    PROVE  IInv'
  <1>1. CASE ForEvent(h)
    <2>1. Goes(h, "release")
      BY <1>1 DEF Gives
    <2>2. Knows(h)
      BY DEF IInv
    <2>3. /\ hand'[h].step = "release" /\ DOMAIN hand'[h] = DOMAIN hand[h]
          /\ "payment" \in DOMAIN hand[h]
          /\ hand'[h].payment = hand[h].payment /\ hand'[h].event = hand[h].event
      BY <1>1, <2>1, <2>2, GoesOn DEF Knows, ForEvent
    <2>4. Knows(h)' /\ ~Ordering(h)'
      BY <1>1, <2>2, <2>3 DEF Knows, ForEvent, Step, Ordering
    <2> QED
      BY <2>1, <2>4, GoesOn, OneMoves
  <1>2. CASE ~ForEvent(h)
    BY <1>2, Answered, OneMoves DEF Gives
  <1> QED
    BY <1>1, <1>2

-----------------------------------------------------------------------------
(* Orders.                                                                 *)

LEMMA OrderStepKeeps ==
    ASSUME IInv, NEW h \in Handler, OrderStep(h)
    PROVE  IInv'
  <1>1. CASE OrderCheck(h)
    <2>1. PICK p \in Payment :
            /\ pay[p].status = "none"
            /\ \A k \in Handler : hand[k] # Idle => hand[k].payment # p
            /\ hand' = [hand EXCEPT ![h] = [step |-> "insert", payment |-> p]]
      BY <1>1 DEF OrderCheck
    <2>2. UNCHANGED <<pay, subs, event, claim, provider, granted>>
      BY <1>1 DEF OrderCheck
    <2>3. Rows' /\ Grows
      BY <2>2, SameRows DEF IInv, Rows
    <2>4. /\ hand'[h] = [step |-> "insert", payment |-> p]
          /\ \A k \in Handler \ {h} : hand'[k] = hand[k]
          /\ hand' = [k \in Handler |-> hand'[k]]
      BY <2>1 DEF IInv
    <2>5. Knows(h)'
      BY <2>4 DEF Knows, ForEvent, Step
    <2>6. \A k \in Handler \ {h} : Ordering(k)' => Ordering(k) /\ hand[k].payment # p
      BY <2>1, <2>4 DEF Ordering, Idle
    <2>7. Orders'
      BY <2>1, <2>2, <2>4, <2>6 DEF IInv, Rows, Orders, Ordering
    <2> QED
      BY <2>3, <2>4, <2>5, <2>7, AllKnow DEF IInv
  <1>2. CASE OrderInsert(h)
    <2>1. /\ Rows /\ hand[h].payment \in Payment
          /\ pay' = [pay EXCEPT ![hand[h].payment].status = "created"]
          /\ UNCHANGED <<subs, event, claim, provider, granted>>
      BY <1>2 DEF OrderInsert, IInv, Orders, Ordering
    <2>2. Rows' /\ Grows
      <3>1. /\ event' \in [Event -> {"none", "received", "processed", "failed"}]
            /\ \A e \in Event : event'[e] = event[e]
        BY <2>1 DEF Rows
      <3> QED
        BY <2>1, <3>1, SetStatus, StatusChanges
    <2>3. Goes(h, "order") /\ hand[h].step = "insert" /\ UNCHANGED provider
      BY <1>2 DEF OrderInsert
    <2>4. Ordering(h) /\ hand[h].payment \in Payment
      BY <2>3 DEF IInv, Orders, Ordering
    <2>5. pay'[hand[h].payment].status = "created"
      BY <2>1, SetStatus
    <2>6. Knows(h)' /\ hand'[h].payment = hand[h].payment
      BY <2>3, <2>4, <2>5, GoesOn DEF IInv, Knows, ForEvent, Step
    <2> QED
      BY <2>3, <2>4, <2>6, <2>2, GoesOn, OneMoves
  <1>3. CASE OrderReply(h)
    <2> DEFINE p == hand[h].payment
    <2>1. p \in Payment /\ provider[p] = "none" /\ pay[p].status # "none" /\ Ordering(h)
      BY <1>3 DEF OrderReply, IInv, Orders, Ordering, Knows
    <2>2. Ends(h) /\ UNCHANGED <<subs, event, claim, granted>>
      BY <1>3 DEF OrderReply
    <2>3. CASE provider' = [provider EXCEPT ![p] = "ordered"] /\ UNCHANGED pay
      <3>1. \A q \in Payment : /\ provider'[q] \in Provider
                               /\ q # p => provider'[q] = provider[q]
                               /\ Captured(q)' <=> Captured(q)
        BY <2>1, <2>3 DEF IInv, Rows, Provider, Captured
      <3>2. Rows' /\ Grows
        BY <2>1, <2>2, <2>3, <3>1, ProviderChanges DEF IInv, Rows, Provider
      <3>3. \A k \in Handler \ {h} : Ordering(k) => hand[k].payment # p
        BY <2>1 DEF IInv, Orders
      <3>4. Orders'
        BY <2>2, <3>1, <3>3, Answered DEF IInv, Orders, Ordering
      <3> QED
        BY <2>2, <3>2, <3>4, Answered, AllKnow DEF IInv
    <2>4. CASE pay' = [pay EXCEPT ![p].status = "failed"] /\ UNCHANGED provider
      <3>1. Rows /\ event' \in [Event -> {"none", "received", "processed", "failed"}]
        BY <2>2 DEF IInv, Rows
      <3>2. Rows' /\ Grows
        BY <2>1, <2>2, <2>4, <3>1, SetStatus, StatusChanges
      <3> QED
        BY <2>2, <2>4, <3>2, Answered, OneMoves
    <2>5. CASE UNCHANGED <<pay, provider>>
      <3>1. Rows' /\ Grows
        BY <2>2, <2>5, SameRows DEF IInv, Rows
      <3> QED
        BY <2>2, <2>5, <3>1, Answered, OneMoves
    <2> QED
      BY <1>3, <2>3, <2>4, <2>5 DEF OrderReply
  <1> QED
    BY <1>1, <1>2, <1>3 DEF OrderStep

-----------------------------------------------------------------------------
(* Webhooks.                                                               *)

LEMMA DeliverKeeps ==
    ASSUME IInv, NEW h \in Handler, Deliver(h)
    PROVE  IInv'
  <1>1. PICK e \in Event, redis \in RedisAnswers :
          /\ Reportable(e)
          /\ claim' = claim \cup {e} \/ UNCHANGED claim
          /\ hand' = [hand EXCEPT ![h] = [step |-> "look", payment |-> e.payment, event |-> e,
                                          claimed |-> redis, known |-> FALSE,
                                          found |-> Unread]]
    BY DEF Deliver
  <1>2. UNCHANGED <<pay, subs, event, provider, granted>>
    BY DEF Deliver
  <1>3. Rows' /\ Grows
    <2>1. claim' \subseteq Event
      BY <1>1 DEF IInv, Rows
    <2> QED
      BY <1>2, <2>1, SameRows DEF IInv, Rows
  <1>4. /\ hand'[h] = [step |-> "look", payment |-> e.payment, event |-> e,
                       claimed |-> redis, known |-> FALSE, found |-> Unread]
        /\ \A k \in Handler \ {h} : hand'[k] = hand[k]
        /\ hand' = [k \in Handler |-> hand'[k]]
    BY <1>1 DEF IInv
  <1>5. e.kind \in {"captured", "paid"} => Captured(e.payment)'
    BY <1>1, <1>2 DEF Reportable, Captured
  <1>6. Knows(h)' /\ ~Ordering(h)'
    BY <1>4, <1>5 DEF Knows, ForEvent, Step, Ordering
  <1> QED
    BY <1>2, <1>3, <1>4, <1>6, OneMoves

LEMMA LookKeeps ==
    ASSUME IInv, NEW h \in Handler, Look(h)
    PROVE  IInv'
  <1>1. Knows(h) /\ hand[h].step = "look" /\ UNCHANGED <<pay, subs, event, claim, provider, granted>>
    BY DEF Look, IInv
  <1>2. Rows' /\ Grows
    BY <1>1, SameRows DEF IInv, Rows
  <1>3. CASE Ends(h)
    BY <1>1, <1>2, <1>3, Ended
  <1>4. CASE hand' = [hand EXCEPT ![h].step = "write",
                         ![h].known = event[hand[h].event] # "none"]
    <2>1. /\ \A k \in Handler \ {h} : hand'[k] = hand[k]
          /\ hand' = [k \in Handler |-> hand'[k]]
          /\ DOMAIN hand'[h] = DOMAIN hand[h] /\ hand'[h].step = "write"
      BY <1>1, <1>4 DEF IInv, Knows
    <2>2. /\ hand'[h].payment = hand[h].payment
          /\ hand'[h].event = hand[h].event
          /\ hand'[h].found = hand[h].found
      BY <1>1, <1>4 DEF IInv, Knows, ForEvent
    <2>3. Knows(h)' /\ ~Ordering(h)'
      BY <1>1, <2>1, <2>2 DEF Knows, ForEvent, Step, Ordering, Captured
    <2> QED
      BY <1>1, <1>2, <2>1, <2>3, OneMoves
  <1> QED
    BY <1>3, <1>4 DEF Look

\* The event's row is set to a status that settles no capture that has had no effect.
LEMMA SetEvent ==
    ASSUME Rows, NEW e \in Event, UNCHANGED <<pay, subs, claim, granted, provider>>,
           NEW status \in {"received", "processed", "failed"},
           event' = [event EXCEPT ![e] = status],
           status = "processed" =>
              e.kind \notin {"captured", "paid"} \/ pay[e.payment].sub # 0
    PROVE  Rows' /\ Grows
  <1>1. /\ event' \in [Event -> {"none", "received", "processed", "failed"}]
        /\ \A d \in Event : d.kind \in {"captured", "paid"} /\ event'[d] = "processed" =>
                              event[d] = "processed" \/ pay[d.payment].sub # 0
    BY DEF Rows
  <1>2. pay' \in [Payment -> Account] /\ pay' = pay
    BY DEF Rows
  <1> QED
    BY <1>1, <1>2, StatusChanges

LEMMA WriteKeeps ==
    ASSUME IInv, NEW h \in Handler,
           WriteDuplicate(h) \/ WriteCapture(h) \/ WriteFailure(h) \/ WriteOther(h)
    PROVE  IInv'
  <1> DEFINE e == hand[h].event
  <1>1. Knows(h) /\ hand[h].step = "write" /\ UNCHANGED <<subs, claim, provider, granted>>
    BY DEF IInv, WriteDuplicate, WriteCapture, WriteFailure, WriteOther, Writes
  <1>2. Rows /\ e \in Event /\ ForEvent(h) /\ hand[h].payment = e.payment
    BY <1>1 DEF IInv, Knows
  <1>3. CASE WriteDuplicate(h)
    <2>1. Rows' /\ Grows
      BY <1>2, <1>3, SameRows DEF Rows, WriteDuplicate
    <2> QED
      BY <1>3, <2>1, Ended DEF WriteDuplicate
  <1>4. CASE WriteCapture(h)
    <2>1. Goes(h, "read") /\ e.kind \in {"captured", "paid"} /\ UNCHANGED pay
      BY <1>4 DEF WriteCapture, Writes
    <2>2. Rows' /\ Grows
      <3>1. /\ event' \in [Event -> {"none", "received", "processed", "failed"}]
            /\ \A d \in Event : event'[d] = "processed" => event[d] = "processed"
        BY <1>2, <1>4 DEF Rows, WriteCapture
      <3>2. pay' \in [Payment -> Account] /\ pay' = pay
        BY <1>2, <2>1 DEF Rows
      <3> QED
        BY <1>1, <1>2, <3>1, <3>2, StatusChanges
    <2>3. e.payment \in Payment
      BY <1>2, <2>1, ConstantsAssumption
    <2>4. /\ DOMAIN hand'[h] = DOMAIN hand[h] /\ hand'[h].step = "read"
          /\ hand'[h].payment = e.payment /\ hand'[h].event = e
          /\ "found" \in DOMAIN hand[h] /\ hand'[h].found = Unread
      BY <1>1, <1>2, <2>1, GoesOn DEF Knows, ForEvent
    <2>5. Knows(h)'
      BY <1>1, <1>2, <2>1, <2>3, <2>4 DEF Knows, ForEvent, Step, Unread, Captured
    <2> QED
      BY <1>1, <2>1, <2>2, <2>5, MovesTo DEF Step
  <1>5. CASE WriteFailure(h)
    <2>1. e.kind = "failed" /\ Ends(h)
      BY <1>5 DEF WriteFailure, Writes
    <2>2. e.payment \in Payment /\ pay' = [pay EXCEPT ![e.payment].status = "rejected"]
      BY <1>2, <1>5, <2>1, ConstantsAssumption DEF WriteFailure
    <2>3. /\ event' \in [Event -> {"none", "received", "processed", "failed"}]
          /\ \A d \in Event : d # e => event'[d] = event[d]
      BY <1>2, <1>5 DEF Rows, WriteFailure
    <2>4. Rows' /\ Grows
      BY <1>1, <1>2, <2>1, <2>2, <2>3, SetStatus, StatusChanges
    <2> QED
      BY <1>1, <2>1, <2>4, Ended
  <1>6. CASE WriteOther(h)
    <2>1. /\ Ends(h) /\ UNCHANGED pay
          /\ \/ event' = [event EXCEPT ![e] = "failed"]
             \/ e.kind = "ignored" /\ event' = [event EXCEPT ![e] = "processed"]
      BY <1>6 DEF WriteOther, Writes
    <2>2. Rows' /\ Grows
      BY <1>1, <1>2, <2>1, SetEvent
    <2> QED
      BY <1>1, <2>1, <2>2, Ended
  <1> QED
    BY <1>3, <1>4, <1>5, <1>6

LEMMA MarkKeeps ==
    ASSUME IInv, NEW h \in Handler, Mark(h)
    PROVE  IInv'
  <1>1. /\ Rows /\ hand[h].event \in Event /\ pay[hand[h].event.payment].sub # 0
        /\ Ends(h) /\ event' = [event EXCEPT ![hand[h].event] = "processed"]
        /\ UNCHANGED <<pay, subs, claim, provider, granted>>
    BY DEF IInv, Knows, Mark
  <1>2. Rows' /\ Grows
    BY <1>1, SetEvent
  <1> QED
    BY <1>1, <1>2, Ended

LEMMA ReleaseKeeps ==
    ASSUME IInv, NEW h \in Handler, Release(h)
    PROVE  IInv'
  <1>1. Rows' /\ Grows
    BY SameRows DEF IInv, Rows, Release
  <1> QED
    BY <1>1, Ended DEF Release

-----------------------------------------------------------------------------
(* Decisions and activation.                                               *)

\* A request that activates a paid or approved payment.
LEMMA BeginsToActivate ==
    ASSUME IInv, Rows', Grows, UNCHANGED <<pay, provider>>,
           NEW h \in Handler, NEW p \in Payment, Captured(p) \/ p \in granted',
           hand' = [hand EXCEPT ![h] = [step |-> "read", payment |-> p, found |-> Unread]]
    PROVE  IInv'
  <1>1. /\ hand'[h] = [step |-> "read", payment |-> p, found |-> Unread]
        /\ \A k \in Handler \ {h} : hand'[k] = hand[k]
        /\ hand' = [k \in Handler |-> hand'[k]]
    BY DEF IInv
  <1>2. Knows(h)' /\ ~Ordering(h)'
    BY <1>1 DEF Knows, ForEvent, Step, Unread, Ordering, Captured
  <1> QED
    BY <1>1, <1>2, OneMoves

LEMMA DecisionKeeps ==
    ASSUME IInv, NEW h \in Handler, Verify(h) \/ Approve(h) \/ Reject(h)
    PROVE  IInv'
  <1>1. CASE Verify(h)
    <2>1. PICK p \in Payment :
            /\ Captured(p)
            /\ hand' = [hand EXCEPT ![h] = [step |-> "read", payment |-> p, found |-> Unread]]
      BY <1>1 DEF Verify
    <2>2. Rows' /\ Grows /\ UNCHANGED <<pay, provider>>
      BY <1>1, SameRows DEF IInv, Rows, Verify
    <2> QED
      BY <2>1, <2>2, BeginsToActivate
  <1>2. CASE Approve(h)
    <2>1. PICK p \in Payment :
            /\ granted' = granted \cup {p}
            /\ hand' = [hand EXCEPT ![h] = [step |-> "read", payment |-> p, found |-> Unread]]
      BY <1>2 DEF Approve
    <2>2. /\ UNCHANGED <<pay, subs, event, claim, provider>>
          /\ claim' \subseteq Event /\ granted' \subseteq Payment
      BY <1>2, <2>1 DEF IInv, Rows, Approve
    <2>3. Rows' /\ Grows
      BY <2>1, <2>2, SameRows DEF IInv
    <2> QED
      BY <2>1, <2>2, <2>3, BeginsToActivate
  <1>3. CASE Reject(h)
    <2>1. /\ \E p \in Payment : pay' = [pay EXCEPT ![p].status = "rejected"]
          /\ UNCHANGED <<subs, event, claim, hand, provider, granted>>
      BY <1>3 DEF Reject
    <2>2. Rows /\ event' \in [Event -> {"none", "received", "processed", "failed"}]
      BY <2>1 DEF IInv, Rows
    <2>3. Rows' /\ Grows
      BY <2>1, <2>2, SetStatus, StatusChanges
    <2> QED
      BY <2>1, <2>3, NoneMoves
  <1> QED
    BY <1>1, <1>2, <1>3

LEMMA ReadPaymentKeeps ==
    ASSUME IInv, NEW h \in Handler, ReadPayment(h)
    PROVE  IInv'
  <1> DEFINE p == hand[h].payment
             keeps == pay[p].sub # 0 /\ Active(pay[p].sub)
             next == IF keeps THEN "commit" ELSE "expire"
             found == [was |-> pay[p].status, keeps |-> keeps, others |-> {}]
  <1>1. Knows(h) /\ hand[h].step = "read" /\ UNCHANGED <<pay, subs, event, claim, provider, granted>>
    BY DEF IInv, ReadPayment
  <1>2. Rows' /\ Grows
    BY <1>1, SameRows DEF IInv, Rows
  <1>3. CASE hand' = [hand EXCEPT ![h].step = next, ![h].found = found]
    <2>1. /\ \A k \in Handler \ {h} : hand'[k] = hand[k]
          /\ hand' = [k \in Handler |-> hand'[k]]
          /\ DOMAIN hand'[h] = DOMAIN hand[h]
          /\ hand'[h].step = next /\ hand'[h].found = found
      BY <1>1, <1>3 DEF IInv, Knows
    <2>2. /\ "payment" \in DOMAIN hand[h]
          /\ hand'[h].payment = p
          /\ ForEvent(h) => hand'[h].event = hand[h].event
      BY <1>1, <1>3 DEF IInv, Knows, ForEvent
    <2>3. /\ "keeps" \in DOMAIN found /\ (found.keeps => pay[p].sub # 0)
          /\ next \in {"expire", "commit"}
      OBVIOUS
    <2> HIDE DEF next, found
    <2>4. Knows(h)' /\ ~Ordering(h)'
      BY <1>1, <2>1, <2>2, <2>3 DEF Knows, ForEvent, Step, Ordering, Captured
    <2> QED
      BY <1>1, <1>2, <2>1, <2>4, OneMoves
  <1>4. CASE Gives(h)
    BY <1>1, <1>2, <1>4, GivesUp
  <1> QED
    BY <1>3, <1>4 DEF ReadPayment

LEMMA ExpireOthersKeeps ==
    ASSUME IInv, NEW h \in Handler, ExpireOthers(h)
    PROVE  IInv'
  <1>1. Knows(h) /\ hand[h].step = "expire"
        /\ UNCHANGED <<pay, subs, event, claim, provider, granted>>
    BY DEF IInv, ExpireOthers
  <1>2. Rows' /\ Grows
    BY <1>1, SameRows DEF IInv, Rows
  <1>3. /\ \A k \in Handler \ {h} : hand'[k] = hand[k]
        /\ hand' = [k \in Handler |-> hand'[k]]
        /\ DOMAIN hand'[h] = DOMAIN hand[h] /\ hand'[h].step = "commit"
    BY <1>1 DEF IInv, Knows, ExpireOthers
  <1>4. /\ "payment" \in DOMAIN hand[h]
        /\ hand'[h].payment = hand[h].payment
        /\ ForEvent(h) => hand'[h].event = hand[h].event
        /\ hand'[h].found = [hand[h].found EXCEPT !.others = {s \in SubId : Active(s)}]
    BY <1>1 DEF IInv, Knows, ForEvent, ExpireOthers
  <1>5. "keeps" \in DOMAIN hand'[h].found /\ hand'[h].found.keeps = hand[h].found.keeps
    BY <1>1, <1>4 DEF Knows
  <1>6. Knows(h)' /\ ~Ordering(h)'
    BY <1>1, <1>3, <1>4, <1>5 DEF Knows, ForEvent, Step, Ordering, Captured
  <1> QED
    BY <1>1, <1>2, <1>3, <1>6, OneMoves

LEMMA CommitKeeps ==
    ASSUME IInv, NEW h \in Handler, Commit(h)
    PROVE  IInv'
  <1> DEFINE p == hand[h].payment
             status == IF hand[h].found.was = "approved" THEN pay[p].status ELSE "approved"
  <1>1. /\ Rows /\ Knows(h) /\ hand[h].step = "commit" /\ p \in Payment
        /\ Captured(p) \/ p \in granted
        /\ UNCHANGED <<event, claim, provider, granted>>
    BY DEF IInv, Knows, Commit
  <1>2. status \in Status \ {"none"} \/ status = pay[p].status
    BY DEF Status
  <1>3. \A q \in Payment : pay[q] \in Account /\ pay[q].status \in Status
    BY <1>1 DEF Rows, Account
  <1> HIDE DEF status
  <1>4. Rows' /\ Grows /\ pay'[p].sub # 0
    <2>1. CASE hand[h].found.keeps
      <3>1. pay' = [pay EXCEPT ![p].status = status] /\ UNCHANGED subs /\ pay[p].sub # 0
        BY <1>1, <2>1 DEF Commit, Knows, status
      <3>2. /\ pay' \in [Payment -> Account]
            /\ \A q \in Payment : pay'[q].sub = pay[q].sub
            /\ \A q \in Payment \ {p} : pay'[q] = pay[q]
            /\ pay'[p].status = status
        BY <1>1, <1>2, <1>3, <3>1 DEF Rows, Account
      <3>3. \A q \in Payment : pay[q].status # "none" => pay'[q].status # "none"
        BY <1>1, <1>2, <3>2
      <3>4. ProcessedWasApplied'
        <4>1. \A e \in Event : e.kind \in {"captured", "paid"} => e.payment \in Payment
          BY ConstantsAssumption
        <4> QED
          BY <1>1, <3>1, <3>2, <4>1 DEF Rows, ProcessedWasApplied
      <3>5. NothingUnpaid'
        BY <1>1, <3>1 DEF Rows, NothingUnpaid, Captured
      <3> QED
        BY <1>1, <3>1, <3>2, <3>3, <3>4, <3>5 DEF Rows, Grows, Captured
    <2>2. CASE ~hand[h].found.keeps
      <3>1. PICK s \in SubId :
              /\ subs[s].state = "none"
              /\ pay' = [pay EXCEPT ![p] = [status |-> status, sub |-> s]]
              /\ subs' = [t \in SubId |->
                    IF t = s THEN [state |-> "active", payment |-> p]
                    ELSE IF t \in hand[h].found.others /\ Active(t)
                    THEN [subs[t] EXCEPT !.state = "ended"] ELSE subs[t]]
        BY <1>1, <2>2 DEF Commit, NextSub, status
      <3>2. s # 0
        BY ConstantsAssumption DEF SubId
      <3>3. /\ pay' \in [Payment -> Account]
            /\ pay'[p].sub = s /\ pay'[p].status = status
            /\ \A q \in Payment \ {p} : pay'[q] = pay[q]
        BY <1>1, <1>2, <1>3, <3>1 DEF Rows, Account
      <3>4. \A t \in SubId \ {s} : /\ subs'[t] \in Row
                                   /\ subs[t].state # "none" <=> subs'[t].state # "none"
                                   /\ subs[t].state # "none" => subs'[t].payment = subs[t].payment
        BY <1>1, <3>1 DEF Rows, Row, Active
      <3>5. subs'[s] = [state |-> "active", payment |-> p] /\ subs'[s] \in Row
        BY <1>1, <3>1 DEF Row
      <3>6. subs' \in [SubId -> Row]
        BY <3>1, <3>4, <3>5
      <3>7. \A q \in Payment : pay'[q].sub # 0 =>
               subs'[pay'[q].sub].state # "none" /\ subs'[pay'[q].sub].payment = q
        <4>1. \A q \in Payment \ {p} : pay[q].sub # 0 => pay[q].sub \in SubId \ {s}
          BY <1>1, <1>3, <3>1 DEF Rows, Account
        <4> QED
          BY <1>1, <3>3, <3>4, <3>5, <4>1 DEF Rows
      <3>8. \A q \in Payment : /\ pay[q].status # "none" => pay'[q].status # "none"
                               /\ pay[q].sub # 0 => pay'[q].sub # 0
        BY <1>1, <1>2, <3>2, <3>3
      <3>9. ProcessedWasApplied'
        <4>1. \A e \in Event : e.kind \in {"captured", "paid"} => e.payment \in Payment
          BY ConstantsAssumption
        <4> QED
          BY <1>1, <3>2, <3>3, <3>8, <4>1 DEF Rows, ProcessedWasApplied
      <3>10. NothingUnpaid'
        BY <1>1, <3>4, <3>5 DEF Rows, NothingUnpaid, Captured
      <3> QED
        BY <1>1, <3>2, <3>3, <3>6, <3>7, <3>8, <3>9, <3>10 DEF Rows, Grows, Captured
    <2> QED
      BY <2>1, <2>2
  <1>5. CASE ForEvent(h)
    <2>1. Goes(h, "mark")
      BY <1>5 DEF Commit
    <2>2. /\ DOMAIN hand'[h] = DOMAIN hand[h] /\ hand'[h].step = "mark"
          /\ hand'[h].payment = p /\ hand'[h].event = hand[h].event
      BY <1>1, <1>5, <2>1, GoesOn DEF Knows, ForEvent
    <2>3. Knows(h)'
      BY <1>1, <1>4, <1>5, <2>2 DEF Knows, ForEvent, Step
    <2> QED
      BY <1>1, <1>4, <2>1, <2>3, MovesTo DEF Step
  <1>6. CASE ~ForEvent(h)
    BY <1>1, <1>4, <1>6, Ended DEF Commit
  <1> QED
    BY <1>5, <1>6

-----------------------------------------------------------------------------
(* Failures, and steps of no handler.                                      *)

LEMMA FailsKeeps ==
    ASSUME IInv, NEW h \in Handler, Fails(h)
    PROVE  IInv'
  <1>1. Rows' /\ Grows
    BY SameRows DEF IInv, Rows, Fails
  <1> QED
    BY <1>1, GivesUp DEF Fails

\* The handlers of a gateway that stops have answered nothing and know nothing.
LEMMA CrashKeeps ==
    ASSUME IInv, NEW g, Crash(g)
    PROVE  IInv'
  <1>1. UNCHANGED <<pay, subs, event, claim, provider, granted>>
    BY DEF Crash
  <1>2. Rows' /\ Grows
    BY <1>1, SameRows DEF IInv, Rows
  <1>3. /\ hand' = [h \in Handler |-> hand'[h]]
        /\ \A h \in Handler : hand'[h] = Idle \/ hand'[h] = hand[h]
    BY DEF Crash
  <1>4. \A h \in Handler : Knows(h)'
    <2> TAKE h \in Handler
    <2>1. CASE hand'[h] = hand[h]
      BY <1>2, <2>1, StillKnows DEF IInv
    <2>2. CASE hand'[h] = Idle
      BY <2>2 DEF Knows, Idle, ForEvent, Step
    <2> QED
      BY <1>3, <2>1, <2>2
  <1>5. Orders'
    BY <1>1, <1>3 DEF IInv, Orders, Ordering, Idle
  <1> QED
    BY <1>2, <1>3, <1>4, <1>5 DEF IInv

LEMMA ClaimExpiresKeeps ==
    ASSUME IInv, NEW e \in Event, ClaimExpires(e)
    PROVE  IInv'
  <1>1. Rows' /\ Grows
    BY SameRows DEF IInv, Rows, ClaimExpires
  <1> QED
    BY <1>1, NoneMoves DEF ClaimExpires

LEMMA UserPaysKeeps ==
    ASSUME IInv, UserPays
    PROVE  IInv'
  <1>1. UNCHANGED <<pay, subs, event, claim, hand, granted>> /\ \E p \in Payment : Pays(p)
    BY DEF UserPays
  <1>2. /\ provider' \in [Payment -> Provider]
        /\ \A p \in Payment : /\ Captured(p) => Captured(p)'
                              /\ provider'[p] # "none" => provider[p] # "none"
    BY <1>1 DEF IInv, Rows, Provider, Pays, Captured
  <1>3. Rows' /\ Grows
    BY <1>1, <1>2, ProviderChanges DEF IInv, Rows
  <1> QED
    BY <1>1, <1>2, <1>3, NoneMoves

LEMMA EndSubscriptionKeeps ==
    ASSUME IInv, EndSubscription
    PROVE  IInv'
  <1>1. UNCHANGED <<pay, event, claim, hand, provider, granted>> /\ Rows
    BY DEF IInv, EndSubscription
  <1>2. /\ subs' \in [SubId -> Row]
        /\ \A s \in SubId : /\ subs'[s].state # "none" <=> subs[s].state # "none"
                            /\ subs[s].state # "none" => subs'[s].payment = subs[s].payment
    <2>1. PICK s \in SubId : Active(s) /\ subs' = [subs EXCEPT ![s].state = "ended"]
      BY DEF EndSubscription
    <2>2. subs[s] \in [state : {"active", "ended"}, payment : Payment]
      BY <1>1, <2>1 DEF Rows, Row, Active
    <2>3. subs'[s] \in Row /\ subs'[s].state = "ended" /\ subs'[s].payment = subs[s].payment
      BY <1>1, <2>1, <2>2 DEF Rows, Row
    <2>4. \A t \in SubId \ {s} : subs'[t] = subs[t]
      BY <1>1, <2>1 DEF Rows
    <2> QED
      BY <1>1, <2>1, <2>2, <2>3, <2>4 DEF Rows, Active
  <1>3. NothingUnpaid'
    BY <1>1, <1>2 DEF Rows, NothingUnpaid, Captured
  <1>4. Rows' /\ Grows
    BY <1>1, <1>2, <1>3 DEF Rows, Grows, ProcessedWasApplied, Account, Captured
  <1> QED
    BY <1>1, <1>4, NoneMoves

-----------------------------------------------------------------------------
LEMMA NextKeeps == IInv /\ [Next]_vars => IInv'
  <1> SUFFICES ASSUME IInv, [Next]_vars PROVE IInv'
    OBVIOUS
  <1>1. CASE UNCHANGED vars
    <2>1. Rows' /\ Grows
      BY <1>1, SameRows DEF IInv, Rows, vars
    <2> QED
      BY <1>1, <2>1, NoneMoves DEF vars
  <1>2. ASSUME NEW h \in Handler, WebhookStep(h) PROVE IInv'
    BY <1>2, DeliverKeeps, LookKeeps, WriteKeeps, MarkKeeps, ReleaseKeeps DEF WebhookStep
  <1>3. ASSUME NEW h \in Handler, ActivateStep(h) PROVE IInv'
    BY <1>3, DecisionKeeps, ReadPaymentKeeps, ExpireOthersKeeps, CommitKeeps DEF ActivateStep
  <1>4. ASSUME NEW h \in Handler, OrderStep(h) \/ Reject(h) \/ Fails(h) PROVE IInv'
    BY <1>4, OrderStepKeeps, DecisionKeeps, FailsKeeps
  <1> QED
    BY <1>1, <1>2, <1>3, <1>4, ClaimExpiresKeeps, UserPaysKeeps, CrashKeeps,
       EndSubscriptionKeeps DEF Next

LEMMA Invariant == Spec => []IInv
  BY Initially, NextKeeps, PTL DEF Spec

(* Rows, keys and handlers keep their types, and a payment's subscription  *)
(* is one that its activation made (payment_service.py, webhooks.py).      *)
THEOREM PaymentTypes == Spec => []TypeOK
  <1>1. IInv => TypeOK
    BY DEF IInv, Rows, Account, Row, Knows, TypeOK, Provider
  <1> QED
    BY <1>1, Invariant, PTL

(* Every subscription was paid for at Razorpay or approved by hand,        *)
(* whatever webhooks, verifications, failures and crashes interleave on    *)
(* however many gateways.                                                  *)
THEOREM PaidFor == Spec => []NothingUnpaid
  BY Invariant, PTL DEF IInv, Rows

(* An event is marked processed, and a payment approved, only once the     *)
(* payment has its subscription: razorpay_webhook marks the event after    *)
(* activate_payment has committed, and a crash between loses no capture.   *)
THEOREM SettledAfterEffect == Spec => []ProcessedWasApplied
  BY Invariant, PTL DEF IInv, Rows

-----------------------------------------------------------------------------
(* What the event loop of a single gateway guarantees: activation is one   *)
(* section of the loop, so what it has read still holds when it commits.   *)
(* With two gateways all of this fails (run payments_replay).              *)

\* One process handles every request; with HAProxy in front there are several.
SingleGateway == \A h, k \in Handler : GatewayOf[h] = GatewayOf[k]

OneInLoop == \A h, k \in Handler : InLoop(h) /\ InLoop(k) => h = k

AtMostOneActive == \A s, t \in SubId : Active(s) /\ Active(t) => s = t

NoPromoYet == \A s \in SubId : subs[s].state # "none" => subs[s].payment \notin PromoPayment

\* What a handler in its section has read is still so.
Fresh(h) ==
    /\ hand[h].step = "commit" /\ ~hand[h].found.keeps =>
          \A s \in SubId : Active(s) => s \in hand[h].found.others
    /\ hand[h].step \in {"expire", "commit"} /\ hand[h].payment \in PromoPayment => NoPromoYet
    /\ ForEvent(h) /\ hand[h].step \in {"write", "read", "expire", "commit"} =>
          event[hand[h].event] # "processed"

LoopInv == OneInLoop /\ AtMostOneActive /\ PromoOnce /\ \A h \in Handler : Fresh(h)

-----------------------------------------------------------------------------
LEMMA LoopInitially == Init => LoopInv
  BY DEF Init, LoopInv, OneInLoop, AtMostOneActive, PromoOnce, Fresh, InLoop, Active, Idle,
         ForEvent

\* A handler that has no subscriptions, events or section to speak of.
LEMMA OutOfSection ==
    ASSUME NEW h \in Handler, hand'[h].step \notin {"write", "read", "expire", "commit"}
    PROVE  Fresh(h)'
  BY DEF Fresh

LEMMA AloneInLoop ==
    ASSUME SingleGateway, OneInLoop, NEW m \in Handler, InLoop(m) \/ LoopFree(GatewayOf[m]),
           NEW k \in Handler \ {m}
    PROVE  ~InLoop(k)
  BY DEF SingleGateway, OneInLoop, LoopFree

\* A handler moves that has the loop, or takes it while it is free.
LEMMA HolderMoves ==
    ASSUME SingleGateway, LoopInv, NEW m \in Handler, InLoop(m) \/ LoopFree(GatewayOf[m]),
           \A k \in Handler \ {m} : hand'[k] = hand[k],
           Fresh(m)', AtMostOneActive', PromoOnce'
    PROVE  LoopInv'
  <1>1. \A k \in Handler \ {m} : ~InLoop(k) /\ ~InLoop(k)'
    BY AloneInLoop DEF LoopInv, InLoop
  <1>2. OneInLoop'
    BY <1>1 DEF OneInLoop
  <1>3. \A k \in Handler \ {m} : Fresh(k)'
    BY <1>1, OutOfSection DEF InLoop
  <1> QED
    BY <1>2, <1>3 DEF LoopInv

\* Handlers leave the loop or stay where they are, and the tables are the same.
LEMMA NothingEnters ==
    ASSUME LoopInv, UNCHANGED <<subs, event>>,
           \A h \in Handler : hand'[h] = hand[h] \/ hand'[h].step \in {"idle", "release"}
    PROVE  LoopInv'
  <1>1. \A h \in Handler : InLoop(h)' => InLoop(h)
    BY DEF InLoop
  <1>2. OneInLoop'
    BY <1>1 DEF LoopInv, OneInLoop
  <1>3. \A h \in Handler : Fresh(h)'
    BY DEF LoopInv, Fresh, NoPromoYet, Active, ForEvent
  <1>4. AtMostOneActive' /\ PromoOnce'
    BY DEF LoopInv, AtMostOneActive, PromoOnce, Active
  <1> QED
    BY <1>2, <1>3, <1>4 DEF LoopInv

\* The same for a handler that ends its section and may have settled its event.
LEMMA Leaves ==
    ASSUME SingleGateway, IInv, LoopInv, NEW m \in Handler,
           InLoop(m) \/ LoopFree(GatewayOf[m]), Ends(m), UNCHANGED subs
    PROVE  LoopInv'
  <1>1. \A k \in Handler \ {m} : hand'[k] = hand[k]
    BY Answered
  <1>2. hand'[m].step = "idle"
    BY DEF IInv, Ends, Idle
  <1>3. AtMostOneActive' /\ PromoOnce'
    BY DEF LoopInv, AtMostOneActive, PromoOnce, Active
  <1> QED
    BY <1>1, <1>2, <1>3, OutOfSection, HolderMoves

LEMMA RaisesOut ==
    ASSUME IInv, LoopInv, NEW m \in Handler, Gives(m), UNCHANGED <<subs, event>>
    PROVE  LoopInv'
  <1>1. CASE ForEvent(m)
    <2>1. Goes(m, "release")
      BY <1>1 DEF Gives
    <2> QED
      BY <2>1, GoesOn, NothingEnters
  <1>2. CASE ~ForEvent(m)
    <2>1. Ends(m)
      BY <1>2 DEF Gives
    <2>2. hand'[m].step = "idle"
      BY <2>1 DEF IInv, Ends, Idle
    <2> QED
      BY <2>1, <2>2, Answered, NothingEnters
  <1> QED
    BY <1>1, <1>2

-----------------------------------------------------------------------------
\* A handler takes or keeps the loop, and the tables of subscriptions are the same.
LEMMA HolderReads ==
    ASSUME SingleGateway, LoopInv, NEW m \in Handler, InLoop(m) \/ LoopFree(GatewayOf[m]),
           \A k \in Handler \ {m} : hand'[k] = hand[k],
           Fresh(m)', UNCHANGED subs
    PROVE  LoopInv'
  <1>1. AtMostOneActive' /\ PromoOnce'
    BY DEF LoopInv, AtMostOneActive, PromoOnce, Active
  <1> QED
    BY <1>1, HolderMoves

LEMMA OrderStepLoop ==
    ASSUME SingleGateway, IInv, LoopInv, NEW h \in Handler, OrderStep(h)
    PROVE  LoopInv'
  <1>1. CASE OrderCheck(h)
    <2>1. /\ \A k \in Handler \ {h} : hand'[k] = hand[k]
          /\ hand'[h].step = "insert"
          /\ LoopFree(GatewayOf[h]) /\ UNCHANGED subs
      BY <1>1 DEF IInv, OrderCheck, Starts
    <2> QED
      BY <2>1, OutOfSection, HolderReads
  <1>2. CASE OrderInsert(h)
    <2>1. Goes(h, "order") /\ InLoop(h) /\ UNCHANGED subs
      BY <1>2 DEF OrderInsert, InLoop
    <2>2. hand'[h].step = "order" /\ \A k \in Handler \ {h} : hand'[k] = hand[k]
      BY <2>1, GoesOn
    <2> QED
      BY <2>1, <2>2, OutOfSection, HolderReads
  <1>3. CASE OrderReply(h)
    BY <1>3, Leaves DEF OrderReply
  <1> QED
    BY <1>1, <1>2, <1>3 DEF OrderStep

LEMMA WebhookStepLoop ==
    ASSUME SingleGateway, IInv, LoopInv, NEW h \in Handler, WebhookStep(h)
    PROVE  LoopInv'
  <1>0. Knows(h) /\ Fresh(h)
    BY DEF IInv, LoopInv
  <1>1. CASE Deliver(h)
    <2>1. /\ \A k \in Handler \ {h} : hand'[k] = hand[k]
          /\ hand'[h].step = "look"
          /\ LoopFree(GatewayOf[h]) /\ UNCHANGED subs
      BY <1>1 DEF IInv, Deliver, Starts
    <2> QED
      BY <2>1, OutOfSection, HolderReads
  <1>2. CASE Look(h)
    <2>1. LoopFree(GatewayOf[h]) /\ hand[h].step = "look" /\ UNCHANGED <<subs, event>>
      BY <1>2 DEF Look
    <2>2. CASE event[hand[h].event] = "processed"
      BY <1>2, <2>1, <2>2, Leaves DEF Look
    <2>3. CASE event[hand[h].event] # "processed"
      <3>1. /\ \A k \in Handler \ {h} : hand'[k] = hand[k]
            /\ hand'[h].step = "write" /\ hand'[h].event = hand[h].event
        BY <1>0, <1>2, <2>1, <2>3 DEF IInv, Look, Knows, ForEvent
      <3>2. Fresh(h)'
        BY <2>1, <2>3, <3>1 DEF Fresh
      <3> QED
        BY <2>1, <3>1, <3>2, HolderReads
    <2> QED
      BY <2>2, <2>3
  <1>3. CASE WriteCapture(h)
    <2>1. /\ Goes(h, "read") /\ hand[h].step = "write" /\ UNCHANGED subs
          /\ hand[h].event \in Event /\ ForEvent(h)
      BY <1>0, <1>3 DEF WriteCapture, Writes, Knows
    <2>2. /\ \A k \in Handler \ {h} : hand'[k] = hand[k]
          /\ hand'[h].step = "read" /\ hand'[h].event = hand[h].event
      BY <2>1, GoesOn DEF ForEvent
    <2>3. event'[hand[h].event] # "processed"
      BY <1>0, <1>3, <2>1 DEF WriteCapture, IInv, Rows, Fresh
    <2>4. Fresh(h)'
      BY <2>2, <2>3 DEF Fresh
    <2> QED
      BY <2>1, <2>2, <2>4, HolderReads DEF InLoop
  <1>4. CASE WriteDuplicate(h) \/ WriteFailure(h) \/ WriteOther(h) \/ Mark(h)
    <2>1. InLoop(h) /\ Ends(h) /\ UNCHANGED subs
      BY <1>4 DEF WriteDuplicate, WriteFailure, WriteOther, Writes, Mark, InLoop
    <2> QED
      BY <2>1, Leaves
  <1>5. CASE Release(h)
    <2>1. Ends(h) /\ UNCHANGED <<subs, event>>
      BY <1>5 DEF Release
    <2>2. hand'[h].step = "idle"
      BY <2>1 DEF IInv, Ends, Idle
    <2> QED
      BY <2>1, <2>2, Answered, NothingEnters
  <1> QED
    BY <1>1, <1>2, <1>3, <1>4, <1>5 DEF WebhookStep

-----------------------------------------------------------------------------
(* Activation.                                                             *)

LEMMA DecisionLoop ==
    ASSUME SingleGateway, IInv, LoopInv, NEW h \in Handler, Verify(h) \/ Approve(h) \/ Reject(h)
    PROVE  LoopInv'
  <1>1. CASE Verify(h) \/ Approve(h)
    <2>1. /\ \A k \in Handler \ {h} : hand'[k] = hand[k]
          /\ \E p \in Payment : hand'[h] = [step |-> "read", payment |-> p, found |-> Unread]
          /\ LoopFree(GatewayOf[h]) /\ UNCHANGED subs
      BY <1>1 DEF IInv, Verify, Approve, Starts
    <2>2. Fresh(h)'
      BY <2>1 DEF Fresh, ForEvent
    <2> QED
      BY <2>1, <2>2, HolderReads
  <1>2. CASE Reject(h)
    BY <1>2, NothingEnters DEF Reject
  <1> QED
    BY <1>1, <1>2

LEMMA ReadPaymentLoop ==
    ASSUME SingleGateway, IInv, LoopInv, NEW h \in Handler, ReadPayment(h)
    PROVE  LoopInv'
  <1> DEFINE p == hand[h].payment
             keeps == pay[p].sub # 0 /\ Active(pay[p].sub)
             next == IF keeps THEN "commit" ELSE "expire"
             found == [was |-> pay[p].status, keeps |-> keeps, others |-> {}]
  <1>1. /\ Knows(h) /\ Fresh(h) /\ hand[h].step = "read" /\ UNCHANGED <<pay, subs, event>>
        /\ p \in Payment
    BY DEF IInv, LoopInv, ReadPayment, Knows
  <1>2. CASE Eligible(p) /\ hand' = [hand EXCEPT ![h].step = next, ![h].found = found]
    <2>1. /\ \A k \in Handler \ {h} : hand'[k] = hand[k]
          /\ DOMAIN hand'[h] = DOMAIN hand[h]
          /\ hand'[h].step = next /\ hand'[h].found = found
      BY <1>1, <1>2 DEF IInv, Knows
    <2>2. hand'[h].payment = p /\ (ForEvent(h) => hand'[h].event = hand[h].event)
      BY <1>1, <1>2 DEF IInv, Knows, ForEvent
    <2>3. /\ found.keeps = keeps
          /\ next \in {"expire", "commit"} /\ (next = "commit" => keeps)
      OBVIOUS
    <2>4. p \in PromoPayment => NoPromoYet
      BY <1>2 DEF Eligible, NoPromoYet
    <2> HIDE DEF next, found
    <2>5. Fresh(h)'
      BY <1>1, <2>1, <2>2, <2>3, <2>4 DEF Fresh, ForEvent, NoPromoYet
    <2> QED
      BY <1>1, <2>1, <2>5, HolderReads DEF InLoop
  <1>3. CASE Gives(h)
    BY <1>1, <1>3, RaisesOut
  <1> QED
    BY <1>2, <1>3 DEF ReadPayment

LEMMA ExpireOthersLoop ==
    ASSUME SingleGateway, IInv, LoopInv, NEW h \in Handler, ExpireOthers(h)
    PROVE  LoopInv'
  <1>1. Knows(h) /\ Fresh(h) /\ hand[h].step = "expire" /\ UNCHANGED <<pay, subs, event>>
    BY DEF IInv, LoopInv, ExpireOthers
  <1>2. /\ \A k \in Handler \ {h} : hand'[k] = hand[k]
        /\ DOMAIN hand'[h] = DOMAIN hand[h] /\ hand'[h].step = "commit"
        /\ hand'[h].found = [hand[h].found EXCEPT !.others = {s \in SubId : Active(s)}]
    BY <1>1 DEF IInv, Knows, ExpireOthers
  <1>3. /\ hand'[h].payment = hand[h].payment
        /\ ForEvent(h) => hand'[h].event = hand[h].event
    BY <1>1 DEF IInv, Knows, ForEvent, ExpireOthers
  <1>4. \A s \in SubId : Active(s)' => s \in hand'[h].found.others
    BY <1>1, <1>2 DEF Active
  <1>5. Fresh(h)'
    BY <1>1, <1>2, <1>3, <1>4 DEF Fresh, ForEvent, NoPromoYet
  <1> QED
    BY <1>1, <1>2, <1>5, HolderReads DEF InLoop

\* The new subscription is the only one left active, and the only one of its promo.
LEMMA CommitLoop ==
    ASSUME SingleGateway, IInv, LoopInv, NEW h \in Handler, Commit(h)
    PROVE  LoopInv'
  <1> DEFINE p == hand[h].payment
  <1>1. Knows(h) /\ Fresh(h) /\ hand[h].step = "commit" /\ InLoop(h) /\ Rows
    BY DEF IInv, LoopInv, Commit, InLoop
  <1>2. /\ \A k \in Handler \ {h} : hand'[k] = hand[k]
        /\ hand'[h].step \in {"mark", "idle"}
    <2>1. CASE ForEvent(h)
      BY <2>1, GoesOn DEF Commit
    <2>2. CASE ~ForEvent(h)
      <3>1. Ends(h)
        BY <2>2 DEF Commit
      <3> QED
        BY <3>1, Answered DEF IInv, Ends, Idle
    <2> QED
      BY <2>1, <2>2
  <1>3. AtMostOneActive' /\ PromoOnce'
    <2>1. CASE hand[h].found.keeps
      <3>1. UNCHANGED subs
        BY <2>1 DEF Commit
      <3> QED
        BY <3>1 DEF LoopInv, AtMostOneActive, PromoOnce, Active
    <2>2. CASE ~hand[h].found.keeps
      <3>1. PICK s \in SubId :
              /\ subs[s].state = "none"
              /\ subs' = [t \in SubId |->
                    IF t = s THEN [state |-> "active", payment |-> p]
                    ELSE IF t \in hand[h].found.others /\ Active(t)
                    THEN [subs[t] EXCEPT !.state = "ended"] ELSE subs[t]]
        BY <2>2 DEF Commit, NextSub
      <3>2. \A t \in SubId \ {s} :
              /\ subs[t].state # "none" <=> subs'[t].state # "none"
              /\ subs[t].state # "none" => subs'[t].payment = subs[t].payment
        BY <1>1, <3>1 DEF Rows, Row, Active
      <3>3. \A t \in SubId \ {s} : ~Active(t)'
        BY <1>1, <2>2, <3>1 DEF Rows, Row, Active, Fresh
      <3>4. AtMostOneActive'
        BY <3>3 DEF AtMostOneActive
      <3>5. subs'[s].payment = p
        BY <3>1
      <3>6. PromoOnce'
        BY <1>1, <3>2, <3>5 DEF LoopInv, PromoOnce, Fresh, NoPromoYet
      <3> QED
        BY <3>4, <3>6
    <2> QED
      BY <2>1, <2>2
  <1> QED
    BY <1>1, <1>2, <1>3, OutOfSection, HolderMoves

LEMMA EndSubscriptionLoop ==
    ASSUME IInv, LoopInv, EndSubscription
    PROVE  LoopInv'
  <1>1. PICK s \in SubId : Active(s) /\ subs' = [subs EXCEPT ![s].state = "ended"]
    BY DEF EndSubscription
  <1>2. subs[s] \in [state : {"active", "ended"}, payment : Payment]
    BY <1>1 DEF IInv, Rows, Row, Active
  <1>3. subs'[s].state = "ended" /\ subs'[s].payment = subs[s].payment
    BY <1>1, <1>2 DEF IInv, Rows
  <1>4. \A t \in SubId \ {s} : subs'[t] = subs[t]
    BY <1>1 DEF IInv, Rows
  <1>5. \A t \in SubId : /\ Active(t)' => Active(t)
                         /\ subs'[t].state # "none" => /\ subs[t].state # "none"
                                                       /\ subs'[t].payment = subs[t].payment
    BY <1>1, <1>3, <1>4 DEF Active
  <1>6. AtMostOneActive' /\ PromoOnce'
    BY <1>5 DEF LoopInv, AtMostOneActive, PromoOnce
  <1>7. UNCHANGED <<hand, event>>
    BY DEF EndSubscription
  <1>8. NoPromoYet => NoPromoYet'
    BY <1>5 DEF NoPromoYet
  <1>9. \A h \in Handler : Fresh(h)'
    BY <1>5, <1>7, <1>8 DEF LoopInv, Fresh, ForEvent
  <1>10. OneInLoop'
    BY <1>7 DEF LoopInv, OneInLoop, InLoop
  <1> QED
    BY <1>6, <1>9, <1>10 DEF LoopInv

-----------------------------------------------------------------------------
LEMMA LoopStep ==
    ASSUME SingleGateway, IInv, LoopInv, [Next]_vars
    PROVE  LoopInv'
  <1>1. CASE UNCHANGED vars
    BY <1>1, NothingEnters DEF vars
  <1>2. ASSUME NEW h \in Handler, OrderStep(h) \/ WebhookStep(h) \/ Reject(h) PROVE LoopInv'
    BY <1>2, OrderStepLoop, WebhookStepLoop, DecisionLoop
  <1>3. ASSUME NEW h \in Handler, ActivateStep(h) PROVE LoopInv'
    BY <1>3, DecisionLoop, ReadPaymentLoop, ExpireOthersLoop, CommitLoop DEF ActivateStep
  <1>4. ASSUME NEW h \in Handler, Fails(h) PROVE LoopInv'
    BY <1>4, RaisesOut DEF Fails
  <1>5. ASSUME NEW e \in Event, ClaimExpires(e) PROVE LoopInv'
    BY <1>5, NothingEnters DEF ClaimExpires
  <1>6. CASE UserPays
    BY <1>6, NothingEnters DEF UserPays
  <1>7. ASSUME NEW g, Crash(g) PROVE LoopInv'
    <2>1. \A h \in Handler : hand'[h] = hand[h] \/ hand'[h].step = "idle"
      BY <1>7 DEF Crash, Idle
    <2> QED
      BY <1>7, <2>1, NothingEnters DEF Crash
  <1> QED
    BY <1>1, <1>2, <1>3, <1>4, <1>5, <1>6, <1>7, EndSubscriptionLoop DEF Next

LEMMA LoopInvariant ==
    ASSUME SingleGateway
    PROVE  Spec => []LoopInv
  <1>1. Init => LoopInv
    BY LoopInitially
  <1>2. IInv /\ LoopInv /\ [Next]_vars => LoopInv'
    BY LoopStep
  <1> QED
    BY <1>1, <1>2, Invariant, PTL DEF Spec

(* With one gateway a user never has two active subscriptions, whatever    *)
(* orders, webhooks, verifications, approvals and cancellations interleave *)
(* (PaymentService.activate_payment).                                      *)
THEOREM OneActiveAlways ==
    ASSUME SingleGateway
    PROVE  Spec => []OneActive
  <1>1. LoopInv => OneActive
    <2> SUFFICES ASSUME LoopInv PROVE OneActive
      OBVIOUS
    <2> DEFINE A == {s \in SubId : Active(s)}
    <2>1. A = {} \/ \E s \in SubId : A = {s}
      BY DEF LoopInv, AtMostOneActive
    <2>2. Cardinality(A) = 0 \/ Cardinality(A) = 1
      BY <2>1, FS_EmptySet, FS_Singleton
    <2> QED
      BY <2>2 DEF OneActive
  <1> QED
    BY <1>1, LoopInvariant, PTL

(* With one gateway the promo plan is given once per user                  *)
(* (check_promo_plan_eligibility inside activate_payment).                 *)
THEOREM PromoOnceAlways ==
    ASSUME SingleGateway
    PROVE  Spec => []PromoOnce
  <1>1. LoopInv => PromoOnce
    BY DEF LoopInv
  <1> QED
    BY <1>1, LoopInvariant, PTL

(* With one gateway an event that is settled is not acted on again,        *)
(* whatever Redis answers (razorpay_webhook).                              *)
THEOREM SettledEventsLeftAlone ==
    ASSUME SingleGateway
    PROVE  Spec => []SettledIsLeftAlone
  <1>1. LoopInv => SettledIsLeftAlone
    BY DEF LoopInv, Fresh, SettledIsLeftAlone
  <1> QED
    BY <1>1, LoopInvariant, PTL
=============================================================================
