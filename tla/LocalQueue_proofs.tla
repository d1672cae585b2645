-------------------------- MODULE LocalQueue_proofs ---------------------------
(***************************************************************************)
(* What LocalQueue keeps for any calls, worker tasks and size of queue,    *)
(* and that it does what SolvePromise says of every step.                  *)
(*                                                                         *)
(* The inductive invariant says of each call that its job is in one place  *)
(* at most (OnePlace), in one place while somebody waits for it (Wanted),  *)
(* and has not been run while it is there (Fresh).                         *)
(***************************************************************************)
EXTENDS LocalQueue, FiniteSetTheorems, SequenceTheorems, TLAPS

Queued(r) == {i \in 1 .. Len(queue) : queue[i] = r}
Placed(r) == Queued(r) # {} \/ InHand(r) # {}

OnePlace(r) == /\ \A i, j \in Queued(r) : i = j
               /\ \A v, w \in InHand(r) : v = w
               /\ Queued(r) = {} \/ InHand(r) = {}

\* The only places of a job are those of a call that has asked for it.
Unsent(r) == /\ future[r] = "none" => ~Placed(r) /\ runs[r] = 0
             /\ call[r] = "new" => future[r] = "none"

Wanted(r) == phase \in {"up", "stopping"} /\ future[r] = "pending" => Placed(r)

Fresh(r) == runs[r] =< 1 /\ (Placed(r) => runs[r] = 0)

Backed(r) == future[r] = "result" => CaptchaOf[r] \in solved

CallInv(r) == OnePlace(r) /\ Unsent(r) /\ Wanted(r) /\ Fresh(r) /\ Backed(r)

IInv == TypeOK /\ cache \subseteq solved /\ \A r \in Request : CallInv(r)
-----------------------------------------------------------------------------
(* The queue and the workers' hands.                                       *)

LEMMA QueueAppend ==
    ASSUME queue \in Seq(Request), NEW r \in Request, queue' = Append(queue, r)
    PROVE  /\ queue' \in Seq(Request) /\ Len(queue) \in Nat /\ Len(queue') = Len(queue) + 1
           /\ Queued(r)' = Queued(r) \cup {Len(queue) + 1}
           /\ \A q \in Request \ {r} : Queued(q)' = Queued(q)
<1>1. /\ queue' \in Seq(Request) /\ Len(queue) \in Nat /\ Len(queue') = Len(queue) + 1
      /\ \A i \in 1 .. Len(queue) : queue'[i] = queue[i]
      /\ queue'[Len(queue) + 1] = r
  BY AppendProperties, LenProperties
<1>2. 1 .. Len(queue) + 1 = (1 .. Len(queue)) \cup {Len(queue) + 1}
  BY <1>1
<1>3. QED
  BY <1>1, <1>2 DEF Queued

LEMMA QueueTail ==
    ASSUME queue \in Seq(Request), queue # <<>>, queue' = Tail(queue)
    PROVE  /\ queue' \in Seq(Request) /\ Head(queue) \in Request /\ Len(queue') =< Len(queue)
           /\ \A q : \A i \in Queued(q)' : i \in Nat \ {0} /\ i + 1 \in Queued(q)
           /\ \A q : \A i \in Queued(q) : i \in Nat \ {0} /\ (i = 1 \/ i - 1 \in Queued(q)')
           /\ \A q : 1 \in Queued(q) <=> q = Head(queue)
<1>1. /\ queue' \in Seq(Request) /\ Head(queue) \in Request /\ Len(queue') = Len(queue) - 1
      /\ \A i \in 1 .. Len(queue') : queue'[i] = queue[i + 1]
  BY HeadTailProperties
<1>2. Len(queue) \in Nat \ {0} /\ queue[1] = Head(queue)
  BY EmptySeq, LenProperties
<1>3. ASSUME NEW q, NEW i \in Queued(q)' PROVE i \in Nat \ {0} /\ i + 1 \in Queued(q)
  BY <1>1, <1>2, <1>3 DEF Queued
<1>4. ASSUME NEW q, NEW i \in Queued(q) PROVE i \in Nat \ {0} /\ (i = 1 \/ i - 1 \in Queued(q)')
  <2>1. i \in 1 .. Len(queue) /\ queue[i] = q
    BY <1>4 DEF Queued
  <2>2. CASE i # 1
    <3>1. i - 1 \in 1 .. Len(queue') /\ (i - 1) + 1 = i
      BY <1>1, <1>2, <2>1, <2>2
    <3>2. queue'[i - 1] = q
      BY <1>1, <2>1, <3>1
    <3>3. QED
      BY <1>2, <2>1, <3>1, <3>2 DEF Queued
  <2>3. QED
    BY <1>2, <2>1, <2>2
<1>5. ASSUME NEW q PROVE 1 \in Queued(q) <=> q = Head(queue)
  BY <1>2 DEF Queued
<1>6. QED
  BY <1>1, <1>2, <1>3, <1>4, <1>5

Hands == {{}, {"gone"}} \cup {{r} : r \in Request}

LEMMA HandOver ==
    ASSUME TypeOK, NEW w \in Worker, NEW X \in Hands, work' = [work EXCEPT ![w] = X]
    PROVE  /\ work' \in [Worker -> Hands]
           /\ \A q \in X : InHand(q)' = InHand(q) \cup {w}
           /\ \A q : q \notin X => InHand(q)' = InHand(q) \ {w}
<1>1. work' \in [Worker -> Hands]
  BY DEF TypeOK, Hands
<1>2. work'[w] = X /\ \A v \in Worker \ {w} : work'[v] = work[v]
  BY DEF TypeOK
<1>3. ASSUME NEW q
      PROVE  /\ q \in X => InHand(q)' = InHand(q) \cup {w}
             /\ q \notin X => InHand(q)' = InHand(q) \ {w}
  BY <1>2 DEF InHand
<1>4. QED
  BY <1>1, <1>3

LEMMA Unmoved ==
    ASSUME UNCHANGED <<queue, work>>
    PROVE  \A q : Queued(q)' = Queued(q) /\ InHand(q)' = InHand(q)
                  /\ Placed(q)' = Placed(q) /\ OnePlace(q)' = OnePlace(q)
  BY DEF Queued, InHand, Placed, OnePlace

\* A call keeps its invariant in a step that makes no run for it, puts its job in no
\* new place, and takes it from none while somebody waits.
Kept(q) ==
    /\ call'[q] = "new" => call[q] = "new"
    /\ runs'[q] = runs[q] /\ solved \subseteq solved'
    /\ Placed(q)' => Placed(q)
    /\ \/ future'[q] = future[q]
       \/ future[q] = "pending" /\ future'[q] \in {"error", "lost"}

LEMMA Keeps ==
    ASSUME NEW q \in Request, CallInv(q), Kept(q), OnePlace(q)', Wanted(q)'
    PROVE  CallInv(q)'
<1>1. Unsent(q)'
  BY DEF CallInv, Unsent, Kept
<1>2. Fresh(q)' /\ Backed(q)'
  BY DEF CallInv, Fresh, Backed, Kept
<1>3. QED
  BY <1>1, <1>2 DEF CallInv

\* The usual case: nothing moves.
LEMMA Stays ==
    ASSUME NEW q \in Request, CallInv(q), Kept(q), UNCHANGED <<queue, work>>,
           phase' \in {"up", "stopping"} => phase \in {"up", "stopping"}
    PROVE  CallInv(q)'
<1>1. Placed(q)' = Placed(q) /\ OnePlace(q)' = OnePlace(q)
  BY Unmoved
<1>2. OnePlace(q)' /\ Wanted(q)'
  BY <1>1 DEF CallInv, Wanted, Kept
<1>3. QED
  BY <1>2, Keeps

-----------------------------------------------------------------------------
(* submit.                                                                 *)

Label == Ended \cup {"new", "wait"}

LEMMA GotoType ==
    ASSUME TypeOK, NEW r \in Request, NEW l \in Label, Goto(r, l)
    PROVE  /\ call' \in [Request -> Label] /\ call'[r] = l
           /\ \A q \in Request \ {r} : call'[q] = call[q]
  BY DEF Goto, TypeOK, Label

LEMMA SubmitInv == ASSUME IInv, NEW r \in Request, Submit(r) PROVE IInv'
<1>1. /\ TypeOK /\ CallInv(r) /\ cache \subseteq solved
      /\ call[r] = "new" /\ UNCHANGED <<work, cache, phase, runs, solved>>
  BY DEF IInv, Submit
<1>2. {"result", "error", "wait"} \subseteq Label
  BY DEF Label, Ended
<1>3. /\ call' \in [Request -> Label] /\ call'[r] # "new"
      /\ \A q \in Request \ {r} : call'[q] = call[q]
  <2>1. PICK l \in {"result", "error", "wait"} : Goto(r, l)
    BY DEF Submit
  <2>2. QED
    BY <1>1, <1>2, <2>1, GotoType
<1>4. CASE UNCHANGED <<future, queue>>
  <2>1. TypeOK'
    BY <1>1, <1>3, <1>4 DEF TypeOK, Label
  <2>2. ASSUME NEW q \in Request PROVE Kept(q)
    <3>1. Placed(q)' = Placed(q)
      BY <1>1, <1>4, Unmoved
    <3>2. QED
      BY <1>1, <1>3, <1>4, <3>1 DEF Kept
  <2>3. \A q \in Request : CallInv(q)'
    BY <1>1, <1>4, <2>2, Stays DEF IInv
  <2>4. QED
    BY <1>1, <2>1, <2>3 DEF IInv
<1>5. CASE /\ ~(Len(queue) >= MaxPending) /\ queue' = Append(queue, r)
           /\ future' = [future EXCEPT ![r] = "pending"]
  <2>1. queue \in Seq(Request)
    BY <1>1 DEF TypeOK
  <2>2. /\ queue' \in Seq(Request) /\ Len(queue) \in Nat /\ Len(queue') = Len(queue) + 1
        /\ Queued(r)' = Queued(r) \cup {Len(queue) + 1}
        /\ \A q \in Request \ {r} : Queued(q)' = Queued(q)
    BY <1>5, <2>1, QueueAppend
  <2>3. /\ future' \in [Request -> Ended \cup {"none", "pending"}] /\ future'[r] = "pending"
        /\ \A q \in Request \ {r} : future'[q] = future[q]
    BY <1>1, <1>5 DEF TypeOK
  <2>4. TypeOK'
    <3>1. Len(queue') =< MaxPending
      BY <1>5, <2>2, ConstantsAssumption
    <3>2. QED
      BY <1>1, <1>3, <2>2, <2>3, <3>1 DEF TypeOK, Label
  <2>5. \A q : InHand(q)' = InHand(q)
    BY <1>1 DEF InHand
  <2>6. Queued(r) = {} /\ InHand(r) = {} /\ runs[r] = 0
    BY <1>1 DEF CallInv, Unsent, Placed
  <2>7. CallInv(r)'
    <3>1. Queued(r)' = {Len(queue) + 1} /\ InHand(r)' = {}
      BY <2>2, <2>5, <2>6
    <3>2. OnePlace(r)' /\ Placed(r)'
      BY <3>1 DEF OnePlace, Placed
    <3>3. QED
      BY <1>1, <1>3, <2>3, <2>6, <3>2 DEF CallInv, Unsent, Wanted, Fresh, Backed
  <2>8. ASSUME NEW q \in Request \ {r} PROVE CallInv(q)'
    <3>1. CallInv(q)
      BY DEF IInv
    <3>2. Placed(q)' = Placed(q) /\ OnePlace(q)' = OnePlace(q)
      BY <2>2, <2>5 DEF Placed, OnePlace
    <3>3. Kept(q)
      BY <1>1, <1>3, <2>3, <3>2 DEF Kept
    <3>4. OnePlace(q)' /\ Wanted(q)'
      BY <1>1, <2>3, <3>1, <3>2 DEF CallInv, Wanted
    <3>5. QED
      BY <3>1, <3>3, <3>4, Keeps
  <2>9. QED
    BY <1>1, <2>4, <2>7, <2>8 DEF IInv
<1>6. QED
  BY <1>4, <1>5 DEF Submit

LEMMA EvictInv == ASSUME IInv, NEW k \in Captcha, Evict(k) PROVE IInv'
<1>1. cache' \subseteq cache /\ UNCHANGED <<call, future, queue, work, phase, runs, solved>>
  BY DEF Evict
<1>2. \A q \in Request : Kept(q)
  BY <1>1, Unmoved DEF Kept
<1>3. \A q \in Request : CallInv(q)'
  BY <1>1, <1>2, Stays DEF IInv
<1>4. TypeOK' /\ cache' \subseteq solved'
  BY <1>1 DEF IInv, TypeOK
<1>5. QED
  BY <1>3, <1>4 DEF IInv

\* The caller's answer, and the end of a caller or of the process.
Ends == /\ call' \in [Request -> Label]
        /\ future' \in [Request -> Ended \cup {"none", "pending"}]
        /\ phase' = phase \/ phase' = "exited"
        /\ \A q \in Request : /\ call'[q] = "new" => call[q] = "new"
                              /\ \/ future'[q] = future[q]
                                 \/ future[q] = "pending" /\ future'[q] = "lost"

LEMMA CallerInv ==
    ASSUME IInv, (\E r \in Request : Resume(r) \/ CallerCancelled(r)) \/ Exit
    PROVE  IInv'
<1>1. TypeOK /\ UNCHANGED <<queue, work, cache, runs, solved>> /\ cache \subseteq solved
  BY DEF IInv, Resume, CallerCancelled, Exit
<1>2. Ends
  <2>1. CASE Exit
    BY <1>1, <2>1 DEF Ends, Exit, TypeOK, Label, Ended
  <2>2. ASSUME NEW r \in Request, Resume(r) PROVE Ends
    BY <1>1, <2>2 DEF Ends, Resume, Goto, TypeOK, Label, Ended
  <2>3. ASSUME NEW r \in Request, CallerCancelled(r) PROVE Ends
    BY <1>1, <2>3 DEF Ends, CallerCancelled, Goto, TypeOK, Label, Ended
  <2>4. QED
    BY <2>1, <2>2, <2>3
<1>3. TypeOK'
  BY <1>1, <1>2 DEF Ends, TypeOK, Label
<1>4. \A q \in Request : Kept(q)
  BY <1>1, <1>2, Unmoved DEF Ends, Kept
<1>5. \A q \in Request : CallInv(q)'
  BY <1>1, <1>2, <1>4, Stays DEF Ends, IInv
<1>6. QED
  BY <1>1, <1>3, <1>5 DEF IInv
-----------------------------------------------------------------------------
(* The worker tasks.                                                       *)

LEMMA TakeInv == ASSUME IInv, NEW w \in Worker, Take(w) PROVE IInv'
<1>1. PICK r : r = Head(queue)
  OBVIOUS
<1>2. /\ TypeOK /\ cache \subseteq solved /\ queue \in Seq(Request)
      /\ phase = "up" /\ work[w] = {} /\ queue # <<>> /\ queue' = Tail(queue)
      /\ work' = [work EXCEPT ![w] = {r}]
      /\ UNCHANGED <<call, future, cache, phase, runs, solved>>
  BY <1>1 DEF IInv, TypeOK, Take
<1>3. /\ queue' \in Seq(Request) /\ r \in Request /\ Len(queue') =< Len(queue)
      /\ \A q : \A i \in Queued(q)' : i \in Nat \ {0} /\ i + 1 \in Queued(q)
      /\ \A q : \A i \in Queued(q) : i \in Nat \ {0} /\ (i = 1 \/ i - 1 \in Queued(q)')
      /\ \A q : 1 \in Queued(q) <=> q = r
  BY <1>1, <1>2, QueueTail
<1>4. {r} \in Hands
  BY <1>3 DEF Hands
<1>5. /\ work' \in [Worker -> Hands]
      /\ InHand(r)' = InHand(r) \cup {w}
      /\ \A q : q # r => InHand(q)' = InHand(q) \ {w}
  <2>1. /\ work' \in [Worker -> Hands]
        /\ \A q \in {r} : InHand(q)' = InHand(q) \cup {w}
        /\ \A q : q \notin {r} => InHand(q)' = InHand(q) \ {w}
    BY <1>2, <1>4, HandOver
  <2>2. QED
    BY <2>1
<1>6. \A q : w \notin InHand(q)
  BY <1>2 DEF InHand
<1>7. TypeOK'
  <2>1. Len(queue') =< MaxPending
    <3>1. Len(queue) \in Nat /\ Len(queue') \in Nat /\ Len(queue) =< MaxPending
      BY <1>2, <1>3, LenProperties DEF TypeOK
    <3>2. QED
      BY <1>3, <3>1, ConstantsAssumption
  <2>2. QED
    BY <1>2, <1>3, <1>5, <2>1 DEF TypeOK, Hands
<1>8. ASSUME NEW q \in Request PROVE OnePlace(q)' /\ Placed(q)' = Placed(q)
  <2>1. OnePlace(q)
    BY DEF IInv, CallInv
  <2>2. CASE q = r
    <3>1. Queued(q) = {1} /\ InHand(q) = {}
      BY <1>3, <2>1, <2>2 DEF OnePlace
    <3>2. InHand(q)' = {w}
      BY <1>5, <2>2, <3>1
    <3>3. Queued(q)' = {}
      <4>1. ASSUME NEW i \in Queued(q)' PROVE FALSE
        <5>1. i \in Nat \ {0} /\ i + 1 = 1
          BY <1>3, <3>1, <4>1
        <5>2. QED
          BY <5>1
      <4>2. QED
        BY <4>1
    <3>4. QED
      BY <3>1, <3>2, <3>3 DEF OnePlace, Placed
  <2>3. CASE q # r
    <3>1. InHand(q)' = InHand(q)
      BY <1>5, <1>6, <2>3
    <3>2. \A i, k \in Queued(q)' : i = k
      <4>1. ASSUME NEW i \in Queued(q)', NEW k \in Queued(q)' PROVE i = k
        <5>1. i \in Nat /\ k \in Nat /\ i + 1 \in Queued(q) /\ k + 1 \in Queued(q)
          BY <1>3, <4>1
        <5>2. i + 1 = k + 1
          BY <2>1, <5>1 DEF OnePlace
        <5>3. QED
          BY <5>1, <5>2
      <4>2. QED
        BY <4>1
    <3>3. Queued(q)' = {} <=> Queued(q) = {}
      <4>1. ASSUME NEW i \in Queued(q) PROVE Queued(q)' # {}
        BY <1>3, <2>3, <4>1
      <4>2. ASSUME NEW i \in Queued(q)' PROVE Queued(q) # {}
        BY <1>3, <4>2
      <4>3. QED
        BY <4>1, <4>2
    <3>4. QED
      BY <2>1, <3>1, <3>2, <3>3 DEF OnePlace, Placed
  <2>4. QED
    BY <2>2, <2>3
<1>9. ASSUME NEW q \in Request PROVE CallInv(q)'
  <2>1. CallInv(q)
    BY DEF IInv
  <2>2. Kept(q)
    BY <1>2, <1>8 DEF Kept
  <2>3. Wanted(q)'
    BY <1>2, <1>8, <2>1 DEF CallInv, Wanted
  <2>4. QED
    BY <1>8, <2>1, <2>2, <2>3, Keeps
<1>10. QED
  BY <1>2, <1>7, <1>9 DEF IInv

\* A worker's hand that holds a job holds no other.
LEMMA InOneHand ==
    ASSUME TypeOK, NEW w \in Worker, NEW r \in Request, r \in work[w]
    PROVE  work[w] = {r} /\ \A q \in Request \ {r} : w \notin InHand(q)
<1>1. work[w] \in {{}, {"gone"}} \cup {{q} : q \in Request}
  BY DEF TypeOK
<1>2. work[w] = {r}
  BY <1>1, ConstantsAssumption
<1>3. QED
  BY <1>2 DEF InHand

LEMMA FinishInv == ASSUME IInv, NEW w \in Worker, Finish(w) PROVE IInv'
<1>1. /\ TypeOK /\ cache \subseteq solved /\ UNCHANGED <<call, queue, phase>>
      /\ work' = [work EXCEPT ![w] = {}]
  BY DEF IInv, Finish
<1>2. PICK r \in Request \cap work[w], ok \in BOOLEAN :
        /\ runs' = [runs EXCEPT ![r] = @ + 1]
        /\ solved' = IF ok THEN solved \cup {CaptchaOf[r]} ELSE solved
        /\ cache' = IF ok THEN cache \cup {CaptchaOf[r]} ELSE cache
        /\ Resolve(r, IF ok THEN "result" ELSE "error")
  BY DEF Finish
<1>3. work[w] = {r} /\ \A q \in Request \ {r} : w \notin InHand(q)
  BY <1>1, InOneHand
<1>4. /\ work' \in [Worker -> Hands] /\ \A q : InHand(q)' = InHand(q) \ {w}
  <2>1. {} \in Hands
    BY DEF Hands
  <2>2. /\ work' \in [Worker -> Hands]
        /\ \A q : q \notin {} => InHand(q)' = InHand(q) \ {w}
    BY <1>1, <2>1, HandOver
  <2>3. QED
    BY <2>2
<1>5. /\ runs' \in [Request -> Nat] /\ runs'[r] = runs[r] + 1
      /\ \A q \in Request \ {r} : runs'[q] = runs[q] /\ future'[q] = future[q]
      /\ future' \in [Request -> Ended \cup {"none", "pending"}]
      /\ future'[r] = IF future[r] = "pending" THEN (IF ok THEN "result" ELSE "error") ELSE future[r]
  BY <1>1, <1>2 DEF Resolve, TypeOK, Ended
<1>6. /\ cache' \subseteq solved' /\ solved \subseteq solved' /\ cache' \subseteq Captcha
      /\ ok => CaptchaOf[r] \in solved'
  BY <1>1, <1>2 DEF TypeOK, Captcha
<1>7. TypeOK'
  BY <1>1, <1>4, <1>5, <1>6 DEF TypeOK, Hands
<1>8. \A q : Queued(q)' = Queued(q)
  BY <1>1 DEF Queued
<1>9. CallInv(r)'
  <2>1. CallInv(r) /\ w \in InHand(r)
    BY DEF IInv, InHand
  <2>2. InHand(r)' = {} /\ Queued(r)' = {} /\ runs[r] = 0 /\ future[r] # "none"
    BY <1>4, <1>8, <2>1 DEF CallInv, OnePlace, Fresh, Unsent, Placed
  <2>3. OnePlace(r)' /\ ~Placed(r)'
    BY <2>2 DEF OnePlace, Placed
  <2>4. future'[r] \notin {"none", "pending"}
    BY <1>1, <1>5, <2>2 DEF TypeOK
  <2>5. Unsent(r)' /\ Wanted(r)'
    BY <1>1, <2>1, <2>2, <2>4 DEF CallInv, Unsent, Wanted
  <2>6. Fresh(r)'
    BY <1>5, <2>2, <2>3 DEF Fresh
  <2>7. Backed(r)'
    BY <1>5, <1>6, <2>1 DEF CallInv, Backed
  <2>8. QED
    BY <2>3, <2>5, <2>6, <2>7 DEF CallInv
<1>10. ASSUME NEW q \in Request \ {r} PROVE CallInv(q)'
  <2>1. CallInv(q)
    BY DEF IInv
  <2>2. InHand(q)' = InHand(q)
    BY <1>3, <1>4
  <2>3. Placed(q)' = Placed(q) /\ OnePlace(q)' = OnePlace(q)
    BY <1>8, <2>2 DEF Placed, OnePlace
  <2>4. Kept(q)
    BY <1>1, <1>5, <1>6, <2>3 DEF Kept
  <2>5. OnePlace(q)' /\ Wanted(q)'
    BY <1>1, <1>5, <2>1, <2>3 DEF CallInv, Wanted
  <2>6. QED
    BY <2>1, <2>4, <2>5, Keeps
<1>11. QED
  BY <1>6, <1>7, <1>9, <1>10 DEF IInv

LEMMA WorkerCancelledInv == ASSUME IInv, NEW w \in Worker, WorkerCancelled(w) PROVE IInv'
<1>1. /\ TypeOK /\ cache \subseteq solved /\ UNCHANGED <<call, queue, cache, phase, runs, solved>>
      /\ work' = [work EXCEPT ![w] = {"gone"}]
  BY DEF IInv, WorkerCancelled
<1>2. /\ work' \in [Worker -> Hands]
      /\ \A q \in Request : InHand(q)' = InHand(q) \ {w}
  <2>1. {"gone"} \in Hands /\ \A q \in Request : q \notin {"gone"}
    BY ConstantsAssumption DEF Hands
  <2>2. /\ work' \in [Worker -> Hands]
        /\ \A q : q \notin {"gone"} => InHand(q)' = InHand(q) \ {w}
    BY <1>1, <2>1, HandOver
  <2>3. QED
    BY <2>1, <2>2
<1>3. /\ future' \in [Request -> Ended \cup {"none", "pending"}]
      /\ \A q \in Request : future'[q] = IF w \in InHand(q) /\ future[q] = "pending"
                                         THEN "lost" ELSE future[q]
  BY <1>1 DEF WorkerCancelled, TypeOK, Ended, InHand
<1>4. TypeOK'
  BY <1>1, <1>2, <1>3 DEF TypeOK, Hands
<1>5. ASSUME NEW q \in Request PROVE CallInv(q)'
  <2>1. CallInv(q)
    BY DEF IInv
  <2>2. Queued(q)' = Queued(q) /\ InHand(q)' = InHand(q) \ {w}
    BY <1>1, <1>2 DEF Queued
  <2>3. OnePlace(q)' /\ (Placed(q)' => Placed(q))
    BY <2>1, <2>2 DEF CallInv, OnePlace, Placed
  <2>4. Kept(q)
    BY <1>1, <1>3, <2>3 DEF Kept
  <2>5. Wanted(q)'
    BY <1>1, <1>3, <2>1, <2>2 DEF CallInv, Wanted, Placed
  <2>6. QED
    BY <2>1, <2>3, <2>4, <2>5, Keeps
<1>6. QED
  BY <1>1, <1>4, <1>5 DEF IInv

LEMMA StopInv == ASSUME IInv, Stop PROVE IInv'
<1>1. TypeOK /\ phase = "up" /\ UNCHANGED <<call, future, queue, work, cache, runs, solved>>
  BY DEF IInv, Stop
<1>2. \A q \in Request : Kept(q)
  BY <1>1, Unmoved DEF Kept
<1>3. \A q \in Request : CallInv(q)'
  BY <1>1, <1>2, Stays DEF IInv
<1>4. TypeOK'
  BY <1>1 DEF Stop, TypeOK
<1>5. QED
  BY <1>1, <1>3, <1>4 DEF IInv

LEMMA DrainInv == ASSUME IInv, Drain PROVE IInv'
<1>1. /\ TypeOK /\ cache \subseteq solved /\ UNCHANGED <<call, work, cache, runs, solved>>
      /\ queue' = <<>> /\ phase' = "drained"
  BY DEF IInv, Drain
<1>2. /\ future' \in [Request -> Ended \cup {"none", "pending"}]
      /\ \A q \in Request : future'[q] = future[q]
                              \/ (future[q] = "pending" /\ future'[q] = "error")
  BY <1>1 DEF Drain, TypeOK, Ended
<1>3. TypeOK'
  <2>1. <<>> \in Seq(Request) /\ Len(<<>>) =< MaxPending
    BY EmptySeq, ConstantsAssumption
  <2>2. QED
    BY <1>1, <1>2, <2>1 DEF TypeOK
<1>4. ASSUME NEW q \in Request PROVE CallInv(q)'
  <2>1. CallInv(q)
    BY DEF IInv
  <2>2. Queued(q)' = {} /\ InHand(q)' = InHand(q)
    <3>1. Len(queue') = 0
      BY <1>1, EmptySeq
    <3>2. QED
      BY <1>1, <3>1 DEF Queued, InHand
  <2>3. OnePlace(q)' /\ (Placed(q)' => Placed(q))
    BY <2>1, <2>2 DEF CallInv, OnePlace, Placed
  <2>4. Kept(q) /\ Wanted(q)'
    BY <1>1, <1>2, <2>3 DEF Kept, Wanted
  <2>5. QED
    BY <2>1, <2>3, <2>4, Keeps
<1>5. QED
  BY <1>1, <1>3, <1>4 DEF IInv

-----------------------------------------------------------------------------
(* The invariant of every step, and what follows from it.                  *)

LEMMA InitInv == Init => IInv
<1> SUFFICES ASSUME Init PROVE IInv
  OBVIOUS
<1>1. queue = <<>> /\ Len(queue) = 0 /\ <<>> \in Seq(Request)
  BY EmptySeq DEF Init
<1>2. TypeOK
  BY <1>1, ConstantsAssumption DEF Init, TypeOK
<1>3. ASSUME NEW r \in Request PROVE CallInv(r)
  <2>1. Queued(r) = {} /\ InHand(r) = {}
    BY <1>1 DEF Init, Queued, InHand
  <2>2. QED
    BY <2>1 DEF Init, CallInv, OnePlace, Unsent, Wanted, Fresh, Backed, Placed
<1>4. QED
  BY <1>2, <1>3 DEF IInv, Init

LEMMA IInvStep == IInv /\ [Next]_vars => IInv'
<1> SUFFICES ASSUME IInv, [Next]_vars PROVE IInv'
  OBVIOUS
<1>1. CASE UNCHANGED vars
  <2>1. TypeOK' /\ cache' \subseteq solved'
    BY <1>1 DEF IInv, TypeOK, vars
  <2>2. \A q \in Request : Kept(q)
    BY <1>1, Unmoved DEF Kept, vars
  <2>3. \A q \in Request : CallInv(q)'
    BY <1>1, <2>2, Stays DEF IInv, vars
  <2>4. QED
    BY <2>1, <2>3 DEF IInv
<1>2. CASE Next
  BY <1>2, SubmitInv, CallerInv, EvictInv, TakeInv, FinishInv, WorkerCancelledInv, StopInv,
     DrainInv DEF Next
<1>3. QED
  BY <1>1, <1>2

LEMMA IInvAlways == Spec => []IInv
  BY InitInv, IInvStep, PTL DEF Spec

\* The queue stays within max_pending_jobs, and everything keeps its type.
THEOREM TypeCorrect == Spec => []TypeOK
<1>1. IInv => TypeOK
  BY DEF IInv
<1>2. QED
  BY <1>1, IInvAlways, PTL

LEMMA AtMostOne ==
    ASSUME NEW S, \A x, y \in S : x = y
    PROVE  Cardinality(S) = IF S = {} THEN 0 ELSE 1
<1>1. CASE S = {}
  BY <1>1, FS_EmptySet
<1>2. CASE S # {}
  <2>1. PICK x : S = {x}
    BY <1>2
  <2>2. QED
    BY <1>2, <2>1, FS_Singleton
<1>3. QED
  BY <1>1, <1>2

\* For any calls, worker tasks and size of queue: a job is in one place at most, and
\* in one while its future is pending and the process has not drained its queue.
THEOREM NobodyForgottenEver == Spec => []NobodyForgotten
<1>1. ASSUME IInv PROVE NobodyForgotten
  <2>1. ASSUME NEW r \in Request
        PROVE  LET places == Cardinality(Queued(r)) + Cardinality(InHand(r)) IN
                  /\ places =< 1
                  /\ phase \in {"up", "stopping"} /\ future[r] = "pending" => places = 1
    <3>1. OnePlace(r) /\ Wanted(r)
      BY <1>1 DEF IInv, CallInv
    <3>2. Cardinality(Queued(r)) = IF Queued(r) = {} THEN 0 ELSE 1
      BY <3>1, AtMostOne DEF OnePlace
    <3>3. Cardinality(InHand(r)) = IF InHand(r) = {} THEN 0 ELSE 1
      BY <3>1, AtMostOne DEF OnePlace
    <3>4. QED
      BY <3>1, <3>2, <3>3 DEF OnePlace, Wanted, Placed
  <2>2. QED
    BY <2>1 DEF NobodyForgotten, Queued
<1>2. QED
  BY <1>1, IInvAlways, PTL
-----------------------------------------------------------------------------
(* LocalQueue does what SolvePromise says of every step.                   *)

Outer == [r \in Request |-> IF call[r] = "wait" THEN "pending" ELSE call[r]]
PromiseStep == [Promise!Next]_(Promise!vars)

LEMMA Stutter == ASSUME UNCHANGED <<call, runs, solved>> PROVE PromiseStep
<1>1. Outer' = Outer
  BY DEF Outer
<1>2. QED
  BY <1>1 DEF PromiseStep, Promise!vars, Outer

LEMMA OuterMoves ==
    ASSUME TypeOK, NEW r \in Request, NEW l \in Label, Goto(r, l)
    PROVE  Outer' = [Outer EXCEPT ![r] = IF l = "wait" THEN "pending" ELSE l]
<1>1. call'[r] = l /\ \A q \in Request \ {r} : call'[q] = call[q]
  BY GotoType
<1>2. QED
  BY <1>1 DEF Outer

LEMMA SubmitRefines == ASSUME IInv, NEW r \in Request, Submit(r) PROVE PromiseStep
<1>1. TypeOK /\ call[r] = "new" /\ UNCHANGED <<runs, solved>>
  BY DEF IInv, Submit
<1>2. PICK l \in {"wait", "error", "result"} :
        Goto(r, l) /\ (l = "result" => CaptchaOf[r] \in solved)
  BY DEF Submit, IInv
<1>3. l \in Label
  BY DEF Label, Ended
<1>4. Outer[r] = "new" /\ Outer' = [Outer EXCEPT ![r] = IF l = "wait" THEN "pending" ELSE l]
  BY <1>1, <1>2, <1>3, OuterMoves DEF Outer
<1>5. Promise!Ask(r)
  BY <1>1, <1>2, <1>4 DEF Promise!Ask, Outer
<1>6. QED
  BY <1>5 DEF PromiseStep, Promise!Next

LEMMA CallerRefines ==
    ASSUME IInv, NEW r \in Request, Resume(r) \/ CallerCancelled(r) PROVE PromiseStep
<1>1. TypeOK /\ call[r] = "wait" /\ UNCHANGED <<runs, solved>>
  BY DEF IInv, Resume, CallerCancelled
<1>2. PICK l \in Ended : Goto(r, l) /\ (l = "result" => CaptchaOf[r] \in solved)
  BY DEF Resume, CallerCancelled, IInv, CallInv, Backed, Ended
<1>3. l \in Label /\ l # "wait"
  BY DEF Label, Ended
<1>4. Outer[r] = "pending" /\ Outer' = [Outer EXCEPT ![r] = l]
  BY <1>1, <1>2, <1>3, OuterMoves DEF Outer
<1>5. Promise!Settle(r)
  BY <1>1, <1>2, <1>4 DEF Promise!Settle, Promise!Settled, Outer, Ended
<1>6. QED
  BY <1>5 DEF PromiseStep, Promise!Next

LEMMA FinishRefines == ASSUME IInv, NEW w \in Worker, Finish(w) PROVE PromiseStep
<1>1. PICK r \in Request \cap work[w], ok \in BOOLEAN :
        /\ runs' = [runs EXCEPT ![r] = @ + 1]
        /\ solved' = IF ok THEN solved \cup {CaptchaOf[r]} ELSE solved
  BY DEF Finish
<1>2. CallInv(r) /\ w \in InHand(r)
  BY DEF IInv, InHand
<1>3. runs[r] = 0 /\ call[r] # "new"
  BY <1>2 DEF CallInv, Unsent, Fresh, Placed
<1>4. Outer' = Outer /\ Outer[r] # "new"
  BY <1>3 DEF Finish, Outer
<1>5. runs[r] < 1
  BY <1>3
<1>6. Promise!Run(r)
  BY <1>1, <1>4, <1>5 DEF Promise!Run, Outer
<1>7. QED
  BY <1>6 DEF PromiseStep, Promise!Next

LEMMA ExitRefines == ASSUME IInv, Exit PROVE PromiseStep
<1>1. PICK R : R = {r \in Request : call[r] = "wait"}
  OBVIOUS
<1>2. R \in SUBSET Request /\ \A r \in R : Outer[r] = "pending"
  BY <1>1 DEF Outer
<1>3. Outer' = [r \in Request |-> IF r \in R THEN "lost" ELSE Outer[r]]
  BY <1>1 DEF Exit, Outer
<1>4. Promise!Lose(R)
  BY <1>2, <1>3 DEF Promise!Lose, Exit, Outer
<1>5. QED
  BY <1>2, <1>4 DEF PromiseStep, Promise!Next

LEMMA StepRefines == IInv /\ [Next]_vars => PromiseStep
<1> SUFFICES ASSUME IInv, [Next]_vars PROVE PromiseStep
  OBVIOUS
<1>1. ASSUME NEW r \in Request, Submit(r) \/ Resume(r) \/ CallerCancelled(r) PROVE PromiseStep
  BY <1>1, SubmitRefines, CallerRefines
<1>2. ASSUME NEW k \in Captcha, Evict(k) PROVE PromiseStep
  BY <1>2, Stutter DEF Evict
<1>3. ASSUME NEW w \in Worker, Take(w) \/ WorkerCancelled(w) PROVE PromiseStep
  BY <1>3, Stutter DEF Take, WorkerCancelled
<1>4. ASSUME NEW w \in Worker, Finish(w) PROVE PromiseStep
  BY <1>4, FinishRefines
<1>5. CASE Stop \/ Drain \/ UNCHANGED vars
  BY <1>5, Stutter DEF Stop, Drain, vars
<1>6. QED
  BY <1>1, <1>2, <1>3, <1>4, <1>5, ExitRefines DEF Next

\* For any calls, worker tasks and size of queue: each call is settled once, gets a
\* result only for a captcha some run has solved, and costs one run at most.
THEOREM QueueKeepsPromise == Spec => Promise!Safety
<1>1. Init => Promise!Init
  BY DEF Init, Promise!Init
<1>2. IInv /\ [Next]_vars => [Promise!Next]_(Promise!vars)
  BY StepRefines DEF PromiseStep
<1>3. QED
  BY <1>1, <1>2, IInvAlways, PTL DEF Spec, Promise!Safety
==============================================================================
