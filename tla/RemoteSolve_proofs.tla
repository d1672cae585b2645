------------------------- MODULE RemoteSolve_proofs --------------------------
(***************************************************************************)
(* What RemoteSolve keeps for any calls, workers, attempts and failures of *)
(* Redis, and that it does what SolvePromise says of every step.           *)
(*                                                                         *)
(* The inductive invariant says of each call where its job is (OnePlace),  *)
(* that nothing of it exists before the push (Unsent), that an error is    *)
(* the last word about it (Over), that good news come from a run that      *)
(* succeeded (Backed), and how many runs its job has had (Spent).          *)
(***************************************************************************)
EXTENDS RemoteSolve, FiniteSetTheorems, SequenceTheorems, TLAPS

OnePlace(r) == /\ \A i, j \in Queued(r) : i = j
               /\ \A v, w \in HeldBy(r) : v = w
               /\ Queued(r) = {} \/ HeldBy(r) = {}

Unsent(r) ==
    call[r] \in {"new", "push"} =>
        /\ Queued(r) = {} /\ HeldBy(r) = {}
        /\ results[r] = <<>> /\ runs[r] = 0 /\ ~Contains(dead, r)

Told(r) == {i \in 1 .. Len(results[r]) : results[r][i] = "error"}
Silent(r) == Told(r) = {} /\ call[r] # "goterror"

Over(r) ==
    /\ Live(r) => Silent(r) /\ ~Contains(dead, r)
    /\ \A w \in HeldBy(r) : work[w].step \in {"trim", "tell"} => Silent(r)
    /\ Told(r) \subseteq {Len(results[r])}
    /\ call[r] = "goterror" => results[r] = <<>>

Backed(r) ==
    /\ call[r] = "gotok" => CaptchaOf[r] \in solved
    /\ \A i \in 1 .. Len(results[r]) : results[r][i] = "ok" => CaptchaOf[r] \in solved
    /\ \A w \in HeldBy(r) : work[w].step = "publish" => CaptchaOf[r] \in solved
    /\ call[r] = "local" => FallbackLocal

\* A call is settled by the API process at most once, in one run.
Local(r) == IF FallbackLocal /\ call[r] \in {"result", "error"} THEN 1 ELSE 0

Spent(r) ==
    /\ runs[r] =< MaxAttempts + Local(r)
    /\ \A i \in Queued(r) : runs[r] < queue[i].attempt + Local(r)
    /\ \A w \in HeldBy(r) :
          /\ runs[r] =< work[w].job.attempt + Local(r)
          /\ work[w].step = "solve" => runs[r] < work[w].job.attempt + Local(r)

CallInv(r) == OnePlace(r) /\ Unsent(r) /\ Over(r) /\ Backed(r) /\ Spent(r)

IInv == TypeOK /\ cache \subseteq solved /\ \A r \in Request : CallInv(r)

-----------------------------------------------------------------------------
(* The queue and the workers' hands.                                       *)

LEMMA QueueAppend ==
    ASSUME queue \in Seq(Job), NEW j \in Job, queue' = Append(queue, j)
    PROVE  /\ queue' \in Seq(Job)
           /\ \A r : Queued(r)' = IF j.id = r THEN Queued(r) \cup {Len(queue) + 1} ELSE Queued(r)
           /\ \A r : Len(queue) + 1 \notin Queued(r)
           /\ \A r : \A i \in Queued(r) : queue'[i] = queue[i]
           /\ queue'[Len(queue) + 1] = j
<1>1. /\ queue' \in Seq(Job) /\ Len(queue) \in Nat /\ Len(queue') = Len(queue) + 1
      /\ \A i \in 1 .. Len(queue) : queue'[i] = queue[i]
      /\ queue'[Len(queue) + 1] = j
  BY AppendProperties, LenProperties
<1>2. 1 .. Len(queue) + 1 = (1 .. Len(queue)) \cup {Len(queue) + 1}
  BY <1>1
<1>3. ASSUME NEW r
      PROVE  Queued(r)' = IF j.id = r THEN Queued(r) \cup {Len(queue) + 1} ELSE Queued(r)
  BY <1>1, <1>2 DEF Queued
<1>4. \A r : Len(queue) + 1 \notin Queued(r)
  BY <1>1 DEF Queued
<1>5. QED
  BY <1>1, <1>3, <1>4 DEF Queued

LEMMA QueueTail ==
    ASSUME queue \in Seq(Job), queue # <<>>, queue' = Tail(queue)
    PROVE  /\ queue' \in Seq(Job) /\ Head(queue) \in Job
           /\ \A r : \A i \in Queued(r)' : i \in Nat /\ i + 1 \in Queued(r) /\ queue'[i] = queue[i + 1]
           /\ 1 \in Queued(Head(queue).id) /\ queue[1] = Head(queue)
<1>1. /\ queue' \in Seq(Job) /\ Head(queue) \in Job /\ Len(queue') = Len(queue) - 1
      /\ \A i \in 1 .. Len(queue') : queue'[i] = queue[i + 1]
  BY HeadTailProperties
<1>2. Len(queue) \in Nat \ {0} /\ queue[1] = Head(queue)
  BY EmptySeq, LenProperties
<1>3. ASSUME NEW r, NEW i \in Queued(r)'
      PROVE  i \in Nat /\ i + 1 \in Queued(r) /\ queue'[i] = queue[i + 1]
  BY <1>1, <1>2, <1>3 DEF Queued
<1>4. 1 \in Queued(Head(queue).id)
  BY <1>2 DEF Queued
<1>5. QED
  BY <1>1, <1>2, <1>3, <1>4

LEMMA Jobs ==
    ASSUME TypeOK, NEW w \in Worker, work[w] # Idle
    PROVE  /\ work[w] = [step |-> work[w].step, job |-> work[w].job]
           /\ work[w].step \in Step /\ work[w].job \in Job /\ work[w].job.id \in Request
           /\ work[w].job.attempt \in 1 .. MaxAttempts
           /\ w \in HeldBy(work[w].job.id)
           /\ \A r : w \in HeldBy(r) => r = work[w].job.id
  BY DEF TypeOK, Job, HeldBy

LEMMA Attempts ==
    ASSUME TypeOK, NEW r
    PROVE  /\ \A i \in Queued(r) : queue[i].attempt \in 1 .. MaxAttempts
           /\ \A w \in HeldBy(r) : work[w].job.attempt \in 1 .. MaxAttempts
           /\ MaxAttempts \in Nat
<1>1. ASSUME NEW i \in Queued(r) PROVE queue[i].attempt \in 1 .. MaxAttempts
  <2>1. i \in 1 .. Len(queue) /\ queue \in Seq(Job)
    BY <1>1 DEF Queued, TypeOK
  <2>2. queue[i] \in Job
    BY <2>1, ElementOfSeq
  <2>3. QED
    BY <2>2 DEF Job
<1>2. ASSUME NEW w \in HeldBy(r) PROVE work[w].job.attempt \in 1 .. MaxAttempts
  <2>1. w \in Worker /\ work[w] # Idle
    BY <1>2 DEF HeldBy
  <2>2. QED
    BY <2>1, Jobs
<1>3. QED
  BY <1>1, <1>2, ConstantsAssumption

LEMMA Busy ==
    ASSUME NEW w, work[w].step \in Step PROVE work[w] # Idle
  BY DEF Idle, Step

LEMMA AtStep ==
    ASSUME NEW t, t = [step |-> t.step, job |-> t.job], NEW s
    PROVE  [t EXCEPT !.step = s] = [step |-> s, job |-> t.job]
  OBVIOUS

LEMMA MoveHeld ==
    ASSUME TypeOK, NEW w \in Worker, work[w] # Idle, NEW s \in Step, Move(w, s)
    PROVE  /\ work' \in [Worker -> {Idle} \cup [step : Step, job : Job]]
           /\ \A r : HeldBy(r)' = HeldBy(r)
           /\ work'[w].job = work[w].job /\ work'[w].step = s
           /\ \A v \in Worker \ {w} : work'[v] = work[v]
<1>1. work[w] = [step |-> work[w].step, job |-> work[w].job] /\ work[w].job \in Job
  BY Jobs
<1>2. work' = [work EXCEPT ![w] = [step |-> s, job |-> work[w].job]]
  <2>1. [work[w] EXCEPT !.step = s] = [step |-> s, job |-> work[w].job]
    BY <1>1, AtStep
  <2>2. work' = [work EXCEPT ![w] = [work[w] EXCEPT !.step = s]]
    BY DEF Move
  <2>3. QED
    BY <2>1, <2>2
<1>3. work' \in [Worker -> {Idle} \cup [step : Step, job : Job]]
  BY <1>1, <1>2 DEF TypeOK
<1>4. work'[w] = [step |-> s, job |-> work[w].job] /\ \A v \in Worker \ {w} : work'[v] = work[v]
  BY <1>2 DEF TypeOK
<1>5. work'[w] # Idle
  BY <1>4 DEF Idle, Step
<1>6. \A r : HeldBy(r)' = HeldBy(r)
  BY <1>4, <1>5 DEF HeldBy
<1>7. QED
  BY <1>3, <1>4, <1>6

LEMMA DropHeld ==
    ASSUME TypeOK, NEW w \in Worker, Drop(w)
    PROVE  /\ work' \in [Worker -> {Idle} \cup [step : Step, job : Job]]
           /\ \A r : HeldBy(r)' = HeldBy(r) \ {w}
           /\ \A v \in Worker \ {w} : work'[v] = work[v]
<1>1. work'[w] = Idle /\ \A v \in Worker \ {w} : work'[v] = work[v]
  BY DEF Drop, TypeOK
<1>2. work' \in [Worker -> {Idle} \cup [step : Step, job : Job]]
  BY DEF Drop, TypeOK
<1>3. QED
  BY <1>1, <1>2 DEF HeldBy

LEMMA TellResults ==
    ASSUME TypeOK, NEW r \in Request, NEW x \in {"ok", "error"}, Tell(r, x)
    PROVE  /\ results' \in [Request -> Seq({"ok", "error"})]
           /\ \A q \in Request \ {r} : results'[q] = results[q]
           /\ Len(results[r]) \in Nat /\ Len(results'[r]) = Len(results[r]) + 1
           /\ \A i \in 1 .. Len(results[r]) : results'[r][i] = results[r][i]
           /\ results'[r][Len(results[r]) + 1] = x
<1>1. results[r] \in Seq({"ok", "error"}) /\ results'[r] = Append(results[r], x)
  BY DEF Tell, TypeOK
<1>2. Append(results[r], x) \in Seq({"ok", "error"})
  BY <1>1, AppendProperties
<1>3. QED
  BY <1>1, <1>2, AppendProperties, LenProperties DEF Tell, TypeOK

LEMMA RunsType ==
    ASSUME TypeOK, NEW r \in Request, NEW ok \in BOOLEAN, Runs(r, ok)
    PROVE  /\ runs' \in [Request -> Nat] /\ runs'[r] = runs[r] + 1
           /\ \A q \in Request \ {r} : runs'[q] = runs[q]
           /\ solved \subseteq solved' /\ solved' \subseteq Captcha
           /\ ok => CaptchaOf[r] \in solved'
  BY DEF Runs, TypeOK, Captcha

-----------------------------------------------------------------------------
(* A step leaves the calls it is not about as they were.                   *)

SameCall(q) ==
    /\ call'[q] = call[q] /\ results'[q] = results[q] /\ runs'[q] = runs[q]
    /\ Queued(q)' = Queued(q) /\ \A i \in Queued(q) : queue'[i] = queue[i]
    /\ HeldBy(q)' = HeldBy(q) /\ \A w \in HeldBy(q) : work'[w] = work[w]
    /\ solved \subseteq solved' /\ (Contains(dead, q)' => Contains(dead, q))

LEMMA Untouched ==
    ASSUME NEW q \in Request, CallInv(q), SameCall(q) PROVE CallInv(q)'
<1>1. OnePlace(q)' /\ Unsent(q)'
  BY DEF CallInv, SameCall, OnePlace, Unsent
<1>2. Told(q)' = Told(q) /\ Live(q)' = Live(q)
  BY DEF SameCall, Told, Live
<1>3. Over(q)'
  BY <1>2 DEF CallInv, SameCall, Over, Silent
<1>4. Backed(q)' /\ Spent(q)'
  BY DEF CallInv, SameCall, Backed, Spent, Local
<1>5. QED
  BY <1>1, <1>3, <1>4 DEF CallInv

LEMMA OneCall ==
    ASSUME IInv, NEW r \in Request, TypeOK', cache' \subseteq solved', CallInv(r)',
           \A q \in Request \ {r} : SameCall(q)
    PROVE  IInv'
  BY Untouched DEF IInv

\* A step of the caller of r: queue and workers stay, and so does every other call.
CallersStep(r) ==
    /\ \A q \in Request \ {r} : call'[q] = call[q] /\ results'[q] = results[q] /\ runs'[q] = runs[q]
    /\ UNCHANGED <<queue, work, dead>> /\ solved \subseteq solved'

LEMMA CallersOthers ==
    ASSUME NEW r \in Request, CallersStep(r) PROVE \A q \in Request \ {r} : SameCall(q)
  BY DEF CallersStep, SameCall, Queued, HeldBy, Contains

Label == Caller \cup Ended \cup {"new", "local"}

LEMMA GotoType ==
    ASSUME TypeOK, NEW r \in Request, NEW l \in Label, Goto(r, l)
    PROVE  /\ call' \in [Request -> Label] /\ call'[r] = l
           /\ \A q \in Request \ {r} : call'[q] = call[q]
  BY DEF Goto, TypeOK, Label

LEMMA FallBackType ==
    ASSUME TypeOK, NEW r \in Request, FallBack(r)
    PROVE  /\ call' \in [Request -> Label] /\ call'[r] \in {"local", "error"}
           /\ call'[r] = "local" => FallbackLocal
           /\ call'[r] = "error" => ~FallbackLocal
           /\ \A q \in Request \ {r} : call'[q] = call[q]
<1>1. (IF FallbackLocal THEN "local" ELSE "error") \in Label
  BY DEF Label, Ended
<1>2. QED
  BY <1>1, GotoType DEF FallBack

\* A call that moves on, its results as they were, keeps its invariant if the new
\* label claims nothing that was not so.
LEMMA CallMoves ==
    ASSUME TypeOK, NEW r \in Request, CallInv(r), UNCHANGED <<queue, work, dead>>,
           solved \subseteq solved', results'[r] = results[r], runs'[r] = runs[r],
           call'[r] \notin {"new", "goterror", "gotok"},
           call'[r] = "push" => call[r] = "new",
           call'[r] = "local" => FallbackLocal,
           Local(r) =< Local(r)'
    PROVE  CallInv(r)'
<1>1. OnePlace(r)' /\ Unsent(r)'
  BY DEF CallInv, OnePlace, Unsent, Queued, HeldBy, Contains
<1>2. Told(r)' = Told(r) /\ Live(r)' = Live(r)
  BY DEF Told, Live, Queued, HeldBy
<1>3. Over(r)'
  BY <1>2 DEF CallInv, Over, Silent, HeldBy, Contains
<1>4. Backed(r)'
  BY DEF CallInv, Backed, HeldBy
<1>5. Local(r) \in Nat /\ Local(r)' \in Nat /\ runs[r] \in Nat
  BY DEF Local, TypeOK
<1>6. Queued(r)' = Queued(r) /\ HeldBy(r)' = HeldBy(r)
  BY DEF Queued, HeldBy
<1>7. /\ \A i \in Queued(r) : queue[i].attempt \in Nat
      /\ \A w \in HeldBy(r) : work[w].job.attempt \in Nat
      /\ MaxAttempts \in Nat
  BY Attempts
<1>8. Spent(r)'
  BY <1>5, <1>6, <1>7 DEF CallInv, Spent
<1>9. QED
  BY <1>1, <1>3, <1>4, <1>8 DEF CallInv

-----------------------------------------------------------------------------
(* The caller's steps.                                                     *)

LEMMA CallerQuiet ==
    ASSUME IInv, NEW r \in Request, Submit(r) \/ SetExpiry(r) \/ TimeOut(r) \/ CallerFails(r)
    PROVE  IInv'
<1>1. TypeOK /\ CallInv(r) /\ cache \subseteq solved
  BY DEF IInv
<1>2. UNCHANGED <<queue, results, dead, work, cache, runs, solved>>
  BY DEF Submit, SetExpiry, TimeOut, CallerFails
<1>3. /\ call' \in [Request -> Label] /\ \A q \in Request \ {r} : call'[q] = call[q]
      /\ call'[r] \in {"push", "wait", "local", "error", "result"}
      /\ call'[r] = "push" => call[r] = "new"
      /\ call'[r] = "local" => FallbackLocal
      /\ call[r] \notin {"result", "error"}
  <2>1. CASE Submit(r)
    <3>1. PICK l \in {"result", "push"} : Goto(r, l)
      BY <2>1 DEF Submit
    <3>2. l \in Label
      BY DEF Label, Ended, Caller
    <3>3. QED
      BY <1>1, <2>1, <3>1, <3>2, GotoType DEF Submit
  <2>2. CASE SetExpiry(r)
    <3>1. "wait" \in Label
      BY DEF Label, Caller
    <3>2. QED
      BY <1>1, <2>2, <3>1, GotoType DEF SetExpiry
  <2>3. CASE TimeOut(r) \/ CallerFails(r)
    BY <1>1, <2>3, FallBackType DEF TimeOut, CallerFails, Caller
  <2>4. QED
    BY <2>1, <2>2, <2>3
<1>4. Local(r) =< Local(r)'
  BY <1>3 DEF Local
<1>5. CallInv(r)'
  BY <1>1, <1>2, <1>3, <1>4, CallMoves
<1>6. TypeOK'
  BY <1>1, <1>2, <1>3 DEF TypeOK, Label
<1>7. \A q \in Request \ {r} : SameCall(q)
  BY <1>2, <1>3, CallersOthers DEF CallersStep
<1>8. QED
  BY <1>1, <1>2, <1>5, <1>6, <1>7, OneCall

LEMMA PushInv == ASSUME IInv, NEW r \in Request, Push(r) PROVE IInv'
<1>1. TypeOK /\ CallInv(r) /\ cache \subseteq solved
  BY DEF IInv
<1>2. /\ call[r] = "push" /\ queue' = Append(queue, [id |-> r, attempt |-> 1])
      /\ UNCHANGED <<results, dead, work, cache, runs, solved>>
  BY DEF Push
<1>3. /\ call' \in [Request -> Label] /\ \A q \in Request \ {r} : call'[q] = call[q]
      /\ call'[r] \in {"expire", "local", "error"} /\ (call'[r] = "local" => FallbackLocal)
  <2>1. "expire" \in Label
    BY DEF Label, Caller
  <2>2. QED
    BY <1>1, <2>1, FallBackType, GotoType DEF Push
<1>4. [id |-> r, attempt |-> 1] \in Job
  BY ConstantsAssumption DEF Job
<1>5. /\ queue' \in Seq(Job) /\ Queued(r)' = Queued(r) \cup {Len(queue) + 1}
      /\ queue'[Len(queue) + 1] = [id |-> r, attempt |-> 1]
      /\ \A q \in Request \ {r} : Queued(q)' = Queued(q)
      /\ \A q : \A i \in Queued(q) : queue'[i] = queue[i]
  BY <1>1, <1>2, <1>4, QueueAppend DEF TypeOK
<1>6. /\ Queued(r) = {} /\ HeldBy(r) = {} /\ results[r] = <<>> /\ runs[r] = 0
      /\ ~Contains(dead, r)
  BY <1>1, <1>2 DEF CallInv, Unsent
<1>7. /\ Queued(r)' = {Len(queue) + 1} /\ HeldBy(r)' = {} /\ results'[r] = <<>> /\ runs'[r] = 0
      /\ ~Contains(dead, r)'
  BY <1>2, <1>5, <1>6 DEF HeldBy, Contains
<1>8. OnePlace(r)' /\ Unsent(r)'
  BY <1>3, <1>7 DEF OnePlace, Unsent
<1>9. Over(r)' /\ Backed(r)'
  <2>1. Len(results'[r]) = 0
    BY <1>7
  <2>2. Told(r)' = {} /\ 1 .. Len(results'[r]) = {}
    BY <2>1 DEF Told
  <2>3. QED
    BY <1>3, <1>7, <2>2 DEF Over, Silent, Backed
<1>10. Spent(r)'
  BY <1>5, <1>7, ConstantsAssumption DEF Spent, Local
<1>11. TypeOK'
  BY <1>1, <1>2, <1>3, <1>5 DEF TypeOK, Label
<1>12. \A q \in Request \ {r} : SameCall(q)
  BY <1>2, <1>3, <1>5 DEF SameCall, HeldBy, Contains
<1>13. QED
  BY <1>1, <1>2, <1>8, <1>9, <1>10, <1>11, <1>12, OneCall DEF CallInv

\* What remains of the results after the first is taken.
LEMMA ResultsTail ==
    ASSUME TypeOK, NEW r \in Request, results[r] # <<>>, results' = [results EXCEPT ![r] = Tail(@)]
    PROVE  /\ results' \in [Request -> Seq({"ok", "error"})]
           /\ \A q \in Request \ {r} : results'[q] = results[q]
           /\ Len(results[r]) \in Nat \ {0} /\ Len(results'[r]) = Len(results[r]) - 1
           /\ \A i \in 1 .. Len(results'[r]) : results'[r][i] = results[r][i + 1]
           /\ results[r][1] = Head(results[r]) /\ Head(results[r]) \in {"ok", "error"}
           /\ Len(results[r]) = 1 => results'[r] = <<>>
<1>1. results[r] \in Seq({"ok", "error"}) /\ results'[r] = Tail(results[r])
  BY DEF TypeOK
<1>2. /\ Head(results[r]) \in {"ok", "error"} /\ Tail(results[r]) \in Seq({"ok", "error"})
      /\ Len(Tail(results[r])) = Len(results[r]) - 1
      /\ \A i \in 1 .. Len(Tail(results[r])) : Tail(results[r])[i] = results[r][i + 1]
  BY <1>1, HeadTailProperties
<1>3. Len(results[r]) \in Nat \ {0}
  BY <1>1, EmptySeq
<1>4. Head(results[r]) = results[r][1]
  BY <1>1, <1>3
<1>5. Len(results[r]) = 1 => Tail(results[r]) = <<>>
  <2>1. ASSUME Len(results[r]) = 1, Tail(results[r]) # <<>> PROVE FALSE
    <3>1. Len(Tail(results[r])) \in Nat \ {0}
      BY <1>2, <2>1, EmptySeq
    <3>2. QED
      BY <1>2, <2>1, <3>1
  <2>2. QED
    BY <2>1
<1>6. QED
  BY <1>1, <1>2, <1>3, <1>4, <1>5 DEF TypeOK

LEMMA ReceiveInv == ASSUME IInv, NEW r \in Request, Receive(r) PROVE IInv'
<1>1. TypeOK /\ CallInv(r) /\ cache \subseteq solved
  BY DEF IInv
<1>2. /\ call[r] = "wait" /\ results[r] # <<>>
      /\ results' = [results EXCEPT ![r] = Tail(@)]
      /\ UNCHANGED <<queue, dead, work, cache, runs, solved>>
  BY DEF Receive
<1>3. /\ call' \in [Request -> Label] /\ \A q \in Request \ {r} : call'[q] = call[q]
      /\ call'[r] \in {"gotok", "goterror", "local", "error"}
      /\ call'[r] = "gotok" => Head(results[r]) = "ok"
      /\ call'[r] = "goterror" => Head(results[r]) # "ok"
      /\ call'[r] = "local" => FallbackLocal
  <2>1. CASE FallBack(r)
    BY <1>1, <2>1, FallBackType
  <2>2. CASE Goto(r, IF Head(results[r]) = "ok" THEN "gotok" ELSE "goterror")
    <3>1. (IF Head(results[r]) = "ok" THEN "gotok" ELSE "goterror") \in Label
      BY DEF Label, Caller
    <3>2. QED
      BY <1>1, <2>2, <3>1, GotoType
  <2>3. QED
    BY <2>1, <2>2 DEF Receive
<1>4. /\ results' \in [Request -> Seq({"ok", "error"})]
      /\ \A q \in Request \ {r} : results'[q] = results[q]
      /\ Len(results[r]) \in Nat \ {0} /\ Len(results'[r]) = Len(results[r]) - 1
      /\ \A i \in 1 .. Len(results'[r]) : results'[r][i] = results[r][i + 1]
      /\ results[r][1] = Head(results[r]) /\ Head(results[r]) \in {"ok", "error"}
      /\ Len(results[r]) = 1 => results'[r] = <<>>
  BY <1>1, <1>2, ResultsTail
<1>5. Queued(r)' = Queued(r) /\ HeldBy(r)' = HeldBy(r) /\ Live(r)' = Live(r)
  BY <1>2 DEF Queued, HeldBy, Live
<1>6. OnePlace(r)' /\ Unsent(r)'
  BY <1>1, <1>3, <1>5 DEF CallInv, OnePlace, Unsent
<1>7. \A i \in Told(r)' : i + 1 \in Told(r) /\ i \in Nat
  BY <1>4 DEF Told
<1>8. Told(r)' \subseteq {Len(results'[r])}
  BY <1>1, <1>4, <1>7 DEF CallInv, Over
<1>9. ASSUME call'[r] = "goterror" PROVE results'[r] = <<>> /\ Told(r) # {}
  <2>1. 1 \in Told(r)
    BY <1>3, <1>4, <1>9 DEF Told
  <2>2. Len(results[r]) = 1
    BY <1>1, <1>4, <2>1 DEF CallInv, Over
  <2>3. QED
    BY <1>4, <2>1, <2>2
<1>10. Silent(r) => Silent(r)'
  BY <1>7, <1>9 DEF Silent
<1>11. Over(r)'
  BY <1>1, <1>2, <1>5, <1>8, <1>9, <1>10 DEF CallInv, Over, Contains
<1>12. Backed(r)'
  BY <1>1, <1>2, <1>3, <1>4, <1>5 DEF CallInv, Backed
<1>13. Local(r) = 0 /\ Local(r)' \in Nat
  BY <1>2 DEF Local
<1>14. Spent(r)'
  <2>1. /\ \A i \in Queued(r) : queue[i].attempt \in Nat
        /\ \A w \in HeldBy(r) : work[w].job.attempt \in Nat
        /\ MaxAttempts \in Nat
    BY <1>1, Attempts
  <2>2. runs[r] \in Nat
    BY <1>1 DEF TypeOK
  <2>3. QED
    BY <2>2, <1>1, <1>2, <1>5, <1>13, <2>1 DEF CallInv, Spent
<1>15. TypeOK'
  BY <1>1, <1>2, <1>3, <1>4 DEF TypeOK, Label
<1>16. \A q \in Request \ {r} : SameCall(q)
  BY <1>2, <1>3, <1>4, CallersOthers DEF CallersStep
<1>17. QED
  BY <1>1, <1>2, <1>6, <1>11, <1>12, <1>14, <1>15, <1>16, OneCall DEF CallInv

LEMMA DiscardInv == ASSUME IInv, NEW r \in Request, Discard(r) PROVE IInv'
<1>1. TypeOK /\ CallInv(r) /\ cache \subseteq solved
  BY DEF IInv
<1>2. /\ call[r] \in {"gotok", "goterror"}
      /\ results' = [results EXCEPT ![r] = <<>>]
      /\ UNCHANGED <<queue, dead, work, runs, solved>>
  BY DEF Discard
<1>3. /\ call' \in [Request -> Label] /\ \A q \in Request \ {r} : call'[q] = call[q]
      /\ call'[r] \in {"result", "local", "error"} /\ (call'[r] = "local" => FallbackLocal)
      /\ cache' = cache \/ (call[r] = "gotok" /\ cache' = cache \cup {CaptchaOf[r]})
  <2>1. "result" \in Label
    BY DEF Label, Ended
  <2>2. QED
    BY <1>1, <2>1, FallBackType, GotoType DEF Discard
<1>4. cache' \subseteq solved /\ cache' \subseteq Captcha
  BY <1>1, <1>3 DEF CallInv, Backed, TypeOK, Captcha
<1>5. <<>> \in Seq({"ok", "error"}) /\ Len(<<>>) = 0
  BY EmptySeq
<1>6. /\ results' \in [Request -> Seq({"ok", "error"})] /\ results'[r] = <<>>
      /\ Len(results'[r]) = 0 /\ \A q \in Request \ {r} : results'[q] = results[q]
  BY <1>1, <1>2, <1>5 DEF TypeOK
<1>7. Queued(r)' = Queued(r) /\ HeldBy(r)' = HeldBy(r) /\ Live(r)' = Live(r)
  BY <1>2 DEF Queued, HeldBy, Live
<1>8. OnePlace(r)' /\ Unsent(r)'
  BY <1>1, <1>3, <1>7 DEF CallInv, OnePlace, Unsent
<1>9. Told(r)' = {} /\ 1 .. Len(results'[r]) = {}
  BY <1>6 DEF Told
<1>10. Over(r)' /\ Backed(r)'
  BY <1>1, <1>2, <1>3, <1>6, <1>7, <1>9 DEF CallInv, Over, Silent, Backed, Contains
<1>11. Local(r) = 0 /\ Local(r)' \in Nat
  BY <1>2 DEF Local
<1>12. Spent(r)'
  <2>1. /\ \A i \in Queued(r) : queue[i].attempt \in Nat
        /\ \A w \in HeldBy(r) : work[w].job.attempt \in Nat
        /\ MaxAttempts \in Nat
    BY <1>1, Attempts
  <2>2. runs[r] \in Nat
    BY <1>1 DEF TypeOK
  <2>3. QED
    BY <2>2, <1>1, <1>2, <1>7, <1>11, <2>1 DEF CallInv, Spent
<1>13. TypeOK'
  BY <1>1, <1>2, <1>3, <1>4, <1>6 DEF TypeOK, Label
<1>14. \A q \in Request \ {r} : SameCall(q)
  BY <1>2, <1>3, <1>6, CallersOthers DEF CallersStep
<1>15. QED
  BY <1>2, <1>4, <1>8, <1>10, <1>12, <1>13, <1>14, OneCall DEF CallInv

LEMMA SolveLocallyInv == ASSUME IInv, NEW r \in Request, SolveLocally(r) PROVE IInv'
<1>1. TypeOK /\ CallInv(r) /\ cache \subseteq solved
  BY DEF IInv
<1>2. PICK ok \in BOOLEAN :
        /\ Runs(r, ok)
        /\ cache' = IF ok THEN cache \cup {CaptchaOf[r]} ELSE cache
        /\ Goto(r, IF ok THEN "result" ELSE "error")
  BY DEF SolveLocally
<1>3. call[r] = "local" /\ UNCHANGED <<queue, results, dead, work>>
  BY DEF SolveLocally
<1>4. /\ call' \in [Request -> Label] /\ \A q \in Request \ {r} : call'[q] = call[q]
      /\ call'[r] \in {"result", "error"}
  <2>1. (IF ok THEN "result" ELSE "error") \in Label
    BY DEF Label, Ended
  <2>2. QED
    BY <1>1, <1>2, <2>1, GotoType
<1>5. /\ runs' \in [Request -> Nat] /\ runs'[r] = runs[r] + 1
      /\ \A q \in Request \ {r} : runs'[q] = runs[q]
      /\ solved \subseteq solved' /\ solved' \subseteq Captcha
      /\ ok => CaptchaOf[r] \in solved'
  BY <1>1, <1>2, RunsType
<1>6. cache' \subseteq solved' /\ cache' \subseteq Captcha
  BY <1>1, <1>2, <1>5 DEF TypeOK, Captcha
<1>7. Queued(r)' = Queued(r) /\ HeldBy(r)' = HeldBy(r) /\ Live(r)' = Live(r) /\ Told(r)' = Told(r)
  BY <1>3 DEF Queued, HeldBy, Live, Told
<1>8. OnePlace(r)' /\ Unsent(r)'
  BY <1>1, <1>4, <1>7 DEF CallInv, OnePlace, Unsent
<1>9. Over(r)' /\ Backed(r)'
  BY <1>1, <1>3, <1>4, <1>5, <1>7 DEF CallInv, Over, Silent, Backed, Contains
<1>10. Local(r) = 0 /\ Local(r)' = 1
  BY <1>1, <1>3, <1>4 DEF CallInv, Backed, Local
<1>11. Spent(r)'
  <2>1. /\ \A i \in Queued(r) : queue[i].attempt \in Nat
        /\ \A w \in HeldBy(r) : work[w].job.attempt \in Nat
        /\ MaxAttempts \in Nat
    BY <1>1, Attempts
  <2>2. runs[r] \in Nat
    BY <1>1 DEF TypeOK
  <2>3. QED
    BY <2>2, <1>1, <1>3, <1>5, <1>7, <1>10, <2>1 DEF CallInv, Spent
<1>12. TypeOK'
  BY <1>1, <1>3, <1>4, <1>5, <1>6 DEF TypeOK, Label
<1>13. \A q \in Request \ {r} : SameCall(q)
  BY <1>3, <1>4, <1>5, CallersOthers DEF CallersStep
<1>14. QED
  BY <1>6, <1>8, <1>9, <1>11, <1>12, <1>13, OneCall DEF CallInv

LEMMA ApiCrashesInv == ASSUME IInv, ApiCrashes PROVE IInv'
<1>1. TypeOK /\ UNCHANGED <<queue, results, dead, work, runs, solved>> /\ cache' = {}
  BY DEF IInv, ApiCrashes
<1>2. call' \in [Request -> Label]
  BY <1>1 DEF ApiCrashes, TypeOK, Label, Ended
<1>3. ASSUME NEW r \in Request PROVE CallInv(r)'
  <2>1. CASE call'[r] = call[r]
    BY <1>1, <2>1, Untouched DEF IInv, SameCall, Queued, HeldBy, Contains
  <2>2. CASE call'[r] # call[r]
    <3>1. call'[r] = "lost" /\ call[r] \notin {"result", "error"}
      BY <2>2 DEF ApiCrashes, Caller
    <3>2. Local(r) = 0 /\ Local(r)' = 0
      BY <3>1 DEF Local
    <3>3. QED
      BY <1>1, <3>1, <3>2, CallMoves DEF IInv
  <2>3. QED
    BY <2>1, <2>2
<1>4. TypeOK'
  BY <1>1, <1>2 DEF TypeOK, Label
<1>5. QED
  BY <1>1, <1>3, <1>4 DEF IInv

LEMMA EvictInv == ASSUME IInv, NEW k \in Captcha, Evict(k) PROVE IInv'
<1>1. /\ cache' \subseteq cache
      /\ UNCHANGED <<call, queue, results, dead, work, runs, solved>>
  BY DEF Evict
<1>2. \A r \in Request : SameCall(r)
  BY <1>1 DEF SameCall, Queued, HeldBy, Contains
<1>3. TypeOK' /\ cache' \subseteq solved'
  BY <1>1 DEF IInv, TypeOK
<1>4. QED
  BY <1>2, <1>3, Untouched DEF IInv

-----------------------------------------------------------------------------
(* The workers' steps.                                                     *)

Running == {"solve", "publish", "published", "retry"}

\* What the invariant says of the call whose job a worker has.
LEMMA Holds ==
    ASSUME IInv, NEW w \in Worker, work[w] # Idle, NEW r, r = work[w].job.id
    PROVE  /\ r \in Request /\ CallInv(r) /\ TypeOK
           /\ HeldBy(r) = {w} /\ Queued(r) = {} /\ call[r] \notin {"new", "push"}
           /\ work[w].job \in Job /\ work[w].job.attempt \in 1 .. MaxAttempts
           /\ MaxAttempts \in Nat /\ Local(r) \in Nat /\ runs[r] \in Nat
           /\ runs[r] =< work[w].job.attempt + Local(r)
           /\ work[w].step = "solve" => runs[r] < work[w].job.attempt + Local(r)
           /\ work[w].step \in Running => Silent(r) /\ ~Contains(dead, r)
           /\ work[w].step \in {"trim", "tell"} => Silent(r)
<1>1. TypeOK
  BY DEF IInv
<1>2. /\ r \in Request /\ w \in HeldBy(r) /\ work[w].job \in Job
      /\ work[w].job.attempt \in 1 .. MaxAttempts
  BY <1>1, Jobs
<1>3. CallInv(r)
  BY <1>2 DEF IInv
<1>4. HeldBy(r) = {w} /\ Queued(r) = {}
  BY <1>2, <1>3 DEF CallInv, OnePlace
<1>5. call[r] \notin {"new", "push"}
  BY <1>2, <1>3 DEF CallInv, Unsent
<1>6. Local(r) \in Nat /\ runs[r] \in Nat /\ MaxAttempts \in Nat
  BY <1>1, <1>2, ConstantsAssumption DEF Local, TypeOK
<1>7. work[w].step \in Running => Live(r)
  BY <1>2 DEF Live, Running
<1>8. QED
  BY <1>1, <1>2, <1>3, <1>4, <1>5, <1>6, <1>7 DEF CallInv, Over, Spent

\* The invariant of that call after a step that moves its job on to step s.
LEMMA MovedOn ==
    ASSUME IInv, NEW w \in Worker, work[w] # Idle, NEW r, r = work[w].job.id,
           NEW s \in Step \ {"solve"}, Move(w, s), UNCHANGED <<call, queue>>,
           solved \subseteq solved',
           s \in Running => ~Contains(dead, r)',
           s \in Running \cup {"trim", "tell"} => Silent(r)',
           Told(r)' \subseteq {Len(results'[r])},
           call[r] = "goterror" => results'[r] = <<>>,
           \A i \in 1 .. Len(results'[r]) : results'[r][i] = "ok" => CaptchaOf[r] \in solved',
           s = "publish" => CaptchaOf[r] \in solved',
           runs'[r] \in Nat, runs'[r] =< work[w].job.attempt + Local(r)
    PROVE  CallInv(r)'
<1>1. /\ r \in Request /\ CallInv(r) /\ TypeOK
      /\ HeldBy(r) = {w} /\ Queued(r) = {} /\ call[r] \notin {"new", "push"}
      /\ work[w].job.attempt \in 1 .. MaxAttempts /\ MaxAttempts \in Nat /\ Local(r) \in Nat
  BY Holds
<1>2. HeldBy(r)' = {w} /\ work'[w].job = work[w].job /\ work'[w].step = s
  BY <1>1, MoveHeld
<1>3. Queued(r)' = {} /\ Local(r)' = Local(r)
  BY <1>1 DEF Queued, Local
<1>4. OnePlace(r)' /\ Unsent(r)'
  BY <1>1, <1>2, <1>3 DEF OnePlace, Unsent
<1>5. Live(r)' => s \in Running
  BY <1>2, <1>3 DEF Live, Running
<1>6. Over(r)'
  BY <1>2, <1>5 DEF Over
<1>7. Backed(r)'
  BY <1>1, <1>2 DEF CallInv, Backed
<1>8. Spent(r)'
  <2>1. runs'[r] =< MaxAttempts + Local(r)
    BY <1>1
  <2>2. QED
    BY <1>2, <1>3, <2>1 DEF Spent
<1>9. QED
  BY <1>4, <1>6, <1>7, <1>8 DEF CallInv

\* And after a step with which its job is over.
LEMMA LetGo ==
    ASSUME IInv, NEW w \in Worker, work[w] # Idle, NEW r, r = work[w].job.id,
           Drop(w), UNCHANGED <<call, queue, runs, solved>>,
           Told(r)' \subseteq {Len(results'[r])},
           call[r] = "goterror" => results'[r] = <<>>,
           \A i \in 1 .. Len(results'[r]) : results'[r][i] = "ok" => CaptchaOf[r] \in solved
    PROVE  CallInv(r)'
<1>1. /\ r \in Request /\ CallInv(r) /\ TypeOK
      /\ HeldBy(r) = {w} /\ Queued(r) = {} /\ call[r] \notin {"new", "push"}
  BY Holds
<1>2. HeldBy(r)' = {}
  BY <1>1, DropHeld
<1>3. Queued(r)' = {} /\ Local(r)' = Local(r)
  BY <1>1 DEF Queued, Local
<1>4. OnePlace(r)' /\ Unsent(r)'
  BY <1>1, <1>2, <1>3 DEF OnePlace, Unsent
<1>5. ~Live(r)'
  BY <1>2, <1>3 DEF Live
<1>6. Over(r)' /\ Backed(r)'
  BY <1>1, <1>2, <1>5 DEF CallInv, Over, Backed
<1>7. Spent(r)'
  BY <1>1, <1>2, <1>3 DEF CallInv, Spent
<1>8. QED
  BY <1>4, <1>6, <1>7 DEF CallInv

\* The calls a worker's step is not about.
LEMMA WorkersOthers ==
    ASSUME IInv, NEW w \in Worker, work[w] # Idle, NEW r, r = work[w].job.id,
           (\E s \in Step : Move(w, s)) \/ Drop(w), UNCHANGED call,
           \A q \in Request \ {r} : results'[q] = results[q] /\ runs'[q] = runs[q],
           \A q \in Request \ {r} : Queued(q)' = Queued(q) /\ \A i \in Queued(q) : queue'[i] = queue[i],
           solved \subseteq solved',
           \A q \in Request \ {r} : Contains(dead, q)' => Contains(dead, q)
    PROVE  \A q \in Request \ {r} : SameCall(q)
<1>1. TypeOK
  BY DEF IInv
<1>2. \A v \in Worker \ {w} : work'[v] = work[v]
  BY <1>1, MoveHeld, DropHeld
<1>3. ASSUME NEW q \in Request \ {r} PROVE HeldBy(q)' = HeldBy(q) /\ w \notin HeldBy(q)
  <2>1. w \notin HeldBy(q)
    BY <1>3 DEF HeldBy
  <2>2. CASE Drop(w)
    <3>1. HeldBy(q)' = HeldBy(q) \ {w}
      BY <1>1, <2>2, DropHeld
    <3>2. QED
      BY <2>1, <3>1
  <2>3. CASE \E s \in Step : Move(w, s)
    BY <1>1, <2>1, <2>3, MoveHeld
  <2>4. QED
    BY <2>1, <2>2, <2>3
<1>4. ASSUME NEW q \in Request \ {r}, NEW v \in HeldBy(q) PROVE work'[v] = work[v]
  <2>1. v \in Worker
    BY DEF HeldBy
  <2>2. QED
    BY <1>2, <1>3, <1>4, <2>1
<1>5. ASSUME NEW q \in Request \ {r} PROVE SameCall(q)
  BY <1>3, <1>4, <1>5 DEF SameCall
<1>6. QED
  BY <1>5
LEMMA TakeInv == ASSUME IInv, NEW w \in Worker, Take(w) PROVE IInv'
<1>0. PICK j, r : j = Head(queue) /\ r = j.id
  OBVIOUS
<1>1. /\ TypeOK /\ queue # <<>> /\ queue' = Tail(queue) /\ queue \in Seq(Job)
      /\ work[w] = Idle /\ work' = [work EXCEPT ![w] = [step |-> "solve", job |-> j]]
      /\ UNCHANGED <<call, results, dead, cache, runs, solved>>
  BY <1>0 DEF IInv, Take, TypeOK
<1>2. /\ queue' \in Seq(Job) /\ j \in Job
      /\ \A q : \A i \in Queued(q)' : i \in Nat /\ i + 1 \in Queued(q) /\ queue'[i] = queue[i + 1]
      /\ 1 \in Queued(r) /\ queue[1] = j
  BY <1>0, <1>1, QueueTail
<1>3. r \in Request /\ CallInv(r)
  BY <1>0, <1>2 DEF IInv, Job
<1>4. /\ work'[w] = [step |-> "solve", job |-> j] /\ work'[w] # Idle
      /\ \A v \in Worker \ {w} : work'[v] = work[v]
      /\ work' \in [Worker -> {Idle} \cup [step : Step, job : Job]]
  <2>1. [step |-> "solve", job |-> j] \in [step : Step, job : Job]
    BY <1>2 DEF Step
  <2>2. work'[w] = [step |-> "solve", job |-> j] /\ \A v \in Worker \ {w} : work'[v] = work[v]
    BY <1>1 DEF TypeOK
  <2>3. [step |-> "solve", job |-> j] # Idle
    <3>1. [step |-> "solve", job |-> j].step # Idle.step
      BY DEF Idle
    <3>2. QED
      BY <3>1
  <2>4. QED
    BY <1>1, <2>1, <2>2, <2>3 DEF TypeOK
<1>5. HeldBy(r) = {} /\ Queued(r) = {1}
  BY <1>2, <1>3 DEF CallInv, OnePlace
<1>6. HeldBy(r)' = {w} /\ Queued(r)' = {}
  <2>1. w \in HeldBy(r)'
    BY <1>0, <1>4 DEF HeldBy
  <2>2. ASSUME NEW v \in HeldBy(r)', v # w PROVE FALSE
    BY <1>4, <1>5, <2>2 DEF HeldBy
  <2>3. ASSUME NEW i \in Queued(r)' PROVE FALSE
    <3>1. i \in Nat /\ i + 1 = 1
      BY <1>2, <1>5, <2>3
    <3>2. i \in 1 .. Len(queue')
      BY <2>3 DEF Queued
    <3>3. QED
      BY <3>1, <3>2
  <2>4. QED
    BY <2>1, <2>2, <2>3
<1>7. CallInv(r)'
  <2>1. OnePlace(r)' /\ Unsent(r)'
    <3>1. call[r] \notin {"new", "push"}
      BY <1>2, <1>3 DEF CallInv, Unsent
    <3>2. QED
      BY <1>1, <1>6, <3>1 DEF OnePlace, Unsent
  <2>2. Live(r) /\ Told(r)' = Told(r)
    BY <1>1, <1>5 DEF Live, Told
  <2>3. Over(r)'
    BY <1>1, <1>3, <1>4, <1>6, <2>2 DEF CallInv, Over, Silent, Contains
  <2>4. Backed(r)'
    BY <1>1, <1>3, <1>4, <1>6 DEF CallInv, Backed
  <2>5. runs[r] < j.attempt + Local(r)
    BY <1>2, <1>3 DEF CallInv, Spent
  <2>6. Spent(r)'
    <3>1. runs[r] \in Nat /\ Local(r) \in Nat /\ j.attempt \in Nat /\ Local(r)' = Local(r)
      BY <1>1, <1>2, <1>3 DEF TypeOK, Local, Job
    <3>2. work'[w].job = j
      BY <1>4
    <3>3. QED
      BY <1>1, <1>3, <1>6, <2>5, <3>1, <3>2 DEF CallInv, Spent
  <2>7. QED
    BY <2>1, <2>3, <2>4, <2>6 DEF CallInv
<1>8. ASSUME NEW q \in Request \ {r} PROVE CallInv(q)'
  <2>1. HeldBy(q)' = HeldBy(q) /\ \A v \in HeldBy(q) : work'[v] = work[v]
    BY <1>0, <1>1, <1>4, <1>8 DEF HeldBy
  <2>2. CallInv(q)
    BY <1>8 DEF IInv
  <2>3. \A i \in Queued(q)' : i \in Nat /\ i + 1 \in Queued(q) /\ queue'[i] = queue[i + 1]
    BY <1>2
  <2>4. OnePlace(q)'
    <3>1. \A i, k \in Queued(q) : i = k
      BY <2>2 DEF CallInv, OnePlace
    <3>2. \A i, k \in Queued(q)' : i = k
      BY <2>3, <3>1
    <3>3. QED
      BY <2>1, <2>2, <2>3, <3>2 DEF CallInv, OnePlace
  <2>5. Unsent(q)'
    BY <1>1, <2>1, <2>2, <2>3 DEF CallInv, Unsent, Contains
  <2>6. (Live(q)' => Live(q)) /\ Told(q)' = Told(q)
    BY <1>1, <2>1, <2>3 DEF Live, Told
  <2>7. Over(q)'
    BY <1>1, <2>1, <2>2, <2>6 DEF CallInv, Over, Silent, Contains
  <2>8. Backed(q)'
    BY <1>1, <2>1, <2>2 DEF CallInv, Backed
  <2>9. Spent(q)'
    BY <1>1, <2>1, <2>2, <2>3 DEF CallInv, Spent, Local
  <2>10. QED
    BY <2>4, <2>5, <2>7, <2>8, <2>9 DEF CallInv
<1>9. TypeOK'
  BY <1>1, <1>2, <1>4 DEF TypeOK
<1>10. cache' \subseteq solved' /\ \A q \in Request : CallInv(q)'
  BY <1>1, <1>7, <1>8 DEF IInv
<1>11. QED
  BY <1>9, <1>10 DEF IInv

LEMMA SolveInv == ASSUME IInv, NEW w \in Worker, Solve(w) PROVE IInv'
<1>1. PICK ok \in BOOLEAN : Runs(work[w].job.id, ok) /\ Move(w, IF ok THEN "publish" ELSE "retry")
  BY DEF Solve
<1>2. work[w].step = "solve" /\ UNCHANGED <<call, queue, results, dead, cache>>
  BY DEF Solve
<1>3. work[w] # Idle
  BY <1>2, Busy DEF Step
<1>4. PICK r : r = work[w].job.id
  OBVIOUS
<1>5. PICK s : s = IF ok THEN "publish" ELSE "retry"
  OBVIOUS
<1>6. s \in Step \ {"solve"} /\ Move(w, s)
  BY <1>1, <1>5 DEF Step
<1>7. /\ r \in Request /\ CallInv(r) /\ TypeOK
      /\ work[w].job.attempt \in 1 .. MaxAttempts /\ Local(r) \in Nat /\ runs[r] \in Nat
      /\ runs[r] < work[w].job.attempt + Local(r)
      /\ Silent(r) /\ ~Contains(dead, r)
  BY <1>2, <1>3, <1>4, Holds DEF Running
<1>8. /\ runs' \in [Request -> Nat] /\ runs'[r] = runs[r] + 1
      /\ \A q \in Request \ {r} : runs'[q] = runs[q]
      /\ solved \subseteq solved' /\ solved' \subseteq Captcha
      /\ ok => CaptchaOf[r] \in solved'
  BY <1>1, <1>4, <1>7, RunsType
<1>9. ~Contains(dead, r)' /\ Silent(r)' /\ Told(r)' = Told(r)
  BY <1>2, <1>7 DEF Silent, Told, Contains
<1>10. CallInv(r)'
  <2>1. /\ Told(r) \subseteq {Len(results[r])} /\ (call[r] = "goterror" => results[r] = <<>>)
        /\ \A i \in 1 .. Len(results[r]) : results[r][i] = "ok" => CaptchaOf[r] \in solved
    BY <1>7 DEF CallInv, Over, Backed
  <2>2. runs'[r] \in Nat /\ runs'[r] =< work[w].job.attempt + Local(r)
    BY <1>7, <1>8
  <2>3. s = "publish" => CaptchaOf[r] \in solved'
    BY <1>5, <1>8
  <2>4. QED
    BY <1>2, <1>3, <1>4, <1>6, <1>8, <1>9, <2>1, <2>2, <2>3, MovedOn
<1>11. TypeOK'
  <2>1. work' \in [Worker -> {Idle} \cup [step : Step, job : Job]]
    BY <1>3, <1>6, <1>7, MoveHeld
  <2>2. QED
    BY <1>2, <1>7, <1>8, <2>1 DEF TypeOK
<1>12. \A q \in Request \ {r} : SameCall(q)
  <2>1. \A q : Queued(q)' = Queued(q) /\ \A i \in Queued(q) : queue'[i] = queue[i]
    BY <1>2 DEF Queued
  <2>2. \A q : Contains(dead, q)' => Contains(dead, q)
    BY <1>2 DEF Contains
  <2>3. QED
    BY <1>2, <1>3, <1>4, <1>6, <1>8, <2>1, <2>2, WorkersOthers
<1>13. cache' \subseteq solved'
  BY <1>2, <1>8 DEF IInv
<1>14. QED
  BY <1>7, <1>10, <1>11, <1>12, <1>13, OneCall
LEMMA DeadAppend ==
    ASSUME TypeOK, NEW r \in Request, dead' = Append(dead, r)
    PROVE  dead' \in Seq(Request) /\ \A q \in Request \ {r} : Contains(dead, q)' => Contains(dead, q)
<1>1. /\ dead' \in Seq(Request) /\ Len(dead) \in Nat /\ Len(dead') = Len(dead) + 1
      /\ \A i \in 1 .. Len(dead) : dead'[i] = dead[i]
      /\ dead'[Len(dead) + 1] = r
  BY AppendProperties, LenProperties DEF TypeOK
<1>2. ASSUME NEW q \in Request \ {r}, NEW i \in 1 .. Len(dead'), dead'[i] = q
      PROVE  i \in 1 .. Len(dead) /\ dead[i] = q
  BY <1>1, <1>2
<1>3. QED
  BY <1>1, <1>2 DEF Contains

LEMMA DeadTrim ==
    ASSUME TypeOK, dead' = IF Len(dead) > DeadLimit
                           THEN SubSeq(dead, Len(dead) - DeadLimit + 1, Len(dead)) ELSE dead
    PROVE  dead' \in Seq(Request) /\ \A q : Contains(dead, q)' => Contains(dead, q)
<1>1. dead \in Seq(Request) /\ Len(dead) \in Nat /\ DeadLimit \in Nat \ {0}
  BY ConstantsAssumption, LenProperties DEF TypeOK
<1>2. CASE Len(dead) > DeadLimit
  <2>1. PICK m : m = Len(dead) - DeadLimit + 1
    OBVIOUS
  <2>2. m \in 1 .. Len(dead) /\ m \in Nat \ {0}
    BY <1>1, <1>2, <2>1
  <2>3. dead' = SubSeq(dead, m, Len(dead))
    BY <1>2, <2>1
  <2>4. /\ SubSeq(dead, m, Len(dead)) \in Seq(Request)
        /\ Len(SubSeq(dead, m, Len(dead))) = Len(dead) - m + 1
        /\ \A i \in 1 .. Len(dead) - m + 1 : SubSeq(dead, m, Len(dead))[i] = dead[m + i - 1]
    BY <1>1, <2>2, SubSeqProperties
  <2>5. ASSUME NEW q, NEW i \in 1 .. Len(dead'), dead'[i] = q
        PROVE  m + i - 1 \in 1 .. Len(dead) /\ dead[m + i - 1] = q
    BY <1>1, <2>2, <2>3, <2>4, <2>5
  <2>6. QED
    BY <2>3, <2>4, <2>5 DEF Contains
<1>3. CASE ~(Len(dead) > DeadLimit)
  BY <1>1, <1>3 DEF Contains
<1>4. QED
  BY <1>2, <1>3

\* A worker's step that tells no one anything and runs nothing: its job goes on to
\* step s, or is dropped.
LEMMA WorkerQuiet ==
    ASSUME IInv, NEW w \in Worker, work[w] # Idle, NEW r, r = work[w].job.id,
           UNCHANGED <<call, queue, results, cache, runs, solved>>, dead' \in Seq(Request),
           \A q \in Request \ {r} : Contains(dead, q)' => Contains(dead, q),
           \/ Drop(w)
           \/ \E s \in Step \ {"solve", "publish"} :
                 /\ Move(w, s)
                 /\ s \in Running => ~Contains(dead, r)'
                 /\ s \in Running \cup {"trim", "tell"} => Silent(r)
    PROVE  IInv'
<1>1. /\ r \in Request /\ CallInv(r) /\ TypeOK /\ runs[r] \in Nat
      /\ runs[r] =< work[w].job.attempt + Local(r)
  BY Holds
<1>2. cache' \subseteq solved' /\ Told(r)' = Told(r)
  BY DEF IInv, Told
<1>3. /\ Told(r)' \subseteq {Len(results'[r])} /\ (call[r] = "goterror" => results'[r] = <<>>)
      /\ \A i \in 1 .. Len(results'[r]) : results'[r][i] = "ok" => CaptchaOf[r] \in solved'
  BY <1>1, <1>2 DEF CallInv, Over, Backed
<1>4. TypeOK'
  <2>1. work' \in [Worker -> {Idle} \cup [step : Step, job : Job]]
    BY <1>1, MoveHeld, DropHeld
  <2>2. QED
    BY <1>1, <2>1 DEF TypeOK
<1>5. \A q \in Request \ {r} : SameCall(q)
  <2>1. \A q : Queued(q)' = Queued(q) /\ \A i \in Queued(q) : queue'[i] = queue[i]
    BY DEF Queued
  <2>2. (\E s \in Step : Move(w, s)) \/ Drop(w)
    OBVIOUS
  <2>3. QED
    BY <2>1, <2>2, WorkersOthers
<1>6. CallInv(r)'
  <2>1. CASE Drop(w)
    BY <1>3, <2>1, LetGo
  <2>2. ASSUME NEW s \in Step \ {"solve", "publish"}, Move(w, s),
               s \in Running => ~Contains(dead, r)',
               s \in Running \cup {"trim", "tell"} => Silent(r)
        PROVE  CallInv(r)'
    <3>1. s \in Running \cup {"trim", "tell"} => Silent(r)'
      BY <1>2, <2>2 DEF Silent
    <3>2. s \in Step \ {"solve"} /\ s # "publish"
      OBVIOUS
    <3>3. QED
      BY <1>1, <1>3, <2>2, <3>1, <3>2, MovedOn
  <2>3. QED
    BY <2>1, <2>2
<1>7. QED
  BY <1>1, <1>2, <1>4, <1>5, <1>6, OneCall

LEMMA FinishPublishInv == ASSUME IInv, NEW w \in Worker, FinishPublish(w) PROVE IInv'
<1>1. work[w] # Idle
  BY Busy DEF FinishPublish, Step
<1>2. dead \in Seq(Request) /\ (\A q : Contains(dead, q)' => Contains(dead, q)) /\ dead' = dead
  BY DEF IInv, TypeOK, FinishPublish, Contains
<1>3. QED
  BY <1>1, <1>2, WorkerQuiet DEF FinishPublish

LEMMA WorkerStopsInv == ASSUME IInv, NEW w \in Worker, WorkerStops(w) PROVE IInv'
<1>1. dead \in Seq(Request) /\ (\A q : Contains(dead, q)' => Contains(dead, q)) /\ dead' = dead
  BY DEF IInv, TypeOK, WorkerStops, Contains
<1>2. QED
  BY <1>1, WorkerQuiet DEF WorkerStops

LEMMA WorkerFailsInv == ASSUME IInv, NEW w \in Worker, WorkerFails(w) PROVE IInv'
<1>1. work[w] # Idle
  BY Busy DEF WorkerFails, Step
<1>2. /\ dead \in Seq(Request) /\ (\A q : Contains(dead, q)' => Contains(dead, q)) /\ dead' = dead
      /\ UNCHANGED <<call, queue, results, cache, runs, solved>>
  BY DEF IInv, TypeOK, WorkerFails, Contains
<1>3. CASE Drop(w)
  BY <1>1, <1>2, <1>3, WorkerQuiet
<1>4. CASE work[w].step \in {"publish", "published"} /\ Move(w, "retry")
  <2>1. Silent(work[w].job.id) /\ ~Contains(dead, work[w].job.id)
    BY <1>1, <1>4, Holds DEF Running
  <2>2. "retry" \in Step \ {"solve", "publish"}
    BY DEF Step
  <2>3. QED
    BY <1>1, <1>2, <1>4, <2>1, <2>2, WorkerQuiet
<1>5. QED
  BY <1>3, <1>4 DEF WorkerFails

LEMMA BuryInv == ASSUME IInv, NEW w \in Worker, Bury(w) PROVE IInv'
<1>1. work[w] # Idle
  BY Busy DEF Bury, Step
<1>2. PICK r : r = work[w].job.id
  OBVIOUS
<1>3. r \in Request /\ TypeOK /\ Silent(r)
  BY <1>1, <1>2, Holds DEF Bury, Running
<1>4. /\ dead' \in Seq(Request)
      /\ \A q \in Request \ {r} : Contains(dead, q)' => Contains(dead, q)
  BY <1>2, <1>3, DeadAppend DEF Bury
<1>5. "trim" \in Step \ {"solve", "publish"} /\ "trim" \notin Running
  BY DEF Step, Running
<1>6. QED
  BY <1>1, <1>2, <1>3, <1>4, <1>5, WorkerQuiet DEF Bury

LEMMA TrimInv == ASSUME IInv, NEW w \in Worker, Trim(w) PROVE IInv'
<1>1. work[w] # Idle
  BY Busy DEF Trim, Step
<1>2. PICK r : r = work[w].job.id
  OBVIOUS
<1>3. r \in Request /\ TypeOK /\ Silent(r)
  BY <1>1, <1>2, Holds DEF Trim
<1>4. /\ dead' \in Seq(Request)
      /\ \A q \in Request \ {r} : Contains(dead, q)' => Contains(dead, q)
  BY <1>3, DeadTrim DEF Trim
<1>5. "tell" \in Step \ {"solve", "publish"} /\ "tell" \notin Running
  BY DEF Step, Running
<1>6. QED
  BY <1>1, <1>2, <1>3, <1>4, <1>5, WorkerQuiet DEF Trim
\* What a worker tells a call is the last of its results.
LEMMA Telling ==
    ASSUME IInv, NEW w \in Worker, work[w] # Idle, NEW r, r = work[w].job.id, Silent(r),
           NEW x \in {"ok", "error"}, Tell(r, x), x = "ok" => CaptchaOf[r] \in solved,
           UNCHANGED <<call, solved>>
    PROVE  /\ results' \in [Request -> Seq({"ok", "error"})]
           /\ \A q \in Request \ {r} : results'[q] = results[q]
           /\ Told(r)' \subseteq {Len(results'[r])}
           /\ x = "ok" => Silent(r)'
           /\ call[r] # "goterror"
           /\ \A i \in 1 .. Len(results'[r]) : results'[r][i] = "ok" => CaptchaOf[r] \in solved'
<1>1. r \in Request /\ CallInv(r) /\ TypeOK
  BY Holds
<1>2. /\ results' \in [Request -> Seq({"ok", "error"})]
      /\ \A q \in Request \ {r} : results'[q] = results[q]
      /\ Len(results[r]) \in Nat /\ Len(results'[r]) = Len(results[r]) + 1
      /\ \A i \in 1 .. Len(results[r]) : results'[r][i] = results[r][i]
      /\ results'[r][Len(results[r]) + 1] = x
  BY <1>1, TellResults
<1>3. call[r] # "goterror" /\ \A i \in 1 .. Len(results[r]) : results[r][i] # "error"
  BY DEF Silent, Told
<1>4. ASSUME NEW i \in 1 .. Len(results'[r]), i # Len(results'[r])
      PROVE  i \in 1 .. Len(results[r])
  BY <1>2, <1>4
<1>5. Told(r)' \subseteq {Len(results'[r])} /\ (x = "ok" => Told(r)' = {})
  BY <1>2, <1>3, <1>4 DEF Told
<1>6. ASSUME NEW i \in 1 .. Len(results'[r]), results'[r][i] = "ok"
      PROVE  CaptchaOf[r] \in solved'
  BY <1>1, <1>2, <1>4, <1>6 DEF CallInv, Backed
<1>7. QED
  BY <1>2, <1>3, <1>5, <1>6 DEF Silent

\* A worker's step that tells the call of its job something.
LEMMA WorkerTells ==
    ASSUME IInv, NEW w \in Worker, work[w] # Idle, NEW r, r = work[w].job.id, Silent(r),
           UNCHANGED <<call, queue, dead, cache, runs, solved>>,
           NEW x \in {"ok", "error"}, Tell(r, x), x = "ok" => CaptchaOf[r] \in solved,
           \/ Drop(w)
           \/ \E s \in Step \ {"solve", "publish"} :
                 /\ Move(w, s)
                 /\ s \in Running => ~Contains(dead, r)
                 /\ s \in Running \cup {"trim", "tell"} => x = "ok"
    PROVE  IInv'
<1>1. /\ r \in Request /\ CallInv(r) /\ TypeOK /\ runs[r] \in Nat
      /\ runs[r] =< work[w].job.attempt + Local(r)
  BY Holds
<1>2. /\ results' \in [Request -> Seq({"ok", "error"})]
      /\ \A q \in Request \ {r} : results'[q] = results[q]
      /\ Told(r)' \subseteq {Len(results'[r])}
      /\ x = "ok" => Silent(r)'
      /\ call[r] # "goterror"
      /\ \A i \in 1 .. Len(results'[r]) : results'[r][i] = "ok" => CaptchaOf[r] \in solved'
  BY Telling
<1>3. cache' \subseteq solved'
  BY DEF IInv
<1>4. TypeOK'
  <2>1. work' \in [Worker -> {Idle} \cup [step : Step, job : Job]]
    BY <1>1, MoveHeld, DropHeld
  <2>2. QED
    BY <1>1, <1>2, <2>1 DEF TypeOK
<1>5. \A q \in Request \ {r} : SameCall(q)
  <2>1. \A q : Queued(q)' = Queued(q) /\ \A i \in Queued(q) : queue'[i] = queue[i]
    BY DEF Queued
  <2>2. (\E s \in Step : Move(w, s)) \/ Drop(w)
    OBVIOUS
  <2>3. \A q : Contains(dead, q)' => Contains(dead, q)
    BY DEF Contains
  <2>4. QED
    BY <1>2, <2>1, <2>2, <2>3, WorkersOthers
<1>6. CallInv(r)'
  <2>1. CASE Drop(w)
    BY <1>2, <2>1, LetGo
  <2>2. ASSUME NEW s \in Step \ {"solve", "publish"}, Move(w, s),
               s \in Running => ~Contains(dead, r),
               s \in Running \cup {"trim", "tell"} => x = "ok"
        PROVE  CallInv(r)'
    <3>1. s \in Running \cup {"trim", "tell"} => Silent(r)'
      BY <1>2, <2>2
    <3>2. s \in Step \ {"solve"} /\ s # "publish"
      OBVIOUS
    <3>3. s \in Running => ~Contains(dead, r)'
      BY <2>2 DEF Contains
    <3>4. QED
      BY <1>1, <1>2, <2>2, <3>1, <3>2, <3>3, MovedOn
  <2>3. QED
    BY <2>1, <2>2
<1>7. QED
  BY <1>1, <1>3, <1>4, <1>5, <1>6, OneCall

LEMMA PublishInv == ASSUME IInv, NEW w \in Worker, Publish(w) PROVE IInv'
<1>1. work[w] # Idle
  BY Busy DEF Publish, Step
<1>2. PICK r : r = work[w].job.id
  OBVIOUS
<1>3. /\ CallInv(r) /\ HeldBy(r) = {w} /\ Silent(r) /\ ~Contains(dead, r)
  BY <1>1, <1>2, Holds DEF Publish, Running
<1>4. CaptchaOf[r] \in solved
  BY <1>3 DEF CallInv, Backed, Publish
<1>5. {"published", "retry"} \subseteq Step \ {"solve", "publish"}
  BY DEF Step
<1>6. QED
  BY <1>1, <1>2, <1>3, <1>4, <1>5, WorkerTells DEF Publish

LEMMA TellErrorInv == ASSUME IInv, NEW w \in Worker, TellError(w) PROVE IInv'
<1>1. work[w] # Idle
  BY Busy DEF TellError, Step
<1>2. PICK r : r = work[w].job.id
  OBVIOUS
<1>3. Silent(r)
  BY <1>1, <1>2, Holds DEF TellError
<1>4. "told" \in Step \ {"solve", "publish"} /\ "told" \notin Running \cup {"trim", "tell"}
  BY DEF Step, Running
<1>5. QED
  BY <1>1, <1>2, <1>3, <1>4, WorkerTells DEF TellError

LEMMA RequeueInv == ASSUME IInv, NEW w \in Worker, Requeue(w) PROVE IInv'
<1>1. work[w] # Idle
  BY Busy DEF Requeue, Step
<1>2. PICK r, a : r = work[w].job.id /\ a = work[w].job.attempt
  OBVIOUS
<1>3. /\ r \in Request /\ CallInv(r) /\ TypeOK
      /\ HeldBy(r) = {w} /\ Queued(r) = {} /\ call[r] \notin {"new", "push"}
      /\ work[w].job \in Job /\ a \in 1 .. MaxAttempts /\ MaxAttempts \in Nat
      /\ Local(r) \in Nat /\ runs[r] \in Nat /\ runs[r] =< a + Local(r)
      /\ Silent(r) /\ ~Contains(dead, r)
  BY <1>1, <1>2, Holds DEF Requeue, Running
<1>4. Drop(w) /\ a < MaxAttempts /\ UNCHANGED <<call, results, dead, cache, runs, solved>>
  BY <1>2 DEF Requeue
<1>5. [work[w].job EXCEPT !.attempt = @ + 1] = [id |-> r, attempt |-> a + 1]
  BY <1>2, <1>3 DEF Job
<1>6. [id |-> r, attempt |-> a + 1] \in Job
  BY <1>3, <1>4 DEF Job
<1>7. queue \in Seq(Job) /\ queue' = Append(queue, [id |-> r, attempt |-> a + 1])
  BY <1>3, <1>5 DEF Requeue, TypeOK
<1>8. /\ queue' \in Seq(Job) /\ Queued(r)' = Queued(r) \cup {Len(queue) + 1}
      /\ queue'[Len(queue) + 1] = [id |-> r, attempt |-> a + 1]
      /\ \A q \in Request \ {r} : Queued(q)' = Queued(q)
      /\ \A q : \A i \in Queued(q) : queue'[i] = queue[i]
  BY <1>6, <1>7, QueueAppend
<1>9. /\ HeldBy(r)' = {} /\ Queued(r)' = {Len(queue) + 1}
      /\ work' \in [Worker -> {Idle} \cup [step : Step, job : Job]]
  BY <1>3, <1>4, <1>8, DropHeld
<1>10. TypeOK'
  BY <1>3, <1>4, <1>8, <1>9 DEF TypeOK
<1>11. Told(r)' = Told(r) /\ ~Contains(dead, r)' /\ Local(r)' = Local(r)
  BY <1>3, <1>4 DEF Told, Contains, Local
<1>12. OnePlace(r)' /\ Unsent(r)' /\ Over(r)'
  BY <1>3, <1>4, <1>9, <1>11 DEF CallInv, OnePlace, Unsent, Over, Silent
<1>13. Backed(r)'
  BY <1>3, <1>4, <1>9 DEF CallInv, Backed
<1>14. Spent(r)'
  BY <1>3, <1>4, <1>8, <1>9, <1>11 DEF Spent
<1>15. \A q \in Request \ {r} : SameCall(q)
  <2>1. \A q : Contains(dead, q)' => Contains(dead, q)
    BY <1>4 DEF Contains
  <2>2. QED
    BY <1>1, <1>2, <1>4, <1>8, <2>1, WorkersOthers
<1>16. cache' \subseteq solved'
  BY <1>4 DEF IInv
<1>17. QED
  BY <1>3, <1>10, <1>12, <1>13, <1>14, <1>15, <1>16, OneCall DEF CallInv
-----------------------------------------------------------------------------
(* The invariant of every step, and what follows from it.                  *)

LEMMA InitInv == Init => IInv
<1> SUFFICES ASSUME Init PROVE IInv
  OBVIOUS
<1>1. TypeOK
  <2>1. <<>> \in Seq(Job) /\ <<>> \in Seq(Request) /\ <<>> \in Seq({"ok", "error"})
    BY EmptySeq
  <2>2. QED
    BY <2>1 DEF Init, TypeOK
<1>2. ASSUME NEW r \in Request PROVE CallInv(r)
  <2>1. /\ call[r] = "new" /\ results[r] = <<>> /\ runs[r] = 0
        /\ Len(queue) = 0 /\ Len(results[r]) = 0 /\ Len(dead) = 0
    BY EmptySeq DEF Init
  <2>2. Queued(r) = {} /\ HeldBy(r) = {} /\ ~Contains(dead, r) /\ Told(r) = {} /\ ~Live(r)
    BY <2>1 DEF Init, Queued, HeldBy, Contains, Told, Live
  <2>3. QED
    BY <2>1, <2>2, ConstantsAssumption
       DEF CallInv, OnePlace, Unsent, Over, Backed, Spent, Local
<1>3. QED
  BY <1>1, <1>2 DEF IInv, Init

LEMMA IInvStep == IInv /\ [Next]_vars => IInv'
<1> SUFFICES ASSUME IInv, [Next]_vars PROVE IInv'
  OBVIOUS
<1>1. ASSUME NEW r \in Request, Submit(r) \/ CallerStep(r) \/ CallerFails(r) PROVE IInv'
  BY <1>1, CallerQuiet, PushInv, ReceiveInv, DiscardInv, SolveLocallyInv DEF CallerStep
<1>2. ASSUME NEW k \in Captcha, Evict(k) PROVE IInv'
  BY <1>2, EvictInv
<1>3. CASE ApiCrashes
  BY <1>3, ApiCrashesInv
<1>4. ASSUME NEW w \in Worker, Take(w) \/ WorkerStep(w) PROVE IInv'
  BY <1>4, TakeInv, SolveInv, PublishInv, FinishPublishInv, RequeueInv, BuryInv, TrimInv,
     TellErrorInv DEF WorkerStep
<1>5. ASSUME NEW w \in Worker, WorkerFails(w) \/ WorkerStops(w) PROVE IInv'
  BY <1>5, WorkerFailsInv, WorkerStopsInv
<1>6. CASE UNCHANGED vars
  <2>1. \A r \in Request : SameCall(r)
    BY <1>6 DEF vars, SameCall, Queued, HeldBy, Contains
  <2>2. TypeOK' /\ cache' \subseteq solved'
    BY <1>6 DEF IInv, TypeOK, vars
  <2>3. QED
    BY <2>1, <2>2, Untouched DEF IInv
<1>7. QED
  BY <1>1, <1>2, <1>3, <1>4, <1>5, <1>6 DEF Next

LEMMA IInvAlways == Spec => []IInv
  BY InitInv, IInvStep, PTL DEF Spec

\* The lists in Redis, the worker loops and the calls keep their types.
THEOREM TypeCorrect == Spec => []TypeOK
<1>1. IInv => TypeOK
  BY DEF IInv
<1>2. QED
  BY <1>1, IInvAlways, PTL

LEMMA AtMostOne ==
    ASSUME NEW S, \A x, y \in S : x = y
    PROVE  Cardinality(S) = IF S = {} THEN 0 ELSE 1
<1>1. CASE S = {}
  BY <1>1, FS_EmptySet
<1>2. CASE S # {}
  <2>1. PICK x : S = {x}
    BY <1>2
  <2>2. QED
    BY <1>2, <2>1, FS_Singleton
<1>3. QED
  BY <1>1, <1>2

\* For any number of calls and workers and any failures of Redis: a job is in one
\* place of the queue, in the hands of one worker, or nowhere.
THEOREM OneCopyAlways == Spec => []OneCopy
<1>1. ASSUME IInv PROVE OneCopy
  <2>1. ASSUME NEW r \in Request
        PROVE  Cardinality(HeldBy(r)) + Cardinality(Queued(r)) =< 1
    <3>1. OnePlace(r)
      BY <1>1 DEF IInv, CallInv
    <3>2. Cardinality(HeldBy(r)) = IF HeldBy(r) = {} THEN 0 ELSE 1
      BY <3>1, AtMostOne DEF OnePlace
    <3>3. Cardinality(Queued(r)) = IF Queued(r) = {} THEN 0 ELSE 1
      BY <3>1, AtMostOne DEF OnePlace
    <3>4. QED
      BY <3>1, <3>2, <3>3 DEF OnePlace
  <2>2. ASSUME NEW r \in Request PROVE Queued(r) # {} => call[r] # "new"
    BY <1>1 DEF IInv, CallInv, Unsent
  <2>3. QED
    BY <2>1, <2>2 DEF OneCopy
<1>2. QED
  BY <1>1, IInvAlways, PTL

\* A call that is told of an error, and a job among the dead letters, are over: no
\* worker runs the job again, and no result follows the error.
THEOREM DeadIsOverAlways == Spec => []DeadIsOver
<1>1. ASSUME IInv PROVE DeadIsOver
  <2>1. ASSUME NEW r \in Request
        PROVE  /\ Told(r) # {} => ~Live(r) /\ Told(r) = {Len(results[r])}
               /\ Contains(dead, r) => ~Live(r)
               /\ call[r] = "goterror" => ~Live(r) /\ results[r] = <<>>
    BY <1>1 DEF IInv, CallInv, Over, Silent
  <2>2. QED
    BY <2>1 DEF DeadIsOver, Told
<1>2. QED
  BY <1>1, IInvAlways, PTL
-----------------------------------------------------------------------------
(* RemoteSolve does what SolvePromise says of every step.                  *)

Outer == [r \in Request |-> CallOf(r)]
Budgeted == IF FallbackLocal THEN MaxAttempts + 1 ELSE MaxAttempts
PromiseStep == [Promise!Next]_(Promise!vars)

LEMMA OuterMoves ==
    ASSUME NEW r \in Request, \A q \in Request \ {r} : call'[q] = call[q]
    PROVE  Outer' = [Outer EXCEPT ![r] = CallOf(r)']
  BY DEF Outer, CallOf

LEMMA Stutter == ASSUME UNCHANGED <<call, runs, solved>> PROVE PromiseStep
<1>1. Outer' = Outer
  BY DEF Outer, CallOf
<1>2. QED
  BY <1>1 DEF PromiseStep, Promise!vars, Outer

\* A call that is under way goes on, or is settled.
LEMMA Settling ==
    ASSUME NEW r \in Request, UNCHANGED <<runs, solved>>, CallOf(r) = "pending",
           \A q \in Request \ {r} : call'[q] = call[q],
           \/ CallOf(r)' \in {"pending", "error"}
           \/ CallOf(r)' = "result" /\ CaptchaOf[r] \in solved
    PROVE  PromiseStep
<1>1. Outer' = [Outer EXCEPT ![r] = CallOf(r)'] /\ Outer[r] = "pending"
  BY OuterMoves DEF Outer
<1>2. CASE CallOf(r)' = "pending"
  <2>1. Outer' = Outer
    BY <1>1, <1>2 DEF Outer
  <2>2. QED
    BY <2>1 DEF PromiseStep, Promise!vars, Outer
<1>3. CASE CallOf(r)' # "pending"
  <2>1. Promise!Settle(r)
    BY <1>1, <1>3 DEF Promise!Settle, Promise!Settled, Outer
  <2>2. QED
    BY <2>1 DEF PromiseStep, Promise!Next
<1>4. QED
  BY <1>2, <1>3

LEMMA SubmitRefines == ASSUME IInv, NEW r \in Request, Submit(r) PROVE PromiseStep
<1>1. call[r] = "new" /\ UNCHANGED <<runs, solved>> /\ TypeOK
  BY DEF Submit, IInv
<1>2. /\ \A q \in Request \ {r} : call'[q] = call[q]
      /\ call'[r] = "push" \/ (call'[r] = "result" /\ CaptchaOf[r] \in solved)
  BY <1>1 DEF Submit, Goto, TypeOK, IInv
<1>3. /\ Outer' = [Outer EXCEPT ![r] = CallOf(r)'] /\ Outer[r] = "new"
      /\ CallOf(r)' = "pending" \/ (CallOf(r)' = "result" /\ CaptchaOf[r] \in solved)
  BY <1>1, <1>2, OuterMoves DEF Outer, CallOf, Ended
<1>4. Promise!Ask(r)
  BY <1>1, <1>3 DEF Promise!Ask, Outer
<1>5. QED
  BY <1>4 DEF PromiseStep, Promise!Next

\* Everything a caller does with Redis: it goes on, falls back, or has its result.
LEMMA CallerRefines ==
    ASSUME IInv, NEW r \in Request,
           \/ Push(r) \/ SetExpiry(r) \/ Receive(r)
           \/ TimeOut(r) \/ CallerFails(r) \/ Discard(r)
    PROVE  PromiseStep
<1>1. UNCHANGED <<runs, solved>> /\ TypeOK /\ call[r] \in Caller /\ CallInv(r)
  BY DEF Push, SetExpiry, Receive, TimeOut, CallerFails, Discard, Caller, IInv
<1>2. /\ \A q \in Request \ {r} : call'[q] = call[q]
      /\ \/ call'[r] \in Caller \cup {"local", "error"}
         \/ call'[r] = "result" /\ CaptchaOf[r] \in solved
  <2>1. CASE FallBack(r)
    BY <1>1, <2>1, FallBackType
  <2>2. CASE \E l \in Caller : Goto(r, l)
    BY <1>1, <2>2, GotoType DEF Label
  <2>3. CASE call[r] = "gotok" /\ Goto(r, "result")
    <3>1. CaptchaOf[r] \in solved
      BY <1>1, <2>3 DEF CallInv, Backed
    <3>2. "result" \in Label
      BY DEF Label, Ended
    <3>3. QED
      BY <1>1, <2>3, <3>1, <3>2, GotoType
  <2>4. QED
    BY <2>1, <2>2, <2>3
       DEF Push, SetExpiry, Receive, TimeOut, CallerFails, Discard, Caller
<1>3. /\ CallOf(r) = "pending"
      /\ \/ CallOf(r)' \in {"pending", "error"}
         \/ CallOf(r)' = "result" /\ CaptchaOf[r] \in solved
  BY <1>1, <1>2 DEF CallOf, Caller, Ended
<1>4. QED
  BY <1>1, <1>2, <1>3, Settling

\* A run for a call that has some of its budget left.
LEMMA RunRefines ==
    ASSUME IInv, NEW r \in Request, NEW ok \in BOOLEAN, Runs(r, ok), call[r] # "new",
           runs[r] < Budgeted,
           \/ UNCHANGED call
           \/ /\ CallOf(r) = "pending" /\ \A q \in Request \ {r} : call'[q] = call[q]
              /\ CallOf(r)' = IF ok THEN "result" ELSE "error"
    PROVE  PromiseStep
<1>1. TypeOK
  BY DEF IInv
<1>2. /\ runs' = [runs EXCEPT ![r] = @ + 1] /\ solved' \in {solved, solved \cup {CaptchaOf[r]}}
      /\ ok => CaptchaOf[r] \in solved'
  BY DEF Runs
<1>3. Outer[r] # "new"
  BY DEF Outer, CallOf
<1>4. CASE UNCHANGED call
  <2>1. Outer' = Outer
    BY <1>4 DEF Outer, CallOf
  <2>2. Promise!Run(r)
    BY <1>2, <1>3, <2>1 DEF Promise!Run, Outer, Budgeted
  <2>3. QED
    BY <2>2 DEF PromiseStep, Promise!Next
<1>5. CASE /\ CallOf(r) = "pending" /\ \A q \in Request \ {r} : call'[q] = call[q]
           /\ CallOf(r)' = IF ok THEN "result" ELSE "error"
  <2>1. /\ Outer' = [Outer EXCEPT ![r] = IF ok THEN "result" ELSE "error"]
        /\ Outer[r] = "pending"
    BY <1>5, OuterMoves DEF Outer
  <2>2. Promise!Settled(r)
    BY <1>2, <2>1 DEF Promise!Settled, Outer
  <2>3. Promise!Run(r)
    BY <1>2, <1>3, <2>2 DEF Promise!Run, Outer, Budgeted
  <2>4. QED
    BY <2>3 DEF PromiseStep, Promise!Next
<1>6. QED
  BY <1>4, <1>5

LEMMA SolveLocallyRefines == ASSUME IInv, NEW r \in Request, SolveLocally(r) PROVE PromiseStep
<1>1. PICK ok \in BOOLEAN : Runs(r, ok) /\ Goto(r, IF ok THEN "result" ELSE "error")
  BY DEF SolveLocally
<1>2. call[r] = "local" /\ TypeOK /\ CallInv(r)
  BY DEF SolveLocally, IInv
<1>3. /\ \A q \in Request \ {r} : call'[q] = call[q]
      /\ call'[r] = IF ok THEN "result" ELSE "error"
  <2>1. (IF ok THEN "result" ELSE "error") \in Label
    BY DEF Label, Ended
  <2>2. QED
    BY <1>1, <1>2, <2>1, GotoType
<1>4. CallOf(r) = "pending" /\ CallOf(r)' = IF ok THEN "result" ELSE "error"
  BY <1>2, <1>3 DEF CallOf, Ended
<1>5. runs[r] < Budgeted
  BY <1>2, ConstantsAssumption DEF CallInv, Backed, Spent, Local, Budgeted, TypeOK
<1>6. QED
  BY <1>1, <1>2, <1>3, <1>4, <1>5, RunRefines

LEMMA SolveRefines == ASSUME IInv, NEW w \in Worker, Solve(w) PROVE PromiseStep
<1>1. PICK ok \in BOOLEAN : Runs(work[w].job.id, ok)
  BY DEF Solve
<1>2. PICK r : r = work[w].job.id
  OBVIOUS
<1>3. work[w].step = "solve" /\ UNCHANGED call /\ work[w] # Idle
  BY Busy DEF Solve, Step
<1>4. /\ r \in Request /\ CallInv(r) /\ call[r] # "new"
      /\ work[w].job.attempt \in 1 .. MaxAttempts
      /\ MaxAttempts \in Nat /\ runs[r] \in Nat
      /\ runs[r] < work[w].job.attempt + Local(r)
  BY <1>2, <1>3, Holds
<1>5. runs[r] < Budgeted
  BY <1>4 DEF Local, Budgeted
<1>6. QED
  BY <1>1, <1>2, <1>3, <1>4, <1>5, RunRefines

LEMMA ApiCrashesRefines == ASSUME IInv, ApiCrashes PROVE PromiseStep
<1>1. PICK R : R = {r \in Request : call[r] \in Caller \cup {"local"}}
  OBVIOUS
<1>2. R \in SUBSET Request /\ \A r \in R : Outer[r] = "pending"
  BY <1>1 DEF Outer, CallOf, Caller, Ended
<1>3. Outer' = [r \in Request |-> IF r \in R THEN "lost" ELSE Outer[r]]
  BY <1>1 DEF ApiCrashes, Outer, CallOf, Ended
<1>4. Promise!Lose(R)
  BY <1>2, <1>3 DEF Promise!Lose, ApiCrashes, Outer
<1>5. QED
  BY <1>2, <1>4 DEF PromiseStep, Promise!Next

LEMMA StepRefines == IInv /\ [Next]_vars => PromiseStep
<1> SUFFICES ASSUME IInv, [Next]_vars PROVE PromiseStep
  OBVIOUS
<1>1. ASSUME NEW r \in Request, Submit(r) \/ CallerStep(r) \/ CallerFails(r) PROVE PromiseStep
  BY <1>1, SubmitRefines, CallerRefines, SolveLocallyRefines DEF CallerStep
<1>2. ASSUME NEW k \in Captcha, Evict(k) PROVE PromiseStep
  BY <1>2, Stutter DEF Evict
<1>3. ASSUME NEW w \in Worker, Take(w) \/ WorkerStep(w) PROVE PromiseStep
  <2>1. CASE Solve(w)
    BY <2>1, SolveRefines
  <2>2. CASE ~Solve(w)
    <3>1. UNCHANGED <<call, runs, solved>>
      BY <1>3, <2>2 DEF Take, WorkerStep, Publish, FinishPublish, Requeue, Bury, Trim, TellError
    <3>2. QED
      BY <3>1, Stutter
  <2>3. QED
    BY <2>1, <2>2
<1>4. ASSUME NEW w \in Worker, WorkerFails(w) \/ WorkerStops(w) PROVE PromiseStep
  BY <1>4, Stutter DEF WorkerFails, WorkerStops
<1>5. CASE UNCHANGED vars
  BY <1>5, Stutter DEF vars
<1>6. QED
  BY <1>1, <1>2, <1>3, <1>4, <1>5, ApiCrashesRefines DEF Next

\* For any number of calls, workers and attempts: each call is settled once, gets a
\* result only for a captcha some run has solved, and the model runs for it at most
\* as often as it may be attempted, with one more run in the API process at most.
THEOREM SolvesKeepPromise == Spec => Promise!Safety
<1>1. Init => Promise!Init
  BY DEF Init, Promise!Init, CallOf, Ended
<1>2. IInv /\ [Next]_vars => [Promise!Next]_(Promise!vars)
  BY StepRefines DEF PromiseStep
<1>3. QED
  BY <1>1, <1>2, IInvAlways, PTL DEF Spec, Promise!Safety
=============================================================================
