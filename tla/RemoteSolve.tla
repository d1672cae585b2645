---------------------------- MODULE RemoteSolve -----------------------------
(***************************************************************************)
(* Captcha jobs over Redis: one API process that pushes jobs and waits for *)
(* results, and the standalone workers that pop, solve, retry and bury     *)
(* them.                                                                   *)
(*                                                                         *)
(* Code: backend/app/services/solver_service.py (submit, _submit_remote,   *)
(* solve_direct) and backend/app/worker.py.                                *)
(*                                                                         *)
(* Every Redis command is a step of its own and may raise, before or after *)
(* the server has executed it. Result keys carry a fresh id per call, and  *)
(* their time to live (60 s at least) exceeds a caller's wait (30 s), so   *)
(* expiry only frees memory and is left out.                               *)
(***************************************************************************)
EXTENDS Naturals, SequencesExt

CONSTANTS
    Request,        \* calls of submit
    CaptchaOf,      \* the captcha (image, domain and field) of each call
    Worker,         \* worker loops, of any number of worker processes
    MaxAttempts,    \* SOLVER_JOB_ATTEMPTS
    DeadLimit,      \* dead letters kept (1000)
    FallbackLocal   \* SOLVER_QUEUE_FALLBACK_LOCAL

ASSUME ConstantsAssumption ==
    /\ MaxAttempts \in Nat \ {0}
    /\ DeadLimit \in Nat \ {0}
    /\ FallbackLocal \in BOOLEAN

Captcha == {CaptchaOf[r] : r \in Request}

VARIABLES
    call,       \* where each call of submit is
    queue,      \* the Redis list of jobs: request and attempt
    results,    \* the Redis list under each call's result key
    dead,       \* the dead letter list
    work,       \* each worker loop: its step and the job it holds
    cache,      \* captchas in the API process's result cache
    runs,       \* history: runs of the model made for each call
    solved      \* history: captchas that some run has solved

vars == <<call, queue, results, dead, work, cache, runs, solved>>

Job == [id : Request, attempt : 1 .. MaxAttempts]

Caller == {"push", "expire", "wait", "gotok", "goterror"}
Ended == {"result", "error", "lost"}

Step == {"solve", "publish", "published", "retry", "trim", "tell", "told"}

\* A worker with nothing to do holds no job.
Idle == [step |-> "idle", job |-> {}]

Goto(r, label) == call' = [call EXCEPT ![r] = label]
Move(w, step) == work' = [work EXCEPT ![w].step = step]
Drop(w) == work' = [work EXCEPT ![w] = Idle]

-----------------------------------------------------------------------------
(* submit and _submit_remote.                                              *)

\* A cached captcha is answered at once; entries also time out.
Submit(r) ==
    /\ call[r] = "new"
    /\ Goto(r, IF CaptchaOf[r] \in cache THEN "result" ELSE "push")
    /\ UNCHANGED <<queue, results, dead, work, cache, runs, solved>>

Evict(k) ==
    /\ k \in cache
    /\ cache' = cache \ {k}
    /\ UNCHANGED <<call, queue, results, dead, work, runs, solved>>

\* Any exception, the 504 of a timeout included, falls back to solving here.
FallBack(r) == Goto(r, IF FallbackLocal THEN "local" ELSE "error")

Push(r) ==
    /\ call[r] = "push"
    /\ queue' = Append(queue, [id |-> r, attempt |-> 1])
    /\ Goto(r, "expire") \/ FallBack(r)
    /\ UNCHANGED <<results, dead, work, cache, runs, solved>>

\* EXPIRE on the result key, which rarely exists yet.
SetExpiry(r) ==
    /\ call[r] = "expire"
    /\ Goto(r, "wait")
    /\ UNCHANGED <<queue, results, dead, work, cache, runs, solved>>

Receive(r) ==
    /\ call[r] = "wait" /\ results[r] # <<>>
    /\ Goto(r, IF Head(results[r]) = "ok" THEN "gotok" ELSE "goterror") \/ FallBack(r)
    /\ results' = [results EXCEPT ![r] = Tail(@)]
    /\ UNCHANGED <<queue, dead, work, cache, runs, solved>>

\* MUTANT of TimeOut: BLPOP without a timeout.
TimeOutNever(r) == call[r] = "wait" /\ UNCHANGED vars

TimeOut(r) ==
    /\ call[r] = "wait" /\ results[r] = <<>>
    /\ FallBack(r)
    /\ UNCHANGED <<queue, results, dead, work, cache, runs, solved>>

\* DELETE the key, then use what was popped: cache it, or raise the worker's error.
Discard(r) ==
    /\ call[r] \in {"gotok", "goterror"}
    /\ results' = [results EXCEPT ![r] = <<>>]
    /\ \/ /\ call[r] = "gotok"
          /\ cache' = cache \cup {CaptchaOf[r]}
          /\ Goto(r, "result")
       \/ FallBack(r) /\ UNCHANGED cache
    /\ UNCHANGED <<queue, dead, work, runs, solved>>

\* A Redis command of the caller raises without having been executed.
CallerFails(r) ==
    /\ call[r] \in Caller
    /\ FallBack(r)
    /\ UNCHANGED <<queue, results, dead, work, cache, runs, solved>>

\* A run of the model for r ends; only a run in the API process fills its cache.
Runs(r, ok) ==
    /\ runs' = [runs EXCEPT ![r] = @ + 1]
    /\ solved' = IF ok THEN solved \cup {CaptchaOf[r]} ELSE solved

SolveLocally(r) ==
    /\ call[r] = "local"
    /\ \E ok \in BOOLEAN :
          /\ Runs(r, ok)
          /\ cache' = IF ok THEN cache \cup {CaptchaOf[r]} ELSE cache
          /\ Goto(r, IF ok THEN "result" ELSE "error")
    /\ UNCHANGED <<queue, results, dead, work>>

\* The API process stops; its calls and its cache are gone, its jobs are not.
ApiCrashes ==
    /\ \E r \in Request : call[r] \in Caller \cup {"local"}
    /\ call' = [r \in Request |->
                  IF call[r] \in Caller \cup {"local"} THEN "lost" ELSE call[r]]
    /\ cache' = {}
    /\ UNCHANGED <<queue, results, dead, work, runs, solved>>

-----------------------------------------------------------------------------
(* worker.py.                                                              *)

\* MUTANT of Take: the job stays in the list until it is done.
TakePeeks(w) ==
    /\ work[w] = Idle /\ queue # <<>>
    /\ work' = [work EXCEPT ![w] = [step |-> "solve", job |-> Head(queue)]]
    /\ UNCHANGED <<call, queue, results, dead, cache, runs, solved>>

\* MUTANT of Take: a job whose caller gave up is left where it is.
TakeWanted(w) ==
    /\ work[w] = Idle /\ queue # <<>>
    /\ call[Head(queue).id] \in Caller
    /\ work' = [work EXCEPT ![w] = [step |-> "solve", job |-> Head(queue)]]
    /\ queue' = Tail(queue)
    /\ UNCHANGED <<call, results, dead, cache, runs, solved>>

\* BLPOP: from here to its end the job is only in the worker's memory.
Take(w) ==
    /\ work[w] = Idle /\ queue # <<>>
    /\ work' = [work EXCEPT ![w] = [step |-> "solve", job |-> Head(queue)]]
    /\ queue' = Tail(queue)
    /\ UNCHANGED <<call, results, dead, cache, runs, solved>>

Solve(w) ==
    /\ work[w].step = "solve"
    /\ \E ok \in BOOLEAN :
          /\ Runs(work[w].job.id, ok)
          /\ Move(w, IF ok THEN "publish" ELSE "retry")
    /\ UNCHANGED <<call, queue, results, dead, cache>>

Tell(r, status) == results' = [results EXCEPT ![r] = Append(@, status)]

\* A failure to publish a good result is an error of the job like any other.
Publish(w) ==
    /\ work[w].step = "publish"
    /\ Tell(work[w].job.id, "ok")
    /\ Move(w, "published") \/ Move(w, "retry")
    /\ UNCHANGED <<call, queue, dead, cache, runs, solved>>

\* EXPIRE after the RPUSH, on both paths.
FinishPublish(w) ==
    /\ work[w].step \in {"published", "told"}
    /\ Drop(w)
    /\ UNCHANGED <<call, queue, results, dead, cache, runs, solved>>

\* MUTANTS of Requeue: no limit on attempts; the error is told before the retry.
RequeueForever(w) ==
    /\ work[w].step = "retry"
    /\ queue' = Append(queue, [work[w].job EXCEPT !.attempt = @ + 1])
    /\ Drop(w)
    /\ UNCHANGED <<call, results, dead, cache, runs, solved>>

RequeueTells(w) ==
    /\ work[w].step = "retry" /\ work[w].job.attempt < MaxAttempts
    /\ queue' = Append(queue, [work[w].job EXCEPT !.attempt = @ + 1])
    /\ Tell(work[w].job.id, "error")
    /\ Drop(w)
    /\ UNCHANGED <<call, dead, cache, runs, solved>>

\* To the tail of the queue with the next attempt number.
Requeue(w) ==
    /\ work[w].step = "retry" /\ work[w].job.attempt < MaxAttempts
    /\ queue' = Append(queue, [work[w].job EXCEPT !.attempt = @ + 1])
    /\ Drop(w)
    /\ UNCHANGED <<call, results, dead, cache, runs, solved>>

Bury(w) ==
    /\ work[w].step = "retry" /\ work[w].job.attempt = MaxAttempts
    /\ dead' = Append(dead, work[w].job.id)
    /\ Move(w, "trim") \/ Drop(w)
    /\ UNCHANGED <<call, queue, results, cache, runs, solved>>

\* LTRIM -1000 -1.
Trim(w) ==
    /\ work[w].step = "trim"
    /\ dead' = IF Len(dead) > DeadLimit
               THEN SubSeq(dead, Len(dead) - DeadLimit + 1, Len(dead)) ELSE dead
    /\ Move(w, "tell") \/ Drop(w)
    /\ UNCHANGED <<call, queue, results, cache, runs, solved>>

TellError(w) ==
    /\ work[w].step = "tell"
    /\ Tell(work[w].job.id, "error")
    /\ Move(w, "told") \/ Drop(w)
    /\ UNCHANGED <<call, queue, dead, cache, runs, solved>>

\* A Redis command raises unexecuted: before the result is out the job is retried,
\* afterwards the loop logs the error and the job is gone.
WorkerFails(w) ==
    /\ \/ work[w].step \in {"publish", "published"} /\ Move(w, "retry")
       \/ work[w].step \in {"retry", "trim", "tell", "told"} /\ Drop(w)
    /\ UNCHANGED <<call, queue, results, dead, cache, runs, solved>>

\* SIGTERM cancels the loops (a crash does the same), and a new one starts.
WorkerStops(w) ==
    /\ work[w] # Idle
    /\ Drop(w)
    /\ UNCHANGED <<call, queue, results, dead, cache, runs, solved>>

-----------------------------------------------------------------------------
Init == /\ call = [r \in Request |-> "new"]
        /\ queue = <<>>
        /\ results = [r \in Request |-> <<>>]
        /\ dead = <<>>
        /\ work = [w \in Worker |-> Idle]
        /\ cache = {}
        /\ runs = [r \in Request |-> 0]
        /\ solved = {}

CallerStep(r) == Push(r) \/ SetExpiry(r) \/ Receive(r) \/ TimeOut(r) \/ Discard(r)
                   \/ SolveLocally(r)

WorkerStep(w) == Solve(w) \/ Publish(w) \/ FinishPublish(w) \/ Requeue(w) \/ Bury(w)
                   \/ Trim(w) \/ TellError(w)

Next == \/ \E r \in Request : Submit(r) \/ CallerStep(r) \/ CallerFails(r)
        \/ \E k \in Captcha : Evict(k)
        \/ ApiCrashes
        \/ \E w \in Worker : Take(w) \/ WorkerStep(w) \/ WorkerFails(w) \/ WorkerStops(w)

\* A caller's next command returns, raises or times out; a worker loop pops while
\* there are jobs and goes on with the one it has; runs of the model end.
Fairness == /\ \A r \in Request : WF_vars(CallerStep(r))
            /\ \A w \in Worker : WF_vars(Take(w)) /\ WF_vars(WorkerStep(w))

Spec == Init /\ [][Next]_vars /\ Fairness

-----------------------------------------------------------------------------
(* Properties.                                                             *)

\* The types of the Redis lists, the worker loops and the calls.
TypeOK ==
    /\ call \in [Request -> Caller \cup Ended \cup {"new", "local"}]
    /\ queue \in Seq(Job)
    /\ results \in [Request -> Seq({"ok", "error"})]
    /\ dead \in Seq(Request)
    /\ work \in [Worker -> {Idle} \cup [step : Step, job : Job]]
    /\ cache \subseteq Captcha
    /\ runs \in [Request -> Nat]
    /\ solved \subseteq Captcha

Queued(r) == {i \in 1 .. Len(queue) : queue[i].id = r}
HeldBy(r) == {w \in Worker : work[w] # Idle /\ work[w].job.id = r}

\* A job that a worker may still run.
Live(r) == \/ Queued(r) # {}
           \/ \E w \in HeldBy(r) : work[w].step \in {"solve", "publish", "published", "retry"}

\* Retries move a job, they never copy it: whatever commands fail, and whether or not
\* they were executed, no two workers ever have the same job.
OneCopy ==
    \A r \in Request : /\ Cardinality(HeldBy(r)) + Cardinality(Queued(r)) =< 1
                       /\ Queued(r) # {} => call[r] # "new"

\* A buried or failed job is over: once a call is told of an error, or its job is a
\* dead letter, no worker runs that job again and nothing follows the error.
DeadIsOver ==
    \A r \in Request :
        LET told == {i \in 1 .. Len(results[r]) : results[r][i] = "error"} IN
        /\ told # {} => ~Live(r) /\ told = {Len(results[r])}
        /\ Contains(dead, r) => ~Live(r)
        /\ call[r] = "goterror" => ~Live(r) /\ results[r] = <<>>

\* No job stays for ever: it is solved, buried or lost with its worker.
JobsSettle == \A r \in Request : Live(r) ~> ~Live(r)

\* SolverService.submit's promise (SolvePromise), for jobs over Redis.
CallOf(r) == IF call[r] \in Ended \cup {"new"} THEN call[r] ELSE "pending"

Promise == INSTANCE SolvePromise
             WITH call <- [r \in Request |-> CallOf(r)],
                  Budget <- IF FallbackLocal THEN MaxAttempts + 1 ELSE MaxAttempts
PromiseSpec == Promise!Spec
=============================================================================
