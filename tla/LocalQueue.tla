----------------------------- MODULE LocalQueue ------------------------------
(***************************************************************************)
(* Captcha jobs inside the API process: submit puts a job and its future   *)
(* on a bounded asyncio queue, worker tasks resolve the futures, and stop  *)
(* cancels the workers and rejects what is left.                           *)
(*                                                                         *)
(* Code: backend/app/services/solver_service.py (submit, _worker_loop,     *)
(* stop) and the lifespan of backend/app/main.py.                          *)
(*                                                                         *)
(* Coroutines of one event loop: an action is what runs between two        *)
(* awaits. Calls the server has accepted still reach submit while it stops.*)
(***************************************************************************)
EXTENDS Naturals, SequencesExt

CONSTANTS
    Request,        \* calls of submit
    CaptchaOf,      \* the captcha (image, domain and field) of each call
    Worker,         \* worker tasks
    MaxPending      \* max_pending_jobs

ASSUME ConstantsAssumption == MaxPending \in Nat \ {0} /\ "gone" \notin Request

Captcha == {CaptchaOf[r] : r \in Request}

VARIABLES
    call,       \* each call of submit
    future,     \* its future: none, pending, or what it was resolved to
    queue,      \* asyncio.Queue of jobs, named by their call
    work,       \* the job each worker task runs: {r} or {}, or "gone"
    cache,      \* captchas in the result cache
    phase,      \* of the process: up, stopping, drained, exited
    runs,       \* history: runs of the model made for each call
    solved      \* history: captchas that some run has solved

vars == <<call, future, queue, work, cache, phase, runs, solved>>

Ended == {"result", "error", "lost"}
Goto(r, label) == call' = [call EXCEPT ![r] = label]

-----------------------------------------------------------------------------
(* submit.                                                                 *)

\* MUTANT of Submit: the bound of the queue is not looked at.
SubmitUnbounded(r) ==
    /\ call[r] = "new" /\ phase # "exited"
    /\ Goto(r, "wait")
    /\ future' = [future EXCEPT ![r] = "pending"]
    /\ queue' = Append(queue, r)
    /\ UNCHANGED <<work, cache, phase, runs, solved>>

\* Up to the first await: a cached answer, a 503 for a full queue, or a new job.
Submit(r) ==
    /\ call[r] = "new" /\ phase # "exited"
    /\ IF CaptchaOf[r] \in cache
       THEN Goto(r, "result") /\ UNCHANGED <<future, queue>>
       ELSE IF Len(queue) >= MaxPending
       THEN Goto(r, "error") /\ UNCHANGED <<future, queue>>
       ELSE /\ Goto(r, "wait")
            /\ future' = [future EXCEPT ![r] = "pending"]
            /\ queue' = Append(queue, r)
    /\ UNCHANGED <<work, cache, phase, runs, solved>>

Evict(k) ==
    /\ k \in cache
    /\ cache' = cache \ {k}
    /\ UNCHANGED <<call, future, queue, work, phase, runs, solved>>

\* return await future.
Resume(r) ==
    /\ call[r] = "wait" /\ future[r] \in Ended
    /\ Goto(r, future[r])
    /\ UNCHANGED <<future, queue, work, cache, phase, runs, solved>>

\* The server cancels the handler, which cancels the future it awaits; the job stays.
CallerCancelled(r) ==
    /\ call[r] = "wait"
    /\ Goto(r, "lost")
    /\ future' = [future EXCEPT ![r] = IF @ = "pending" THEN "lost" ELSE @]
    /\ UNCHANGED <<queue, work, cache, phase, runs, solved>>

-----------------------------------------------------------------------------
(* _worker_loop.                                                           *)

Take(w) ==
    /\ phase = "up" /\ work[w] = {} /\ queue # <<>>
    /\ work' = [work EXCEPT ![w] = {Head(queue)}]
    /\ queue' = Tail(queue)
    /\ UNCHANGED <<call, future, cache, phase, runs, solved>>

\* The future's set_result raises if it is done already; the loop only logs that.
Resolve(r, outcome) ==
    future' = [future EXCEPT ![r] = IF @ = "pending" THEN outcome ELSE @]

\* MUTANT of Finish: a failed run resolves nothing.
FinishSilent(w) ==
    /\ phase = "up"
    /\ \E r \in Request \cap work[w], ok \in BOOLEAN :
          /\ runs' = [runs EXCEPT ![r] = @ + 1]
          /\ solved' = IF ok THEN solved \cup {CaptchaOf[r]} ELSE solved
          /\ cache' = IF ok THEN cache \cup {CaptchaOf[r]} ELSE cache
          /\ IF ok THEN Resolve(r, "result") ELSE UNCHANGED future
    /\ work' = [work EXCEPT ![w] = {}]
    /\ UNCHANGED <<call, queue, phase>>

Finish(w) ==
    /\ phase = "up"
    /\ \E r \in Request \cap work[w], ok \in BOOLEAN :
          /\ runs' = [runs EXCEPT ![r] = @ + 1]
          /\ solved' = IF ok THEN solved \cup {CaptchaOf[r]} ELSE solved
          /\ cache' = IF ok THEN cache \cup {CaptchaOf[r]} ELSE cache
          /\ Resolve(r, IF ok THEN "result" ELSE "error")
    /\ work' = [work EXCEPT ![w] = {}]
    /\ UNCHANGED <<call, queue, phase>>

-----------------------------------------------------------------------------
(* stop.                                                                   *)

Stop ==
    /\ phase = "up"
    /\ phase' = "stopping"
    /\ UNCHANGED <<call, future, queue, work, cache, runs, solved>>

\* MUTANT of WorkerCancelled: the task ends and forgets its job's future.
WorkerCancelledForgets(w) ==
    /\ phase = "stopping" /\ work[w] # {"gone"}
    /\ work' = [work EXCEPT ![w] = {"gone"}]
    /\ UNCHANGED <<call, future, queue, cache, phase, runs, solved>>

\* CancelledError in a worker task: its job's future gets it as an exception.
WorkerCancelled(w) ==
    /\ phase = "stopping" /\ work[w] # {"gone"}
    /\ future' = [r \in Request |-> IF r \in work[w] /\ future[r] = "pending"
                                    THEN "lost" ELSE future[r]]
    /\ work' = [work EXCEPT ![w] = {"gone"}]
    /\ UNCHANGED <<call, queue, cache, phase, runs, solved>>

\* After gather: every job still queued is rejected, without an await in between.
Drain ==
    /\ phase = "stopping" /\ \A w \in Worker : work[w] = {"gone"}
    /\ future' = [r \in Request |-> IF Contains(queue, r) /\ future[r] = "pending"
                                    THEN "error" ELSE future[r]]
    /\ queue' = <<>>
    /\ phase' = "drained"
    /\ UNCHANGED <<call, work, cache, runs, solved>>

\* The process ends, by itself or killed at any time.
Exit ==
    /\ phase # "exited"
    /\ phase' = "exited"
    /\ call' = [r \in Request |-> IF call[r] = "wait" THEN "lost" ELSE call[r]]
    /\ UNCHANGED <<future, queue, work, cache, runs, solved>>

-----------------------------------------------------------------------------
Init == /\ call = [r \in Request |-> "new"]
        /\ future = [r \in Request |-> "none"]
        /\ queue = <<>>
        /\ work = [w \in Worker |-> {}]
        /\ cache = {}
        /\ phase = "up"
        /\ runs = [r \in Request |-> 0]
        /\ solved = {}

Next == \/ \E r \in Request : Submit(r) \/ Resume(r) \/ CallerCancelled(r)
        \/ \E k \in Captcha : Evict(k)
        \/ \E w \in Worker : Take(w) \/ Finish(w) \/ WorkerCancelled(w)
        \/ Stop \/ Drain \/ Exit

\* The event loop runs what is ready, runs of the model end, and a process that has
\* started to stop goes through with it.
Fairness == /\ \A r \in Request : WF_vars(Resume(r))
            /\ \A w \in Worker : /\ WF_vars(Take(w)) /\ WF_vars(Finish(w))
                                 /\ WF_vars(WorkerCancelled(w))
            /\ WF_vars(Drain)
            /\ WF_vars(phase = "drained" /\ Exit)

Spec == Init /\ [][Next]_vars /\ Fairness

-----------------------------------------------------------------------------
(* Properties.                                                             *)

\* The types of the queue, the workers' hands and the futures.
TypeOK ==
    /\ call \in [Request -> Ended \cup {"new", "wait"}]
    /\ future \in [Request -> Ended \cup {"none", "pending"}]
    /\ queue \in Seq(Request) /\ Len(queue) =< MaxPending
    /\ work \in [Worker -> {{}, {"gone"}} \cup {{r} : r \in Request}]
    /\ cache \subseteq Captcha
    /\ phase \in {"up", "stopping", "drained", "exited"}
    /\ runs \in [Request -> Nat]

InHand(r) == {w \in Worker : r \in work[w]}

\* Until the process has drained its queue, every caller that waits on an unresolved
\* future has a job somebody will still come to: one place in the queue or one
\* worker's hand, through full queues, cancelled callers and cancelled workers.
NobodyForgotten ==
    \A r \in Request :
        LET places == Cardinality({i \in 1 .. Len(queue) : queue[i] = r})
                        + Cardinality(InHand(r)) IN
        /\ places =< 1
        /\ phase \in {"up", "stopping"} /\ future[r] = "pending" => places = 1

\* SolverService.submit's promise (SolvePromise), for jobs in the process.
Promise == INSTANCE SolvePromise
             WITH call <- [r \in Request |-> IF call[r] = "wait" THEN "pending"
                                             ELSE call[r]],
                  Budget <- 1
PromiseSpec == Promise!Spec
=============================================================================
