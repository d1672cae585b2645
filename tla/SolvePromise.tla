---------------------------- MODULE SolvePromise ----------------------------
(***************************************************************************)
(* What SolverService.submit promises its callers, however jobs are        *)
(* queued: a call is settled once, and in the end; it gets a result only   *)
(* for a captcha some run of the model has solved; and the model runs at   *)
(* most Budget times on behalf of one call, which may include runs after   *)
(* the call is settled.                                                    *)
(***************************************************************************)
EXTENDS Naturals

CONSTANTS Request, CaptchaOf, Budget

VARIABLES call,     \* what became of each call
          runs,     \* runs of the model made for it
          solved    \* captchas that a run has solved

vars == <<call, runs, solved>>

CallState == {"new", "pending", "result", "error", "lost"}

TypeOK == /\ call \in [Request -> CallState]
          /\ runs \in [Request -> 0 .. Budget]
          /\ solved \subseteq {CaptchaOf[r] : r \in Request}

Init == /\ call = [r \in Request |-> "new"]
        /\ runs = [r \in Request |-> 0]
        /\ solved = {}

\* Some calls are settled on the spot: refused, or solved before.
Ask(r) == /\ call[r] = "new"
          /\ \/ \E c \in {"pending", "error"} : call' = [call EXCEPT ![r] = c]
             \/ CaptchaOf[r] \in solved /\ call' = [call EXCEPT ![r] = "result"]
          /\ UNCHANGED <<runs, solved>>

\* A result needs a captcha that is solved, by this step at the latest.
Settled(r) == /\ call[r] = "pending"
              /\ \/ /\ CaptchaOf[r] \in solved'
                    /\ call' = [call EXCEPT ![r] = "result"]
                 \/ call' = [call EXCEPT ![r] = "error"]
                 \/ call' = [call EXCEPT ![r] = "lost"]

Settle(r) == UNCHANGED <<runs, solved>> /\ Settled(r)

\* A run for r ends; the caller may be told in the same step.
Run(r) == /\ call[r] # "new"
          /\ runs[r] < Budget
          /\ runs' = [runs EXCEPT ![r] = @ + 1]
          /\ solved' \in {solved, solved \cup {CaptchaOf[r]}}
          /\ Settled(r) \/ UNCHANGED call

\* A process that stops takes its calls with it.
Lose(R) == /\ \A r \in R : call[r] = "pending"
           /\ call' = [r \in Request |-> IF r \in R THEN "lost" ELSE call[r]]
           /\ UNCHANGED <<runs, solved>>

Next == \/ \E r \in Request : Ask(r) \/ Settle(r) \/ Run(r)
        \/ \E R \in SUBSET Request : Lose(R)

Fairness == \A r \in Request : WF_vars(Settle(r))

Safety == Init /\ [][Next]_vars
Spec == Safety /\ Fairness
=============================================================================
