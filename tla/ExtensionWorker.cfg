\* The worker's own handler and one more; the timer's sync, the alarm's and the
\* user's; two scripts of which the plan allows one, two registrations, a document that
\* may have two calls in progress.
SPECIFICATION Spec
CONSTANTS
    None = None
    Handler = {own, other}
    Own = own
    MaxSignIns = 2
    MaxAccountEvents = 3
    Task = {timed, alarmed, user}
    ByTimer = timed
    ByAlarm = alarmed
    MaxEdits = 1
    MaxVersion = 3
    MaxSyncEvents = 3
    Script = {1, 2}
    Run = {q1, q2}
    Doc = {d1}
    ScriptOf <- FirstScript
    Caller = {g1, g2}
    DocOf <- OneDocument
    PlanLimit = 1
    MaxScriptEvents = 3
INVARIANTS OneAutoSync UndisturbedRunsAreExact RetryGetsThrough
PROPERTIES EndedSessionsGo CreditsRecover EditsAreBackedUp
CHECK_DEADLOCK FALSE
