\* Two calls for one captcha, two workers, a fallback in the API process.
SPECIFICATION Spec
CONSTANTS
    r1 = r1  r2 = r2  w1 = w1  w2 = w2  k1 = k1
    Request = {r1, r2}
    CaptchaOf <- SameCaptcha
    Worker = {w1, w2}
    MaxAttempts = 2
    DeadLimit = 1
    FallbackLocal = TRUE
INVARIANTS TypeOK OneCopy DeadIsOver
PROPERTIES PromiseSpec JobsSettle
CHECK_DEADLOCK FALSE
