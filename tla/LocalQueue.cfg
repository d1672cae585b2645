\* Three calls, two workers and a queue of one, which fills up before a worker comes.
SPECIFICATION Spec
CONSTANTS
    r1 = r1  r2 = r2  r3 = r3  w1 = w1  w2 = w2  k1 = k1  k2 = k2
    Request = {r1, r2, r3}
    CaptchaOf <- Captchas
    Worker = {w1, w2}
    MaxPending = 1
INVARIANTS TypeOK NobodyForgotten
PROPERTIES PromiseSpec
CHECK_DEADLOCK FALSE
