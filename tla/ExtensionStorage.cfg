\* Any three of two sets, a removal and a read, each of one or two keys, and
\* one restart of the worker.
SPECIFICATION Spec
CONSTANTS
    k1 = k1  k2 = k2
    w1 = w1  w2 = w2  e1 = e1  r1 = r1
    Key = {k1, k2}
    Op = {w1, w2, e1, r1}
    Writers = {w1, w2}
    Erasers = {e1}
    Old = Old
    Absent = Absent
    MaxCalls = 3
    MaxKills = 1
INVARIANTS TypeOK EverythingOpens SurvivesTheWorker
PROPERTIES ImplementsRegisters
CHECK_DEADLOCK FALSE
SYMMETRY Alike
