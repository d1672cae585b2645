-------------------------- MODULE DurableRegisters --------------------------
(***************************************************************************)
(* What the extension's protected storage promises its callers: one        *)
(* register per key, read and written in one step, and behind it the value *)
(* a restarted service worker finds.  A write shows at once; it is kept    *)
(* when its operation saves it, all its keys together; a restart returns   *)
(* every register to what was kept.  Nothing is read or written until the  *)
(* worker is awake, and a worker may wake without some of the values: they *)
(* are hidden, not lost, and the next one may find them.                   *)
(***************************************************************************)
CONSTANTS Key, Op, Writers, Old, Absent

VARIABLES value,   \* what a read returns
          kept,    \* what a restart returns to
          open,    \* the writes not yet saved, pairs <<operation, key>>
          awake,   \* the worker has its registers
          answer   \* what each read returned, for the keys it asked for

vars == <<value, kept, open, awake, answer>>

Value == Op \cup {Old, Absent}

\* What an operation writes: a set writes a value of its own, a removal nothing.
New(o) == IF o \in Writers THEN o ELSE Absent

NoAnswer == [k \in {} |-> Absent]

Init == /\ kept \in [Key -> {Old, Absent}]
        /\ value = kept
        /\ open = {}
        /\ awake = FALSE
        /\ answer = [o \in Op |-> NoAnswer]

\* The values of the keys K are not found.
Wake(K) == /\ ~awake /\ awake' = TRUE
           /\ value' = [k \in Key |-> IF k \in K THEN Absent ELSE kept[k]]
           /\ UNCHANGED <<kept, open, answer>>

Read(o, K) == /\ awake
              /\ answer' = [answer EXCEPT ![o] = [k \in K |-> value[k]]]
              /\ UNCHANGED <<value, kept, open, awake>>

Write(o, K) == /\ awake
               /\ value' = [k \in Key |-> IF k \in K THEN New(o) ELSE value[k]]
               /\ open' = open \cup ({o} \X K)
               /\ UNCHANGED <<kept, awake, answer>>

Save(o) == /\ awake
           /\ kept' = [k \in Key |-> IF <<o, k>> \in open THEN New(o) ELSE kept[k]]
           /\ open' = {w \in open : w[1] # o}
           /\ UNCHANGED <<value, awake, answer>>

\* The writes of these stay in the registers but will not be kept.
Abandon(O) == /\ open' = {w \in open : w[1] \notin O}
              /\ UNCHANGED <<value, kept, awake, answer>>

Restart == /\ value' = kept
           /\ open' = {}
           /\ awake' = FALSE
           /\ UNCHANGED <<kept, answer>>

Next == \/ \E o \in Op, K \in SUBSET Key : Read(o, K) \/ Write(o, K)
        \/ \E o \in Op : Save(o)
        \/ \E O \in SUBSET Op : Abandon(O)
        \/ \E K \in SUBSET Key : Wake(K)
        \/ Restart

Spec == Init /\ [][Next]_vars
=============================================================================
