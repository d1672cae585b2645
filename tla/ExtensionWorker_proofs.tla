----------------------- MODULE ExtensionWorker_proofs ------------------------
(***************************************************************************)
(* What the service worker keeps for any handlers, tasks, scripts and      *)
(* documents: the flag of the automatic sync, the retry of a userscript's  *)
(* call, and the registrations that nothing disturbs.  A part is one of    *)
(* the state's, so a step of another part leaves its invariant alone.      *)
(***************************************************************************)
EXTENDS ExtensionWorker, FiniteSetTheorems, TLAPS

-----------------------------------------------------------------------------
(* The automatic sync.                                                     *)

IsTask(t) == t = [kind |-> t.kind, at |-> t.at, copy |-> t.copy, tried |-> t.tried]

\* An automatic task is busy as an automatic run only, other tasks never are.
Fits(t, h) ==
    /\ IsTask(t)
    /\ h \in C!Automatic => (t.at # "idle" <=> t.kind = "auto")
    /\ h \notin C!Automatic => t.kind # "auto"
    /\ t.at = "eligible" => t.kind = "auto"
    /\ t.at \in {"received", "replaced", "noted"} => t.kind # "auto"

SyncInv == /\ syncing \in BOOLEAN
           /\ task = [h \in Task |-> task[h]]
           /\ \A h \in Task : Fits(task[h], h)
           /\ C!FlagIsExact

\* A task whose place changes is the record it was, at that place.
LEMMA AtPlace ==
    ASSUME NEW t, IsTask(t), NEW x
    PROVE  [t EXCEPT !.at = x] = [kind |-> t.kind, at |-> x, copy |-> t.copy, tried |-> t.tried]
  BY DEF IsTask

LEMMA AtAndCopy ==
    ASSUME NEW t, IsTask(t), NEW x, NEW c
    PROVE  [[t EXCEPT !.at = x] EXCEPT !.copy = c]
               = [kind |-> t.kind, at |-> x, copy |-> c, tried |-> t.tried]
<1> DEFINE u == [t EXCEPT !.at = x]
<1>1. u = [kind |-> t.kind, at |-> x, copy |-> t.copy, tried |-> t.tried]
  BY AtPlace
<1> HIDE DEF u
<1>2. [u EXCEPT !.copy = c] = [kind |-> t.kind, at |-> x, copy |-> c, tried |-> t.tried]
  BY <1>1
<1>3. QED
  BY <1>2 DEF u

LEMMA AtAndTried ==
    ASSUME NEW t, IsTask(t), NEW x, NEW y
    PROVE  [[t EXCEPT !.at = x] EXCEPT !.tried = y]
               = [kind |-> t.kind, at |-> x, copy |-> t.copy, tried |-> y]
<1> DEFINE u == [t EXCEPT !.at = x]
<1>1. u = [kind |-> t.kind, at |-> x, copy |-> t.copy, tried |-> t.tried]
  BY AtPlace
<1> HIDE DEF u
<1>2. [u EXCEPT !.tried = y] = [kind |-> t.kind, at |-> x, copy |-> t.copy, tried |-> y]
  BY <1>1
<1>3. QED
  BY <1>2 DEF u

LEMMA KindAndPlace ==
    ASSUME NEW t, IsTask(t), NEW k, NEW x
    PROVE  [[t EXCEPT !.kind = k] EXCEPT !.at = x]
               = [kind |-> k, at |-> x, copy |-> t.copy, tried |-> t.tried]
<1> DEFINE u == [t EXCEPT !.kind = k]
<1>1. u = [kind |-> k, at |-> t.at, copy |-> t.copy, tried |-> t.tried]
  BY DEF IsTask
<1> HIDE DEF u
<1>2. [u EXCEPT !.at = x] = [kind |-> k, at |-> x, copy |-> t.copy, tried |-> t.tried]
  BY <1>1
<1>3. QED
  BY <1>2 DEF u

LEMMA RestingFits == ASSUME NEW h PROVE Fits(C!Resting, h)
  BY DEF Fits, IsTask, C!Resting

LEMMA SyncInit == C!Init => SyncInv
<1> SUFFICES ASSUME C!Init PROVE SyncInv
  OBVIOUS
<1>1. task = [h \in Task |-> C!Resting] /\ syncing = FALSE
  BY DEF C!Init
<1>2. \A h \in Task : Fits(task[h], h)
  BY <1>1, RestingFits
<1>3. C!FlagIsExact
  BY <1>1, AutomaticTasks DEF C!FlagIsExact, C!Busy, C!At, C!Automatic, C!Resting
<1>4. QED
  BY <1>1, <1>2, <1>3 DEF SyncInv

\* One task moves: it goes on, an automatic one begins, or one ends.
LEMMA OneTaskMoves ==
    ASSUME SyncInv, NEW h \in Task, NEW t, Fits(t, h), task' = [task EXCEPT ![h] = t],
           \/ syncing' = syncing /\ (h \in C!Automatic => (C!Busy(h) <=> t.at # "idle"))
           \/ /\ h \in C!Automatic /\ (C!Busy(h) \/ ~syncing)
              /\ syncing' \in BOOLEAN /\ (syncing' <=> t.at # "idle")
    PROVE  SyncInv'
<1>1. task'[h] = t /\ \A g \in Task \ {h} : task'[g] = task[g]
  BY DEF SyncInv
<1>2. task' = [g \in Task |-> task'[g]]
  BY DEF SyncInv
<1>3. \A g \in Task : Fits(task'[g], g)
  BY <1>1 DEF SyncInv
<1>4. C!FlagIsExact'
  BY <1>1, AutomaticTasks DEF SyncInv, C!FlagIsExact, C!Busy, C!At, C!Automatic
<1>5. QED
  BY <1>2, <1>3, <1>4 DEF SyncInv

\* A task goes on at another place of its run, the flag staying as it is.
LEMMA TaskGoesOn ==
    ASSUME SyncInv, NEW h \in Task, C!Busy(h), NEW t, IsTask(t),
           t.kind = task[h].kind, t.at # "idle",
           t.at = "eligible" => task[h].kind = "auto",
           t.at \in {"received", "replaced", "noted"} => task[h].kind # "auto",
           task' = [task EXCEPT ![h] = t], syncing' = syncing
    PROVE  SyncInv'
<1>1. Fits(t, h)
  BY DEF SyncInv, Fits, C!Busy, C!At
<1>2. QED
  BY <1>1, OneTaskMoves

\* A task rests: an automatic one clears the flag, another leaves it.
LEMMA TaskRests ==
    ASSUME SyncInv, NEW h \in Task, C!Busy(h), C!Rests(h),
           syncing' = (syncing /\ ~C!Of(h, {"auto"}))
    PROVE  SyncInv'
<1>1. task' = [task EXCEPT ![h] = C!Resting] /\ C!Resting.at = "idle"
  BY DEF C!Rests, C!Resting
<1>2. CASE h \in C!Automatic
  <2>1. C!Of(h, {"auto"})
    BY <1>2 DEF SyncInv, Fits, C!Of, C!Busy, C!At
  <2>2. syncing' = FALSE
    BY <2>1
  <2>3. QED
    BY <1>1, <1>2, <2>2, RestingFits, OneTaskMoves
<1>3. CASE h \notin C!Automatic
  <2>1. ~C!Of(h, {"auto"})
    BY <1>3 DEF SyncInv, Fits, C!Of
  <2>2. syncing' = syncing
    BY <2>1 DEF SyncInv
  <2>3. QED
    BY <1>1, <1>3, <2>2, RestingFits, OneTaskMoves
<1>4. QED
  BY <1>2, <1>3

\* A task that goes to a place of the pushes, pulls and failures.
LEMMA TaskGoes ==
    ASSUME SyncInv, NEW h \in Task, C!Busy(h),
           NEW place \in {"build", "send", "stored", "replaced", "noted", "excuse"},
           place \in {"replaced", "noted"} => task[h].kind # "auto",
           C!Goes(h, place), syncing' = syncing
    PROVE  SyncInv'
<1> DEFINE t == [task[h] EXCEPT !.at = place]
<1>1. task' = [task EXCEPT ![h] = t]
  BY DEF C!Goes
<1>2. IsTask(task[h])
  BY DEF SyncInv, Fits
<1>3. t = [kind |-> task[h].kind, at |-> place, copy |-> task[h].copy, tried |-> task[h].tried]
  BY <1>2, AtPlace
<1>4. IsTask(t) /\ t.kind = task[h].kind /\ t.at = place
  BY <1>3 DEF IsTask
<1>5. QED
  BY <1>1, <1>4, TaskGoesOn

\* A run that fails goes on to note it when automatic, and rests otherwise.
LEMMA TaskFails ==
    ASSUME SyncInv, NEW h \in Task, C!Busy(h), C!Fails(h) PROVE SyncInv'
<1>1. CASE C!Of(h, {"auto"})
  BY <1>1, TaskGoes DEF C!Fails, C!Goes
<1>2. CASE ~C!Of(h, {"auto"})
  <2>1. C!Rests(h) /\ syncing' = (syncing /\ ~C!Of(h, {"auto"}))
    BY <1>2 DEF C!Fails, SyncInv
  <2>2. QED
    BY <2>1, TaskRests
<1>3. QED
  BY <1>1, <1>2

LEMMA SyncSame == ASSUME SyncInv, UNCHANGED <<task, syncing>> PROVE SyncInv'
  BY DEF SyncInv, C!FlagIsExact, C!Busy, C!At

LEMMA SyncStarts ==
    ASSUME SyncInv, NEW h \in Task, NEW kind \in {"push", "pull", "erase"}, C!Start(h, kind)
    PROVE  SyncInv'
<1> DEFINE place == IF kind = "erase" THEN "send" ELSE "build"
           t == [[task[h] EXCEPT !.kind = kind] EXCEPT !.at = place]
<1>1. h \notin C!Automatic /\ syncing' = syncing
  BY DEF C!Start, C!auto
<1>2. task' = [task EXCEPT ![h] = t]
  BY DEF C!Start, SyncInv
<1>3. t = [kind |-> kind, at |-> place, copy |-> task[h].copy, tried |-> task[h].tried]
  BY KindAndPlace DEF SyncInv, Fits
<1>4. Fits(t, h)
  BY <1>1, <1>3 DEF Fits, IsTask
<1>5. QED
  BY <1>1, <1>2, <1>4, OneTaskMoves

\* The flag is tested and set in one step.
LEMMA AutoSyncStarts ==
    ASSUME SyncInv, NEW h \in C!Automatic, C!AutoSync(h) PROVE SyncInv'
<1> DEFINE t == [[task[h] EXCEPT !.kind = "auto"] EXCEPT !.at = "eligible"]
<1>1. CASE syncing
  BY <1>1, SyncSame DEF C!AutoSync
<1>2. CASE ~syncing
  <2>1. h \in Task
    BY AutomaticTasks DEF C!Automatic
  <2>2. task' = [task EXCEPT ![h] = t] /\ syncing' = TRUE
    BY <1>2, <2>1 DEF C!AutoSync, SyncInv
  <2>3. t = [kind |-> "auto", at |-> "eligible", copy |-> task[h].copy, tried |-> task[h].tried]
    BY <2>1, KindAndPlace DEF SyncInv, Fits
  <2>4. Fits(t, h) /\ t.at # "idle"
    BY <2>3 DEF Fits, IsTask
  <2>5. QED
    BY <1>2, <2>1, <2>2, <2>4, OneTaskMoves
<1>3. QED
  BY <1>1, <1>2

LEMMA SyncContinues == ASSUME SyncInv, NEW h \in Task, C!Continue(h) PROVE SyncInv'
<1>0. IsTask(task[h])
  BY DEF SyncInv, Fits
<1>1. CASE C!CheckEligible(h)
  <2>1. C!Busy(h) /\ C!Of(h, {"auto"})
    BY <1>1 DEF C!CheckEligible, C!Busy, C!At, C!Of, SyncInv, Fits
  <2>2. CASE C!Eligible
    BY <1>1, <2>1, <2>2, TaskGoes DEF C!CheckEligible
  <2>3. CASE ~C!Eligible
    BY <1>1, <2>1, <2>3, TaskRests DEF C!CheckEligible
  <2>4. QED
    BY <2>2, <2>3
<1>2. CASE C!Build(h)
  <2>1. C!Busy(h)
    BY <1>2 DEF C!Build, C!Busy, C!At
  <2>2. CASE ~signedIn
    BY <1>2, <2>1, <2>2, TaskFails DEF C!Build
  <2>3. CASE signedIn
    <3> DEFINE c == IF C!Of(h, {"pull"}) THEN None
                    ELSE [version |-> C!Following(synced), content |-> content, switch |-> switch]
               t == [[task[h] EXCEPT !.at = "send"] EXCEPT !.copy = c]
    <3>1. task' = [task EXCEPT ![h] = t] /\ syncing' = syncing
      BY <1>2, <2>3 DEF C!Build, SyncInv
    <3>2. t = [kind |-> task[h].kind, at |-> "send", copy |-> c, tried |-> task[h].tried]
      BY <1>0, AtAndCopy
    <3>3. IsTask(t) /\ t.kind = task[h].kind /\ t.at = "send"
      BY <3>2 DEF IsTask
    <3>4. QED
      BY <2>1, <3>1, <3>3, TaskGoesOn
  <2>4. QED
    BY <2>2, <2>3
<1>3. CASE C!ReadMeta(h)
  <2> DEFINE t == [[task[h] EXCEPT !.at = "note"] EXCEPT !.copy = [version |-> synced]]
  <2>1. C!Busy(h) /\ task' = [task EXCEPT ![h] = t] /\ syncing' = syncing
    BY <1>3 DEF C!ReadMeta, C!Busy, C!At, C!auto, SyncInv
  <2>2. t = [kind |-> task[h].kind, at |-> "note", copy |-> [version |-> synced], tried |-> task[h].tried]
    BY <1>0, AtAndCopy
  <2>3. IsTask(t) /\ t.kind = task[h].kind /\ t.at = "note"
    BY <2>2 DEF IsTask
  <2>4. QED
    BY <2>1, <2>3, TaskGoesOn
<1>4. CASE C!NoteMeta(h)
  BY <1>4, TaskRests DEF C!NoteMeta, C!Finishes, C!Busy, C!At
<1>5. CASE C!ServerStores(h)
  BY <1>5, TaskGoes DEF C!ServerStores, C!Busy, C!At, C!auto
<1>6. CASE C!ServerSends(h)
  <2>1. C!Busy(h) /\ syncing' = syncing /\ task[h].kind # "auto"
    BY <1>6 DEF C!ServerSends, C!Busy, C!At, C!auto, C!Of
  <2>2. CASE cloud = None
    <3>1. C!Rests(h)
      BY <1>6, <2>2 DEF C!ServerSends, C!Rests
    <3>2. syncing' = (syncing /\ ~C!Of(h, {"auto"}))
      BY <2>1 DEF C!Of, SyncInv
    <3>3. QED
      BY <2>1, <3>1, <3>2, TaskRests
  <2>3. CASE cloud # None
    <3> DEFINE t == [[task[h] EXCEPT !.at = "received"] EXCEPT !.copy = cloud]
    <3>1. task' = [task EXCEPT ![h] = t]
      BY <1>6, <2>3 DEF C!ServerSends
    <3>2. t = [kind |-> task[h].kind, at |-> "received", copy |-> cloud, tried |-> task[h].tried]
      BY <1>0, AtAndCopy
    <3>3. IsTask(t) /\ t.kind = task[h].kind /\ t.at = "received"
      BY <3>2 DEF IsTask
    <3>4. QED
      BY <2>1, <3>1, <3>3, TaskGoesOn
  <2>4. QED
    BY <2>2, <2>3
<1>7. CASE C!ServerErases(h)
  BY <1>7, TaskGoes DEF C!ServerErases, C!Busy, C!At, C!auto
<1>8. CASE C!ServerRefuses(h)
  BY <1>8, TaskFails DEF C!ServerRefuses, C!Busy, C!At
<1>9. CASE C!RecordPush(h)
  BY <1>9, TaskRests DEF C!RecordPush, C!Finishes, C!Busy, C!At
<1>10. CASE C!ReplaceContent(h) \/ C!ReplaceMeta(h)
  <2>1. C!Busy(h) /\ syncing' = syncing /\ task[h].at \in {"received", "replaced", "noted"}
    BY <1>10 DEF C!ReplaceContent, C!ReplaceMeta, C!Busy, C!At
  <2>2. task[h].kind # "auto"
    BY <2>1 DEF SyncInv, Fits
  <2>3. CASE C!Rests(h)
    <3>1. syncing' = (syncing /\ ~C!Of(h, {"auto"}))
      BY <2>1, <2>2 DEF C!Of, SyncInv
    <3>2. QED
      BY <2>1, <2>3, <3>1, TaskRests
  <2>4. CASE \E half \in {"replaced", "noted"} : C!Goes(h, half)
    BY <2>1, <2>2, <2>4, TaskGoes
  <2>5. QED
    BY <1>10, <2>3, <2>4 DEF C!ReplaceContent, C!ReplaceMeta, C!HalfDone
<1>11. QED
  BY <1>1, <1>2, <1>3, <1>4, <1>5, <1>6, <1>7, <1>8, <1>9, <1>10 DEF C!Continue

LEMMA SyncRequestFails == ASSUME SyncInv, NEW h \in Task, C!RequestFails(h) PROVE SyncInv'
<1> DEFINE t == [[task[h] EXCEPT !.at = "send"] EXCEPT !.tried = TRUE]
<1>1. C!Busy(h) /\ IsTask(task[h])
  BY DEF C!RequestFails, C!Busy, C!At, SyncInv, Fits
<1>2. CASE task[h].tried
  BY <1>1, <1>2, TaskFails DEF C!RequestFails
<1>3. CASE ~task[h].tried
  <2>1. task' = [task EXCEPT ![h] = t] /\ syncing' = syncing
    BY <1>3 DEF C!RequestFails, SyncInv
  <2>2. t = [kind |-> task[h].kind, at |-> "send", copy |-> task[h].copy, tried |-> TRUE]
    BY <1>1, AtAndTried
  <2>3. IsTask(t) /\ t.kind = task[h].kind /\ t.at = "send"
    BY <2>2 DEF IsTask
  <2>4. QED
    BY <1>1, <2>1, <2>3, TaskGoesOn
<1>4. QED
  BY <1>2, <1>3

LEMMA SyncStops == ASSUME C!Stop PROVE SyncInv'
<1>1. task' = [h \in Task |-> C!Resting] /\ syncing' = FALSE
  BY DEF C!Stop
<1>2. \A h \in Task : Fits(task'[h], h)
  BY <1>1, RestingFits
<1>3. C!FlagIsExact'
  BY <1>1, AutomaticTasks DEF C!FlagIsExact, C!Busy, C!At, C!Automatic, C!Resting
<1>4. QED
  BY <1>1, <1>2, <1>3 DEF SyncInv

LEMMA SyncNext == ASSUME SyncInv, C!Next PROVE SyncInv'
<1>1. CASE \E h \in Task : C!Continue(h) \/ C!RequestFails(h)
  BY <1>1, SyncContinues, SyncRequestFails
<1>2. CASE \E h \in Task, kind \in {"push", "pull", "erase"} : C!Start(h, kind)
  BY <1>2, SyncStarts
<1>3. CASE C!TimerFires \/ C!AlarmRings
  BY <1>3, AutoSyncStarts DEF C!TimerFires, C!AlarmRings, C!Automatic
<1>4. CASE C!Stop
  BY <1>4, SyncStops
<1>5. CASE C!Edit \/ C!SignIn \/ C!SignOut \/ C!TheyPush \/ C!TheyErase
  BY <1>5, SyncSame DEF C!Edit, C!SignIn, C!SignOut, C!TheyPush, C!TheyErase, C!auto
<1>6. QED
  BY <1>1, <1>2, <1>3, <1>4, <1>5 DEF C!Next

(* However many tasks the worker runs and however they fail, autoSyncRunning *)
(* is set exactly while one automatic run is in progress (OneAutoSync).      *)
THEOREM OneAutoSyncAlways == Spec => []OneAutoSync
<1> DEFINE Inv == part = "sync" => SyncInv
<1>1. Init => Inv
  BY SyncInit DEF Init
<1>2. Inv /\ [Next]_vars => Inv'
  <2> SUFFICES ASSUME Inv, [Next]_vars PROVE Inv'
    OBVIOUS
  <2>1. CASE SyncStep
    BY <2>1, SyncNext DEF SyncStep
  <2>2. CASE AccountStep \/ ScriptStep
    BY <2>2 DEF AccountStep, ScriptStep
  <2>3. CASE UNCHANGED vars
    BY <2>3, SyncSame DEF vars, syncVars
  <2>4. QED
    BY <2>1, <2>2, <2>3 DEF Next
<1>3. Inv => OneAutoSync
  BY DEF SyncInv, OneAutoSync
<1>4. QED
  BY <1>1, <1>2, <1>3, PTL DEF Spec
-----------------------------------------------------------------------------
(* The userscripts.                                                        *)

RunState == [at : {"idle", "read", "list", "drop", "load", "keep", "register"}, lets : BOOLEAN,
             chosen : SUBSET Script, caps : [Script -> Nat], ids : SUBSET Script]

\* Of the calls only the shape matters, and that there is one record for each.
HasFields(x) == DOMAIN x = {"at", "shows", "look", "tried", "disturbed", "outcome"}
Callers == calls = [c \in Caller |-> calls[c]] /\ \A c \in Caller : HasFields(calls[c])

ScriptTypes == /\ enabled \in SUBSET Script /\ allowed \in BOOLEAN /\ session \in BOOLEAN
               /\ registry \in [Script -> Nat] /\ capabilities \in [Script -> Nat]
               /\ known = [s \in Script |-> known[s]]
               /\ documents = [d \in Doc |-> documents[d]] /\ Callers
               /\ fresh \in Nat /\ runs \in [Run -> RunState]
               /\ exact \in [sure : BOOLEAN, set : SUBSET Script]

Places == {"idle", "read", "list", "drop", "load", "keep", "register"}

LEMMA SameCardinality == ASSUME NEW S PROVE U!Cardinality(S) = Cardinality(S)
  BY DEF U!Cardinality, Cardinality

\* What a run is after each of the ways its record changes.
LEMMA RunAt ==
    ASSUME NEW q \in RunState, NEW x \in Places
    PROVE  [q EXCEPT !.at = x] = [at |-> x, lets |-> q.lets, chosen |-> q.chosen,
                                  caps |-> q.caps, ids |-> q.ids]
  BY DEF RunState

LEMMA RunAtIds ==
    ASSUME NEW q \in RunState, NEW x \in Places, NEW y
    PROVE  [q EXCEPT !.at = x, !.ids = y] = [at |-> x, lets |-> q.lets, chosen |-> q.chosen,
                                             caps |-> q.caps, ids |-> y]
<1> DEFINE u == [q EXCEPT !.at = x]
<1>1. u = [at |-> x, lets |-> q.lets, chosen |-> q.chosen, caps |-> q.caps, ids |-> q.ids]
  BY RunAt
<1> HIDE DEF u
<1>2. [u EXCEPT !.ids = y] = [at |-> x, lets |-> q.lets, chosen |-> q.chosen,
                              caps |-> q.caps, ids |-> y]
  BY <1>1
<1>3. QED
  BY <1>2 DEF u

LEMMA RunAtCaps ==
    ASSUME NEW q \in RunState, NEW x \in Places, NEW y
    PROVE  [q EXCEPT !.at = x, !.caps = y] = [at |-> x, lets |-> q.lets, chosen |-> q.chosen,
                                              caps |-> y, ids |-> q.ids]
<1> DEFINE u == [q EXCEPT !.at = x]
<1>1. u = [at |-> x, lets |-> q.lets, chosen |-> q.chosen, caps |-> q.caps, ids |-> q.ids]
  BY RunAt
<1> HIDE DEF u
<1>2. [u EXCEPT !.caps = y] = [at |-> x, lets |-> q.lets, chosen |-> q.chosen,
                               caps |-> y, ids |-> q.ids]
  BY <1>1
<1>3. QED
  BY <1>2 DEF u

LEMMA NoCapabilitiesType == U!NoCapabilities \in [Script -> Nat]
  BY DEF U!NoCapabilities

LEMMA StartedType == ASSUME NEW S PROVE U!Started(S) \in [Run -> RunState]
  BY NoCapabilitiesType DEF U!Started, U!Waiting, RunState

LEMMA LimitedType == U!Limited(enabled) \subseteq enabled
  BY DEF U!Limited

LEMMA ScriptTypesInit == U!Init => ScriptTypes
<1> SUFFICES ASSUME U!Init PROVE ScriptTypes
  OBVIOUS
<1>1. runs \in [Run -> RunState]
  BY StartedType DEF U!Init
<1>2. Callers
  BY DEF U!Init, U!Idle, Callers, HasFields
<1>3. known = [s \in Script |-> known[s]]
  BY DEF U!Init, U!NoCapabilities
<1>4. QED
  BY <1>1, <1>2, <1>3, NoCapabilitiesType DEF U!Init, ScriptTypes, U!Unknown

\* The end of a run, whichever way.
LEMMA EndTypes ==
    ASSUME ScriptTypes, NEW r \in Run, NEW done \in BOOLEAN, U!End(r, done)
    PROVE  runs' \in [Run -> RunState] /\ exact' \in [sure : BOOLEAN, set : SUBSET Script]
<1>1. U!Waiting \in RunState /\ runs[r].chosen \in SUBSET Script
  BY NoCapabilitiesType DEF U!Waiting, RunState, ScriptTypes
<1>2. QED
  BY <1>1 DEF U!End, ScriptTypes

LEMMA BeginTypes ==
    ASSUME ScriptTypes, NEW r \in Run, U!Begin(r)
    PROVE  runs' \in [Run -> RunState] /\ exact' \in [sure : BOOLEAN, set : SUBSET Script]
<1>1. [U!Waiting EXCEPT !.at = "read"] \in RunState
  BY NoCapabilitiesType DEF U!Waiting, RunState
<1>2. QED
  BY <1>1 DEF U!Begin, ScriptTypes, U!Unknown

LEMMA ForgetTypes ==
    ASSUME ScriptTypes, U!ForgetDocuments
    PROVE  /\ known' = [s \in Script |-> known'[s]]
           /\ documents' = [d \in Doc |-> documents'[d]]
           /\ Callers'
  BY DEF U!ForgetDocuments, U!Disturbing, ScriptTypes, Callers, HasFields, U!NoCapabilities

\* How each step of a registration changes the run.
Moved(r, x) == runs' = [runs EXCEPT ![r] = x]

LEMMA RunSteps ==
    ASSUME ScriptTypes, NEW r \in Run
    PROVE  /\ U!ReadScripts(r) =>
                 \E l \in BOOLEAN, c \in SUBSET Script :
                     /\ ~l => c = {}
                     /\ Moved(r, [at |-> "list", lets |-> l, chosen |-> c,
                                  caps |-> runs[r].caps, ids |-> runs[r].ids])
           /\ U!ListRegistered(r) =>
                 Moved(r, [at |-> "drop", lets |-> runs[r].lets, chosen |-> runs[r].chosen,
                           caps |-> runs[r].caps, ids |-> U!Registered])
           /\ U!Unregister(r) /\ runs[r].lets =>
                 Moved(r, [at |-> "load", lets |-> runs[r].lets, chosen |-> runs[r].chosen,
                           caps |-> runs[r].caps, ids |-> runs[r].ids])
           /\ U!KeepCapabilities(r) =>
                 Moved(r, [at |-> "register", lets |-> runs[r].lets, chosen |-> runs[r].chosen,
                           caps |-> runs[r].caps, ids |-> runs[r].ids])
<1>0. runs[r] \in RunState /\ runs = [q \in Run |-> runs[q]]
  BY DEF ScriptTypes
<1>1. ASSUME U!ReadScripts(r)
      PROVE  \E l \in BOOLEAN, c \in SUBSET Script :
                     /\ ~l => c = {}
                     /\ Moved(r, [at |-> "list", lets |-> l, chosen |-> c,
                                  caps |-> runs[r].caps, ids |-> runs[r].ids])
  <2>1. \E l \in BOOLEAN, c \in SUBSET Script :
            /\ ~l => c = {}
            /\ Moved(r, [runs[r] EXCEPT !.at = "list", !.lets = l, !.chosen = c])
    <3> DEFINE l == session /\ allowed
               c == IF session /\ allowed THEN U!Limited(enabled) ELSE {}
    <3>1. l \in BOOLEAN /\ c \in SUBSET Script /\ (~l => c = {})
      BY LimitedType DEF ScriptTypes
    <3>2. Moved(r, [runs[r] EXCEPT !.at = "list", !.lets = l, !.chosen = c])
      BY <1>0, <1>1 DEF U!ReadScripts, Moved
    <3> HIDE DEF l, c
    <3>3. QED
      BY <3>1, <3>2
  <2>2. PICK l \in BOOLEAN, c \in SUBSET Script :
            /\ ~l => c = {}
            /\ Moved(r, [runs[r] EXCEPT !.at = "list", !.lets = l, !.chosen = c])
    BY <2>1
  <2> DEFINE u == [runs[r] EXCEPT !.at = "list"]
             v == [u EXCEPT !.lets = l]
  <2>3. [runs[r] EXCEPT !.at = "list", !.lets = l, !.chosen = c]
            = [at |-> "list", lets |-> l, chosen |-> c, caps |-> runs[r].caps, ids |-> runs[r].ids]
    <3>1. u = [at |-> "list", lets |-> runs[r].lets, chosen |-> runs[r].chosen,
               caps |-> runs[r].caps, ids |-> runs[r].ids]
      BY <1>0, RunAt DEF Places
    <3> HIDE DEF u
    <3>2. v = [at |-> "list", lets |-> l, chosen |-> runs[r].chosen,
               caps |-> runs[r].caps, ids |-> runs[r].ids]
      BY <3>1
    <3> HIDE DEF v
    <3>3. [v EXCEPT !.chosen = c] = [at |-> "list", lets |-> l, chosen |-> c,
                                     caps |-> runs[r].caps, ids |-> runs[r].ids]
      BY <3>2
    <3>4. QED
      BY <3>3 DEF u, v
  <2>4. QED
    BY <2>2, <2>3
<1>2. ASSUME U!ListRegistered(r)
      PROVE  Moved(r, [at |-> "drop", lets |-> runs[r].lets, chosen |-> runs[r].chosen,
                       caps |-> runs[r].caps, ids |-> U!Registered])
  <2> DEFINE x == [runs[r] EXCEPT !.at = "drop", !.ids = U!Registered]
  <2>1. Moved(r, x)
    BY <1>0, <1>2 DEF U!ListRegistered, Moved
  <2>2. QED
    BY <1>0, <2>1, RunAtIds DEF Places
<1>3. ASSUME U!Unregister(r), runs[r].lets
      PROVE  Moved(r, [at |-> "load", lets |-> runs[r].lets, chosen |-> runs[r].chosen,
                       caps |-> runs[r].caps, ids |-> runs[r].ids])
  <2>1. Moved(r, [runs[r] EXCEPT !.at = "load"])
    BY <1>0, <1>3 DEF U!Unregister, Moved
  <2>2. QED
    BY <1>0, <2>1, RunAt DEF Places
<1>4. ASSUME U!KeepCapabilities(r)
      PROVE  Moved(r, [at |-> "register", lets |-> runs[r].lets, chosen |-> runs[r].chosen,
                       caps |-> runs[r].caps, ids |-> runs[r].ids])
  <2>1. Moved(r, [runs[r] EXCEPT !.at = "register"])
    BY <1>0, <1>4 DEF U!KeepCapabilities, Moved
  <2>2. QED
    BY <1>0, <2>1, RunAt DEF Places
<1>5. QED
  BY <1>1, <1>2, <1>3, <1>4

\* A run that chooses capabilities gives one to each script it has chosen.
LEMMA RunLoads ==
    ASSUME ScriptTypes, NEW r \in Run, U!LoadCapabilities(r)
    PROVE  /\ fresh' \in Nat
           /\ \E k \in [Script -> Nat] :
                 /\ \A s \in runs[r].chosen : k[s] # 0
                 /\ Moved(r, [at |-> "keep", lets |-> runs[r].lets, chosen |-> runs[r].chosen,
                              caps |-> k, ids |-> runs[r].ids])
<1> DEFINE new == {s \in runs[r].chosen : capabilities[s] = 0}
           card(s) == U!Cardinality({t \in new : t < s})
           number(s) == fresh + 1 + card(s)
           k == [s \in Script |-> IF s \in new THEN number(s)
                                   ELSE IF s \in runs[r].chosen THEN capabilities[s] ELSE 0]
           x == [runs[r] EXCEPT !.at = "keep", !.caps = k]
<1>0. runs[r] \in RunState /\ runs = [q \in Run |-> runs[q]]
  BY DEF ScriptTypes
<1>1. runs[r].chosen \subseteq Script /\ new \subseteq Script /\ IsFiniteSet(new)
  BY <1>0, ScriptsAndRuns, FS_Subset DEF RunState
<1>2. \A s : card(s) \in Nat
  <2> SUFFICES ASSUME NEW s PROVE card(s) \in Nat
    OBVIOUS
  <2>1. IsFiniteSet({t \in new : t < s})
    BY <1>1, FS_Subset
  <2>2. QED
    BY <2>1, FS_CardinalityType, SameCardinality
<1>3. U!Cardinality(new) \in Nat
  BY <1>1, FS_CardinalityType, SameCardinality
<1> HIDE DEF card
<1>4. \A s : number(s) \in Nat /\ number(s) # 0
  BY <1>2 DEF ScriptTypes
<1>5. Moved(r, x) /\ fresh' = fresh + U!Cardinality(new)
  BY <1>0 DEF U!LoadCapabilities, Moved, card
<1> HIDE DEF number
<1>6. k \in [Script -> Nat] /\ \A s \in runs[r].chosen : k[s] # 0
  BY <1>1, <1>4 DEF ScriptTypes
<1> HIDE DEF k, new
<1>7. x = [at |-> "keep", lets |-> runs[r].lets, chosen |-> runs[r].chosen,
           caps |-> k, ids |-> runs[r].ids]
  BY <1>0, RunAtCaps DEF Places
<1>8. fresh' \in Nat
  BY <1>3, <1>5 DEF ScriptTypes
<1> HIDE DEF x
<1>9. QED
  BY <1>5, <1>6, <1>7, <1>8

LEMMA MovedTypes ==
    ASSUME ScriptTypes, NEW r \in Run, NEW x \in RunState, Moved(r, x)
    PROVE  runs' \in [Run -> RunState] /\ runs'[r] = x /\ \A q \in Run \ {r} : runs'[q] = runs[q]
  BY DEF ScriptTypes, Moved

LEMMA RegisteringTypes ==
    ASSUME ScriptTypes, NEW r \in Run, U!Registering(r) PROVE ScriptTypes'
<1>0. runs[r] \in RunState
  BY DEF ScriptTypes
<1>1. CASE U!ReadScripts(r)
  <2>1. runs' \in [Run -> RunState]
    BY <1>0, <1>1, RunSteps, MovedTypes DEF RunState
  <2>2. QED
    BY <1>1, <2>1 DEF U!ReadScripts, ScriptTypes, Callers, U!policy, U!worker, U!history
<1>2. CASE U!ListRegistered(r)
  <2>1. U!Registered \in SUBSET Script
    BY DEF U!Registered
  <2>2. runs' \in [Run -> RunState]
    BY <1>0, <1>2, <2>1, RunSteps, MovedTypes DEF RunState
  <2>3. QED
    BY <1>2, <2>2 DEF U!ListRegistered, ScriptTypes, Callers, U!policy, U!worker, U!history
<1>3. CASE U!Unregister(r)
  <2>1. registry' \in [Script -> Nat]
    BY <1>3 DEF U!Unregister, ScriptTypes
  <2>2. runs' \in [Run -> RunState] /\ exact' \in [sure : BOOLEAN, set : SUBSET Script]
    <3>1. CASE runs[r].lets
      <4>1. runs' \in [Run -> RunState]
        BY <1>0, <1>3, <3>1, RunSteps, MovedTypes DEF RunState
      <4>2. exact' = exact
        BY <1>3, <3>1 DEF U!Unregister, U!history
      <4>3. QED
        BY <4>1, <4>2 DEF ScriptTypes
    <3>2. CASE ~runs[r].lets
      BY <1>3, <3>2, EndTypes DEF U!Unregister
    <3>3. QED
      BY <3>1, <3>2
  <2>3. QED
    BY <1>3, <2>1, <2>2, ForgetTypes DEF U!Unregister, ScriptTypes, U!policy
<1>4. CASE U!UnregisterFails(r) \/ U!RegisterFails(r)
  BY <1>4, EndTypes DEF U!UnregisterFails, U!RegisterFails, ScriptTypes, Callers, U!policy, U!worker
<1>5. CASE U!LoadCapabilities(r)
  <2>1. fresh' \in Nat /\ runs' \in [Run -> RunState]
    BY <1>0, <1>5, RunLoads, MovedTypes DEF RunState
  <2>2. QED
    BY <1>5, <2>1 DEF U!LoadCapabilities, ScriptTypes, Callers, U!policy, U!worker, U!history
<1>6. CASE U!KeepCapabilities(r)
  <2>1. runs' \in [Run -> RunState] /\ capabilities' \in [Script -> Nat]
    BY <1>0, <1>6, RunSteps, MovedTypes DEF RunState, U!KeepCapabilities
  <2>2. QED
    BY <1>6, <2>1 DEF U!KeepCapabilities, ScriptTypes, Callers, U!policy, U!worker, U!history
<1>7. CASE U!Register(r)
  <2>1. registry' \in [Script -> Nat] /\ known' = [s \in Script |-> known'[s]]
    BY <1>0, <1>7 DEF U!Register, ScriptTypes, RunState
  <2>2. QED
    BY <1>7, <2>1, EndTypes DEF U!Register, ScriptTypes, Callers, U!policy
<1>8. QED
  BY <1>1, <1>2, <1>3, <1>4, <1>5, <1>6, <1>7 DEF U!Registering
-----------------------------------------------------------------------------
(* The calls of the documents.                                             *)

\* A call given a capability for its retry, nothing having come between since
\* it began, shows the one the worker keeps for its document.
Retries(x, c) == /\ x.outcome = "invalid" => x.disturbed
                 /\ ~x.disturbed /\ (x.at = "given" \/ (x.at = "ask" /\ x.tried)) => x.shows = c

RetryInv == \A c \in Caller : Retries(calls[c], documents[DocOf[c]])

CallerStep(c) == U!Calling(c) \/ U!Call(c)

\* What a step of a call or of a document leaves to be shown.
CallsInOrder == Callers' /\ RetryInv' /\ documents' = [d \in Doc |-> documents'[d]] /\ fresh' \in Nat

LEMMA OneCallMoves ==
    ASSUME ScriptTypes, RetryInv, NEW c \in Caller, NEW x, HasFields(x),
           calls' = [calls EXCEPT ![c] = x], UNCHANGED <<documents, fresh>>,
           Retries(x, documents[DocOf[c]])
    PROVE  CallsInOrder
<1>1. calls'[c] = x /\ \A b \in Caller \ {c} : calls'[b] = calls[b]
  BY DEF ScriptTypes, Callers
<1>2. Callers'
  BY <1>1 DEF ScriptTypes, Callers
<1>3. RetryInv'
  BY <1>1 DEF RetryInv
<1>4. QED
  BY <1>2, <1>3 DEF CallsInOrder, ScriptTypes

LEMMA DisturbedCalls ==
    ASSUME ScriptTypes, RetryInv, NEW b \in Caller, NEW S
    PROVE  /\ HasFields(U!Disturbing(S)[b])
           /\ U!Disturbing(S)[b].outcome = calls[b].outcome
           /\ calls[b].disturbed => U!Disturbing(S)[b].disturbed
           /\ U!Disturbing(S)[b].at = calls[b].at
           /\ b \in S /\ calls[b].at # "idle" => U!Disturbing(S)[b].disturbed
           /\ b \notin S => U!Disturbing(S)[b] = calls[b]
<1>1. HasFields(calls[b])
  BY DEF ScriptTypes, Callers
<1>2. U!Disturbing(S)[b] = IF b \in S /\ calls[b].at # "idle" THEN [calls[b] EXCEPT !.disturbed = TRUE]
                                                            ELSE calls[b]
  BY DEF U!Disturbing
<1>3. QED
  BY <1>1, <1>2 DEF HasFields

\* A call given a capability takes those beside it out of the claim.
LEMMA GivenInOrder ==
    ASSUME ScriptTypes, RetryInv, NEW c \in Caller, U!Initialize(c),
           U!Bootstrap(c) = page[DocOf[c]].boot
    PROVE  CallsInOrder
<1> DEFINE D == U!Disturbing(U!Beside(c))
           x == [D[c] EXCEPT !.at = "given", !.shows = fresh', !.look = 0]
<1>1. /\ fresh' = fresh + 1 /\ documents' = [documents EXCEPT ![DocOf[c]] = fresh']
      /\ calls' = [D EXCEPT ![c].at = "given", ![c].shows = fresh', ![c].look = 0]
  BY DEF U!Initialize
<1>2. D = [b \in Caller |-> D[b]]
  BY DEF U!Disturbing
<1>3. calls' = [D EXCEPT ![c] = x]
  BY <1>1, <1>2
<1>4. HasFields(D[c]) /\ D[c].outcome = calls[c].outcome /\ D[c] = calls[c]
  BY DisturbedCalls DEF U!Beside
<1>5. HasFields(x) /\ x.shows = fresh' /\ x.outcome = calls[c].outcome /\ x.disturbed = calls[c].disturbed
  BY <1>4 DEF HasFields
<1> HIDE DEF x
<1>6. ASSUME NEW b \in Caller
      PROVE  HasFields(calls'[b]) /\ Retries(calls'[b], documents'[DocOf[b]])
  <2>1. Retries(calls[b], documents[DocOf[b]]) /\ DocOf[b] \in Doc
    BY ScriptsAndRuns DEF RetryInv
  <2>2. documents'[DocOf[b]] = IF DocOf[b] = DocOf[c] THEN fresh' ELSE documents[DocOf[b]]
    BY <1>1, <2>1 DEF ScriptTypes
  <2>3. CASE b = c
    <3>1. calls'[b] = x
      BY <1>2, <1>3, <2>3
    <3>2. QED
      BY <1>5, <2>1, <2>2, <2>3, <3>1 DEF Retries
  <2>4. CASE b # c
    <3>1. calls'[b] = D[b] /\ HasFields(D[b])
      BY <1>2, <1>3, <2>4, DisturbedCalls
    <3>2. CASE DocOf[b] = DocOf[c]
      <4>1. b \in U!Beside(c)
        BY <2>4, <3>2 DEF U!Beside
      <4>2. /\ D[b].outcome = calls[b].outcome
            /\ calls[b].disturbed => D[b].disturbed
            /\ D[b].at = calls[b].at
            /\ calls[b].at # "idle" => D[b].disturbed
        BY <4>1, DisturbedCalls
      <4>3. QED
        BY <2>1, <3>1, <4>2 DEF Retries
    <3>3. CASE DocOf[b] # DocOf[c]
      <4>1. b \notin U!Beside(c)
        BY <3>3 DEF U!Beside
      <4>2. D[b] = calls[b]
        BY <4>1, DisturbedCalls
      <4>3. QED
        BY <2>1, <2>2, <3>1, <3>3, <4>2
    <3>4. QED
      BY <3>2, <3>3
  <2>5. QED
    BY <2>3, <2>4
<1>7. calls' = [b \in Caller |-> calls'[b]]
  BY <1>2, <1>3
<1>8. documents' = [d \in Doc |-> documents'[d]] /\ fresh' \in Nat
  BY <1>1 DEF ScriptTypes
<1>9. QED
  BY <1>6, <1>7, <1>8 DEF CallsInOrder, Callers, RetryInv

LEMMA CallerMoves ==
    ASSUME ScriptTypes, RetryInv, NEW c \in Caller, CallerStep(c) PROVE CallsInOrder
<1>0. HasFields(calls[c]) /\ Retries(calls[c], documents[DocOf[c]]) /\ calls = [b \in Caller |-> calls[b]]
  BY DEF ScriptTypes, RetryInv, Callers
<1>1. CASE U!Call(c)
  <2> DEFINE a == IF page[DocOf[c]].own = 0 THEN "init" ELSE "ask"
             x == [U!Idle EXCEPT !.at = a, !.shows = page[DocOf[c]].own]
  <2>1. calls' = [calls EXCEPT ![c] = x] /\ UNCHANGED <<documents, fresh>>
    BY <1>1 DEF U!Call, U!worker
  <2>2. a # "given"
    OBVIOUS
  <2> HIDE DEF a
  <2>3. HasFields(x) /\ x.outcome = "none" /\ x.tried = FALSE /\ x.at = a
    BY DEF U!Idle, HasFields
  <2> HIDE DEF x
  <2>4. Retries(x, documents[DocOf[c]])
    BY <2>2, <2>3 DEF Retries
  <2>5. QED
    BY <2>1, <2>3, <2>4, OneCallMoves
<1>2. CASE U!LookUp(c)
  <2> DEFINE x == [calls[c] EXCEPT !.look = capabilities[ScriptOf[DocOf[c]]]]
  <2>1. calls' = [calls EXCEPT ![c] = x] /\ UNCHANGED <<documents, fresh>>
    BY <1>0, <1>2 DEF U!LookUp, U!worker, U!Code
  <2>2. /\ HasFields(x) /\ x.outcome = calls[c].outcome /\ x.tried = calls[c].tried
        /\ x.disturbed = calls[c].disturbed /\ x.shows = calls[c].shows /\ x.at = calls[c].at
    BY <1>0 DEF HasFields
  <2> HIDE DEF x
  <2>3. Retries(x, documents[DocOf[c]])
    BY <1>0, <2>2 DEF Retries
  <2>4. QED
    BY <2>1, <2>2, <2>3, OneCallMoves
<1>3. ASSUME NEW o, U!Ends(c, o), o = "invalid" => calls[c].disturbed, UNCHANGED <<documents, fresh>>
      PROVE  CallsInOrder
  <2> DEFINE x == [calls[c] EXCEPT !.at = "idle", !.look = 0, !.outcome = o]
  <2>1. calls' = [calls EXCEPT ![c] = x]
    BY <1>0, <1>3 DEF U!Ends
  <2>2. HasFields(x) /\ x.outcome = o /\ x.disturbed = calls[c].disturbed /\ x.at = "idle"
    BY <1>0 DEF HasFields
  <2> HIDE DEF x
  <2>3. Retries(x, documents[DocOf[c]])
    BY <1>3, <2>2 DEF Retries
  <2>4. QED
    BY <1>3, <2>1, <2>2, <2>3, OneCallMoves
<1>4. CASE U!Refuse(c)
  BY <1>3, <1>4 DEF U!Refuse, U!worker
<1>5. CASE U!Initialize(c)
  <2>1. CASE U!Bootstrap(c) # page[DocOf[c]].boot
    BY <1>3, <1>5, <2>1 DEF U!Initialize
  <2>2. QED
    BY <1>5, <2>1, GivenInOrder
<1>6. CASE U!Hear(c)
  <2> DEFINE x == [calls[c] EXCEPT !.at = "ask"]
  <2>1. calls' = [calls EXCEPT ![c] = x] /\ UNCHANGED <<documents, fresh>> /\ calls[c].at = "given"
    BY <1>0, <1>6 DEF U!Hear, U!worker, U!Standing
  <2>2. /\ HasFields(x) /\ x.outcome = calls[c].outcome
        /\ x.disturbed = calls[c].disturbed /\ x.shows = calls[c].shows
    BY <1>0 DEF HasFields
  <2> HIDE DEF x
  <2>3. Retries(x, documents[DocOf[c]])
    BY <1>0, <2>1, <2>2 DEF Retries
  <2>4. QED
    BY <2>1, <2>2, <2>3, OneCallMoves
<1>7. CASE U!Ask(c)
  <2>1. UNCHANGED <<documents, fresh>> /\ calls[c].at = "ask"
    BY <1>7 DEF U!Ask, U!Standing
  <2>2. CASE calls[c].shows = documents[DocOf[c]]
    BY <1>3, <1>7, <2>1, <2>2 DEF U!Ask
  <2>3. CASE calls[c].shows # documents[DocOf[c]] /\ calls[c].tried
    <3>1. calls[c].disturbed
      BY <1>0, <2>1, <2>3 DEF Retries
    <3>2. QED
      BY <1>3, <1>7, <2>1, <2>3, <3>1 DEF U!Ask
  <2>4. CASE calls[c].shows # documents[DocOf[c]] /\ ~calls[c].tried
    <3> DEFINE x == [calls[c] EXCEPT !.at = "denied", !.look = 0]
    <3>1. calls' = [calls EXCEPT ![c] = x]
      BY <1>0, <1>7, <2>4 DEF U!Ask
    <3>2. /\ HasFields(x) /\ x.at = "denied" /\ x.outcome = calls[c].outcome
          /\ x.disturbed = calls[c].disturbed
      BY <1>0 DEF HasFields
    <3> HIDE DEF x
    <3>3. Retries(x, documents[DocOf[c]])
      BY <1>0, <3>2 DEF Retries
    <3>4. QED
      BY <2>1, <3>1, <3>2, <3>3, OneCallMoves
  <2>5. QED
    BY <2>2, <2>3, <2>4
<1>8. CASE U!StartOver(c)
  <2> DEFINE x == [calls[c] EXCEPT !.at = "init", !.tried = TRUE]
  <2>1. calls' = [calls EXCEPT ![c] = x] /\ UNCHANGED <<documents, fresh>>
    BY <1>0, <1>8 DEF U!StartOver, U!worker
  <2>2. /\ HasFields(x) /\ x.at = "init" /\ x.outcome = calls[c].outcome
        /\ x.disturbed = calls[c].disturbed
    BY <1>0 DEF HasFields
  <2> HIDE DEF x
  <2>3. Retries(x, documents[DocOf[c]])
    BY <1>0, <2>2 DEF Retries
  <2>4. QED
    BY <2>1, <2>2, <2>3, OneCallMoves
<1>9. QED
  BY <1>1, <1>2, <1>4, <1>5, <1>6, <1>7, <1>8 DEF CallerStep, U!Calling

\* A page that loads begins with no calls and no capability.
LEMMA OpenMoves ==
    ASSUME ScriptTypes, RetryInv, NEW d \in Doc, U!Open(d) PROVE CallsInOrder
<1>1. /\ calls' = [c \in Caller |-> IF DocOf[c] = d THEN U!Idle ELSE calls[c]]
      /\ documents' = [documents EXCEPT ![d] = 0] /\ fresh' = fresh
  BY DEF U!Open
<1>2. HasFields(U!Idle) /\ U!Idle.at = "idle" /\ U!Idle.outcome = "none"
  BY DEF U!Idle, HasFields
<1>3. Callers'
  BY <1>1, <1>2 DEF Callers, ScriptTypes
<1>4. ASSUME NEW c \in Caller PROVE Retries(calls'[c], documents'[DocOf[c]])
  <2>1. CASE DocOf[c] = d
    BY <1>1, <1>2, <2>1 DEF Retries
  <2>2. CASE DocOf[c] # d
    <3>1. calls'[c] = calls[c] /\ documents'[DocOf[c]] = documents[DocOf[c]]
      BY <1>1, <2>2, ScriptsAndRuns DEF ScriptTypes
    <3>2. QED
      BY <3>1 DEF RetryInv
  <2>3. QED
    BY <2>1, <2>2
<1>5. QED
  BY <1>1, <1>3, <1>4 DEF CallsInOrder, RetryInv, ScriptTypes

\* A registration that empties the maps leaves a mark in every call.
LEMMA ForgottenRetries ==
    ASSUME ScriptTypes, RetryInv, U!ForgetDocuments PROVE RetryInv'
<1> SUFFICES ASSUME NEW c \in Caller PROVE Retries(calls'[c], documents'[DocOf[c]])
  BY DEF RetryInv
<1>1. calls'[c] = U!Disturbing(Caller)[c]
  BY DEF U!ForgetDocuments
<1>2. /\ calls'[c].outcome = calls[c].outcome
      /\ calls[c].disturbed => calls'[c].disturbed
      /\ calls'[c].at = calls[c].at
      /\ calls[c].at # "idle" => calls'[c].disturbed
  BY <1>1, DisturbedCalls
<1>3. Retries(calls[c], documents[DocOf[c]])
  BY DEF RetryInv
<1>4. QED
  BY <1>2, <1>3 DEF Retries

LEMMA RetriesSame ==
    ASSUME RetryInv, UNCHANGED <<calls, documents>> PROVE RetryInv'
  BY DEF RetryInv
-----------------------------------------------------------------------------
(* The registrations.                                                      *)

\* How far the run is that nothing disturbs: the registry is its own meanwhile.
AloneInOrder(r) ==
    /\ \A q \in Run : U!InProgress(q) <=> q = r
    /\ runs[r].at = "drop" => runs[r].ids = U!Registered
    /\ runs[r].at \in {"load", "keep", "register"} => U!Registered = {}
    /\ runs[r].at \in {"keep", "register"} => \A s \in runs[r].chosen : runs[r].caps[s] # 0
    /\ runs[r].at = "register" => capabilities = runs[r].caps

RunsInv ==
    /\ \A r \in Run : /\ runs[r].at \in {"list", "drop"} /\ ~runs[r].lets => runs[r].chosen = {}
                      /\ alone = r => AloneInOrder(r)
    /\ exact.sure => /\ \A q \in Run : ~U!InProgress(q)
                     /\ U!Registered = exact.set
                     /\ \A s \in exact.set : /\ registry[s] = capabilities[s]
                                             /\ known[s] = registry[s]

ScriptInv == ScriptTypes /\ RetryInv /\ RunsInv

\* A start of the worker begins one run or two, and only one is alone.
LEMMA StartsInOrder ==
    ASSUME NEW S \in U!Starting, runs' = U!Started(S), alone' \in U!Lone(S), exact' = U!Unknown
    PROVE  RunsInv'
<1>1. \A q \in Run : /\ q \in S => runs'[q].at = "read"
                     /\ q \notin S => runs'[q].at = "idle"
  BY DEF U!Started, U!Waiting
<1>2. ASSUME NEW r \in Run, alone' = r PROVE S = {r}
  <2>1. r \in S /\ U!Cardinality(S) = 1
    BY <1>2, ScriptsAndRuns DEF U!Lone
  <2>2. IsFiniteSet(S) /\ Cardinality(S) = 1
    BY <2>1, ScriptsAndRuns, FS_Subset, SameCardinality DEF U!Starting
  <2>3. QED
    BY <2>1, <2>2, FS_Singleton
<1>3. ASSUME NEW r \in Run, alone' = r PROVE AloneInOrder(r)'
  BY <1>1, <1>2, <1>3 DEF AloneInOrder, U!InProgress
<1>4. QED
  BY <1>1, <1>3 DEF RunsInv, U!Unknown

LEMMA BeginInOrder ==
    ASSUME ScriptTypes, RunsInv, NEW r \in Run, U!Begin(r) PROVE RunsInv'
<1>1. /\ runs'[r].at = "read" /\ \A q \in Run \ {r} : runs'[q] = runs[q]
      /\ exact' = U!Unknown
      /\ alone' = IF \E q \in Run : U!InProgress(q) THEN None ELSE r
  BY DEF U!Begin, U!Waiting
<1>2. ASSUME NEW q \in Run, alone' = q PROVE AloneInOrder(q)'
  <2>1. q = r /\ \A p \in Run : ~U!InProgress(p)
    BY <1>1, <1>2, ScriptsAndRuns
  <2>2. QED
    BY <1>1, <2>1 DEF AloneInOrder, U!InProgress
<1>3. QED
  BY <1>1, <1>2 DEF RunsInv, U!Unknown

\* A run in progress that goes on, the others and the history staying.
LEMMA RunGoesOn ==
    ASSUME ScriptTypes, RunsInv, NEW r \in Run, U!InProgress(r),
           NEW x \in RunState, Moved(r, x), x.at # "idle",
           x.at \in {"list", "drop"} /\ ~x.lets => x.chosen = {},
           UNCHANGED <<alone, exact>>,
           alone = r =>
               /\ x.at = "drop" => x.ids = U!Registered'
               /\ x.at \in {"load", "keep", "register"} => U!Registered' = {}
               /\ x.at \in {"keep", "register"} => \A s \in x.chosen : x.caps[s] # 0
               /\ x.at = "register" => capabilities' = x.caps
    PROVE  RunsInv'
<1>1. runs'[r] = x /\ \A q \in Run \ {r} : runs'[q] = runs[q]
  BY MovedTypes
<1>2. ~exact.sure
  BY DEF RunsInv
<1>3. ASSUME NEW q \in Run, alone = q PROVE q = r
  BY <1>3 DEF RunsInv, AloneInOrder
<1>4. ASSUME NEW q \in Run, alone' = q PROVE AloneInOrder(q)'
  <2>1. q = r /\ alone = r /\ \A p \in Run : U!InProgress(p) <=> p = r
    BY <1>3, <1>4 DEF RunsInv, AloneInOrder
  <2>2. QED
    BY <1>1, <2>1 DEF AloneInOrder, U!InProgress
<1>5. QED
  BY <1>1, <1>2, <1>4 DEF RunsInv

\* A run that ends is exact when it was alone and has done its work.
LEMMA RunEnds ==
    ASSUME ScriptTypes, RunsInv, NEW r \in Run, U!InProgress(r), NEW done \in BOOLEAN, U!End(r, done),
           done /\ alone = r =>
               /\ U!Registered' = runs[r].chosen
               /\ \A s \in runs[r].chosen : registry'[s] = capabilities'[s] /\ known'[s] = registry'[s]
    PROVE  RunsInv'
<1>1. /\ runs'[r].at = "idle" /\ \A q \in Run \ {r} : runs'[q] = runs[q]
      /\ alone' = IF alone = r THEN None ELSE alone
      /\ exact' = IF done /\ alone = r THEN [sure |-> TRUE, set |-> runs[r].chosen] ELSE exact
  BY DEF U!End, U!Waiting, ScriptTypes
<1>2. ~exact.sure
  BY DEF RunsInv
<1>3. \A q \in Run : alone' # q
  BY <1>1, ScriptsAndRuns DEF RunsInv, AloneInOrder
<1>4. CASE done /\ alone = r
  <2>1. exact'.set = runs[r].chosen
    BY <1>1, <1>4
  <2>2. \A q \in Run : ~U!InProgress(q)'
    BY <1>1, <1>4 DEF RunsInv, AloneInOrder, U!InProgress
  <2>3. QED
    BY <1>1, <1>3, <1>4, <2>1, <2>2 DEF RunsInv
<1>5. CASE ~(done /\ alone = r)
  BY <1>1, <1>2, <1>3, <1>5 DEF RunsInv
<1>6. QED
  BY <1>4, <1>5

LEMMA RegisteringInOrder ==
    ASSUME ScriptTypes, RunsInv, NEW r \in Run, U!Registering(r) PROVE RunsInv'
<1>0. runs[r] \in RunState
  BY DEF ScriptTypes
<1>1. CASE U!ReadScripts(r)
  <2>1. PICK l \in BOOLEAN, c \in SUBSET Script :
            /\ ~l => c = {}
            /\ Moved(r, [at |-> "list", lets |-> l, chosen |-> c,
                         caps |-> runs[r].caps, ids |-> runs[r].ids])
    BY <1>1, RunSteps
  <2>2. U!InProgress(r) /\ UNCHANGED <<alone, exact>>
    BY <1>1 DEF U!ReadScripts, U!At, U!InProgress, U!history
  <2>3. [at |-> "list", lets |-> l, chosen |-> c, caps |-> runs[r].caps, ids |-> runs[r].ids] \in RunState
    BY <1>0 DEF RunState
  <2>4. QED
    BY <2>1, <2>2, <2>3, RunGoesOn
<1>2. CASE U!ListRegistered(r)
  <2> DEFINE x == [at |-> "drop", lets |-> runs[r].lets, chosen |-> runs[r].chosen,
                   caps |-> runs[r].caps, ids |-> U!Registered]
  <2>1. Moved(r, x)
    BY <1>2, RunSteps
  <2>2. U!InProgress(r) /\ UNCHANGED <<alone, exact, registry>> /\ runs[r].at = "list"
    BY <1>2 DEF U!ListRegistered, U!At, U!InProgress, U!history
  <2>3. x \in RunState /\ U!Registered' = U!Registered
    BY <1>0, <2>2 DEF RunState, U!Registered
  <2>4. ~x.lets => x.chosen = {}
    BY <2>2 DEF RunsInv
  <2>5. QED
    BY <2>1, <2>2, <2>3, <2>4, RunGoesOn
<1>3. CASE U!Unregister(r)
  <2>1. /\ U!InProgress(r) /\ runs[r].at = "drop"
        /\ registry' = [s \in Script |-> IF s \in runs[r].ids THEN 0 ELSE registry[s]]
    BY <1>3 DEF U!Unregister, U!At, U!InProgress
  <2>2. alone = r => U!Registered' = {}
    BY <2>1 DEF RunsInv, AloneInOrder, U!Registered
  <2>3. CASE runs[r].lets
    <3> DEFINE x == [at |-> "load", lets |-> runs[r].lets, chosen |-> runs[r].chosen,
                     caps |-> runs[r].caps, ids |-> runs[r].ids]
    <3>1. Moved(r, x)
      BY <1>3, <2>3, RunSteps
    <3>2. UNCHANGED <<alone, exact>> /\ x \in RunState
      BY <1>0, <1>3, <2>3 DEF U!Unregister, U!history, RunState
    <3>3. QED
      BY <2>1, <2>2, <3>1, <3>2, RunGoesOn
  <2>4. CASE ~runs[r].lets
    <3>1. runs[r].chosen = {} /\ U!End(r, TRUE)
      BY <1>3, <2>1, <2>4 DEF RunsInv, U!Unregister
    <3>2. QED
      BY <2>1, <2>2, <3>1, RunEnds
  <2>5. QED
    BY <2>3, <2>4
<1>4. CASE U!UnregisterFails(r) \/ U!RegisterFails(r)
  <2>1. U!InProgress(r) /\ U!End(r, FALSE)
    BY <1>4 DEF U!UnregisterFails, U!RegisterFails, U!At, U!InProgress
  <2>2. QED
    BY <2>1, RunEnds
<1>5. CASE U!LoadCapabilities(r)
  <2>1. PICK k \in [Script -> Nat] :
            /\ \A s \in runs[r].chosen : k[s] # 0
            /\ Moved(r, [at |-> "keep", lets |-> runs[r].lets, chosen |-> runs[r].chosen,
                         caps |-> k, ids |-> runs[r].ids])
    BY <1>5, RunLoads
  <2> DEFINE x == [at |-> "keep", lets |-> runs[r].lets, chosen |-> runs[r].chosen,
                   caps |-> k, ids |-> runs[r].ids]
  <2>2. U!InProgress(r) /\ UNCHANGED <<alone, exact, registry>> /\ runs[r].at = "load"
    BY <1>5 DEF U!LoadCapabilities, U!At, U!InProgress, U!history
  <2>3. x \in RunState /\ U!Registered' = U!Registered
    BY <1>0, <2>2 DEF RunState, U!Registered
  <2>4. alone = r => U!Registered = {}
    BY <2>2 DEF RunsInv, AloneInOrder
  <2>5. QED
    BY <2>1, <2>2, <2>3, <2>4, RunGoesOn
<1>6. CASE U!KeepCapabilities(r)
  <2> DEFINE x == [at |-> "register", lets |-> runs[r].lets, chosen |-> runs[r].chosen,
                   caps |-> runs[r].caps, ids |-> runs[r].ids]
  <2>1. Moved(r, x)
    BY <1>6, RunSteps
  <2>2. /\ U!InProgress(r) /\ UNCHANGED <<alone, exact, registry>> /\ runs[r].at = "keep"
        /\ capabilities' = runs[r].caps
    BY <1>6 DEF U!KeepCapabilities, U!At, U!InProgress, U!history
  <2>3. x \in RunState /\ U!Registered' = U!Registered
    BY <1>0, <2>2 DEF RunState, U!Registered
  <2>4. alone = r => U!Registered = {} /\ \A s \in runs[r].chosen : runs[r].caps[s] # 0
    BY <2>2 DEF RunsInv, AloneInOrder
  <2>5. QED
    BY <2>1, <2>2, <2>3, <2>4, RunGoesOn
<1>7. CASE U!Register(r)
  <2>1. /\ U!InProgress(r) /\ runs[r].at = "register" /\ U!End(r, TRUE) /\ capabilities' = capabilities
        /\ registry' = [s \in Script |-> IF s \in runs[r].chosen THEN runs[r].caps[s] ELSE registry[s]]
        /\ known' = [s \in Script |-> IF s \in runs[r].chosen THEN runs[r].caps[s] ELSE known[s]]
    BY <1>7 DEF U!Register, U!At, U!InProgress
  <2>2. ASSUME alone = r
        PROVE  /\ U!Registered' = runs[r].chosen
               /\ \A s \in runs[r].chosen : registry'[s] = capabilities'[s] /\ known'[s] = registry'[s]
    <3>1. /\ U!Registered = {} /\ capabilities = runs[r].caps
          /\ \A s \in runs[r].chosen : runs[r].caps[s] # 0
      BY <2>1, <2>2 DEF RunsInv, AloneInOrder
    <3>2. runs[r].chosen \subseteq Script
      BY <1>0 DEF RunState
    <3>3. QED
      BY <2>1, <3>1, <3>2 DEF U!Registered
  <2>3. QED
    BY <2>1, <2>2, RunEnds
<1>8. QED
  BY <1>1, <1>2, <1>3, <1>4, <1>5, <1>6, <1>7 DEF U!Registering

\* A call's step may bring a script's capability back to the worker's map.
DocStep == (\E d \in Doc : U!Open(d)) \/ (\E c \in Caller : CallerStep(c))

LEMMA DocKeeps ==
    ASSUME ScriptTypes, RunsInv, DocStep
    PROVE  /\ UNCHANGED <<enabled, allowed, session, registry, capabilities, runs, alone, exact>>
           /\ known' = [s \in Script |-> known'[s]]
           /\ \A s \in Script : known[s] # 0 => known'[s] = known[s]
<1>0. known = [s \in Script |-> known[s]]
  BY DEF ScriptTypes
<1>1. CASE \E d \in Doc : U!Open(d)
  BY <1>0, <1>1 DEF U!Open, U!policy, U!history
<1>2. ASSUME NEW c \in Caller, CallerStep(c)
      PROVE  /\ UNCHANGED <<enabled, allowed, session, registry, capabilities, runs, alone, exact>>
             /\ known' = [s \in Script |-> known'[s]]
             /\ \A s \in Script : known[s] # 0 => known'[s] = known[s]
  <2>1. UNCHANGED <<enabled, allowed, session, registry, capabilities, runs, alone, exact>>
    BY <1>2 DEF CallerStep, U!Calling, U!Call, U!LookUp, U!Refuse, U!Initialize, U!Hear, U!Ask,
                U!StartOver, U!policy, U!worker, U!history
  <2>2. known' = known \/ known' = [known EXCEPT ![ScriptOf[DocOf[c]]] = U!Bootstrap(c)]
    BY <1>2 DEF CallerStep, U!Calling, U!Call, U!LookUp, U!Refuse, U!Initialize, U!Hear, U!Ask,
                U!StartOver, U!Remember, U!worker, U!Code
  <2>3. QED
    BY <1>0, <2>1, <2>2 DEF U!Bootstrap, U!Code
<1>3. QED
  BY <1>1, <1>2 DEF DocStep

LEMMA DocInv == ASSUME ScriptInv, DocStep PROVE ScriptInv'
<1>0. ScriptTypes /\ RetryInv /\ RunsInv
  BY DEF ScriptInv
<1>1. CallsInOrder
  BY <1>0, CallerMoves, OpenMoves DEF DocStep
<1>2. ScriptTypes'
  BY <1>0, <1>1, DocKeeps DEF ScriptTypes, CallsInOrder
<1>3. RunsInv'
  <2>1. /\ UNCHANGED <<registry, capabilities, runs, alone, exact>>
        /\ \A s \in Script : known[s] # 0 => known'[s] = known[s]
    BY <1>0, DocKeeps
  <2>2. ASSUME exact.sure, NEW s \in exact.set PROVE known'[s] = known[s]
    BY <1>0, <2>1, <2>2 DEF RunsInv, U!Registered
  <2>3. QED
    BY <1>0, <2>1, <2>2 DEF RunsInv, AloneInOrder, U!InProgress, U!Registered
<1>4. QED
  BY <1>1, <1>2, <1>3 DEF ScriptInv, CallsInOrder

LEMMA ScriptInit == U!Init => ScriptInv
<1> SUFFICES ASSUME U!Init PROVE ScriptInv
  OBVIOUS
<1>1. RetryInv
  BY DEF U!Init, RetryInv, Retries, U!Idle
<1>2. RunsInv
  <2>1. PICK S \in U!Starting : runs = U!Started(S) /\ alone \in U!Lone(S)
    BY DEF U!Init
  <2>2. \A q \in Run : /\ q \in S => runs[q].at = "read"
                       /\ q \notin S => runs[q].at = "idle"
    BY <2>1 DEF U!Started, U!Waiting
  <2>3. ASSUME NEW r \in Run, alone = r PROVE S = {r}
    <3>1. r \in S /\ U!Cardinality(S) = 1
      BY <2>1, <2>3, ScriptsAndRuns DEF U!Lone
    <3>2. IsFiniteSet(S) /\ Cardinality(S) = 1
      BY <3>1, ScriptsAndRuns, FS_Subset, SameCardinality DEF U!Starting
    <3>3. QED
      BY <3>1, <3>2, FS_Singleton
  <2>4. ASSUME NEW r \in Run, alone = r PROVE AloneInOrder(r)
    BY <2>2, <2>3, <2>4 DEF AloneInOrder, U!InProgress
  <2>5. ~exact.sure
    BY DEF U!Init, U!Unknown
  <2>6. QED
    BY <2>2, <2>4, <2>5 DEF RunsInv
<1>3. QED
  BY <1>1, <1>2, ScriptTypesInit DEF ScriptInv

LEMMA ScriptSame == ASSUME ScriptInv, UNCHANGED scriptVars PROVE ScriptInv'
  BY DEF scriptVars, ScriptInv, ScriptTypes, Callers, RetryInv, RunsInv, AloneInOrder,
         U!InProgress, U!Registered

\* A registration is begun by a script or a switch the user has touched.
LEMMA BeginInv ==
    ASSUME ScriptInv, NEW r \in Run, U!Begin(r), enabled' \in SUBSET Script, allowed' \in BOOLEAN,
           UNCHANGED <<session, registry, capabilities, known, documents, fresh, calls>>
    PROVE  ScriptInv'
<1>1. ScriptTypes'
  BY BeginTypes DEF ScriptInv, ScriptTypes, Callers
<1>2. QED
  BY <1>1, BeginInOrder, RetriesSame DEF ScriptInv

LEMMA RestartInv == ASSUME ScriptInv, NEW S \in U!Starting, U!Restart(S) PROVE ScriptInv'
<1>1. RunsInv'
  BY StartsInOrder DEF U!Restart
<1>2. RetryInv'
  BY ForgottenRetries DEF U!Restart, ScriptInv
<1>3. runs' \in [Run -> RunState] /\ exact' \in [sure : BOOLEAN, set : SUBSET Script]
  BY StartedType DEF U!Restart, U!Unknown
<1>4. /\ known' = [s \in Script |-> known'[s]] /\ documents' = [d \in Doc |-> documents'[d]]
      /\ Callers'
  BY ForgetTypes DEF U!Restart, ScriptInv
<1>5. ScriptTypes'
  BY <1>3, <1>4 DEF U!Restart, ScriptInv, ScriptTypes, U!policy
<1>6. QED
  BY <1>1, <1>2, <1>5 DEF ScriptInv

LEMMA RegisteringInv == ASSUME ScriptInv, NEW r \in Run, U!Registering(r) PROVE ScriptInv'
<1>1. RetryInv'
  <2>1. U!ForgetDocuments \/ UNCHANGED <<calls, documents>>
    BY DEF U!Registering, U!ReadScripts, U!ListRegistered, U!Unregister, U!UnregisterFails,
           U!LoadCapabilities, U!KeepCapabilities, U!Register, U!RegisterFails, U!worker
  <2>2. QED
    BY <2>1, ForgottenRetries, RetriesSame DEF ScriptInv
<1>2. QED
  BY <1>1, RegisteringTypes, RegisteringInOrder DEF ScriptInv

LEMMA ScriptNext == ASSUME ScriptInv, U!Next PROVE ScriptInv'
<1>1. CASE \E r \in Run : U!Registering(r)
  BY <1>1, RegisteringInv
<1>2. CASE \E r \in Run : U!Switch(r)
  <2>1. PICK r \in Run : U!Switch(r)
    BY <1>2
  <2>2. /\ U!Begin(r) /\ allowed' = ~allowed
        /\ UNCHANGED <<enabled, session, registry, capabilities, known, documents, fresh, calls>>
    BY <2>1 DEF U!Switch, U!worker
  <2>3. enabled' \in SUBSET Script /\ allowed' \in BOOLEAN
    BY <2>2 DEF ScriptInv, ScriptTypes
  <2>4. QED
    BY <2>2, <2>3, BeginInv
<1>3. CASE \E r \in Run, s \in Script : U!Toggle(s, r)
  <2>1. PICK r \in Run, s \in Script : U!Toggle(s, r)
    BY <1>3
  <2>2. /\ U!Begin(r)
        /\ enabled' = IF s \in enabled THEN enabled \ {s} ELSE enabled \cup {s}
        /\ UNCHANGED <<allowed, session, registry, capabilities, known, documents, fresh, calls>>
    BY <2>1 DEF U!Toggle, U!worker
  <2>3. enabled' \in SUBSET Script /\ allowed' \in BOOLEAN
    BY <2>2 DEF ScriptInv, ScriptTypes
  <2>4. QED
    BY <2>2, <2>3, BeginInv
<1>4. CASE \E S \in U!Starting : U!Restart(S)
  BY <1>4, RestartInv
<1>5. CASE (\E d \in Doc : U!Open(d)) \/ (\E c \in Caller : U!Calling(c) \/ U!Call(c))
  BY <1>5, DocInv DEF DocStep, CallerStep
<1>6. CASE U!SignInOrOut
  <2>1. session' \in BOOLEAN
    BY <1>6 DEF U!SignInOrOut, ScriptInv, ScriptTypes
  <2>2. /\ UNCHANGED <<enabled, allowed, registry, capabilities, known, documents, fresh>>
        /\ UNCHANGED <<runs, page, calls, alone, exact>>
    BY <1>6 DEF U!SignInOrOut, U!worker, U!history
  <2>3. ScriptTypes'
    BY <2>1, <2>2 DEF ScriptInv, ScriptTypes, Callers
  <2>4. RetryInv'
    BY <2>2 DEF ScriptInv, RetryInv
  <2>5. RunsInv'
    BY <2>2 DEF ScriptInv, RunsInv, AloneInOrder, U!InProgress, U!Registered
  <2>6. QED
    BY <2>3, <2>4, <2>5 DEF ScriptInv
<1>7. QED
  BY <1>1, <1>2, <1>3, <1>4, <1>5, <1>6 DEF U!Next

LEMMA ScriptsAlways == Spec => [](part = "scripts" => ScriptInv)
<1> DEFINE Inv == part = "scripts" => ScriptInv
<1>1. Init => Inv
  BY ScriptInit DEF Init
<1>2. Inv /\ [Next]_vars => Inv'
  <2> SUFFICES ASSUME Inv, [Next]_vars PROVE Inv'
    OBVIOUS
  <2>1. CASE ScriptStep
    BY <2>1, ScriptNext DEF ScriptStep
  <2>2. CASE AccountStep \/ SyncStep
    BY <2>2 DEF AccountStep, SyncStep
  <2>3. CASE UNCHANGED vars
    BY <2>3, ScriptSame DEF vars
  <2>4. QED
    BY <2>1, <2>2, <2>3 DEF Next
<1>3. QED
  BY <1>1, <1>2, PTL DEF Spec

(* Whatever registrations, restarts and other calls come between, a call of *)
(* a document ends as invalid only when the worker's maps were emptied, or   *)
(* another call of the document was given a capability, while it ran         *)
(* (RetryGetsThrough).                                                       *)
THEOREM RetryGetsThroughAlways == Spec => []RetryGetsThrough
<1>1. (part = "scripts" => ScriptInv) => RetryGetsThrough
  BY DEF ScriptInv, RetryInv, Retries, RetryGetsThrough, U!InvalidMeansDisturbed
<1>2. QED
  BY <1>1, ScriptsAlways, PTL

(* However many scripts and registrations there are, one that no other ran   *)
(* beside leaves exactly its scripts registered (UndisturbedRunsAreExact).   *)
THEOREM UndisturbedRunsAreExactAlways == Spec => []UndisturbedRunsAreExact
<1>1. (part = "scripts" => ScriptInv) => UndisturbedRunsAreExact
  BY DEF ScriptInv, RunsInv, UndisturbedRunsAreExact, U!RegistryIsExact
<1>2. QED
  BY <1>1, ScriptsAlways, PTL
=============================================================================
