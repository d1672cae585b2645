--------------------------- MODULE ExtensionWorker ---------------------------
(***************************************************************************)
(* The extension's service worker: the account (Account), the cloud copy   *)
(* (CloudSync) and the userscripts (Userscripts).  Above the storage, whose*)
(* promise is DurableRegisters, they write no variable of one another; what*)
(* one does to another (a sign-in, a stop of the worker, a script switched *)
(* off) is an event of the other's module.  So a behaviour here is one of  *)
(* one part, the others absent.                                            *)
(***************************************************************************)
EXTENDS Naturals, Sequences, FiniteSets

CONSTANTS
    None,                                                         \* absent, or no record
    Handler, Own, MaxSignIns, MaxAccountEvents,                   \* of Account
    Task, ByTimer, ByAlarm, MaxEdits, MaxVersion, MaxSyncEvents,  \* of CloudSync
    Script, Run, Doc, ScriptOf, Caller, DocOf,                    \* of Userscripts
    PlanLimit, MaxScriptEvents

ASSUME WorkersHandler == Own \in Handler
ASSUME AutomaticTasks == {ByTimer, ByAlarm} \subseteq Task /\ ByTimer # ByAlarm
ASSUME ScriptsAndRuns == /\ Script \subseteq Nat /\ IsFiniteSet(Script) /\ IsFiniteSet(Run)
                         /\ None \notin Run /\ ScriptOf \in [Doc -> Script]
                         /\ DocOf \in [Caller -> Doc]

VARIABLES
    part,
    auth, settings, credits, live, opened, plan, balance, handlers, events,
    signedIn, switch, content, synced, astray, cloud, task, syncing, debounce, edits, happenings,
    enabled, allowed, session, registry, capabilities, known, documents, fresh, runs,
    page, calls, alone, exact, happened

accountVars == <<auth, settings, credits, live, opened, plan, balance, handlers, events>>
syncVars == <<signedIn, switch, content, synced, astray, cloud, task, syncing, debounce, edits,
              happenings>>
scriptVars == <<enabled, allowed, session, registry, capabilities, known, documents,
                fresh, runs, page, calls, alone, exact, happened>>
vars == <<part, accountVars, syncVars, scriptVars>>

A == INSTANCE Account WITH MaxEvents <- MaxAccountEvents, run <- handlers
C == INSTANCE CloudSync WITH MaxEvents <- MaxSyncEvents, Nothing <- None,
                             events <- happenings, running <- syncing, timer <- debounce
U == INSTANCE Userscripts WITH MaxEvents <- MaxScriptEvents, Nobody <- None,
                               stored <- capabilities

NoAccount == /\ auth = None /\ settings = None /\ credits = None /\ live = None
             /\ opened = None /\ plan = None /\ balance = None
             /\ handlers = None /\ events = None

NoSync == /\ signedIn = None /\ switch = None /\ content = None /\ synced = None
          /\ astray = None /\ cloud = None /\ task = None /\ syncing = None /\ debounce = None
          /\ edits = None /\ happenings = None

NoScripts == /\ enabled = None /\ allowed = None /\ session = None /\ registry = None
             /\ capabilities = None /\ known = None /\ documents = None /\ fresh = None
             /\ runs = None /\ page = None /\ calls = None /\ alone = None /\ exact = None
             /\ happened = None

Init == \/ part = "account" /\ A!Init /\ NoSync /\ NoScripts
        \/ part = "sync" /\ C!Init /\ NoAccount /\ NoScripts
        \/ part = "scripts" /\ U!Init /\ NoAccount /\ NoSync

AccountStep == part = "account" /\ A!Next /\ UNCHANGED <<part, syncVars, scriptVars>>
SyncStep == part = "sync" /\ C!Next /\ UNCHANGED <<part, accountVars, scriptVars>>
ScriptStep == part = "scripts" /\ U!Next /\ UNCHANGED <<part, accountVars, syncVars>>

Next == AccountStep \/ SyncStep \/ ScriptStep

\* Handlers go on and the browser keeps the alarms.  A start makes them anew and
\* puts them off by their period, so they are sure to ring only because starts are
\* bounded here (MaxAccountEvents, MaxSyncEvents).  Nothing keeps the timer of the
\* sync, which the worker forgets when it stops.
Fairness ==
    /\ \A h \in Handler : WF_accountVars(part = "account" /\ A!Continue(h))
    /\ WF_accountVars(part = "account" /\ A!AlarmRings)
    /\ \A h \in Task : WF_syncVars(part = "sync" /\ C!Continue(h))
    /\ WF_syncVars(part = "sync" /\ C!AlarmRings)

Spec == Init /\ [][Next]_vars /\ Fairness
-----------------------------------------------------------------------------
(* A session the server no longer accepts does not stay on the device: a   *)
(* refresh in flight may write its record back over a sign-out or over a   *)
(* newer sign-in, but is refused the next time and the record goes.  A     *)
(* session whose revocation never reached the server is not of this kind:  *)
(* a refresh in flight can bring it back after the sign-out, for good.     *)
EndedSessionsGo ==
    \A s \in A!Session :
        (part = "account" /\ A!Outlived(s)) ~> ~(part = "account" /\ A!Holds(s))

(* The local check of credits is never the last word: when the server has  *)
(* credits again, a record that says "none left" is replaced, or the user  *)
(* is signed out.                                                          *)
CreditsRecover == (part = "account" /\ A!Denied) ~> ~(part = "account" /\ A!Denied)

(* autoSyncRunning is set exactly while one automatic run is in progress,  *)
(* however it ends: no two run at once, and none leaves it set for ever.   *)
OneAutoSync == part = "sync" => C!FlagIsExact

(* What the user edits reaches the cloud copy, unless it is edited again,  *)
(* sync is switched off, or the cloud is ahead of what the device remembers*)
(* for one of two reasons: other devices have pushed, or the device has    *)
(* forgotten its own pushes, by signing out or by an older record of the   *)
(* version written back.  Then pushes are refused until the user pulls.    *)
EditsAreBackedUp ==
    \A e \in 1 .. MaxEdits :
        (part = "sync" /\ C!Unsaved(e)) ~> ~(part = "sync" /\ C!Unsaved(e))

(* A registration that no other one ran beside leaves in the browser       *)
(* exactly the scripts it chose, each with the capability the session      *)
(* storage holds, which a restarted worker will ask for.                   *)
UndisturbedRunsAreExact == part = "scripts" => U!RegistryIsExact

(* A document whose capability was dropped by a registration or a restart  *)
(* gets through with its one retry: a call ends as invalid only when, while*)
(* it ran, the maps were emptied or another call of the same document was  *)
(* given a capability, which takes the place of the one the calls share.   *)
RetryGetsThrough == part = "scripts" => U!InvalidMeansDisturbed
=============================================================================
