----------------------------- MODULE CloudSync ------------------------------
(***************************************************************************)
(* The encrypted cloud copy of one device (background/sync-manager.js and  *)
(* the automatic synchronisation of service-worker.js).  The user pushes,  *)
(* pulls and deletes; a timer set by local changes and a periodic alarm    *)
(* push too, one at a time by a flag.  The server keeps one copy and       *)
(* refuses a push of a version below it; other devices push and delete.    *)
(* A payload is named by the edit it contains.                             *)
(***************************************************************************)
EXTENDS Naturals

CONSTANTS
    Task,        \* runs of the sync handlers
    ByTimer,     \* the run the debounce timer starts
    ByAlarm,     \* the run the periodic alarm starts
    MaxEdits,    \* bound on local edits
    MaxVersion,  \* versions stop counting here
    MaxEvents,   \* bound on what happens besides: starts, edits, failures, stops,
                 \* sign-ins and sign-outs, and what other devices do
    Nothing      \* no cloud copy, no answer

VARIABLES
    signedIn,  \* fp_auth holds a session whose plan allows sync
    switch,    \* fp_settings.syncEnabled
    content,   \* the rules, scripts and profiles: the last edit made
    synced,    \* fp_sync_meta.version, 0 without one
    astray,    \* history: others have passed the device, or it has forgotten its version
    cloud,     \* the server's copy: version, content, switch
    task,      \* what each run does and the copy it carries
    running,   \* autoSyncRunning
    timer,     \* autoSyncTimer is set
    edits, events

device == <<signedIn, switch, content, synced, astray>>
auto == <<running, timer>>
vars == <<device, cloud, task, auto, edits, events>>
bounds == <<edits, events>>

Following(v) == IF v < MaxVersion THEN v + 1 ELSE v
Theirs == MaxEdits + 1  \* what another device pushed
Automatic == {ByTimer, ByAlarm}
Resting == [kind |-> "none", at |-> "idle", copy |-> Nothing, tried |-> FALSE]

At(h, place) == task[h].at = place
Of(h, kinds) == task[h].kind \in kinds
Goes(h, place) == task' = [task EXCEPT ![h].at = place]
Rests(h) == task' = [task EXCEPT ![h] = Resting]
Happens == events < MaxEvents /\ events' = events + 1 /\ UNCHANGED edits

\* fp_sync_meta is written whole: an older version may take a newer one's place.
Remember(v) == synced' = v /\ astray' = (astray \/ v < synced)

\* storage.onChanged: every change of the synced keys sets the timer anew.
Changed == timer' = (timer \/ content' # content \/ switch' # switch)

Init == /\ signedIn \in BOOLEAN /\ switch = signedIn
        /\ content = 0 /\ synced = 0 /\ astray = FALSE /\ cloud = Nothing
        /\ task = [h \in Task |-> Resting]
        /\ running = FALSE /\ timer = FALSE
        /\ edits = 0 /\ events = 0
-----------------------------------------------------------------------------
(* Starts.                                                                 *)

Start(h, kind) ==
    /\ h \notin Automatic /\ At(h, "idle") /\ Happens
    /\ task' = [task EXCEPT ![h].kind = kind,
                            ![h].at = IF kind = "erase" THEN "send" ELSE "build"]
    /\ UNCHANGED <<device, cloud, auto>>

\* runAutoSync: the flag is tested and set without an await in between.
AutoSync(h) ==
    IF running THEN UNCHANGED <<task, running>>
    ELSE /\ running' = TRUE
         /\ task' = [task EXCEPT ![h].kind = "auto", ![h].at = "eligible"]

TimerFires == /\ timer /\ timer' = FALSE
              /\ AutoSync(ByTimer)
              /\ UNCHANGED <<device, cloud, bounds>>

AlarmRings == /\ AutoSync(ByAlarm)
              /\ UNCHANGED <<device, cloud, timer, bounds>>

\* autoSyncEligible
Eligible == signedIn /\ switch

\* MUTANT of CheckEligible: the early return leaves the flag set.
CheckEligibleStuck(h) ==
    /\ At(h, "eligible")
    /\ IF Eligible THEN Goes(h, "build") ELSE Rests(h)
    /\ UNCHANGED <<device, cloud, auto, bounds>>

CheckEligible(h) ==
    /\ At(h, "eligible")
    /\ IF Eligible THEN Goes(h, "build") /\ UNCHANGED running
                   ELSE Rests(h) /\ running' = FALSE
    /\ UNCHANGED <<device, cloud, timer, bounds>>
-----------------------------------------------------------------------------
(* A run that ends, normally or not.  An automatic one clears its flag and *)
(* notes a failure in a copy of the sync record it reads first.            *)

Finishes(h) == Rests(h) /\ running' = (running /\ ~Of(h, {"auto"}))

Fails(h) == IF Of(h, {"auto"})
            THEN task' = [task EXCEPT ![h].at = "excuse"] /\ UNCHANGED running
            ELSE Rests(h) /\ UNCHANGED running

ReadMeta(h) ==
    /\ At(h, "excuse")
    /\ task' = [task EXCEPT ![h].at = "note", ![h].copy = [version |-> synced]]
    /\ UNCHANGED <<device, cloud, auto, bounds>>

NoteMeta(h) ==
    /\ At(h, "note")
    /\ Remember(task[h].copy.version)
    /\ Finishes(h)
    /\ UNCHANGED <<signedIn, switch, content, cloud, timer, bounds>>
-----------------------------------------------------------------------------
(* Requests.                                                               *)

\* buildEncryptedUpload; a pull only needs the session.
Build(h) ==
    /\ At(h, "build")
    /\ IF ~signedIn THEN Fails(h)
       ELSE /\ task' = [task EXCEPT ![h].at = "send",
                          ![h].copy = IF Of(h, {"pull"}) THEN Nothing
                                      ELSE [version |-> Following(synced), content |-> content, switch |-> switch]]
            /\ UNCHANGED running
    /\ UNCHANGED <<device, cloud, timer, bounds>>

Pushing == {"push", "auto"}
\* MUTANT of Newer: the server wants a version above its own.
StrictlyNewer(c) == cloud # Nothing => cloud.version < c.version

Newer(c) == cloud # Nothing => cloud.version <= c.version

ServerStores(h) ==
    /\ At(h, "send") /\ Of(h, Pushing) /\ signedIn /\ Newer(task[h].copy)
    /\ cloud' = task[h].copy
    /\ Goes(h, "stored")
    /\ UNCHANGED <<device, auto, bounds>>

ServerSends(h) ==
    /\ At(h, "send") /\ Of(h, {"pull"}) /\ signedIn
    /\ task' = [task EXCEPT ![h] = IF cloud = Nothing THEN Resting
                                   ELSE [@ EXCEPT !.at = "received", !.copy = cloud]]
    /\ UNCHANGED <<device, cloud, auto, bounds>>

ServerErases(h) ==
    /\ At(h, "send") /\ Of(h, {"erase"}) /\ signedIn
    /\ cloud' = Nothing
    /\ Goes(h, "excuse")
    /\ UNCHANGED <<device, auto, bounds>>

\* No session, or a version below the server's.
ServerRefuses(h) ==
    /\ At(h, "send")
    /\ ~signedIn \/ (Of(h, Pushing) /\ ~Newer(task[h].copy))
    /\ Fails(h)
    /\ UNCHANGED <<device, cloud, timer, bounds>>

\* The request or its answer is lost; the client sends it once more.
RequestFails(h) ==
    /\ task[h].at \in {"send", "stored", "received"} /\ Happens
    /\ IF task[h].tried THEN Fails(h)
       ELSE task' = [task EXCEPT ![h].at = "send", ![h].tried = TRUE] /\ UNCHANGED running
    /\ UNCHANGED <<device, cloud, timer>>

\* The version the server confirms becomes the device's.
RecordPush(h) ==
    /\ At(h, "stored")
    /\ Remember(task[h].copy.version)
    /\ Finishes(h)
    /\ UNCHANGED <<signedIn, switch, content, cloud, timer, bounds>>

\* One storage call each for the protected and the plain keys of a pull, which
\* end in either order.
HalfDone(h, half) == IF At(h, "received") THEN Goes(h, half) ELSE Rests(h)

ReplaceContent(h) ==
    /\ task[h].at \in {"received", "noted"}
    /\ content' = task[h].copy.content
    /\ HalfDone(h, "replaced")
    /\ UNCHANGED <<signedIn, switch, synced, astray, cloud, running, bounds>>
    /\ Changed

ReplaceMeta(h) ==
    /\ task[h].at \in {"received", "replaced"}
    /\ switch' = task[h].copy.switch /\ Remember(task[h].copy.version)
    /\ HalfDone(h, "noted")
    /\ UNCHANGED <<signedIn, content, cloud, running, bounds>>
    /\ Changed
-----------------------------------------------------------------------------
(* Around the device.                                                      *)

Edit == /\ events < MaxEvents /\ events' = events + 1
        /\ edits < MaxEdits /\ edits' = edits + 1 /\ content' = edits'
        /\ UNCHANGED <<signedIn, switch, synced, astray, cloud, task, running>>
        /\ Changed

\* Account: a sign-in sets the switch from the plan and pulls nothing; a sign-out
\* drops the meta, so that the device falls behind its own pushes.
SignIn == /\ ~signedIn /\ Happens
          /\ signedIn' = TRUE /\ switch' = TRUE
          /\ UNCHANGED <<content, synced, astray, cloud, task, running>>
          /\ Changed

SignOut == /\ signedIn /\ Happens
           /\ signedIn' = FALSE /\ switch' = FALSE /\ Remember(0)
           /\ UNCHANGED <<content, cloud, task, running>>
           /\ Changed

\* Another device pushes what it last saw, or a version more; or deletes.
TheyPush == /\ Happens
            /\ \E v \in IF cloud = Nothing THEN {1} ELSE {cloud.version, Following(cloud.version)} :
                  /\ cloud' = [version |-> v, content |-> Theirs, switch |-> TRUE]
                  /\ astray' = (astray \/ v > synced + 1)
            /\ UNCHANGED <<signedIn, switch, content, synced, task, auto>>

TheyErase == /\ cloud # Nothing /\ Happens
             /\ cloud' = Nothing
             /\ UNCHANGED <<device, task, auto>>

Stop == /\ Happens
        /\ task' = [h \in Task |-> Resting]
        /\ running' = FALSE /\ timer' = FALSE
        /\ UNCHANGED <<device, cloud>>
-----------------------------------------------------------------------------
Continue(h) == \/ CheckEligible(h) \/ Build(h) \/ ReadMeta(h) \/ NoteMeta(h)
               \/ ServerStores(h) \/ ServerSends(h) \/ ServerErases(h) \/ ServerRefuses(h)
               \/ RecordPush(h) \/ ReplaceContent(h) \/ ReplaceMeta(h)

Next == \/ \E h \in Task : Continue(h) \/ RequestFails(h)
        \/ \E h \in Task, kind \in {"push", "pull", "erase"} : Start(h, kind)
        \/ TimerFires \/ AlarmRings \/ Stop
        \/ Edit \/ SignIn \/ SignOut \/ TheyPush \/ TheyErase
-----------------------------------------------------------------------------
(* What must hold of the flag, and what must not last.                     *)

Busy(h) == ~At(h, "idle")
FlagIsExact == /\ running <=> \E h \in Automatic : Busy(h)
               /\ \A h, g \in Automatic : Busy(h) /\ Busy(g) => h = g

\* Every push is refused until the user pulls: others have pushed, or the device
\* has forgotten what it pushed (it signed out, or wrote an older record back).
Behind == astray /\ cloud # Nothing /\ cloud.version > synced + 1
Unsaved(e) == /\ content = e /\ Eligible /\ ~Behind
              /\ cloud # Nothing => cloud.content # e
=============================================================================
