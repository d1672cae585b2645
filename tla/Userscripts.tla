---------------------------- MODULE Userscripts -----------------------------
(***************************************************************************)
(* The userscript manager (background/userscript-manager.js).  A run of    *)
(* registerStoredUserscripts replaces what is registered in the browser by *)
(* the scripts now enabled, in several awaits; runs are not kept apart.    *)
(* Each registered script carries a bootstrap capability, also kept in the *)
(* session storage; a document trades it for one of its own, which every   *)
(* later call must show and which the worker keeps in memory only.  The    *)
(* calls a document has in progress share that one, and each may trade     *)
(* again.                                                                  *)
(* Capabilities are numbers, fresh ones counted; 0 is none.                *)
(***************************************************************************)
EXTENDS Naturals, FiniteSets

CONSTANTS
    Nobody,
    Script,      \* scripts, numbered in the order of fp_scripts
    Run,         \* runs of registerStoredUserscripts
    Doc,         \* documents with a userscript
    ScriptOf,    \* the script of each document
    Caller,      \* the calls of GM functions that may be in progress at once
    DocOf,       \* the document of each
    PlanLimit,   \* scripts the plan allows
    MaxEvents    \* bound on toggles, sign-outs, calls, requests, stops

VARIABLES
    enabled,   \* the enabled scripts of fp_scripts
    allowed,   \* extension and userscripts are switched on
    session,   \* signed in
    registry,  \* the capability in each script's registered code
    stored,    \* the capabilities in chrome.storage.session
    known,     \* registeredScriptCapabilities
    documents, \* documentCapabilities
    fresh,     \* capabilities made
    runs,      \* the registrations in progress
    page,      \* each document: its code's capability and its own
    calls,     \* each call: where it is, what it shows, what came between
    alone,     \* history: the run no other has run beside, or Nobody
    exact,     \* history: whether such a run ended last, and what it chose
    happened

policy == <<enabled, allowed, session>>
worker == <<known, documents>>
history == <<alone, exact>>
vars == <<policy, registry, stored, worker, fresh, runs, page, calls, history, happened>>

NoCapabilities == [s \in Script |-> 0]
Registered == {s \in Script : registry[s] # 0}
Unknown == [sure |-> FALSE, set |-> {}]
Waiting == [at |-> "idle", lets |-> FALSE, chosen |-> {}, caps |-> NoCapabilities, ids |-> {}]
Closed == [boot |-> 0, own |-> 0]
Idle == [at |-> "idle", shows |-> 0, look |-> 0, tried |-> FALSE, disturbed |-> FALSE,
         outcome |-> "none"]

\* applyScriptPlanLimit: the first scripts of the list, as many as the plan allows.
Limited(S) == {s \in S : Cardinality({t \in S : t < s}) < PlanLimit}

\* initialize() runs once a worker, and once more when the browser starts.
Starting == {S \in SUBSET Run : Cardinality(S) \in {1, 2}}
Started(S) == [r \in Run |-> IF r \in S THEN [Waiting EXCEPT !.at = "read"] ELSE Waiting]
Lone(S) == IF Cardinality(S) = 1 THEN S ELSE {Nobody}

Init == /\ enabled \in SUBSET Script /\ allowed = TRUE /\ session = TRUE
        /\ registry = NoCapabilities /\ stored = NoCapabilities
        /\ known = NoCapabilities /\ documents = [d \in Doc |-> 0]
        /\ fresh = 0
        /\ \E S \in Starting : runs = Started(S) /\ alone \in Lone(S)
        /\ page = [d \in Doc |-> Closed] /\ calls = [c \in Caller |-> Idle]
        /\ exact = Unknown /\ happened = 0

Happens == happened < MaxEvents /\ happened' = happened + 1
InProgress(r) == runs[r].at # "idle"
At(r, place) == runs[r].at = place
-----------------------------------------------------------------------------
(* Registration.                                                           *)

\* The run that starts makes the registry unknown until one ends undisturbed.
Begin(r) ==
    /\ ~InProgress(r)
    /\ alone' = IF \E q \in Run : InProgress(q) THEN Nobody ELSE r
    /\ runs' = [q \in Run |-> IF q = r THEN [Waiting EXCEPT !.at = "read"] ELSE runs[q]]
    /\ exact' = Unknown

\* The active profile is asked of the protected storage, which never holds the
\* settings: every run takes the scripts of the default profile.
ReadScripts(r) ==
    /\ At(r, "read")
    /\ runs' = [runs EXCEPT ![r].at = "list",
                            ![r].lets = session /\ allowed,
                            ![r].chosen = IF session /\ allowed THEN Limited(enabled) ELSE {}]
    /\ UNCHANGED <<policy, registry, stored, worker, fresh, page, calls, history, happened>>

ListRegistered(r) ==
    /\ At(r, "list")
    /\ runs' = [runs EXCEPT ![r].at = "drop", ![r].ids = Registered]
    /\ UNCHANGED <<policy, registry, stored, worker, fresh, page, calls, history, happened>>

\* The run ends; `done` says whether it has done its work.
End(r, done) ==
    /\ runs' = [runs EXCEPT ![r] = Waiting]
    /\ alone' = IF alone = r THEN Nobody ELSE alone
    /\ exact' = IF done /\ alone = r THEN [sure |-> TRUE, set |-> runs[r].chosen] ELSE exact

\* History: something has come between the calls of C that are in progress.
Disturbing(C) ==
    [c \in Caller |-> IF c \in C /\ calls[c].at # "idle" THEN [calls[c] EXCEPT !.disturbed = TRUE]
                                                         ELSE calls[c]]

\* Emptying the maps makes every document of the worker start over.
ForgetDocuments ==
    /\ known' = NoCapabilities
    /\ documents' = [d \in Doc |-> 0]
    /\ calls' = Disturbing(Caller)

Unregister(r) ==
    /\ At(r, "drop")
    /\ registry' = [s \in Script |-> IF s \in runs[r].ids THEN 0 ELSE registry[s]]
    /\ ForgetDocuments
    /\ IF runs[r].lets
       THEN runs' = [runs EXCEPT ![r].at = "load"] /\ UNCHANGED history
       ELSE End(r, TRUE)
    /\ UNCHANGED <<policy, stored, fresh, page, happened>>

\* Another run has unregistered some of them; the browser may then refuse all.
UnregisterFails(r) ==
    /\ At(r, "drop") /\ ~(runs[r].ids \subseteq Registered)
    /\ End(r, FALSE)
    /\ UNCHANGED <<policy, registry, stored, worker, fresh, page, calls, happened>>

\* loadBootstrapCapabilities keeps a script's capability while it stays chosen.
LoadCapabilities(r) ==
    /\ At(r, "load")
    /\ LET new == {s \in runs[r].chosen : stored[s] = 0}
           number(s) == fresh + 1 + Cardinality({t \in new : t < s})
       IN /\ runs' = [runs EXCEPT ![r].at = "keep",
                         ![r].caps = [s \in Script |-> IF s \in new THEN number(s)
                                      ELSE IF s \in runs[r].chosen THEN stored[s] ELSE 0]]
          /\ fresh' = fresh + Cardinality(new)
    /\ UNCHANGED <<policy, registry, stored, worker, page, calls, history, happened>>

\* MUTANT of KeepCapabilities: only the first ones are kept.
KeepFirstCapabilities(r) ==
    /\ At(r, "keep")
    /\ stored' = IF stored = NoCapabilities THEN runs[r].caps ELSE stored
    /\ runs' = [runs EXCEPT ![r].at = "register"]
    /\ UNCHANGED <<policy, registry, worker, fresh, page, calls, history, happened>>

KeepCapabilities(r) ==
    /\ At(r, "keep")
    /\ stored' = runs[r].caps
    /\ runs' = [runs EXCEPT ![r].at = "register"]
    /\ UNCHANGED <<policy, registry, worker, fresh, page, calls, history, happened>>

Register(r) ==
    /\ At(r, "register") /\ runs[r].chosen \cap Registered = {}
    /\ registry' = [s \in Script |-> IF s \in runs[r].chosen THEN runs[r].caps[s] ELSE registry[s]]
    /\ known' = [s \in Script |-> IF s \in runs[r].chosen THEN runs[r].caps[s] ELSE known[s]]
    /\ End(r, TRUE)
    /\ UNCHANGED <<policy, stored, documents, fresh, page, calls, happened>>

\* An identifier is registered already, by a run that was faster.
RegisterFails(r) ==
    /\ At(r, "register") /\ runs[r].chosen \cap Registered # {}
    /\ End(r, FALSE)
    /\ UNCHANGED <<policy, registry, stored, worker, fresh, page, calls, happened>>
-----------------------------------------------------------------------------
(* What starts a registration, and what does not.                          *)

Toggle(s, r) ==
    /\ Happens
    /\ enabled' = IF s \in enabled THEN enabled \ {s} ELSE enabled \cup {s}
    /\ Begin(r)
    /\ UNCHANGED <<allowed, session, registry, stored, worker, fresh, page, calls>>

\* storage.onChanged sees the settings.
Switch(r) ==
    /\ Happens
    /\ allowed' = ~allowed
    /\ Begin(r)
    /\ UNCHANGED <<enabled, session, registry, stored, worker, fresh, page, calls>>

\* It never sees fp_auth, which is stored under its protected name.
SignInOrOut ==
    /\ Happens
    /\ session' = ~session
    /\ UNCHANGED <<enabled, allowed, registry, stored, worker, fresh, runs, page, calls, history>>

\* The worker stops and its next start registers; the browser keeps the code.
Restart(S) ==
    /\ Happens
    /\ ForgetDocuments
    /\ runs' = Started(S) /\ alone' \in Lone(S)
    /\ exact' = Unknown
    /\ UNCHANGED <<policy, registry, stored, fresh, page>>
-----------------------------------------------------------------------------
(* Calls of the scripts.                                                   *)

Standing(c, place) == calls[c].at = place
AtWorker(c) == calls[c].at \in {"init", "ask"}
Code(c) == ScriptOf[DocOf[c]]
Beside(c) == {b \in Caller \ {c} : DocOf[b] = DocOf[c]}

\* A page loads with the code registered at that moment; the calls of the one
\* it replaces are gone.
Open(d) ==
    /\ Happens
    /\ registry[ScriptOf[d]] # 0
    /\ page' = [page EXCEPT ![d] = [boot |-> registry[ScriptOf[d]], own |-> 0]]
    /\ calls' = [c \in Caller |-> IF DocOf[c] = d THEN Idle ELSE calls[c]]
    /\ documents' = [documents EXCEPT ![d] = 0]
    /\ UNCHANGED <<policy, registry, stored, known, fresh, runs, history>>

\* A document without a capability asks for one first, whatever its other calls do.
Call(c) ==
    /\ Standing(c, "idle") /\ page[DocOf[c]].boot # 0 /\ Happens
    /\ calls' = [calls EXCEPT ![c] = [Idle EXCEPT !.at = IF page[DocOf[c]].own = 0 THEN "init" ELSE "ask",
                                                 !.shows = page[DocOf[c]].own]]
    /\ UNCHANGED <<policy, registry, stored, worker, fresh, runs, page, history>>

\* getRegisteredBootstrapCapability after a restart: from the session storage
\* and the registry, and into the map when both have been read.
LookUp(c) ==
    /\ AtWorker(c) /\ known[Code(c)] = 0 /\ calls[c].look = 0
    /\ registry[Code(c)] # 0 /\ stored[Code(c)] # 0
    /\ calls' = [calls EXCEPT ![c].look = stored[Code(c)]]
    /\ UNCHANGED <<policy, registry, stored, worker, fresh, runs, page, history, happened>>

Bootstrap(c) == IF known[Code(c)] # 0 THEN known[Code(c)] ELSE calls[c].look
MayCall(c) == allowed /\ Code(c) \in enabled

Ends(c, outcome) == calls' = [calls EXCEPT ![c].at = "idle", ![c].look = 0, ![c].outcome = outcome]
Remember(c) == known' = [known EXCEPT ![Code(c)] = Bootstrap(c)]

\* USERSCRIPTS_DISABLED, SCRIPT_NOT_REGISTERED
Refuse(c) ==
    /\ AtWorker(c)
    /\ ~MayCall(c) \/ (Bootstrap(c) = 0 /\ (registry[Code(c)] = 0 \/ stored[Code(c)] = 0))
    /\ Ends(c, "refused")
    /\ UNCHANGED <<policy, registry, stored, worker, fresh, runs, page, history, happened>>

\* The new capability replaces the document's, also for its other calls.
Initialize(c) ==
    /\ Standing(c, "init") /\ MayCall(c) /\ Bootstrap(c) # 0
    /\ Remember(c)
    /\ IF Bootstrap(c) # page[DocOf[c]].boot
       THEN Ends(c, "stale") /\ UNCHANGED <<documents, fresh>>
       ELSE /\ fresh' = fresh + 1
            /\ documents' = [documents EXCEPT ![DocOf[c]] = fresh']
            /\ calls' = [Disturbing(Beside(c)) EXCEPT ![c].at = "given", ![c].shows = fresh',
                                                     ![c].look = 0]
    /\ UNCHANGED <<policy, registry, stored, runs, page, history, happened>>

\* The answer reaches the page, maybe after those to calls begun later; the
\* call goes on with the capability that came for it.
Hear(c) ==
    /\ Standing(c, "given")
    /\ page' = [page EXCEPT ![DocOf[c]].own = calls[c].shows]
    /\ calls' = [calls EXCEPT ![c].at = "ask"]
    /\ UNCHANGED <<policy, registry, stored, worker, fresh, runs, history, happened>>

\* INVALID_CAPABILITY is an error the second time.
Ask(c) ==
    /\ Standing(c, "ask") /\ MayCall(c) /\ Bootstrap(c) # 0
    /\ Remember(c)
    /\ IF calls[c].shows = documents[DocOf[c]] THEN Ends(c, "served")
       ELSE IF calls[c].tried THEN Ends(c, "invalid")
       ELSE calls' = [calls EXCEPT ![c].at = "denied", ![c].look = 0]
    /\ UNCHANGED <<policy, registry, stored, documents, fresh, runs, page, history, happened>>

\* MUTANT of StartOver: the retry shows the same capability again.
AskAgain(c) ==
    /\ Standing(c, "denied")
    /\ calls' = [calls EXCEPT ![c].at = "ask", ![c].tried = TRUE]
    /\ UNCHANGED <<policy, registry, stored, worker, fresh, runs, page, history, happened>>

\* The first time it makes the document forget its capability, whichever call
\* has set it since, and ask for another.
StartOver(c) ==
    /\ Standing(c, "denied")
    /\ page' = [page EXCEPT ![DocOf[c]].own = 0]
    /\ calls' = [calls EXCEPT ![c].at = "init", ![c].tried = TRUE]
    /\ UNCHANGED <<policy, registry, stored, worker, fresh, runs, history, happened>>
-----------------------------------------------------------------------------
Registering(r) == \/ ReadScripts(r) \/ ListRegistered(r) \/ Unregister(r) \/ UnregisterFails(r)
                  \/ LoadCapabilities(r) \/ KeepCapabilities(r) \/ Register(r) \/ RegisterFails(r)
Calling(c) == LookUp(c) \/ Refuse(c) \/ Initialize(c) \/ Hear(c) \/ Ask(c) \/ StartOver(c)

Next == \/ \E r \in Run : Registering(r) \/ Switch(r)
        \/ \E S \in Starting : Restart(S)
        \/ \E r \in Run, s \in Script : Toggle(s, r)
        \/ \E d \in Doc : Open(d)
        \/ \E c \in Caller : Calling(c) \/ Call(c)
        \/ SignInOrOut
-----------------------------------------------------------------------------
(* What must hold of the registry and of the calls.                        *)

RegistryIsExact ==
    exact.sure => /\ Registered = exact.set
                  /\ \A s \in exact.set : registry[s] = stored[s] /\ known[s] \in {0, registry[s]}

InvalidMeansDisturbed == \A c \in Caller : calls[c].outcome = "invalid" => calls[c].disturbed
=============================================================================
