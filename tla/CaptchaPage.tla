----------------------------- MODULE CaptchaPage -----------------------------
(***************************************************************************)
(* The captcha of one page (content/captcha-detector.js and                *)
(* captcha-filler.js).  Scans of the page and commands of the user start   *)
(* solves of the page's one route; a flag keeps them apart, an answer is   *)
(* kept with a key of its image, and the answer is filled after a delay    *)
(* unless the user has written something.  Image, route and field may      *)
(* change at every await.                                                  *)
(***************************************************************************)
EXTENDS Naturals

CONSTANTS
    Solve,     \* runs of scanAndMaybeSolve and of CAPTCHA_SOLVE_NOW
    Images,    \* the source shows image 1, 2, ... Images
    KeyOf,     \* the key of an image, a prefix of its data
    MaxEvents, \* bound on what the user, the page and the settings do, and failures
    Empty, User, Partial, \* what the field holds besides the answer to an image
    Nothing

VARIABLES
    image,   \* what the source shows
    field,   \* what the target holds
    filled,  \* dataset.eazyfillCaptchaAutofillValue
    busy,    \* the user is active in another field
    human,   \* captchaHumanTyping
    route,   \* the stored route is approved, or has no status
    server,  \* the server has approved it
    cache,   \* configCache: whether its route is approved, or Nothing
    kept,    \* solvedMap: the key and the answer, or Nothing
    solving,
    call,    \* the runs
    doubled, \* history: two runs have been past the flag at once
    occurred

page == <<image, busy>>
target == <<field, filled>>
site == <<human, route, server>>
memory == <<cache, kept, solving>>
vars == <<page, target, site, memory, call, doubled, occurred>>

Rest == [at |-> "idle", asks |-> FALSE, asked |-> FALSE, got |-> Nothing, image |-> Nothing]
At(c, place) == call[c].at = place
Goes(c, place) == call' = [call EXCEPT ![c].at = place]
Inside(c) == call[c].at \in {"reading", "asking", "delayed", "waiting", "typing"}
Happens == occurred < MaxEvents /\ occurred' = occurred + 1

Init == /\ image = 1 /\ field = Empty /\ filled = Nothing /\ busy = FALSE
        /\ human \in BOOLEAN /\ route \in BOOLEAN /\ server \in BOOLEAN
        /\ cache = Nothing /\ kept = Nothing /\ solving = FALSE
        /\ \E c \in Solve : call = [d \in Solve |-> IF d = c THEN [Rest EXCEPT !.at = "load"] ELSE Rest]
        /\ doubled = FALSE /\ occurred = 0
-----------------------------------------------------------------------------
(* A run up to the flag.                                                   *)

\* What is left of a run when it may not, or need not, solve.
Rests(c) == call' = [call EXCEPT ![c] = Rest]

\* solve(): past the flag, which is not tested again after an await.
Enter(c) == /\ solving' = TRUE
            /\ call' = [call EXCEPT ![c].at = "reading", ![c].asked = At(c, "status"), ![c].got = Nothing]
            /\ doubled' = (doubled \/ \E d \in Solve \ {c} : Inside(d))

\* solve() tests the flag, then the route, for whose status it may have to ask.
Try(c, approved) ==
    IF solving THEN Rests(c) /\ UNCHANGED <<solving, doubled>>
    ELSE IF approved THEN Enter(c)
    ELSE Goes(c, "status") /\ UNCHANGED <<solving, doubled>>

\* A scan solves only a route that is approved.
Proceed(c, approved) ==
    IF call[c].asks \/ approved THEN Try(c, approved)
    ELSE Rests(c) /\ UNCHANGED <<solving, doubled>>

\* The observer's timer, after any mutation; runs that end leave none behind.
Scan(c) ==
    /\ At(c, "idle") /\ Happens
    /\ IF cache = Nothing THEN Goes(c, "load") /\ UNCHANGED <<solving, doubled>>
                          ELSE Proceed(c, cache)
    /\ UNCHANGED <<page, target, site, cache, kept>>

Command(c) ==
    /\ At(c, "idle") /\ Happens
    /\ call' = [call EXCEPT ![c].at = "load", ![c].asks = TRUE]
    /\ UNCHANGED <<page, target, site, memory, doubled>>

\* loadConfig reads the stored route, then asks for the approved ones.
ReadRoute(c) ==
    /\ At(c, "load")
    /\ call' = [call EXCEPT ![c].at = "merge", ![c].got = route]
    /\ UNCHANGED <<page, target, site, memory, doubled, occurred>>

MergeRoutes(c) ==
    /\ At(c, "merge")
    /\ cache' = (call[c].got \/ server)
    /\ Proceed(c, cache')
    /\ UNCHANGED <<page, target, site, kept, occurred>>

\* refreshRouteStatus
StatusArrives(c) ==
    /\ At(c, "status")
    /\ IF server THEN Enter(c) ELSE Rests(c) /\ UNCHANGED <<solving, doubled>>
    /\ UNCHANGED <<page, target, site, cache, kept, occurred>>
-----------------------------------------------------------------------------
(* Past the flag: every way out clears it.                                 *)

Leave(c) == Rests(c) /\ solving' = FALSE

\* MUTANT of ReadImage: a command of the user always asks the server.
ReadImageAnew(c) ==
    /\ At(c, "reading")
    /\ IF kept = Nothing \/ kept.key # KeyOf[image] \/ call[c].asks
       THEN call' = [call EXCEPT ![c].at = "asking", ![c].image = image] /\ UNCHANGED solving
       ELSE IF field = kept.answer THEN Leave(c)
       ELSE call' = [call EXCEPT ![c].at = "delayed", ![c].image = kept.answer] /\ UNCHANGED solving
    /\ UNCHANGED <<page, target, site, cache, kept, doubled, occurred>>

\* The image is read when it is ready, at once or within two seconds.
ReadImage(c) ==
    /\ At(c, "reading")
    /\ IF kept = Nothing \/ kept.key # KeyOf[image]
       THEN call' = [call EXCEPT ![c].at = "asking", ![c].image = image] /\ UNCHANGED solving
       ELSE IF field = kept.answer THEN Leave(c)
       ELSE call' = [call EXCEPT ![c].at = "delayed", ![c].image = kept.answer] /\ UNCHANGED solving
    /\ UNCHANGED <<page, target, site, cache, kept, doubled, occurred>>

ServerSolves(c) ==
    /\ At(c, "asking")
    /\ kept' = [key |-> KeyOf[call[c].image], answer |-> call[c].image]
    /\ Goes(c, "delayed")
    /\ UNCHANGED <<page, target, site, cache, solving, doubled, occurred>>

\* MUTANT of SolveFails: a failure leaves the flag set.
SolveFailsStuck(c) ==
    /\ call[c].at \in {"reading", "asking"} /\ Happens
    /\ Rests(c)
    /\ UNCHANGED <<page, target, site, memory, doubled>>

\* The image is not ready, or the request fails.
SolveFails(c) ==
    /\ call[c].at \in {"reading", "asking"} /\ Happens
    /\ Leave(c)
    /\ UNCHANGED <<page, target, site, cache, kept, doubled>>

DelayPasses(c) ==
    /\ At(c, "delayed")
    /\ Goes(c, "waiting")
    /\ UNCHANGED <<page, target, site, memory, doubled, occurred>>

\* waitUntilSafeToFill
Manual(text) == field \notin {Empty, text, filled}

RefuseToFill(c) ==
    /\ At(c, "waiting") /\ Manual(call[c].image)
    /\ Leave(c)
    /\ UNCHANGED <<page, target, site, cache, kept, doubled, occurred>>

GivesUpWaiting(c) ==
    /\ At(c, "waiting") /\ busy
    /\ Leave(c)
    /\ UNCHANGED <<page, target, site, cache, kept, doubled, occurred>>

\* MUTANT of FillField: the field is not looked at after the wait.
FillFieldBlindly(c) ==
    /\ At(c, "waiting") /\ ~busy
    /\ \/ human /\ field' = Partial /\ Goes(c, "typing") /\ UNCHANGED <<filled, solving>>
       \/ /\ ~human \/ cache = Nothing
          /\ field' = call[c].image /\ filled' = field'
          /\ Leave(c)
    /\ UNCHANGED <<page, site, cache, kept, doubled, occurred>>

\* At once, or character by character as the configuration says: the present one here,
\* in the code that of the moment the fill was asked for, before the delay and the wait.
FillField(c) ==
    /\ At(c, "waiting") /\ ~Manual(call[c].image) /\ ~busy
    /\ \/ human /\ field' = Partial /\ Goes(c, "typing") /\ UNCHANGED <<filled, solving>>
       \/ /\ ~human \/ cache = Nothing
          /\ field' = call[c].image /\ filled' = field'
          /\ Leave(c)
    /\ UNCHANGED <<page, site, cache, kept, doubled, occurred>>

\* Every character rewrites the field with what has been typed so far.
FinishTyping(c) ==
    /\ At(c, "typing")
    /\ field' = call[c].image /\ filled' = field'
    /\ Leave(c)
    /\ UNCHANGED <<page, site, cache, kept, doubled, occurred>>
-----------------------------------------------------------------------------
(* Around the page.                                                        *)

\* CAPTCHA_CONFIG_UPDATED: a load starts, then a scan.
ConfigUpdated(c) ==
    /\ At(c, "idle") /\ Happens
    /\ route' \in BOOLEAN /\ human' \in BOOLEAN
    /\ cache' = Nothing /\ kept' = Nothing
    /\ Goes(c, "load")
    /\ UNCHANGED <<page, target, server, solving, doubled>>

\* A new image, which the observer sees; a page often empties the field.
NewImage ==
    /\ image < Images /\ Happens
    /\ image' = image + 1
    /\ field' \in {field, Empty}
    /\ UNCHANGED <<busy, filled, site, memory, call, doubled>>

UserActs ==
    /\ Happens
    /\ field' \in {field, User, Empty} /\ busy' \in BOOLEAN
    /\ UNCHANGED <<image, filled, site, memory, call, doubled>>

ServerApproves ==
    /\ ~server /\ Happens
    /\ server' = TRUE
    /\ UNCHANGED <<page, target, human, route, memory, call, doubled>>
-----------------------------------------------------------------------------
Continue(c) == \/ ReadRoute(c) \/ MergeRoutes(c) \/ StatusArrives(c)
               \/ ReadImage(c) \/ ServerSolves(c)
               \/ DelayPasses(c) \/ RefuseToFill(c) \/ GivesUpWaiting(c)
               \/ FillField(c) \/ FinishTyping(c)

Next == \/ \E c \in Solve : Continue(c) \/ SolveFails(c)
        \/ \E c \in Solve : Scan(c) \/ Command(c) \/ ConfigUpdated(c)
        \/ NewImage \/ UserActs \/ ServerApproves
-----------------------------------------------------------------------------
(* What must hold of the runs.                                             *)

FlagIsExact == solving <=> \E c \in Solve : Inside(c)
Typing == \E c \in Solve : At(c, "typing")
Buying(c) == At(c, "asking") /\ kept # Nothing /\ kept.key = KeyOf[call[c].image]
=============================================================================
