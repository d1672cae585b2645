---------------------------- MODULE ExtensionTabs ----------------------------
(***************************************************************************)
(* What runs in the tabs: in a page its captcha (CaptchaPage), the recorder*)
(* (Recorder) and autofill (AutofillPage), and the extension's own pages   *)
(* (ExtensionPages).  They share the storage, whose promise is             *)
(* DurableRegisters, and no other variable; what one does to another (a    *)
(* route saved, a rule recorded, a field filled, a switch) is an event of  *)
(* the other's module.  So a behaviour here is one of one part, the others *)
(* absent.                                                                 *)
(***************************************************************************)
EXTENDS Naturals, Sequences, FiniteSets

CONSTANTS
    None,                                                          \* absent
    Solve, Images, KeyOf, MaxCaptchaEvents, Empty, User, Partial,  \* of CaptchaPage
    Target, Button, Save, MaxSteps, MaxActs,                       \* of Recorder
    Address, Rules, Matches, Fields, Flows, PlanLimit, Run,
    MaxRetries, MaxChanges, Blank, ByRule,                         \* of AutofillPage
    Page, Profile, Global, Item, KindOf, Others, MaxEdits          \* of ExtensionPages

ASSUME Clicks == Button \in Target

Steps == Seq([n : Nat, target : Target])

\* Different things have different names.
ASSUME Names ==
    /\ Page \cap Others = {} /\ None \notin Others /\ None \notin 1 .. Images
    /\ {KindOf[i] : i \in Item} \cap {"profiles", "settings"} = {}
    /\ User \notin {None, Empty, Partial, Blank, ByRule} \cup 1 .. Images
    /\ None \notin [id : Nat, steps : Steps, paused : BOOLEAN]
    /\ None \notin [at : {"idle", "sent", "read", "kept", "failed"}, id : Nat, steps : Steps,
                    saw : {None} \cup [1 .. MaxActs + 1 -> Steps], heard : BOOLEAN]

ASSUME Bounds == /\ IsFiniteSet(Rules) /\ Images \in Nat \ {0}
                 /\ MaxSteps \in Nat /\ MaxActs \in Nat /\ PlanLimit \in Nat

VARIABLES
    part,
    image, field, filled, busy, human, route, server, cache, kept, solving, call,
    doubled, occurred,
    session, stored, recording, paused, panel, hiding, saves, rules, captured, excused, acts,
    address, visible, present, dom, on, timer, running, pageKey, completed, run, done,
    forgiven, changes,
    store, copy, behind, other, cloud, asked, crossed, refused, orphaned, edits

captchaVars == <<image, field, filled, busy, human, route, server, cache, kept, solving,
                 call, doubled, occurred>>
recorderVars == <<session, stored, recording, paused, panel, hiding, saves, rules,
                  captured, excused, acts>>
autofillVars == <<address, visible, present, dom, on, timer, running, pageKey, completed,
                  run, done, forgiven, changes>>
pagesVars == <<store, copy, behind, other, cloud, asked, crossed, refused, orphaned, edits>>
vars == <<part, captchaVars, recorderVars, autofillVars, pagesVars>>

K == INSTANCE CaptchaPage WITH MaxEvents <- MaxCaptchaEvents, Nothing <- None
R == INSTANCE Recorder WITH Nobody <- None
F == INSTANCE AutofillPage WITH Nowhere <- None, Auto <- ByRule, excused <- forgiven
P == INSTANCE ExtensionPages

NoCaptcha == /\ image = None /\ field = None /\ filled = None /\ busy = None
             /\ human = None /\ route = None /\ server = None /\ cache = None
             /\ kept = None /\ solving = None /\ call = None
             /\ doubled = None /\ occurred = None

NoRecording == /\ session = None /\ stored = None /\ recording = None /\ paused = None
               /\ panel = None /\ hiding = None /\ saves = None /\ rules = None
               /\ captured = None /\ excused = None /\ acts = None

NoAutofill == /\ address = None /\ visible = None /\ present = None /\ dom = None
              /\ on = None /\ timer = None /\ running = None /\ pageKey = None
              /\ completed = None /\ run = None /\ done = None
              /\ forgiven = None /\ changes = None

NoPages == /\ store = None /\ copy = None /\ behind = None /\ other = None
           /\ cloud = None /\ asked = None /\ crossed = None /\ refused = None
           /\ orphaned = None /\ edits = None

Init == \/ part = "captcha" /\ K!Init /\ NoRecording /\ NoAutofill /\ NoPages
        \/ part = "recorder" /\ R!Init /\ NoCaptcha /\ NoAutofill /\ NoPages
        \/ part = "autofill" /\ F!Init /\ NoCaptcha /\ NoRecording /\ NoPages
        \/ part = "pages" /\ P!Init /\ NoCaptcha /\ NoRecording /\ NoAutofill

CaptchaStep == /\ part = "captcha" /\ K!Next
               /\ UNCHANGED <<part, recorderVars, autofillVars, pagesVars>>
RecorderStep == /\ part = "recorder" /\ R!Next
                /\ UNCHANGED <<part, captchaVars, autofillVars, pagesVars>>
AutofillStep == /\ part = "autofill" /\ F!Next
                /\ UNCHANGED <<part, captchaVars, recorderVars, pagesVars>>
PagesStep == /\ part = "pages" /\ P!Next
             /\ UNCHANGED <<part, captchaVars, recorderVars, autofillVars>>

Next == CaptchaStep \/ RecorderStep \/ AutofillStep \/ PagesStep

\* In a page promises settle and timers fire.
Fairness ==
    /\ \A c \in Run : WF_autofillVars(part = "autofill" /\ F!Continue(c))
    /\ WF_autofillVars(part = "autofill" /\ \E c \in Run : F!TimerFires(c))

Spec == Init /\ [][Next]_vars /\ Fairness
-----------------------------------------------------------------------------
(* One solve at a time: two runs are past the flag at once only when one   *)
(* of them has asked for the route's status in between; until then the     *)
(* flag is set exactly while there is a run, whichever way it ends.        *)
OneSolveAtATime ==
    [][part = "captcha" =>
          /\ ~doubled /\ doubled' => \E c \in Solve : K!Inside(c)' /\ call'[c].asked
          /\ ~doubled' => K!FlagIsExact']_vars

(* While the answer to an image is kept, the image is not sent again: no   *)
(* credit is spent on what scans and commands find answered.               *)
AnswersAreNotBoughtTwice ==
    part = "captcha" => doubled \/ ~\E c \in Solve : K!Buying(c)

(* What the user writes in the field stays: after all the waiting it is    *)
(* looked at once more, and only characters already being typed for a run  *)
(* go over it.                                                             *)
ManualInputStays ==
    [][part = "captcha" /\ field = User /\ field' \notin {User, Empty} => K!Typing]_vars

(* A captured step is in the session, on its way to the rules, or in them, *)
(* across saves that fail and pages left while recording.  What can be lost*)
(* is what the user dropped, what was captured or saved while a save was in*)
(* flight, and the session of a page left for one that does not find it:   *)
(* when its recording was stopped, or the next page is of another origin or*)
(* has no storage.                                                         *)
NoStepVanishes == part = "recorder" => 1 .. captured.steps \subseteq R!Kept \cup excused

(* An automatic run writes over what the user has written only for a step  *)
(* that no run begun at the document's address has done since it came to   *)
(* it.  What a run begun at an earlier address does here is not remembered:*)
(* the next run forgets it, and fills again over an edit made after it.    *)
EditsSurviveAutomaticRuns ==
    [][part = "autofill" =>
          \A f \in F!Field :
              F!Overwrites(f) => \E c \in Run : F!Writes(c, f) /\ F!MayOverwrite(c)]_vars

(* A change of the page gets its fields filled: while the timer is set, a  *)
(* blank field of an allowed rule is filled, unless the tab is hidden, the *)
(* address or the switch changes, a run in progress swallowed the timer,   *)
(* or something failed.  A field whose step is remembered as done is not   *)
(* filled again, such as one of an address left and come back to with no   *)
(* run in between.                                                         *)
ChangesAreFilled ==
    \A f \in F!Field, a \in F!Matched :
        (part = "autofill" /\ timer /\ F!Unfilled(f, a))
            ~> ~(part = "autofill" /\ F!Unfilled(f, a))

(* An item leaves the storage because a page was told to delete it or a    *)
(* pull replaced everything; otherwise only when a writer of its key was   *)
(* behind: a rule recorded while an options page is open goes with the     *)
(* next edit of a rule there.                                              *)
ItemsLeaveOnPurpose ==
    [][part = "pages" => \A i \in Item : P!Leaves(i) => crossed' \/ P!Meant(i)]_vars

(* Deleting a profile takes it from every item, whatever its kind: no item *)
(* in the storage is of a profile that is gone, unless a writer was behind *)
(* or the storage refused an edit of which later ones write a part.        *)
ItemsHaveProfiles ==
    part = "pages" => crossed \/ refused \/ P!ItemsAreOf(P!Existing)

(* The profile the settings name, whose items run in the pages, exists:    *)
(* unless it was deleted while active, when the settings keep it and the   *)
(* options page shows Global, or as above.                                 *)
ActiveProfileExists ==
    part = "pages" => orphaned \/ crossed \/ refused \/ store.active \in P!Existing
=============================================================================
