---------------------------- MODULE AutofillPage ----------------------------
(***************************************************************************)
(* Autofill in one document (content/autofill-engine.js).  Changes of the  *)
(* page set a timer whose runs are automatic; the user's commands force.   *)
(* A flag lets one run through at a time, and a run fills the steps of the *)
(* matching rules in order, waiting for each target.  Steps done at this   *)
(* address are not done again, unless forced.  The page may change its     *)
(* address without a load; a load is a new document and starts over.       *)
(* Modes and rule identifiers that no sender of AUTOFILL_EXECUTE_NOW uses, *)
(* and rules that may run more than once, are left out.                    *)
(***************************************************************************)
EXTENDS Naturals, Sequences, FiniteSets

CONSTANTS
    Address,      \* origin, path and query
    Rules,        \* the enabled rules of the profile, by falling priority
    Matches,      \* the addresses each rule matches
    Fields,       \* the fields each rule's steps fill, in order
    Flows,        \* the rules that run as flows, which stop at an error
    PlanLimit,    \* the number of matching rules the plan lets run
    Run,          \* runs of executeMatchingRules
    MaxRetries,   \* attempts at a step
    MaxChanges,   \* bound on what the page, the user and the settings do, and failures
    Blank, Auto, User, \* what a field holds
    Nowhere

VARIABLES
    address, visible, present, \* the document: address, tab shown, usable fields
    dom,       \* what each field holds
    on,        \* extension and autofill are switched on
    timer,     \* autoRunTimer
    running,   \* the flag
    pageKey,   \* the address the completed steps belong to
    completed, \* completedStepKeys: address, rule and step
    run,       \* the runs
    done,      \* history: steps done since the address changed, by runs begun since
    excused,   \* history: a run was refused by the flag, or something failed
    changes

document == <<address, visible, present, dom>>
engine == <<timer, running, pageKey, completed>>
history == <<done, excused>>
vars == <<document, on, engine, run, history, changes>>

Field == UNION {{Fields[r][i] : i \in DOMAIN Fields[r]} : r \in Rules}
Rest == [at |-> "idle", force |-> FALSE, left |-> <<>>, i |-> 1, tries |-> 0,
         key |-> Nowhere, fresh |-> FALSE]

At(c, place) == run[c].at = place
InProgress == \E c \in Run : ~At(c, "idle")
Happens == changes < MaxChanges /\ changes' = changes + 1

\* Matching rules by priority, and the first of them.
Matching(a) == {r \in Rules : a \in Matches[r]}
Ranked(S, i) == CHOOSE r \in S : Cardinality({q \in S : q < r}) = i - 1
Ordered(S) == [i \in 1 .. Cardinality(S) |-> Ranked(S, i)]
Allowed(s) == SubSeq(s, 1, IF Len(s) < PlanLimit THEN Len(s) ELSE PlanLimit)

\* startAutomaticAutofill: the load sets the timer.
Init == /\ address \in Address /\ visible \in BOOLEAN
        /\ present \in {{}, Field} /\ dom = [f \in Field |-> Blank]
        /\ on = TRUE /\ timer = TRUE /\ running = FALSE
        /\ pageKey = Nowhere /\ completed = {}
        /\ run = [c \in Run |-> Rest]
        /\ done = {} /\ excused = FALSE /\ changes = 0
-----------------------------------------------------------------------------
(* Runs begin.                                                             *)

\* MUTANT of Enter: every run forgets the steps that are done.
EnterForgetting(c, force) ==
    /\ ~running /\ At(c, "idle")
    /\ running' = TRUE
    /\ pageKey' = address /\ completed' = {}
    /\ run' = [run EXCEPT ![c] = [Rest EXCEPT !.at = "load", !.force = force, !.fresh = TRUE]]

\* executeMatchingRules: flag, then resetPageStateIfNeeded.
Enter(c, force) ==
    /\ ~running /\ At(c, "idle")
    /\ running' = TRUE
    /\ pageKey' = address
    /\ completed' = IF pageKey = address THEN completed ELSE {}
    /\ run' = [run EXCEPT ![c] = [Rest EXCEPT !.at = "load", !.force = force, !.fresh = TRUE]]

\* A hidden tab waits to be shown; a run in progress makes the timer's one fail.
TimerFires(c) ==
    /\ timer /\ timer' = FALSE
    /\ IF visible /\ ~running
       THEN Enter(c, FALSE) /\ UNCHANGED excused
       ELSE excused' = (excused \/ InProgress) /\ UNCHANGED <<running, pageKey, completed, run>>
    /\ UNCHANGED <<document, on, done, changes>>

Command(c) ==
    /\ on /\ Happens
    /\ Enter(c, TRUE)
    /\ UNCHANGED <<document, on, timer, history>>
-----------------------------------------------------------------------------
(* Runs end: finally.                                                      *)

Exit(c) == run' = [run EXCEPT ![c] = Rest] /\ running' = FALSE

\* MUTANT of LoadState: the early return leaves the flag set.
LoadStateStuck(c) ==
    /\ At(c, "load")
    /\ IF on THEN run' = [run EXCEPT ![c].at = "limits", ![c].left = Ordered(Matching(address))]
       ELSE run' = [run EXCEPT ![c] = Rest]
    /\ UNCHANGED <<document, on, engine, history, changes>>

\* The rules are matched with the address the page has by now.
LoadState(c) ==
    /\ At(c, "load")
    /\ IF on THEN run' = [run EXCEPT ![c].at = "limits", ![c].left = Ordered(Matching(address))]
                  /\ UNCHANGED running
       ELSE Exit(c)
    /\ UNCHANGED <<document, on, timer, pageKey, completed, history, changes>>

LoadFails(c) ==
    /\ At(c, "load") /\ Happens
    /\ Exit(c)
    /\ excused' = TRUE
    /\ UNCHANGED <<document, on, timer, pageKey, completed, done>>

\* Limits that cannot be had are none.
LoadRuntimeLimits(c) ==
    /\ At(c, "limits")
    /\ \/ /\ Allowed(run[c].left) # <<>>
          /\ run' = [run EXCEPT ![c].at = "step", ![c].left = Allowed(run[c].left)]
          /\ UNCHANGED <<running, changes>>
       \/ /\ run[c].left # <<>> /\ Happens
          /\ run' = [run EXCEPT ![c].at = "step"]
          /\ UNCHANGED running
       \/ Allowed(run[c].left) = <<>> /\ Exit(c) /\ UNCHANGED changes
    /\ UNCHANGED <<document, on, timer, pageKey, completed, history>>
-----------------------------------------------------------------------------
(* A step: its key is made, its target awaited, the action performed.      *)

Rule(c) == Head(run[c].left)
FieldOf(c) == Fields[Rule(c)][run[c].i]

\* After a step that stops its rule or not: next step, next rule, or the end.
Advance(c, stops) ==
    LET more == ~stops /\ run[c].i < Len(Fields[Rule(c)])
    IN IF more
       THEN /\ run' = [run EXCEPT ![c].at = "step", ![c].i = @ + 1, ![c].tries = 0, ![c].key = Nowhere]
            /\ UNCHANGED running
       ELSE IF Len(run[c].left) > 1
       THEN /\ run' = [run EXCEPT ![c].at = "step", ![c].left = Tail(@), ![c].i = 1,
                                  ![c].tries = 0, ![c].key = Nowhere]
            /\ UNCHANGED running
       ELSE Exit(c)

\* A failed attempt is repeated, from the key on, MaxRetries times in all.
Attempted(c) ==
    IF run[c].tries + 1 < MaxRetries
    THEN run' = [run EXCEPT ![c].at = "step", ![c].tries = @ + 1, ![c].key = Nowhere] /\ UNCHANGED running
    ELSE Advance(c, Rule(c) \in Flows)

\* The page may refuse the value: a step that was required is attempted again.
Perform(c, key) ==
    \/ /\ dom' = [dom EXCEPT ![FieldOf(c)] = Auto]
       /\ completed' = completed \cup {key}
       /\ done' = IF run[c].fresh THEN done \cup {<<key[2], key[3]>>} ELSE done
       /\ Advance(c, FALSE)
       /\ UNCHANGED <<excused, changes>>
    \/ /\ Happens
       /\ dom' \in {[dom EXCEPT ![FieldOf(c)] = v] : v \in {Auto, Blank}}
       /\ excused' = TRUE
       /\ Attempted(c) \/ Advance(c, FALSE)
       /\ UNCHANGED <<completed, done>>

Key(c) == <<address, Rule(c), run[c].i>>

ExecuteStep(c) ==
    /\ At(c, "step")
    /\ IF ~run[c].force /\ Key(c) \in completed
       THEN Advance(c, FALSE) /\ UNCHANGED <<dom, completed, history, changes>>
       ELSE IF FieldOf(c) \in present THEN Perform(c, Key(c))
       ELSE /\ run' = [run EXCEPT ![c].at = "target", ![c].key = Key(c)]
            /\ UNCHANGED <<dom, running, completed, history, changes>>
    /\ UNCHANGED <<address, visible, present, on, timer, pageKey>>

TargetAppears(c) ==
    /\ At(c, "target") /\ FieldOf(c) \in present
    /\ Perform(c, run[c].key)
    /\ UNCHANGED <<address, visible, present, on, timer, pageKey>>

\* Only a flow the user started fails for want of a target.
TargetMissing(c) ==
    /\ At(c, "target") /\ FieldOf(c) \notin present
    /\ IF run[c].force /\ Rule(c) \in Flows THEN Attempted(c) ELSE Advance(c, FALSE)
    /\ excused' = (excused \/ (run[c].force /\ Rule(c) \in Flows))
    /\ UNCHANGED <<document, on, timer, pageKey, completed, done, changes>>
-----------------------------------------------------------------------------
(* Around the engine.                                                      *)

\* Mutations, popstate and the tab being shown set the timer.
Appear(f) ==
    /\ f \notin present /\ Happens
    /\ present' = present \cup {f} /\ timer' = TRUE
    /\ UNCHANGED <<address, visible, dom, on, running, pageKey, completed, run, history>>

UserEdits(f) ==
    /\ f \in present /\ dom[f] # User /\ Happens
    /\ dom' = [dom EXCEPT ![f] = User]
    /\ UNCHANGED <<address, visible, present, on, engine, run, history>>

\* The page's own pushState is seen only by what it changes in the document.
Navigate(a) ==
    /\ a # address /\ Happens
    /\ address' = a /\ dom' = [f \in Field |-> Blank]
    /\ present' \in {{}, Field} /\ timer' \in {timer, TRUE}
    /\ done' = {} /\ run' = [c \in Run |-> [run[c] EXCEPT !.fresh = FALSE]]
    /\ UNCHANGED <<visible, on, running, pageKey, completed, excused>>

ShowOrHide ==
    /\ Happens
    /\ visible' = ~visible /\ timer' = (timer \/ visible')
    /\ UNCHANGED <<address, present, dom, on, running, pageKey, completed, run, history>>

Switch ==
    /\ Happens
    /\ on' = ~on
    /\ UNCHANGED <<document, engine, run, history>>
-----------------------------------------------------------------------------
Continue(c) == \/ LoadState(c) \/ LoadRuntimeLimits(c)
               \/ ExecuteStep(c) \/ TargetAppears(c) \/ TargetMissing(c)

Next == \/ \E c \in Run : Continue(c) \/ TimerFires(c)
        \/ \E c \in Run : LoadFails(c) \/ Command(c)
        \/ \E f \in Field : Appear(f) \/ UserEdits(f)
        \/ \E a \in Address : Navigate(a)
        \/ ShowOrHide \/ Switch
-----------------------------------------------------------------------------
(* What the runs do to what the user has written, and what must not last.  *)

Writes(c, f) == run[c].at \in {"step", "target"} /\ FieldOf(c) = f /\ run'[c] # run[c]
Overwrites(f) == dom[f] = User /\ dom'[f] \in {Auto, Blank} /\ address' = address
MayOverwrite(c) == run[c].force \/ <<Rule(c), run[c].i>> \notin done

\* A blank field of an allowed rule, in the tab the user looks at.
Fillable(f, a) ==
    /\ address = a /\ visible /\ on /\ f \in present /\ dom[f] = Blank
    /\ \E k \in DOMAIN Allowed(Ordered(Matching(a))) :
          LET r == Allowed(Ordered(Matching(a)))[k]
          IN \E i \in DOMAIN Fields[r] : Fields[r][i] = f /\ <<a, r, i>> \notin completed
\* The addresses of some rule.
Matched == {a \in Address : Matching(a) # {}}
Unfilled(f, a) == Fillable(f, a) /\ ~excused
=============================================================================
