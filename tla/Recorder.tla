------------------------------ MODULE Recorder ------------------------------
(***************************************************************************)
(* Recording a rule in one tab (content/recorder-engine.js, the buttons of *)
(* recorder-panel.js and RECORDER_SAVE_RULE of messaging-hub.js).  The     *)
(* session lives in the page and, at every change, in sessionStorage,      *)
(* where the next page of the tab finds it while it is active.  Saving is  *)
(* a message; capturing goes on until its answer comes, and every captured *)
(* step redraws the panel with fresh, enabled buttons.                     *)
(***************************************************************************)
EXTENDS Naturals, Sequences

CONSTANTS
    Target,    \* elements of the page
    Button,    \* the one whose steps are clicks
    Save,      \* RECORDER_SAVE_RULE messages
    MaxSteps,  \* bound on captured steps
    MaxActs,   \* bound on what the user does besides, and failed saves
    Nobody     \* no session

VARIABLES
    session,   \* id, steps, paused; Nobody
    stored,    \* sessionStorage: such a session while active, or Nobody
    recording, paused,
    panel,     \* whether it is shown, and its session part and header enabled
    hiding,    \* finishTimer
    saves,     \* the messages: what they carry, what the worker has read
    rules,     \* fp_rules: the steps saved for each session
    captured,  \* steps captured, sessions begun
    excused,   \* history: steps dropped, handled while a save was on, or left with their page
    acts

tab == <<session, stored, recording, paused, panel, hiding>>
vars == <<tab, saves, rules, captured, excused, acts>>

Sessions == 1 .. MaxActs + 1
StepsOf(s) == IF s = Nobody THEN {} ELSE {s.steps[i].n : i \in DOMAIN s.steps}
Unsent == [at |-> "idle", id |-> 0, steps |-> <<>>, saw |-> Nobody, heard |-> FALSE]
InFlight(m) == saves[m].at # "idle"
Saving == \E m \in Save : InFlight(m)
Happens == acts < MaxActs /\ acts' = acts + 1
Hidden == [shown |-> FALSE, body |-> FALSE, head |-> FALSE]
Disabled(p) == [p EXCEPT !.body = FALSE, !.head = FALSE]
Enabled(p) == [p EXCEPT !.body = TRUE, !.head = TRUE]
CanEdit == panel.shown /\ panel.body /\ session # Nobody

Init == /\ session = Nobody /\ stored = Nobody /\ recording = FALSE /\ paused = FALSE
        /\ panel = Hidden /\ hiding = FALSE
        /\ saves = [m \in Save |-> Unsent]
        /\ rules = [s \in Sessions |-> <<>>]
        /\ captured = [steps |-> 0, sessions |-> 0]
        /\ excused = {} /\ acts = 0
-----------------------------------------------------------------------------
(* The session.                                                            *)

\* persistSession: a session that is not active is none for the next page.
Persist(s) == session' = s /\ stored' = IF recording THEN s ELSE Nobody

\* render: the session part of the panel is drawn anew, and so enabled.
Render(s) == /\ Persist(s)
             /\ panel' = [panel EXCEPT !.body = TRUE]

\* A field's step takes the place of the last one when that is of the field too.
Capture(t) ==
    /\ recording /\ ~paused /\ captured.steps < MaxSteps
    /\ captured' = [captured EXCEPT !.steps = @ + 1]
    /\ LET steps == session.steps
           step == [n |-> captured'.steps, target |-> t]
           again == t # Button /\ steps # <<>> /\ steps[Len(steps)].target = t
       IN /\ Render([session EXCEPT !.steps =
                        IF again THEN [steps EXCEPT ![Len(steps)] = step] ELSE Append(steps, step)])
          /\ excused' = excused \cup (IF again THEN {steps[Len(steps)].n} ELSE {})
                                \cup (IF Saving THEN {step.n} ELSE {})
    /\ UNCHANGED <<recording, paused, hiding, saves, rules, acts>>

RemoveStep(i) ==
    /\ CanEdit /\ i \in DOMAIN session.steps /\ Happens
    /\ excused' = excused \cup {session.steps[i].n}
    /\ Render([session EXCEPT !.steps = SubSeq(@, 1, i - 1) \o SubSeq(@, i + 1, Len(@))])
    /\ UNCHANGED <<recording, paused, hiding, saves, rules, captured>>

ClearSteps ==
    /\ CanEdit /\ Happens
    /\ excused' = excused \cup StepsOf(session)
    /\ Render([session EXCEPT !.steps = <<>>])
    /\ UNCHANGED <<recording, paused, hiding, saves, rules, captured>>

Pause ==
    /\ CanEdit /\ Happens
    /\ paused' = ~paused
    /\ Persist([session EXCEPT !.paused = ~paused])
    /\ UNCHANGED <<recording, panel, hiding, saves, rules, captured, excused>>
-----------------------------------------------------------------------------
(* The ways a recording ends, and begins.                                  *)

\* finish(clear): the panel stays, disabled, until the timer hides it.
Finish(clear) ==
    /\ recording' = FALSE /\ paused' = FALSE /\ stored' = Nobody
    /\ session' = IF clear \/ session = Nobody THEN Nobody ELSE [session EXCEPT !.paused = FALSE]
    /\ panel' = Disabled(panel) /\ hiding' = TRUE

Discard ==
    /\ panel.shown /\ panel.head /\ Happens
    /\ excused' = excused \cup StepsOf(session)
    /\ Finish(TRUE)
    /\ UNCHANGED <<saves, rules, captured>>

\* TOGGLE_RECORD, from the popup, while recording or told to stop.
Stop ==
    /\ Happens
    /\ Finish(FALSE)
    /\ UNCHANGED <<saves, rules, captured, excused>>

HideTimer ==
    /\ hiding /\ hiding' = FALSE
    /\ panel' = Hidden
    /\ UNCHANGED <<session, stored, recording, paused, saves, rules, captured, excused, acts>>

Resume(s) == /\ session' = s /\ stored' = s /\ recording' = TRUE /\ paused' = s.paused
             /\ panel' = [shown |-> TRUE, body |-> TRUE, head |-> TRUE] /\ hiding' = FALSE

Start ==
    /\ Happens
    /\ LET kept == IF stored # Nobody THEN stored ELSE session
           new == [id |-> captured.sessions + 1, steps |-> <<>>, paused |-> FALSE]
       IN /\ Resume(IF kept # Nobody THEN kept ELSE new)
          /\ captured' = [captured EXCEPT !.sessions = IF kept # Nobody THEN @ ELSE @ + 1]
    /\ UNCHANGED <<saves, rules, excused>>

\* Another page of the tab: answers to the page before it are lost.
NextPage ==
    /\ Happens
    /\ saves' = [m \in Save |-> [saves[m] EXCEPT !.heard = FALSE]]
    /\ UNCHANGED <<rules, captured>>

\* It finds the session while that is active.
Navigate ==
    /\ NextPage
    /\ stored # Nobody /\ Resume(stored)
    /\ UNCHANGED excused

\* It finds none: the recording was stopped, the page is of another origin, or its
\* storage is disabled.
LeaveRecording ==
    /\ NextPage
    /\ session' = Nobody /\ stored' = Nobody /\ recording' = FALSE /\ paused' = FALSE
    /\ panel' = Hidden /\ hiding' = FALSE
    /\ excused' = excused \cup StepsOf(session)
-----------------------------------------------------------------------------
(* Saving.                                                                 *)

SaveRule(m) ==
    /\ CanEdit /\ session.steps # <<>> /\ ~InFlight(m) /\ Happens
    /\ excused' = excused \cup (IF Saving THEN StepsOf(session) \cup UNION {StepsOf(saves[o]) : o \in Save} ELSE {})
    /\ saves' = [saves EXCEPT ![m] = [Unsent EXCEPT !.at = "sent", !.id = session.id,
                                                    !.steps = session.steps, !.heard = TRUE]]
    /\ Persist(session) /\ panel' = Disabled(panel)
    /\ UNCHANGED <<recording, paused, hiding, rules, captured>>

\* The worker reads the rules, then the settings, and writes all rules.
ReadRules(m) ==
    /\ saves[m].at = "sent"
    /\ saves' = [saves EXCEPT ![m].at = "read", ![m].saw = rules]
    /\ UNCHANGED <<tab, rules, captured, excused, acts>>

WriteRules(m) ==
    /\ saves[m].at = "read"
    /\ rules' = [saves[m].saw EXCEPT ![saves[m].id] = saves[m].steps]
    /\ saves' = [saves EXCEPT ![m].at = "kept", ![m].saw = Nobody]
    /\ UNCHANGED <<tab, captured, excused, acts>>

SaveFails(m) ==
    /\ saves[m].at \in {"sent", "read"} /\ Happens
    /\ saves' = [saves EXCEPT ![m].at = "failed", ![m].saw = Nobody]
    /\ UNCHANGED <<tab, rules, captured, excused>>

\* MUTANT of Answer: a failed save ends the session too.
AnswerEndsAnyway(m) ==
    /\ saves[m].at \in {"kept", "failed"}
    /\ saves' = [saves EXCEPT ![m] = Unsent]
    /\ IF saves[m].heard THEN Finish(TRUE) ELSE UNCHANGED tab
    /\ UNCHANGED <<rules, captured, excused, acts>>

\* The answer ends whatever session the page has by then.
Answer(m) ==
    /\ saves[m].at \in {"kept", "failed"}
    /\ saves' = [saves EXCEPT ![m] = Unsent]
    /\ IF ~saves[m].heard THEN UNCHANGED tab
       ELSE IF saves[m].at = "kept" THEN Finish(TRUE)
       ELSE panel' = Enabled(panel) /\ UNCHANGED <<session, stored, recording, paused, hiding>>
    /\ UNCHANGED <<rules, captured, excused, acts>>
-----------------------------------------------------------------------------
Editing == \/ \E t \in Target : Capture(t)
           \/ \E i \in 1 .. MaxSteps : RemoveStep(i)
           \/ ClearSteps \/ Pause
Ending == Discard \/ Stop \/ HideTimer \/ Start \/ Navigate \/ LeaveRecording
Sending(m) == SaveRule(m) \/ ReadRules(m) \/ WriteRules(m) \/ SaveFails(m) \/ Answer(m)

Next == Editing \/ Ending \/ \E m \in Save : Sending(m)
-----------------------------------------------------------------------------
(* Where a captured step can be found.                                     *)

Kept == StepsOf(session) \cup StepsOf(stored)
        \cup (UNION {StepsOf(saves[m]) : m \in Save})
        \cup (UNION {{rules[s][i].n : i \in DOMAIN rules[s]} : s \in Sessions})
=============================================================================
