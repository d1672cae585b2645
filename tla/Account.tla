------------------------------ MODULE Account -------------------------------
(***************************************************************************)
(* The signed-in account as the extension's service worker sees it         *)
(* (background/auth-manager.js, credit-manager.js, captcha-handler.js,     *)
(* api-client.js, and the start of service-worker.js).  Handlers run       *)
(* concurrently: each keeps what it read before an await and writes whole  *)
(* records after it.  The records are the registers of DurableRegisters;   *)
(* the server is modelled by what it answers.                              *)
(***************************************************************************)
EXTENDS Naturals

CONSTANTS
    Handler,    \* runs of the worker's handlers
    Own,        \* the worker's: its start, then the periodic refresh
    MaxSignIns, \* bound on sessions the server opens
    MaxEvents,  \* bound on what happens besides: what the user starts, requests that
                \* fail, stops of the worker, ends of sessions, new cycles
    None        \* no record

VARIABLES
    auth,     \* fp_auth: the session and whether its plan allows sync
    settings, \* fp_settings
    credits,  \* fp_credits: captcha credits left, and whether a price is known
    live,     \* sessions the server accepts
    opened,   \* sessions it has opened
    plan,     \* whether the user's plan has cloud sync
    balance,  \* captcha credits the server still grants in this cycle
    run,      \* the handlers in progress and what each has read
    events

records == <<auth, settings, credits>>
server == <<live, opened, plan, balance>>
vars == <<records, server, run, events>>

Session == 1 .. MaxSignIns
Kinds == {"boot", "refresh", "verify", "logout", "solve", "record", "balance", "power", "sync"}
Idle == [kind |-> "none", at |-> "idle", saw |-> None, token |-> 0, tried |-> FALSE,
         answer |-> None, sets |-> None, creds |-> None]

Full == 1  \* captcha credits of a cycle: the least that can run out
Authenticated(a) == a # None
HasCredit(c) == c = None \/ ~c.priced \/ c.left > 0

At(h, place) == run[h].at = place
Of(h, kinds) == run[h].kind \in kinds
Refreshing == {"boot", "refresh"}
Retrying == {"solve", "balance"}   \* requests the client repeats once

\* What follows the account's refresh in a start of the worker is not here.
Ends(h) == run' = [run EXCEPT ![h] = Idle]
Goes(h, place) == run' = [run EXCEPT ![h].at = place]

\* A first installation, or a browser started while signed in.
Init ==
    /\ plan \in BOOLEAN /\ balance = Full /\ opened = 1 /\ live = {1}
    /\ \/ /\ auth = None /\ credits = None
          /\ settings = [sync |-> FALSE, whole |-> FALSE]
       \/ /\ auth = [session |-> 1, plan |-> plan]
          /\ credits = [left |-> Full, priced |-> TRUE]
          /\ settings = [sync |-> plan, whole |-> TRUE]
    /\ run = [h \in Handler |-> IF h = Own THEN [Idle EXCEPT !.kind = "boot", !.at = "defaults"]
                                           ELSE Idle]
    /\ events = 0
-----------------------------------------------------------------------------
(* Starts.                                                                 *)

FirstStep(kind) == CASE kind = "refresh" -> "read"
                     [] kind \in {"verify", "logout", "balance"} -> "send"
                     [] kind = "solve" -> "check"
                     [] kind = "record" -> "recall"
                     [] kind \in {"power", "sync"} -> "fetch"

Happens == events < MaxEvents /\ events' = events + 1
Starts(h, kind, place) == run' = [run EXCEPT ![h] = [Idle EXCEPT !.kind = kind, !.at = place]]

Start(h, kind) ==
    /\ h # Own /\ At(h, "idle")
    /\ kind = "sync" => auth # None /\ auth.plan /\ ~settings.sync
    /\ Happens
    /\ Starts(h, kind, FirstStep(kind))
    /\ UNCHANGED <<records, server>>

AlarmRings == /\ At(Own, "idle")
              /\ Starts(Own, "refresh", "read")
              /\ UNCHANGED <<records, server, events>>
-----------------------------------------------------------------------------
(* ensureDefaults reads, reads again, and writes what it made of the first *)
(* reading; only the credits are compared with the second.                 *)

ReadDefaults(h) ==
    /\ At(h, "defaults")
    /\ run' = [run EXCEPT ![h] = IF settings.whole /\ credits # None THEN [@ EXCEPT !.at = "read"]
                                 ELSE [@ EXCEPT !.at = "recheck", !.sets = settings, !.creds = credits]]
    /\ UNCHANGED <<records, server, events>>

RecheckDefaults(h) ==
    /\ At(h, "recheck")
    /\ run' = [run EXCEPT ![h].at = "complete",
                          ![h].creds = IF run[h].creds = None THEN credits ELSE run[h].creds]
    /\ UNCHANGED <<records, server, events>>

WriteDefaults(h) ==
    /\ At(h, "complete")
    /\ settings' = IF run[h].sets.whole THEN settings ELSE [run[h].sets EXCEPT !.whole = TRUE]
    /\ credits' = IF run[h].creds = None THEN [left |-> Full, priced |-> FALSE] ELSE credits
    /\ Starts(h, "boot", "read")
    /\ UNCHANGED <<auth, server, events>>
-----------------------------------------------------------------------------
(* Requests.  The client reads the session when it sends, not when the     *)
(* handler began.                                                          *)

ReadAuth(h) ==
    /\ At(h, "read")
    /\ run' = [run EXCEPT ![h] = IF auth = None THEN Idle
                                 ELSE [@ EXCEPT !.at = "send", !.saw = auth]]
    /\ UNCHANGED <<records, server, events>>

Send(h) ==
    /\ At(h, "send")
    /\ run' = [run EXCEPT ![h].at = "wait",
                          ![h].token = IF auth = None THEN 0 ELSE auth.session]
    /\ UNCHANGED <<records, server, events>>

Accepted(h) == run[h].token \in live
Answers(h, a) == run' = [run EXCEPT ![h].at = "answered", ![h].answer = a, ![h].token = 0]
Rejection == [ok |-> FALSE, session |-> 0, plan |-> FALSE, left |-> 0]
Snapshot(s) == [ok |-> TRUE, session |-> s, plan |-> plan, left |-> balance]

\* A new session replaces the device's earlier ones.
ServerVerifies(h) ==
    /\ At(h, "wait") /\ Of(h, {"verify"}) /\ opened < MaxSignIns
    /\ opened' = opened + 1 /\ live' = {opened'}
    /\ Answers(h, Snapshot(opened'))
    /\ UNCHANGED <<records, plan, balance, events>>

ServerReports(h) ==
    /\ At(h, "wait") /\ Of(h, Refreshing \cup {"balance"}) /\ Accepted(h)
    /\ Answers(h, Snapshot(run[h].token))
    /\ UNCHANGED <<records, server, events>>

ServerSolves(h) ==
    /\ At(h, "wait") /\ Of(h, {"solve"}) /\ Accepted(h) /\ balance > 0
    /\ balance' = balance - 1
    /\ Answers(h, [ok |-> TRUE, session |-> run[h].token, plan |-> plan, left |-> balance'])
    /\ UNCHANGED <<records, live, opened, plan, events>>

\* 401 or 403 without a live session, 429 without credits, 400 for a wrong code.
ServerRejects(h) ==
    /\ At(h, "wait")
    /\ \/ Of(h, Refreshing \cup Retrying) /\ ~Accepted(h)
       \/ Of(h, {"solve"}) /\ balance = 0
       \/ Of(h, {"verify"})
    /\ Answers(h, Rejection)
    /\ UNCHANGED <<records, server, events>>

\* Without its database the server answers a logout all the same.
ServerRevokes(h) ==
    /\ At(h, "wait") /\ Of(h, {"logout"})
    /\ live' \in {live, live \ {run[h].token}}
    /\ Answers(h, Rejection)
    /\ UNCHANGED <<records, opened, plan, balance, events>>

\* No answer in 15 s, an answer of 500 or more, or no network: the request may
\* or may not have reached the server.  Some requests are sent once more.
RequestFails(h) ==
    /\ run[h].at \in {"wait", "answered"} /\ Happens
    /\ run' = [run EXCEPT ![h] =
                  IF run[h].kind \in Retrying /\ ~run[h].tried
                  THEN [@ EXCEPT !.at = "send", !.tried = TRUE, !.answer = None]
                  ELSE IF run[h].kind \in Refreshing \cup {"logout"}
                  THEN [@ EXCEPT !.at = "unanswered"] ELSE Idle]
    /\ UNCHANGED <<records, server>>

GivesUp(h) ==
    /\ At(h, "answered") /\ ~run[h].answer.ok /\ Of(h, Retrying \cup {"verify"})
    /\ Ends(h)
    /\ UNCHANGED <<records, server, events>>
-----------------------------------------------------------------------------
(* The record of the session.                                              *)

\* A refresh completes the record it read at first with what came back.
PutAuth(h) ==
    /\ At(h, "answered") /\ run[h].answer.ok /\ Of(h, Refreshing \cup {"verify"})
    /\ auth' = [session |-> IF Of(h, {"verify"}) THEN run[h].answer.session ELSE run[h].saw.session,
                plan |-> run[h].answer.plan]
    /\ run' = [run EXCEPT ![h].at = "gate", ![h].saw = None, ![h].answer.session = 0]
    /\ UNCHANGED <<settings, credits, server, events>>

\* MUTANT of DropAuth: a refused refresh keeps the record.
DropAuthOnLogout(h) ==
    /\ run[h].at \in {"answered", "unanswered"} /\ Of(h, {"logout"})
    /\ auth' = None
    /\ run' = [run EXCEPT ![h].at = "gate", ![h].saw = None, ![h].answer = Rejection]
    /\ UNCHANGED <<settings, credits, server, events>>

DropAuth(h) ==
    /\ \/ At(h, "answered") /\ ~run[h].answer.ok /\ Of(h, Refreshing \cup {"logout"})
       \/ At(h, "unanswered") /\ Of(h, {"logout"})
    /\ auth' = None
    /\ run' = [run EXCEPT ![h].at = "gate", ![h].saw = None, ![h].answer = Rejection]
    /\ UNCHANGED <<settings, credits, server, events>>

\* A refresh that failed otherwise writes the record it had read back.
KeepAuth(h) ==
    /\ At(h, "unanswered") /\ Of(h, Refreshing)
    /\ auth' = run[h].saw
    /\ Ends(h)
    /\ UNCHANGED <<settings, credits, server, events>>

\* applyPlanGatedSettings, disableAccountGatedState
ReadGate(h) ==
    /\ At(h, "gate")
    /\ run' = [run EXCEPT ![h].at = "switch", ![h].sets = settings]
    /\ UNCHANGED <<records, server, events>>

WriteGate(h) ==
    /\ At(h, "switch")
    /\ settings' = [run[h].sets EXCEPT !.sync = run[h].answer.plan]
    /\ run' = [run EXCEPT ![h].at = "settle", ![h].sets = None, ![h].answer.plan = FALSE]
    /\ UNCHANGED <<auth, credits, server, events>>

\* MUTANT of PutCredits: a refresh leaves the credits as they are.
PutCreditsNever(h) ==
    /\ At(h, "settle") /\ run[h].answer.ok
    /\ Ends(h)
    /\ UNCHANGED <<records, server, events>>

PutCredits(h) ==
    /\ At(h, "settle") /\ run[h].answer.ok
    /\ credits' = [left |-> run[h].answer.left, priced |-> TRUE]
    /\ Ends(h)
    /\ UNCHANGED <<auth, settings, server, events>>

ForgetAccount(h) ==
    /\ At(h, "settle") /\ ~run[h].answer.ok
    /\ credits' = None
    /\ Ends(h)
    /\ UNCHANGED <<auth, settings, server, events>>
-----------------------------------------------------------------------------
(* Credits and settings.                                                   *)

\* assertCaptchaAvailable trusts the local record.
CheckCredit(h) ==
    /\ At(h, "check")
    /\ IF HasCredit(credits) THEN Goes(h, "send") ELSE Ends(h)
    /\ UNCHANGED <<records, server, events>>

\* The rest of the record solveRequest reads again is not about captchas.
CreditsFromAnswer(h) ==
    /\ At(h, "answered") /\ run[h].answer.ok /\ Of(h, Retrying)
    /\ credits' = [left |-> run[h].answer.left, priced |-> TRUE]
    /\ Ends(h)
    /\ UNCHANGED <<auth, settings, server, events>>

\* recordAutofillExecution counts in a copy of the whole record.
RecallCredits(h) ==
    /\ At(h, "recall")
    /\ run' = [run EXCEPT ![h].at = "count",
                          ![h].creds = IF credits = None THEN [left |-> 0, priced |-> FALSE] ELSE credits]
    /\ UNCHANGED <<records, server, events>>

CountFills(h) ==
    /\ At(h, "count")
    /\ credits' = run[h].creds
    /\ Ends(h)
    /\ UNCHANGED <<auth, settings, server, events>>

\* The popup reads the settings, patches one, and writes all of them.
FetchSettings(h) ==
    /\ At(h, "fetch")
    /\ run' = [run EXCEPT ![h].at = "save", ![h].sets = settings]
    /\ UNCHANGED <<records, server, events>>

SaveSettings(h) ==
    /\ At(h, "save")
    /\ settings' = IF Of(h, {"sync"}) THEN [run[h].sets EXCEPT !.sync = TRUE] ELSE run[h].sets
    /\ Ends(h)
    /\ UNCHANGED <<auth, credits, server, events>>
-----------------------------------------------------------------------------
(* The environment.                                                        *)

\* The session expires or is revoked from another device.
SessionEnds(s) == /\ s \in live
                  /\ live' = live \ {s}
                  /\ Happens
                  /\ UNCHANGED <<records, opened, plan, balance, run>>

NewCycle == /\ balance < Full
          /\ balance' = Full
          /\ Happens
          /\ UNCHANGED <<records, live, opened, plan, run>>

\* The browser stops the worker; its next event starts one that initializes.
Kill == /\ Happens
        /\ run' = [h \in Handler |-> IF h = Own THEN [Idle EXCEPT !.kind = "boot", !.at = "defaults"]
                                                 ELSE Idle]
        /\ UNCHANGED <<records, server>>
-----------------------------------------------------------------------------
RequestStep(h) == \/ ReadAuth(h) \/ Send(h) \/ GivesUp(h)
                  \/ ServerVerifies(h) \/ ServerReports(h) \/ ServerSolves(h)
                  \/ ServerRejects(h) \/ ServerRevokes(h)
AuthStep(h) == PutAuth(h) \/ DropAuth(h) \/ KeepAuth(h) \/ ReadGate(h) \/ WriteGate(h)
CreditsStep(h) == \/ PutCredits(h) \/ ForgetAccount(h) \/ CheckCredit(h) \/ CreditsFromAnswer(h)
                  \/ RecallCredits(h) \/ CountFills(h)
SettingsStep(h) == \/ ReadDefaults(h) \/ RecheckDefaults(h) \/ WriteDefaults(h)
                   \/ FetchSettings(h) \/ SaveSettings(h)
Continue(h) == RequestStep(h) \/ AuthStep(h) \/ CreditsStep(h) \/ SettingsStep(h)
Outside == NewCycle \/ \E s \in Session : SessionEnds(s)

Next == \/ \E h \in Handler : Continue(h) \/ RequestFails(h)
        \/ \E h \in Handler, kind \in Kinds \ {"boot"} : Start(h, kind)
        \/ AlarmRings \/ Kill \/ Outside

-----------------------------------------------------------------------------
(* What must not last.                                                     *)

Holds(s) == auth # None /\ auth.session = s
Outlived(s) == Holds(s) /\ s \notin live
Denied == auth # None /\ balance > 0 /\ ~HasCredit(credits)
=============================================================================
