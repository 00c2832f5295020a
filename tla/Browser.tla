------------------------------ MODULE Browser ------------------------------
(***************************************************************************)
(* The headless browser of the crawler (crawler/browser.go) and the Lua     *)
(* scripts that use it (crawler/engine.go).  A script owns the browser from *)
(* its first browser_fetch or browser_eval to its end; the one active       *)
(* session is a child process, a connection to it and a page.  The signal   *)
(* handler of main.go stops the session without being its owner.            *)
(*                                                                         *)
(* The lock of a session (session.mu) is left out: only the owner takes it, *)
(* never around another lock, and the handler does not take it.             *)
(***************************************************************************)
EXTENDS Integers, FiniteSets

CONSTANTS
    Script,     \* goroutines that run a script, one per source
    Handler,    \* the signal handler's goroutine
    Nobody,     \* a mutex is free
    Session,    \* BrowserSession values
    NoSession,  \* a nil *BrowserSession
    NoPage      \* a nil *rod.Page

ASSUME BrowserAssumption ==
    /\ Handler \notin Script /\ Nobody \notin Script \cup {Handler}
    /\ NoSession \notin Session
    /\ \E i, j \in Session : i # j    \* one that a script still has, and a new one
    /\ NoPage \notin [by : Script, loaded : BOOLEAN]

Actor == Script \cup {Handler}

VARIABLES
    browserScriptMu, activeSessionMu, \* who holds each mutex
    activeSession,
    session,    \* the sessions: child process, connection, page
    pc,         \* the statement of each goroutine
    cur,        \* its local session
    direct      \* it is in the part of BrowserFetch that does without a proxy

locals == <<cur, direct>>
browserVars == <<browserScriptMu, activeSessionMu, activeSession, session, pc, locals>>

\* A page, and whether the call of its script in progress has loaded it.
Page == [by : Script, loaded : BOOLEAN]

Sessions == [proxied : BOOLEAN, child : {"none", "runs", "hangs"},
             linked : BOOLEAN, page : Page \cup {NoPage}]

ScriptLabels == {"idle", "lua", "acquire_fetch", "acquire_eval", "fetch", "spawn",
                 "ready", "start_failed", "close", "navigate", "fallback", "read",
                 "eval", "evaluate", "release", "stop_page", "stop_child", "unlock",
                 "killed"}

BrowserInit ==
    /\ browserScriptMu = Nobody /\ activeSessionMu = Nobody
    /\ activeSession = NoSession
    /\ session = [i \in Session |-> [proxied |-> FALSE, child |-> "none",
                                     linked |-> FALSE, page |-> NoPage]]
    /\ pc = [a \in Actor |-> "idle"]
    /\ cur = [a \in Actor |-> NoSession]
    /\ direct = [s \in Script |-> FALSE]

Goto(a, label) == pc' = [pc EXCEPT ![a] = label]

\* The call is over: its result goes back to Lua.
Return(s) ==
    /\ Goto(s, "lua")
    /\ cur' = [cur EXCEPT ![s] = NoSession]
    /\ direct' = [direct EXCEPT ![s] = FALSE]

-----------------------------------------------------------------------------
(* runScript *)

ScriptStarts(s) ==
    /\ pc[s] = "idle"
    /\ Goto(s, "lua")
    /\ UNCHANGED <<browserScriptMu, activeSessionMu, activeSession, session, locals>>

\* The script calls browser_fetch or browser_eval.
Call(s) ==
    /\ pc[s] = "lua"
    /\ \E label \in {"acquire_fetch", "acquire_eval"} : Goto(s, label)
    /\ session' = [i \in Session |->
           IF session[i].page = [by |-> s, loaded |-> TRUE]
           THEN [session[i] EXCEPT !.page.loaded = FALSE] ELSE session[i]]
    /\ UNCHANGED <<browserScriptMu, activeSessionMu, activeSession, locals>>

Owns(s) == browserScriptMu = s

\* acquireBrowser: the first call of a script waits for the browser.
AcquireBrowser(s) ==
    /\ pc[s] \in {"acquire_fetch", "acquire_eval"}
    /\ browserScriptMu = Nobody \/ Owns(s)
    /\ browserScriptMu' = s
    /\ Goto(s, IF pc[s] = "acquire_fetch" THEN "fetch" ELSE "eval")
    /\ UNCHANGED <<activeSessionMu, activeSession, session, locals>>

\* As ScriptEnds, but the mutex is unlocked without a ReleaseBrowser.
ScriptEndsUnreleased(s) ==
    /\ pc[s] = "lua"
    /\ Goto(s, IF Owns(s) THEN "unlock" ELSE "idle")
    /\ UNCHANGED <<browserScriptMu, activeSessionMu, activeSession, session, locals>>

\* As ScriptEnds, but the mutex is kept where there is no session to release.
ScriptEndsOwning(s) ==
    /\ pc[s] = "lua"
    /\ Goto(s, IF Owns(s) /\ activeSession # NoSession THEN "release" ELSE "idle")
    /\ UNCHANGED <<browserScriptMu, activeSessionMu, activeSession, session, locals>>

\* The script returns, fails, or has had its 300 seconds; the deferred function
\* releases the browser if the script owns it.
ScriptEnds(s) ==
    /\ pc[s] = "lua"
    /\ Goto(s, IF Owns(s) THEN "release" ELSE "idle")
    /\ UNCHANGED <<browserScriptMu, activeSessionMu, activeSession, session, locals>>

Unlock(s) ==
    /\ pc[s] = "unlock"
    /\ browserScriptMu' = Nobody
    /\ Goto(s, "idle")
    /\ UNCHANGED <<activeSessionMu, activeSession, session, locals>>

-----------------------------------------------------------------------------
(* Stopping a session *)

\* destroyActiveSession, under activeSessionMu, and where the caller goes on.
DestroyActive(a, otherwise) ==
    IF activeSession = NoSession
    THEN Goto(a, otherwise) /\ UNCHANGED <<activeSession, cur>>
    ELSE /\ activeSession' = NoSession
         /\ cur' = [cur EXCEPT ![a] = activeSession]
         /\ Goto(a, "stop_page")

\* ReleaseBrowser, of a script that ends or, as StopObscura, of the handler.
ReleaseBrowser(a) ==
    /\ pc[a] = "release"
    /\ activeSessionMu = Nobody
    /\ DestroyActive(a, "unlock")
    /\ activeSessionMu' = IF activeSession = NoSession THEN Nobody ELSE a
    /\ UNCHANGED <<browserScriptMu, session, direct>>

\* A command to the child has no time limit unless the code gives it one.
Answers(i) == session[i].child # "hangs"

\* stop: closePage, whose error is ignored, then the connection is closed.
StopPage(a) ==
    /\ pc[a] = "stop_page"
    /\ session[cur[a]].page = NoPage \/ Answers(cur[a])
    /\ \E left \in {session[cur[a]].page, NoPage} :
           session' = [session EXCEPT ![cur[a]].page = left, ![cur[a]].linked = FALSE]
    /\ Goto(a, "stop_child")
    /\ UNCHANGED <<browserScriptMu, activeSessionMu, activeSession, locals>>

ChildGone(i) == session' = [session EXCEPT ![i].child = "none"]

\* stop: the child is interrupted, killed after three seconds, and waited for.
StopChild(a) ==
    /\ pc[a] = "stop_child"
    /\ ChildGone(cur[a])
    /\ cur' = [cur EXCEPT ![a] = NoSession]
    /\ IF a \in Script /\ direct[a]
       THEN Goto(a, "spawn") /\ UNCHANGED activeSessionMu
       ELSE Goto(a, "unlock") /\ activeSessionMu' = Nobody
    /\ UNCHANGED <<browserScriptMu, activeSession, direct>>

-----------------------------------------------------------------------------
(* Starting a session, under activeSessionMu *)

\* BrowserFetch: the active session, or a new one.
BrowserFetch(s) ==
    /\ pc[s] = "fetch"
    /\ activeSessionMu = Nobody
    /\ IF activeSession = NoSession
       THEN activeSessionMu' = s /\ Goto(s, "spawn") /\ UNCHANGED cur
       ELSE /\ cur' = [cur EXCEPT ![s] = activeSession]
            /\ Goto(s, "close")
            /\ UNCHANGED activeSessionMu
    /\ UNCHANGED <<browserScriptMu, activeSession, session, direct>>

\* A new BrowserSession: nobody refers to an old one of that name.
Unused(i) == /\ session[i].child = "none"
             /\ i # activeSession
             /\ \A a \in Actor : cur[a] # i

\* startSessionWithProxy, start: the child process is started.
Spawn(s) ==
    /\ pc[s] = "spawn"
    /\ LET i == CHOOSE j \in Session : Unused(j)
       IN  /\ \E proxied \in (IF direct[s] THEN {FALSE} ELSE BOOLEAN) :
                  session' = [session EXCEPT ![i] = [proxied |-> proxied, child |-> "runs",
                                                     linked |-> FALSE, page |-> NoPage]]
           /\ cur' = [cur EXCEPT ![s] = i]
    /\ Goto(s, "ready")
    /\ UNCHANGED <<browserScriptMu, activeSessionMu, activeSession, direct>>

SpawnFails(s) ==
    /\ pc[s] = "spawn"
    /\ activeSessionMu' = Nobody
    /\ Return(s)
    /\ UNCHANGED <<browserScriptMu, activeSession, session>>

\* The child answers within 30 seconds and the connection stands.
Ready(s) ==
    /\ pc[s] = "ready"
    /\ session[cur[s]].child = "runs"
    /\ session' = [session EXCEPT ![cur[s]].linked = TRUE]
    /\ activeSession' = cur[s]
    /\ activeSessionMu' = Nobody
    /\ Goto(s, "close")
    /\ UNCHANGED <<browserScriptMu, locals>>

StartFails(s) ==
    /\ pc[s] = "ready"
    /\ Goto(s, "start_failed")
    /\ UNCHANGED <<browserScriptMu, activeSessionMu, activeSession, session, locals>>

\* start calls stop, which has no page to close yet.
StartGivenUp(s) ==
    /\ pc[s] = "start_failed"
    /\ ChildGone(cur[s])
    /\ activeSessionMu' = Nobody
    /\ Return(s)
    /\ UNCHANGED <<browserScriptMu, activeSession>>

-----------------------------------------------------------------------------
(* Using a session *)

\* BrowserFetch after an error of navigate: a session with a proxy is replaced.
NavigateFailed(s) ==
    IF session[cur[s]].proxied
    THEN Goto(s, "fallback") /\ UNCHANGED locals
    ELSE Return(s)

\* navigate: closePage
ClosePage(s) ==
    /\ pc[s] = "close"
    /\ LET p == session[cur[s]].page
       IN  \/ /\ session[cur[s]].linked
              /\ p = NoPage \/ session[cur[s]].child = "runs"
              /\ session' = [session EXCEPT ![cur[s]].page = NoPage]
              /\ Goto(s, "navigate")
              /\ UNCHANGED locals
           \/ /\ p # NoPage /\ Answers(cur[s])
              /\ NavigateFailed(s)
              /\ UNCHANGED session
    /\ UNCHANGED <<browserScriptMu, activeSessionMu, activeSession>>

\* As Navigate, but whether the document has been loaded is not looked at.
NavigateUnloaded(s) ==
    /\ pc[s] = "navigate"
    /\ session[cur[s]].linked /\ session[cur[s]].child = "runs"
    /\ \E loaded \in BOOLEAN :
         session' = [session EXCEPT ![cur[s]].page = [by |-> s, loaded |-> loaded]]
    /\ Goto(s, "read")
    /\ UNCHANGED <<browserScriptMu, activeSessionMu, activeSession, locals>>

\* navigate: a new page, and the document is loaded into it
Navigate(s) ==
    /\ pc[s] = "navigate"
    /\ session[cur[s]].linked /\ session[cur[s]].child = "runs"
    /\ session' = [session EXCEPT ![cur[s]].page = [by |-> s, loaded |-> TRUE]]
    /\ Goto(s, "read")
    /\ UNCHANGED <<browserScriptMu, activeSessionMu, activeSession, locals>>

\* No page, or one that failed to load and was closed, or could not be closed.
NavigateFails(s) ==
    /\ pc[s] = "navigate"
    /\ Answers(cur[s])
    /\ \E p \in {NoPage, [by |-> s, loaded |-> FALSE]} :
           session' = [session EXCEPT ![cur[s]].page = p]
    /\ NavigateFailed(s)
    /\ UNCHANGED <<browserScriptMu, activeSessionMu, activeSession>>

\* The handler has set s.browser to nil meanwhile; Lua turns the panic into an error.
NavigatePanics(s) ==
    /\ pc[s] \in {"close", "navigate"}
    /\ ~ session[cur[s]].linked
    /\ Goto(s, "release")
    /\ cur' = [cur EXCEPT ![s] = NoSession]
    /\ direct' = [direct EXCEPT ![s] = FALSE]
    /\ UNCHANGED <<browserScriptMu, activeSessionMu, activeSession, session>>

\* As Fallback, but the session with the proxy is not destroyed.
FallbackBeside(s) ==
    /\ pc[s] = "fallback"
    /\ activeSessionMu = Nobody
    /\ activeSessionMu' = s
    /\ direct' = [direct EXCEPT ![s] = TRUE]
    /\ Goto(s, "spawn")
    /\ UNCHANGED <<browserScriptMu, activeSession, session, cur>>

\* BrowserFetch: the session with a proxy makes way for one without.
Fallback(s) ==
    /\ pc[s] = "fallback"
    /\ activeSessionMu = Nobody
    /\ activeSessionMu' = s
    /\ direct' = [direct EXCEPT ![s] = TRUE]
    /\ DestroyActive(s, "spawn")
    /\ UNCHANGED <<browserScriptMu, session>>

\* BrowserFetch: the HTML of the page is the result.
ReadHTML(s) ==
    /\ pc[s] = "read"
    /\ Return(s)
    /\ UNCHANGED <<browserScriptMu, activeSessionMu, activeSession, session>>

\* As BrowserEval, but without the check for a missing session.
BrowserEvalUnchecked(s) ==
    /\ pc[s] = "eval"
    /\ activeSessionMu = Nobody
    /\ cur' = [cur EXCEPT ![s] = activeSession]
    /\ Goto(s, "evaluate")
    /\ UNCHANGED <<browserScriptMu, activeSessionMu, activeSession, session, direct>>

BrowserEval(s) ==
    /\ pc[s] = "eval"
    /\ activeSessionMu = Nobody
    /\ IF activeSession = NoSession
       THEN Return(s)
       ELSE /\ cur' = [cur EXCEPT ![s] = activeSession]
            /\ Goto(s, "evaluate")
            /\ UNCHANGED direct
    /\ UNCHANGED <<browserScriptMu, activeSessionMu, activeSession, session>>

Evaluate(s) ==
    /\ pc[s] = "evaluate"
    /\ Return(s)
    /\ UNCHANGED <<browserScriptMu, activeSessionMu, activeSession, session>>

-----------------------------------------------------------------------------
(* The child and the process *)

ChildDies(i) ==
    /\ session[i].child # "none" /\ pc[Handler] # "killed"
    /\ ChildGone(i)
    /\ UNCHANGED <<browserScriptMu, activeSessionMu, activeSession, pc, locals>>

\* It stops answering without dying.
ChildHangs(i) ==
    /\ session[i].child = "runs" /\ pc[Handler] # "killed"
    /\ session' = [session EXCEPT ![i].child = "hangs"]
    /\ UNCHANGED <<browserScriptMu, activeSessionMu, activeSession, pc, locals>>

\* SIGINT or SIGTERM
Signal ==
    /\ pc[Handler] = "idle"
    /\ Goto(Handler, "release")
    /\ UNCHANGED <<browserScriptMu, activeSessionMu, activeSession, session, locals>>

\* As Exit, but after the scripts have ended.
ExitWaiting ==
    /\ pc[Handler] = "unlock"
    /\ \A s \in Script : pc[s] = "idle"
    /\ pc' = [a \in Actor |-> "killed"]
    /\ UNCHANGED <<browserScriptMu, activeSessionMu, activeSession, session, locals>>

\* os.Exit, after StopObscura has returned.
Exit ==
    /\ pc[Handler] = "unlock"
    /\ pc' = [a \in Actor |-> "killed"]
    /\ UNCHANGED <<browserScriptMu, activeSessionMu, activeSession, session, locals>>

Halted == pc[Handler] = "killed" /\ UNCHANGED browserVars

-----------------------------------------------------------------------------
\* The steps that only wait for activeSessionMu, a child or a time limit.
Proceed(s) ==
    \/ Unlock(s) \/ BrowserFetch(s) \/ Spawn(s) \/ SpawnFails(s) \/ Ready(s)
    \/ StartFails(s) \/ StartGivenUp(s) \/ ClosePage(s) \/ Navigate(s)
    \/ NavigateFails(s) \/ NavigatePanics(s) \/ Fallback(s) \/ ReadHTML(s)
    \/ BrowserEval(s) \/ Evaluate(s)

Stop(a) == ReleaseBrowser(a) \/ StopPage(a) \/ StopChild(a)

BrowserNext ==
    \/ \E s \in Script : \/ ScriptStarts(s) \/ Call(s) \/ AcquireBrowser(s)
                         \/ ScriptEnds(s) \/ Proceed(s)
    \/ \E a \in Actor : Stop(a)
    \/ \E i \in Session : ChildDies(i) \/ ChildHangs(i)
    \/ Signal \/ Exit \/ Halted

\* Goroutines run; commands to a child that answers, and the waits of stop and
\* start, end.  Go's mutexes hand over to whoever waits for long.  Endless calls
\* of a script end with its deadline.
BrowserFairness ==
    /\ \A s \in Script : /\ WF_browserVars(Proceed(s))
                        /\ SF_browserVars(AcquireBrowser(s))
                        /\ SF_browserVars(ScriptEnds(s))
    /\ \A a \in Actor : SF_browserVars(Stop(a))
    /\ WF_browserVars(Exit)

BrowserSpec == BrowserInit /\ [][BrowserNext]_browserVars /\ BrowserFairness

-----------------------------------------------------------------------------
UsesSession == {"ready", "start_failed", "close", "navigate", "fallback", "read",
                "evaluate", "stop_page", "stop_child"}

BrowserTypeOK ==
    /\ browserScriptMu \in Script \cup {Nobody}
    /\ activeSessionMu \in Actor \cup {Nobody}
    /\ activeSession \in Session \cup {NoSession}
    /\ session \in [Session -> Sessions]
    /\ pc \in [Actor -> ScriptLabels]
    /\ cur \in [Actor -> Session \cup {NoSession}]
    /\ \A a \in Actor : pc[a] \in UsesSession => cur[a] # NoSession
    /\ direct \in [Script -> BOOLEAN]

Running == {i \in Session : session[i].child # "none"}

\* There is one Obscura process at most, whatever fails and whoever stops it
\* (engine.go: it "is intentionally limited to one script at a time").
OneChild == \A i, j \in Running : i = j

\* A process runs for a script that still owns the browser, or is being stopped:
\* none outlives the script that started it.
ChildHasOwner ==
    Running # {} => browserScriptMu # Nobody \/ activeSessionMu = Handler

\* The HTML a fetch returns is of the page this fetch has loaded, and an
\* expression is evaluated on a page of the same script, unless the page is gone.
OwnPage ==
    \A s \in Script :
        pc[s] \in {"read", "evaluate"} =>
        LET p == session[cur[s]].page
        IN  /\ pc[s] = "read" => p \in {NoPage, [by |-> s, loaded |-> TRUE]}
            /\ pc[s] = "evaluate" => p = NoPage \/ p.by = s

Hung == \E i \in Session : session[i].child = "hangs"

\* A script that waits for the browser gets it, however the one that has it fails,
\* unless the process exits or the child hangs.
BrowserIsFreed ==
    \A s \in Script : (pc[s] \in {"acquire_fetch", "acquire_eval"})
                         ~> (Owns(s) \/ pc[s] = "killed" \/ Hung)

\* A signal ends the process after the browser has been stopped, whatever the
\* scripts are doing with it, unless the child hangs.
SignalExits == (pc[Handler] = "release") ~> (pc[Handler] = "killed" \/ Hung)

\* Whatever fails and whoever stops it, there is one child at most, it has an owner,
\* and a script sees its own pages only.
BrowserIsOwned == OneChild /\ ChildHasOwner /\ OwnPage

\* Nobody waits for the browser for good: neither the next script nor the shutdown.
BrowserComesFree == BrowserIsFreed /\ SignalExits
=============================================================================
