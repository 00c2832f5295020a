--------------------------- MODULE BrowserProofs ---------------------------
(***************************************************************************)
(* Proofs about Browser, for any number of scripts and sessions: there is   *)
(* one child at most and it has an owner, and a script sees its own pages   *)
(* only, whatever fails and whenever the signal comes.                     *)
(***************************************************************************)
EXTENDS Browser, TLAPS

-----------------------------------------------------------------------------
(* The inductive invariant *)

\* Where a script has browserScriptMu, and where a goroutine has activeSessionMu.
HasBrowser == {"fetch", "eval", "spawn", "ready", "start_failed", "close", "navigate",
               "fallback", "read", "evaluate", "release", "stop_page", "stop_child",
               "unlock"}
HasActive == {"spawn", "ready", "start_failed", "stop_page", "stop_child"}

Labels ==
    /\ pc[Handler] \in {"idle", "release", "stop_page", "stop_child", "unlock"}
    /\ \A s \in Script : pc[s] # "killed"

Mutexes ==
    /\ \A s \in Script : pc[s] \in HasBrowser => browserScriptMu = s
    /\ \A a \in Actor : pc[a] \in HasActive <=> activeSessionMu = a

\* The active session has an owner and nobody starts or stops one; it is gone before
\* its owner gives the browser back.
ActiveHasOwner ==
    /\ activeSession # NoSession => browserScriptMu # Nobody /\ activeSessionMu = Nobody
    /\ \A s \in Script : pc[s] = "unlock" => activeSession = NoSession

\* A child belongs to the active session or to the one being started or stopped.
Children ==
    \A i \in Running :
        \/ i = activeSession
        \/ activeSessionMu # Nobody /\ i = cur[activeSessionMu] /\ pc[activeSessionMu] # "spawn"

\* The page of the active session is its owner's; a session that starts has none.
Pages ==
    /\ activeSession # NoSession =>
         \/ session[activeSession].page = NoPage
         \/ session[activeSession].page.by = browserScriptMu
    /\ \A s \in Script : pc[s] \in {"ready", "start_failed"} => session[cur[s]].page = NoPage
    /\ OwnPage

\* A goroutine refers to a session only while it uses one.
Locals == \A a \in Actor : cur[a] # NoSession => pc[a] \in UsesSession \cup {"spawn"}

Alive == Labels /\ Mutexes /\ ActiveHasOwner /\ Children /\ Pages /\ Locals

\* os.Exit leaves everything as it is.
Dead == (\A a \in Actor : pc[a] = "killed") /\ OneChild /\ ChildHasOwner

BrowserInv == BrowserTypeOK /\ (Alive \/ Dead)

-----------------------------------------------------------------------------
(* Every action preserves the invariant.                                   *)

\* What the fields of a session become.
LEMMA SessionUpdates ==
    ASSUME NEW x \in Sessions, NEW p \in Page \cup {NoPage}
    PROVE  /\ [x EXCEPT !.page = p] \in Sessions
           /\ [x EXCEPT !.page = p, !.linked = FALSE] \in Sessions
           /\ [x EXCEPT !.linked = TRUE] \in Sessions
           /\ \A c \in {"none", "runs", "hangs"} : [x EXCEPT !.child = c] \in Sessions
BY DEF Sessions

\* A page is not the lack of one, and a page that has been loaded may become unloaded.
LEMMA PagesArePages ==
    ASSUME NEW s \in Script, NEW l \in BOOLEAN
    PROVE  /\ [by |-> s, loaded |-> l] \in Page
           /\ [by |-> s, loaded |-> l] # NoPage
<1>1. [by |-> s, loaded |-> l] \in Page
  BY DEF Page
<1>2. NoPage \notin Page
  BY BrowserAssumption DEF Page
<1> QED BY <1>1, <1>2

\* A page that had been loaded and is not any more.
LEMMA RecordUnloads ==
    \A s : [[by |-> s, loaded |-> TRUE] EXCEPT !.loaded = FALSE] = [by |-> s, loaded |-> FALSE]
<1>1. \A s, u, v : [[by |-> s, loaded |-> u] EXCEPT !.loaded = v] = [by |-> s, loaded |-> v]
  OBVIOUS
<1> QED BY <1>1

LEMMA PageUnloads ==
    ASSUME NEW s \in Script, NEW x \in Sessions, x.page = [by |-> s, loaded |-> TRUE]
    PROVE  [x EXCEPT !.page.loaded = FALSE] = [x EXCEPT !.page = [by |-> s, loaded |-> FALSE]]
<1> DEFINE Unloaded(p) == [p EXCEPT !.loaded = FALSE]
<1>1. Unloaded([by |-> s, loaded |-> TRUE]) = [by |-> s, loaded |-> FALSE]
  BY RecordUnloads
<1>2. Unloaded(x.page) = [by |-> s, loaded |-> FALSE]
  <2> HIDE DEF Unloaded
  <2> QED BY <1>1
<1>3. [x EXCEPT !.page.loaded = FALSE] = [x EXCEPT !.page = Unloaded(x.page)]
  OBVIOUS
<1> HIDE DEF Unloaded
<1> QED BY <1>2, <1>3

LEMMA ScriptStartsHolds ==
    ASSUME NEW s \in Script
    PROVE  BrowserInv /\ ScriptStarts(s) => BrowserInv'
<1> SUFFICES ASSUME BrowserInv, ScriptStarts(s) PROVE BrowserInv'
  OBVIOUS
<1>1. BrowserTypeOK /\ Alive
  BY DEF BrowserInv, Dead, Actor, ScriptStarts
<1>2. BrowserTypeOK'
  BY <1>1, BrowserAssumption DEF BrowserTypeOK, ScriptLabels, UsesSession, Sessions, Page, Alive, Labels, ScriptStarts, Goto, locals, Actor
<1>3. Labels'
  BY <1>1, BrowserAssumption DEF BrowserTypeOK, Alive, Labels, ScriptStarts, Goto, locals, Actor
<1>4. Mutexes'
  BY <1>1, BrowserAssumption DEF BrowserTypeOK, Alive, Labels, Mutexes, HasBrowser, HasActive, ScriptStarts, Goto, locals, Actor
<1>5. ActiveHasOwner'
  BY <1>1, BrowserAssumption DEF BrowserTypeOK, Alive, Labels, Mutexes, ActiveHasOwner, HasBrowser, HasActive, ScriptStarts, Goto, locals, Actor
<1>6. Children'
  BY <1>1, BrowserAssumption DEF BrowserTypeOK, Sessions, Alive, Labels, Mutexes, ActiveHasOwner, Children, Running, HasBrowser, HasActive, ScriptStarts, Goto, locals, Actor
<1>7. Pages'
  BY <1>1, BrowserAssumption DEF BrowserTypeOK, Sessions, Page, UsesSession, Alive, Labels, Mutexes, ActiveHasOwner, Pages, OwnPage, HasBrowser, HasActive, ScriptStarts, Goto, locals, Actor
<1>8. Locals'
  BY <1>1 DEF BrowserTypeOK, Alive, Labels, Locals, UsesSession, ScriptStarts, Goto, locals, Actor
<1> QED BY <1>2, <1>3, <1>4, <1>5, <1>6, <1>7, <1>8 DEF BrowserInv, Alive

LEMMA CallHolds ==
    ASSUME NEW s \in Script
    PROVE  BrowserInv /\ Call(s) => BrowserInv'
<1> SUFFICES ASSUME BrowserInv, Call(s) PROVE BrowserInv'
  OBVIOUS
<1>1. BrowserTypeOK /\ Alive
  BY DEF BrowserInv, Dead, Actor, Call
<1>2. BrowserTypeOK'
  <2>1. \A i \in Session : session'[i] \in Sessions
    <3> TAKE i \in Session
    <3>1. session[i] \in Sessions
      BY <1>1 DEF BrowserTypeOK
    <3>2. CASE session[i].page = [by |-> s, loaded |-> TRUE]
      <4>1. session'[i] = [session[i] EXCEPT !.page = [by |-> s, loaded |-> FALSE]]
        BY <3>1, <3>2, PageUnloads DEF Call
      <4>2. [by |-> s, loaded |-> FALSE] \in Page \cup {NoPage}
        BY DEF Page
      <4> QED BY <3>1, <4>1, <4>2, SessionUpdates
    <3>3. CASE session[i].page # [by |-> s, loaded |-> TRUE]
      BY <3>1, <3>3 DEF Call
    <3> QED BY <3>2, <3>3
  <2>2. session' \in [Session -> Sessions]
    BY <2>1 DEF Call
  <2>3. pc' \in [Actor -> ScriptLabels]
    BY <1>1 DEF BrowserTypeOK, Call, Goto, ScriptLabels
  <2>4. \A a \in Actor : pc'[a] \in UsesSession => cur'[a] # NoSession
    BY <1>1 DEF BrowserTypeOK, Call, Goto, UsesSession, locals
  <2> QED BY <1>1, <2>2, <2>3, <2>4 DEF BrowserTypeOK, Call, locals
<1>3. Labels'
  BY <1>1 DEF BrowserTypeOK, Alive, Labels, Call, Goto, locals, Actor
<1>4. Mutexes'
  BY <1>1, BrowserAssumption DEF BrowserTypeOK, Alive, Labels, Mutexes, HasBrowser, HasActive, Call, Goto, locals, Actor
<1>5. ActiveHasOwner'
  BY <1>1, BrowserAssumption DEF BrowserTypeOK, Alive, Labels, Mutexes, ActiveHasOwner, HasBrowser, HasActive, Call, Goto, locals, Actor
<1>6. Children'
  BY <1>1, BrowserAssumption DEF BrowserTypeOK, Sessions, Alive, Labels, Mutexes, ActiveHasOwner, Children, Running, HasBrowser, HasActive, Call, Goto, locals, Actor
<1>7. Pages'
  <2>1. \A i \in Session : /\ session'[i].page = NoPage <=> session[i].page = NoPage
                           /\ session[i].page # NoPage => session'[i].page.by = session[i].page.by
                           /\ session[i].page # [by |-> s, loaded |-> TRUE] =>
                                 session'[i].page = session[i].page
    <3> TAKE i \in Session
    <3>1. session[i] \in Sessions
      BY <1>1 DEF BrowserTypeOK
    <3>2. CASE session[i].page = [by |-> s, loaded |-> TRUE]
      <4>1. session'[i].page = [by |-> s, loaded |-> FALSE]
        <5>1. session'[i] = [session[i] EXCEPT !.page = [by |-> s, loaded |-> FALSE]]
          BY <3>1, <3>2, PageUnloads DEF Call
        <5> QED BY <3>1, <5>1 DEF Sessions
      <4>2. [by |-> s, loaded |-> FALSE] # NoPage
        BY PagesArePages
      <4>3. [by |-> s, loaded |-> TRUE] # NoPage
        BY PagesArePages
      <4> QED BY <3>2, <4>1, <4>2, <4>3
    <3>3. CASE session[i].page # [by |-> s, loaded |-> TRUE]
      BY <3>1, <3>3 DEF Call
    <3> QED BY <3>2, <3>3
  <2>2. /\ browserScriptMu' = browserScriptMu /\ activeSession' = activeSession /\ cur' = cur
        /\ \A r \in Script : pc'[r] \in {"ready", "start_failed", "read", "evaluate"} =>
              r # s /\ pc'[r] = pc[r]
    BY <1>1 DEF Call, Goto, locals, BrowserTypeOK, Actor
  <2>3. activeSession # NoSession => activeSession \in Session
    BY <1>1 DEF BrowserTypeOK
  <2>4. \A r \in Script : pc[r] \in {"ready", "start_failed", "read", "evaluate"} =>
            cur[r] \in Session
    BY <1>1 DEF BrowserTypeOK, UsesSession, Actor
  <2>5. OwnPage'
    <3> SUFFICES ASSUME NEW r \in Script, pc'[r] \in {"read", "evaluate"}
                 PROVE  LET p == session'[cur'[r]].page
                        IN  /\ pc'[r] = "read" => p \in {NoPage, [by |-> r, loaded |-> TRUE]}
                            /\ pc'[r] = "evaluate" => p = NoPage \/ p.by = r
      BY DEF OwnPage
    <3>1. r # s /\ pc'[r] = pc[r] /\ cur'[r] = cur[r] /\ cur[r] \in Session
      BY <2>2, <2>4
    <3>2. [by |-> r, loaded |-> TRUE] # [by |-> s, loaded |-> TRUE]
      BY <3>1
    <3>3. /\ pc[r] = "read" => session[cur[r]].page \in {NoPage, [by |-> r, loaded |-> TRUE]}
          /\ pc[r] = "evaluate" => session[cur[r]].page = NoPage \/ session[cur[r]].page.by = r
      BY <1>1, <3>1 DEF Alive, Pages, OwnPage
    <3> QED BY <3>1, <3>2, <3>3, <2>1
  <2>6. activeSession' # NoSession => \/ session'[activeSession'].page = NoPage
                                     \/ session'[activeSession'].page.by = browserScriptMu'
    BY <1>1, <2>1, <2>2, <2>3 DEF Alive, Pages
  <2>7. \A r \in Script : pc'[r] \in {"ready", "start_failed"} => session'[cur'[r]].page = NoPage
    BY <1>1, <2>1, <2>2, <2>4 DEF Alive, Pages
  <2> QED BY <2>5, <2>6, <2>7 DEF Pages
<1>8. Locals'
  BY <1>1 DEF BrowserTypeOK, Alive, Labels, Locals, UsesSession, Call, Goto, locals, Actor
<1> QED BY <1>2, <1>3, <1>4, <1>5, <1>6, <1>7, <1>8 DEF BrowserInv, Alive

LEMMA AcquireBrowserHolds ==
    ASSUME NEW s \in Script
    PROVE  BrowserInv /\ AcquireBrowser(s) => BrowserInv'
<1> SUFFICES ASSUME BrowserInv, AcquireBrowser(s) PROVE BrowserInv'
  OBVIOUS
<1>1. BrowserTypeOK /\ Alive
  BY DEF BrowserInv, Dead, Actor, AcquireBrowser
<1>2. BrowserTypeOK'
  BY <1>1, BrowserAssumption DEF BrowserTypeOK, ScriptLabels, UsesSession, Sessions, Page, Alive, Labels, AcquireBrowser, Owns, Goto, locals, Actor
<1>3. Labels'
  BY <1>1 DEF BrowserTypeOK, Alive, Labels, AcquireBrowser, Owns, Goto, locals, Actor
<1>4. Mutexes'
  BY <1>1, BrowserAssumption DEF BrowserTypeOK, Alive, Labels, Mutexes, HasBrowser, HasActive, AcquireBrowser, Owns, Goto, locals, Actor
<1>5. ActiveHasOwner'
  BY <1>1, BrowserAssumption DEF BrowserTypeOK, Alive, Labels, Mutexes, ActiveHasOwner, HasBrowser, HasActive, AcquireBrowser, Owns, Goto, locals, Actor
<1>6. Children'
  BY <1>1, BrowserAssumption DEF BrowserTypeOK, Sessions, Alive, Labels, Mutexes, ActiveHasOwner, Children, Running, HasBrowser, HasActive, AcquireBrowser, Owns, Goto, locals, Actor
<1>7. Pages'
  BY <1>1, BrowserAssumption DEF BrowserTypeOK, Sessions, Page, UsesSession, Alive, Labels, Mutexes, ActiveHasOwner, Pages, OwnPage, HasBrowser, HasActive, AcquireBrowser, Owns, Goto, locals, Actor
<1>8. Locals'
  BY <1>1 DEF BrowserTypeOK, Alive, Labels, Locals, UsesSession, AcquireBrowser, Owns, Goto, locals, Actor
<1> QED BY <1>2, <1>3, <1>4, <1>5, <1>6, <1>7, <1>8 DEF BrowserInv, Alive

LEMMA ScriptEndsHolds ==
    ASSUME NEW s \in Script
    PROVE  BrowserInv /\ ScriptEnds(s) => BrowserInv'
<1> SUFFICES ASSUME BrowserInv, ScriptEnds(s) PROVE BrowserInv'
  OBVIOUS
<1>1. BrowserTypeOK /\ Alive
  BY DEF BrowserInv, Dead, Actor, ScriptEnds
<1>2. BrowserTypeOK'
  BY <1>1, BrowserAssumption DEF BrowserTypeOK, ScriptLabels, UsesSession, Sessions, Page, Alive, Labels, ScriptEnds, Owns, Goto, locals, Actor
<1>3. Labels'
  BY <1>1 DEF BrowserTypeOK, Alive, Labels, ScriptEnds, Owns, Goto, locals, Actor
<1>4. Mutexes'
  BY <1>1, BrowserAssumption DEF BrowserTypeOK, Alive, Labels, Mutexes, HasBrowser, HasActive, ScriptEnds, Owns, Goto, locals, Actor
<1>5. ActiveHasOwner'
  BY <1>1, BrowserAssumption DEF BrowserTypeOK, Alive, Labels, Mutexes, ActiveHasOwner, HasBrowser, HasActive, ScriptEnds, Owns, Goto, locals, Actor
<1>6. Children'
  BY <1>1, BrowserAssumption DEF BrowserTypeOK, Sessions, Alive, Labels, Mutexes, ActiveHasOwner, Children, Running, HasBrowser, HasActive, ScriptEnds, Owns, Goto, locals, Actor
<1>7. Pages'
  BY <1>1, BrowserAssumption DEF BrowserTypeOK, Sessions, Page, UsesSession, Alive, Labels, Mutexes, ActiveHasOwner, Pages, OwnPage, HasBrowser, HasActive, ScriptEnds, Owns, Goto, locals, Actor
<1>8. Locals'
  BY <1>1 DEF BrowserTypeOK, Alive, Labels, Locals, UsesSession, ScriptEnds, Owns, Goto, locals, Actor
<1> QED BY <1>2, <1>3, <1>4, <1>5, <1>6, <1>7, <1>8 DEF BrowserInv, Alive

LEMMA UnlockHolds ==
    ASSUME NEW s \in Script
    PROVE  BrowserInv /\ Unlock(s) => BrowserInv'
<1> SUFFICES ASSUME BrowserInv, Unlock(s) PROVE BrowserInv'
  OBVIOUS
<1>1. BrowserTypeOK /\ Alive
  BY DEF BrowserInv, Dead, Actor, Unlock
<1>2. BrowserTypeOK'
  BY <1>1, BrowserAssumption DEF BrowserTypeOK, ScriptLabels, UsesSession, Sessions, Page, Alive, Labels, Unlock, Goto, locals, Actor
<1>3. Labels'
  BY <1>1 DEF BrowserTypeOK, Alive, Labels, Unlock, Goto, locals, Actor
<1>4. Mutexes'
  BY <1>1, BrowserAssumption DEF BrowserTypeOK, Alive, Labels, Mutexes, HasBrowser, HasActive, Unlock, Goto, locals, Actor
<1>5. ActiveHasOwner'
  BY <1>1, BrowserAssumption DEF BrowserTypeOK, Alive, Labels, Mutexes, ActiveHasOwner, HasBrowser, HasActive, Unlock, Goto, locals, Actor
<1>6. Children'
  BY <1>1, BrowserAssumption DEF BrowserTypeOK, Sessions, Alive, Labels, Mutexes, ActiveHasOwner, Children, Running, HasBrowser, HasActive, Unlock, Goto, locals, Actor
<1>7. Pages'
  BY <1>1, BrowserAssumption DEF BrowserTypeOK, Sessions, Page, UsesSession, Alive, Labels, Mutexes, ActiveHasOwner, Pages, OwnPage, HasBrowser, HasActive, Unlock, Goto, locals, Actor
<1>8. Locals'
  BY <1>1 DEF BrowserTypeOK, Alive, Labels, Locals, UsesSession, Unlock, Goto, locals, Actor
<1> QED BY <1>2, <1>3, <1>4, <1>5, <1>6, <1>7, <1>8 DEF BrowserInv, Alive

LEMMA BrowserFetchHolds ==
    ASSUME NEW s \in Script
    PROVE  BrowserInv /\ BrowserFetch(s) => BrowserInv'
<1> SUFFICES ASSUME BrowserInv, BrowserFetch(s) PROVE BrowserInv'
  OBVIOUS
<1>1. BrowserTypeOK /\ Alive
  BY DEF BrowserInv, Dead, Actor, BrowserFetch
<1>2. BrowserTypeOK'
  BY <1>1, BrowserAssumption DEF BrowserTypeOK, ScriptLabels, UsesSession, Sessions, Page, Alive, Labels, BrowserFetch, Goto, locals, Actor
<1>3. Labels'
  BY <1>1 DEF BrowserTypeOK, Alive, Labels, BrowserFetch, Goto, locals, Actor
<1>4. Mutexes'
  BY <1>1, BrowserAssumption DEF BrowserTypeOK, Alive, Labels, Mutexes, HasBrowser, HasActive, BrowserFetch, Goto, locals, Actor
<1>5. ActiveHasOwner'
  BY <1>1, BrowserAssumption DEF BrowserTypeOK, Alive, Labels, Mutexes, ActiveHasOwner, HasBrowser, HasActive, BrowserFetch, Goto, locals, Actor
<1>6. Children'
  BY <1>1, BrowserAssumption DEF BrowserTypeOK, Sessions, Alive, Labels, Mutexes, ActiveHasOwner, Children, Running, HasBrowser, HasActive, BrowserFetch, Goto, locals, Actor
<1>7. Pages'
  BY <1>1, BrowserAssumption DEF BrowserTypeOK, Sessions, Page, UsesSession, Alive, Labels, Mutexes, ActiveHasOwner, Pages, OwnPage, HasBrowser, HasActive, BrowserFetch, Goto, locals, Actor
<1>8. Locals'
  BY <1>1 DEF BrowserTypeOK, Alive, Labels, Locals, UsesSession, BrowserFetch, Goto, locals, Actor
<1> QED BY <1>2, <1>3, <1>4, <1>5, <1>6, <1>7, <1>8 DEF BrowserInv, Alive

LEMMA SpawnHolds ==
    ASSUME NEW s \in Script
    PROVE  BrowserInv /\ Spawn(s) => BrowserInv'
<1> SUFFICES ASSUME BrowserInv, Spawn(s) PROVE BrowserInv'
  OBVIOUS
<1>1. BrowserTypeOK /\ Alive
  BY DEF BrowserInv, Dead, Actor, Spawn
<1> DEFINE i == CHOOSE j \in Session : Unused(j)
           fresh(proxied) == [proxied |-> proxied, child |-> "runs", linked |-> FALSE,
                              page |-> NoPage]
<1>a. i \in Session /\ Unused(i)
  <2>1. activeSession = NoSession /\ Running = {}
    <3>1. activeSessionMu = s /\ s # Nobody /\ pc[s] = "spawn"
      BY <1>1, BrowserAssumption DEF Spawn, Alive, Mutexes, HasActive, Actor
    <3>2. activeSession = NoSession
      BY <1>1, <3>1 DEF Alive, ActiveHasOwner
    <3> QED BY <1>1, <3>1, <3>2, BrowserAssumption DEF Alive, Children, Running
  <2>2. \A a \in Actor : a # s => cur[a] = NoSession
    <3>1. \A r \in Script : r # s => pc[r] \notin UsesSession \cup {"spawn"}
      BY <1>1 DEF Spawn, Alive, Mutexes, HasBrowser, UsesSession
    <3>2. pc[Handler] \notin UsesSession \cup {"spawn"}
      BY <1>1, BrowserAssumption DEF Spawn, Alive, Labels, Mutexes, HasActive, UsesSession, Actor
    <3> QED BY <1>1, <3>1, <3>2 DEF Alive, Locals, Actor
  <2>3. \E j \in Session : j # cur[s]
    BY BrowserAssumption
  <2>4. \E j \in Session : Unused(j)
    BY <2>1, <2>2, <2>3, BrowserAssumption DEF Unused, Running
  <2> QED BY <2>4
<1>b. \E proxied \in BOOLEAN : session' = [session EXCEPT ![i] = fresh(proxied)]
  BY <1>1 DEF Spawn, BrowserTypeOK
<1>c. /\ pc[s] = "spawn" /\ pc' = [pc EXCEPT ![s] = "ready"] /\ cur' = [cur EXCEPT ![s] = i]
      /\ UNCHANGED <<browserScriptMu, activeSessionMu, activeSession, direct>>
  BY DEF Spawn, Goto
<1>d. \A proxied \in BOOLEAN : fresh(proxied) \in Sessions /\ fresh(proxied).page = NoPage
                              /\ fresh(proxied).child # "none"
  BY DEF Sessions
<1> HIDE DEF i, fresh
<1>2. BrowserTypeOK'
  <2>1. session' \in [Session -> Sessions]
    BY <1>1, <1>a, <1>b, <1>d DEF BrowserTypeOK
  <2>2. pc' \in [Actor -> ScriptLabels] /\ cur' \in [Actor -> Session \cup {NoSession}]
    BY <1>1, <1>a, <1>c DEF BrowserTypeOK, ScriptLabels
  <2>3. \A a \in Actor : pc'[a] \in UsesSession => cur'[a] # NoSession
    BY <1>1, <1>a, <1>c, BrowserAssumption DEF BrowserTypeOK, UsesSession
  <2> QED BY <1>1, <1>c, <2>1, <2>2, <2>3 DEF BrowserTypeOK
<1>3. Labels'
  BY <1>1 DEF BrowserTypeOK, Alive, Labels, Spawn, Goto, locals, Actor
<1>4. Mutexes'
  BY <1>1, BrowserAssumption DEF BrowserTypeOK, Alive, Labels, Mutexes, HasBrowser, HasActive, Spawn, Goto, locals, Actor
<1>5. ActiveHasOwner'
  BY <1>1, BrowserAssumption DEF BrowserTypeOK, Alive, Labels, Mutexes, ActiveHasOwner, HasBrowser, HasActive, Spawn, Goto, locals, Actor
<1>6. Children'
  BY <1>1, BrowserAssumption DEF BrowserTypeOK, Sessions, Alive, Labels, Mutexes, ActiveHasOwner, Children, Running, HasBrowser, HasActive, Spawn, Goto, locals, Actor
<1>7. Pages'
  <2>1. activeSession' = NoSession
    <3>1. activeSessionMu = s /\ s # Nobody
      BY <1>1, <1>c, BrowserAssumption DEF Alive, Mutexes, HasActive, Actor
    <3> QED BY <1>1, <1>c, <3>1 DEF Alive, ActiveHasOwner
  <2>2. \A r \in Script : r # s => pc'[r] \notin HasBrowser
    BY <1>1, <1>c DEF Alive, Mutexes, HasBrowser, BrowserTypeOK, Actor
  <2>3. session'[i].page = NoPage /\ cur'[s] = i /\ pc'[s] = "ready"
    BY <1>1, <1>a, <1>b, <1>c, <1>d DEF BrowserTypeOK, Actor
  <2> QED BY <2>1, <2>2, <2>3 DEF Pages, OwnPage, HasBrowser
<1>8. Locals'
  BY <1>1 DEF BrowserTypeOK, Alive, Labels, Locals, UsesSession, Spawn, Goto, locals, Actor
<1> QED BY <1>2, <1>3, <1>4, <1>5, <1>6, <1>7, <1>8 DEF BrowserInv, Alive

LEMMA SpawnFailsHolds ==
    ASSUME NEW s \in Script
    PROVE  BrowserInv /\ SpawnFails(s) => BrowserInv'
<1> SUFFICES ASSUME BrowserInv, SpawnFails(s) PROVE BrowserInv'
  OBVIOUS
<1>1. BrowserTypeOK /\ Alive
  BY DEF BrowserInv, Dead, Actor, SpawnFails
<1>2. BrowserTypeOK'
  BY <1>1, BrowserAssumption DEF BrowserTypeOK, ScriptLabels, UsesSession, Sessions, Page, Alive, Labels, SpawnFails, Return, Goto, locals, Actor
<1>3. Labels'
  BY <1>1 DEF BrowserTypeOK, Alive, Labels, SpawnFails, Return, Goto, locals, Actor
<1>4. Mutexes'
  BY <1>1, BrowserAssumption DEF BrowserTypeOK, Alive, Labels, Mutexes, HasBrowser, HasActive, SpawnFails, Return, Goto, locals, Actor
<1>5. ActiveHasOwner'
  BY <1>1, BrowserAssumption DEF BrowserTypeOK, Alive, Labels, Mutexes, ActiveHasOwner, HasBrowser, HasActive, SpawnFails, Return, Goto, locals, Actor
<1>6. Children'
  BY <1>1, BrowserAssumption DEF BrowserTypeOK, Sessions, Alive, Labels, Mutexes, ActiveHasOwner, Children, Running, HasBrowser, HasActive, SpawnFails, Return, Goto, locals, Actor
<1>7. Pages'
  BY <1>1, BrowserAssumption DEF BrowserTypeOK, Sessions, Page, UsesSession, Alive, Labels, Mutexes, ActiveHasOwner, Pages, OwnPage, HasBrowser, HasActive, SpawnFails, Return, Goto, locals, Actor
<1>8. Locals'
  BY <1>1 DEF BrowserTypeOK, Alive, Labels, Locals, UsesSession, SpawnFails, Return, Goto, locals, Actor
<1> QED BY <1>2, <1>3, <1>4, <1>5, <1>6, <1>7, <1>8 DEF BrowserInv, Alive

LEMMA ReadyHolds ==
    ASSUME NEW s \in Script
    PROVE  BrowserInv /\ Ready(s) => BrowserInv'
<1> SUFFICES ASSUME BrowserInv, Ready(s) PROVE BrowserInv'
  OBVIOUS
<1>1. BrowserTypeOK /\ Alive
  BY DEF BrowserInv, Dead, Actor, Ready
<1>2. BrowserTypeOK'
  <2>1. /\ cur[s] \in Session /\ s \in Actor
        /\ session' = [session EXCEPT ![cur[s]] = [session[cur[s]] EXCEPT !.linked = TRUE]]
    BY <1>1 DEF BrowserTypeOK, UsesSession, Ready, Actor
  <2>2. session' \in [Session -> Sessions]
    BY <1>1, <2>1, SessionUpdates DEF BrowserTypeOK
  <2>3. /\ activeSession' \in Session /\ activeSessionMu' = Nobody
        /\ pc' = [pc EXCEPT ![s] = "close"] /\ UNCHANGED <<browserScriptMu, cur, direct>>
    BY <2>1 DEF Ready, Goto, locals
  <2>4. pc' \in [Actor -> ScriptLabels]
    BY <1>1, <2>3 DEF BrowserTypeOK, ScriptLabels
  <2>5. \A a \in Actor : pc'[a] \in UsesSession => cur'[a] # NoSession
    BY <1>1, <2>1, <2>3, BrowserAssumption DEF BrowserTypeOK
  <2> QED BY <1>1, <2>2, <2>3, <2>4, <2>5 DEF BrowserTypeOK
<1>3. Labels'
  BY <1>1 DEF BrowserTypeOK, Alive, Labels, Ready, Goto, locals, Actor
<1>4. Mutexes'
  BY <1>1, BrowserAssumption DEF BrowserTypeOK, Alive, Labels, Mutexes, HasBrowser, HasActive, Ready, Goto, locals, Actor
<1>5. ActiveHasOwner'
  BY <1>1, BrowserAssumption DEF BrowserTypeOK, Alive, Labels, Mutexes, ActiveHasOwner, HasBrowser, HasActive, Ready, Goto, locals, Actor
<1>6. Children'
  BY <1>1, BrowserAssumption DEF BrowserTypeOK, Sessions, Alive, Labels, Mutexes, ActiveHasOwner, Children, Running, HasBrowser, HasActive, Ready, Goto, locals, Actor
<1>7. Pages'
  BY <1>1, BrowserAssumption DEF BrowserTypeOK, Sessions, Page, UsesSession, Alive, Labels, Mutexes, ActiveHasOwner, Pages, OwnPage, HasBrowser, HasActive, Ready, Goto, locals, Actor
<1>8. Locals'
  BY <1>1 DEF BrowserTypeOK, Alive, Labels, Locals, UsesSession, Ready, Goto, locals, Actor
<1> QED BY <1>2, <1>3, <1>4, <1>5, <1>6, <1>7, <1>8 DEF BrowserInv, Alive

LEMMA StartFailsHolds ==
    ASSUME NEW s \in Script
    PROVE  BrowserInv /\ StartFails(s) => BrowserInv'
<1> SUFFICES ASSUME BrowserInv, StartFails(s) PROVE BrowserInv'
  OBVIOUS
<1>1. BrowserTypeOK /\ Alive
  BY DEF BrowserInv, Dead, Actor, StartFails
<1>2. BrowserTypeOK'
  BY <1>1, BrowserAssumption DEF BrowserTypeOK, ScriptLabels, UsesSession, Sessions, Page, Alive, Labels, StartFails, Goto, locals, Actor
<1>3. Labels'
  BY <1>1 DEF BrowserTypeOK, Alive, Labels, StartFails, Goto, locals, Actor
<1>4. Mutexes'
  BY <1>1, BrowserAssumption DEF BrowserTypeOK, Alive, Labels, Mutexes, HasBrowser, HasActive, StartFails, Goto, locals, Actor
<1>5. ActiveHasOwner'
  BY <1>1, BrowserAssumption DEF BrowserTypeOK, Alive, Labels, Mutexes, ActiveHasOwner, HasBrowser, HasActive, StartFails, Goto, locals, Actor
<1>6. Children'
  BY <1>1, BrowserAssumption DEF BrowserTypeOK, Sessions, Alive, Labels, Mutexes, ActiveHasOwner, Children, Running, HasBrowser, HasActive, StartFails, Goto, locals, Actor
<1>7. Pages'
  BY <1>1, BrowserAssumption DEF BrowserTypeOK, Sessions, Page, UsesSession, Alive, Labels, Mutexes, ActiveHasOwner, Pages, OwnPage, HasBrowser, HasActive, StartFails, Goto, locals, Actor
<1>8. Locals'
  BY <1>1 DEF BrowserTypeOK, Alive, Labels, Locals, UsesSession, StartFails, Goto, locals, Actor
<1> QED BY <1>2, <1>3, <1>4, <1>5, <1>6, <1>7, <1>8 DEF BrowserInv, Alive

LEMMA StartGivenUpHolds ==
    ASSUME NEW s \in Script
    PROVE  BrowserInv /\ StartGivenUp(s) => BrowserInv'
<1> SUFFICES ASSUME BrowserInv, StartGivenUp(s) PROVE BrowserInv'
  OBVIOUS
<1>1. BrowserTypeOK /\ Alive
  BY DEF BrowserInv, Dead, Actor, StartGivenUp
<1>2. BrowserTypeOK'
  BY <1>1, BrowserAssumption DEF BrowserTypeOK, ScriptLabels, UsesSession, Sessions, Page, Alive, Labels, StartGivenUp, ChildGone, Return, Goto, locals, Actor
<1>3. Labels'
  BY <1>1 DEF BrowserTypeOK, Alive, Labels, StartGivenUp, ChildGone, Return, Goto, locals, Actor
<1>4. Mutexes'
  BY <1>1, BrowserAssumption DEF BrowserTypeOK, Alive, Labels, Mutexes, HasBrowser, HasActive, StartGivenUp, ChildGone, Return, Goto, locals, Actor
<1>5. ActiveHasOwner'
  BY <1>1, BrowserAssumption DEF BrowserTypeOK, Alive, Labels, Mutexes, ActiveHasOwner, HasBrowser, HasActive, StartGivenUp, ChildGone, Return, Goto, locals, Actor
<1>6. Children'
  BY <1>1, BrowserAssumption DEF BrowserTypeOK, Sessions, Alive, Labels, Mutexes, ActiveHasOwner, Children, Running, HasBrowser, HasActive, StartGivenUp, ChildGone, Return, Goto, locals, Actor
<1>7. Pages'
  BY <1>1, BrowserAssumption DEF BrowserTypeOK, Sessions, Page, UsesSession, Alive, Labels, Mutexes, ActiveHasOwner, Pages, OwnPage, HasBrowser, HasActive, StartGivenUp, ChildGone, Return, Goto, locals, Actor
<1>8. Locals'
  BY <1>1 DEF BrowserTypeOK, Alive, Labels, Locals, UsesSession, StartGivenUp, ChildGone, Return, Goto, locals, Actor
<1> QED BY <1>2, <1>3, <1>4, <1>5, <1>6, <1>7, <1>8 DEF BrowserInv, Alive

LEMMA ClosePageHolds ==
    ASSUME NEW s \in Script
    PROVE  BrowserInv /\ ClosePage(s) => BrowserInv'
<1> SUFFICES ASSUME BrowserInv, ClosePage(s) PROVE BrowserInv'
  OBVIOUS
<1>1. BrowserTypeOK /\ Alive
  BY DEF BrowserInv, Dead, Actor, ClosePage
<1>2. BrowserTypeOK'
  <2>1. pc' \in [Actor -> ScriptLabels] /\ cur' \in [Actor -> Session \cup {NoSession}]
        /\ direct' \in [Script -> BOOLEAN]
    BY <1>1 DEF BrowserTypeOK, ScriptLabels, ClosePage, NavigateFailed, Return, Goto, locals, Actor
  <2>2. \A a \in Actor : pc'[a] \in UsesSession => cur'[a] # NoSession
    BY <1>1 DEF BrowserTypeOK, UsesSession, ClosePage, NavigateFailed, Return, Goto, locals, Actor
  <2>3. session' \in [Session -> Sessions]
    <3>1. cur[s] \in Session
      BY <1>1 DEF BrowserTypeOK, UsesSession, ClosePage, Actor
    <3>2. session[cur[s]] \in Sessions /\ session \in [Session -> Sessions]
      BY <1>1, <3>1 DEF BrowserTypeOK
    <3>3. \/ UNCHANGED session
          \/ session' = [session EXCEPT ![cur[s]] = [session[cur[s]] EXCEPT !.page = NoPage]]
      BY <3>2 DEF ClosePage
    <3>4. [session[cur[s]] EXCEPT !.page = NoPage] \in Sessions
      BY <3>2, SessionUpdates
    <3> QED BY <3>1, <3>2, <3>3, <3>4
  <2> QED BY <1>1, <2>1, <2>2, <2>3 DEF BrowserTypeOK, ClosePage, NavigateFailed, Return, Goto, locals, Actor
<1>3. Labels'
  BY <1>1 DEF BrowserTypeOK, Alive, Labels, ClosePage, NavigateFailed, Return, Goto, locals, Actor
<1>4. Mutexes'
  BY <1>1, BrowserAssumption DEF BrowserTypeOK, Alive, Labels, Mutexes, HasBrowser, HasActive, ClosePage, NavigateFailed, Return, Goto, locals, Actor
<1>5. ActiveHasOwner'
  BY <1>1, BrowserAssumption DEF BrowserTypeOK, Alive, Labels, Mutexes, ActiveHasOwner, HasBrowser, HasActive, ClosePage, NavigateFailed, Return, Goto, locals, Actor
<1>6. Children'
  BY <1>1, BrowserAssumption DEF BrowserTypeOK, Sessions, Alive, Labels, Mutexes, ActiveHasOwner, Children, Running, HasBrowser, HasActive, ClosePage, NavigateFailed, Return, Goto, locals, Actor
<1>7. Pages'
  BY <1>1, BrowserAssumption DEF BrowserTypeOK, Sessions, Page, UsesSession, Alive, Labels, Mutexes, ActiveHasOwner, Pages, OwnPage, HasBrowser, HasActive, ClosePage, NavigateFailed, Return, Goto, locals, Actor
<1>8. Locals'
  BY <1>1 DEF BrowserTypeOK, Alive, Labels, Locals, UsesSession, ClosePage, NavigateFailed, Return, Goto, locals, Actor
<1> QED BY <1>2, <1>3, <1>4, <1>5, <1>6, <1>7, <1>8 DEF BrowserInv, Alive

LEMMA NavigateHolds ==
    ASSUME NEW s \in Script
    PROVE  BrowserInv /\ Navigate(s) => BrowserInv'
<1> SUFFICES ASSUME BrowserInv, Navigate(s) PROVE BrowserInv'
  OBVIOUS
<1>1. BrowserTypeOK /\ Alive
  BY DEF BrowserInv, Dead, Actor, Navigate
<1>2. BrowserTypeOK'
  <2>1. pc' \in [Actor -> ScriptLabels] /\ cur' \in [Actor -> Session \cup {NoSession}]
        /\ direct' \in [Script -> BOOLEAN]
    BY <1>1 DEF BrowserTypeOK, ScriptLabels, Navigate, Goto, locals, Actor
  <2>2. \A a \in Actor : pc'[a] \in UsesSession => cur'[a] # NoSession
    BY <1>1 DEF BrowserTypeOK, UsesSession, Navigate, Goto, locals, Actor
  <2>3. session' \in [Session -> Sessions]
    <3>1. cur[s] \in Session
      BY <1>1 DEF BrowserTypeOK, UsesSession, Navigate, Actor
    <3>2. session[cur[s]] \in Sessions /\ session \in [Session -> Sessions]
      BY <1>1, <3>1 DEF BrowserTypeOK
    <3> DEFINE p == [by |-> s, loaded |-> TRUE]
    <3>3. session' = [session EXCEPT ![cur[s]] = [session[cur[s]] EXCEPT !.page = p]]
      BY <3>2 DEF Navigate
    <3>4. p \in Page \cup {NoPage}
      BY PagesArePages
    <3>5. [session[cur[s]] EXCEPT !.page = p] \in Sessions
      <4> HIDE DEF p
      <4> QED BY <3>2, <3>4, SessionUpdates
    <3> QED BY <3>1, <3>2, <3>3, <3>5
  <2> QED BY <1>1, <2>1, <2>2, <2>3 DEF BrowserTypeOK, Navigate, Goto, locals, Actor
<1>3. Labels'
  BY <1>1 DEF BrowserTypeOK, Alive, Labels, Navigate, Goto, locals, Actor
<1>4. Mutexes'
  BY <1>1, BrowserAssumption DEF BrowserTypeOK, Alive, Labels, Mutexes, HasBrowser, HasActive, Navigate, Goto, locals, Actor
<1>5. ActiveHasOwner'
  BY <1>1, BrowserAssumption DEF BrowserTypeOK, Alive, Labels, Mutexes, ActiveHasOwner, HasBrowser, HasActive, Navigate, Goto, locals, Actor
<1>6. Children'
  BY <1>1, BrowserAssumption DEF BrowserTypeOK, Sessions, Alive, Labels, Mutexes, ActiveHasOwner, Children, Running, HasBrowser, HasActive, Navigate, Goto, locals, Actor
<1>7. Pages'
  <2>1. cur[s] \in Session /\ browserScriptMu = s
    BY <1>1 DEF BrowserTypeOK, UsesSession, Navigate, Actor, Alive, Mutexes, HasBrowser
  <2>2. session[cur[s]] \in Sessions /\ session \in [Session -> Sessions]
    BY <1>1, <2>1 DEF BrowserTypeOK
  <2> DEFINE p == [by |-> s, loaded |-> TRUE]
  <2>3. \A i \in Session : session'[i].page = IF i = cur[s] THEN p ELSE session[i].page
    BY <2>1, <2>2 DEF Navigate, Sessions
  <2>4. p.by = s
    OBVIOUS
  <2>5. UNCHANGED <<browserScriptMu, activeSession, cur>> /\ pc' = [pc EXCEPT ![s] = "read"]
    BY DEF Navigate, Goto, locals
  <2>6. \A r \in Script : pc'[r] \in {"ready", "start_failed", "read", "evaluate"} => r = s
    BY <1>1, <2>1, <2>5 DEF BrowserTypeOK, Alive, Mutexes, HasBrowser, Actor
  <2>7. pc'[s] = "read"
    BY <1>1, <2>5 DEF BrowserTypeOK, Actor
  <2> HIDE DEF p
  <2>8. activeSession' # NoSession => \/ session'[activeSession'].page = NoPage
                                     \/ session'[activeSession'].page.by = browserScriptMu'
    BY <1>1, <2>1, <2>3, <2>4, <2>5 DEF BrowserTypeOK, Alive, Pages
  <2>9. session'[cur'[s]].page = p
    BY <2>1, <2>3, <2>5
  <2> QED BY <2>6, <2>7, <2>8, <2>9 DEF Pages, OwnPage, p
<1>8. Locals'
  BY <1>1 DEF BrowserTypeOK, Alive, Labels, Locals, UsesSession, Navigate, Goto, locals, Actor
<1> QED BY <1>2, <1>3, <1>4, <1>5, <1>6, <1>7, <1>8 DEF BrowserInv, Alive

LEMMA NavigateFailsHolds ==
    ASSUME NEW s \in Script
    PROVE  BrowserInv /\ NavigateFails(s) => BrowserInv'
<1> SUFFICES ASSUME BrowserInv, NavigateFails(s) PROVE BrowserInv'
  OBVIOUS
<1>1. BrowserTypeOK /\ Alive
  BY DEF BrowserInv, Dead, Actor, NavigateFails
<1>2. BrowserTypeOK'
  <2>1. pc' \in [Actor -> ScriptLabels] /\ cur' \in [Actor -> Session \cup {NoSession}]
        /\ direct' \in [Script -> BOOLEAN]
    <3>1. \/ pc' = [pc EXCEPT ![s] = "fallback"] /\ UNCHANGED <<cur, direct>>
          \/ /\ pc' = [pc EXCEPT ![s] = "lua"] /\ cur' = [cur EXCEPT ![s] = NoSession]
             /\ direct' = [direct EXCEPT ![s] = FALSE]
      BY DEF NavigateFails, NavigateFailed, Return, Goto, locals
    <3>2. pc' \in [Actor -> ScriptLabels]
      BY <1>1, <3>1 DEF BrowserTypeOK, ScriptLabels
    <3> QED BY <1>1, <3>1, <3>2 DEF BrowserTypeOK
  <2>2. \A a \in Actor : pc'[a] \in UsesSession => cur'[a] # NoSession
    BY <1>1 DEF BrowserTypeOK, UsesSession, NavigateFails, NavigateFailed, Return, Goto, locals, Actor
  <2>3. session' \in [Session -> Sessions]
    <3>1. cur[s] \in Session
      BY <1>1 DEF BrowserTypeOK, UsesSession, NavigateFails, Actor
    <3>2. session[cur[s]] \in Sessions /\ session \in [Session -> Sessions]
      BY <1>1, <3>1 DEF BrowserTypeOK
    <3>3. PICK p \in {NoPage, [by |-> s, loaded |-> FALSE]} :
             session' = [session EXCEPT ![cur[s]] = [session[cur[s]] EXCEPT !.page = p]]
      BY <3>2 DEF NavigateFails
    <3>4. [session[cur[s]] EXCEPT !.page = p] \in Sessions
      BY <3>2, SessionUpdates, PagesArePages
    <3> QED BY <3>1, <3>2, <3>3, <3>4
  <2> QED BY <1>1, <2>1, <2>2, <2>3 DEF BrowserTypeOK, NavigateFails, NavigateFailed, Return, Goto, locals, Actor
<1>3. Labels'
  BY <1>1 DEF BrowserTypeOK, Alive, Labels, NavigateFails, NavigateFailed, Return, Goto, locals, Actor
<1>4. Mutexes'
  BY <1>1, BrowserAssumption DEF BrowserTypeOK, Alive, Labels, Mutexes, HasBrowser, HasActive, NavigateFails, NavigateFailed, Return, Goto, locals, Actor
<1>5. ActiveHasOwner'
  BY <1>1, BrowserAssumption DEF BrowserTypeOK, Alive, Labels, Mutexes, ActiveHasOwner, HasBrowser, HasActive, NavigateFails, NavigateFailed, Return, Goto, locals, Actor
<1>6. Children'
  BY <1>1, BrowserAssumption DEF BrowserTypeOK, Sessions, Alive, Labels, Mutexes, ActiveHasOwner, Children, Running, HasBrowser, HasActive, NavigateFails, NavigateFailed, Return, Goto, locals, Actor
<1>7. Pages'
  BY <1>1, BrowserAssumption DEF BrowserTypeOK, Sessions, Page, UsesSession, Alive, Labels, Mutexes, ActiveHasOwner, Pages, OwnPage, HasBrowser, HasActive, NavigateFails, NavigateFailed, Return, Goto, locals, Actor
<1>8. Locals'
  BY <1>1 DEF BrowserTypeOK, Alive, Labels, Locals, UsesSession, NavigateFails, NavigateFailed, Return, Goto, locals, Actor
<1> QED BY <1>2, <1>3, <1>4, <1>5, <1>6, <1>7, <1>8 DEF BrowserInv, Alive

LEMMA NavigatePanicsHolds ==
    ASSUME NEW s \in Script
    PROVE  BrowserInv /\ NavigatePanics(s) => BrowserInv'
<1> SUFFICES ASSUME BrowserInv, NavigatePanics(s) PROVE BrowserInv'
  OBVIOUS
<1>1. BrowserTypeOK /\ Alive
  BY DEF BrowserInv, Dead, Actor, NavigatePanics
<1>2. BrowserTypeOK'
  BY <1>1, BrowserAssumption DEF BrowserTypeOK, ScriptLabels, UsesSession, Sessions, Page, Alive, Labels, NavigatePanics, Goto, locals, Actor
<1>3. Labels'
  BY <1>1 DEF BrowserTypeOK, Alive, Labels, NavigatePanics, Goto, locals, Actor
<1>4. Mutexes'
  BY <1>1, BrowserAssumption DEF BrowserTypeOK, Alive, Labels, Mutexes, HasBrowser, HasActive, NavigatePanics, Goto, locals, Actor
<1>5. ActiveHasOwner'
  BY <1>1, BrowserAssumption DEF BrowserTypeOK, Alive, Labels, Mutexes, ActiveHasOwner, HasBrowser, HasActive, NavigatePanics, Goto, locals, Actor
<1>6. Children'
  BY <1>1, BrowserAssumption DEF BrowserTypeOK, Sessions, Alive, Labels, Mutexes, ActiveHasOwner, Children, Running, HasBrowser, HasActive, NavigatePanics, Goto, locals, Actor
<1>7. Pages'
  BY <1>1, BrowserAssumption DEF BrowserTypeOK, Sessions, Page, UsesSession, Alive, Labels, Mutexes, ActiveHasOwner, Pages, OwnPage, HasBrowser, HasActive, NavigatePanics, Goto, locals, Actor
<1>8. Locals'
  BY <1>1 DEF BrowserTypeOK, Alive, Labels, Locals, UsesSession, NavigatePanics, Goto, locals, Actor
<1> QED BY <1>2, <1>3, <1>4, <1>5, <1>6, <1>7, <1>8 DEF BrowserInv, Alive

LEMMA FallbackHolds ==
    ASSUME NEW s \in Script
    PROVE  BrowserInv /\ Fallback(s) => BrowserInv'
<1> SUFFICES ASSUME BrowserInv, Fallback(s) PROVE BrowserInv'
  OBVIOUS
<1>1. BrowserTypeOK /\ Alive
  BY DEF BrowserInv, Dead, Actor, Fallback
<1>2. BrowserTypeOK'
  BY <1>1, BrowserAssumption DEF BrowserTypeOK, ScriptLabels, UsesSession, Sessions, Page, Alive, Labels, Fallback, DestroyActive, Goto, locals, Actor
<1>3. Labels'
  BY <1>1 DEF BrowserTypeOK, Alive, Labels, Fallback, DestroyActive, Goto, locals, Actor
<1>4. Mutexes'
  BY <1>1, BrowserAssumption DEF BrowserTypeOK, Alive, Labels, Mutexes, HasBrowser, HasActive, Fallback, DestroyActive, Goto, locals, Actor
<1>5. ActiveHasOwner'
  BY <1>1, BrowserAssumption DEF BrowserTypeOK, Alive, Labels, Mutexes, ActiveHasOwner, HasBrowser, HasActive, Fallback, DestroyActive, Goto, locals, Actor
<1>6. Children'
  BY <1>1, BrowserAssumption DEF BrowserTypeOK, Sessions, Alive, Labels, Mutexes, ActiveHasOwner, Children, Running, HasBrowser, HasActive, Fallback, DestroyActive, Goto, locals, Actor
<1>7. Pages'
  BY <1>1, BrowserAssumption DEF BrowserTypeOK, Sessions, Page, UsesSession, Alive, Labels, Mutexes, ActiveHasOwner, Pages, OwnPage, HasBrowser, HasActive, Fallback, DestroyActive, Goto, locals, Actor
<1>8. Locals'
  BY <1>1 DEF BrowserTypeOK, Alive, Labels, Locals, UsesSession, Fallback, DestroyActive, Goto, locals, Actor
<1> QED BY <1>2, <1>3, <1>4, <1>5, <1>6, <1>7, <1>8 DEF BrowserInv, Alive

LEMMA ReadHTMLHolds ==
    ASSUME NEW s \in Script
    PROVE  BrowserInv /\ ReadHTML(s) => BrowserInv'
<1> SUFFICES ASSUME BrowserInv, ReadHTML(s) PROVE BrowserInv'
  OBVIOUS
<1>1. BrowserTypeOK /\ Alive
  BY DEF BrowserInv, Dead, Actor, ReadHTML
<1>2. BrowserTypeOK'
  BY <1>1, BrowserAssumption DEF BrowserTypeOK, ScriptLabels, UsesSession, Sessions, Page, Alive, Labels, ReadHTML, Return, Goto, locals, Actor
<1>3. Labels'
  BY <1>1 DEF BrowserTypeOK, Alive, Labels, ReadHTML, Return, Goto, locals, Actor
<1>4. Mutexes'
  BY <1>1, BrowserAssumption DEF BrowserTypeOK, Alive, Labels, Mutexes, HasBrowser, HasActive, ReadHTML, Return, Goto, locals, Actor
<1>5. ActiveHasOwner'
  BY <1>1, BrowserAssumption DEF BrowserTypeOK, Alive, Labels, Mutexes, ActiveHasOwner, HasBrowser, HasActive, ReadHTML, Return, Goto, locals, Actor
<1>6. Children'
  BY <1>1, BrowserAssumption DEF BrowserTypeOK, Sessions, Alive, Labels, Mutexes, ActiveHasOwner, Children, Running, HasBrowser, HasActive, ReadHTML, Return, Goto, locals, Actor
<1>7. Pages'
  BY <1>1, BrowserAssumption DEF BrowserTypeOK, Sessions, Page, UsesSession, Alive, Labels, Mutexes, ActiveHasOwner, Pages, OwnPage, HasBrowser, HasActive, ReadHTML, Return, Goto, locals, Actor
<1>8. Locals'
  BY <1>1 DEF BrowserTypeOK, Alive, Labels, Locals, UsesSession, ReadHTML, Return, Goto, locals, Actor
<1> QED BY <1>2, <1>3, <1>4, <1>5, <1>6, <1>7, <1>8 DEF BrowserInv, Alive

LEMMA BrowserEvalHolds ==
    ASSUME NEW s \in Script
    PROVE  BrowserInv /\ BrowserEval(s) => BrowserInv'
<1> SUFFICES ASSUME BrowserInv, BrowserEval(s) PROVE BrowserInv'
  OBVIOUS
<1>1. BrowserTypeOK /\ Alive
  BY DEF BrowserInv, Dead, Actor, BrowserEval
<1>2. BrowserTypeOK'
  <2>1. pc' \in [Actor -> ScriptLabels] /\ cur' \in [Actor -> Session \cup {NoSession}]
        /\ direct' \in [Script -> BOOLEAN]
    BY <1>1 DEF BrowserTypeOK, ScriptLabels, BrowserEval, Return, Goto, Actor
  <2>2. \A a \in Actor : pc'[a] \in UsesSession => cur'[a] # NoSession
    BY <1>1 DEF BrowserTypeOK, UsesSession, BrowserEval, Return, Goto, Actor
  <2> QED BY <1>1, <2>1, <2>2 DEF BrowserTypeOK, BrowserEval
<1>3. Labels'
  BY <1>1 DEF BrowserTypeOK, Alive, Labels, BrowserEval, Return, Goto, locals, Actor
<1>4. Mutexes'
  BY <1>1, BrowserAssumption DEF BrowserTypeOK, Alive, Labels, Mutexes, HasBrowser, HasActive, BrowserEval, Return, Goto, locals, Actor
<1>5. ActiveHasOwner'
  BY <1>1, BrowserAssumption DEF BrowserTypeOK, Alive, Labels, Mutexes, ActiveHasOwner, HasBrowser, HasActive, BrowserEval, Return, Goto, locals, Actor
<1>6. Children'
  BY <1>1, BrowserAssumption DEF BrowserTypeOK, Sessions, Alive, Labels, Mutexes, ActiveHasOwner, Children, Running, HasBrowser, HasActive, BrowserEval, Return, Goto, locals, Actor
<1>7. Pages'
  BY <1>1, BrowserAssumption DEF BrowserTypeOK, Sessions, Page, UsesSession, Alive, Labels, Mutexes, ActiveHasOwner, Pages, OwnPage, HasBrowser, HasActive, BrowserEval, Return, Goto, locals, Actor
<1>8. Locals'
  BY <1>1 DEF BrowserTypeOK, Alive, Labels, Locals, UsesSession, BrowserEval, Return, Goto, locals, Actor
<1> QED BY <1>2, <1>3, <1>4, <1>5, <1>6, <1>7, <1>8 DEF BrowserInv, Alive

LEMMA EvaluateHolds ==
    ASSUME NEW s \in Script
    PROVE  BrowserInv /\ Evaluate(s) => BrowserInv'
<1> SUFFICES ASSUME BrowserInv, Evaluate(s) PROVE BrowserInv'
  OBVIOUS
<1>1. BrowserTypeOK /\ Alive
  BY DEF BrowserInv, Dead, Actor, Evaluate
<1>2. BrowserTypeOK'
  BY <1>1, BrowserAssumption DEF BrowserTypeOK, ScriptLabels, UsesSession, Sessions, Page, Alive, Labels, Evaluate, Return, Goto, locals, Actor
<1>3. Labels'
  BY <1>1 DEF BrowserTypeOK, Alive, Labels, Evaluate, Return, Goto, locals, Actor
<1>4. Mutexes'
  BY <1>1, BrowserAssumption DEF BrowserTypeOK, Alive, Labels, Mutexes, HasBrowser, HasActive, Evaluate, Return, Goto, locals, Actor
<1>5. ActiveHasOwner'
  BY <1>1, BrowserAssumption DEF BrowserTypeOK, Alive, Labels, Mutexes, ActiveHasOwner, HasBrowser, HasActive, Evaluate, Return, Goto, locals, Actor
<1>6. Children'
  BY <1>1, BrowserAssumption DEF BrowserTypeOK, Sessions, Alive, Labels, Mutexes, ActiveHasOwner, Children, Running, HasBrowser, HasActive, Evaluate, Return, Goto, locals, Actor
<1>7. Pages'
  BY <1>1, BrowserAssumption DEF BrowserTypeOK, Sessions, Page, UsesSession, Alive, Labels, Mutexes, ActiveHasOwner, Pages, OwnPage, HasBrowser, HasActive, Evaluate, Return, Goto, locals, Actor
<1>8. Locals'
  BY <1>1 DEF BrowserTypeOK, Alive, Labels, Locals, UsesSession, Evaluate, Return, Goto, locals, Actor
<1> QED BY <1>2, <1>3, <1>4, <1>5, <1>6, <1>7, <1>8 DEF BrowserInv, Alive

LEMMA ReleaseBrowserHolds ==
    ASSUME NEW a \in Actor
    PROVE  BrowserInv /\ ReleaseBrowser(a) => BrowserInv'
<1> SUFFICES ASSUME BrowserInv, ReleaseBrowser(a) PROVE BrowserInv'
  OBVIOUS
<1>1. BrowserTypeOK /\ Alive
  BY DEF BrowserInv, Dead, Actor, ReleaseBrowser
<1>2. BrowserTypeOK'
  BY <1>1, BrowserAssumption DEF BrowserTypeOK, ScriptLabels, UsesSession, Sessions, Page, Alive, Labels, ReleaseBrowser, DestroyActive, Goto, locals, Actor
<1>3. Labels'
  BY <1>1 DEF BrowserTypeOK, Alive, Labels, ReleaseBrowser, DestroyActive, Goto, locals, Actor
<1>4. Mutexes'
  BY <1>1, BrowserAssumption DEF BrowserTypeOK, Alive, Labels, Mutexes, HasBrowser, HasActive, ReleaseBrowser, DestroyActive, Goto, locals, Actor
<1>5. ActiveHasOwner'
  BY <1>1, BrowserAssumption DEF BrowserTypeOK, Alive, Labels, Mutexes, ActiveHasOwner, HasBrowser, HasActive, ReleaseBrowser, DestroyActive, Goto, locals, Actor
<1>6. Children'
  BY <1>1, BrowserAssumption DEF BrowserTypeOK, Sessions, Alive, Labels, Mutexes, ActiveHasOwner, Children, Running, HasBrowser, HasActive, ReleaseBrowser, DestroyActive, Goto, locals, Actor
<1>7. Pages'
  BY <1>1, BrowserAssumption DEF BrowserTypeOK, Sessions, Page, UsesSession, Alive, Labels, Mutexes, ActiveHasOwner, Pages, OwnPage, HasBrowser, HasActive, ReleaseBrowser, DestroyActive, Goto, locals, Actor
<1>8. Locals'
  BY <1>1 DEF BrowserTypeOK, Alive, Labels, Locals, UsesSession, ReleaseBrowser, DestroyActive, Goto, locals, Actor
<1> QED BY <1>2, <1>3, <1>4, <1>5, <1>6, <1>7, <1>8 DEF BrowserInv, Alive

LEMMA StopPageHolds ==
    ASSUME NEW a \in Actor
    PROVE  BrowserInv /\ StopPage(a) => BrowserInv'
<1> SUFFICES ASSUME BrowserInv, StopPage(a) PROVE BrowserInv'
  OBVIOUS
<1>1. BrowserTypeOK /\ Alive
  BY DEF BrowserInv, Dead, Actor, StopPage
<1>2. BrowserTypeOK'
  BY <1>1, BrowserAssumption DEF BrowserTypeOK, ScriptLabels, UsesSession, Sessions, Page, Alive, Labels, StopPage, Goto, locals, Actor
<1>3. Labels'
  BY <1>1 DEF BrowserTypeOK, Alive, Labels, StopPage, Goto, locals, Actor
<1>4. Mutexes'
  BY <1>1, BrowserAssumption DEF BrowserTypeOK, Alive, Labels, Mutexes, HasBrowser, HasActive, StopPage, Goto, locals, Actor
<1>5. ActiveHasOwner'
  BY <1>1, BrowserAssumption DEF BrowserTypeOK, Alive, Labels, Mutexes, ActiveHasOwner, HasBrowser, HasActive, StopPage, Goto, locals, Actor
<1>6. Children'
  BY <1>1, BrowserAssumption DEF BrowserTypeOK, Sessions, Alive, Labels, Mutexes, ActiveHasOwner, Children, Running, HasBrowser, HasActive, StopPage, Goto, locals, Actor
<1>7. Pages'
  <2>1. cur[a] \in Session /\ activeSession = NoSession
    <3>1. activeSessionMu = a /\ a # Nobody
      BY <1>1, BrowserAssumption DEF StopPage, Alive, Mutexes, HasActive, Actor
    <3> QED BY <1>1, <3>1 DEF BrowserTypeOK, UsesSession, StopPage, Actor, Alive, ActiveHasOwner
  <2>2. session[cur[a]] \in Sessions /\ session \in [Session -> Sessions]
    BY <1>1, <2>1 DEF BrowserTypeOK
  <2>3. \A i \in Session : session'[i].page \in {session[i].page, NoPage}
    BY <2>1, <2>2 DEF StopPage, Sessions
  <2>4. UNCHANGED <<browserScriptMu, activeSession, cur>> /\ pc' = [pc EXCEPT ![a] = "stop_child"]
    BY DEF StopPage, Goto, locals
  <2>5. \A r \in Script : pc'[r] \in {"ready", "start_failed", "read", "evaluate"} =>
            pc'[r] = pc[r] /\ cur[r] \in Session
    BY <1>1, <2>4 DEF BrowserTypeOK, UsesSession, Actor
  <2>6. \A r \in Script : pc'[r] \in {"ready", "start_failed"} => session'[cur'[r]].page = NoPage
    BY <1>1, <2>3, <2>4, <2>5 DEF Alive, Pages
  <2>7. OwnPage'
    <3> SUFFICES ASSUME NEW r \in Script, pc'[r] \in {"read", "evaluate"}
                 PROVE  LET p == session'[cur'[r]].page
                        IN  /\ pc'[r] = "read" => p \in {NoPage, [by |-> r, loaded |-> TRUE]}
                            /\ pc'[r] = "evaluate" => p = NoPage \/ p.by = r
      BY DEF OwnPage
    <3>1. pc'[r] = pc[r] /\ cur'[r] = cur[r] /\ cur[r] \in Session
      BY <2>4, <2>5
    <3>2. /\ pc[r] = "read" => session[cur[r]].page \in {NoPage, [by |-> r, loaded |-> TRUE]}
          /\ pc[r] = "evaluate" => session[cur[r]].page = NoPage \/ session[cur[r]].page.by = r
      BY <1>1, <3>1 DEF Alive, Pages, OwnPage
    <3>3. session'[cur'[r]].page \in {session[cur[r]].page, NoPage}
      BY <3>1, <2>3
    <3> QED BY <3>1, <3>2, <3>3
  <2> QED BY <2>1, <2>4, <2>6, <2>7 DEF Pages
<1>8. Locals'
  BY <1>1 DEF BrowserTypeOK, Alive, Labels, Locals, UsesSession, StopPage, Goto, locals, Actor
<1> QED BY <1>2, <1>3, <1>4, <1>5, <1>6, <1>7, <1>8 DEF BrowserInv, Alive

LEMMA StopChildHolds ==
    ASSUME NEW a \in Actor
    PROVE  BrowserInv /\ StopChild(a) => BrowserInv'
<1> SUFFICES ASSUME BrowserInv, StopChild(a) PROVE BrowserInv'
  OBVIOUS
<1>1. BrowserTypeOK /\ Alive
  BY DEF BrowserInv, Dead, Actor, StopChild
<1>2. BrowserTypeOK'
  BY <1>1, BrowserAssumption DEF BrowserTypeOK, ScriptLabels, UsesSession, Sessions, Page, Alive, Labels, StopChild, ChildGone, Goto, locals, Actor
<1>3. Labels'
  BY <1>1, BrowserAssumption DEF BrowserTypeOK, Alive, Labels, StopChild, ChildGone, Goto, locals, Actor
<1>4. Mutexes'
  BY <1>1, BrowserAssumption DEF BrowserTypeOK, Alive, Labels, Mutexes, HasBrowser, HasActive, StopChild, ChildGone, Goto, locals, Actor
<1>5. ActiveHasOwner'
  BY <1>1, BrowserAssumption DEF BrowserTypeOK, Alive, Labels, Mutexes, ActiveHasOwner, HasBrowser, HasActive, StopChild, ChildGone, Goto, locals, Actor
<1>6. Children'
  BY <1>1, BrowserAssumption DEF BrowserTypeOK, Sessions, Alive, Labels, Mutexes, ActiveHasOwner, Children, Running, HasBrowser, HasActive, StopChild, ChildGone, Goto, locals, Actor
<1>7. Pages'
  BY <1>1, BrowserAssumption DEF BrowserTypeOK, Sessions, Page, UsesSession, Alive, Labels, Mutexes, ActiveHasOwner, Pages, OwnPage, HasBrowser, HasActive, StopChild, ChildGone, Goto, locals, Actor
<1>8. Locals'
  BY <1>1 DEF BrowserTypeOK, Alive, Labels, Locals, UsesSession, StopChild, ChildGone, Goto, locals, Actor
<1> QED BY <1>2, <1>3, <1>4, <1>5, <1>6, <1>7, <1>8 DEF BrowserInv, Alive

LEMMA ChildDiesHolds ==
    ASSUME NEW i \in Session
    PROVE  BrowserInv /\ ChildDies(i) => BrowserInv'
<1> SUFFICES ASSUME BrowserInv, ChildDies(i) PROVE BrowserInv'
  OBVIOUS
<1>1. BrowserTypeOK /\ Alive
  BY DEF BrowserInv, Dead, Actor, ChildDies
<1>2. BrowserTypeOK'
  BY <1>1, BrowserAssumption DEF BrowserTypeOK, ScriptLabels, UsesSession, Sessions, Page, Alive, Labels, ChildDies, ChildGone, Goto, locals, Actor
<1>3. Labels'
  BY <1>1 DEF BrowserTypeOK, Alive, Labels, ChildDies, ChildGone, Goto, locals, Actor
<1>4. Mutexes'
  BY <1>1, BrowserAssumption DEF BrowserTypeOK, Alive, Labels, Mutexes, HasBrowser, HasActive, ChildDies, ChildGone, Goto, locals, Actor
<1>5. ActiveHasOwner'
  BY <1>1, BrowserAssumption DEF BrowserTypeOK, Alive, Labels, Mutexes, ActiveHasOwner, HasBrowser, HasActive, ChildDies, ChildGone, Goto, locals, Actor
<1>6. Children'
  BY <1>1, BrowserAssumption DEF BrowserTypeOK, Sessions, Alive, Labels, Mutexes, ActiveHasOwner, Children, Running, HasBrowser, HasActive, ChildDies, ChildGone, Goto, locals, Actor
<1>7. Pages'
  BY <1>1, BrowserAssumption DEF BrowserTypeOK, Sessions, Page, UsesSession, Alive, Labels, Mutexes, ActiveHasOwner, Pages, OwnPage, HasBrowser, HasActive, ChildDies, ChildGone, Goto, locals, Actor
<1>8. Locals'
  BY <1>1 DEF BrowserTypeOK, Alive, Labels, Locals, UsesSession, ChildDies, ChildGone, Goto, locals, Actor
<1> QED BY <1>2, <1>3, <1>4, <1>5, <1>6, <1>7, <1>8 DEF BrowserInv, Alive

LEMMA ChildHangsHolds ==
    ASSUME NEW i \in Session
    PROVE  BrowserInv /\ ChildHangs(i) => BrowserInv'
<1> SUFFICES ASSUME BrowserInv, ChildHangs(i) PROVE BrowserInv'
  OBVIOUS
<1>1. BrowserTypeOK /\ Alive
  BY DEF BrowserInv, Dead, Actor, ChildHangs
<1>2. BrowserTypeOK'
  BY <1>1, BrowserAssumption DEF BrowserTypeOK, ScriptLabels, UsesSession, Sessions, Page, Alive, Labels, ChildHangs, Goto, locals, Actor
<1>3. Labels'
  BY <1>1 DEF BrowserTypeOK, Alive, Labels, ChildHangs, Goto, locals, Actor
<1>4. Mutexes'
  BY <1>1, BrowserAssumption DEF BrowserTypeOK, Alive, Labels, Mutexes, HasBrowser, HasActive, ChildHangs, Goto, locals, Actor
<1>5. ActiveHasOwner'
  BY <1>1, BrowserAssumption DEF BrowserTypeOK, Alive, Labels, Mutexes, ActiveHasOwner, HasBrowser, HasActive, ChildHangs, Goto, locals, Actor
<1>6. Children'
  BY <1>1, BrowserAssumption DEF BrowserTypeOK, Sessions, Alive, Labels, Mutexes, ActiveHasOwner, Children, Running, HasBrowser, HasActive, ChildHangs, Goto, locals, Actor
<1>7. Pages'
  BY <1>1, BrowserAssumption DEF BrowserTypeOK, Sessions, Page, UsesSession, Alive, Labels, Mutexes, ActiveHasOwner, Pages, OwnPage, HasBrowser, HasActive, ChildHangs, Goto, locals, Actor
<1>8. Locals'
  BY <1>1 DEF BrowserTypeOK, Alive, Labels, Locals, UsesSession, ChildHangs, Goto, locals, Actor
<1> QED BY <1>2, <1>3, <1>4, <1>5, <1>6, <1>7, <1>8 DEF BrowserInv, Alive

LEMMA SignalHolds ==
    BrowserInv /\ Signal => BrowserInv'
<1> SUFFICES ASSUME BrowserInv, Signal PROVE BrowserInv'
  OBVIOUS
<1>1. BrowserTypeOK /\ Alive
  BY DEF BrowserInv, Dead, Actor, Signal
<1>2. BrowserTypeOK'
  BY <1>1, BrowserAssumption DEF BrowserTypeOK, ScriptLabels, UsesSession, Sessions, Page, Alive, Labels, Signal, Goto, locals, Actor
<1>3. Labels'
  BY <1>1 DEF BrowserTypeOK, Alive, Labels, Signal, Goto, locals, Actor
<1>4. Mutexes'
  BY <1>1, BrowserAssumption DEF BrowserTypeOK, Alive, Labels, Mutexes, HasBrowser, HasActive, Signal, Goto, locals, Actor
<1>5. ActiveHasOwner'
  BY <1>1, BrowserAssumption DEF BrowserTypeOK, Alive, Labels, Mutexes, ActiveHasOwner, HasBrowser, HasActive, Signal, Goto, locals, Actor
<1>6. Children'
  BY <1>1, BrowserAssumption DEF BrowserTypeOK, Sessions, Alive, Labels, Mutexes, ActiveHasOwner, Children, Running, HasBrowser, HasActive, Signal, Goto, locals, Actor
<1>7. Pages'
  BY <1>1, BrowserAssumption DEF BrowserTypeOK, Sessions, Page, UsesSession, Alive, Labels, Mutexes, ActiveHasOwner, Pages, OwnPage, HasBrowser, HasActive, Signal, Goto, locals, Actor
<1>8. Locals'
  BY <1>1 DEF BrowserTypeOK, Alive, Labels, Locals, UsesSession, Signal, Goto, locals, Actor
<1> QED BY <1>2, <1>3, <1>4, <1>5, <1>6, <1>7, <1>8 DEF BrowserInv, Alive

LEMMA OwnedWhileAlive ==
    BrowserTypeOK /\ Alive => OneChild /\ ChildHasOwner
<1> SUFFICES ASSUME BrowserTypeOK, Alive PROVE OneChild /\ ChildHasOwner
  OBVIOUS
<1>1. OneChild
  <2> SUFFICES ASSUME NEW i \in Running, NEW j \in Running PROVE i = j
    BY DEF OneChild
  <2>1. i # NoSession /\ j # NoSession
    BY BrowserAssumption DEF Running
  <2> QED BY <2>1 DEF Alive, ActiveHasOwner, Children
<1>2. ChildHasOwner
  <2> SUFFICES ASSUME NEW i \in Running
               PROVE  browserScriptMu # Nobody \/ activeSessionMu = Handler
    BY DEF ChildHasOwner
  <2>1. i # NoSession
    BY BrowserAssumption DEF Running
  <2>2. CASE i = activeSession
    BY <2>1, <2>2 DEF Alive, ActiveHasOwner
  <2>3. CASE activeSessionMu \in Script
    BY <2>3, BrowserAssumption DEF Alive, Mutexes, HasActive, HasBrowser, Actor
  <2>4. activeSessionMu # Nobody => activeSessionMu \in Actor
    BY DEF BrowserTypeOK
  <2> QED BY <2>2, <2>3, <2>4 DEF Alive, Children, Actor
<1> QED BY <1>1, <1>2

\* Nothing happens between the end of StopObscura and the end of the process: the
\* scripts stop wherever they are.
LEMMA ExitHolds == BrowserInv /\ Exit => BrowserInv'
<1> SUFFICES ASSUME BrowserInv, Exit PROVE BrowserInv'
  OBVIOUS
<1>1. BrowserTypeOK /\ Alive
  BY DEF BrowserInv, Dead, Actor, Exit
<1>2. BrowserTypeOK'
  <2>1. pc' \in [Actor -> ScriptLabels]
    BY DEF Exit, ScriptLabels
  <2>2. \A a \in Actor : pc'[a] \notin UsesSession
    BY DEF Exit, UsesSession
  <2> QED BY <1>1, <2>1, <2>2 DEF BrowserTypeOK, Exit, locals
<1>3. OneChild /\ ChildHasOwner
  BY <1>1, OwnedWhileAlive
<1>4. Dead'
  BY <1>3 DEF Dead, Exit, OneChild, ChildHasOwner, Running
<1> QED BY <1>2, <1>4 DEF BrowserInv

LEMMA IdleHolds == BrowserInv /\ UNCHANGED browserVars => BrowserInv'
BY DEF BrowserInv, BrowserTypeOK, Alive, Labels, Mutexes, ActiveHasOwner, Children, Pages,
       OwnPage, Locals, Dead, OneChild, ChildHasOwner, Running, browserVars, locals

LEMMA BrowserInitHolds == BrowserInit => BrowserInv
<1> SUFFICES ASSUME BrowserInit PROVE BrowserInv
  OBVIOUS
<1>1. BrowserTypeOK
  BY DEF BrowserInit, BrowserTypeOK, Sessions, ScriptLabels, UsesSession
<1>2. Labels /\ Locals
  BY BrowserAssumption DEF BrowserInit, Labels, Locals, Actor
<1>3. Mutexes /\ ActiveHasOwner
  BY BrowserAssumption DEF BrowserInit, Mutexes, HasBrowser, HasActive, ActiveHasOwner, Actor
<1>4. Children /\ Pages
  BY DEF BrowserInit, Children, Pages, OwnPage, Running, Actor
<1> QED BY <1>1, <1>2, <1>3, <1>4 DEF BrowserInv, Alive

LEMMA BrowserNextHolds == BrowserInv /\ [BrowserNext]_browserVars => BrowserInv'
<1> SUFFICES ASSUME BrowserInv, [BrowserNext]_browserVars PROVE BrowserInv'
  OBVIOUS
<1>1. ASSUME NEW s \in Script, Proceed(s) PROVE BrowserInv'
  BY <1>1, UnlockHolds, BrowserFetchHolds, SpawnHolds, SpawnFailsHolds, ReadyHolds,
     StartFailsHolds, StartGivenUpHolds, ClosePageHolds, NavigateHolds, NavigateFailsHolds,
     NavigatePanicsHolds, FallbackHolds, ReadHTMLHolds, BrowserEvalHolds, EvaluateHolds
     DEF Proceed
<1>2. ASSUME NEW s \in Script,
             ScriptStarts(s) \/ Call(s) \/ AcquireBrowser(s) \/ ScriptEnds(s)
      PROVE  BrowserInv'
  BY <1>2, ScriptStartsHolds, CallHolds, AcquireBrowserHolds, ScriptEndsHolds
<1>3. ASSUME NEW a \in Actor, Stop(a) PROVE BrowserInv'
  BY <1>3, ReleaseBrowserHolds, StopPageHolds, StopChildHolds DEF Stop
<1>4. ASSUME NEW i \in Session, ChildDies(i) \/ ChildHangs(i) PROVE BrowserInv'
  BY <1>4, ChildDiesHolds, ChildHangsHolds
<1>5. ASSUME Signal \/ Exit \/ Halted PROVE BrowserInv'
  BY <1>5, SignalHolds, ExitHolds, IdleHolds DEF Halted
<1>6. ASSUME UNCHANGED browserVars PROVE BrowserInv'
  BY <1>6, IdleHolds
<1> QED BY <1>1, <1>2, <1>3, <1>4, <1>5, <1>6 DEF BrowserNext

LEMMA BrowserAlwaysHolds == BrowserSpec => []BrowserInv
<1>1. BrowserSpec => BrowserInit /\ [][BrowserNext]_browserVars
  BY DEF BrowserSpec
<1> QED BY <1>1, BrowserInitHolds, BrowserNextHolds, PTL

-----------------------------------------------------------------------------
(* Theorems *)

\* Every reachable state is well typed, and a goroutine that uses a session has one.
THEOREM BrowserTypeCorrect == BrowserSpec => []BrowserTypeOK
<1>1. BrowserInv => BrowserTypeOK
  BY DEF BrowserInv
<1> QED BY <1>1, BrowserAlwaysHolds, PTL

\* One child runs at most, for a script that still owns the browser or being stopped, and
\* a fetch or an expression sees a page of its own script, for any number of scripts,
\* whatever fails and whenever the signal handler stops the session (browser.go).
THEOREM BrowserAlwaysOwned == BrowserSpec => []BrowserIsOwned
<1>1. BrowserInv => BrowserIsOwned
  <2>1. Alive /\ BrowserTypeOK => BrowserIsOwned
    BY OwnedWhileAlive DEF Alive, Pages, BrowserIsOwned
  <2>2. Dead => BrowserIsOwned
    BY DEF Dead, BrowserIsOwned, OwnPage, Actor
  <2> QED BY <2>1, <2>2 DEF BrowserInv
<1> QED BY <1>1, BrowserAlwaysHolds, PTL
=============================================================================
