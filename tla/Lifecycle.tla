------------------------------ MODULE Lifecycle ------------------------------
(***************************************************************************)
(* The open / close / reload life cycle of DevBrowser (package devbrowser):*)
(* goroutines that call the public API, the opener goroutine each Open     *)
(* starts, the monitor that opener leaves behind, and the listener that    *)
(* closes the browser on the exit signal.  They share the fields of one    *)
(* DevBrowser value, some under Mu and some not, two unbuffered channels   *)
(* and the chromedp contexts (one per opener).                             *)
(*                                                                         *)
(* A session is one run of the opener and, with it, the one chromedp       *)
(* context CreateBrowserContext makes.  chromedp is reduced to what its    *)
(* callers can tell apart: whether a context has a browser attached, how   *)
(* many Chrome windows were started under it, whether it is done.          *)
(***************************************************************************)
EXTENDS Naturals, FiniteSets

CONSTANTS
  Callers,        \* goroutines that call the public API
  MaxSessions,    \* bound: how many times an Open may start Chrome
  Ops,            \* Ops[p]: the API calls goroutine p makes
  AutoStarts,     \* values AutoStart may have when an Open reads it
  TestModes,      \* values TestMode may have when an Open reads it
  ChromeMayFail,  \* Chrome may fail to start, a page may fail to load
  UserCloses,     \* the user may close the Chrome window
  ExitSignals,    \* the application may signal ExitChan
  QuietStarts,    \* scheduling: a session starts when nothing of an earlier one runs
  Nil             \* no context, no goroutine

Operations == {"Open", "OpenBrowser", "Close", "Restart", "Reload", "Execute", "Tool"}

Sessions == 1..MaxSessions
Opener(s) == <<"opener", s>>
ExitListener(s) == <<"exit", s>>
Openers == {Opener(s) : s \in Sessions}
ExitListeners == {ExitListener(s) : s \in Sessions}
Goroutines == Callers \union Openers \union ExitListeners

ASSUME LifecycleAssumption ==
  /\ IsFiniteSet(Callers) /\ MaxSessions \in Nat
  /\ Ops \in [Callers -> SUBSET Operations]
  /\ AutoStarts \subseteq BOOLEAN
  /\ TestModes \subseteq BOOLEAN
  /\ {ChromeMayFail, UserCloses, ExitSignals, QuietStarts} \subseteq BOOLEAN
  /\ Nil \notin Sessions /\ Nil \notin Goroutines
  /\ Callers \intersect (Openers \union ExitListeners) = {}

VARIABLES
  mu,             \* holder of Mu across steps (only CloseBrowser keeps it), or Nil
  isOpen,         \* IsOpenFlag
  ready, pendingReload,
  installed,      \* selectionCaptureInstalled
  ctx, cancel, allocCancel,   \* Ctx, Cancel, AllocCancel: a session or Nil
  firstCall, lastPort, lastURL, \* FirstCall; LastPort # "" and LastURL # ""
  busy,           \* the goroutine inside Execute (Busy = 1), or Nil
  attached,       \* attached[s]: context s has a browser (c.Browser # nil)
  windows,        \* windows[s]: Chrome windows running under context s
  token,          \* token[s]: chromedp's one-token channel c.allocated
  done,           \* done[s]: context s is cancelled
  listening,      \* listening[s]: the selection listeners are on context s
  pc,             \* pc[g]: where goroutine g is
  after,          \* after[g]: where g goes when the procedure it is in returns
  using,          \* using[g]: the context g works on or waits for
  exitSignalled,  \* ExitChan was closed
  panicked        \* a goroutine ran chromedp on a nil context: the program is gone

fields == <<isOpen, ready, pendingReload, installed>>
handles == <<ctx, cancel, allocCancel>>
driver == <<firstCall, lastPort, lastURL>>
chrome == <<attached, windows, token, done, listening>>
control == <<pc, after, using>>
env == <<exitSignalled, panicked>>
vars == <<mu, fields, handles, driver, busy, chrome, control, env>>

SessionOrNil == Sessions \union {Nil}

Labels == {"idle", "open", "navigate", "select", "reopen", "close", "graceful",
           "killChrome", "cancelCtx", "closed", "assign", "run", "semaphore", "allocating",
           "install", "ready", "takePending", "reload", "sendReady", "sendErr",
           "monitorStart", "monitorWait", "waitExit", "none", "ended"}

\* Where a procedure may continue when it returns.
Continuations == {"idle", "open", "reopen", "ended", "assign", "install", "ready", "run",
                  "sendReady"}

(***************************************************************************)
(* Helpers.                                                                *)
(***************************************************************************)
Goto(g, l) == pc' = [pc EXCEPT ![g] = l]

\* g enters a procedure at label l and continues at r when it returns.
Call(g, l, r) ==
  /\ Goto(g, l)
  /\ after' = [after EXCEPT ![g] = r]

\* g leaves a procedure for label l; back in the caller of the public method,
\* Execute's deferred store frees Busy.
Leave(g, l) ==
  /\ Goto(g, l)
  /\ busy' = IF l = "idle" /\ busy = g THEN Nil ELSE busy

Idle(p, op) == pc[p] = "idle" /\ op \in Ops[p]

\* An IsOpenFlag, Ctx and Ctx.Err() that make Open idempotent.
OpenAndAlive == isOpen /\ ctx # Nil /\ ~done[ctx]

\* The next session: openers start in order.
NextSession(s) ==
  /\ pc[Opener(s)] = "none"
  /\ \A t \in 1..(s - 1) : pc[Opener(t)] # "none"

\* The context the monitor of session s waits for is done.
MonitorWoken(s) ==
  /\ pc[Opener(s)] = "monitorWait"
  /\ done[using[Opener(s)]]

\* What QuietStarts asks for: no monitor is woken or yet to start waiting, and
\* no caller is between its gate and its chromedp.Run.
Quiet ==
  /\ \A s \in Sessions : pc[Opener(s)] # "monitorStart" /\ ~MonitorWoken(s)
  /\ \A p \in Callers : pc[p] \notin {"install", "run", "semaphore", "allocating"}

Init ==
  /\ mu = Nil /\ busy = Nil
  /\ isOpen = FALSE /\ ready = FALSE /\ pendingReload = FALSE /\ installed = FALSE
  /\ ctx = Nil /\ cancel = Nil /\ allocCancel = Nil
  /\ firstCall = TRUE /\ lastPort = FALSE /\ lastURL = FALSE
  /\ attached = [s \in Sessions |-> FALSE]
  /\ windows = [s \in Sessions |-> 0]
  /\ token = [s \in Sessions |-> "free"]
  /\ done = [s \in Sessions |-> FALSE]
  /\ listening = [s \in Sessions |-> FALSE]
  /\ pc = [g \in Goroutines |-> IF g \in Callers THEN "idle" ELSE "none"]
  /\ after = [g \in Goroutines |-> "idle"]
  /\ using = [g \in Goroutines |-> Nil]
  /\ exitSignalled = FALSE /\ panicked = FALSE

(***************************************************************************)
(* The public API, as far as its first critical section.                   *)
(***************************************************************************)
\* Open is called with a URL of its own.
CallOpen(p) ==
  /\ Idle(p, "Open")
  /\ Goto(p, "open")
  /\ UNCHANGED <<mu, fields, handles, driver, busy, chrome, after, using, env>>

\* OpenBrowser remembers the port, then calls Open.
OpenBrowser(p) ==
  /\ \/ Idle(p, "OpenBrowser")
     \/ pc[p] = "reopen"
  /\ mu = Nil
  /\ lastPort' = TRUE
  /\ Goto(p, "open")
  /\ UNCHANGED <<mu, fields, handles, firstCall, lastURL, busy, chrome, after, using, env>>

CallClose(p) ==
  /\ Idle(p, "Close")
  /\ Call(p, "close", "idle")
  /\ UNCHANGED <<mu, fields, handles, driver, busy, chrome, using, env>>

\* RestartBrowser: nothing was ever opened, or close and open again, from the
\* remembered URL or else from the remembered port.
RestartBrowser(p) ==
  /\ Idle(p, "Restart")
  /\ mu = Nil
  /\ lastURL \/ lastPort
  /\ Call(p, "close", IF lastURL THEN "open" ELSE "reopen")
  /\ UNCHANGED <<mu, fields, handles, driver, busy, chrome, using, env>>

\* Execute: one toggle at a time, decided by an unlocked read of IsOpenFlag.
Execute(p) ==
  /\ Idle(p, "Execute")
  /\ busy = Nil
  /\ \/ isOpen /\ Call(p, "close", "idle")
     \/ ~isOpen /\ lastPort /\ Call(p, "reopen", "idle")
  /\ busy' = p
  /\ UNCHANGED <<mu, fields, handles, driver, chrome, using, env>>

\* A browser tool: gated on IsOpenFlag (and Ctx), it runs on Ctx.  The
\* selection tool installs its listeners first.
CallTool(p) ==
  /\ Idle(p, "Tool")
  /\ isOpen /\ ctx # Nil
  /\ \/ Call(p, "run", "idle")
     \/ Call(p, "install", "run")
  /\ UNCHANGED <<mu, fields, handles, driver, busy, chrome, using, env>>

\* Reload: run now when the browser is ready, else leave a pending reload if
\* the browser is opening.  g is a caller or an opener applying the pending one.
Reload(g) ==
  /\ \/ Idle(g, "Reload") /\ after' = [after EXCEPT ![g] = "idle"]
     \/ pc[g] = "reload" /\ UNCHANGED after
  /\ mu = Nil
  /\ \/ /\ ready /\ ctx # Nil /\ isOpen
        /\ Goto(g, "run")
        /\ UNCHANGED fields
     \/ /\ ~(ready /\ ctx # Nil /\ isOpen)
        /\ pendingReload' = (pendingReload \/ isOpen)
        /\ Goto(g, IF pc[g] = "reload" THEN after[g] ELSE "idle")
        /\ UNCHANGED <<isOpen, ready, installed>>
  /\ UNCHANGED <<mu, handles, driver, busy, chrome, using, env>>

(***************************************************************************)
(* Open: one critical section, then the wait for its opener.               *)
(***************************************************************************)
\* Already open and alive: navigate instead.
OpenNavigate(p) ==
  /\ OpenAndAlive
  /\ Call(p, "navigate", "idle")
  /\ UNCHANGED <<fields, busy>>

\* The first call without AutoStart, or TestMode: nothing is started.
OpenSkip(p) ==
  /\ ~OpenAndAlive
  /\ \/ firstCall /\ \E auto \in AutoStarts : ~auto
     \/ \E test \in TestModes : test
  /\ Leave(p, "idle")
  /\ UNCHANGED <<fields, after>>

\* Mark open, start the exit listener and the opener, wait in the select.
OpenLaunch(p) ==
  /\ ~OpenAndAlive
  /\ firstCall => \E auto \in AutoStarts : auto
  /\ \E test \in TestModes : ~test
  /\ QuietStarts => Quiet
  /\ isOpen' = TRUE
  /\ \E s \in Sessions :
       /\ NextSession(s)
       /\ pc' = [pc EXCEPT ![p] = "select", ![Opener(s)] = "graceful",
                           ![ExitListener(s)] = "waitExit"]
       /\ after' = [after EXCEPT ![Opener(s)] = "assign"]
  /\ UNCHANGED <<ready, pendingReload, installed, busy>>

Open(p) ==
  /\ pc[p] = "open"
  /\ mu = Nil
  /\ firstCall' = FALSE /\ lastURL' = TRUE
  /\ OpenNavigate(p) \/ OpenSkip(p) \/ OpenLaunch(p)
  /\ UNCHANGED <<mu, handles, lastPort, chrome, using, env>>

\* NavigateToURL checks Ctx, then reads it again to run.
NavigateToURL(p) ==
  /\ pc[p] = "navigate"
  /\ Leave(p, IF ctx = Nil THEN "idle" ELSE "run")
  /\ UNCHANGED <<mu, fields, handles, driver, chrome, after, using, env>>

\* The rendezvous on ReadyChan and ErrChan, shared by every Open in progress.
OpenReturns(p, s) ==
  /\ pc[p] = "select" /\ pc[Opener(s)] = "sendReady"
  /\ pc' = [pc EXCEPT ![p] = "idle", ![Opener(s)] = "monitorStart"]
  /\ busy' = IF busy = p THEN Nil ELSE busy
  /\ UNCHANGED <<mu, fields, handles, driver, chrome, after, using, env>>

OpenFails(p, s) ==
  /\ pc[p] = "select" /\ pc[Opener(s)] = "sendErr"
  /\ pc' = [pc EXCEPT ![p] = "close", ![Opener(s)] = "ended"]
  /\ after' = [after EXCEPT ![p] = "idle"]
  /\ UNCHANGED <<mu, fields, handles, driver, busy, chrome, using, env>>

(***************************************************************************)
(* CloseBrowser and shutdownChrome.  CloseBrowser keeps Mu throughout; the *)
(* opener runs shutdownChrome without it.  Each step is one blocking call, *)
(* preceded by the assignment that follows the call before it.             *)
(***************************************************************************)
\* What CloseBrowser resets, and a form that keeps ready.
ResetSession_KeepsReady ==
  isOpen' = FALSE /\ ready' = ready /\ pendingReload' = FALSE /\ installed' = FALSE
ResetSession ==
  isOpen' = FALSE /\ ready' = FALSE /\ pendingReload' = FALSE /\ installed' = FALSE

\* CloseBrowser locks and resets the session's flags.
CloseBrowser(g) ==
  /\ pc[g] = "close"
  /\ mu = Nil
  /\ mu' = g
  /\ ResetSession
  /\ Goto(g, "graceful")
  /\ UNCHANGED <<handles, driver, busy, chrome, after, using, env>>

\* The windows of context s are gone, the context is done, and the goroutine
\* that reaped its Chrome has closed c.allocated.
ChromeGone(s) ==
  /\ windows' = [windows EXCEPT ![s] = 0]
  /\ token' = [token EXCEPT ![s] = IF @ = "taken" THEN "closed" ELSE @]
  /\ done' = [done EXCEPT ![s] = TRUE]
  /\ UNCHANGED <<attached, listening>>

\* chromedp.Cancel asks an attached Chrome to close; a hung one does not.
ShutdownGraceful(g) ==
  /\ pc[g] = "graceful"
  /\ \/ ctx # Nil /\ attached[ctx] /\ ChromeGone(ctx)
     \/ ctx = Nil /\ UNCHANGED chrome
     \/ ctx # Nil /\ (attached[ctx] => ChromeMayFail \/ done[ctx]) /\ UNCHANGED chrome
  /\ Goto(g, "killChrome")
  /\ UNCHANGED <<mu, fields, handles, driver, busy, after, using, env>>

\* Ctx = nil; AllocCancel kills the Chrome process and cancels the context.
ShutdownAlloc(g) ==
  /\ pc[g] = "killChrome"
  /\ ctx' = Nil
  /\ IF allocCancel = Nil THEN UNCHANGED chrome ELSE ChromeGone(allocCancel)
  /\ Goto(g, "cancelCtx")
  /\ UNCHANGED <<mu, fields, cancel, allocCancel, driver, busy, after, using, env>>

\* AllocCancel = nil; Cancel cancels the context (a no-op on a done one).
ShutdownContext(g) ==
  /\ pc[g] = "cancelCtx"
  /\ allocCancel' = Nil
  /\ IF cancel = Nil THEN UNCHANGED chrome ELSE ChromeGone(cancel)
  /\ Goto(g, "closed")
  /\ UNCHANGED <<mu, fields, ctx, cancel, driver, busy, after, using, env>>

\* Cancel = nil; CloseBrowser's deferred unlock.
ShutdownReturns(g) ==
  /\ pc[g] = "closed"
  /\ cancel' = Nil
  /\ mu' = IF mu = g THEN Nil ELSE mu
  /\ Leave(g, after[g])
  /\ UNCHANGED <<fields, ctx, allocCancel, driver, chrome, after, using, env>>

(***************************************************************************)
(* chromedp.Run on the field Ctx, read without Mu.                         *)
(***************************************************************************)
\* Where g goes when its Run fails: Open's own Runs report on ErrChan (and not:
\* a failed opener ends without a word).
Failed_Silent(g) == IF after[g] \in {"install", "ready"} THEN "ended" ELSE after[g]
Failed(g) == IF after[g] \in {"install", "ready"} THEN "sendErr" ELSE after[g]

\* Bound: windows under one context are counted up to two.
MaxWindows == 2

\* A context without a browser allocates one: a Chrome process is started.
RunAllocates(g) ==
  /\ ctx # Nil /\ ~done[ctx] /\ ~attached[ctx]
  /\ windows' = [windows EXCEPT ![ctx] = IF @ < MaxWindows THEN @ + 1 ELSE @]
  /\ using' = [using EXCEPT ![g] = ctx]
  /\ Goto(g, "semaphore")
  /\ UNCHANGED <<attached, token, done, listening, busy, panicked>>

RunSucceeds(g) ==
  /\ ctx # Nil /\ ~done[ctx] /\ attached[ctx]
  /\ Leave(g, after[g])
  /\ UNCHANGED <<chrome, using, panicked>>

\* On a done context; else an action fails.  (The opener's empty Run returns nil where the
\* context was attached by another goroutine and is done: then its next Run fails.)
RunFails(g) ==
  /\ ctx # Nil /\ (done[ctx] \/ (attached[ctx] /\ ChromeMayFail))
  /\ Leave(g, Failed(g))
  /\ UNCHANGED <<chrome, using, panicked>>

\* FromContext(nil) panics and takes the program down.
RunPanics(g) ==
  /\ ctx = Nil
  /\ panicked' = TRUE
  /\ UNCHANGED <<chrome, using, pc, busy>>

Run(g) ==
  /\ pc[g] = "run"
  /\ RunAllocates(g) \/ RunSucceeds(g) \/ RunFails(g) \/ RunPanics(g)
  /\ UNCHANGED <<mu, fields, handles, driver, after, exitSignalled>>

\* With Chrome started, Allocate waits for the token of c.allocated: a second
\* allocation on the context waits for the first one's Chrome to exit.  And a form
\* that leaves the token in the channel.
TakeToken_Keeps(g) ==
  /\ pc[g] = "semaphore"
  /\ token[using[g]] = "free"
  /\ Goto(g, "allocating")
  /\ UNCHANGED <<mu, fields, handles, driver, busy, chrome, after, using, env>>
TakeToken(g) ==
  /\ pc[g] = "semaphore"
  /\ token[using[g]] = "free"
  /\ token' = [token EXCEPT ![using[g]] = "taken"]
  /\ Goto(g, "allocating")
  /\ UNCHANGED <<mu, fields, handles, driver, busy, attached, windows, done, listening,
                 after, using, env>>

\* The channel is closed already: this allocation's reaper will close it again.
TakeClosedToken(g) ==
  /\ pc[g] = "semaphore"
  /\ token[using[g]] = "closed"
  /\ panicked' = TRUE
  /\ UNCHANGED <<mu, fields, handles, driver, busy, chrome, control, exitSignalled>>

\* Allocate returns the browser, and newTarget its page: a page that does not come up is
\* taken for a Chrome that does not.
Allocated(g) ==
  /\ pc[g] = "allocating"
  /\ ~done[using[g]]
  /\ attached' = [attached EXCEPT ![using[g]] = TRUE]
  /\ using' = [using EXCEPT ![g] = Nil]
  /\ Leave(g, after[g])
  /\ UNCHANGED <<mu, fields, handles, driver, windows, token, done, listening, after, env>>

\* Chrome does not come up; its process may be gone (and reaped) or not.
ChromeFails(s) ==
  /\ ChromeMayFail /\ ~done[s]
  /\ \/ UNCHANGED <<windows, token>>
     \/ /\ windows' = [windows EXCEPT ![s] = @ - 1]
        /\ token' = [token EXCEPT ![s] = "closed"]

\* Allocate fails: the context was cancelled, or Chrome did not come up; and a
\* form that counts the cancelled Chrome out a second time.
AllocateFails_CountsTwice(g) ==
  /\ pc[g] \in {"semaphore", "allocating"}
  /\ done[using[g]]
  /\ windows' = [windows EXCEPT ![using[g]] = @ - 1]
  /\ using' = [using EXCEPT ![g] = Nil]
  /\ Leave(g, Failed(g))
  /\ UNCHANGED <<mu, fields, handles, driver, attached, token, done, listening, after, env>>
AllocateFails(g) ==
  /\ \/ /\ pc[g] \in {"semaphore", "allocating"}
        /\ done[using[g]]
        /\ UNCHANGED <<windows, token>>
     \/ pc[g] = "allocating" /\ ChromeFails(using[g])
  /\ using' = [using EXCEPT ![g] = Nil]
  /\ Leave(g, Failed(g))
  /\ UNCHANGED <<mu, fields, handles, driver, attached, done, listening, after, env>>

(***************************************************************************)
(* The opener goroutine of session s, after shutdownChrome.                *)
(***************************************************************************)
\* CreateBrowserContext, and a form that keeps no cancel functions.
CreateBrowserContext_NoCancel(s) ==
  /\ pc[Opener(s)] = "assign"
  /\ ctx' = s
  /\ Call(Opener(s), "run", "install")
  /\ UNCHANGED <<mu, fields, cancel, allocCancel, driver, busy, chrome, using, env>>
CreateBrowserContext(s) ==
  /\ pc[Opener(s)] = "assign"
  /\ ctx' = s /\ cancel' = s /\ allocCancel' = s
  /\ Call(Opener(s), "run", "install")
  /\ UNCHANGED <<mu, fields, driver, busy, chrome, using, env>>

\* installSelectionCapture, by an opener or by the selection tool; the next Run
\* is Open's Navigate or the tool's own.
InstallSelectionCapture(g) ==
  /\ pc[g] = "install"
  /\ mu = Nil
  /\ IF ctx = Nil \/ installed
       THEN UNCHANGED <<installed, listening>>
       ELSE installed' = TRUE /\ listening' = [listening EXCEPT ![ctx] = TRUE]
  /\ Call(g, "run", IF g \in Openers THEN "ready" ELSE "idle")
  /\ UNCHANGED <<mu, isOpen, ready, pendingReload, handles, driver, busy,
                 attached, windows, token, done, using, env>>

\* ready = true under Mu, and without it.
MarkReady_Unlocked(s) ==
  /\ pc[Opener(s)] = "ready"
  /\ ready' = TRUE
  /\ Goto(Opener(s), "takePending")
  /\ UNCHANGED <<mu, isOpen, pendingReload, installed, handles, driver, busy,
                 chrome, after, using, env>>
MarkReady(s) ==
  /\ pc[Opener(s)] = "ready"
  /\ mu = Nil
  /\ ready' = TRUE
  /\ Goto(Opener(s), "takePending")
  /\ UNCHANGED <<mu, isOpen, pendingReload, installed, handles, driver, busy,
                 chrome, after, using, env>>

\* Take and clear the pending reload in one critical section, then apply it; and
\* without the clearing.
ProcessPendingReload_Keeps(s) ==
  /\ pc[Opener(s)] = "takePending"
  /\ mu = Nil
  /\ Call(Opener(s), IF pendingReload THEN "reload" ELSE "sendReady", "sendReady")
  /\ UNCHANGED <<mu, fields, handles, driver, busy, chrome, using, env>>
ProcessPendingReload(s) ==
  /\ pc[Opener(s)] = "takePending"
  /\ mu = Nil
  /\ pendingReload' = FALSE
  /\ Call(Opener(s), IF pendingReload THEN "reload" ELSE "sendReady", "sendReady")
  /\ UNCHANGED <<mu, isOpen, ready, installed, handles, driver, busy, chrome, using, env>>

(***************************************************************************)
(* The monitor the opener leaves behind, and the exit listener.            *)
(***************************************************************************)
\* Read Ctx under Mu and wait for it to be done.
MonitorStart(s) ==
  /\ pc[Opener(s)] = "monitorStart"
  /\ mu = Nil
  /\ IF ctx = Nil
       THEN Goto(Opener(s), "ended") /\ UNCHANGED using
       ELSE /\ Goto(Opener(s), "monitorWait")
            /\ using' = [using EXCEPT ![Opener(s)] = ctx]
  /\ UNCHANGED <<mu, fields, handles, driver, busy, chrome, after, env>>

\* The context is done: an open browser is taken to be closed by the user.
MonitorWakes(s) ==
  /\ MonitorWoken(s)
  /\ mu = Nil
  /\ IF isOpen
       THEN isOpen' = FALSE /\ ctx' = Nil /\ cancel' = Nil
       ELSE UNCHANGED <<isOpen, ctx, cancel>>
  /\ Goto(Opener(s), "ended")
  /\ UNCHANGED <<mu, ready, pendingReload, installed, allocCancel, driver, busy,
                 chrome, after, using, env>>

ExitListenerWakes(s) ==
  /\ pc[ExitListener(s)] = "waitExit"
  /\ exitSignalled
  /\ Call(ExitListener(s), "close", "ended")
  /\ UNCHANGED <<mu, fields, handles, driver, busy, chrome, using, env>>

(***************************************************************************)
(* The environment.                                                        *)
(***************************************************************************)
\* The window closes, the connection is lost and chromedp cancels the context.
UserClosesWindow(s) ==
  /\ UserCloses
  /\ attached[s] /\ windows[s] > 0
  /\ ChromeGone(s)
  /\ UNCHANGED <<mu, fields, handles, driver, busy, control, env>>

SignalExit ==
  /\ ExitSignals /\ ~exitSignalled
  /\ exitSignalled' = TRUE
  /\ UNCHANGED <<mu, fields, handles, driver, busy, chrome, control, panicked>>

-----------------------------------------------------------------------------
\* The part of Next in which goroutine g goes on with what it started.
Proceed(g) ==
  \/ CloseBrowser(g) \/ ShutdownGraceful(g) \/ ShutdownAlloc(g)
  \/ ShutdownContext(g) \/ ShutdownReturns(g)
  \/ Run(g) \/ TakeToken(g) \/ TakeClosedToken(g) \/ Allocated(g) \/ AllocateFails(g) \/ InstallSelectionCapture(g)

OpenerStep(s) ==
  \/ CreateBrowserContext(s) \/ MarkReady(s) \/ ProcessPendingReload(s)
  \/ MonitorStart(s) \/ MonitorWakes(s) \/ ExitListenerWakes(s)
  \/ \E p \in Callers : OpenReturns(p, s) \/ OpenFails(p, s)

CallerStep(p) ==
  \/ CallOpen(p) \/ OpenBrowser(p) \/ CallClose(p) \/ RestartBrowser(p)
  \/ Execute(p) \/ CallTool(p) \/ Open(p) \/ NavigateToURL(p)

Next ==
  /\ ~panicked
  /\ \/ \E g \in Goroutines : Proceed(g)
     \/ \E g \in Callers \union Openers : Reload(g)
     \/ \E s \in Sessions : OpenerStep(s) \/ UserClosesWindow(s)
     \/ \E p \in Callers : CallerStep(p)
     \/ SignalExit

Spec == Init /\ [][Next]_vars

\* The Go scheduler runs every runnable goroutine, Mu is starvation free, and
\* every blocking chromedp call and page load ends (its outcome is free).
Fairness ==
  /\ \A g \in Goroutines : SF_vars(~panicked /\ Proceed(g))
  /\ \A g \in Openers : SF_vars(~panicked /\ Reload(g))
  /\ \A s \in Sessions : SF_vars(~panicked /\ OpenerStep(s))

FairSpec == Spec /\ Fairness

-----------------------------------------------------------------------------
FlagsOK ==
  /\ isOpen \in BOOLEAN /\ ready \in BOOLEAN
  /\ pendingReload \in BOOLEAN /\ installed \in BOOLEAN
  /\ firstCall \in BOOLEAN /\ lastPort \in BOOLEAN /\ lastURL \in BOOLEAN
  /\ exitSignalled \in BOOLEAN /\ panicked \in BOOLEAN

ChromeOK ==
  /\ attached \in [Sessions -> BOOLEAN]
  /\ windows \in [Sessions -> 0..MaxWindows]
  /\ token \in [Sessions -> {"free", "taken", "closed"}]
  /\ done \in [Sessions -> BOOLEAN]
  /\ listening \in [Sessions -> BOOLEAN]

ControlOK ==
  /\ mu \in Goroutines \union {Nil} /\ busy \in Callers \union {Nil}
  /\ ctx \in SessionOrNil /\ cancel \in SessionOrNil /\ allocCancel \in SessionOrNil
  /\ pc \in [Goroutines -> Labels]
  /\ after \in [Goroutines -> Continuations]
  /\ using \in [Goroutines -> SessionOrNil]

\* Every variable has its type; windows is counted up to MaxWindows and down to
\* zero, so that no Chrome process is taken for gone twice.
TypeOK == FlagsOK /\ ChromeOK /\ ControlOK

\* While CloseBrowser waits for Chrome under Mu, no other goroutine sees or
\* makes the browser open, ready or with a reload pending (every writer of
\* those fields takes Mu).
CloseIsExclusive == mu # Nil => ~isOpen /\ ~ready /\ ~pendingReload

\* The goroutines inside Allocate on context s.
Allocating(s) ==
  {g \in Goroutines : pc[g] \in {"semaphore", "allocating"} /\ using[g] = s}

\* The one-token channel c.allocated lets one allocation through per context,
\* so that one goroutine reaps its Chrome and closes the channel; while that
\* one waits for Chrome the token is taken and its process is counted.
OneAllocation ==
  \A s \in Sessions :
    /\ \A g, h \in Allocating(s) : pc[g] = "allocating" /\ pc[h] = "allocating" => g = h
    /\ \A g \in Allocating(s) :
         /\ pc[g] = "allocating" => token[s] # "free" /\ (~done[s] => token[s] = "taken")
         /\ token[s] # "closed" /\ ~done[s] => windows[s] > 0

\* The openers that still owe an answer on ReadyChan or ErrChan.
Unanswered ==
  {s \in Sessions : pc[Opener(s)] \notin {"none", "monitorStart", "monitorWait", "ended"}}

Waiting == {p \in Callers : pc[p] = "select"}

\* ReadyChan and ErrChan are shared by every Open in progress: the answers
\* still to come are exactly as many as the calls that wait for one, so no
\* caller is left in the select of Open and no opener blocks on its send.
OneAnswerPerOpen == Cardinality(Waiting) = Cardinality(Unanswered)

\* Reload acts when ready, Ctx and IsOpenFlag allow it: then the context it acts
\* on has its browser, so that it cannot allocate a second one, and once its Open
\* is answered it has the selection listeners too, whatever sessions came before.
ReadyIsComplete ==
  ready /\ isOpen /\ ctx # Nil => attached[ctx] /\ (Unanswered = {} => listening[ctx])

\* One Chrome window at most, over all contexts: no "double window".  A closed
\* browser, with nobody in CloseBrowser and no opener at work, has none.
NoStrayWindow ==
  /\ \A s, t \in Sessions : windows[s] > 0 /\ windows[t] > 0 => s = t /\ windows[s] = 1
  /\ ~isOpen /\ mu = Nil /\ Unanswered = {} => \A s \in Sessions : windows[s] = 0

\* The monitor of a session marks the browser as closed by the user only when
\* the context it watched is the current one, never a session opened since.
MonitorClosesItsOwn ==
  [][\A s \in Sessions :
       MonitorWakes(s) /\ isOpen => ctx = using[Opener(s)]]_vars

\* Every Open that waits for its opener returns.
OpenReturnsEventually ==
  \A p \in Callers : pc[p] = "select" ~> pc[p] # "select" \/ panicked

\* A pending reload is applied or dropped with its session.
PendingReloadEnds == pendingReload ~> ~pendingReload \/ panicked
=============================================================================
