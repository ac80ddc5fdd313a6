------------------------------ MODULE Allocator ------------------------------
(***************************************************************************)
(* One Chrome of the ExecAllocator, from the Run that allocates it to the  *)
(* shutdownChrome that ends it (chromedp/allocate.go, chromedp/chromedp.go *)
(* and the goroutines of chromedp/browser.go; CloseBrowser.go).  Lifecycle *)
(* takes each of these calls in a step or two; here are their goroutines:  *)
(*                                                                         *)
(*   runner   Run -> Allocate -> NewBrowser -> newTarget                   *)
(*   reaper   cmd.Wait, RemoveAll, close(c.allocated)                      *)
(*   router   Browser.run, which closes the connection when it returns     *)
(*   reader   conn.Read, which closes LostConnection when it returns       *)
(*   watcher  cancels the context when the connection is lost              *)
(*   closers  shutdownChrome: Cancel, AllocCancel, the context's cancel    *)
(*                                                                         *)
(* Chrome may fail to start, hang, crash, or be closed by its user.  The   *)
(* command exec.CommandContext built kills it once the context is done.    *)
(***************************************************************************)
EXTENDS Naturals

CONSTANTS
  Closers,   \* the calls of shutdownChrome
  Overlap    \* may two of them overlap (CloseBrowser's holds Mu, the opener's does not)

ASSUME AllocatorAssumption == Overlap \in BOOLEAN

VARIABLES
  run,         \* where the Run that allocates stands
  close,       \* close[c]: where the shutdown c stands
  done,        \* the context is done
  token,       \* c.allocated: its token is there, taken by Allocate, spent by a closer, or closed
  browser,     \* c.Browser is set
  closing,     \* closingGracefully is closed
  handles,     \* which of Ctx, AllocCancel and Cancel are not nil
  process,     \* the Chrome process
  throwaway,   \* its profile directory is a temporary one
  directory,   \* that directory: none, made, or left as its removal failed, which c.cancelErr says
  conn,        \* the websocket
  reaper, router, reader, watcher,  \* the goroutines
  wg,          \* ExecAllocator.wg
  late,        \* a deadline of a graceful close has passed (history)
  panicked     \* a closed channel was closed again

chrome == <<process, throwaway, directory>>
goroutines == <<reaper, router, reader, watcher, wg>>
context == <<done, token, browser, closing, handles>>
vars == <<run, close, context, chrome, conn, goroutines, late, panicked>>

Running == {"starting", "up", "quitting", "closing"}
Handles == {"ctx", "allocCancel", "cancel"}

Init ==
  /\ run = "idle" /\ close = [c \in Closers |-> "idle"]
  /\ done = FALSE /\ token = "free" /\ browser = FALSE /\ closing = FALSE
  /\ handles = Handles
  /\ process = "none" /\ throwaway \in BOOLEAN /\ directory = "none"
  /\ conn = "none" /\ wg = 0
  /\ reaper = "none" /\ router = "none" /\ reader = "none" /\ watcher = "none"
  /\ late = FALSE /\ panicked = FALSE

(***************************************************************************)
(* The runner: Run, Allocate, newTarget.                                   *)
(***************************************************************************)
\* Allocate makes the temporary directory.
MakeDirectory ==
  /\ run = "idle"
  /\ directory' = IF throwaway THEN "made" ELSE "none"
  /\ run' = "start"
  /\ UNCHANGED <<close, context, process, throwaway, conn, goroutines, late, panicked>>

\* cmd.Start refuses a context that is done; without a process the deferred
\* function removes the directory, if it can, and tells nobody if not.
StartChrome ==
  /\ run = "start"
  /\ ~done
  /\ process' = "starting"
  /\ run' = "token"
  /\ UNCHANGED <<close, context, throwaway, directory, conn, goroutines, late, panicked>>

StartFails ==
  /\ run = "start"
  /\ directory' \in {"none", directory}
  /\ run' = "failed"
  /\ UNCHANGED <<close, context, process, throwaway, conn, goroutines, late, panicked>>

\* With the token, the allocation gets its place in the wait group and its reaper, in
\* one step: a shutdown that waits for the group in between still waits for the reaper
\* to close the channel (ContextWait).  And a form without the place in the group.
TakeToken_Uncounted ==
  /\ run = "token"
  /\ token \in {"free", "closed"}
  /\ token' = IF token = "free" THEN "taken" ELSE token
  /\ reaper' = "waiting" /\ wg' = wg
  /\ run' = "url"
  /\ UNCHANGED <<close, done, browser, closing, handles, chrome, conn, router, reader,
                 watcher, late, panicked>>
TakeToken ==
  /\ run = "token"
  /\ token \in {"free", "closed"}
  /\ token' = IF token = "free" THEN "taken" ELSE token
  /\ reaper' = "waiting" /\ wg' = wg + 1
  /\ run' = "url"
  /\ UNCHANGED <<close, done, browser, closing, handles, chrome, conn, router, reader,
                 watcher, late, panicked>>

\* The other case of the select: nobody waits for the process, whose directory stays.
StartedInVain ==
  /\ run = "token"
  /\ done
  /\ run' = "failed"
  /\ UNCHANGED <<close, context, chrome, conn, goroutines, late, panicked>>

\* readOutput finds the address of the websocket; or the output ends, or it takes
\* too long.
ReadAddress ==
  /\ run = "url"
  /\ \/ process = "up" /\ run' = "dial"
     \/ run' = "failed"
  /\ UNCHANGED <<close, context, chrome, conn, goroutines, late, panicked>>

\* NewBrowser connects and starts Browser.run; Allocate starts the watcher.
Dial ==
  /\ run = "dial"
  /\ process = "up" /\ ~done
  /\ conn' = "open"
  /\ router' = "running" /\ reader' = "running" /\ watcher' = "waiting"
  /\ run' = "assign"
  /\ UNCHANGED <<close, context, chrome, reaper, wg, late, panicked>>

DialFails ==
  /\ run = "dial"
  /\ run' = "failed"
  /\ UNCHANGED <<close, context, chrome, conn, goroutines, late, panicked>>

\* initContextBrowser sets c.Browser, without a lock.
AssignBrowser ==
  /\ run = "assign"
  /\ browser' = TRUE
  /\ run' = "attach"
  /\ UNCHANGED <<close, done, token, closing, handles, chrome, conn, goroutines, late, panicked>>

\* A command of the browser is answered while Chrome, router and reader are there.
Answers == process = "up" /\ conn = "open" /\ router = "running" /\ reader = "running"

\* newTarget has no deadline of its own: it is answered, or the context is done.
AttachTarget ==
  /\ run = "attach"
  /\ \/ Answers /\ run' = "ran"
     \/ done /\ run' = "failed"
  /\ UNCHANGED <<close, context, chrome, conn, goroutines, late, panicked>>

(***************************************************************************)
(* The goroutines of an allocation.                                        *)
(***************************************************************************)
\* cmd.Wait.
ReapChrome ==
  /\ reaper = "waiting"
  /\ process = "dead"
  /\ process' = "reaped"
  /\ reaper' = "removing"
  /\ UNCHANGED <<run, close, context, throwaway, directory, conn, router, reader, watcher, wg,
                 late, panicked>>

\* RemoveAll may fail; the error is kept for who calls Cancel.
RemoveDirectory ==
  /\ reaper = "removing"
  /\ directory' \in IF throwaway THEN {"none", "left"} ELSE {"none"}
  /\ reaper' = "leaving"
  /\ UNCHANGED <<run, close, context, process, throwaway, conn, router, reader, watcher, wg,
                 late, panicked>>

LeaveGroup ==
  /\ reaper = "leaving"
  /\ wg' = wg - 1
  /\ reaper' = "signalling"
  /\ UNCHANGED <<run, close, context, chrome, conn, router, reader, watcher, late, panicked>>

\* close(c.allocated).
SignalGone ==
  /\ reaper = "signalling"
  /\ reaper' = "ended"
  /\ token' = "closed"
  /\ panicked' = (panicked \/ token = "closed")
  /\ UNCHANGED <<run, close, done, browser, closing, handles, chrome, conn, router, reader,
                 watcher, wg, late>>

\* The router returns and closes the connection.
RouterReturns ==
  /\ router = "running"
  /\ done \/ reader = "ended"
  /\ router' = "ended"
  /\ conn' = "closed"
  /\ UNCHANGED <<run, close, context, chrome, reaper, reader, watcher, wg, late, panicked>>

\* A read fails: close(LostConnection).
ReaderReturns ==
  /\ reader = "running"
  /\ conn # "open"
  /\ reader' = "ended"
  /\ UNCHANGED <<run, close, context, chrome, conn, reaper, router, watcher, wg, late, panicked>>

\* The watcher cancels the context unless Chrome is being closed gracefully; and a
\* form that always does, one that never does.
WatcherReturns_Always ==
  /\ watcher = "waiting" /\ reader = "ended"
  /\ watcher' = "ended"
  /\ done' = TRUE
  /\ UNCHANGED <<run, close, token, browser, closing, handles, chrome, conn, reaper, router,
                 reader, wg, late, panicked>>
WatcherReturns_Never ==
  /\ watcher = "waiting" /\ reader = "ended"
  /\ watcher' = "ended"
  /\ UNCHANGED <<run, close, context, chrome, conn, reaper, router, reader, wg, late, panicked>>
WatcherReturns ==
  /\ watcher = "waiting" /\ reader = "ended"
  /\ watcher' = "ended"
  /\ done' = (done \/ ~closing)
  /\ UNCHANGED <<run, close, token, browser, closing, handles, chrome, conn, reaper, router,
                 reader, wg, late, panicked>>

(***************************************************************************)
(* Chrome (external).                                                      *)
(***************************************************************************)
\* It prints the address of its websocket.
ChromeUp ==
  /\ process = "starting"
  /\ process' = "up"
  /\ UNCHANGED <<run, close, context, throwaway, directory, conn, goroutines, late, panicked>>

\* Its user closes the last window.
UserQuits ==
  /\ process = "up"
  /\ process' = "quitting"
  /\ UNCHANGED <<run, close, context, throwaway, directory, conn, goroutines, late, panicked>>

\* A Chrome that shuts down closes the websocket before it exits.
HangUp ==
  /\ process \in {"quitting", "closing"}
  /\ conn = "open"
  /\ conn' = "lost"
  /\ UNCHANGED <<run, close, context, chrome, goroutines, late, panicked>>

\* It exits, by itself or in a crash, or is killed as the context is done.
Exit ==
  /\ process' = "dead"
  /\ conn' = IF conn = "open" THEN "lost" ELSE conn
  /\ UNCHANGED <<run, close, context, throwaway, directory, goroutines, late, panicked>>

ChromeExits == process \in Running /\ Exit

KillChrome == process \in Running /\ done /\ Exit

(***************************************************************************)
(* shutdownChrome.                                                         *)
(***************************************************************************)
Idle(c) == close[c] \in {"idle", "returned"}
Step(c, to) == close' = [close EXCEPT ![c] = to]

\* With a browser, chromedp.Cancel marks it as closing and sends Browser.close; and
\* a form that calls Cancel without a browser too, which takes the token.
BeginShutdown_Unchecked(c) ==
  /\ close[c] = "idle"
  /\ Overlap \/ \A d \in Closers : Idle(d)
  /\ token \in {"free", "closed"}
  /\ token' = IF token = "free" THEN "spent" ELSE token
  /\ done' = TRUE
  /\ handles' = handles \ {"ctx"}
  /\ Step(c, "allocCancel")
  /\ UNCHANGED <<run, browser, closing, chrome, conn, goroutines, late, panicked>>
BeginShutdown(c) ==
  /\ close[c] = "idle"
  /\ Overlap \/ \A d \in Closers : Idle(d)
  /\ IF "ctx" \in handles /\ browser
       THEN /\ Step(c, "asking")
            /\ closing' = TRUE
            /\ panicked' = (panicked \/ closing)
            /\ UNCHANGED handles
       ELSE /\ Step(c, "allocCancel")
            /\ handles' = handles \ {"ctx"}
            /\ UNCHANGED <<closing, panicked>>
  /\ UNCHANGED <<run, done, token, browser, chrome, conn, goroutines, late>>

\* Chrome agrees to close.
CloseAnswered(c) ==
  /\ close[c] = "asking"
  /\ Answers
  /\ process' = "closing"
  /\ Step(c, "graceful")
  /\ UNCHANGED <<run, context, throwaway, directory, conn, goroutines, late, panicked>>

\* The Ctx of the fields goes when Cancel returns; a form that keeps it.
CancelReturns_KeepsCtx(c) == Step(c, "allocCancel") /\ UNCHANGED handles
CancelReturns(c) == Step(c, "allocCancel") /\ handles' = handles \ {"ctx"}

\* No answer before the deadline or the end of the context (Chrome may have got
\* the command): Cancel returns the error and cancels nothing.
CloseUnanswered(c) ==
  /\ close[c] = "asking"
  /\ late' = TRUE
  /\ process' \in {process} \union (IF Answers THEN {"closing"} ELSE {})
  /\ CancelReturns(c)
  /\ UNCHANGED <<run, done, token, browser, closing, throwaway, directory, conn, goroutines,
                 panicked>>

\* Chrome is gone in time: the context is cancelled for what else runs on it.
GoneInTime(c) ==
  /\ close[c] = "graceful"
  /\ token = "closed"
  /\ done' = TRUE
  /\ CancelReturns(c)
  /\ UNCHANGED <<run, token, browser, closing, chrome, conn, goroutines, late, panicked>>

\* The deadline passes: cancelling the context kills Chrome.
GiveUp(c) ==
  /\ close[c] = "graceful"
  /\ late' = TRUE /\ done' = TRUE
  /\ Step(c, "killing")
  /\ UNCHANGED <<run, token, browser, closing, handles, chrome, conn, goroutines, panicked>>

GoneAfterKill(c) ==
  /\ close[c] = "killing"
  /\ token = "closed"
  /\ CancelReturns(c)
  /\ UNCHANGED <<run, done, token, browser, closing, chrome, conn, goroutines, late, panicked>>

\* AllocCancel cancels the parent of the context and waits for the allocator.
AllocCancel(c) ==
  /\ close[c] = "allocCancel"
  /\ IF "allocCancel" \in handles
       THEN done' = TRUE /\ Step(c, "allocWait")
       ELSE done' = done /\ Step(c, "cancel")
  /\ UNCHANGED <<run, token, browser, closing, handles, chrome, conn, goroutines, late, panicked>>

AllocWait(c) ==
  /\ close[c] = "allocWait"
  /\ wg = 0
  /\ handles' = handles \ {"allocCancel"}
  /\ Step(c, "cancel")
  /\ UNCHANGED <<run, done, token, browser, closing, chrome, conn, goroutines, late, panicked>>

\* The cancel function of NewContext waits for c.allocated.
ContextCancel(c) ==
  /\ close[c] = "cancel"
  /\ IF "cancel" \in handles
       THEN done' = TRUE /\ Step(c, "cancelWait")
       ELSE done' = done /\ Step(c, "returned")
  /\ UNCHANGED <<run, token, browser, closing, handles, chrome, conn, goroutines, late, panicked>>

\* It ends with the close of the channel, or by spending its token; and a form
\* that does not wait.
ContextWait_Passes(c) ==
  /\ close[c] = "cancelWait"
  /\ handles' = handles \ {"cancel"}
  /\ Step(c, "returned")
  /\ UNCHANGED <<run, done, token, browser, closing, chrome, conn, goroutines, late, panicked>>
ContextWait(c) ==
  /\ close[c] = "cancelWait"
  /\ token \in {"free", "closed"}
  /\ token' = IF token = "free" THEN "spent" ELSE token
  /\ handles' = handles \ {"cancel"}
  /\ Step(c, "returned")
  /\ UNCHANGED <<run, done, browser, closing, chrome, conn, goroutines, late, panicked>>

-----------------------------------------------------------------------------
Runner ==
  \/ MakeDirectory \/ StartChrome \/ StartFails \/ TakeToken \/ StartedInVain
  \/ ReadAddress \/ Dial \/ DialFails \/ AssignBrowser \/ AttachTarget

Reaper == ReapChrome \/ RemoveDirectory \/ LeaveGroup \/ SignalGone

Chrome == ChromeUp \/ UserQuits \/ HangUp \/ ChromeExits

Closer(c) ==
  \/ CloseAnswered(c) \/ CloseUnanswered(c) \/ GoneInTime(c) \/ GiveUp(c) \/ GoneAfterKill(c)
  \/ AllocCancel(c) \/ AllocWait(c) \/ ContextCancel(c) \/ ContextWait(c)

Next ==
  \/ Runner \/ Reaper \/ RouterReturns \/ ReaderReturns \/ WatcherReturns
  \/ Chrome \/ KillChrome
  \/ \E c \in Closers : BeginShutdown(c) \/ Closer(c)

Spec == Init /\ [][Next]_vars

\* Goroutines run, deadlines pass, and a process that is killed dies.  Nothing is
\* asked of Chrome: it may hang wherever it is.
Fairness ==
  /\ WF_vars(Runner) /\ WF_vars(Reaper)
  /\ WF_vars(RouterReturns) /\ WF_vars(ReaderReturns) /\ WF_vars(WatcherReturns)
  /\ WF_vars(KillChrome)
  /\ \A c \in Closers : WF_vars(Closer(c))

FairSpec == Spec /\ Fairness

-----------------------------------------------------------------------------
TypeOK ==
  /\ run \in {"idle", "start", "token", "url", "dial", "assign", "attach", "ran", "failed"}
  /\ close \in [Closers -> {"idle", "asking", "graceful", "killing", "allocCancel", "allocWait",
                            "cancel", "cancelWait", "returned"}]
  /\ token \in {"free", "taken", "spent", "closed"}
  /\ handles \subseteq Handles
  /\ process \in Running \union {"none", "dead", "reaped"}
  /\ conn \in {"none", "open", "lost", "closed"}
  /\ reaper \in {"none", "waiting", "removing", "leaving", "signalling", "ended"}
  /\ router \in {"none", "running", "ended"} /\ reader \in {"none", "running", "ended"}
  /\ watcher \in {"none", "waiting", "ended"}
  /\ wg \in {0, 1}
  /\ done \in BOOLEAN /\ browser \in BOOLEAN /\ closing \in BOOLEAN
  /\ throwaway \in BOOLEAN /\ directory \in {"none", "made", "left"}
  /\ late \in BOOLEAN /\ panicked \in BOOLEAN

\* A shutdown has returned and none is under way.
ShutDown == (\E c \in Closers : close[c] = "returned") /\ \A c \in Closers : Idle(c)

\* No Chrome and no temporary directory outlive shutdownChrome, whatever Chrome
\* did and however far the Run was, unless the shutdown got the token before the
\* allocation did: then the Chrome just started is killed, but nobody waited for it.
\* A directory whose removal failed stays, and c.cancelErr, which shutdownChrome does
\* not read, says so.
ShutdownFrees ==
  ShutDown =>
    \/ process \in {"none", "reaped"} /\ directory # "made"
    \/ token = "spent" /\ done

\* closingGracefully and c.allocated are closed once, over all shutdowns.
NoPanic == ~panicked

\* A Chrome that agreed to close is left to finish: it is killed only after a
\* deadline passed, although its connection is lost before it exits.
OrderlyExit == [][process = "closing" /\ KillChrome => late]_vars

\* shutdownChrome returns, whatever Chrome does.
ShutdownReturns == \A c \in Closers : close[c] # "idle" ~> close[c] = "returned"

\* A Chrome that is gone is noticed: the context ends, which is what the close
\* monitor of the life cycle waits for.
ExitNoticed == browser /\ process \in {"dead", "reaped"} ~> done

=============================================================================
