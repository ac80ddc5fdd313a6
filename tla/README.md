# A verification of devbrowser in TLA+

devbrowser (package `devbrowser`, Go) opens a Chrome window for a development server, keeps it
in step with the program under development and lets agents drive it through MCP tools. It talks
to Chrome over the DevTools protocol (CDP) with a vendored copy of chromedp. This directory
holds TLA+ models of the parts in which goroutines, processes, Chrome and the user interleave,
the TLC runs that check them on small instances, and theorems that TLAPS proves for every
instance.

All source paths below are relative to `src/`.

## Inventory

| Component | Sources | State it keeps | Operations |
|---|---|---|---|
| life cycle | `OpenBrowser.go` `CloseBrowser.go` `devbrowser.go` `context.go` `tui.go` | `Mu`, `IsOpenFlag`, `ready`, `pendingReload`, `Ctx`, `Cancel`, `AllocCancel`, `FirstCall`, `LastPort`, `LastURL`, `Busy`, `ReadyChan`, `ErrChan`, `ExitChan` | `Open`, `OpenBrowser`, `CloseBrowser`, `RestartBrowser`, `Execute`, `Reload`, `NavigateToURL`, the opener, the close monitor, the exit listener |
| Chrome allocation and shutdown | `chromedp/allocate.go` `chromedp/chromedp.go` `chromedp/browser.go` `CloseBrowser.go` | `c.Browser`, the one-token channel `c.allocated`, `closingGracefully`, `LostConnection`, the wait group, the process and its temporary directory | `Run`, `Allocate`, `Cancel`, the reaper, the router, the reader, the lost-connection watcher |
| profiles | `profiles.go` `profile_dir.go` `process_unix.go` `process_windows.go` `context.go` | profile directories, their `SingletonLock` and `Preferences` | the choice at an opening, marking a clean exit, `CleanStale` |
| message pipeline | `chromedp/browser.go` `chromedp/target.go` `chromedp/conn.go` | four queues, `pages`, the listeners, the number of the next command | `Execute`, `Browser.run`, `Target.run` |
| node tree and queries | `chromedp/target.go` `chromedp/util.go` `chromedp/query.go` | frames, their nodes, the current frame, execution contexts | event handlers, `documentUpdated`, `newTarget`, `Selector.Do` |
| navigation and page logs | `chromedp/chromedp.go` `chromedp/nav.go` `console_logs.go` `mcp-errors.go` `mcp-network.go` | what `responseAction` has heard, three buffers, each under a mutex | `Navigate`, `Reload`, the listeners, getters, clearing |
| selections | `selection_capture.go` `selection_history.go` `mcp-selected.go` | the history under `Mu`, `captureMu`, the page's queue, target, outlines and badges | three gestures, `captureSelection`, the clearing at a navigation, the tool |
| request interception | `mcp-intercept.go` | `InterceptActive` and `InterceptedReqs` under `InterceptMutex`, Chrome's Fetch domain | start, stop, get, the listener and its goroutines |
| window geometry | `monitor_geometry.go` `monitor_detection.go` `geometry_utils.go` `position.go` `config.go` `window_autofit.go` | `Position`, `Width`, `Height`, `SizeConfigured`, `MonitorWidth`, `MonitorHeight`, the store | the poll, the change of the configuration, loading and saving, fitting |
| device emulation | `mcp-management.go` | `ViewportMode`, `ViewportDevice`, Chrome's overrides | the tool, the restoring at an opening |
| other tools | the remaining `mcp-*.go`, `inspect_helpers.go`, `screenshot_utils.go`, `source_locator.go` | none | one script or CDP command each |
| other chromedp actions, CDP types, vendored libraries | `chromedp/*.go`, `cdproto/`, `ws/`, `win/`, ... | none shared | |

How they interact. The host program calls `OpenBrowser`, the file watcher `Reload`, the agent's
tools anything. Every opening starts an opener goroutine that chooses a profile, makes a
chromedp context, starts Chrome with a first `Run`, installs the listeners of the logs, the
interception and the selections on that context, navigates, sets `ready` and answers the waiting
`Open`. It leaves behind a monitor that waits for the context to end, and `Open` a goroutine
that polls the window's geometry. Every chromedp call of all of them is an `Execute` of the
message pipeline; every listener runs on the pipeline's receiver, the node tree on its handler.

What is hard:

- Some fields are guarded by `Mu` and some are read or written without it; contexts are replaced
  while goroutines still hold, or re-read, an old one.
- `CloseBrowser` keeps `Mu` over seconds of chromedp calls, so a listener that took `Mu` would
  stop the pipeline that `CloseBrowser` waits for.
- chromedp's `c.allocated` serves as a semaphore and as the sign that Chrome ended; a second
  allocation on one context hangs or closes it twice, and a shutdown may meet the allocation at
  any of its steps.
- `ReadyChan` and `ErrChan` are shared by all openings in progress.
- Daemons and Chromes share profile directories, and any of them may be killed anywhere.
- The answer to a command overtakes events sent before it.
- A capture of a selection is a dozen chromedp calls over globals of a page that may navigate in
  between.
- The bounds of the window are known by polling.

The hazards are listed in `PROJECT.json`, each at the line where it bites and with the
properties that speak of it.

## Modules

| Module | Models | Theorems in |
|---|---|---|
| `Lifecycle`, `MCLifecycle` | the life cycle, with the part of chromedp that decides about windows; instances | `LifecycleProofs` |
| `Allocator` | one allocation of Chrome with its goroutines, and the shutdowns that end it | `AllocatorProofs` |
| `Profiles` | profile directories under several daemons, Chromes and the sweep | `ProfilesProofs` |
| `EventPipe` | abstract: events are handled once and in order | |
| `Dispatcher` | the message pipeline, which implements `EventPipe` | `DispatcherProofs` |
| `NodeTree` | the tree of nodes of a target and a query that waits for a node | `NodeTreeProofs` |
| `Navigation` | navigations that wait for their page, and the page's logs | `NavigationProofs` |
| `Selection`, `MCSelection` | selections; a page with a button, its icon and a link | `SelectionProofs` |
| `Interception` | request interception | `ToolProofs` |
| `Geometry` | the geometry of the window | `ToolProofs` |
| `WindowFit` | the arithmetic of window sizes | `ToolProofs` |

Every module gives each goroutine a program counter; one action is one critical section, one
chromedp call, or the code between two points where another goroutine can be seen to act.
Operators named `X_Something` next to an action `X` are variants of it with a bug, which show
that the properties depend on that detail. They are part of no specification.

The modules are layers of one system rather than processes of one model. `Lifecycle` sees of an
allocation that it takes, or hangs on, a token and that Chrome starts, fails or ends;
`Allocator` has the goroutines of that one allocation. Every chromedp call that is a step
elsewhere is an `Execute` of `Dispatcher`; the handler at the end of `Dispatcher`'s last queue
is the `Handler` of `NodeTree`, and the receiver in the middle calls the listeners of
`Navigation`, `Selection` and `Interception`.

### Lifecycle

A session is one run of the opener and its chromedp context; a handle such as `ctx` is the
number of a session or `Nil`. `pc[g]` says where a goroutine is: a caller of the public
interface, the opener of a session, or the exit listener of a session. The opener goes on as the
monitor it starts. `after[g]` is where a goroutine continues when the procedure it is in (`Run`,
`CloseBrowser`) returns, in place of a call stack.

| Action | Code |
|---|---|
| `CallOpen`, `Open` (`OpenNavigate`, `OpenSkip`, `OpenLaunch`), `OpenReturns`, `OpenFails` | `Open`, `OpenBrowser.go:12-133` |
| `CloseBrowser`, `ShutdownGraceful`, `ShutdownAlloc`, `ShutdownContext`, `ShutdownReturns` | `CloseBrowser`, `shutdownChrome` |
| `CreateBrowserContext`, `Run`, `InstallSelectionCapture`, `MarkReady`, `ProcessPendingReload` | the opener, `OpenBrowser.go:48-116` |
| `TakeToken`, `TakeClosedToken`, `Allocated`, `AllocateFails` | `ExecAllocator.Allocate` |
| `MonitorStart`, `MonitorWakes` | `monitorBrowserClose` |
| `RestartBrowser`, `Execute`, `Reload`, `CallTool`, `NavigateToURL`, `ExitListenerWakes` | the methods and the goroutine of those names |
| `UserClosesWindow`, `SignalExit` | the environment |

`mu` is an explicit variable only because `CloseBrowser` keeps the lock over several steps;
every other critical section is one step with the guard `mu = Nil`. A load of a page, a reload
and the installation of the listeners are chromedp calls that end with success or failure. The
model keeps of `shutdownChrome` the order of its three parts and that a graceful close may fail.
Two failures are simplified: a `newTarget` that fails counts as a Chrome that does not come up,
and every `Run` on an attached context that is done fails, also one without actions.
A navigation of an open browser, the ports and the URLs are reduced to whether they are set.

### Allocator

| Variables and actions | Code |
|---|---|
| `run`: `MakeDirectory`, `StartChrome`, `StartFails`, `TakeToken`, `StartedInVain`, `ReadAddress`, `Dial`, `DialFails`, `AssignBrowser`, `AttachTarget` | `Run`, `Allocate`, `NewBrowser`, `newTarget` |
| `reaper`: `ReapChrome`, `RemoveDirectory`, `LeaveGroup`, `SignalGone` | the goroutine of `Allocate` that waits for the command, removes the directory and closes `c.allocated` |
| `router`, `reader`, `watcher`: `RouterReturns`, `ReaderReturns`, `WatcherReturns` | `Browser.run` and its reader, the watcher of `LostConnection` |
| `close[c]`: `BeginShutdown`, `CloseAnswered`, `CloseUnanswered`, `GoneInTime`, `GiveUp`, `GoneAfterKill`, `CancelReturns` | `Cancel` inside `shutdownChrome` |
| `AllocCancel`, `AllocWait`, `ContextCancel`, `ContextWait` | the allocator's and the context's cancel functions |
| `ChromeUp`, `UserQuits`, `HangUp`, `ChromeExits`, `KillChrome` | Chrome, and the kill of `exec.CommandContext` |

`Cancel`'s early return when the close gets no answer, its two deadlines and the closing of
`closingGracefully` are there as the code has them. `RemoveDirectory` may fail and leave the
directory: the error goes to `c.cancelErr`, which `shutdownChrome` does not read. The receive
from `c.allocated` and the `wg.Add` behind it are one step. `late` and `panicked` only record: that a
deadline has passed, and that a closed channel was closed again. `Overlap` says whether
shutdowns may overlap: `CloseBrowser`'s holds `Mu`, the opener's does not.

### Profiles

`daemon[d]` walks through `CreateBrowserContext` and the directory part of `Allocate`:
`CheckProfile` (`profileLocked`), `ReadPreferences`, `MarkExitedCleanly` or `MarkFails`,
`MakeTemporary`, `StartTemporary` or `StartPersistent`. `ShutdownChrome` ends its Chrome and
what belongs to it; `CrashDaemon` ends the daemon anywhere and leaves its Chrome alive, killed
or still starting; `RestartDaemon` starts it again. Chrome, an external program, locks its
profile, marks it crashed, saves logins and exits or dies. The sweep looks at the lock, at the
age, and removes: three steps, since nothing ties them together. The clock's `Tick` ages
directories.

### Dispatcher and EventPipe

One target. The four queues are sequences with a capacity, and what a goroutine holds between
receiving from one and sending to the next is a variable (`routing`, `holding`): the place where
it blocks. The events are those of the domains that reach the handler (Runtime, Page, DOM); the
others, and those that the receiver cannot unmarshal (`chromedp/target.go:117-126`), end at the
receiver (`EmitSkipped`, `SkipEvent`): they take places in the queues up to it and go
no further. A write to the connection may fail (`unwritten`): the router logs it and its Execute is
not told. The reader may find the connection lost (`connected`). A `documentUpdated` makes the
handler execute a command of its own, which closes the circle that the TODO of
`chromedp/target.go:95-97` warns of. `EventPipe` is two counters, and the mapping is the identity
on them: `Dispatcher` implements it as `PipeSpec`.

### NodeTree

Chrome's side is what the protocol says of node ids: numbers are given when a node is first
told, forgotten at a load and at `DOM.getDocument`, never used twice, and only changes of
numbered nodes are reported. The target's side is `frames`, `cur` and `context`; `op` is an
event between its lookup and its application, since the two are separate critical sections
(`LookUp`, `Drop`, `Apply`). `documentUpdated` is `DocumentUpdated`, `AnswerDocument`,
`LockFrame`, `TakeDocument`, and runs in the handler or, for a target that existed before, in
`newTarget`. `InsertNode` and `RemoveNode` are the functions of `chromedp/util.go`. The query
asks, gets an answer that has overtaken the queue, looks its node up in the frame and tries
again (`AskQuery`, `TakeAnswer`). `DOM.getDocument` is assumed to succeed: when it fails
(`chromedp/target.go:281-284`) the frame stays without nodes until the next document.

### Navigation

`Dispatch` hands one of Chrome's messages to every listener: `Heard` is `responseAction`'s
(`LoaderOf`, `FrameOf`, `HandleEvent`, and `Replay` of the messages that came before the loader
was known), `ConsoleHeard` and `NetworkHeard` are the logs'. `Listen`, `Send`, `Finish` and
`ContextDone` are the caller's side of `Navigate` and `Reload`. Chrome may abort a navigation,
fail it, show an error page, or answer the command late. A document requests things (`Kinds`):
something of its own, and the document of a frame in it, at which the listener empties the
network log (`mcp-network.go:104` asks for the type of the request only). `lost` records what had
ended by then. A caller always navigates to another document: not to a fragment of the one shown
(`chromedp/chromedp.go:655-658`), which only the page does (`PageRewritesURL`).

### Selection

`document`, `queue`, `target`, `outlined` and `badges` are the page of the current document; a
navigation resets them and starts a goroutine that clears the history later. Each gesture has a
goroutine that walks through `captureSelection`, and the tool runs the same code. A node is an
element of one document, so that a node from before a navigation is never mistaken for one after
it. A report, a screenshot and a URL are not kept. That an element is found invisible, or not
described, is a choice.

### Interception

Chrome's Fetch domain (`enabled`, `request`) is separate from `InterceptActive`, and a request's
event reaches the listener through a queue. Each paused request has its own goroutine
(`GetResponseBody`, `RecordRequest`, `ContinueRequest`). A restart may come at any
point: it replaces Chrome and leaves the flag, and a call of `Fetch.enable` or `Fetch.disable` that
is under way may fail with its page, which ends the tool with the flag as it set it. On a page that
lives these calls succeed.

### Geometry and WindowFit

In `Geometry` the life cycle is reduced to a window that is closed, being opened or open. The
poll, the change of the configuration and the emulation tool take no `Mu`, so each reading of a
field and each setting of a key of the store is a step: `SaveGeometry` sets the position, the size
and the position once more; `SaveConfig` reads the position, sets it, reads the size, sets it.
`taken` is what a goroutine has read and not set yet, and `overlapped` records whether two of them
had something to set at the same time since the program's start. Width and height are one value, a
poll that writes a field and reads it back does so in one step, and one call of the tool saves at
a time. `Start` is the end of the program at any point and its next start from the store. At most
one poll is in flight: the polls of two sessions are seconds apart.

`WindowFit` has `CalculateConstrainedSize`, `RequiredWindowSize`, `GrowWindowToFit` and
`GetPresetSize` as operators; their theorems are in `ToolProofs`. None of the program's own
goroutines calls them (hosts and tests do), so they are no actions of `Geometry`.

## Runs

| Run | Question | Result | States |
|---|---|---|---|
| `lifecycle_serial` | With one goroutine that drives and a file watcher: is a ready browser allocated and listened to, is no window left behind or doubled, does every pending reload and every `Open` end? | holds | 4 thousand |
| `lifecycle_concurrent` | With two goroutines that open and use tools, closed windows, the exit signal and late monitors: do the lock, the answers and the allocation token do their work? | holds | 1.5 million |
| `lifecycle_late_monitor` | Does a monitor only close its own session? | violated | |
| `allocator` | Does a shutdown return and leave nothing, wherever the allocation is and whatever Chrome does, and is a lost Chrome noticed? | holds | 8 thousand |
| `profiles` | Do crashes, restarts and sweeps keep profiles apart, logins in place and live directories alone? | holds | 1.5 million |
| `dispatcher` | Are events handled once and in order, do answers meet their `Execute`, and does it return, with events that are dropped, writes that fail and a lost connection? | holds | 250 thousand |
| `nodetree` | Does the tree of nodes settle on Chrome's, and does a waiting query find its element? | holds | 291 thousand |
| `navigation` | Does a navigation return, with nil only after its own page, and what of the page shown is in the logs? | holds | 194 thousand |
| `selection` | Do overlapping captures, navigations and the tool keep the history, the outline and the target of a capture right? | holds | 186 thousand |
| `selection_badges` | Is a badge number unique on the page? | violated | |
| `interception` | Does every paused request go on, also across a restart that ends the tool's call? | holds | 72 thousand |
| `geometry` | Has the store what the fields have, once nobody saves, and do both settle on the window that stays open? | holds | 672 thousand |

What the passing properties say:

- `ReadyIsComplete`, `NoStrayWindow`: the gate `ready` (`devbrowser.go:68-73`) prevents what it
  was added for: a reload that allocates a second Chrome. They hold where no tool runs during an
  opening and no window is closed by hand (see "Known").
- `PendingReloadEnds`: a reload requested during the opening is taken by the opener that is
  under way or dropped by the close that ends it.
- `CloseIsExclusive`: nobody makes the browser open, ready or pending while `CloseBrowser` waits
  for Chrome.
- `OneAnswerPerOpen`, `OpenReturnsEventually`: as many openers owe an answer as calls wait for
  one, and each call gets one.
- `OneAllocation`: `c.allocated` lets one goroutine through per context, and its Chrome is
  counted.
- `ShutdownFrees`, `ShutdownReturns`: `shutdownChrome` returns whatever Chrome does, and then
  process and directory are gone. The property names two exceptions: the shutdown took the token
  before the allocation did (see "Known"), and the directory could not be removed. `OrderlyExit` and
  `ExitNoticed` are the two sides of the lost-connection watcher: it lets a Chrome that agreed
  to close finish, and it notices one that crashed. `NoPanic`: no channel is closed twice.
- `OneChromePerProfile`, `LoginsKept`, `NoRestoreBubble`: the persistent profile has one Chrome,
  which finds it marked clean and with every login ever saved. `SweepSparesLive`: `CleanStale`
  never takes the directory of a Chrome that lives or is being started.
- `NothingLost`, `PipeSpec`: while the target is attached and the connection there, the events for
  the handler are in the pipeline in order until it takes them; what the receiver drops is not
  among them and takes none of them along. `AnswerOutstanding`: a waiting Execute has exactly one
  command or answer under way, and none if its command could not be written. `ExecuteReturns`
  excepts a detached target, a lost connection and a command not written, where only the context
  of the caller helps, and the documented deadlock `Wedged`.
- `MirrorAgrees`: once the queue is empty the target's nodes are the tree Chrome has told,
  although answers overtook events. `QueryFinishes`: the retries outlive every load.
- `NavigateWaits`, `NavigateReturns`: `Navigate` returns, with nil only after its own page has
  loaded. `LogsOfPage`: once all is handled, the console and the error log are exactly those of
  the page shown. The network log has each request of that page that has ended, except those that
  ended before a frame in it asked for its document, and unless a later navigation has begun. What
  else the network log holds is not claimed: a late response of the page before stays in it.
- `HistoryIsRecent`: the history is the last `HistoryCap` selections with no gap.
  `CaptureKeepsTarget`: between its calls a capture never sees another's target, and the
  highlight is there for its screenshot only. `QueueDrains`: no queued element waits for ever.
- `PausedHasReleaser`, `PausedEnds`: a paused request always has somebody who lets it go on.
- `FieldsAreStored`: at rest the store has what the fields have, unless two stored at the same
  time. `ReopensAsLeft`: whatever polls, changes and savings overlapped, a window that stays open,
  and where it is, is described by the fields and, once a size is configured and under the same
  exception, by what the next start of the program would load.

### Findings

Each is a run with `expect: violation`; `PROJECT.json` quotes the line it contradicts.

1. A monitor that is scheduled late marks a session as closed that was opened since
   (`devbrowser.go:338-339`).
2. Badge numbers repeat on a page when a clear overlaps a capture (`selection_capture.go:193`,
   against `selection_history.go:24` and `README.md:243`). `README.md:243` also says that the
   history survives a reload, while `selection_capture.go:184-197` clears it.

### Known

What the models showed of the code and no run states. Where no text is quoted, nothing in the
repository says otherwise:

- A browser tool that runs while the first `Open` allocates starts a second Chrome; tools are
  gated on `IsOpenFlag`, not on `ready`. The poll re-reads `b.Ctx` and may do so too.
- `monitorBrowserClose` leaves `ready` and `selectionCaptureInstalled` set, so after a window
  closed by hand a reload in the next opening is not held back and the next session installs no
  selection listeners.
- Two gestures in quick succession exchange their sources.
- `SetBrowserPositionAndSize` does not set `SizeConfigured`, so the restart it triggers replaces
  the size by the monitor's when none was saved before.
- The store keeps an older size or position than the fields, and no later poll repairs it, when
  the poll saves between the reading of a field and the setting of its key in `SaveConfig`
  (`config.go:73`; `FieldsAreStored` fails without its exception). `monitor_geometry.go:105` says
  of the poll's saving that "both keys are always in sync".
- Two overlapping shutdowns close `closingGracefully` twice (`Allocator` with `Overlap = TRUE`
  violates `NoPanic`).
- A shutdown that takes the token between `cmd.Start` and the allocation's own receive kills a
  Chrome nobody waits for, whose temporary directory stays until the sweep.
- `CloseBrowser.go:30-34` says that without the allocator's cancel the context's cancel would
  wait for ever. The command was built with `exec.CommandContext`, so the context's own cancel
  kills a Chrome that is still alive too: the order of the two is not what makes
  `ShutdownReturns` hold.
- An event about a node that `newTarget` is just loading is dropped for good (`NodeTree` with
  `Quiet = FALSE`).
- `Navigate` may end at another caller's navigation, or one of the page itself (`Navigation`
  with `Overlap = TRUE` violates `NavigateWaits`). `chromedp/nav.go:11-12` says that such actions
  are "actions which always trigger a page navigation, waiting for the page to load".
- The request for the document of a child frame empties the network log of the page
  (`mcp-network.go:104`).
- A command whose write fails leaves its `Execute` waiting until its context ends
  (`chromedp/browser.go:292-295`); an event that the receiver cannot unmarshal is logged and
  dropped (`chromedp/target.go:117-126`).
- After a `Fetch.enable` that failed, or a restart, the interception's flag says active while
  nothing is intercepted, and start answers that it is active already, until a stop
  (`mcp-intercept.go:48-67`).
- With two agents, start and stop can leave Fetch enabled and the flag down (`Interception` with
  two agents violates `PausedHasReleaser`).
- `GrowWindowToFit` may shrink a window, although `window_autofit.go:14` and `README.md:213` say
  that it never does (theorem `GrowMayShrink`), and the size it sets is never saved.
- A device chosen without a mode is neither restored at the next opening (`OpenBrowser.go:94`
  looks at the mode) nor saved, although the tool's description says "persisted in
  browser_viewport" (`mcp-management.go:19`).

### Bounds

- `Lifecycle`: two sessions, the least in which a stale goroutine of one meets another. One
  driver and one watcher for liveness; two drivers, symmetric, for safety. `MaxWindows`, two, is
  where a context's windows stop being counted: one more than is right. `QuietStarts` is a
  scheduling assumption of the run that uses it (`lifecycle_serial`): no session starts while a
  woken monitor of an earlier one is yet to run, or a caller stands between its gate and its
  chromedp call.
- `Allocator`: one allocation and two shutdowns in turn, so that the second meets what the first
  left. The opener's shutdown follows `CloseBrowser`'s wherever they do not overlap.
- `Profiles`: two daemons, one of them with the persistent profile; three Chromes, so that a
  third meets a dead one and an orphan; a grace of one tick. Assumed: a Chrome writes its lock
  within the grace of its directory; no grace passes between the sweep's look at a lock and at
  the age; a daemon starts again later than the Chrome it left has locked; one daemon per
  persistent profile, as a port and a project root have one; a Chrome that writes `SingletonLock`,
  which it does not on Windows: there `SweepSparesLive` and `NoRestoreBubble` say nothing.
- `Dispatcher`: every capacity is one, in place of 32, 1, 1024 and 4096: a queue of one blocks
  wherever a longer one may, and order does not depend on length. Two commands; three events, any
  of which may be one that ends at the receiver: three for the handler are what wedges it. Chrome
  says more when the wire is empty (`MaxWire` = 1): a message then waits in each of the queues.
- `NodeTree`: documents two levels deep, three elements of which one is a shadow root, two loads
  and two changes. `Attach`: the target may have existed before. `Quiet`: such a page does not
  change until it is loaded.
- `Navigation`: one caller, two navigations, at most two messages waiting (`MaxLag` = 1), so that
  a page's messages meet the next navigation. Each page requests one thing, the document of a
  frame (`Kinds`): the page's own document is what that loses, the frame's what must stay.
  Assumed: the order of Chrome's messages that the module's head gives.
- `Selection`: two gestures and one tool call, three goroutines that capture; two documents; a
  history of two, so that the third selection drops one. Elements with and without an owner.
- `Interception`: three requests over a buffer of two, so that it overflows; four calls, so that
  a capture is started, stopped, started and stopped; one restart, at any point. One agent.
- `Geometry`: two positions and sizes, and no other bound: moves, changes, savings and starts of
  the program are any number, as nothing counts them.

`CHECK_DEADLOCK FALSE` is set everywhere: in every module the environment may stop (nobody
calls, the page sends nothing, the budget of a bound is used up), and that is no deadlock of the
program. Waiting for ever is what the liveness properties exclude.

### Fairness

A Go goroutine that can run does run, hence weak fairness of every step of a goroutine. It is
strong where a step waits for a lock or a channel that others take in between: `sync.Mutex`
hands itself to a waiter after a millisecond, and `select` picks at random among its ready
cases. The ticker ticks.

What is asked of Chrome differs. In `Lifecycle`, `Selection` and `Interception` a chromedp call
ends, with any outcome, since Chrome answers or the context ends. `Allocator` asks nothing of
Chrome, only that deadlines pass and that a killed process dies: this is where the code must
cope with a Chrome that hangs. In `NodeTree` and `Navigation` Chrome answers commands, parses
what it commits and decides a navigation one way or another. In `Dispatcher` it answers the
commands it has got, and nothing is asked of the sending of a command: an `Execute` that waits
returns without it. `Profiles` has safety properties only. Nothing is assumed of users, agents,
pages, or the application: they may do nothing for ever.

## Proofs

The theorems hold for every value of the constants that satisfies the module's named assumption.

- **`LifecycleProofs`**: any set of callers and calls, any number of sessions, every value of
  the switches; the assumption says that the set of callers is finite and that names of
  different kinds differ.
  - `TypeCorrect` and `AllocatesOnce` (`[]OneAllocation`). Neither is inductive without the
    other: that `windows[s]` is never counted below zero follows from `OneAllocation` (a
    goroutine whose Chrome fails to start still has it counted), and `OneAllocation` needs the
    types. The lemma `Inductive` proves their conjunction; `AllocationUntouched` and
    `AllocationGone` carry the many actions that leave allocations alone.
  - `CloseExcludes` (`[]CloseIsExclusive`) is inductive with the types.
  - `AnswersMatch` (`[]OneAnswerPerOpen`) compares the cardinalities of two sets, so each action
    has to move both or neither. It needs `OpenerContinues`: an opener inside a procedure never
    returns to "ended", where it would owe no answer.
  - `ReadyMeansComplete` and `NoWindowStrays` assume `OneDriver`: what `lifecycle_serial` assumes
    (one goroutine drives, the others reload, no window closed by hand, quiet starts), for any
    number of watchers and sessions. The invariant `Serial` has a part for who does what
    (`Roles`), the stages of an opening and what holds in each (`Stages`), the agreement of
    `Ctx`, `Cancel` and `AllocCancel` (`Handles`), what sessions leave behind (`Traces`), and
    the windows (`Windows`). The assumption is needed: TLC finds both properties false when two
    goroutines open, and when the user closes a window; `NoStrayWindow` also when a monitor of
    the session before starts late.
- **`AllocatorProofs`**: any number of shutdowns. `TypeCorrect` and `ShutdownLeavesNothing` hold
  also for shutdowns that overlap; they rest on `ReaperKnows` (where the reaper is tells what
  became of the token, the process and the directory, which its removal may leave) and
  `ReturnedFinds` (a shutdown past its last call found the channel closed or took its token).
  `PanicFree` and `ExitsOrderly` are for shutdowns in turn and add `InTurn`, `CancelOnce`
  (`Cancel` is called only while the fields have a `Ctx`, and takes it from them) and
  `OrderlySoFar`.
- **`ProfilesProofs`**: any number of daemons, Chromes and ticks of grace. `TypeCorrect` and
  `SweepSpares` hold for any sharing; `Sweeping` says that what the sweep found out still holds
  when it acts, and rests on `Homes` and `Locks`. `OneChrome`, `NoBubble` and `LoginsAreKept`
  assume one daemon on the persistent profile (`OneOwner`); their invariants are `Ownership`
  (who has, or is about to have, the profile) and `Preferences` (what was read is still what is
  there).
- **`DispatcherProofs`**: any number of clients, commands and events, any capacities. `Order` says
  that, while the target is `Reachable` (attached, the connection there), the queues and hands of
  the pipeline hold, among other messages, consecutive event numbers in order; appending, taking
  and moving along keep it (`AppendEvent`, `HeadIsNext`, `MovesKeepWay`). From it follow
  `NothingIsLost` and, with `HandleEvent` taking exactly event `handled + 1`,
  `PipelineImplementsPipe`: every step is an emission, the handling of the next event, or a
  stutter, also across a detach, a lost connection and a cancel. `AnswerIsOutstanding` counts: its
  invariant `Conversations` says that a command is in one place (queued, unwritten, pending at
  Chrome, or its answer in one of the four queues or two hands), there at most once, and that
  Executes have numbers of their own. That makes each of the three numbers it adds zero or one,
  and one of them one, unless the command was not written.
- **`ToolProofs`, on `Interception`**: any number of requests and any cap. `TypeCorrect` also for any
  number of agents; `PausedIsReleased` for one, with `FlagCoversFetch`: Fetch is enabled only
  while the flag is up or an agent is about to disable it. A restart at any point, with or without
  the failure of the call under way, keeps it, since it takes Fetch down.
- **`NodeTreeProofs`**: any elements, loads and changes. `TypeCorrect` needs what Chrome does as
  well as what the client does: the page stays well formed (`WellFormed`: one place for every
  element, no node below itself), and what was told stays consistent (`ToldOK`: numbers are
  unique and none is above `last`, a node is told with its shadow root, an opened one with all
  its children). `NodesSettle` (`[]MirrorAgrees`) assumes `Quiet` of a target that existed before
  (TLC finds the property false without it, see Known). A map of nodes `Covers` the page when it
  has each numbered node as it is told. For an insertion, a removal and the answer of a query it
  is proved once that the event which reports it brings any map that covered the page to one that
  covers it again (`CoversInserted`, `CoversRemoved`, `CoversSet`); a change that is not reported
  leaves what was covered covered (`CoversUnseen`). `Leads` follows a map through the events of
  the queue, and the invariant `Current` says: unless a document is awaited (`Pending`), the nodes
  of the current frame, with the event the handler has in hand, or the answer that will replace
  them, lead to a map that covers the page. An answer that overtook the queue is right because
  the numbers it brings are new, so that every event still queued is about a node it does not have
  (`DocumentTold`, `LeadsNowhere`). `Order` adds that only one goroutine at a time asks for a
  document, for the current frame, and that behind the start of a document in the queue comes its
  end.
- **`SelectionProofs`**: any page, gestures, documents, calls and cap. `TasksReady`, `InTurn`
  (captures take turns) and `NeverSaved` (the outline a capture saves is never the highlight of
  another one) strengthen the properties; `PushRecent` is the lemma about the history.
- **`ToolProofs`, on `Geometry`** (whose `GeometrySpec`, `GeometryTypeOK` and the like carry the
  module's name, since `ToolProofs` extends both): any positions and sizes. The types are proved
  only (`GeometryTypes`), and no run checks them. `FieldsAreStored` is the safety half of
  `ReopensAsLeft`: what the poll, a change of the configuration or the emulation tool writes to
  the fields, in whatever order, is at rest what the store holds, unless two of them stored at the
  same time (`StoreFollowsFields`). So once the fields describe the window, a restart opens that
  window, under the same condition (`DescribedIsReopened`); that they come to describe it is left
  to TLC. `GeometryInv` adds that whoever is about to write has a value (`HasWork`) and, while no
  two have stored at once, that one stores at a time (`Alone`) and that what it has read is still
  the field and what nobody is about to store is stored, for the position and for the size
  (`PositionKept`, `SizeKept`). The condition is needed: see Known.
- **`ToolProofs`, on `WindowFit`**: any sizes. A constrained size is the largest that fits
  (`ConstrainedIsLargest`), a required one leaves the viewport uncovered (`ViewportUncovered`),
  growing twice is growing once (`GrowSettles`), presets fit (`PresetFits`), and
  `GrowWindowToFit` only grows a window that the fields describe and the monitor holds
  (`GrowOnlyGrows`), and not without either condition (`GrowMayShrink`).
- **`NavigationProofs`**: any number of callers and navigations, any `MaxLag`. `TypeCorrect` and
  `LogsAreOfPage` also for navigations that overlap. The logs rest on `LogsInv`, which says what
  a log will be once the messages on their way are handled, so that each message Chrome adds and
  each one the listeners take keeps it; the request for the document of a frame moves what has
  ended to `lost`, which the statement excepts. `NavigationWaits` assumes `Overlap = FALSE`, without
  which TLC finds it false. Its invariant `TurnsInv` relates what the listener of a waiting
  caller has heard to what is still before it, part by part (`Waits`): its loader is its own
  navigation's or one whose cancellation comes before any page is shown (`Loader`,
  `Strangers`), its request was heard or is to come (`Requested`), a failure of it is noted,
  kept with the early events or on its way (`Failing`), and a load event after "init" is that
  of its own page (`Seen`, `Ended`). `Replayed` goes through the early events by induction over
  their positions. `Handled` is a recursive function, so that no `RECURSIVE` stands in the way.

Only model-checked: all liveness, which with its fairness is outside the prover (`ReopensAsLeft`
and `QueryFinishes` among it). Every other property of the passing runs has a theorem; those
that a theorem states under a condition (`OneDriver`, `OneOwner`, `OneAgent`, shutdowns and
navigations in turn, `Quiet`) hold in the runs under the same one.

## Not modelled

Most of the repository by size is no logic of its own. Of its 78 thousand lines 38 thousand are
the generated types and marshalling of the protocol (`cdproto/`), 16 thousand bindings of Win32
(`win/`), and most of the rest is vendored (`ws/`, `httphead/`, `pool/`, `intern/`,
`pixelmatch/`, `humanize/`, `sysutil/`, `screenresolution/`) or tests. These keep no state that
the program's goroutines share, and a model of them would restate tables of names. Of the 13
thousand lines of the program's own package and chromedp the map covers about a quarter, which
is where the shared state is. Of these, left out are:

- the tools without state: each runs one script or command and formats the result (that they run
  on a gated context is in `Lifecycle`, `CallTool`);
- chromedp's other actions (input, screenshots, evaluation, polling): one command each;
- Chrome's command line, the setters of the user interface, logging, formatting, reports and
  screenshots;
- new tabs and the nodes of child frames: devbrowser has one target (that the request for the
  document of a frame empties the network log is in `Navigation`);
- the overrides of the device emulation, except that the tool saves every setting (`Geometry`):
  each call is a fixed sequence of commands, and what happens when two of them overlap is listed
  as a hazard;
- a second agent of the interception (its hazard is listed), `Fetch.enable` and `Fetch.disable`
  refused by a page that lives, a `DOM.getDocument` that fails, and a store that fails: assumed
  away where the module or this text says so.

## Plan

1. `Lifecycle`: the geometry poll as an actor (its re-read of `Ctx`), and a close during the
   opening.
2. Device emulation: the tool's and the opener's sequences of overrides over a restart.
3. `Interception`: two agents, captures told apart.
4. `Geometry`: a store that fails. `NodeTree`: a `DOM.getDocument` that fails.
