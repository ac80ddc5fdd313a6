--------------------------- MODULE LifecycleProofs ---------------------------
(***************************************************************************)
(* Theorems about Lifecycle, for any goroutines, any number of sessions    *)
(* and any environment: type correctness, the exclusion CloseBrowser gets  *)
(* from Mu, and the conservation of answers on ReadyChan and ErrChan; and, *)
(* for any number of sessions and watchers under one driver, that a ready  *)
(* browser is complete and that no window strays.                          *)
(***************************************************************************)
EXTENDS Lifecycle, FiniteSetTheorems, TLAPS

\* The goroutines of a session are goroutines.
LEMMA SessionGoroutines ==
  \A s \in Sessions : Opener(s) \in Goroutines /\ ExitListener(s) \in Goroutines
BY DEF Goroutines, Openers, ExitListeners

\* Goroutines of different sessions, or of different kinds, are different.
LEMMA DistinctGoroutines ==
  ASSUME NEW s \in Sessions
  PROVE  /\ Opener(s) \notin Callers /\ ExitListener(s) \notin Callers
         /\ \A t \in Sessions : Opener(s) = Opener(t) => s = t
         /\ \A t \in Sessions : Opener(s) # ExitListener(t)
<1>1. Opener(s) \notin Callers /\ ExitListener(s) \notin Callers
  BY LifecycleAssumption DEF LifecycleAssumption, Openers, ExitListeners
<1>2. ASSUME NEW t \in Sessions, Opener(s) = Opener(t) PROVE s = t
  BY <1>2 DEF Opener
<1>3. ASSUME NEW t \in Sessions PROVE Opener(s) # ExitListener(t)
  BY DEF Opener, ExitListener
<1> QED BY <1>1, <1>2, <1>3

-----------------------------------------------------------------------------
\* An allocation that fails by itself holds the token of a counted process.
LEMMA FailingAllocation ==
  ASSUME ChromeOK, ControlOK, OneAllocation, NEW g \in Goroutines,
         pc[g] = "allocating", ~done[using[g]]
  PROVE  /\ using[g] \in Sessions => windows[using[g]] \in 1..MaxWindows
         /\ using[g] \in Sessions => token[using[g]] = "taken"
<1> SUFFICES ASSUME using[g] \in Sessions
             PROVE  windows[using[g]] \in 1..MaxWindows /\ token[using[g]] = "taken"
  OBVIOUS
<1>1. g \in Allocating(using[g]) BY DEF Allocating
<1>2. token[using[g]] = "taken" BY <1>1 DEF OneAllocation
<1>3. windows[using[g]] > 0 BY <1>1, <1>2 DEF OneAllocation
<1> QED BY <1>2, <1>3 DEF ChromeOK, MaxWindows

-----------------------------------------------------------------------------
\* Killing the Chrome of a context keeps the types.
LEMMA ChromeGoneType ==
  ASSUME ChromeOK, NEW s \in Sessions, ChromeGone(s)
  PROVE  ChromeOK'
BY DEF ChromeOK, ChromeGone, MaxWindows

\* Initially every field has its zero value.
LEMMA InitType == Init => TypeOK
<1> SUFFICES ASSUME Init PROVE TypeOK OBVIOUS
<1>1. FlagsOK BY Zenon DEF Init, FlagsOK
<1>2. ChromeOK BY DEF Init, ChromeOK, MaxWindows
<1>3. ControlOK
  <2>1. pc \in [Goroutines -> Labels] BY DEF Init, Labels
  <2>2. after \in [Goroutines -> Continuations] BY DEF Init, Continuations
  <2>3. using \in [Goroutines -> SessionOrNil] BY DEF Init, SessionOrNil
  <2> QED BY <2>1, <2>2, <2>3 DEF Init, ControlOK, SessionOrNil
<1> QED BY <1>1, <1>2, <1>3 DEF TypeOK

-----------------------------------------------------------------------------
\* What a step that leaves a group of variables alone keeps of their types.
LEMMA FlagsUnchanged ==
  ASSUME FlagsOK, UNCHANGED <<fields, driver, env>>
  PROVE  FlagsOK'
BY DEF FlagsOK, fields, driver, env

LEMMA ChromeUnchanged ==
  ASSUME ChromeOK, UNCHANGED chrome
  PROVE  ChromeOK'
BY DEF ChromeOK, chrome

\* A public call as far as its first critical section keeps the types.
LEMMA CallerStepType ==
  ASSUME TypeOK, NEW p \in Callers, CallerStep(p)
  PROVE  TypeOK'
<1> p \in Goroutines BY DEF Goroutines
<1>1. FlagsOK'
  <2> USE DEF TypeOK, FlagsOK, fields, driver, env, CallerStep
  <2>1. CASE OpenBrowser(p) BY <2>1, Zenon DEF OpenBrowser
  <2>2. CASE Open(p)
    <3>1. CASE OpenNavigate(p) BY <2>2, <3>1, Zenon DEF Open, OpenNavigate
    <3>2. CASE OpenSkip(p) BY <2>2, <3>2, Zenon DEF Open, OpenSkip
    <3>3. CASE OpenLaunch(p) BY <2>2, <3>3, Zenon DEF Open, OpenLaunch
    <3> QED BY <2>2, <3>1, <3>2, <3>3 DEF Open
  <2>3. CASE UNCHANGED <<fields, driver, env>> BY <2>3, FlagsUnchanged
  <2> QED BY <2>1, <2>2, <2>3
          DEF CallOpen, CallClose, RestartBrowser, Execute, CallTool, NavigateToURL
<1>2. ChromeOK'
  BY ChromeUnchanged
  DEF TypeOK, CallerStep, CallOpen, OpenBrowser, CallClose, RestartBrowser, Execute,
      CallTool, Open, NavigateToURL
<1>3. ControlOK'
  <2> USE DEF TypeOK, ControlOK, SessionOrNil, Labels, Continuations, Call, Goto, Leave, Idle,
             handles
  <2>1. CASE CallOpen(p) BY <2>1 DEF CallOpen
  <2>2. CASE OpenBrowser(p) BY <2>2 DEF OpenBrowser
  <2>3. CASE CallClose(p) BY <2>3 DEF CallClose
  <2>4. CASE RestartBrowser(p) BY <2>4 DEF RestartBrowser
  <2>5. CASE Execute(p) BY <2>5 DEF Execute
  <2>6. CASE CallTool(p) BY <2>6 DEF CallTool
  <2>7. CASE Open(p)
    <3>1. CASE OpenNavigate(p) BY <2>7, <3>1 DEF Open, OpenNavigate
    <3>2. CASE OpenSkip(p) BY <2>7, <3>2 DEF Open, OpenSkip
    <3>3. CASE OpenLaunch(p) BY <2>7, <3>3 DEF Open, OpenLaunch
    <3> QED BY <2>7, <3>1, <3>2, <3>3 DEF Open
  <2>8. CASE NavigateToURL(p) BY <2>8 DEF NavigateToURL
  <2> QED BY <2>1, <2>2, <2>3, <2>4, <2>5, <2>6, <2>7, <2>8 DEF CallerStep
<1> QED BY <1>1, <1>2, <1>3 DEF TypeOK

\* CloseBrowser, shutdownChrome and chromedp.Run keep the types.
LEMMA ProceedType ==
  ASSUME TypeOK, OneAllocation, NEW g \in Goroutines, Proceed(g)
  PROVE  TypeOK'
<1>1. FlagsOK'
  <2> USE DEF TypeOK, FlagsOK, fields, driver, env
  <2>1. CASE CloseBrowser(g) BY <2>1, Zenon DEF CloseBrowser, ResetSession
  <2>2. CASE Run(g)
    <3>1. CASE RunPanics(g) BY <2>2, <3>1, Zenon DEF Run, RunPanics
    <3>2. CASE panicked' = panicked BY <2>2, <3>2, Zenon DEF Run
    <3> QED BY <2>2, <3>1, <3>2 DEF Run, RunAllocates, RunSucceeds, RunFails
  <2>3. CASE TakeClosedToken(g) BY <2>3, Zenon DEF TakeClosedToken
  <2>4. CASE InstallSelectionCapture(g)
    BY <2>4, Zenon DEF InstallSelectionCapture
  <2>5. CASE UNCHANGED <<fields, driver, env>> BY <2>5, FlagsUnchanged
  <2> QED BY <2>1, <2>2, <2>3, <2>4, <2>5
          DEF Proceed, ShutdownGraceful, ShutdownAlloc, ShutdownContext, ShutdownReturns,
              TakeToken, Allocated, AllocateFails
<1>2. ChromeOK'
  <2> USE DEF TypeOK
  <2>1. CASE ShutdownGraceful(g)
    BY <2>1, ChromeGoneType, ChromeUnchanged DEF ShutdownGraceful, ControlOK, SessionOrNil
  <2>2. CASE ShutdownAlloc(g)
    BY <2>2, ChromeGoneType, ChromeUnchanged DEF ShutdownAlloc, ControlOK, SessionOrNil
  <2>3. CASE ShutdownContext(g)
    BY <2>3, ChromeGoneType, ChromeUnchanged DEF ShutdownContext, ControlOK, SessionOrNil
  <2>4. CASE Run(g)
    <3>1. CASE RunAllocates(g) 
      BY <3>1 DEF RunAllocates, ChromeOK, MaxWindows, ControlOK, SessionOrNil
    <3>2. CASE UNCHANGED chrome BY <3>2, ChromeUnchanged
    <3> QED BY <2>4, <3>1, <3>2 DEF Run, RunSucceeds, RunFails, RunPanics
  <2>5. CASE TakeToken(g) BY <2>5 DEF TakeToken, ChromeOK
  <2>6. CASE Allocated(g) BY <2>6 DEF Allocated, ChromeOK
  <2>7. CASE AllocateFails(g)
    <3>1. CASE UNCHANGED <<windows, token>> BY <2>7, <3>1 DEF AllocateFails, ChromeOK
    <3>2. CASE /\ pc[g] = "allocating" /\ ~done[using[g]]
               /\ windows' = [windows EXCEPT ![using[g]] = @ - 1]
               /\ token' = [token EXCEPT ![using[g]] = "closed"]
      <4>1. using[g] \in Sessions => windows[using[g]] \in 1..MaxWindows
        BY <3>2, FailingAllocation
      <4>2. windows' \in [Sessions -> 0..MaxWindows]
        <5>1. CASE using[g] \in Sessions
          <6>1. windows[using[g]] - 1 \in 0..MaxWindows BY <4>1, <5>1 DEF MaxWindows
          <6> QED BY <3>2, <6>1 DEF ChromeOK
        <5>2. CASE using[g] \notin Sessions BY <3>2, <5>2 DEF ChromeOK
        <5> QED BY <5>1, <5>2
      <4> QED BY <2>7, <3>2, <4>2 DEF AllocateFails, ChromeOK
    <3> QED BY <2>7, <3>1, <3>2 DEF AllocateFails, ChromeFails
  <2>8. CASE InstallSelectionCapture(g) BY <2>8 DEF InstallSelectionCapture, ChromeOK
  <2>9. CASE UNCHANGED chrome BY <2>9, ChromeUnchanged
  <2> QED BY <2>1, <2>2, <2>3, <2>4, <2>5, <2>6, <2>7, <2>8, <2>9
          DEF Proceed, CloseBrowser, ShutdownReturns, TakeClosedToken
<1>3. ControlOK'
  <2> USE DEF TypeOK, ControlOK, SessionOrNil, Labels, Continuations, Call, Goto, Leave, handles,
             control
  <2>1. CASE CloseBrowser(g) BY <2>1 DEF CloseBrowser
  <2>2. CASE ShutdownGraceful(g) BY <2>2 DEF ShutdownGraceful
  <2>3. CASE ShutdownAlloc(g) BY <2>3 DEF ShutdownAlloc
  <2>4. CASE ShutdownContext(g) BY <2>4 DEF ShutdownContext
  <2>5. CASE ShutdownReturns(g) BY <2>5 DEF ShutdownReturns
  <2>6. CASE Run(g)
    BY <2>6 DEF Run, RunAllocates, RunSucceeds, RunFails, RunPanics, Failed
  <2>7. CASE TakeToken(g) BY <2>7 DEF TakeToken
  <2>8. CASE TakeClosedToken(g) BY <2>8 DEF TakeClosedToken
  <2>9. CASE Allocated(g) BY <2>9 DEF Allocated
  <2>10. CASE AllocateFails(g) BY <2>10 DEF AllocateFails, Failed
  <2>11. CASE InstallSelectionCapture(g) BY <2>11 DEF InstallSelectionCapture
  <2> QED BY <2>1, <2>2, <2>3, <2>4, <2>5, <2>6, <2>7, <2>8, <2>9, <2>10, <2>11 DEF Proceed
<1> QED BY <1>1, <1>2, <1>3 DEF TypeOK

\* Reload keeps the types, called or applied from the pending one.
LEMMA ReloadType ==
  ASSUME TypeOK, NEW g \in Goroutines, Reload(g)
  PROVE  TypeOK'
<1>1. FlagsOK'
  <2>1. CASE UNCHANGED fields BY <2>1, FlagsUnchanged DEF Reload, TypeOK
  <2>2. CASE pendingReload' = (pendingReload \/ isOpen) /\ UNCHANGED <<isOpen, ready, installed>>
    BY <2>2, Zenon DEF Reload, TypeOK, FlagsOK, driver, env
  <2> QED BY <2>1, <2>2 DEF Reload
<1>2. ChromeOK' BY ChromeUnchanged DEF TypeOK, Reload
<1>3. ControlOK'
  BY DEF TypeOK, ControlOK, SessionOrNil, Labels, Continuations, Goto, handles, Reload
<1> QED BY <1>1, <1>2, <1>3 DEF TypeOK

\* The steps of an opener, its monitor and its exit listener keep the types.
LEMMA OpenerStepType ==
  ASSUME TypeOK, NEW s \in Sessions, OpenerStep(s)
  PROVE  TypeOK'
<1> Opener(s) \in Goroutines /\ ExitListener(s) \in Goroutines BY SessionGoroutines
<1>1. FlagsOK'
  <2> USE DEF TypeOK, FlagsOK, fields, driver, env
  <2>1. CASE MarkReady(s) BY <2>1, Zenon DEF MarkReady
  <2>2. CASE ProcessPendingReload(s) BY <2>2, Zenon DEF ProcessPendingReload
  <2>3. CASE MonitorWakes(s) BY <2>3, Zenon DEF MonitorWakes
  <2>4. CASE UNCHANGED <<fields, driver, env>> BY <2>4, FlagsUnchanged
  <2> QED BY <2>1, <2>2, <2>3, <2>4
          DEF OpenerStep, CreateBrowserContext, MonitorStart, ExitListenerWakes,
              OpenReturns, OpenFails
<1>2. ChromeOK'
  BY ChromeUnchanged
  DEF TypeOK, OpenerStep, CreateBrowserContext, MarkReady, ProcessPendingReload, MonitorStart,
      MonitorWakes, ExitListenerWakes, OpenReturns, OpenFails
<1>3. ControlOK'
  <2> USE DEF TypeOK, ControlOK, SessionOrNil, Labels, Continuations, Call, Goto, handles
  <2>1. CASE CreateBrowserContext(s) BY <2>1 DEF CreateBrowserContext
  <2>2. CASE MarkReady(s) BY <2>2 DEF MarkReady
  <2>3. CASE ProcessPendingReload(s) BY <2>3 DEF ProcessPendingReload
  <2>4. CASE MonitorStart(s) BY <2>4 DEF MonitorStart
  <2>5. CASE MonitorWakes(s) BY <2>5 DEF MonitorWakes
  <2>6. CASE ExitListenerWakes(s) BY <2>6 DEF ExitListenerWakes
  <2>7. ASSUME NEW p \in Callers, OpenReturns(p, s) PROVE ControlOK'
    BY <2>7 DEF OpenReturns
  <2>8. ASSUME NEW p \in Callers, OpenFails(p, s) PROVE ControlOK'
    BY <2>8 DEF OpenFails
  <2> QED BY <2>1, <2>2, <2>3, <2>4, <2>5, <2>6, <2>7, <2>8 DEF OpenerStep
<1> QED BY <1>1, <1>2, <1>3 DEF TypeOK

\* What the user and the application do keeps the types.
LEMMA EnvironmentType ==
  ASSUME TypeOK, SignalExit \/ \E s \in Sessions : UserClosesWindow(s)
  PROVE  TypeOK'
<1>1. CASE SignalExit
  <2>1. FlagsOK' BY <1>1, Zenon DEF SignalExit, TypeOK, FlagsOK, fields, driver
  <2>2. ChromeOK' BY <1>1, ChromeUnchanged DEF SignalExit, TypeOK
  <2>3. ControlOK' BY <1>1 DEF SignalExit, TypeOK, ControlOK, handles, control, SessionOrNil
  <2> QED BY <2>1, <2>2, <2>3 DEF TypeOK
<1>2. ASSUME NEW s \in Sessions, UserClosesWindow(s) PROVE TypeOK'
  <2>1. FlagsOK' BY <1>2, FlagsUnchanged DEF UserClosesWindow, TypeOK
  <2>2. ChromeOK' BY <1>2, ChromeGoneType DEF UserClosesWindow, TypeOK
  <2>3. ControlOK' BY <1>2 DEF UserClosesWindow, TypeOK, ControlOK, handles, control, SessionOrNil
  <2> QED BY <2>1, <2>2, <2>3 DEF TypeOK
<1> QED BY <1>1, <1>2


-----------------------------------------------------------------------------
\* A step in which nobody enters or moves inside Allocate, and which touches no
\* token, process or context, preserves OneAllocation.
LEMMA AllocationUntouched ==
  ASSUME OneAllocation, UNCHANGED <<windows, token, done>>,
         \A g \in Goroutines : pc'[g] \in {"semaphore", "allocating"} =>
                                 pc'[g] = pc[g] /\ using'[g] = using[g]
  PROVE  OneAllocation'
<1>1. \A s \in Sessions : \A g \in Allocating(s)' : g \in Allocating(s) /\ pc'[g] = pc[g]
  BY DEF Allocating
<1> QED BY <1>1 DEF OneAllocation

\* The end of a Chrome preserves OneAllocation: its context is done.
LEMMA AllocationGone ==
  ASSUME OneAllocation, ChromeOK, NEW c \in Sessions, ChromeGone(c),
         \A g \in Goroutines : pc'[g] \in {"semaphore", "allocating"} =>
                                 pc'[g] = pc[g] /\ using'[g] = using[g]
  PROVE  OneAllocation'
<1>1. \A s \in Sessions : \A g \in Allocating(s)' : g \in Allocating(s) /\ pc'[g] = pc[g]
  BY DEF Allocating
<1>2. \A s \in Sessions : s # c => windows'[s] = windows[s] /\ token'[s] = token[s]
                                     /\ done'[s] = done[s]
  BY DEF ChromeGone, ChromeOK
<1>3. done'[c] /\ (token[c] # "free" => token'[c] # "free")
  BY DEF ChromeGone, ChromeOK
<1> QED BY <1>1, <1>2, <1>3 DEF OneAllocation

\* The steps that run without a caller inside Allocate preserve OneAllocation.
LEMMA AllocationProceed ==
  ASSUME TypeOK, OneAllocation, NEW g \in Goroutines, Proceed(g)
  PROVE  OneAllocation'
<1> USE DEF TypeOK
<1> DEFINE Inside == {"semaphore", "allocating"}
           Stays == \A h \in Goroutines : pc'[h] \in Inside =>
                                            pc'[h] = pc[h] /\ using'[h] = using[h]
<1>0. Failed(g) \notin Inside /\ after[g] \notin Inside
  BY DEF Failed, ControlOK, Continuations
<1>1. CASE ShutdownGraceful(g)
  <2>1. Stays BY <1>1 DEF ShutdownGraceful, Goto, ControlOK
  <2> QED BY <1>1, <2>1, AllocationGone, AllocationUntouched
          DEF ShutdownGraceful, chrome, ControlOK, SessionOrNil
<1>2. CASE ShutdownAlloc(g)
  <2>1. Stays BY <1>2 DEF ShutdownAlloc, Goto, ControlOK
  <2> QED BY <1>2, <2>1, AllocationGone, AllocationUntouched
          DEF ShutdownAlloc, chrome, ControlOK, SessionOrNil
<1>3. CASE ShutdownContext(g)
  <2>1. Stays BY <1>3 DEF ShutdownContext, Goto, ControlOK
  <2> QED BY <1>3, <2>1, AllocationGone, AllocationUntouched
          DEF ShutdownContext, chrome, ControlOK, SessionOrNil
<1>4. CASE CloseBrowser(g) \/ ShutdownReturns(g) \/ InstallSelectionCapture(g)
           \/ TakeClosedToken(g)
  <2>1. Stays
    BY <1>0, <1>4 DEF CloseBrowser, ShutdownReturns, InstallSelectionCapture,
                      TakeClosedToken, Goto, Call, Leave, ControlOK, control
  <2>2. UNCHANGED <<windows, token, done>>
    BY <1>4 DEF CloseBrowser, ShutdownReturns, InstallSelectionCapture, TakeClosedToken, chrome
  <2> QED BY <2>1, <2>2, AllocationUntouched
<1>5. CASE Run(g)
  <2>1. CASE RunAllocates(g)
    <3>1. ctx \in Sessions BY <2>1 DEF RunAllocates, ControlOK, SessionOrNil
    <3>2. \A s \in Sessions : \A h \in Allocating(s)' :
            \/ h \in Allocating(s) /\ pc'[h] = pc[h]
            \/ h = g /\ s = ctx /\ pc'[h] = "semaphore"
      BY <2>1 DEF RunAllocates, Allocating, Goto, ControlOK
    <3>3. UNCHANGED <<token, done>> BY <2>1 DEF RunAllocates
    <3>4. windows'[ctx] > 0 /\ \A s \in Sessions : windows[s] > 0 => windows'[s] > 0
      BY <2>1, <3>1 DEF RunAllocates, ChromeOK, MaxWindows
    <3> QED BY <3>1, <3>2, <3>3, <3>4 DEF OneAllocation
  <2>2. CASE RunSucceeds(g) \/ RunFails(g) \/ RunPanics(g)
    <3>1. Stays
      BY <1>0, <2>2 DEF RunSucceeds, RunFails, RunPanics, Goto, Leave, ControlOK
    <3> QED BY <2>2, <3>1, AllocationUntouched DEF RunSucceeds, RunFails, RunPanics, chrome
  <2> QED BY <1>5, <2>1, <2>2 DEF Run
<1>6. CASE TakeToken(g)
  <2> DEFINE c == using[g]
  <2>1. \A s \in Sessions : \A h \in Allocating(s)' :
          /\ h \in Allocating(s)
          /\ pc'[h] = pc[h] \/ (h = g /\ s = c /\ pc'[h] = "allocating")
    BY <1>6 DEF TakeToken, Allocating, Goto, ControlOK
  <2>2. \A h \in Goroutines : pc[h] = "allocating" => using[h] # c \/ c \notin Sessions
    BY <1>6 DEF TakeToken, Allocating, OneAllocation
  <2>3. UNCHANGED <<windows, done>> BY <1>6 DEF TakeToken
  <2>4. \A s \in Sessions : token'[s] = IF s = c THEN "taken" ELSE token[s]
    BY <1>6 DEF TakeToken, ChromeOK
  <2>5. token[c] = "free" BY <1>6 DEF TakeToken
  <2>6. \A s \in Sessions : \A h, k \in Allocating(s)' :
          pc'[h] = "allocating" /\ pc'[k] = "allocating" => h = k
    BY <2>1, <2>2 DEF OneAllocation, Allocating
  <2>7. \A s \in Sessions : \A h \in Allocating(s)' :
          /\ pc'[h] = "allocating" => token'[s] # "free" /\ (~done'[s] => token'[s] = "taken")
          /\ token'[s] # "closed" /\ ~done'[s] => windows'[s] > 0
    BY <2>1, <2>3, <2>4, <2>5 DEF OneAllocation
  <2> QED BY <2>6, <2>7 DEF OneAllocation
<1>7. CASE Allocated(g)
  <2>1. Stays BY <1>0, <1>7 DEF Allocated, Leave, Goto, ControlOK
  <2> QED BY <1>7, <2>1, AllocationUntouched DEF Allocated
<1>8. CASE AllocateFails(g)
  <2>1. Stays BY <1>0, <1>8 DEF AllocateFails, Leave, Goto, ControlOK
  <2>2. CASE UNCHANGED <<windows, token>>
    BY <1>8, <2>1, <2>2, AllocationUntouched DEF AllocateFails
  <2>3. CASE /\ pc[g] = "allocating" /\ ~done[using[g]]
             /\ windows' = [windows EXCEPT ![using[g]] = @ - 1]
             /\ token' = [token EXCEPT ![using[g]] = "closed"]
    <3>0. PICK c : c = using[g] OBVIOUS
    <3>1. \A s \in Sessions : \A h \in Allocating(s)' :
            /\ h \in Allocating(s) /\ pc'[h] = pc[h] /\ h # g
      BY <1>0, <1>8 DEF AllocateFails, Leave, Goto, Allocating, ControlOK
    <3>2. \A s \in Sessions : s # c => windows'[s] = windows[s] /\ token'[s] = token[s]
      BY <2>3, <3>0 DEF ChromeOK
    <3>3. c \in Sessions => \A h \in Allocating(c)' : pc'[h] # "allocating"
      <4>1. g \in Allocating(c) BY <2>3, <3>0 DEF Allocating
      <4> QED BY <2>3, <3>1, <4>1 DEF OneAllocation
    <3>4. c \in Sessions => token'[c] = "closed" BY <2>3, <3>0 DEF ChromeOK
    <3>5. UNCHANGED done BY <1>8 DEF AllocateFails
    <3> QED BY <3>1, <3>2, <3>3, <3>4, <3>5 DEF OneAllocation
  <2> QED BY <1>8, <2>2, <2>3 DEF AllocateFails, ChromeFails
<1> QED BY <1>1, <1>2, <1>3, <1>4, <1>5, <1>6, <1>7, <1>8 DEF Proceed

\* The other steps do not enter Allocate.
LEMMA AllocationOthers ==
  ASSUME TypeOK, OneAllocation,
         \/ \E g \in Callers \union Openers : Reload(g)
         \/ \E p \in Callers : CallerStep(p)
         \/ \E s \in Sessions : OpenerStep(s) \/ UserClosesWindow(s)
         \/ SignalExit
  PROVE  OneAllocation'
<1> USE DEF TypeOK
<1> DEFINE Inside == {"semaphore", "allocating"}
           Stays == \A h \in Goroutines : pc'[h] \in Inside =>
                                            pc'[h] = pc[h] /\ using'[h] = using[h]
<1>1. ASSUME NEW g \in Callers \union Openers, Reload(g) PROVE OneAllocation'
  <2>1. Stays BY <1>1 DEF Reload, Goto, ControlOK, Continuations, Goroutines
  <2> QED BY <1>1, <2>1, AllocationUntouched DEF Reload, chrome
<1>2. ASSUME NEW p \in Callers, CallerStep(p) PROVE OneAllocation'
  <2>1. Stays /\ UNCHANGED chrome
    <3> USE DEF Goto, Call, Leave, ControlOK
    <3>1. CASE CallOpen(p) \/ OpenBrowser(p) \/ CallClose(p) \/ RestartBrowser(p)
      BY <3>1 DEF CallOpen, OpenBrowser, CallClose, RestartBrowser
    <3>2. CASE Execute(p) \/ CallTool(p) \/ NavigateToURL(p)
      BY <3>2 DEF Execute, CallTool, NavigateToURL
    <3>3. CASE Open(p) BY <3>3 DEF Open, OpenNavigate, OpenSkip, OpenLaunch
    <3> QED BY <1>2, <3>1, <3>2, <3>3 DEF CallerStep
  <2> QED BY <2>1, AllocationUntouched DEF chrome
<1>3. ASSUME NEW s \in Sessions, OpenerStep(s) PROVE OneAllocation'
  <2>1. Stays /\ UNCHANGED chrome
    <3> USE SessionGoroutines DEF Goto, Call, ControlOK
    <3>1. CASE CreateBrowserContext(s) \/ MarkReady(s) \/ ProcessPendingReload(s)
      BY <3>1 DEF CreateBrowserContext, MarkReady, ProcessPendingReload
    <3>2. CASE MonitorStart(s) BY <3>2 DEF MonitorStart
    <3>3. CASE MonitorWakes(s) \/ ExitListenerWakes(s)
      BY <3>3 DEF MonitorWakes, ExitListenerWakes
    <3>4. ASSUME NEW p \in Callers, OpenReturns(p, s) \/ OpenFails(p, s)
          PROVE  Stays /\ UNCHANGED chrome
      BY <3>4 DEF OpenReturns, OpenFails
    <3> QED BY <1>3, <3>1, <3>2, <3>3, <3>4 DEF OpenerStep
  <2> QED BY <2>1, AllocationUntouched DEF chrome
<1>4. ASSUME NEW s \in Sessions, UserClosesWindow(s) PROVE OneAllocation'
  BY <1>4, AllocationGone DEF UserClosesWindow, control
<1>5. CASE SignalExit
  BY <1>5, AllocationUntouched DEF SignalExit, chrome, control
<1> QED BY <1>1, <1>2, <1>3, <1>4, <1>5

-----------------------------------------------------------------------------
\* Types need OneAllocation: windows is counted down by the one failing
\* allocation only, so the two are inductive together.
LEMMA Inductive == Spec => [](TypeOK /\ OneAllocation)
<1>1. Init => TypeOK /\ OneAllocation
  <2>1. Init => \A s \in Sessions : Allocating(s) = {} BY DEF Init, Allocating
  <2> QED BY <2>1, InitType DEF OneAllocation
<1>2. (TypeOK /\ OneAllocation) /\ [Next]_vars => (TypeOK /\ OneAllocation)'
  <2> SUFFICES ASSUME TypeOK, OneAllocation, [Next]_vars
               PROVE  TypeOK' /\ OneAllocation'
    OBVIOUS
  <2>1. CASE UNCHANGED vars
    <3>1. FlagsOK' BY <2>1, FlagsUnchanged DEF vars, TypeOK
    <3>2. ChromeOK' BY <2>1, ChromeUnchanged DEF vars, TypeOK
    <3>3. ControlOK' BY <2>1 DEF vars, TypeOK, ControlOK, handles, control, SessionOrNil
    <3>4. OneAllocation' BY <2>1, AllocationUntouched DEF vars, chrome, control
    <3> QED BY <3>1, <3>2, <3>3, <3>4 DEF TypeOK
  <2>2. CASE Next
    <3>1. \A g \in Callers \union Openers : g \in Goroutines BY DEF Goroutines
    <3>2. TypeOK'
      BY <2>2, <3>1, ProceedType, ReloadType, OpenerStepType, CallerStepType,
         EnvironmentType DEF Next
    <3>3. OneAllocation' BY <2>2, AllocationProceed, AllocationOthers DEF Next
    <3> QED BY <3>2, <3>3
  <2> QED BY <2>1, <2>2
<1> QED BY <1>1, <1>2, PTL DEF Spec

\* Every variable has its type in every state of every execution, whatever the
\* goroutines call and however many sessions there are: in particular no
\* Chrome process is counted out twice.
THEOREM TypeCorrect == Spec => []TypeOK
BY Inductive, PTL

\* c.allocated lets one allocation per context through, however many
\* goroutines run chromedp on that context: only one of them will reap Chrome.
THEOREM AllocatesOnce == Spec => []OneAllocation
BY Inductive, PTL

-----------------------------------------------------------------------------
\* While CloseBrowser holds Mu, the browser is closed, not ready and without a
\* pending reload for everybody, whoever interferes.
THEOREM CloseExcludes == Spec => []CloseIsExclusive
<1>1. Init => CloseIsExclusive BY DEF Init, CloseIsExclusive
<1>2. TypeOK /\ CloseIsExclusive /\ [Next]_vars => CloseIsExclusive'
  <2> SUFFICES ASSUME TypeOK, CloseIsExclusive, [Next]_vars PROVE CloseIsExclusive' OBVIOUS
  <2> USE DEF CloseIsExclusive, fields
  <2>1. CASE UNCHANGED <<mu, fields>> BY <2>1
  <2>2. ASSUME NEW g \in Goroutines, Proceed(g) PROVE CloseIsExclusive'
    <3>1. CASE CloseBrowser(g) BY <3>1 DEF CloseBrowser, ResetSession
    <3>2. CASE ShutdownReturns(g) BY <3>2 DEF ShutdownReturns
    <3>3. CASE InstallSelectionCapture(g) BY <3>3 DEF InstallSelectionCapture
    <3> QED BY <2>1, <2>2, <3>1, <3>2, <3>3
            DEF Proceed, ShutdownGraceful, ShutdownAlloc, ShutdownContext, Run, TakeToken,
                TakeClosedToken, Allocated, AllocateFails
  <2>3. ASSUME NEW g, Reload(g) PROVE CloseIsExclusive' BY <2>3 DEF Reload
  <2>4. ASSUME NEW s \in Sessions, OpenerStep(s) PROVE CloseIsExclusive'
    BY <2>4 DEF OpenerStep, CreateBrowserContext, MarkReady, ProcessPendingReload,
                MonitorStart, MonitorWakes, ExitListenerWakes, OpenReturns, OpenFails
  <2>5. ASSUME NEW p \in Callers, CallerStep(p) PROVE CloseIsExclusive'
    <3>1. CASE Open(p) BY <3>1 DEF Open
    <3> QED BY <2>1, <2>5, <3>1
            DEF CallerStep, CallOpen, OpenBrowser, CallClose, RestartBrowser, Execute,
                CallTool, NavigateToURL
  <2>6. CASE SignalExit \/ \E s \in Sessions : UserClosesWindow(s)
    BY <2>1, <2>6 DEF SignalExit, UserClosesWindow
  <2>7. CASE UNCHANGED vars BY <2>1, <2>7 DEF vars
  <2> QED BY <2>2, <2>3, <2>4, <2>5, <2>6, <2>7 DEF Next
<1> QED BY <1>1, <1>2, TypeCorrect, PTL DEF Spec

-----------------------------------------------------------------------------
\* Only exit listeners end when CloseBrowser returns: an opener always has an
\* answer to send after the procedures it calls.
OpenerContinues == \A s \in Sessions : after[Opener(s)] # "ended"

\* An opener in one of these places owes no answer.
Settled == {"none", "monitorStart", "monitorWait", "ended"}

LEMMA OpenerContinuesStep ==
  ASSUME TypeOK, OpenerContinues, [Next]_vars
  PROVE  OpenerContinues'
<1> USE SessionGoroutines, DistinctGoroutines DEF OpenerContinues, TypeOK, ControlOK
<1>1. CASE UNCHANGED after BY <1>1
<1>2. ASSUME NEW g \in Goroutines, Proceed(g) PROVE OpenerContinues'
  <2>1. CASE InstallSelectionCapture(g) BY <2>1 DEF InstallSelectionCapture, Call
  <2> QED BY <1>1, <1>2, <2>1
          DEF Proceed, CloseBrowser, ShutdownGraceful, ShutdownAlloc, ShutdownContext,
              ShutdownReturns, Run, TakeToken, TakeClosedToken, Allocated, AllocateFails, control
<1>3. ASSUME NEW g, Reload(g) PROVE OpenerContinues' BY <1>3 DEF Reload
<1>4. ASSUME NEW s \in Sessions, OpenerStep(s) PROVE OpenerContinues'
  <2>1. CASE CreateBrowserContext(s) BY <2>1 DEF CreateBrowserContext, Call
  <2>2. CASE ProcessPendingReload(s) BY <2>2 DEF ProcessPendingReload, Call
  <2>3. CASE ExitListenerWakes(s) BY <2>3 DEF ExitListenerWakes, Call
  <2>4. ASSUME NEW p \in Callers, OpenFails(p, s) PROVE OpenerContinues'
    BY <2>4 DEF OpenFails
  <2> QED BY <1>1, <1>4, <2>1, <2>2, <2>3, <2>4
          DEF OpenerStep, MarkReady, MonitorStart, MonitorWakes, OpenReturns
<1>5. ASSUME NEW p \in Callers, CallerStep(p) PROVE OpenerContinues'
  <2> USE DEF Call
  <2>1. CASE Open(p) BY <2>1 DEF Open, OpenNavigate, OpenSkip, OpenLaunch
  <2>2. CASE CallClose(p) \/ RestartBrowser(p) \/ Execute(p) \/ CallTool(p)
    BY <2>2 DEF CallClose, RestartBrowser, Execute, CallTool
  <2> QED BY <1>1, <1>5, <2>1, <2>2 DEF CallerStep, CallOpen, OpenBrowser, NavigateToURL
<1>6. CASE SignalExit \/ \E s \in Sessions : UserClosesWindow(s)
  BY <1>1, <1>6 DEF SignalExit, UserClosesWindow, control
<1>7. CASE UNCHANGED vars BY <1>1, <1>7 DEF vars, control
<1> QED BY <1>2, <1>3, <1>4, <1>5, <1>6, <1>7 DEF Next

\* A step that moves no caller into or out of Open's select and no opener into
\* or out of Settled leaves the two sets of OneAnswerPerOpen as they are.
LEMMA AnswersUntouched ==
  ASSUME \A p \in Callers : pc'[p] = "select" <=> pc[p] = "select",
         \A s \in Sessions : pc'[Opener(s)] \in Settled <=> pc[Opener(s)] \in Settled
  PROVE  Waiting' = Waiting /\ Unanswered' = Unanswered
BY DEF Waiting, Unanswered, Settled

\* What the two sets become when an Open starts its opener, and is answered.
LEMMA AnswerCounts ==
  ASSUME TypeOK, OneAnswerPerOpen, NEW p \in Callers, NEW s \in Sessions
  PROVE  /\ p \notin Waiting /\ s \notin Unanswered =>
              Cardinality(Waiting \union {p}) = Cardinality(Unanswered \union {s})
         /\ p \in Waiting /\ s \in Unanswered =>
              Cardinality(Waiting \ {p}) = Cardinality(Unanswered \ {s})
<1>1. IsFiniteSet(Waiting)
  BY LifecycleAssumption, FS_Subset DEF LifecycleAssumption, Waiting
<1>2. IsFiniteSet(Unanswered)
  <2>1. IsFiniteSet(Sessions) BY LifecycleAssumption, FS_Interval DEF LifecycleAssumption, Sessions
  <2> QED BY <2>1, FS_Subset DEF Unanswered
<1>3. Cardinality(Waiting) \in Nat /\ Cardinality(Unanswered) \in Nat
  BY <1>1, <1>2, FS_CardinalityType
<1>4. p \notin Waiting /\ s \notin Unanswered =>
        Cardinality(Waiting \union {p}) = Cardinality(Unanswered \union {s})
  <2>1. Cardinality(Waiting \union {p}) =
          IF p \in Waiting THEN Cardinality(Waiting) ELSE Cardinality(Waiting) + 1
    BY <1>1, FS_AddElement, Zenon
  <2>2. Cardinality(Unanswered \union {s}) =
          IF s \in Unanswered THEN Cardinality(Unanswered) ELSE Cardinality(Unanswered) + 1
    BY <1>2, FS_AddElement, Zenon
  <2> QED BY <2>1, <2>2 DEF OneAnswerPerOpen
<1>5. p \in Waiting /\ s \in Unanswered =>
        Cardinality(Waiting \ {p}) = Cardinality(Unanswered \ {s})
  BY <1>1, <1>2, <1>3, FS_RemoveElement DEF OneAnswerPerOpen
<1> QED BY <1>4, <1>5

LEMMA OneAnswerStep ==
  ASSUME TypeOK, OpenerContinues, OneAnswerPerOpen, [Next]_vars
  PROVE  OneAnswerPerOpen'
<1> USE SessionGoroutines, DistinctGoroutines DEF TypeOK
<1> DEFINE Untouched == Waiting' = Waiting /\ Unanswered' = Unanswered
<1>0. Untouched => OneAnswerPerOpen' BY DEF OneAnswerPerOpen
<1>1. ASSUME NEW g \in Goroutines, Proceed(g) PROVE Untouched
  <2>1. PICK l \in Labels : /\ pc' = [pc EXCEPT ![g] = l] \/ UNCHANGED pc
                           /\ pc[g] # "select" /\ pc[g] \notin Settled
                           /\ l # "select" /\ (l \notin Settled \/ l = after[g])
    BY <1>1 DEF Proceed, CloseBrowser, ShutdownGraceful, ShutdownAlloc, ShutdownContext,
                ShutdownReturns, Run, RunAllocates, RunSucceeds, RunFails, RunPanics, TakeToken,
                TakeClosedToken, Allocated, AllocateFails, InstallSelectionCapture, Call, Goto,
                Leave, Failed, control, Labels, Settled, ControlOK, Continuations
  <2>2. \A p \in Callers : pc'[p] = "select" <=> pc[p] = "select"
    BY <2>1 DEF ControlOK, Goroutines
  <2>3. \A s \in Sessions : pc'[Opener(s)] \in Settled <=> pc[Opener(s)] \in Settled
    BY <2>1 DEF ControlOK, OpenerContinues, Continuations, Settled
  <2> QED BY <2>2, <2>3, AnswersUntouched
<1>2. ASSUME NEW g \in Callers \union Openers, Reload(g) PROVE Untouched
  <2>1. PICK l \in Labels : /\ pc' = [pc EXCEPT ![g] = l]
                           /\ pc[g] # "select" /\ pc[g] \notin Settled
                           /\ l # "select" /\ (l \notin Settled \/ l = after[g])
    BY <1>2 DEF Reload, Idle, Goto, Labels, Settled, ControlOK, Continuations, Goroutines
  <2>2. \A p \in Callers : pc'[p] = "select" <=> pc[p] = "select"
    BY <2>1 DEF ControlOK, Goroutines
  <2>3. \A s \in Sessions : pc'[Opener(s)] \in Settled <=> pc[Opener(s)] \in Settled
    BY <2>1 DEF ControlOK, OpenerContinues, Continuations, Settled
  <2> QED BY <2>2, <2>3, AnswersUntouched
<1>3. ASSUME NEW p \in Callers, CallerStep(p) PROVE OneAnswerPerOpen'
  <2> p \in Goroutines BY DEF Goroutines
  <2>1. CASE Open(p) /\ OpenLaunch(p)
    <3>1. PICK s \in Sessions :
            /\ pc[Opener(s)] = "none"
            /\ pc' = [pc EXCEPT ![p] = "select", ![Opener(s)] = "graceful",
                                ![ExitListener(s)] = "waitExit"]
      BY <2>1 DEF OpenLaunch, NextSession
    <3>2. Waiting' = Waiting \union {p} /\ p \notin Waiting
      BY <2>1, <3>1 DEF Waiting, Open, ControlOK, Goroutines
    <3>3. Unanswered' = Unanswered \union {s} /\ s \notin Unanswered
      BY <3>1 DEF Unanswered, ControlOK
    <3> QED BY <3>2, <3>3, AnswerCounts DEF OneAnswerPerOpen
  <2>2. CASE ~(Open(p) /\ OpenLaunch(p))
    <3>1. PICK l : pc' = [pc EXCEPT ![p] = l] /\ pc[p] # "select" /\ l # "select"
      BY <1>3, <2>2 DEF CallerStep, CallOpen, OpenBrowser, CallClose, RestartBrowser, Execute,
         CallTool, NavigateToURL, Open, OpenNavigate, OpenSkip, Idle, Goto, Call, Leave
    <3>2. \A q \in Callers : pc'[q] = "select" <=> pc[q] = "select"
      BY <3>1 DEF ControlOK, Goroutines
    <3>3. \A s \in Sessions : pc'[Opener(s)] \in Settled <=> pc[Opener(s)] \in Settled
      BY <3>1 DEF ControlOK
    <3> QED BY <1>0, <3>2, <3>3, AnswersUntouched
  <2> QED BY <2>1, <2>2
<1>4. ASSUME NEW s \in Sessions, OpenerStep(s) PROVE OneAnswerPerOpen'
  <2>1. ASSUME NEW p \in Callers, OpenReturns(p, s) \/ OpenFails(p, s)
        PROVE  OneAnswerPerOpen'
    <3>1. Waiting' = Waiting \ {p} /\ p \in Waiting
      BY <2>1 DEF OpenReturns, OpenFails, Waiting, ControlOK, Goroutines
    <3>2. Unanswered' = Unanswered \ {s} /\ s \in Unanswered
      BY <2>1 DEF OpenReturns, OpenFails, Unanswered, ControlOK
    <3> QED BY <3>1, <3>2, AnswerCounts DEF OneAnswerPerOpen
  <2>2. CASE CreateBrowserContext(s) \/ MarkReady(s) \/ ProcessPendingReload(s)
    BY <1>0, <2>2, AnswersUntouched
    DEF CreateBrowserContext, MarkReady, ProcessPendingReload, Call, Goto, ControlOK, Settled,
        Goroutines
  <2>3. CASE MonitorStart(s) \/ MonitorWakes(s)
    BY <1>0, <2>3, AnswersUntouched
    DEF MonitorStart, MonitorWakes, MonitorWoken, Goto, ControlOK, Settled, Goroutines
  <2>4. CASE ExitListenerWakes(s)
    BY <1>0, <2>4, AnswersUntouched
    DEF ExitListenerWakes, Call, Goto, ControlOK, Settled, Goroutines
  <2> QED BY <1>4, <2>1, <2>2, <2>3, <2>4 DEF OpenerStep
<1>5. CASE SignalExit \/ \E s \in Sessions : UserClosesWindow(s)
  BY <1>0, <1>5, AnswersUntouched DEF SignalExit, UserClosesWindow, control
<1>6. CASE UNCHANGED vars BY <1>0, <1>6, AnswersUntouched DEF vars, control
<1> QED BY <1>0, <1>1, <1>2, <1>3, <1>4, <1>5, <1>6 DEF Next

\* ReadyChan and ErrChan are shared by all Opens, yet the answers still to be
\* sent are always as many as the calls that wait for one: no Open can be left
\* in its select for want of an opener, and no opener on its send.
THEOREM AnswersMatch == Spec => []OneAnswerPerOpen
<1>1. Init => OneAnswerPerOpen /\ OpenerContinues
  <2> SUFFICES ASSUME Init PROVE OneAnswerPerOpen /\ OpenerContinues OBVIOUS
  <2>1. Waiting = {} BY DEF Init, Waiting, Goroutines
  <2>2. Unanswered = {} BY SessionGoroutines, DistinctGoroutines DEF Init, Unanswered
  <2>3. OpenerContinues BY SessionGoroutines DEF Init, OpenerContinues
  <2> QED BY <2>1, <2>2, <2>3 DEF OneAnswerPerOpen
<1>2. TypeOK /\ OpenerContinues /\ OneAnswerPerOpen /\ [Next]_vars
        => OneAnswerPerOpen' /\ OpenerContinues'
  BY OneAnswerStep, OpenerContinuesStep
<1> QED BY <1>1, <1>2, TypeCorrect, PTL DEF Spec

-----------------------------------------------------------------------------
(***************************************************************************)
(* One driver d opens and closes the browser, every other caller reloads   *)
(* it only, nobody closes the window by hand, and a session starts when    *)
(* nothing of an earlier one runs.  The last two theorems need all of it:  *)
(* with a second driver, a late monitor or a user who closes the window    *)
(* TLC finds them false.                                                   *)
(***************************************************************************)
SerialUse(d) ==
  /\ QuietStarts /\ ~UserCloses /\ ~ExitSignals
  /\ \A p \in Callers \ {d} : Ops[p] \subseteq {"Reload"}

Closing == {"graceful", "killChrome", "cancelCtx", "closed"}

\* The stages of an opener that owes its answer: it runs shutdownChrome, which finds
\* nothing to shut down; it starts Chrome; the page has its browser and is set up;
\* the browser is ready; the opener reports an error.
Working(s) == pc[Opener(s)] \notin Settled

RunsInto(s, l) == pc[Opener(s)] = "run" /\ after[Opener(s)] = l

Clearing(s) ==
  \/ pc[Opener(s)] \in Closing /\ after[Opener(s)] = "assign"
  \/ pc[Opener(s)] = "assign"

Starting(s) ==
  \/ RunsInto(s, "install")
  \/ /\ pc[Opener(s)] \in {"semaphore", "allocating"}
     /\ using[Opener(s)] = s /\ after[Opener(s)] = "install"

Preparing(s) ==
  \/ pc[Opener(s)] = "install"
  \/ RunsInto(s, "ready")
  \/ pc[Opener(s)] = "ready"

Finishing(s) ==
  \/ pc[Opener(s)] \in {"takePending", "sendReady"}
  \/ pc[Opener(s)] \in {"reload", "run"} /\ after[Opener(s)] = "sendReady"

Failing(s) == pc[Opener(s)] = "sendErr"

\* The driver alone closes, under Mu; the others reload.
Roles(d) ==
  /\ mu \in {Nil, d} /\ ~exitSignalled
  /\ mu = d <=> pc[d] \in Closing
  /\ pc[d] \in {"idle", "open", "navigate", "select", "reopen", "close", "run", "install"}
                 \union Closing
  /\ after[d] \in {"idle", "open", "reopen", "run"}
  /\ \A p \in Callers \ {d} : pc[p] \in {"idle", "run"} /\ after[p] = "idle"
  /\ \A s \in Sessions : pc[ExitListener(s)] \in {"none", "waitExit"}

\* What holds while the opener of s works and the driver waits for it.
Opening(d, s) ==
  /\ pc[d] = "select" /\ isOpen
  /\ Clearing(s) \/ Starting(s) \/ Preparing(s) \/ Finishing(s) \/ Failing(s)
  /\ Clearing(s) => ctx = Nil /\ ~done[s]
  /\ ~Clearing(s) => ctx = s
  /\ Clearing(s) \/ Starting(s) \/ Preparing(s) => \A p \in Callers : pc[p] # "run"
  /\ Clearing(s) \/ Starting(s) \/ Preparing(s) \/ Failing(s) => ~ready
  /\ Clearing(s) \/ Starting(s) \/ pc[Opener(s)] = "install" => ~installed
  /\ RunsInto(s, "install") => windows[s] = 0
  /\ Preparing(s) \/ Finishing(s) => attached[s]
  /\ RunsInto(s, "ready") \/ pc[Opener(s)] = "ready" => installed
  /\ Finishing(s) => ready

Stages(d) ==
  /\ \A s \in Sessions : Working(s) => Opening(d, s)
  /\ \A s, t \in Sessions : Working(s) /\ Working(t) => s = t

\* Ctx, Cancel and AllocCancel are of one session, except inside shutdownChrome; an
\* open browser has a live context, and once its Open is answered it is ready.
Handles(d) ==
  /\ pc[d] \notin {"cancelCtx", "closed"} => cancel = ctx /\ allocCancel = ctx
  /\ pc[d] = "cancelCtx" => ctx = Nil /\ cancel = allocCancel /\ (cancel # Nil => done[cancel])
  /\ pc[d] = "closed" => ctx = Nil /\ allocCancel = Nil
  /\ isOpen => pc[d] \notin Closing
  /\ ~isOpen => (pc[d] \notin Closing => ctx = Nil) /\ ~ready /\ ~installed
  /\ isOpen /\ pc[d] # "select" => ctx # Nil
  /\ isOpen /\ pc[d] \notin {"select", "close"} => ready
  /\ isOpen /\ ctx # Nil => ~done[ctx]

\* A session that has not started left no trace; no monitor of an open browser is woken.
Traces ==
  /\ \A s \in Sessions :
       pc[Opener(s)] = "none" => ~done[s] /\ ctx # s /\ cancel # s /\ allocCancel # s
  /\ \A s \in Sessions :
       pc[Opener(s)] = "monitorWait" =>
         using[Opener(s)] \in Sessions /\ (isOpen => ~done[using[Opener(s)]])

\* A window is the one of the context that AllocCancel ends; what is ready has its
\* browser and its listeners; nobody runs on a context without a browser.
Windows ==
  /\ \A s \in Sessions : windows[s] > 0 => allocCancel = s /\ ~done[s] /\ windows[s] = 1
  /\ installed => ctx # Nil /\ listening[ctx]
  /\ ready => ctx # Nil /\ installed /\ attached[ctx]
  /\ \A p \in Callers : pc[p] = "run" /\ ctx # Nil => attached[ctx]

Serial(d) == Roles(d) /\ Stages(d) /\ Handles(d) /\ Traces /\ Windows

-----------------------------------------------------------------------------
\* g is the only goroutine that moves.
OnlyMoves(g) ==
  \A h \in Goroutines \ {g} : pc'[h] = pc[h] /\ after'[h] = after[h] /\ using'[h] = using[h]

\* An opener that does not move stays in its stage.
LEMMA StageStays ==
  ASSUME NEW s \in Sessions, pc'[Opener(s)] = pc[Opener(s)],
         after'[Opener(s)] = after[Opener(s)], using'[Opener(s)] = using[Opener(s)]
  PROVE  /\ Working(s)' <=> Working(s)
         /\ Clearing(s)' <=> Clearing(s)
         /\ Starting(s)' <=> Starting(s)
         /\ Preparing(s)' <=> Preparing(s)
         /\ Finishing(s)' <=> Finishing(s)
         /\ Failing(s)' <=> Failing(s)
         /\ \A l : RunsInto(s, l)' <=> RunsInto(s, l)
BY DEF Working, Clearing, Starting, Preparing, Finishing, Failing, RunsInto

\* A caller's steps outside the procedures, but for those that start an opener, take
\* its answer, close or install: nothing but the caller's place changes.
LEMMA CallerMoves ==
  ASSUME NEW d \in Callers, Serial(d), TypeOK, NEW p \in Callers,
         UNCHANGED <<mu, isOpen, ready, installed, handles, chrome, exitSignalled>>,
         OnlyMoves(p), 
         pc[p] # "select" /\ pc[p] \notin Closing,
         pc'[p] # "select" /\ pc'[p] \notin Closing,
         p # d => pc'[p] \in {"idle", "run"} /\ after'[p] = "idle",
         p = d => /\ pc'[d] \in {"idle", "open", "navigate", "reopen", "close", "run", "install"}
                  /\ after'[d] \in {"idle", "open", "reopen", "run"}
                  /\ pc[d] = "close" => pc'[d] = "close",
         pc'[p] = "run" /\ pc[p] # "run" => ready
  PROVE  Serial(d)'
<1> USE SessionGoroutines, DistinctGoroutines DEF handles, chrome
<1>0. \A h \in Goroutines \ {p} : pc'[h] = pc[h] /\ after'[h] = after[h] /\ using'[h] = using[h]
  BY DEF OnlyMoves
<1>1. \A q \in Callers : q \in Goroutines BY DEF Goroutines
<1>2. \A s \in Sessions : /\ pc'[Opener(s)] = pc[Opener(s)] /\ using'[Opener(s)] = using[Opener(s)]
                          /\ after'[Opener(s)] = after[Opener(s)]
                          /\ pc'[ExitListener(s)] = pc[ExitListener(s)]
  BY <1>0
<1>3. Roles(d)' BY <1>0, <1>1, <1>2 DEF Serial, Roles
<1>4. Stages(d)'
  <2>1. \A s \in Sessions : Working(s)' <=> Working(s) BY <1>2, StageStays
  <2>2. ASSUME NEW s \in Sessions, Working(s) PROVE Opening(d, s)'
    <3>1. Opening(d, s) BY <2>2 DEF Serial, Stages
    <3>2. p # d BY <3>1 DEF Opening
    <3>3. pc'[d] = pc[d] BY <1>0, <1>1, <3>2
    <3>4. Clearing(s) \/ Starting(s) \/ Preparing(s) => \A q \in Callers : pc'[q] # "run"
      BY <1>0, <1>1, <3>1 DEF Opening, Clearing
    <3> QED BY <1>2, <3>1, <3>3, <3>4, StageStays DEF Opening
  <2> QED BY <2>1, <2>2 DEF Serial, Stages
<1>5. Handles(d)'
  <2>1. CASE p = d BY <2>1 DEF Serial, Handles, Closing
  <2>2. CASE p # d
    <3>1. pc'[d] = pc[d] BY <1>0, <1>1, <2>2
    <3> QED BY <3>1 DEF Serial, Handles
  <2> QED BY <2>1, <2>2
<1>6. Traces' BY <1>2 DEF Serial, Traces
<1>7. Windows' BY <1>0, <1>1 DEF Serial, Windows
<1> QED BY <1>3, <1>4, <1>5, <1>6, <1>7 DEF Serial

\* A goroutine that goes to a label moves alone.
LEMMA MovesAlone ==
  ASSUME ControlOK, NEW g \in Goroutines, NEW l, NEW r, NEW u,
         pc' = [pc EXCEPT ![g] = l],
         after' = after \/ after' = [after EXCEPT ![g] = r],
         using' = using \/ using' = [using EXCEPT ![g] = u]
  PROVE  OnlyMoves(g) /\ pc'[g] = l
BY DEF ControlOK, OnlyMoves

\* A context on which a caller runs chromedp is alive, or closed by the driver.
LEMMA SerialRun ==
  ASSUME NEW d \in Callers, Serial(d), TypeOK, NEW p \in Callers, Run(p)
  PROVE  Serial(d)'
<1> p \in Goroutines BY DEF Goroutines
<1>1. pc[p] = "run" /\ (ctx # Nil => attached[ctx]) BY DEF Run, Serial, Windows
<1>2. CASE RunPanics(p)
  <2>1. OnlyMoves(p) /\ pc'[p] = pc[p] /\ after'[p] = after[p]
    BY <1>2 DEF Run, RunPanics, OnlyMoves
  <2> QED BY <1>1, <1>2, <2>1, CallerMoves DEF Run, RunPanics, fields, Serial, Roles, Closing
<1>3. CASE RunSucceeds(p) \/ RunFails(p)
  <2>1. /\ after[p] \in {"idle", "open", "reopen", "run"}
        /\ p # d => after[p] = "idle"
    BY DEF Serial, Roles
  <2>2. pc' = [pc EXCEPT ![p] = after[p]] /\ UNCHANGED <<after, using, chrome>>
    BY <1>3, <2>1 DEF Run, RunSucceeds, RunFails, Failed, Leave, Goto
  <2>3. OnlyMoves(p) /\ pc'[p] = after[p] BY <2>2, MovesAlone DEF TypeOK
  <2>4. UNCHANGED <<mu, isOpen, ready, installed, handles, chrome, exitSignalled>>
    BY <2>2 DEF Run, fields
  <2>5. after'[p] = after[p] BY <2>2
  <2> QED BY <1>1, <2>1, <2>3, <2>4, <2>5, CallerMoves DEF Closing
<1> QED BY <1>1, <1>2, <1>3 DEF Run, RunAllocates

\* A Reload by a caller, run now or left pending.
LEMMA SerialReload ==
  ASSUME NEW d \in Callers, Serial(d), TypeOK, NEW p \in Callers, Reload(p)
  PROVE  Serial(d)'
<1> p \in Goroutines BY DEF Goroutines
<1>1. pc[p] # "reload" BY DEF Serial, Roles, Closing
<1>2. pc[p] = "idle" /\ after' = [after EXCEPT ![p] = "idle"] BY <1>1 DEF Reload, Idle
<1>3. PICK l \in {"idle", "run"} : pc' = [pc EXCEPT ![p] = l] /\ (l = "run" => ready)
  BY <1>1 DEF Reload, Goto
<1>4. OnlyMoves(p) /\ pc'[p] = l BY <1>2, <1>3, MovesAlone DEF Reload, TypeOK
<1>5. UNCHANGED <<mu, isOpen, ready, installed, handles, chrome, exitSignalled>>
  BY DEF Reload, fields, env
<1>6. after'[p] = "idle" BY <1>2 DEF TypeOK, ControlOK
<1> QED BY <1>2, <1>3, <1>4, <1>5, <1>6, CallerMoves DEF Closing

\* Only the driver calls anything but Reload.
LEMMA OnlyDriverCalls ==
  ASSUME NEW d \in Callers, SerialUse(d), Roles(d), NEW p \in Callers, CallerStep(p)
  PROVE  p = d
BY DEF SerialUse, Roles, CallerStep, CallOpen, OpenBrowser, CallClose, RestartBrowser, Execute,
       CallTool, Open, NavigateToURL, Idle

\* The driver's calls, as far as they start no opener.
LEMMA SerialCall ==
  ASSUME NEW d \in Callers, Serial(d), TypeOK, CallerStep(d), ~(Open(d) /\ OpenLaunch(d))
  PROVE  Serial(d)'
<1> d \in Goroutines BY DEF Goroutines
<1> USE DEF TypeOK, Call, Goto, Leave, Idle
<1>1. UNCHANGED <<mu, isOpen, ready, installed, handles, chrome, exitSignalled>>
  BY DEF CallerStep, CallOpen, OpenBrowser, CallClose, RestartBrowser, Execute, CallTool,
         NavigateToURL, Open, OpenNavigate, OpenSkip, fields, env
<1> DEFINE Stop == {"idle", "open", "navigate", "reopen", "close", "run", "install"}
<1>2. /\ pc[d] \in {"idle", "open", "navigate", "reopen"}
      /\ \E l \in Stop : pc' = [pc EXCEPT ![d] = l] /\ (l = "run" => isOpen \/ ctx # Nil)
      /\ UNCHANGED using
      /\ after' = after \/ \E r \in {"idle", "open", "reopen", "run"} : after' = [after EXCEPT ![d] = r]
  <2>1. CASE CallOpen(d) BY <2>1 DEF CallOpen
  <2>2. CASE OpenBrowser(d) BY <2>2 DEF OpenBrowser
  <2>3. CASE CallClose(d) BY <2>3 DEF CallClose
  <2>4. CASE RestartBrowser(d) BY <2>4 DEF RestartBrowser
  <2>5. CASE Execute(d) BY <2>5 DEF Execute
  <2>6. CASE CallTool(d) BY <2>6 DEF CallTool
  <2>7. CASE NavigateToURL(d) BY <2>7 DEF NavigateToURL
  <2>8. CASE Open(d) BY <2>8 DEF Open, OpenNavigate, OpenSkip
  <2> QED BY <2>1, <2>2, <2>3, <2>4, <2>5, <2>6, <2>7, <2>8 DEF CallerStep
<1>3. PICK l \in Stop : pc' = [pc EXCEPT ![d] = l] /\ (l = "run" => isOpen \/ ctx # Nil)
  BY <1>2
<1>4. OnlyMoves(d) /\ pc'[d] = l BY <1>2, <1>3, MovesAlone
<1>5. after'[d] \in {"idle", "open", "reopen", "run"}
  BY <1>2 DEF Serial, Roles, ControlOK
<1>6. l = "run" => ready BY <1>2, <1>3 DEF Serial, Handles, Closing
<1> QED BY <1>1, <1>2, <1>4, <1>5, <1>6, CallerMoves DEF Closing

\* Open starts an opener, alone.
LEMMA SerialLaunch ==
  ASSUME NEW d \in Callers, SerialUse(d), Serial(d), TypeOK, Open(d), OpenLaunch(d)
  PROVE  Serial(d)'
<1> USE SessionGoroutines, DistinctGoroutines DEF TypeOK, ControlOK
<1>1. \A p \in Callers : p \in Goroutines BY DEF Goroutines
<1>2. PICK s \in Sessions :
        /\ pc[Opener(s)] = "none"
        /\ pc' = [pc EXCEPT ![d] = "select", ![Opener(s)] = "graceful",
                            ![ExitListener(s)] = "waitExit"]
        /\ after' = [after EXCEPT ![Opener(s)] = "assign"]
  BY DEF OpenLaunch, NextSession
<1>3. /\ pc[d] = "open" /\ mu = Nil /\ isOpen'
      /\ UNCHANGED <<mu, ready, installed, handles, chrome, using, exitSignalled>>
  BY DEF Open, OpenLaunch, env
<1>4. ~isOpen /\ ctx = Nil /\ cancel = Nil /\ allocCancel = Nil /\ ~ready /\ ~installed
  BY <1>3 DEF Serial, Handles, OpenLaunch, OpenAndAlive, handles, Closing
<1>5. \A t \in Sessions : ~Working(t) BY <1>3 DEF Serial, Stages, Opening
<1>6. /\ pc'[d] = "select" /\ pc'[Opener(s)] = "graceful" /\ after'[Opener(s)] = "assign"
      /\ \A p \in Callers \ {d} : pc'[p] = pc[p] /\ after'[p] = after[p]
      /\ after'[d] = after[d]
      /\ \A t \in Sessions : pc'[ExitListener(t)] \in {pc[ExitListener(t)], "waitExit"}
  BY <1>1, <1>2
<1>7. \A t \in Sessions : t # s => /\ pc'[Opener(t)] = pc[Opener(t)]
                                   /\ after'[Opener(t)] = after[Opener(t)]
                                   /\ using'[Opener(t)] = using[Opener(t)]
  BY <1>2, <1>3
<1>8. Quiet BY DEF OpenLaunch, SerialUse
<1>9. Roles(d)' BY <1>3, <1>6 DEF Serial, Roles, Closing
<1>10. Stages(d)'
  <2>1. \A t \in Sessions : Working(t)' => t = s BY <1>5, <1>7, StageStays
  <2>2. Clearing(s)' /\ ~Starting(s)' /\ ~Preparing(s)' /\ ~Finishing(s)' /\ ~Failing(s)'
    BY <1>6 DEF Clearing, Starting, Preparing, Finishing, Failing, RunsInto, Closing
  <2>3. ~done'[s] BY <1>2, <1>3 DEF Serial, Traces, chrome
  <2>4. \A p \in Callers : pc'[p] # "run" BY <1>6, <1>8 DEF Quiet
  <2>5. Opening(d, s)'
    BY <1>3, <1>4, <1>6, <2>2, <2>3, <2>4 DEF Opening, handles, RunsInto
  <2> QED BY <2>1, <2>5 DEF Stages
<1>11. Handles(d)' BY <1>3, <1>4, <1>6 DEF Handles, handles, Closing
<1>12. Traces'
  <2>1. ASSUME NEW t \in Sessions, pc'[Opener(t)] = "none"
        PROVE  ~done'[t] /\ ctx' # t /\ cancel' # t /\ allocCancel' # t
    <3>1. t # s BY <1>6, <2>1
    <3> QED BY <1>3, <1>7, <2>1, <3>1 DEF Serial, Traces, handles, chrome
  <2>2. ASSUME NEW t \in Sessions, pc'[Opener(t)] = "monitorWait"
        PROVE  using'[Opener(t)] \in Sessions /\ ~done'[using'[Opener(t)]]
    <3>1. t # s BY <1>6, <2>2
    <3> QED BY <1>3, <1>7, <1>8, <2>2, <3>1 DEF Serial, Traces, Quiet, MonitorWoken, chrome
  <2> QED BY <2>1, <2>2 DEF Traces
<1>13. Windows'
  BY <1>3, <1>4, <1>6, <1>8 DEF Serial, Windows, Quiet, handles, chrome
<1> QED BY <1>9, <1>10, <1>11, <1>12, <1>13 DEF Serial

\* While the driver is not in Open's select no opener works, and none starts to work
\* by a step of the driver.
LEMMA NobodyWorks ==
  ASSUME NEW d \in Callers, Serial(d), OnlyMoves(d), pc[d] # "select"
  PROVE  /\ \A s \in Sessions : ~Working(s) /\ ~Clearing(s)
         /\ Stages(d)'
         /\ \A s \in Sessions : pc'[Opener(s)] = pc[Opener(s)] /\ using'[Opener(s)] = using[Opener(s)]
         /\ \A p \in Callers \ {d} : pc'[p] = pc[p] /\ after'[p] = after[p]
         /\ \A s \in Sessions : pc'[ExitListener(s)] = pc[ExitListener(s)]
<1> USE SessionGoroutines, DistinctGoroutines
<1>1. \A s \in Sessions : ~Working(s) BY DEF Serial, Stages, Opening
<1>2. \A s \in Sessions : Clearing(s) => Working(s)
  BY DEF Clearing, Working, Settled, Closing
<1>3. \A s \in Sessions : pc'[Opener(s)] = pc[Opener(s)] /\ after'[Opener(s)] = after[Opener(s)]
                          /\ using'[Opener(s)] = using[Opener(s)]
  BY DEF OnlyMoves
<1>4. \A s \in Sessions : ~Working(s)' BY <1>1, <1>3, StageStays
<1>5. \A p \in Callers \ {d} : pc'[p] = pc[p] /\ after'[p] = after[p]
  BY DEF OnlyMoves, Goroutines
<1>6. \A s \in Sessions : pc'[ExitListener(s)] = pc[ExitListener(s)] BY DEF OnlyMoves
<1> QED BY <1>1, <1>2, <1>3, <1>4, <1>5, <1>6 DEF Stages

\* CloseBrowser and the shutdown it runs under Mu, by the driver.
LEMMA SerialClose ==
  ASSUME NEW d \in Callers, Serial(d), TypeOK, CloseBrowser(d)
  PROVE  Serial(d)'
<1> d \in Goroutines BY DEF Goroutines
<1> USE DEF CloseBrowser, ResetSession
<1>1. OnlyMoves(d) /\ pc'[d] = "graceful" /\ after'[d] = after[d]
  BY MovesAlone DEF Goto, TypeOK
<1>2. pc[d] = "close" OBVIOUS
<1>3. Stages(d)' BY <1>1, <1>2, NobodyWorks
<1>4. Roles(d)' BY <1>1, <1>2, NobodyWorks DEF Serial, Roles, Closing, env
<1>5. Handles(d)' BY <1>1, <1>2 DEF Serial, Handles, Closing, handles, chrome
<1>6. Traces' BY <1>1, <1>2, NobodyWorks DEF Serial, Traces, handles, chrome
<1>7. Windows' BY <1>1, <1>2, NobodyWorks DEF Serial, Windows, handles, chrome
<1> QED BY <1>3, <1>4, <1>5, <1>6, <1>7 DEF Serial

\* What the end of a Chrome does to the sessions.
LEMMA GoneSession ==
  ASSUME ChromeOK, NEW c \in Sessions, ChromeGone(c)
  PROVE  /\ done'[c] /\ windows'[c] = 0
         /\ \A s \in Sessions \ {c} : done'[s] = done[s] /\ windows'[s] = windows[s]
         /\ attached' = attached /\ listening' = listening
BY DEF ChromeOK, ChromeGone

\* shutdownChrome, step by step.
LEMMA SerialShutdown ==
  ASSUME NEW d \in Callers, Serial(d), TypeOK,
         ShutdownGraceful(d) \/ ShutdownAlloc(d) \/ ShutdownContext(d) \/ ShutdownReturns(d)
  PROVE  Serial(d)'
<1> d \in Goroutines BY DEF Goroutines
<1>1. /\ pc[d] \in Closing /\ after' = after /\ UNCHANGED <<fields, exitSignalled>>
      /\ OnlyMoves(d)
      /\ pc'[d] = CASE pc[d] = "graceful" -> "killChrome" [] pc[d] = "killChrome" -> "cancelCtx"
                    [] pc[d] = "cancelCtx" -> "closed" [] OTHER -> after[d]
  BY MovesAlone
  DEF ShutdownGraceful, ShutdownAlloc, ShutdownContext, ShutdownReturns, Closing, Goto, Leave,
      TypeOK, env
<1>2. mu = d /\ ~isOpen /\ ~ready /\ ~installed BY <1>1 DEF Serial, Roles, Handles
<1>3. pc[d] # "select" BY <1>1 DEF Closing
<1>4. Stages(d)' BY <1>1, <1>3, NobodyWorks
<1>5. mu' = (IF pc[d] = "closed" THEN Nil ELSE d)
  BY <1>2 DEF ShutdownGraceful, ShutdownAlloc, ShutdownContext, ShutdownReturns
<1>6. Roles(d)'
  <2>1. mu' = d <=> pc'[d] \in Closing
    BY <1>1, <1>5, LifecycleAssumption DEF Serial, Roles, Closing, LifecycleAssumption
  <2> QED BY <1>1, <1>3, <1>5, <2>1, NobodyWorks DEF Serial, Roles, Closing
<1>7. ~isOpen' /\ ~ready' /\ ~installed' BY <1>1, <1>2 DEF fields
<1>8. ~\E l \in {"cancelCtx", "closed"} : after[d] = l BY DEF Serial, Roles
<1>9. \/ UNCHANGED chrome
      \/ \E c \in Sessions : c \in {ctx, cancel, allocCancel} /\ ChromeGone(c)
  BY DEF ShutdownGraceful, ShutdownAlloc, ShutdownContext, ShutdownReturns, TypeOK, ControlOK,
         SessionOrNil
<1>10. \A s \in Sessions : /\ done'[s] => done[s] \/ s \in {ctx, cancel, allocCancel}
                           /\ done[s] => done'[s]
                           /\ windows'[s] > 0 => windows[s] > 0 /\ windows'[s] = windows[s]
                                                  /\ (done'[s] => done[s])
  BY <1>9, GoneSession DEF TypeOK, chrome
<1>11. Handles(d)'
  <2>1. CASE pc[d] = "graceful"
    BY <1>1, <1>7, <2>1
    DEF Serial, Handles, ShutdownGraceful, ShutdownAlloc, ShutdownContext, ShutdownReturns,
        handles, Closing
  <2>2. CASE pc[d] = "killChrome"
    <3>1. ShutdownAlloc(d) 
      BY <2>2 DEF ShutdownGraceful, ShutdownContext, ShutdownReturns
    <3>2. cancel = allocCancel /\ (allocCancel # Nil => done'[allocCancel])
      BY <2>2, <3>1, GoneSession 
      DEF Serial, Handles, ShutdownAlloc, TypeOK, ControlOK, SessionOrNil
    <3>3. pc'[d] = "cancelCtx" /\ ctx' = Nil /\ cancel' = cancel /\ allocCancel' = allocCancel
      BY <1>1, <2>2, <3>1 DEF ShutdownAlloc
    <3> QED BY <1>7, <3>2, <3>3 DEF Handles, Closing
  <2>3. CASE pc[d] = "cancelCtx"
    BY <1>1, <1>7, <2>3
    DEF Serial, Handles, ShutdownGraceful, ShutdownAlloc, ShutdownContext, ShutdownReturns
  <2>4. CASE pc[d] = "closed"
    BY <1>1, <1>7, <1>8, <2>4
    DEF Serial, Handles, ShutdownGraceful, ShutdownAlloc, ShutdownContext, ShutdownReturns
  <2> QED BY <1>1, <2>1, <2>2, <2>3, <2>4 DEF Closing
<1>12. ctx' \in {ctx, Nil} /\ cancel' \in {cancel, Nil} /\ allocCancel' \in {allocCancel, Nil}
  BY DEF ShutdownGraceful, ShutdownAlloc, ShutdownContext, ShutdownReturns, handles
<1>13. Traces'
  BY <1>1, <1>3, <1>7, <1>10, <1>12, NobodyWorks, LifecycleAssumption
  DEF Serial, Traces, LifecycleAssumption
<1>14. Windows'
  <2>1. ASSUME NEW s \in Sessions, windows'[s] > 0
        PROVE  allocCancel' = s /\ ~done'[s] /\ windows'[s] = 1
    <3>1. allocCancel = s /\ ~done[s] /\ windows[s] = 1 /\ windows'[s] = 1 /\ ~done'[s]
      BY <1>10, <2>1 DEF Serial, Windows
    <3>2. pc[d] # "cancelCtx"
      BY <3>1, LifecycleAssumption DEF Serial, Handles, LifecycleAssumption
    <3>3. allocCancel' = allocCancel
      BY <3>2 DEF ShutdownGraceful, ShutdownAlloc, ShutdownContext, ShutdownReturns, handles
    <3> QED BY <3>1, <3>3
  <2>2. ASSUME NEW p \in Callers, pc'[p] = "run", ctx' # Nil PROVE attached'[ctx']
    <3>1. attached' = attached BY <1>9, GoneSession DEF TypeOK, chrome
    <3>2. ctx' = ctx BY <1>12, <2>2
    <3>3. CASE p = d
      <4>1. pc[d] = "closed" BY <1>1, <2>2, <3>3 DEF Closing
      <4> QED BY <2>2, <3>2, <4>1 DEF Serial, Handles
    <3>4. CASE p # d BY <1>1, <1>3, <2>2, <3>1, <3>2, <3>4, NobodyWorks DEF Serial, Windows
    <3> QED BY <3>3, <3>4
  <2> QED BY <1>7, <2>1, <2>2 DEF Windows
<1> QED BY <1>4, <1>6, <1>11, <1>13, <1>14 DEF Serial

\* The selection tool's installation, by the driver.
LEMMA SerialInstall ==
  ASSUME NEW d \in Callers, Serial(d), TypeOK, InstallSelectionCapture(d)
  PROVE  Serial(d)'
<1> d \in Goroutines /\ d \notin Openers
  BY LifecycleAssumption DEF Goroutines, LifecycleAssumption
<1> USE DEF InstallSelectionCapture
<1>1. OnlyMoves(d) /\ pc'[d] = "run" /\ after'[d] = "idle"
  BY MovesAlone DEF Call, Goto, TypeOK, ControlOK
<1>2. pc[d] = "install" OBVIOUS
<1>3. Stages(d)' BY <1>1, <1>2, NobodyWorks
<1>4. Roles(d)' BY <1>1, <1>2, NobodyWorks DEF Serial, Roles, Closing, env
<1>5. ctx # Nil => isOpen /\ ready BY <1>2 DEF Serial, Handles, Closing
<1>6. installed' = installed /\ listening' = listening
  BY <1>5 DEF Serial, Windows
<1>7. Handles(d)' BY <1>1, <1>2, <1>6 DEF Serial, Handles, Closing, handles
<1>8. Traces' BY <1>1, <1>2, NobodyWorks DEF Serial, Traces, handles
<1>9. Windows' BY <1>1, <1>2, <1>5, <1>6, NobodyWorks DEF Serial, Windows, handles
<1> QED BY <1>3, <1>4, <1>7, <1>8, <1>9 DEF Serial

\* An opener answers and the driver goes on: the browser is ready, or Open closes it.
LEMMA SerialAnswer ==
  ASSUME NEW d \in Callers, Serial(d), TypeOK, NEW s \in Sessions, NEW p \in Callers,
         OpenReturns(p, s) \/ OpenFails(p, s)
  PROVE  Serial(d)'
<1> USE SessionGoroutines, DistinctGoroutines DEF TypeOK, ControlOK
<1>0. \A q \in Callers : q \in Goroutines BY DEF Goroutines
<1>1. p = d BY DEF OpenReturns, OpenFails, Serial, Roles
<1>2. /\ UNCHANGED <<mu, isOpen, ready, installed, handles, chrome, using, exitSignalled>>
      /\ pc[d] = "select"
  BY <1>1 DEF OpenReturns, OpenFails, fields, env
<1>3. Working(s) /\ Opening(d, s) /\ (\A t \in Sessions : Working(t) => t = s)
  <2>1. Working(s) BY DEF OpenReturns, OpenFails, Working, Settled
  <2> QED BY <2>1 DEF Serial, Stages
<1>4. /\ pc'[Opener(s)] \in {"monitorStart", "ended"}
      /\ pc'[d] \in {"idle", "close"} /\ after'[d] \in {after[d], "idle"}
      /\ pc'[d] = "idle" => pc[Opener(s)] = "sendReady"
  BY <1>1, <1>0 DEF OpenReturns, OpenFails
<1>5. /\ \A q \in Callers \ {d} : pc'[q] = pc[q] /\ after'[q] = after[q]
      /\ \A t \in Sessions : pc'[ExitListener(t)] = pc[ExitListener(t)]
  BY <1>0, <1>1 DEF OpenReturns, OpenFails
<1>6. \A t \in Sessions : t # s => /\ pc'[Opener(t)] = pc[Opener(t)]
                                   /\ after'[Opener(t)] = after[Opener(t)]
                                   /\ using'[Opener(t)] = using[Opener(t)]
  BY <1>0, <1>1, <1>2 DEF OpenReturns, OpenFails
<1>7. \A t \in Sessions : ~Working(t)'
  <2>1. ~Working(s)' BY <1>4 DEF Working, Settled
  <2> QED BY <1>3, <1>6, <2>1, StageStays
<1>8. Roles(d)' BY <1>2, <1>4, <1>5 DEF Serial, Roles, Closing
<1>9. Stages(d)' BY <1>7 DEF Stages
<1>10. isOpen /\ ctx # Nil /\ (pc'[d] = "idle" => ready)
  <2>1. ~Clearing(s) BY DEF Clearing, OpenReturns, OpenFails, Closing
  <2>2. pc'[d] = "idle" => Finishing(s) BY <1>4 DEF Finishing
  <2> QED BY <1>3, <2>1, <2>2, LifecycleAssumption DEF Opening, LifecycleAssumption
<1>11. Handles(d)' BY <1>2, <1>4, <1>10 DEF Serial, Handles, Closing, handles, chrome
<1>12. Traces'
  <2>1. pc'[Opener(s)] \notin {"none", "monitorWait"} BY <1>4
  <2> QED BY <1>2, <1>6, <2>1 DEF Serial, Traces, handles, chrome
<1>13. Windows' BY <1>2, <1>4, <1>5 DEF Serial, Windows, handles, chrome
<1> QED BY <1>8, <1>9, <1>11, <1>12, <1>13 DEF Serial

\* A step of an opener at work, the driver waiting: what is left to show of it.
LEMMA OpenerMoves ==
  ASSUME NEW d \in Callers, Serial(d), TypeOK, NEW s \in Sessions,
         Working(s), OnlyMoves(Opener(s)), UNCHANGED <<mu, exitSignalled>>
  PROVE  /\ Opening(d, s) /\ pc'[d] = pc[d]
         /\ Roles(d)'
         /\ Opening(d, s)' => Stages(d)'
         /\ \A p \in Callers : pc'[p] = pc[p]
         /\ \A t \in Sessions : t # s => /\ pc'[Opener(t)] = pc[Opener(t)]
                                         /\ using'[Opener(t)] = using[Opener(t)]
<1> USE SessionGoroutines, DistinctGoroutines
<1>1. Opening(d, s) /\ \A t \in Sessions : Working(t) => t = s BY DEF Serial, Stages
<1>2. \A p \in Callers : pc'[p] = pc[p] /\ after'[p] = after[p]
  BY DEF OnlyMoves, Goroutines
<1>3. \A t \in Sessions : t # s => /\ pc'[Opener(t)] = pc[Opener(t)]
                                   /\ after'[Opener(t)] = after[Opener(t)]
                                   /\ using'[Opener(t)] = using[Opener(t)]
  BY DEF OnlyMoves
<1>4. \A t \in Sessions : pc'[ExitListener(t)] = pc[ExitListener(t)] BY DEF OnlyMoves
<1>5. \A t \in Sessions : Working(t)' => t = s BY <1>1, <1>3, StageStays
<1>6. Roles(d)' BY <1>2, <1>4 DEF Serial, Roles
<1>7. Opening(d, s)' => Stages(d)' BY <1>5 DEF Stages
<1> QED BY <1>1, <1>2, <1>3, <1>6, <1>7

\* Such a step that leaves the handles and the ends of contexts alone keeps them right.
LEMMA OpenerKeepsHandles ==
  ASSUME NEW d \in Callers, Serial(d), TypeOK, NEW s \in Sessions,
         Working(s), OnlyMoves(Opener(s)), UNCHANGED <<mu, exitSignalled>>,
         UNCHANGED <<isOpen, handles, done>>, pc'[Opener(s)] \notin {"none", "monitorWait"}
  PROVE  Handles(d)' /\ Traces'
<1>1. /\ Opening(d, s) /\ pc'[d] = pc[d]
      /\ \A t \in Sessions : t # s => /\ pc'[Opener(t)] = pc[Opener(t)]
                                      /\ using'[Opener(t)] = using[Opener(t)]
  BY OpenerMoves
<1>2. Handles(d)' BY <1>1 DEF Serial, Handles, Opening, handles
<1>3. Traces' BY <1>1 DEF Serial, Traces, handles
<1> QED BY <1>2, <1>3

\* An opener clears what is already clear.
LEMMA SerialClearing ==
  ASSUME NEW d \in Callers, Serial(d), TypeOK, NEW s \in Sessions,
         \/ ShutdownGraceful(Opener(s)) \/ ShutdownAlloc(Opener(s))
         \/ ShutdownContext(Opener(s)) \/ ShutdownReturns(Opener(s))
  PROVE  Serial(d)'
<1> DEFINE g == Opener(s)
<1> g \in Goroutines BY SessionGoroutines
<1>1. pc[g] \in Closing
  BY DEF ShutdownGraceful, ShutdownAlloc, ShutdownContext, ShutdownReturns, Closing
<1>2. Working(s) BY <1>1 DEF Working, Settled, Closing
<1>3. Opening(d, s) BY <1>2 DEF Serial, Stages
<1>4. Clearing(s) /\ after[g] = "assign"
  BY <1>1, <1>3 DEF Opening, Clearing, Starting, Preparing, Finishing, Failing, RunsInto, Closing
<1>5. ctx = Nil /\ cancel = Nil /\ allocCancel = Nil
  BY <1>3, <1>4 DEF Opening, Serial, Handles
<1>6. mu = Nil BY <1>3, LifecycleAssumption DEF Opening, Serial, Roles, Closing, LifecycleAssumption
<1>7. UNCHANGED <<mu, exitSignalled, fields, handles, chrome, after, using>>
  BY <1>5, <1>6, DistinctGoroutines
  DEF ShutdownGraceful, ShutdownAlloc, ShutdownContext, ShutdownReturns, handles, env
<1>8. \E l \in Closing \union {"assign"} : pc' = [pc EXCEPT ![g] = l]
  BY <1>4 DEF ShutdownGraceful, ShutdownAlloc, ShutdownContext, ShutdownReturns, Goto, Leave, Closing
<1>9. OnlyMoves(g) /\ pc'[g] \in Closing \union {"assign"} BY <1>7, <1>8, MovesAlone DEF TypeOK
<1>10. Clearing(s)' /\ ~RunsInto(s, "install")' /\ ~Starting(s)' /\ ~Preparing(s)' /\ ~Finishing(s)'
       /\ ~RunsInto(s, "ready")' /\ pc'[g] \notin {"install", "ready"} /\ ~Failing(s)'
  BY <1>4, <1>7, <1>9 DEF Clearing, Starting, Preparing, Finishing, RunsInto, Closing, Failing
<1>11. \A p \in Callers : pc'[p] = pc[p] BY <1>2, <1>7, <1>9, OpenerMoves
<1>12. Opening(d, s)'
  BY <1>3, <1>4, <1>5, <1>7, <1>10, <1>11 DEF Opening, fields, handles, chrome
<1>13. Roles(d)' /\ Stages(d)' BY <1>2, <1>7, <1>9, <1>12, OpenerMoves
<1>14. Handles(d)' /\ Traces'
  BY <1>2, <1>7, <1>9, OpenerKeepsHandles DEF fields, chrome, Closing
<1>15. Windows' BY <1>5, <1>7, <1>11 DEF Serial, Windows, fields, handles, chrome
<1> QED BY <1>13, <1>14, <1>15 DEF Serial

\* CreateBrowserContext: a fresh context, with both of its cancel functions.
LEMMA SerialCreate ==
  ASSUME NEW d \in Callers, Serial(d), TypeOK, NEW s \in Sessions, CreateBrowserContext(s)
  PROVE  Serial(d)'
<1> DEFINE g == Opener(s)
<1> g \in Goroutines BY SessionGoroutines
<1> USE LifecycleAssumption DEF LifecycleAssumption, CreateBrowserContext
<1>1. Working(s) /\ Clearing(s) BY DEF Working, Settled, Clearing
<1>2. Opening(d, s) BY <1>1 DEF Serial, Stages
<1>3. OnlyMoves(g) /\ pc'[g] = "run" /\ after'[g] = "install"
  BY MovesAlone DEF Call, Goto, TypeOK, ControlOK
<1>4. UNCHANGED <<mu, exitSignalled, fields, chrome, using>> BY DEF env
<1>5. /\ RunsInto(s, "install")' /\ Starting(s)' /\ ~Clearing(s)' /\ ~Preparing(s)'
      /\ ~Finishing(s)' /\ ~Failing(s)' /\ ~RunsInto(s, "ready")'
  BY <1>3 DEF RunsInto, Starting, Clearing, Preparing, Finishing, Failing, Closing
<1>6. windows[s] = 0
  BY <1>1, <1>2 DEF Serial, Windows, Opening, Handles, TypeOK, ChromeOK, MaxWindows
<1>7. \A p \in Callers : pc'[p] = pc[p] /\ pc[p] # "run"
  BY <1>1, <1>2, <1>3, <1>4, OpenerMoves DEF Opening
<1>8. Opening(d, s)'
  BY <1>1, <1>2, <1>3, <1>4, <1>5, <1>6, <1>7 DEF Opening, fields, chrome
<1>9. Roles(d)' /\ Stages(d)' BY <1>1, <1>3, <1>4, <1>8, OpenerMoves
<1>10. Handles(d)'
  BY <1>1, <1>2, <1>4, <1>7 DEF Opening, Handles, fields, chrome, Closing
<1>11. Traces'
  <2>1. \A t \in Sessions : t # s => /\ pc'[Opener(t)] = pc[Opener(t)]
                                     /\ using'[Opener(t)] = using[Opener(t)]
    BY <1>1, <1>3, <1>4, OpenerMoves
  <2> QED BY <1>3, <1>4, <2>1 DEF Serial, Traces, fields, chrome
<1>12. Windows'
  <2>1. \A t \in Sessions : windows[t] = 0
    BY <1>1, <1>2 DEF Serial, Windows, Opening, Handles, TypeOK, ChromeOK, MaxWindows
  <2>2. ~ready' /\ ~installed' BY <1>1, <1>2, <1>4 DEF Opening, fields
  <2> QED BY <1>4, <1>7, <2>1, <2>2 DEF Windows, chrome
<1> QED BY <1>9, <1>10, <1>11, <1>12 DEF Serial

\* Where an opener is tells its stage.
LEMMA StageOfLabel ==
  ASSUME NEW s \in Sessions
  PROVE  /\ pc[Opener(s)] = "run" /\ after[Opener(s)] = "install" =>
              Starting(s) /\ RunsInto(s, "install")
         /\ pc[Opener(s)] = "run" /\ after[Opener(s)] = "ready" => Preparing(s) /\ RunsInto(s, "ready")
         /\ Preparing(s) => ~Clearing(s) /\ ~Starting(s) /\ ~Finishing(s) /\ ~Failing(s)
         /\ Starting(s) => ~Clearing(s) /\ ~Preparing(s) /\ ~Finishing(s) /\ ~Failing(s)
         /\ Finishing(s) => ~Clearing(s) /\ ~Starting(s) /\ ~Preparing(s) /\ ~Failing(s)
         /\ Failing(s) => ~Clearing(s) /\ ~Starting(s) /\ ~Preparing(s) /\ ~Finishing(s)
         /\ Finishing(s) \/ Failing(s) =>
              ~RunsInto(s, "install") /\ ~RunsInto(s, "ready") /\ pc[Opener(s)] \notin {"install", "ready"}
         /\ Starting(s) \/ Preparing(s) \/ Finishing(s) \/ Failing(s) => Working(s)
BY DEF Working, Settled, Clearing, Starting, Preparing, Finishing, Failing, RunsInto, Closing

\* An opener reports an error.
LEMMA SerialFails ==
  ASSUME NEW d \in Callers, Serial(d), TypeOK, NEW s \in Sessions,
         Starting(s) \/ Preparing(s), OnlyMoves(Opener(s)), pc'[Opener(s)] = "sendErr",
         UNCHANGED <<mu, exitSignalled, fields, handles, done, attached, listening>>,
         \A t \in Sessions : windows'[t] > 0 => windows[t] > 0 /\ windows'[t] = windows[t]
  PROVE  Serial(d)'
<1>1. Working(s) BY StageOfLabel
<1>2. Opening(d, s) BY <1>1 DEF Serial, Stages
<1>3. Failing(s)' BY DEF Failing
<1>4. ~Clearing(s) BY StageOfLabel
<1>5. /\ ~RunsInto(s, "install")' /\ ~Starting(s)' /\ ~Clearing(s)' /\ ~Preparing(s)'
      /\ ~Finishing(s)' /\ ~RunsInto(s, "ready")'
  BY DEF RunsInto, Starting, Clearing, Preparing, Finishing, Failing, Closing
<1>6. pc'[d] = pc[d] /\ \A p \in Callers : pc'[p] = pc[p] BY <1>1, OpenerMoves
<1>7. Opening(d, s)' BY <1>2, <1>3, <1>4, <1>5, <1>6 DEF Opening, fields, handles
<1>8. Roles(d)' /\ Stages(d)' BY <1>1, <1>7, OpenerMoves
<1>9. Handles(d)' /\ Traces' BY <1>1, OpenerKeepsHandles DEF fields
<1>10. Windows' BY <1>6 DEF Serial, Windows, fields, handles
<1> QED BY <1>8, <1>9, <1>10 DEF Serial

\* chromedp.Run by an opener: it starts Chrome, or works on the page, or fails.
LEMMA SerialOpenerRun ==
  ASSUME NEW d \in Callers, Serial(d), TypeOK, NEW s \in Sessions, Run(Opener(s))
  PROVE  Serial(d)'
<1> DEFINE g == Opener(s)
<1> g \in Goroutines BY SessionGoroutines
<1>1. pc[g] = "run" /\ Working(s) BY DEF Run, Working, Settled
<1>2. Opening(d, s) BY <1>1 DEF Serial, Stages
<1>3. after[g] \in {"install", "ready", "sendReady"} /\ ~Clearing(s) /\ ctx = s
  BY <1>1, <1>2 DEF Opening, Clearing, Starting, Preparing, Finishing, Failing, RunsInto, Closing
<1>4. ctx # Nil /\ ~done[s] /\ cancel = s /\ allocCancel = s
  BY <1>2, <1>3, LifecycleAssumption DEF Opening, Serial, Handles, LifecycleAssumption
<1>5. UNCHANGED <<mu, fields, handles, after, exitSignalled>> BY DEF Run
<1>6. CASE RunAllocates(g)
  <2>1. after[g] = "install"
    <3>1. ~attached[s] BY <1>3, <1>6 DEF RunAllocates
    <3>2. after[g] # "install" => Preparing(s) \/ Finishing(s)
      BY <1>1, <1>3 DEF Preparing, Finishing, RunsInto
    <3> QED BY <1>2, <3>1, <3>2 DEF Opening
  <2>2. windows[s] = 0 /\ Starting(s) /\ ~ready /\ ~installed
    BY <1>1, <1>2, <2>1 DEF Opening, RunsInto, Starting
  <2>3. /\ windows' = [windows EXCEPT ![s] = 1] /\ using' = [using EXCEPT ![g] = s]
        /\ pc' = [pc EXCEPT ![g] = "semaphore"] /\ UNCHANGED <<attached, done, listening>>
    BY <1>3, <1>6, <2>2 DEF RunAllocates, MaxWindows, Goto
  <2>4. OnlyMoves(g) /\ pc'[g] = "semaphore" /\ using'[g] = s /\ after'[g] = "install"
    BY <1>5, <2>1, <2>3, MovesAlone DEF TypeOK, ControlOK
  <2>5. /\ Starting(s)' /\ ~Clearing(s)' /\ ~Preparing(s)' /\ ~Finishing(s)' /\ ~Failing(s)'
        /\ ~RunsInto(s, "install")' /\ ~RunsInto(s, "ready")'
    BY <2>4 DEF RunsInto, Starting, Clearing, Preparing, Finishing, Failing, Closing
  <2>6. \A p \in Callers : pc'[p] = pc[p] BY <1>1, <1>5, <2>4, OpenerMoves
  <2>7. Opening(d, s)'
    BY <1>2, <1>3, <1>5, <2>2, <2>4, <2>5, <2>6 DEF Opening, fields, handles
  <2>8. Roles(d)' /\ Stages(d)' BY <1>1, <1>5, <2>4, <2>7, OpenerMoves
  <2>9. Handles(d)' /\ Traces' BY <1>1, <1>5, <2>3, <2>4, OpenerKeepsHandles DEF fields
  <2>10. Windows'
    <3>1. \A t \in Sessions : windows'[t] = IF t = s THEN 1 ELSE windows[t]
      BY <2>3 DEF TypeOK, ChromeOK
    <3> QED BY <1>4, <1>5, <2>3, <2>6, <3>1 DEF Serial, Windows, fields, handles
  <2> QED BY <2>8, <2>9, <2>10 DEF Serial
<1>7. CASE RunSucceeds(g) \/ RunFails(g)
  <2>1. attached[s] /\ UNCHANGED <<chrome, using>> BY <1>3, <1>4, <1>7 DEF RunSucceeds, RunFails
  <2>2. pc' = [pc EXCEPT ![g] = after[g]] \/ pc' = [pc EXCEPT ![g] = Failed(g)]
    BY <1>7 DEF RunSucceeds, RunFails, Leave, Goto
  <2>3. OnlyMoves(g) /\ pc'[g] \in {after[g], Failed(g)} /\ after'[g] = after[g]
    BY <1>5, <2>1, <2>2, MovesAlone DEF TypeOK
  <2>4. \A p \in Callers : pc'[p] = pc[p] BY <1>1, <1>5, <2>3, OpenerMoves
  <2>5. CASE pc'[g] = "sendErr"
    <3>1. Starting(s) \/ Preparing(s)
      BY <1>1, <1>3, <2>3, <2>5 DEF Failed, Starting, Preparing, RunsInto
    <3> QED BY <1>5, <2>1, <2>3, <2>5, <3>1, SerialFails DEF chrome
  <2>6. CASE pc'[g] # "sendErr"
    <3>1. pc'[g] = after[g] BY <2>3, <2>6 DEF Failed
    <3>2. Opening(d, s)'
      <4>1. CASE after[g] = "install"
        <5>1. RunsInto(s, "install") /\ Starting(s) BY <1>1, <4>1 DEF RunsInto, Starting
        <5>2. Preparing(s)' /\ ~RunsInto(s, "install")' /\ ~RunsInto(s, "ready")'
          BY <3>1, <4>1 DEF Preparing, RunsInto
        <5>3. ~Clearing(s)' /\ ~Starting(s)' /\ ~Finishing(s)' /\ ~Failing(s)'
          BY <3>1, <4>1 DEF Clearing, Starting, Finishing, Failing, RunsInto, Closing
        <5> QED BY <1>2, <1>3, <1>5, <2>1, <2>4, <3>1, <4>1, <5>1, <5>2, <5>3
                DEF Opening, fields, handles, chrome
      <4>2. CASE after[g] = "ready"
        <5>1. RunsInto(s, "ready") /\ Preparing(s) BY <1>1, <4>2 DEF RunsInto, Preparing
        <5>2. Preparing(s)' /\ ~RunsInto(s, "install")'
          BY <3>1, <4>2 DEF Preparing, RunsInto
        <5>3. ~Clearing(s)' /\ ~Starting(s)' /\ ~Finishing(s)' /\ ~Failing(s)'
          BY <3>1, <4>2 DEF Clearing, Starting, Finishing, Failing, RunsInto, Closing
        <5> QED BY <1>2, <1>3, <1>5, <2>1, <2>4, <3>1, <4>2, <5>1, <5>2, <5>3
                DEF Opening, fields, handles, chrome
      <4>3. CASE after[g] = "sendReady"
        <5>1. Finishing(s) BY <1>1, <4>3 DEF Finishing
        <5>2. Finishing(s)' /\ ~RunsInto(s, "install")' /\ ~RunsInto(s, "ready")'
          BY <3>1, <4>3 DEF Finishing, RunsInto
        <5>3. ~Clearing(s)' /\ ~Starting(s)' /\ ~Preparing(s)' /\ ~Failing(s)'
          BY <3>1, <4>3 DEF Clearing, Starting, Preparing, Failing, RunsInto, Closing
        <5> QED BY <1>2, <1>3, <1>5, <2>1, <2>4, <3>1, <4>3, <5>1, <5>2, <5>3
                DEF Opening, fields, handles, chrome
      <4> QED BY <1>3, <4>1, <4>2, <4>3
    <3>3. Roles(d)' /\ Stages(d)' BY <1>1, <1>5, <2>3, <3>2, OpenerMoves
    <3>4. Handles(d)' /\ Traces'
      BY <1>1, <1>3, <1>5, <2>1, <2>3, <3>1, OpenerKeepsHandles DEF fields, chrome
    <3>5. Windows' BY <1>5, <2>1, <2>4 DEF Serial, Windows, fields, handles, chrome
    <3> QED BY <3>3, <3>4, <3>5 DEF Serial
  <2> QED BY <2>5, <2>6
<1> QED BY <1>4, <1>6, <1>7 DEF Run, RunPanics

\* Inside Allocate: the opener, on its own context.
LEMMA SerialAllocate ==
  ASSUME NEW d \in Callers, Serial(d), TypeOK, TypeOK', NEW s \in Sessions,
         LET g == Opener(s)
         IN  TakeToken(g) \/ TakeClosedToken(g) \/ Allocated(g) \/ AllocateFails(g)
  PROVE  Serial(d)'
<1> DEFINE g == Opener(s)
<1> g \in Goroutines BY SessionGoroutines
<1>1. pc[g] \in {"semaphore", "allocating"} /\ Working(s)
  BY DEF TakeToken, TakeClosedToken, Allocated, AllocateFails, Working, Settled
<1>2. Opening(d, s) BY <1>1 DEF Serial, Stages
<1>3. Starting(s) /\ using[g] = s /\ after[g] = "install" /\ ~RunsInto(s, "install")
  BY <1>1, <1>2 DEF Opening, Clearing, Starting, Preparing, Finishing, Failing, RunsInto, Closing
<1>4. ctx = s /\ ctx # Nil /\ ~done[s] /\ cancel = s /\ allocCancel = s /\ ~ready /\ ~installed
  BY <1>2, <1>3, StageOfLabel, LifecycleAssumption
  DEF Opening, Serial, Handles, LifecycleAssumption
<1>5. UNCHANGED <<mu, fields, handles, after, exitSignalled, done, listening>>
  BY DEF TakeToken, TakeClosedToken, Allocated, AllocateFails, env, chrome, control
<1>6. CASE TakeClosedToken(g)
  <2>1. UNCHANGED <<mu, fields, handles, chrome, control, exitSignalled>>
    BY <1>6 DEF TakeClosedToken
  <2>2. Roles(d)' BY <2>1 DEF Serial, Roles, control
  <2>3. Stages(d)'
    <3>1. \A t \in Sessions : Opening(d, t)' <=> Opening(d, t)
      BY <2>1, StageStays DEF Opening, fields, handles, chrome, control
    <3>2. \A t \in Sessions : Working(t)' <=> Working(t) BY <2>1 DEF Working, control
    <3> QED BY <3>1, <3>2 DEF Serial, Stages
  <2>4. Handles(d)' BY <2>1 DEF Serial, Handles, fields, handles, chrome, control
  <2>5. Traces' BY <2>1 DEF Serial, Traces, fields, handles, chrome, control
  <2>6. Windows' BY <2>1 DEF Serial, Windows, fields, handles, chrome, control
  <2> QED BY <2>2, <2>3, <2>4, <2>5, <2>6 DEF Serial
<1>7. CASE TakeToken(g)
  <2>1. pc' = [pc EXCEPT ![g] = "allocating"] /\ UNCHANGED <<using, attached, windows>>
    BY <1>7 DEF TakeToken, Goto
  <2>2. OnlyMoves(g) /\ pc'[g] = "allocating" /\ using'[g] = s /\ after'[g] = "install"
    BY <1>3, <1>5, <2>1, MovesAlone DEF TypeOK
  <2>3. /\ Starting(s)' /\ ~Clearing(s)' /\ ~Preparing(s)' /\ ~Finishing(s)' /\ ~Failing(s)'
        /\ ~RunsInto(s, "install")' /\ ~RunsInto(s, "ready")'
    BY <2>2 DEF RunsInto, Starting, Clearing, Preparing, Finishing, Failing, Closing
  <2>4. \A p \in Callers : pc'[p] = pc[p] BY <1>1, <1>5, <2>2, OpenerMoves
  <2>5. Opening(d, s)'
    BY <1>2, <1>3, <1>4, <1>5, <2>2, <2>3, <2>4 DEF Opening, fields, handles
  <2>6. Roles(d)' /\ Stages(d)' BY <1>1, <1>5, <2>2, <2>5, OpenerMoves
  <2>7. Handles(d)' /\ Traces' BY <1>1, <1>5, <2>2, OpenerKeepsHandles DEF fields
  <2>8. Windows' BY <1>5, <2>1, <2>4 DEF Serial, Windows, fields, handles
  <2> QED BY <2>6, <2>7, <2>8 DEF Serial
<1>8. CASE Allocated(g)
  <2>1. pc' = [pc EXCEPT ![g] = "install"] /\ using' = [using EXCEPT ![g] = Nil]
        /\ attached' = [attached EXCEPT ![s] = TRUE] /\ UNCHANGED windows
    BY <1>3, <1>8 DEF Allocated, Leave, Goto
  <2>2. OnlyMoves(g) /\ pc'[g] = "install"
    BY <1>5, <2>1, MovesAlone DEF TypeOK
  <2>3. /\ Preparing(s)' /\ ~Clearing(s)' /\ ~Starting(s)' /\ ~Finishing(s)' /\ ~Failing(s)'
        /\ ~RunsInto(s, "install")' /\ ~RunsInto(s, "ready")'
    BY <2>2 DEF RunsInto, Starting, Clearing, Preparing, Finishing, Failing, Closing
  <2>4. \A p \in Callers : pc'[p] = pc[p] BY <1>1, <1>5, <2>2, OpenerMoves
  <2>5. attached'[s] BY <2>1 DEF TypeOK, ChromeOK
  <2>6. Opening(d, s)'
    BY <1>2, <1>3, <1>4, <1>5, <2>2, <2>3, <2>4, <2>5 DEF Opening, fields, handles
  <2>7. Roles(d)' /\ Stages(d)' BY <1>1, <1>5, <2>2, <2>6, OpenerMoves
  <2>8. Handles(d)' /\ Traces' BY <1>1, <1>5, <2>2, OpenerKeepsHandles DEF fields
  <2>9. Windows' BY <1>4, <1>5, <2>1, <2>4, <2>5 DEF Serial, Windows, fields, handles
  <2> QED BY <2>7, <2>8, <2>9 DEF Serial
<1>9. CASE AllocateFails(g)
  <2>1. /\ pc' = [pc EXCEPT ![g] = "sendErr"] /\ using' = [using EXCEPT ![g] = Nil]
        /\ UNCHANGED attached
        /\ windows' = windows \/ windows' = [windows EXCEPT ![s] = @ - 1]
    BY <1>3, <1>9 DEF AllocateFails, ChromeFails, Leave, Goto, Failed
  <2>2. OnlyMoves(g) /\ pc'[g] = "sendErr" BY <1>5, <2>1, MovesAlone DEF TypeOK
  <2>3. \A t \in Sessions : windows'[t] > 0 => windows[t] > 0 /\ windows'[t] = windows[t]
    <3>1. CASE windows' = windows BY <3>1
    <3>2. CASE windows' = [windows EXCEPT ![s] = @ - 1]
      <4>1. windows[s] \in Nat /\ (windows[s] > 0 => windows[s] = 1)
        BY DEF TypeOK, ChromeOK, MaxWindows, Serial, Windows
      <4>2. windows'[s] = windows[s] - 1 /\ \A t \in Sessions \ {s} : windows'[t] = windows[t]
        BY <3>2 DEF TypeOK, ChromeOK
      <4> QED BY <4>1, <4>2
    <3> QED BY <2>1, <3>1, <3>2
  <2>4. UNCHANGED <<mu, exitSignalled, fields, handles, done, attached, listening>>
    BY <1>5, <2>1
  <2> QED BY <1>3, <2>2, <2>3, <2>4, SerialFails
<1> QED BY <1>6, <1>7, <1>8, <1>9

\* The opener installs the listeners on its context.
LEMMA SerialOpenerInstall ==
  ASSUME NEW d \in Callers, Serial(d), TypeOK, NEW s \in Sessions,
         InstallSelectionCapture(Opener(s))
  PROVE  Serial(d)'
<1> DEFINE g == Opener(s)
<1> g \in Goroutines /\ g \in Openers BY SessionGoroutines DEF Openers
<1> USE DEF InstallSelectionCapture
<1>1. Preparing(s) /\ Working(s) BY DEF Preparing, Working, Settled
<1>2. Opening(d, s) BY <1>1 DEF Serial, Stages
<1>3. ctx = s /\ ctx # Nil /\ ~ready /\ ~installed /\ attached[s]
  BY <1>1, <1>2, StageOfLabel, LifecycleAssumption DEF Opening, LifecycleAssumption
<1>4. /\ installed' /\ listening' = [listening EXCEPT ![s] = TRUE]
      /\ pc' = [pc EXCEPT ![g] = "run"] /\ after' = [after EXCEPT ![g] = "ready"]
      /\ UNCHANGED <<mu, exitSignalled, isOpen, ready, handles, attached, windows, done, using>>
  BY <1>3 DEF Call, Goto, env
<1>5. OnlyMoves(g) /\ pc'[g] = "run" /\ after'[g] = "ready"
  BY <1>4, MovesAlone DEF TypeOK, ControlOK
<1>6. /\ Preparing(s)' /\ ~Clearing(s)' /\ ~Starting(s)' /\ ~Finishing(s)' /\ ~Failing(s)'
      /\ ~RunsInto(s, "install")'
  BY <1>5 DEF RunsInto, Starting, Clearing, Preparing, Finishing, Failing, Closing
<1>7. \A p \in Callers : pc'[p] = pc[p] BY <1>1, <1>4, <1>5, OpenerMoves
<1>8. Opening(d, s)'
  BY <1>1, <1>2, <1>3, <1>4, <1>5, <1>6, <1>7 DEF Opening, handles
<1>9. Roles(d)' /\ Stages(d)' BY <1>1, <1>4, <1>5, <1>8, OpenerMoves
<1>10. Handles(d)' /\ Traces' BY <1>1, <1>4, <1>5, OpenerKeepsHandles
<1>11. listening'[s] BY <1>4 DEF TypeOK, ChromeOK
<1>12. Windows' BY <1>3, <1>4, <1>7, <1>11 DEF Serial, Windows, handles
<1> QED BY <1>9, <1>10, <1>12 DEF Serial

\* ready, the pending reload, and the answer.
LEMMA SerialFinish ==
  ASSUME NEW d \in Callers, Serial(d), TypeOK, NEW s \in Sessions,
         MarkReady(s) \/ ProcessPendingReload(s) \/ Reload(Opener(s))
  PROVE  Serial(d)'
<1> DEFINE g == Opener(s)
<1> g \in Goroutines /\ g \notin Callers BY SessionGoroutines, DistinctGoroutines
<1>1. pc[g] \in {"ready", "takePending", "reload"} /\ Working(s)
  <2>1. CASE Reload(g)
    <3>1. pc[g] \in {"idle", "reload"} BY <2>1 DEF Reload, Idle
    <3>2. Working(s) BY <3>1 DEF Working, Settled
    <3>3. pc[g] # "idle"
      BY <3>2
      DEF Serial, Stages, Opening, Clearing, Starting, Preparing, Finishing, Failing, RunsInto,
          Closing
    <3> QED BY <3>1, <3>2, <3>3
  <2> QED BY <2>1 DEF MarkReady, ProcessPendingReload, Working, Settled
<1>2. Opening(d, s) BY <1>1 DEF Serial, Stages
<1>3. /\ pc[g] = "ready" => Preparing(s)
      /\ pc[g] # "ready" => Finishing(s)
      /\ pc[g] = "reload" => after[g] = "sendReady"
  BY <1>1, <1>2 DEF Opening, Clearing, Starting, Preparing, Finishing, Failing, RunsInto, Closing
<1>4. ctx = s /\ ctx # Nil /\ attached[s] /\ installed /\ isOpen
  <2>1. ~Clearing(s) /\ (Preparing(s) \/ Finishing(s)) BY <1>3, StageOfLabel
  <2>2. ctx = s /\ ctx # Nil
    BY <1>2, <2>1, LifecycleAssumption DEF Opening, LifecycleAssumption
  <2>3. installed BY <1>2, <1>3 DEF Opening, Serial, Windows
  <2> QED BY <1>2, <2>1, <2>2, <2>3 DEF Opening
<1>5. /\ ready' /\ installed' /\ UNCHANGED <<mu, exitSignalled, isOpen, handles, chrome, using>>
      /\ \/ /\ pc' = [pc EXCEPT ![g] = "takePending"] /\ UNCHANGED after
         \/ /\ \E l \in {"reload", "sendReady"} : pc' = [pc EXCEPT ![g] = l]
            /\ after' = [after EXCEPT ![g] = "sendReady"]
         \/ /\ \E l \in {"run", "sendReady"} : pc' = [pc EXCEPT ![g] = l]
            /\ UNCHANGED after /\ after[g] = "sendReady"
  <2>1. CASE MarkReady(s) BY <1>4, <2>1 DEF MarkReady, Goto, env
  <2>2. CASE ProcessPendingReload(s)
    <3>1. ready BY <1>2, <1>3, <2>2 DEF ProcessPendingReload, Opening
    <3> QED BY <1>4, <2>2, <3>1 DEF ProcessPendingReload, Call, Goto, env
  <2>3. CASE Reload(g)
    <3>1. pc[g] = "reload" BY <1>1, <2>3 DEF Reload, Idle
    <3>2. ready BY <1>2, <1>3, <3>1 DEF Opening
    <3> QED BY <1>3, <1>4, <2>3, <3>1, <3>2 DEF Reload, Idle, Goto, env, fields
  <2> QED BY <2>1, <2>2, <2>3
<1>6. /\ OnlyMoves(g)
      /\ \/ pc'[g] \in {"takePending", "sendReady"}
         \/ pc'[g] \in {"reload", "run"} /\ after'[g] = "sendReady"
  BY <1>5 DEF TypeOK, ControlOK, OnlyMoves
<1>7. /\ Finishing(s)' /\ ~Clearing(s)' /\ ~Starting(s)' /\ ~Preparing(s)' /\ ~Failing(s)'
      /\ ~RunsInto(s, "install")' /\ ~RunsInto(s, "ready")' /\ pc'[g] \notin {"install", "ready"}
  BY <1>6 DEF RunsInto, Starting, Clearing, Preparing, Finishing, Failing, Closing
<1>8. \A p \in Callers : pc'[p] = pc[p] BY <1>1, <1>5, <1>6, OpenerMoves
<1>9. Opening(d, s)' BY <1>2, <1>4, <1>5, <1>7, <1>8 DEF Opening, handles, chrome
<1>10. Roles(d)' /\ Stages(d)' BY <1>1, <1>5, <1>6, <1>9, OpenerMoves
<1>11. Handles(d)' /\ Traces' BY <1>1, <1>5, <1>6, OpenerKeepsHandles DEF chrome
<1>12. Windows' BY <1>4, <1>5, <1>8 DEF Serial, Windows, handles, chrome
<1> QED BY <1>10, <1>11, <1>12 DEF Serial

\* The monitor of a session waits for the context of the session, and wakes when the
\* driver has closed it: it finds the browser closed.
LEMMA SerialMonitor ==
  ASSUME NEW d \in Callers, Serial(d), TypeOK, NEW s \in Sessions,
         MonitorStart(s) \/ MonitorWakes(s)
  PROVE  Serial(d)'
<1> DEFINE g == Opener(s)
<1> g \in Goroutines BY SessionGoroutines
<1> USE SessionGoroutines, DistinctGoroutines
<1>1. pc[g] \in {"monitorStart", "monitorWait"} BY DEF MonitorStart, MonitorWakes, MonitorWoken
<1>2. UNCHANGED <<mu, fields, handles, chrome, exitSignalled>>
  <2>1. CASE MonitorStart(s) BY <2>1 DEF MonitorStart, env
  <2>2. CASE MonitorWakes(s)
    <3>1. ~isOpen BY <2>2 DEF MonitorWakes, MonitorWoken, Serial, Traces
    <3> QED BY <2>2, <3>1 DEF MonitorWakes, fields, handles, env
  <2> QED BY <2>1, <2>2
<1>3. /\ OnlyMoves(g) /\ pc'[g] \in {"monitorWait", "ended"}
      /\ pc'[g] = "monitorWait" => using'[g] = ctx /\ ctx # Nil
  BY DEF MonitorStart, MonitorWakes, Goto, TypeOK, ControlOK, OnlyMoves
<1>4. \A t \in Sessions : t # s => /\ pc'[Opener(t)] = pc[Opener(t)]
                                   /\ after'[Opener(t)] = after[Opener(t)]
                                   /\ using'[Opener(t)] = using[Opener(t)]
  BY <1>3 DEF OnlyMoves
<1>5. \A p \in Callers : pc'[p] = pc[p] /\ after'[p] = after[p]
  BY <1>3 DEF OnlyMoves, Goroutines
<1>6. \A t \in Sessions : pc'[ExitListener(t)] = pc[ExitListener(t)] BY <1>3 DEF OnlyMoves
<1>7. Roles(d)' BY <1>2, <1>5, <1>6 DEF Serial, Roles
<1>8. Stages(d)'
  <2>1. ~Working(s)' BY <1>3 DEF Working, Settled
  <2>2. \A t \in Sessions : Working(t)' => t # s /\ Working(t) BY <1>4, <2>1, StageStays
  <2>3. ASSUME NEW t \in Sessions, Working(t)' PROVE Opening(d, t)'
    <3>1. t # s /\ Opening(d, t) BY <2>2, <2>3 DEF Serial, Stages
    <3> QED BY <1>2, <1>4, <1>5, <3>1, StageStays DEF Opening, fields, handles, chrome
  <2> QED BY <2>2, <2>3 DEF Serial, Stages
<1>9. Handles(d)' BY <1>2, <1>5 DEF Serial, Handles, fields, handles, chrome
<1>10. Traces'
  <2>1. pc'[g] = "monitorWait" => using'[g] \in Sessions /\ (isOpen => ~done[using'[g]])
    BY <1>3 DEF Serial, Handles, TypeOK, ControlOK, SessionOrNil
  <2> QED BY <1>2, <1>3, <1>4, <2>1 DEF Serial, Traces, fields, handles, chrome
<1>11. Windows' BY <1>2, <1>5 DEF Serial, Windows, fields, handles, chrome
<1> QED BY <1>7, <1>8, <1>9, <1>10, <1>11 DEF Serial

\* No step at all.
LEMMA SerialStutter ==
  ASSUME NEW d \in Callers, Serial(d), UNCHANGED vars
  PROVE  Serial(d)'
<1> USE DEF vars, fields, handles, chrome, control, env
<1>1. Roles(d)' BY DEF Serial, Roles
<1>2. Stages(d)'
  <2>1. \A t \in Sessions : Working(t)' <=> Working(t) BY DEF Working
  <2>2. \A t \in Sessions : Opening(d, t)' <=> Opening(d, t) BY StageStays DEF Opening
  <2> QED BY <2>1, <2>2 DEF Serial, Stages
<1>3. Handles(d)' BY DEF Serial, Handles
<1>4. Traces' BY DEF Serial, Traces
<1>5. Windows' BY DEF Serial, Windows
<1> QED BY <1>1, <1>2, <1>3, <1>4, <1>5 DEF Serial

\* Every step of every goroutine.
LEMMA SerialStep ==
  ASSUME NEW d \in Callers, SerialUse(d), Serial(d), TypeOK, TypeOK', [Next]_vars
  PROVE  Serial(d)'
<1>1. ASSUME NEW p \in Callers, Proceed(p) PROVE Serial(d)'
  <2>1. pc[p] \notin {"semaphore", "allocating"} BY DEF Serial, Roles, Closing
  <2>2. CASE Run(p) BY <2>2, SerialRun
  <2>3. CASE ~Run(p)
    <3>1. p = d
      <4>1. pc[p] \notin {"idle", "run"}
        BY <1>1, <2>1, <2>3
        DEF Proceed, CloseBrowser, ShutdownGraceful, ShutdownAlloc, ShutdownContext,
            ShutdownReturns, TakeToken, TakeClosedToken, Allocated, AllocateFails,
            InstallSelectionCapture
      <4> QED BY <4>1 DEF Serial, Roles
    <3> QED BY <1>1, <2>1, <2>3, <3>1, SerialClose, SerialShutdown, SerialInstall
            DEF Proceed, TakeToken, TakeClosedToken, Allocated, AllocateFails
  <2> QED BY <2>2, <2>3
<1>2. ASSUME NEW s \in Sessions, Proceed(Opener(s)) PROVE Serial(d)'
  <2>1. ~CloseBrowser(Opener(s))
    BY DEF CloseBrowser, Serial, Stages, Opening, Working, Settled, Clearing, Starting, Preparing,
           Finishing, Failing, RunsInto, Closing
  <2> QED BY <1>2, <2>1, SerialClearing, SerialOpenerRun, SerialAllocate, SerialOpenerInstall
          DEF Proceed
<1>3. ASSUME NEW s \in Sessions, Proceed(ExitListener(s)) PROVE FALSE
  <2>1. pc[ExitListener(s)] \in {"none", "waitExit"} BY DEF Serial, Roles
  <2> QED BY <1>3, <2>1
          DEF Proceed, CloseBrowser, ShutdownGraceful, ShutdownAlloc, ShutdownContext,
              ShutdownReturns, Run, TakeToken, TakeClosedToken, Allocated, AllocateFails,
              InstallSelectionCapture
<1>4. ASSUME NEW g \in Goroutines, Proceed(g) PROVE Serial(d)'
  BY <1>1, <1>2, <1>3, <1>4 DEF Goroutines, Openers, ExitListeners
<1>5. ASSUME NEW g \in Callers \union Openers, Reload(g) PROVE Serial(d)'
  BY <1>5, SerialReload, SerialFinish DEF Openers
<1>6. ASSUME NEW s \in Sessions, OpenerStep(s) PROVE Serial(d)'
  <2>1. ~ExitListenerWakes(s) BY DEF ExitListenerWakes, Serial, Roles
  <2> QED BY <1>6, <2>1, SerialCreate, SerialFinish, SerialMonitor, SerialAnswer DEF OpenerStep
<1>7. ASSUME NEW p \in Callers, CallerStep(p) PROVE Serial(d)'
  <2>1. p = d BY <1>7, OnlyDriverCalls DEF Serial
  <2> QED BY <1>7, <2>1, SerialCall, SerialLaunch
<1>8. ~SignalExit /\ \A s \in Sessions : ~UserClosesWindow(s)
  BY DEF SerialUse, SignalExit, UserClosesWindow
<1>9. CASE UNCHANGED vars BY <1>9, SerialStutter
<1> QED BY <1>4, <1>5, <1>6, <1>7, <1>8, <1>9 DEF Next

\* Nothing runs yet.
LEMMA SerialInit ==
  ASSUME NEW d \in Callers, Init
  PROVE  Serial(d)
<1> USE SessionGoroutines, DistinctGoroutines, LifecycleAssumption DEF LifecycleAssumption, Init
<1>0. \A p \in Callers : p \in Goroutines BY DEF Goroutines
<1>1. Roles(d) BY <1>0 DEF Roles, Closing
<1>2. \A s \in Sessions : ~Working(s) BY DEF Working, Settled
<1>3. Stages(d) BY <1>2 DEF Stages
<1>4. Handles(d) BY <1>0 DEF Handles, Closing
<1>5. Traces BY DEF Traces
<1>6. Windows BY <1>0 DEF Windows
<1> QED BY <1>1, <1>3, <1>4, <1>5, <1>6 DEF Serial

\* Some caller is the only driver.
OneDriver == \E d \in Callers : SerialUse(d)

\* While one goroutine drives the browser and the others reload it, the stages of the
\* opening, the three handles of the context and the windows agree at every step.
THEOREM SerialInvariant ==
  ASSUME NEW d \in Callers, SerialUse(d)
  PROVE  Spec => []Serial(d)
<1>1. Init => Serial(d) BY SerialInit
<1>2. TypeOK /\ TypeOK' /\ Serial(d) /\ [Next]_vars => Serial(d)' BY SerialStep
<1> QED BY <1>1, <1>2, TypeCorrect, PTL DEF Spec

\* The two properties are parts of it.
LEMMA SerialImplies ==
  ASSUME NEW d \in Callers, Serial(d), TypeOK
  PROVE  ReadyIsComplete /\ NoStrayWindow
<1>1. ReadyIsComplete BY DEF ReadyIsComplete, Serial, Windows
<1>2. \A s, t \in Sessions : windows[s] > 0 /\ windows[t] > 0 => s = t /\ windows[s] = 1
  BY DEF Serial, Windows
<1>3. ~isOpen /\ mu = Nil => \A s \in Sessions : windows[s] = 0
  <2> SUFFICES ASSUME ~isOpen, mu = Nil, NEW s \in Sessions PROVE windows[s] = 0 OBVIOUS
  <2>1. pc[d] \notin Closing
    BY LifecycleAssumption DEF Serial, Roles, LifecycleAssumption, Goroutines
  <2>2. allocCancel = Nil BY <2>1 DEF Serial, Handles, Closing
  <2>3. windows[s] \in Nat BY DEF TypeOK, ChromeOK, MaxWindows
  <2> QED BY <2>2, <2>3, LifecycleAssumption DEF Serial, Windows, LifecycleAssumption
<1> QED BY <1>1, <1>2, <1>3 DEF NoStrayWindow

\* Under one driver, a Reload that finds the browser ready acts on a context with a
\* browser attached, so that it starts no second Chrome, and once Open has returned
\* with the selection listeners installed (Reload, devbrowser.go), for any number of
\* watchers and sessions.
THEOREM ReadyMeansComplete == OneDriver => (Spec => []ReadyIsComplete)
<1> SUFFICES ASSUME NEW d \in Callers, SerialUse(d) PROVE Spec => []ReadyIsComplete
  BY DEF OneDriver
<1>1. TypeOK /\ Serial(d) => ReadyIsComplete BY SerialImplies
<1>2. Spec => []Serial(d) BY SerialInvariant
<1> QED BY <1>1, <1>2, TypeCorrect, PTL

\* Under one driver, there is one Chrome window at most, and none once the browser
\* is closed: no "double window" however often it is opened, fails and is restarted
\* (Open and CloseBrowser, OpenBrowser.go and CloseBrowser.go).
THEOREM NoWindowStrays == OneDriver => (Spec => []NoStrayWindow)
<1> SUFFICES ASSUME NEW d \in Callers, SerialUse(d) PROVE Spec => []NoStrayWindow
  BY DEF OneDriver
<1>1. TypeOK /\ Serial(d) => NoStrayWindow BY SerialImplies
<1>2. Spec => []Serial(d) BY SerialInvariant
<1> QED BY <1>1, <1>2, TypeCorrect, PTL
=============================================================================
