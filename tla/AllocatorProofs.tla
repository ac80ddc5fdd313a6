---------------------------- MODULE AllocatorProofs ----------------------------
(***************************************************************************)
(* Theorems about Allocator, for any number of shutdowns: what a shutdown  *)
(* leaves behind, and, for shutdowns that come one after the other, that   *)
(* no channel is closed twice and an orderly exit is not cut short.        *)
(***************************************************************************)
EXTENDS Allocator, TLAPS

Waiting == {"waiting", "removing", "leaving"}
Asking == {"asking", "graceful", "killing"}

(***************************************************************************)
(* Where the reaper is says what became of the token, of the process and   *)
(* of its directory.                                                       *)
(***************************************************************************)
ReaperKnows ==
  /\ run \in {"idle", "start", "token"} => reaper = "none"
  /\ reaper \in Waiting \union {"signalling"} => token = "taken"
  /\ reaper = "ended" <=> token = "closed"
  /\ wg = IF reaper \in Waiting THEN 1 ELSE 0
  /\ reaper \in {"removing", "leaving", "signalling", "ended"} => process = "reaped"
  /\ reaper \in {"leaving", "signalling", "ended"} => directory # "made"

\* A shutdown past its last call found the channel closed or took its token.
ReturnedFinds ==
  /\ "cancel" \notin handles => token = "closed" \/ (token = "spent" /\ done)
  /\ \A c \in Closers : close[c] = "returned" => "cancel" \notin handles
  /\ \A c \in Closers : close[c] = "cancelWait" => done

\* One shutdown at a time.
InTurn == \A c, d \in Closers : Idle(c) \/ Idle(d) \/ c = d

\* Cancel is called while the fields have a Ctx, and takes it from them.
CancelOnce ==
  /\ NoPanic
  /\ closing /\ "ctx" \in handles => \E c \in Closers : close[c] \in Asking
  /\ "ctx" \in handles => \A c \in Closers : close[c] \in Asking \union {"idle"}
  /\ \A c \in Closers : close[c] \in Asking => closing /\ "ctx" \in handles

\* A Chrome that agreed to close has a Cancel that waits for it, or a deadline
\* passed; and the context was not done before.
OrderlySoFar ==
  /\ process = "closing" => closing /\ (late \/ \E c \in Closers : close[c] = "graceful")
  /\ process = "closing" /\ done => late
  /\ "ctx" \in handles /\ done => reader = "ended" \/ \E c \in Closers : close[c] = "killing"
  /\ \A c \in Closers : close[c] = "killing" => late

Invariant == TypeOK /\ ReaperKnows /\ ReturnedFinds
InvariantInTurn == InTurn /\ CancelOnce /\ OrderlySoFar

\* A step keeps the types and what is known of the reaper and of the shutdowns.
LEMMA StepInvariant ==
  ASSUME Invariant, Next
  PROVE  Invariant'
<1> USE DEF Invariant, TypeOK, ReaperKnows, ReturnedFinds, Waiting, Running, Handles, chrome,
            goroutines, context
<1>1. ASSUME MakeDirectory PROVE Invariant'
  BY <1>1 DEF MakeDirectory
<1>2. ASSUME StartChrome PROVE Invariant'
  BY <1>2 DEF StartChrome
<1>3. ASSUME StartFails PROVE Invariant'
  <2>1. done' \in BOOLEAN /\ closing' \in BOOLEAN /\ panicked' \in BOOLEAN
    BY <1>3, Zenon DEF StartFails
  <2>2. TypeOK' BY <1>3, <2>1 DEF StartFails
  <2>3. ReaperKnows' BY <1>3 DEF StartFails
  <2>4. ReturnedFinds' BY <1>3 DEF StartFails
  <2> QED BY <2>2, <2>3, <2>4
<1>4. ASSUME TakeToken PROVE Invariant'
  BY <1>4 DEF TakeToken
<1>5. ASSUME StartedInVain PROVE Invariant'
  BY <1>5 DEF StartedInVain
<1>6. ASSUME ReadAddress PROVE Invariant'
  BY <1>6 DEF ReadAddress
<1>7. ASSUME Dial PROVE Invariant'
  BY <1>7 DEF Dial
<1>8. ASSUME DialFails PROVE Invariant'
  BY <1>8 DEF DialFails
<1>9. ASSUME AssignBrowser PROVE Invariant'
  BY <1>9 DEF AssignBrowser
<1>10. ASSUME AttachTarget PROVE Invariant'
  BY <1>10 DEF AttachTarget, Answers
<1>11. ASSUME ReapChrome PROVE Invariant'
  BY <1>11 DEF ReapChrome
<1>12. ASSUME RemoveDirectory PROVE Invariant'
  <2>1. done' \in BOOLEAN /\ closing' \in BOOLEAN /\ panicked' \in BOOLEAN
    BY <1>12, Zenon DEF RemoveDirectory
  <2>2. TypeOK' BY <1>12, <2>1 DEF RemoveDirectory
  <2>3. ReaperKnows' BY <1>12 DEF RemoveDirectory
  <2>4. ReturnedFinds' BY <1>12 DEF RemoveDirectory
  <2> QED BY <2>2, <2>3, <2>4
<1>13. ASSUME LeaveGroup PROVE Invariant'
  BY <1>13 DEF LeaveGroup
<1>14. ASSUME SignalGone PROVE Invariant'
  BY <1>14 DEF SignalGone
<1>15. ASSUME RouterReturns PROVE Invariant'
  BY <1>15 DEF RouterReturns
<1>16. ASSUME ReaderReturns PROVE Invariant'
  BY <1>16 DEF ReaderReturns
<1>17. ASSUME WatcherReturns PROVE Invariant'
  BY <1>17 DEF WatcherReturns
<1>18. ASSUME ChromeUp PROVE Invariant'
  BY <1>18 DEF ChromeUp
<1>19. ASSUME UserQuits PROVE Invariant'
  BY <1>19 DEF UserQuits
<1>20. ASSUME HangUp PROVE Invariant'
  BY <1>20 DEF HangUp
<1>21. ASSUME ChromeExits PROVE Invariant'
  BY <1>21 DEF ChromeExits, Exit
<1>22. ASSUME KillChrome PROVE Invariant'
  BY <1>22 DEF KillChrome, Exit
<1>23. ASSUME NEW c \in Closers, BeginShutdown(c) PROVE Invariant'
  <2>1. done' \in BOOLEAN /\ closing' \in BOOLEAN /\ panicked' \in BOOLEAN
    BY <1>23, Zenon DEF BeginShutdown, Step
  <2>2. TypeOK'
    <3>1. handles' \subseteq {"ctx", "allocCancel", "cancel"} BY <1>23, Zenon DEF BeginShutdown
    <3>2. close' \in [Closers -> {"idle", "asking", "graceful", "killing", "allocCancel",
                                  "allocWait", "cancel", "cancelWait", "returned"}]
      BY <1>23 DEF BeginShutdown, Step
    <3> QED BY <1>23, <2>1, <3>1, <3>2 DEF BeginShutdown
  <2>3. ReaperKnows' BY <1>23 DEF BeginShutdown, Step
  <2>4. ReturnedFinds' BY <1>23 DEF BeginShutdown, Step
  <2> QED BY <2>2, <2>3, <2>4
<1>24. ASSUME NEW c \in Closers, CloseAnswered(c) PROVE Invariant'
  BY <1>24 DEF CloseAnswered, Step, Answers
<1>25. ASSUME NEW c \in Closers, CloseUnanswered(c) PROVE Invariant'
  BY <1>25 DEF CloseUnanswered, Step, Answers, CancelReturns
<1>26. ASSUME NEW c \in Closers, GoneInTime(c) PROVE Invariant'
  BY <1>26 DEF GoneInTime, Step, CancelReturns
<1>27. ASSUME NEW c \in Closers, GiveUp(c) PROVE Invariant'
  BY <1>27 DEF GiveUp, Step
<1>28. ASSUME NEW c \in Closers, GoneAfterKill(c) PROVE Invariant'
  BY <1>28 DEF GoneAfterKill, Step, CancelReturns
<1>29. ASSUME NEW c \in Closers, AllocCancel(c) PROVE Invariant'
  <2>1. done' \in BOOLEAN /\ closing' \in BOOLEAN /\ panicked' \in BOOLEAN
    BY <1>29, Zenon DEF AllocCancel, Step
  <2>2. TypeOK' BY <1>29, <2>1 DEF AllocCancel, Step
  <2>3. ReaperKnows' BY <1>29 DEF AllocCancel, Step
  <2>4. ReturnedFinds' BY <1>29 DEF AllocCancel, Step
  <2> QED BY <2>2, <2>3, <2>4
<1>30. ASSUME NEW c \in Closers, AllocWait(c) PROVE Invariant'
  BY <1>30 DEF AllocWait, Step
<1>31. ASSUME NEW c \in Closers, ContextCancel(c) PROVE Invariant'
  <2>1. done' \in BOOLEAN /\ closing' \in BOOLEAN /\ panicked' \in BOOLEAN
    BY <1>31, Zenon DEF ContextCancel, Step
  <2>2. TypeOK' BY <1>31, <2>1 DEF ContextCancel, Step
  <2>3. ReaperKnows' BY <1>31 DEF ContextCancel, Step
  <2>4. ReturnedFinds' BY <1>31 DEF ContextCancel, Step
  <2> QED BY <2>2, <2>3, <2>4
<1>32. ASSUME NEW c \in Closers, ContextWait(c) PROVE Invariant'
  BY <1>32 DEF ContextWait, Step
<1> QED
  BY <1>1, <1>2, <1>3, <1>4, <1>5, <1>6, <1>7, <1>8, <1>9, <1>10, <1>11, <1>12, <1>13, <1>14,
     <1>15, <1>16, <1>17, <1>18, <1>19, <1>20, <1>21, <1>22, <1>23, <1>24, <1>25, <1>26, <1>27,
     <1>28, <1>29, <1>30, <1>31, <1>32
  DEF Next, Runner, Reaper, Chrome, Closer

\* With shutdowns in turn, a step keeps the rest.
LEMMA StepInTurn ==
  ASSUME Invariant, InvariantInTurn, Next, ~Overlap
  PROVE  InvariantInTurn'
<1> USE DEF Invariant, InvariantInTurn, TypeOK, ReaperKnows, InTurn, CancelOnce, OrderlySoFar,
            NoPanic, Idle, Asking, Waiting, Running, Handles, chrome, goroutines, context
<1>1. ASSUME MakeDirectory PROVE InvariantInTurn'
  BY <1>1 DEF MakeDirectory
<1>2. ASSUME StartChrome PROVE InvariantInTurn'
  BY <1>2 DEF StartChrome
<1>3. ASSUME StartFails PROVE InvariantInTurn'
  BY <1>3 DEF StartFails
<1>4. ASSUME TakeToken PROVE InvariantInTurn'
  BY <1>4 DEF TakeToken
<1>5. ASSUME StartedInVain PROVE InvariantInTurn'
  BY <1>5 DEF StartedInVain
<1>6. ASSUME ReadAddress PROVE InvariantInTurn'
  BY <1>6 DEF ReadAddress
<1>7. ASSUME Dial PROVE InvariantInTurn'
  BY <1>7 DEF Dial
<1>8. ASSUME DialFails PROVE InvariantInTurn'
  BY <1>8 DEF DialFails
<1>9. ASSUME AssignBrowser PROVE InvariantInTurn'
  BY <1>9 DEF AssignBrowser
<1>10. ASSUME AttachTarget PROVE InvariantInTurn'
  BY <1>10 DEF AttachTarget, Answers
<1>11. ASSUME ReapChrome PROVE InvariantInTurn'
  BY <1>11 DEF ReapChrome
<1>12. ASSUME RemoveDirectory PROVE InvariantInTurn'
  BY <1>12 DEF RemoveDirectory
<1>13. ASSUME LeaveGroup PROVE InvariantInTurn'
  BY <1>13 DEF LeaveGroup
<1>14. ASSUME SignalGone PROVE InvariantInTurn'
  BY <1>14 DEF SignalGone
<1>15. ASSUME RouterReturns PROVE InvariantInTurn'
  BY <1>15 DEF RouterReturns
<1>16. ASSUME ReaderReturns PROVE InvariantInTurn'
  BY <1>16 DEF ReaderReturns
<1>17. ASSUME WatcherReturns PROVE InvariantInTurn'
  BY <1>17 DEF WatcherReturns
<1>18. ASSUME ChromeUp PROVE InvariantInTurn'
  BY <1>18 DEF ChromeUp
<1>19. ASSUME UserQuits PROVE InvariantInTurn'
  BY <1>19 DEF UserQuits
<1>20. ASSUME HangUp PROVE InvariantInTurn'
  BY <1>20 DEF HangUp
<1>21. ASSUME ChromeExits PROVE InvariantInTurn'
  BY <1>21 DEF ChromeExits, Exit
<1>22. ASSUME KillChrome PROVE InvariantInTurn'
  BY <1>22 DEF KillChrome, Exit
<1>23. ASSUME NEW c \in Closers, BeginShutdown(c) PROVE InvariantInTurn'
  BY <1>23 DEF BeginShutdown, Step
<1>24. ASSUME NEW c \in Closers, CloseAnswered(c) PROVE InvariantInTurn'
  BY <1>24 DEF CloseAnswered, Step, Answers
<1>25. ASSUME NEW c \in Closers, CloseUnanswered(c) PROVE InvariantInTurn'
  BY <1>25 DEF CloseUnanswered, Step, Answers, CancelReturns
<1>26. ASSUME NEW c \in Closers, GoneInTime(c) PROVE InvariantInTurn'
  BY <1>26 DEF GoneInTime, Step, CancelReturns
<1>27. ASSUME NEW c \in Closers, GiveUp(c) PROVE InvariantInTurn'
  BY <1>27 DEF GiveUp, Step
<1>28. ASSUME NEW c \in Closers, GoneAfterKill(c) PROVE InvariantInTurn'
  BY <1>28 DEF GoneAfterKill, Step, CancelReturns
<1>29. ASSUME NEW c \in Closers, AllocCancel(c) PROVE InvariantInTurn'
  BY <1>29 DEF AllocCancel, Step
<1>30. ASSUME NEW c \in Closers, AllocWait(c) PROVE InvariantInTurn'
  BY <1>30 DEF AllocWait, Step
<1>31. ASSUME NEW c \in Closers, ContextCancel(c) PROVE InvariantInTurn'
  BY <1>31 DEF ContextCancel, Step
<1>32. ASSUME NEW c \in Closers, ContextWait(c) PROVE InvariantInTurn'
  BY <1>32 DEF ContextWait, Step
<1> QED
  BY <1>1, <1>2, <1>3, <1>4, <1>5, <1>6, <1>7, <1>8, <1>9, <1>10, <1>11, <1>12, <1>13, <1>14,
     <1>15, <1>16, <1>17, <1>18, <1>19, <1>20, <1>21, <1>22, <1>23, <1>24, <1>25, <1>26, <1>27,
     <1>28, <1>29, <1>30, <1>31, <1>32
  DEF Next, Runner, Reaper, Chrome, Closer

LEMMA InitInvariant == Init => Invariant /\ InvariantInTurn
BY DEF Init, Invariant, InvariantInTurn, TypeOK, ReaperKnows, ReturnedFinds, InTurn, CancelOnce,
       OrderlySoFar, NoPanic, Idle, Asking, Waiting, Running, Handles

LEMMA StutterInvariant == Invariant /\ UNCHANGED vars => Invariant'
BY DEF Invariant, TypeOK, ReaperKnows, ReturnedFinds, vars, chrome, goroutines, context

LEMMA StutterInTurn == InvariantInTurn /\ UNCHANGED vars => InvariantInTurn'
BY DEF InvariantInTurn, InTurn, CancelOnce, OrderlySoFar, NoPanic, Idle, vars, chrome, goroutines,
       context

\* The invariant of any allocation: the types, and what the place of the reaper
\* and a shutdown that has returned tell about Chrome.
THEOREM Invariance == Spec => []Invariant
<1>1. Invariant /\ [Next]_vars => Invariant'
  BY StepInvariant, StutterInvariant
<1> QED BY <1>1, InitInvariant, PTL DEF Spec

\* Every variable has its type; in particular the wait group never counts below
\* zero nor two reapers (chromedp/allocate.go).
THEOREM TypeCorrect == Spec => []TypeOK
<1>1. Invariant => TypeOK BY DEF Invariant
<1> QED BY <1>1, Invariance, PTL

\* However many shutdowns run, and however they overlap with each other and with the
\* Run that allocates: once they have returned there is no Chrome and no temporary
\* directory but one whose removal failed, unless a shutdown took the allocator's token
\* first (allocate.go, CloseBrowser.go).  A shutdown that has returned saw the channel closed, which
\* the reaper did after it had waited for the process and tried to remove the directory.
THEOREM ShutdownLeavesNothing == Spec => []ShutdownFrees
<1>1. Invariant => ShutdownFrees
  BY DEF Invariant, ReaperKnows, ReturnedFinds, ShutdownFrees, ShutDown
<1> QED BY <1>1, Invariance, PTL

\* The invariant of shutdowns that come one after the other.
THEOREM InvarianceInTurn ==
  ASSUME ~Overlap
  PROVE  Spec => []InvariantInTurn
<1>1. Invariant /\ InvariantInTurn /\ [Next]_vars => InvariantInTurn'
  BY StepInTurn, StutterInTurn
<1> QED BY <1>1, InitInvariant, Invariance, PTL DEF Spec

\* Shutdowns in turn, any number of them, close closingGracefully and c.allocated once
\* each (chromedp/chromedp.go, chromedp/allocate.go): only the first finds a Ctx.
THEOREM PanicFree ==
  ASSUME ~Overlap
  PROVE  Spec => []NoPanic
<1>1. InvariantInTurn => NoPanic BY DEF InvariantInTurn, CancelOnce
<1> QED BY <1>1, InvarianceInTurn, PTL

\* A Chrome that agreed to close is not killed before a deadline has passed, although
\* its connection is lost before it exits: the watcher of LostConnection sees
\* closingGracefully closed (chromedp/allocate.go), and nobody else ends the context
\* while Cancel waits.
THEOREM ExitsOrderly ==
  ASSUME ~Overlap
  PROVE  Spec => OrderlyExit
<1>1. InvariantInTurn => (process = "closing" /\ KillChrome => late)
  BY DEF InvariantInTurn, OrderlySoFar, KillChrome
<1> QED BY <1>1, InvarianceInTurn, PTL DEF OrderlyExit
=============================================================================
