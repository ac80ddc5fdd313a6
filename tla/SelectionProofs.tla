---------------------------- MODULE SelectionProofs ----------------------------
(***************************************************************************)
(* Theorems about Selection, for any elements, gestures, documents, calls  *)
(* of the tool and any cap of the history: the types, that the history is  *)
(* the newest selections with no gap, and that a capture keeps to one      *)
(* element although the page's target is shared and the page navigates.    *)
(***************************************************************************)
EXTENDS Selection, TLAPS

Steps == {"none", "idle", "enqueue", "lock", "take", "describe", "outline", "restore", "push",
          "badge", "unbadge", "ended"}
Capturing == {"take", "describe", "outline", "restore", "push", "badge"}
Items == [seq : Nat \ {0}, source : Sources, node : Nodes \union {Nil}]
Tasks == [picked : Nodes \union {Nil}, source : Sources, node : Nodes \union {Nil}, seq : Nat]

\* What a goroutine has in its task when it is about to use it.
TasksReady ==
  \A g \in Goroutines :
    /\ pc[g] = "enqueue" => task[g].picked \in Nodes
    /\ pc[g] = "badge" => task[g].seq # 0

\* Captures take turns.
InTurn == \A g \in Goroutines : pc[g] \in Capturing => captureMu = g

\* The outline that is restored was never the highlight of another capture.
NeverSaved == ~savedOutline

Invariant ==
  TypeOK /\ TasksReady /\ InTurn /\ NeverSaved /\ HistoryIsRecent /\ CaptureKeepsTarget

LEMMA Constants ==
  /\ Owner \in [Elements -> Elements] /\ Selectable \subseteq Elements
  /\ HistoryCap \in Nat \ {0} /\ MaxGestures \in Nat /\ MaxDocuments \in Nat \ {0}
  /\ MaxCalls \in Nat /\ Tool \notin Gestures
  /\ Nil \notin Elements /\ Nil \notin Nodes /\ Nil \notin Goroutines
BY SelectionAssumption DEF SelectionAssumption

\* The history with one selection more: it has one item more, or as many as it may.
\* The parts of TypeOK, and the values a task gets.
PageTyped ==
  /\ document \in 1..MaxDocuments /\ queue \in Seq(Elements) /\ target \in Elements \union {Nil}
  /\ outlined \subseteq Elements /\ savedOutline \in BOOLEAN
  /\ badges \subseteq Elements \X (Nat \ {0})
HistoryTyped == items \in Seq(Items) /\ nextSeq \in Nat
ToolTyped ==
  /\ captureMu \in Goroutines \union {Nil} /\ lastPanelNode \in Nodes \union {Nil}
  /\ wipes \in Nat /\ calls \in 0..MaxCalls
TasksTyped == pc \in [Goroutines -> Steps] /\ task \in [Goroutines -> Tasks]

LEMMA Typed == TypeOK <=> PageTyped /\ HistoryTyped /\ ToolTyped /\ TasksTyped
BY DEF TypeOK, PageTyped, HistoryTyped, ToolTyped, TasksTyped, Items, Tasks, Steps

LEMMA TaskTypes ==
  /\ NoTask \in Tasks
  /\ \A n \in Nodes, src \in Sources : Task(n, src) \in Tasks /\ Task(n, src).picked = n
  /\ {"inspect", "alt+click", "panel"} \subseteq Sources
BY DEF NoTask, Task, Tasks, Sources

LEMMA PushRecent ==
  ASSUME HistoryIsRecent, items \in Seq(Items), nextSeq \in Nat,
         NEW n \in Nodes \union {Nil}, NEW src \in Sources
  PROVE  /\ Push(n, src) \in Seq(Items)
         /\ Len(Push(n, src)) = IF nextSeq + 1 < HistoryCap THEN nextSeq + 1 ELSE HistoryCap
         /\ \A i \in 1..Len(Push(n, src)) :
              Push(n, src)[i].seq = (nextSeq + 1) - Len(Push(n, src)) + i
<1> DEFINE new == [seq |-> nextSeq + 1, source |-> src, node |-> n]
           grown == Append(items, new)
<1>1. new \in Items BY DEF Items
<1>2. grown \in Seq(Items) /\ Len(grown) = Len(items) + 1 /\ Len(items) \in Nat
  BY <1>1
<1>3. \A i \in 1..Len(items) : grown[i] = items[i]
  OBVIOUS
<1>4. grown[Len(items) + 1].seq = nextSeq + 1
  OBVIOUS
<1>5. \A i \in 1..Len(grown) : grown[i].seq = (nextSeq + 1) - Len(grown) + i
  <2> SUFFICES ASSUME NEW i \in 1..Len(grown)
               PROVE  grown[i].seq = (nextSeq + 1) - Len(grown) + i
    OBVIOUS
  <2>1. CASE i = Len(items) + 1 BY <1>2, <1>4, <2>1
  <2>2. CASE i # Len(items) + 1
    <3>1. i \in 1..Len(items) BY <1>2, <2>2
    <3>2. grown[i].seq = nextSeq - Len(items) + i BY <1>3, <3>1 DEF HistoryIsRecent
    <3> QED BY <1>2, <3>2
  <2> QED BY <2>1, <2>2
<1> HIDE DEF grown
<1>6. CASE Len(grown) > HistoryCap
  <2>1. Push(n, src) = Tail(grown) BY <1>6 DEF Push, grown
  <2>2. Len(items) = HistoryCap /\ ~(nextSeq < HistoryCap)
    BY <1>2, <1>6, Constants DEF HistoryIsRecent
  <2>3. Tail(grown) \in Seq(Items) /\ Len(Tail(grown)) = HistoryCap
    BY <1>2, <2>2, Constants
  <2>4. \A i \in 1..HistoryCap : Tail(grown)[i] = grown[i + 1]
    BY <1>2, <2>2, Constants
  <2>5. \A i \in 1..HistoryCap : Tail(grown)[i].seq = (nextSeq + 1) - HistoryCap + i
    <3> SUFFICES ASSUME NEW i \in 1..HistoryCap
                 PROVE  Tail(grown)[i].seq = (nextSeq + 1) - HistoryCap + i
      OBVIOUS
    <3>1. i + 1 \in 1..Len(grown) /\ Len(grown) = HistoryCap + 1 BY <1>2, <2>2, Constants
    <3>2. grown[i + 1].seq = (nextSeq + 1) - Len(grown) + (i + 1) BY <1>5, <3>1
    <3> QED BY <2>4, <3>1, <3>2, Constants
  <2>6. ~(nextSeq + 1 < HistoryCap) BY <2>2, Constants
  <2> QED BY <2>1, <2>3, <2>5, <2>6
<1>7. CASE ~(Len(grown) > HistoryCap)
  <2>1. Push(n, src) = grown BY <1>7 DEF Push, grown
  <2>2. Len(grown) = IF nextSeq + 1 < HistoryCap THEN nextSeq + 1 ELSE HistoryCap
    BY <1>2, <1>7, Constants DEF HistoryIsRecent
  <2> QED BY <1>2, <1>5, <2>1, <2>2
<1> QED BY <1>6, <1>7

LEMMA InitInvariant == Init => Invariant
<1> SUFFICES ASSUME Init PROVE Invariant
  OBVIOUS
<1> USE Constants DEF Init
<1>1. TypeOK
  <2>1. PageTyped
    <3>1. document \in 1..MaxDocuments OBVIOUS
    <3>2. queue \in Seq(Elements) OBVIOUS
    <3>3. savedOutline \in BOOLEAN OBVIOUS
    <3> QED BY <3>1, <3>2, <3>3 DEF PageTyped
  <2>2. HistoryTyped BY DEF HistoryTyped
  <2>3. ToolTyped BY DEF ToolTyped
  <2>4. TasksTyped BY TaskTypes DEF TasksTyped, Steps
  <2> QED BY <2>1, <2>2, <2>3, <2>4, Typed
<1>2. TasksReady BY DEF TasksReady
<1>3. InTurn /\ NeverSaved BY DEF InTurn, NeverSaved, Capturing
<1>4. HistoryIsRecent BY DEF HistoryIsRecent
<1>5. CaptureKeepsTarget BY DEF CaptureKeepsTarget
<1> QED BY <1>1, <1>2, <1>3, <1>4, <1>5 DEF Invariant

LEMMA StepTurns ==
  ASSUME TypeOK, InTurn, Next
  PROVE  InTurn'
<1> USE Constants DEF TypeOK, InTurn, Capturing, Goroutines, vars, page, history, toolState
<1>1. ASSUME NEW g \in Gestures, NEW e \in Selectable, AltClick(g, e) PROVE InTurn'
  BY <1>1 DEF AltClick, NextGesture, Goto, Task, NoTask
<1>2. ASSUME NEW g \in Gestures, NEW e \in Selectable, InspectNode(g, e) PROVE InTurn'
  BY <1>2 DEF InspectNode, NextGesture, Goto, Task, NoTask
<1>3. CASE Navigate
  BY <1>3 DEF Navigate
<1>4. CASE CallClear
  BY <1>4 DEF CallClear, ClearHistory, Goto
<1>5. CASE CallGet
  BY <1>5 DEF CallGet, Goto, Task, NoTask
<1>6. CASE NavigationClears
  BY <1>6 DEF NavigationClears, ClearHistory
<1>7. CASE RemoveBadges
  BY <1>7 DEF RemoveBadges, Goto
<1>8. ASSUME NEW g \in Goroutines, EnqueueNode(g) PROVE InTurn'
  BY <1>8 DEF EnqueueNode, Goto, Finish, NoTask
<1>9. ASSUME NEW g \in Goroutines, LockCapture(g) PROVE InTurn'
  BY <1>9 DEF LockCapture, Goto
<1>10. ASSUME NEW g \in Goroutines, TakeTarget(g) PROVE InTurn'
  <2>1. /\ pc' = [pc EXCEPT ![g] = "describe"] /\ captureMu' = captureMu
        \/ /\ pc' = [pc EXCEPT ![g] = IF g = Tool THEN "idle" ELSE "ended"] /\ captureMu' = Nil
    BY <1>10 DEF TakeTarget, Goto, Return, Finish
  <2>2. captureMu = g BY <1>10 DEF TakeTarget
  <2> QED BY <2>1, <2>2
<1>11. ASSUME NEW g \in Goroutines, DescribeTarget(g) PROVE InTurn'
  BY <1>11 DEF DescribeTarget, Goto
<1>12. ASSUME NEW g \in Goroutines, ApplyHighlight(g) PROVE InTurn'
  BY <1>12 DEF ApplyHighlight, Goto
<1>13. ASSUME NEW g \in Goroutines, RemoveHighlight(g) PROVE InTurn'
  BY <1>13 DEF RemoveHighlight, Goto
<1>14. ASSUME NEW g \in Goroutines, PushSelection(g) PROVE InTurn'
  <2>1. /\ pc' = [pc EXCEPT ![g] = "badge"] /\ captureMu' = captureMu
        \/ /\ pc' = [pc EXCEPT ![g] = IF g = Tool THEN "idle" ELSE "ended"] /\ captureMu' = Nil
    BY <1>14 DEF PushSelection, Goto, Return, Finish, Record
  <2>2. captureMu = g BY <1>14 DEF PushSelection
  <2> QED BY <2>1, <2>2
<1>15. ASSUME NEW g \in Goroutines, PinBadge(g) PROVE InTurn'
  BY <1>15 DEF PinBadge, Goto, Return, Finish, NoTask
<1> QED
  BY <1>1, <1>2, <1>3, <1>4, <1>5, <1>6, <1>7, <1>8, <1>9, <1>10, <1>11, <1>12, <1>13, <1>14, <1>15
  DEF Next, User, Capture

LEMMA StepTarget ==
  ASSUME TypeOK, InTurn, NeverSaved, CaptureKeepsTarget, Next
  PROVE  NeverSaved' /\ CaptureKeepsTarget'
<1> USE Constants DEF TypeOK, InTurn, NeverSaved, CaptureKeepsTarget, Capturing, Goroutines,
         vars, page, history, toolState
<1>1. ASSUME NEW g \in Gestures, NEW e \in Selectable, AltClick(g, e)
             PROVE NeverSaved' /\ CaptureKeepsTarget'
  BY <1>1 DEF AltClick, NextGesture, Goto, Task, NoTask
<1>2. ASSUME NEW g \in Gestures, NEW e \in Selectable, InspectNode(g, e)
             PROVE NeverSaved' /\ CaptureKeepsTarget'
  BY <1>2 DEF InspectNode, NextGesture, Goto, Task, NoTask
<1>3. CASE Navigate
  BY <1>3 DEF Navigate
<1>4. CASE CallClear
  BY <1>4 DEF CallClear, ClearHistory, Goto
<1>5. CASE CallGet
  BY <1>5 DEF CallGet, Goto, Task, NoTask
<1>6. CASE NavigationClears
  BY <1>6 DEF NavigationClears, ClearHistory
<1>7. CASE RemoveBadges
  BY <1>7 DEF RemoveBadges, Goto
<1>8. ASSUME NEW g \in Goroutines, EnqueueNode(g) PROVE NeverSaved' /\ CaptureKeepsTarget'
  <2>1. UNCHANGED <<document, target, outlined, savedOutline>> BY <1>8 DEF EnqueueNode
  <2>2. pc'[g] \in {"lock", "idle", "ended"} /\ pc[g] = "enqueue"
    BY <1>8 DEF EnqueueNode, Finish, Goto
  <2>3. \A h \in Goroutines : h # g => pc'[h] = pc[h] /\ task'[h] = task[h]
    BY <1>8 DEF EnqueueNode, Finish, Goto
  <2> QED BY <2>1, <2>2, <2>3
<1>9. ASSUME NEW g \in Goroutines, LockCapture(g) PROVE NeverSaved' /\ CaptureKeepsTarget'
  BY <1>9 DEF LockCapture, Goto
<1>10. ASSUME NEW g \in Goroutines, TakeTarget(g) PROVE NeverSaved' /\ CaptureKeepsTarget'
  <2>1. UNCHANGED <<document, outlined, savedOutline>> BY <1>10 DEF TakeTarget
  <2>2. pc[g] = "take" /\ pc'[g] \in {"describe", "idle", "ended"}
    BY <1>10 DEF TakeTarget, Return, Finish, Goto
  <2>3. \A h \in Goroutines : h # g => pc'[h] = pc[h] /\ task'[h] = task[h]
    BY <1>10 DEF TakeTarget, Return, Finish, Goto
  <2>4. \A h \in Goroutines : h # g => pc[h] \notin Capturing BY <2>2
  <2>5. outlined = {} BY <2>2, <2>4
  <2>6. \A h \in Goroutines : pc'[h] \notin {"outline", "restore", "push", "badge"}
    BY <2>2, <2>3, <2>4
  <2> QED BY <2>1, <2>5, <2>6
<1>11. ASSUME NEW g \in Goroutines, DescribeTarget(g) PROVE NeverSaved' /\ CaptureKeepsTarget'
  BY <1>11 DEF DescribeTarget, Goto
<1>12. ASSUME NEW g \in Goroutines, ApplyHighlight(g) PROVE NeverSaved' /\ CaptureKeepsTarget'
  BY <1>12 DEF ApplyHighlight, Goto
<1>13. ASSUME NEW g \in Goroutines, RemoveHighlight(g) PROVE NeverSaved' /\ CaptureKeepsTarget'
  BY <1>13 DEF RemoveHighlight, Goto
<1>14. ASSUME NEW g \in Goroutines, PushSelection(g) PROVE NeverSaved' /\ CaptureKeepsTarget'
  <2>1. UNCHANGED page BY <1>14 DEF PushSelection
  <2>2. \A h \in Goroutines : h # g => pc'[h] = pc[h] /\ task'[h] = task[h]
    BY <1>14 DEF PushSelection, Return, Record, Finish, Goto
  <2>3. pc[g] = "push" /\ pc'[g] \in {"badge", "idle", "ended"}
    BY <1>14 DEF PushSelection, Return, Record, Finish, Goto
  <2>4. pc'[g] = "badge" => task'[g].node = task[g].node
    BY <1>14 DEF PushSelection, Return, Record, Finish, Goto
  <2> QED BY <2>1, <2>2, <2>3, <2>4
<1>15. ASSUME NEW g \in Goroutines, PinBadge(g) PROVE NeverSaved' /\ CaptureKeepsTarget'
  BY <1>15 DEF PinBadge, Goto, Return, Finish, NoTask
<1> QED
  BY <1>1, <1>2, <1>3, <1>4, <1>5, <1>6, <1>7, <1>8, <1>9, <1>10, <1>11, <1>12, <1>13, <1>14, <1>15
  DEF Next, User, Capture

LEMMA StepHistory ==
  ASSUME TypeOK, HistoryIsRecent, Next
  PROVE  HistoryIsRecent'
<1> USE Constants DEF HistoryIsRecent, vars, page, history, toolState
<1>1. ASSUME NEW g \in Gestures, NEW e \in Selectable, AltClick(g, e) PROVE HistoryIsRecent'
  BY <1>1 DEF AltClick, NextGesture, Goto, Task, NoTask
<1>2. ASSUME NEW g \in Gestures, NEW e \in Selectable, InspectNode(g, e) PROVE HistoryIsRecent'
  BY <1>2 DEF InspectNode, NextGesture, Goto, Task, NoTask
<1>3. CASE Navigate
  BY <1>3 DEF Navigate
<1>4. CASE CallClear
  BY <1>4 DEF CallClear, ClearHistory, Goto
<1>5. CASE CallGet
  BY <1>5 DEF CallGet, Goto, Task, NoTask
<1>6. CASE NavigationClears
  BY <1>6 DEF NavigationClears, ClearHistory
<1>7. CASE RemoveBadges
  BY <1>7 DEF RemoveBadges, Goto
<1>8. ASSUME NEW g \in Goroutines, EnqueueNode(g) PROVE HistoryIsRecent'
  BY <1>8 DEF EnqueueNode, Goto, Finish, NoTask
<1>9. ASSUME NEW g \in Goroutines, LockCapture(g) PROVE HistoryIsRecent'
  BY <1>9 DEF LockCapture, Goto
<1>10. ASSUME NEW g \in Goroutines, TakeTarget(g) PROVE HistoryIsRecent'
  BY <1>10 DEF TakeTarget, Goto, Return, Finish, NoTask
<1>11. ASSUME NEW g \in Goroutines, DescribeTarget(g) PROVE HistoryIsRecent'
  BY <1>11 DEF DescribeTarget, Goto
<1>12. ASSUME NEW g \in Goroutines, ApplyHighlight(g) PROVE HistoryIsRecent'
  BY <1>12 DEF ApplyHighlight, Goto
<1>13. ASSUME NEW g \in Goroutines, RemoveHighlight(g) PROVE HistoryIsRecent'
  BY <1>13 DEF RemoveHighlight, Goto
<1>14. ASSUME NEW g \in Goroutines, PushSelection(g) PROVE HistoryIsRecent'
  <2>1. CASE Duplicate(task[g].node) BY <1>14, <2>1 DEF PushSelection, Return
  <2>2. CASE ~Duplicate(task[g].node)
    <3>1. items' = Push(task[g].node, task[g].source) /\ nextSeq' = nextSeq + 1
      BY <1>14, <2>2 DEF PushSelection, Record
    <3>2. task[g].node \in Nodes \union {Nil} /\ task[g].source \in Sources BY DEF TypeOK
    <3>3. items \in Seq(Items) /\ nextSeq \in Nat BY DEF TypeOK, Items
    <3>4. HistoryIsRecent OBVIOUS
    <3> HIDE DEF HistoryIsRecent
    <3>5. /\ Len(items') = IF nextSeq' < HistoryCap THEN nextSeq' ELSE HistoryCap
          /\ \A i \in 1..Len(items') : items'[i].seq = nextSeq' - Len(items') + i
      BY <3>1, <3>2, <3>3, <3>4, PushRecent
    <3> QED BY <3>5 DEF HistoryIsRecent
  <2> QED BY <2>1, <2>2
<1>15. ASSUME NEW g \in Goroutines, PinBadge(g) PROVE HistoryIsRecent'
  BY <1>15 DEF PinBadge, Goto, Return, Finish, NoTask
<1> QED
  BY <1>1, <1>2, <1>3, <1>4, <1>5, <1>6, <1>7, <1>8, <1>9, <1>10, <1>11, <1>12, <1>13, <1>14, <1>15
  DEF Next, User, Capture

LEMMA StepType ==
  ASSUME TypeOK, TasksReady, HistoryIsRecent, Next
  PROVE  TypeOK' /\ TasksReady'
<1> SUFFICES PageTyped' /\ HistoryTyped' /\ ToolTyped' /\ TasksTyped' /\ TasksReady'
  BY DEF TypeOK, PageTyped, HistoryTyped, ToolTyped, TasksTyped, Items, Tasks, Steps
<1> DEFINE Good == PageTyped /\ HistoryTyped /\ ToolTyped /\ TasksTyped /\ TasksReady
<1>0. Good BY Typed
<1> USE <1>0, Constants, TaskTypes DEF vars, page, history, toolState
<1>1. ASSUME NEW g \in Gestures, NEW e \in Selectable, AltClick(g, e) PROVE Good'
  <2>1. PageTyped' BY <1>1 DEF PageTyped, AltClick, NextGesture, Goto
  <2>2. HistoryTyped' BY <1>1 DEF HistoryTyped, AltClick, NextGesture, Goto
  <2>3. ToolTyped' BY <1>1 DEF ToolTyped, AltClick, NextGesture, Goto, Goroutines
  <2>4. TasksTyped'
    BY <1>1 DEF TasksTyped, AltClick, NextGesture, Goto, Steps, PageTyped, Nodes, Goroutines
  <2>5. TasksReady'
    BY <1>1 DEF TasksReady, TasksTyped, PageTyped, HistoryTyped, AltClick, NextGesture, Goto,
       Nodes, Goroutines
  <2> QED BY <2>1, <2>2, <2>3, <2>4, <2>5
<1>2. ASSUME NEW g \in Gestures, NEW e \in Selectable, InspectNode(g, e) PROVE Good'
  <2>1. PageTyped' BY <1>2 DEF PageTyped, InspectNode, NextGesture, Goto
  <2>2. HistoryTyped' BY <1>2 DEF HistoryTyped, InspectNode, NextGesture, Goto
  <2>3. ToolTyped' BY <1>2 DEF ToolTyped, InspectNode, NextGesture, Goto, Goroutines
  <2>4. TasksTyped'
    BY <1>2 DEF TasksTyped, InspectNode, NextGesture, Goto, Steps, PageTyped, Nodes, Goroutines
  <2>5. TasksReady'
    BY <1>2 DEF TasksReady, TasksTyped, PageTyped, HistoryTyped, InspectNode, NextGesture, Goto,
       Nodes, Goroutines
  <2> QED BY <2>1, <2>2, <2>3, <2>4, <2>5
<1>3. CASE Navigate
  <2>1. PageTyped'
    <3>1. document' \in 1..MaxDocuments BY <1>3 DEF PageTyped, Navigate
    <3>2. queue' \in Seq(Elements) BY <1>3 DEF Navigate
    <3>3. savedOutline' \in BOOLEAN BY <1>3 DEF Navigate
    <3> QED BY <1>3, <3>1, <3>2, <3>3 DEF PageTyped, Navigate
  <2>2. HistoryTyped' BY <1>3 DEF HistoryTyped, Navigate
  <2>3. ToolTyped' BY <1>3 DEF ToolTyped, Navigate, Goroutines
  <2>4. TasksTyped' BY <1>3 DEF TasksTyped, Navigate, Steps
  <2>5. TasksReady' BY <1>3 DEF TasksReady, TasksTyped, PageTyped, HistoryTyped, Navigate
  <2> QED BY <2>1, <2>2, <2>3, <2>4, <2>5
<1>4. CASE CallClear
  <2>1. PageTyped' BY <1>4 DEF PageTyped, CallClear, ClearHistory, Goto
  <2>2. HistoryTyped' BY <1>4 DEF HistoryTyped, CallClear, ClearHistory, Goto
  <2>3. ToolTyped' BY <1>4 DEF ToolTyped, CallClear, ClearHistory, Goto, Goroutines
  <2>4. TasksTyped' BY <1>4 DEF TasksTyped, CallClear, ClearHistory, Goto, Steps, Goroutines
  <2>5. TasksReady'
    BY <1>4 DEF TasksReady, TasksTyped, PageTyped, HistoryTyped, CallClear, ClearHistory, Goto,
       Goroutines
  <2> QED BY <2>1, <2>2, <2>3, <2>4, <2>5
<1>5. CASE CallGet
  <2>1. PageTyped' BY <1>5 DEF PageTyped, CallGet, Goto
  <2>2. HistoryTyped' BY <1>5 DEF HistoryTyped, CallGet, Goto
  <2>3. ToolTyped' BY <1>5 DEF ToolTyped, CallGet, Goto, Goroutines, PageTyped, Nodes
  <2>4. TasksTyped' BY <1>5 DEF TasksTyped, CallGet, Goto, Steps, PageTyped, Nodes, Goroutines
  <2>5. TasksReady'
    <3>1. PICK e \in Selectable : task' = [task EXCEPT ![Tool] = Task(<<document, e>>, "panel")]
      BY <1>5 DEF CallGet
    <3>2. task'[Tool].picked \in Nodes
      BY <3>1 DEF TasksTyped, PageTyped, Nodes, Goroutines
    <3>3. pc' = [pc EXCEPT ![Tool] = "enqueue"] BY <1>5 DEF CallGet, Goto
    <3>4. pc'[Tool] = "enqueue" BY <3>3 DEF TasksTyped, Goroutines
    <3>5. \A g \in Goroutines : g # Tool => pc'[g] = pc[g] /\ task'[g] = task[g]
      BY <3>1, <3>3 DEF TasksTyped
    <3> QED BY <3>2, <3>4, <3>5 DEF TasksReady
  <2> QED BY <2>1, <2>2, <2>3, <2>4, <2>5
<1>6. CASE NavigationClears
  <2>1. PageTyped' BY <1>6 DEF PageTyped, NavigationClears, ClearHistory
  <2>2. HistoryTyped' BY <1>6 DEF HistoryTyped, NavigationClears, ClearHistory
  <2>3. ToolTyped' BY <1>6 DEF ToolTyped, NavigationClears, ClearHistory, Goroutines
  <2>4. TasksTyped' BY <1>6 DEF TasksTyped, NavigationClears, ClearHistory, Steps
  <2>5. TasksReady'
    BY <1>6 DEF TasksReady, TasksTyped, PageTyped, HistoryTyped, NavigationClears, ClearHistory
  <2> QED BY <2>1, <2>2, <2>3, <2>4, <2>5
<1>7. CASE RemoveBadges
  <2>1. PageTyped' BY <1>7 DEF PageTyped, RemoveBadges, Goto
  <2>2. HistoryTyped' BY <1>7 DEF HistoryTyped, RemoveBadges, Goto
  <2>3. ToolTyped' BY <1>7 DEF ToolTyped, RemoveBadges, Goto, Goroutines
  <2>4. TasksTyped' BY <1>7 DEF TasksTyped, RemoveBadges, Goto, Steps, Goroutines
  <2>5. TasksReady'
    BY <1>7 DEF TasksReady, TasksTyped, PageTyped, HistoryTyped, RemoveBadges, Goto, Goroutines
  <2> QED BY <2>1, <2>2, <2>3, <2>4, <2>5
<1>8. ASSUME NEW g \in Goroutines, EnqueueNode(g) PROVE Good'
  <2>1. PageTyped'
    <3>1. task[g].picked[2] \in Elements BY <1>8 DEF EnqueueNode, TasksReady, Nodes
    <3>2. queue' = queue \/ queue' = Append(queue, task[g].picked[2]) BY <1>8 DEF EnqueueNode
    <3>3. queue' \in Seq(Elements) BY <3>1, <3>2 DEF PageTyped
    <3> QED BY <1>8, <3>3 DEF PageTyped, EnqueueNode
  <2>2. HistoryTyped' BY <1>8 DEF HistoryTyped, EnqueueNode, Goto, Finish
  <2>3. ToolTyped' BY <1>8 DEF ToolTyped, EnqueueNode, Goto, Finish, Goroutines
  <2>4. TasksTyped' BY <1>8 DEF TasksTyped, EnqueueNode, Goto, Finish, Steps
  <2>5. TasksReady'
    BY <1>8 DEF TasksReady, TasksTyped, PageTyped, HistoryTyped, EnqueueNode, Goto, Finish
  <2> QED BY <2>1, <2>2, <2>3, <2>4, <2>5
<1>9. ASSUME NEW g \in Goroutines, LockCapture(g) PROVE Good'
  <2>1. PageTyped' BY <1>9 DEF PageTyped, LockCapture, Goto
  <2>2. HistoryTyped' BY <1>9 DEF HistoryTyped, LockCapture, Goto
  <2>3. ToolTyped' BY <1>9 DEF ToolTyped, LockCapture, Goto, Goroutines
  <2>4. TasksTyped' BY <1>9 DEF TasksTyped, LockCapture, Goto, Steps
  <2>5. TasksReady' BY <1>9 DEF TasksReady, TasksTyped, PageTyped, HistoryTyped, LockCapture, Goto
  <2> QED BY <2>1, <2>2, <2>3, <2>4, <2>5
<1>10. ASSUME NEW g \in Goroutines, TakeTarget(g) PROVE Good'
  <2>1. PageTyped'
    <3>1. CASE queue # <<>>
      <4>1. queue' = Tail(queue) /\ target' = Owner[Head(queue)] BY <1>10, <3>1 DEF TakeTarget
      <4>2. queue' \in Seq(Elements) /\ Head(queue) \in Elements BY <3>1, <4>1 DEF PageTyped
      <4> QED BY <1>10, <4>1, <4>2 DEF PageTyped, TakeTarget
    <3>2. CASE queue = <<>> BY <1>10, <3>2 DEF PageTyped, TakeTarget
    <3> QED BY <3>1, <3>2
  <2>2. HistoryTyped' BY <1>10 DEF HistoryTyped, TakeTarget, Goto, Return, Finish
  <2>3. ToolTyped' BY <1>10 DEF ToolTyped, TakeTarget, Goto, Return, Finish, Goroutines
  <2>4. TasksTyped'
    BY <1>10, SMTT(60) DEF TasksTyped, TakeTarget, Goto, Return, Finish, Steps
  <2>5. TasksReady'
    BY <1>10 DEF TasksReady, TasksTyped, PageTyped, HistoryTyped, TakeTarget, Goto, Return, Finish
  <2> QED BY <2>1, <2>2, <2>3, <2>4, <2>5
<1>11. ASSUME NEW g \in Goroutines, DescribeTarget(g) PROVE Good'
  <2>1. PageTyped' BY <1>11 DEF PageTyped, DescribeTarget, Goto
  <2>2. HistoryTyped' BY <1>11 DEF HistoryTyped, DescribeTarget, Goto
  <2>3. ToolTyped' BY <1>11 DEF ToolTyped, DescribeTarget, Goto, Goroutines
  <2>4. TasksTyped'
    <3> DEFINE n == IF target = Nil THEN Nil ELSE <<document, target>>
    <3>1. n \in Nodes \union {Nil} BY DEF PageTyped, Nodes
    <3>2. task' = [task EXCEPT ![g].node = n] BY <1>11 DEF DescribeTarget
    <3> HIDE DEF n
    <3>3. task' \in [Goroutines -> Tasks] BY <3>1, <3>2 DEF TasksTyped, Tasks
    <3>4. pc' \in [Goroutines -> Steps] BY <1>11 DEF TasksTyped, DescribeTarget, Goto, Steps
    <3> QED BY <3>3, <3>4 DEF TasksTyped
  <2>5. TasksReady'
    BY <1>11 DEF TasksReady, TasksTyped, PageTyped, HistoryTyped, DescribeTarget, Goto
  <2> QED BY <2>1, <2>2, <2>3, <2>4, <2>5
<1>12. ASSUME NEW g \in Goroutines, ApplyHighlight(g) PROVE Good'
  <2>1. PageTyped'
    <3>1. savedOutline' \in BOOLEAN
      <4>1. CASE target = Nil BY <1>12, <4>1 DEF ApplyHighlight, PageTyped
      <4>2. CASE target # Nil
        <5>1. savedOutline' = (target \in outlined) BY <1>12, <4>2 DEF ApplyHighlight
        <5> QED BY <5>1
      <4> QED BY <4>1, <4>2
    <3>2. outlined' \subseteq Elements BY <1>12 DEF PageTyped, ApplyHighlight
    <3> QED BY <1>12, <3>1, <3>2 DEF PageTyped, ApplyHighlight
  <2>2. HistoryTyped' BY <1>12 DEF HistoryTyped, ApplyHighlight, Goto
  <2>3. ToolTyped' BY <1>12 DEF ToolTyped, ApplyHighlight, Goto, Goroutines
  <2>4. TasksTyped' BY <1>12 DEF TasksTyped, ApplyHighlight, Goto, Steps
  <2>5. TasksReady'
    BY <1>12 DEF TasksReady, TasksTyped, PageTyped, HistoryTyped, ApplyHighlight, Goto
  <2> QED BY <2>1, <2>2, <2>3, <2>4, <2>5
<1>13. ASSUME NEW g \in Goroutines, RemoveHighlight(g) PROVE Good'
  <2>1. PageTyped' BY <1>13 DEF PageTyped, RemoveHighlight, Goto
  <2>2. HistoryTyped' BY <1>13 DEF HistoryTyped, RemoveHighlight, Goto
  <2>3. ToolTyped' BY <1>13 DEF ToolTyped, RemoveHighlight, Goto, Goroutines
  <2>4. TasksTyped' BY <1>13 DEF TasksTyped, RemoveHighlight, Goto, Steps
  <2>5. TasksReady'
    BY <1>13 DEF TasksReady, TasksTyped, PageTyped, HistoryTyped, RemoveHighlight, Goto
  <2> QED BY <2>1, <2>2, <2>3, <2>4, <2>5
<1>14. ASSUME NEW g \in Goroutines, PushSelection(g) PROVE Good'
  <2>1. PageTyped' BY <1>14 DEF PageTyped, PushSelection, Goto, Return, Finish, Record
  <2>2. HistoryTyped' /\ TasksTyped' /\ TasksReady'
    <3>1. CASE Duplicate(task[g].node)
      <4>1. HistoryTyped' BY <1>14, <3>1 DEF HistoryTyped, PushSelection
      <4>2. task' = [task EXCEPT ![g] = NoTask] /\ \E l \in {"idle", "ended"} : Goto(g, l)
        BY <1>14, <3>1 DEF PushSelection, Return, Finish
      <4> QED BY <4>1, <4>2 DEF TasksTyped, TasksReady, Goto, Steps
    <3>2. CASE ~Duplicate(task[g].node)
      <4>1. /\ items' = Push(task[g].node, task[g].source) /\ nextSeq' = nextSeq + 1
            /\ task' = [task EXCEPT ![g].seq = nextSeq + 1] /\ Goto(g, "badge")
        BY <1>14, <3>2 DEF PushSelection, Record
      <4>2. task[g].node \in Nodes \union {Nil} /\ task[g].source \in Sources
        BY DEF TasksTyped, Tasks
      <4>3. HistoryTyped' BY SMTT(60), <4>1, <4>2, PushRecent DEF HistoryTyped
      <4>4. nextSeq + 1 \in Nat /\ nextSeq + 1 # 0 BY DEF HistoryTyped
      <4>5. TasksTyped' BY <4>1, <4>4 DEF TasksTyped, Tasks, Goto, Steps
      <4>6. TasksReady' BY <4>1, <4>4 DEF TasksReady, TasksTyped, Tasks, Goto
      <4> QED BY <4>3, <4>5, <4>6
    <3> QED BY <3>1, <3>2
  <2>3. ToolTyped' BY <1>14 DEF ToolTyped, PushSelection, Goto, Return, Finish, Record, Goroutines
  <2> QED BY <2>1, <2>2, <2>3
<1>15. ASSUME NEW g \in Goroutines, PinBadge(g) PROVE Good'
  <2>1. PageTyped'
    BY <1>15 DEF PageTyped, PinBadge, Goto, Return, Finish, TasksTyped, TasksReady, Tasks
  <2>2. HistoryTyped' BY <1>15 DEF HistoryTyped, PinBadge, Goto, Return, Finish
  <2>3. ToolTyped' BY <1>15 DEF ToolTyped, PinBadge, Goto, Return, Finish, Goroutines
  <2>4. TasksTyped' BY <1>15 DEF TasksTyped, PinBadge, Goto, Return, Finish, Steps
  <2>5. TasksReady'
    BY <1>15 DEF TasksReady, TasksTyped, PageTyped, HistoryTyped, PinBadge, Goto, Return, Finish
  <2> QED BY <2>1, <2>2, <2>3, <2>4, <2>5
<1> QED
  BY <1>1, <1>2, <1>3, <1>4, <1>5, <1>6, <1>7, <1>8, <1>9, <1>10, <1>11, <1>12, <1>13, <1>14, <1>15
  DEF Next, User, Capture

LEMMA StutterInvariant == Invariant /\ UNCHANGED vars => Invariant'
BY DEF Invariant, TypeOK, TasksReady, InTurn, NeverSaved, HistoryIsRecent, CaptureKeepsTarget,
   vars, page, history, toolState

LEMMA StepInvariant == Invariant /\ [Next]_vars => Invariant'
<1>1. Invariant /\ Next => Invariant'
  BY StepType, StepTurns, StepTarget, StepHistory DEF Invariant
<1> QED BY <1>1, StutterInvariant

\* What the theorems rest on.
LEMMA Invariance == Spec => []Invariant
BY InitInvariant, StepInvariant, PTL DEF Spec

\* Every variable keeps its type, for any page and any number of gestures.
THEOREM TypeCorrect == Spec => []TypeOK
BY Invariance, PTL DEF Invariant

\* The history is the newest selections with no number missing, whatever its cap and
\* wherever the clears of navigations and of the tool fall among the captures.
THEOREM HistoryStaysRecent == Spec => []HistoryIsRecent
BY Invariance, PTL DEF Invariant

\* captureMu suffices: no other capture changes the target between the calls of one,
\* and the highlight never outlives its screenshot, not even in a saved style.
THEOREM TargetIsKept == Spec => []CaptureKeepsTarget
BY Invariance, PTL DEF Invariant
=============================================================================
