------------------------------ MODULE Selection ------------------------------
(***************************************************************************)
(* Selections of page elements (selection_capture.go, selection_history.go *)
(* and the tool of mcp-selected.go).  Three gestures select an element:    *)
(* Alt+click, the DevTools inspect pointer and the DevTools panel.  Each   *)
(* queues it on the page and starts a capture in a goroutine of its own    *)
(* (the panel's runs in the tool).  Captures are serialized by captureMu   *)
(* and make several chromedp calls, between which the page may navigate;   *)
(* the history is guarded by Mu, held for one step at a time.              *)
(*                                                                         *)
(* The page is a queue, a target, the outlined elements and the badges of  *)
(* the current document.  A report, a screenshot and a URL have no         *)
(* influence and are left out.                                             *)
(***************************************************************************)
EXTENDS Naturals, SequencesExt

CONSTANTS
  Elements,      \* elements of a page
  Owner,         \* Owner[e]: the control that owns the icon e, else e itself
  Selectable,    \* bound: the elements that gestures pick
  HistoryCap,    \* selectionHistoryCap
  MaxGestures,   \* bound: Alt+clicks and uses of the inspect pointer
  MaxDocuments,  \* bound: documents loaded, the first one included
  MaxCalls,      \* bound: calls of browser_get_selected_element
  Tool,          \* the goroutine that serves the tool
  Nil            \* no element, node 0, captureMu free

Gestures == 1..MaxGestures
Goroutines == Gestures \union {Tool}
Nodes == (1..MaxDocuments) \X Elements   \* a backend node: an element of one document

ASSUME SelectionAssumption ==
  /\ Owner \in [Elements -> Elements]
  /\ Selectable \subseteq Elements
  /\ HistoryCap \in Nat \ {0}
  /\ MaxGestures \in Nat /\ MaxDocuments \in Nat \ {0} /\ MaxCalls \in Nat
  /\ Tool \notin Gestures
  /\ Nil \notin Elements /\ Nil \notin Nodes /\ Nil \notin Goroutines

VARIABLES
  document,   \* how many documents were loaded
  queue,      \* __webtyp_capture_queue: elements waiting to be captured
  target,     \* __webtyp_capture_target
  outlined,   \* elements drawn with the highlight
  savedOutline, \* the style to restore is itself the highlight
  badges,     \* <<element, number>> pinned on the page
  items, nextSeq,  \* selectionHistory
  captureMu,  \* holder of captureMu, or Nil
  lastPanelNode,   \* lastPanelNodeID
  wipes,      \* goroutines about to clear the history after a navigation
  calls,      \* calls of the tool so far
  pc,         \* pc[g]: where goroutine g is
  task        \* task[g]: the locals of g's capture: the node it queues, the source
              \* it reports, the backend node it described and the number it got

page == <<document, queue, target, outlined, savedOutline, badges>>
history == <<items, nextSeq>>
toolState == <<lastPanelNode, calls>>
vars == <<page, history, captureMu, wipes, toolState, pc, task>>

Sources == {"inspect", "alt+click", "panel"}

NoTask == [picked |-> Nil, source |-> "panel", node |-> Nil, seq |-> 0]
Task(n, src) == [NoTask EXCEPT !.picked = n, !.source = src]

Goto(g, l) == pc' = [pc EXCEPT ![g] = l]

Init ==
  /\ document = 1 /\ queue = <<>> /\ target = Nil
  /\ outlined = {} /\ savedOutline = FALSE /\ badges = {}
  /\ items = <<>> /\ nextSeq = 0
  /\ captureMu = Nil /\ lastPanelNode = Nil /\ wipes = 0 /\ calls = 0
  /\ pc = [g \in Goroutines |-> IF g = Tool THEN "idle" ELSE "none"]
  /\ task = [g \in Goroutines |-> NoTask]

(***************************************************************************)
(* The history.                                                            *)
(***************************************************************************)
\* A selection of the node the newest item has.
Duplicate(n) == items # <<>> /\ n # Nil /\ Last(items).node = n

\* The history with a selection of node n: the newest HistoryCap items stay.
Push_Grows(n, src) == Append(items, [seq |-> nextSeq + 1, source |-> src, node |-> n])
Push(n, src) ==
  LET grown == Append(items, [seq |-> nextSeq + 1, source |-> src, node |-> n])
  IN  IF Len(grown) > HistoryCap THEN Tail(grown) ELSE grown

ClearHistory == items' = <<>> /\ nextSeq' = 0

(***************************************************************************)
(* Gestures.                                                               *)
(***************************************************************************)
\* g is done with its capture: a gesture's goroutine ends, the tool answers from
\* the history.
Finish(g) ==
  /\ Goto(g, IF g = Tool THEN "idle" ELSE "ended")
  /\ task' = [task EXCEPT ![g] = NoTask]

\* Gestures are numbered in the order they happen.
NextGesture(g) == pc[g] = "none" /\ \A h \in 1..(g - 1) : pc[h] # "none"

\* The page script queues the element; the binding starts a capture.
AltClick(g, e) ==
  /\ NextGesture(g)
  /\ queue' = Append(queue, e)
  /\ task' = [task EXCEPT ![g] = Task(<<document, e>>, "alt+click")]
  /\ Goto(g, "lock")
  /\ UNCHANGED <<document, target, outlined, savedOutline, badges, history, captureMu,
                 wipes, toolState>>

\* EventInspectNodeRequested names a node, to be queued by a goroutine.
InspectNode(g, e) ==
  /\ NextGesture(g)
  /\ task' = [task EXCEPT ![g] = Task(<<document, e>>, "inspect")]
  /\ Goto(g, "enqueue")
  /\ UNCHANGED <<page, history, captureMu, wipes, toolState>>

\* enqueueNode: a node of the current document is resolved and queued; the node
\* of an earlier one is not, and nothing is captured.
EnqueueNode(g) ==
  /\ pc[g] = "enqueue"
  /\ LET picked == task[g].picked IN
       IF picked[1] = document
         THEN /\ queue' = Append(queue, picked[2])
              /\ Goto(g, "lock") /\ UNCHANGED task
         ELSE UNCHANGED queue /\ Finish(g)
  /\ UNCHANGED <<document, target, outlined, savedOutline, badges, history, captureMu,
                 wipes, toolState>>

\* The main frame gets a new document: the page's globals, outlines and badges
\* are gone, and the listener starts a goroutine that clears the history.
Navigate ==
  /\ document < MaxDocuments
  /\ document' = document + 1
  /\ queue' = <<>> /\ target' = Nil /\ outlined' = {} /\ savedOutline' = FALSE /\ badges' = {}
  /\ wipes' = wipes + 1
  /\ UNCHANGED <<history, captureMu, toolState, pc, task>>

NavigationClears ==
  /\ wipes > 0
  /\ wipes' = wipes - 1
  /\ ClearHistory
  /\ UNCHANGED <<page, captureMu, toolState, pc, task>>

(***************************************************************************)
(* captureSelection: one step per chromedp call.                           *)
(***************************************************************************)
\* The deferred unlock of captureMu.
Return(g) == captureMu' = Nil /\ Finish(g)

\* Captures take turns, and a form without the lock.
LockCapture_NoLock(g) ==
  /\ pc[g] = "lock"
  /\ Goto(g, "take")
  /\ UNCHANGED <<page, history, captureMu, wipes, toolState, task>>
LockCapture(g) ==
  /\ pc[g] = "lock"
  /\ captureMu = Nil
  /\ captureMu' = g
  /\ Goto(g, "take")
  /\ UNCHANGED <<page, history, wipes, toolState, task>>

\* Take the next queued element (or none) as the target; the page may fail to
\* describe it.
TakeTarget(g) ==
  /\ pc[g] = "take"
  /\ \/ /\ queue # <<>>
        /\ queue' = Tail(queue) /\ target' = Owner[Head(queue)]
        /\ \/ Goto(g, "describe") /\ UNCHANGED <<captureMu, task>>
           \/ Return(g)
     \/ queue = <<>> /\ target' = Nil /\ Return(g) /\ UNCHANGED queue
  /\ UNCHANGED <<document, outlined, savedOutline, badges, history, wipes, toolState>>

\* The backend node of the target, or 0; an invisible element is not outlined.
DescribeTarget(g) ==
  /\ pc[g] = "describe"
  /\ task' = [task EXCEPT ![g].node = IF target = Nil THEN Nil ELSE <<document, target>>]
  /\ Goto(g, "outline") \/ Goto(g, "push")
  /\ UNCHANGED <<page, history, captureMu, wipes, toolState>>

\* captureHighlighted: outline the target for the screenshot, ...
ApplyHighlight(g) ==
  /\ pc[g] = "outline"
  /\ IF target = Nil
       THEN UNCHANGED <<outlined, savedOutline>>
       ELSE /\ savedOutline' = (target \in outlined)
            /\ outlined' = outlined \union {target}
  /\ Goto(g, "restore")
  /\ UNCHANGED <<document, queue, target, badges, history, captureMu, wipes, toolState, task>>

\* ... and restore its style after it.
RemoveHighlight(g) ==
  /\ pc[g] = "restore"
  /\ outlined' = IF target = Nil \/ savedOutline THEN outlined ELSE outlined \ {target}
  /\ savedOutline' = FALSE
  /\ Goto(g, "push")
  /\ UNCHANGED <<document, queue, target, badges, history, captureMu, wipes, toolState, task>>

\* Number the selection (or mark it with the number before) and add it to the history.
Record_StaleNumber(g) ==
  /\ items' = Push(task[g].node, task[g].source)
  /\ nextSeq' = nextSeq + 1
  /\ task' = [task EXCEPT ![g].seq = nextSeq]
  /\ Goto(g, "badge")
Record(g) ==
  /\ items' = Push(task[g].node, task[g].source)
  /\ nextSeq' = nextSeq + 1
  /\ task' = [task EXCEPT ![g].seq = nextSeq + 1]
  /\ Goto(g, "badge")

\* Record the selection unless it repeats the newest one; and a form that
\* returns from a duplicate without the unlock.
PushSelection_KeepsLock(g) ==
  /\ pc[g] = "push"
  /\ IF Duplicate(task[g].node) THEN Finish(g) /\ UNCHANGED history ELSE Record(g)
  /\ UNCHANGED <<page, captureMu, wipes, toolState>>
PushSelection(g) ==
  /\ pc[g] = "push"
  /\ IF Duplicate(task[g].node)
       THEN Return(g) /\ UNCHANGED history
       ELSE Record(g) /\ UNCHANGED captureMu
  /\ UNCHANGED <<page, wipes, toolState>>

\* Pin the number on the target, if the page still has it.
PinBadge(g) ==
  /\ pc[g] = "badge"
  /\ badges' = IF target = Nil THEN badges ELSE badges \union {<<target, task[g].seq>>}
  /\ Return(g)
  /\ UNCHANGED <<document, queue, target, outlined, savedOutline, history, wipes, toolState>>

(***************************************************************************)
(* browser_get_selected_element.                                           *)
(***************************************************************************)
\* clear=true: the history first, the badges in a later chromedp call.
CallClear ==
  /\ pc[Tool] = "idle" /\ calls < MaxCalls
  /\ calls' = calls + 1
  /\ ClearHistory
  /\ Goto(Tool, "unbadge")
  /\ UNCHANGED <<page, captureMu, wipes, lastPanelNode, task>>

RemoveBadges ==
  /\ pc[Tool] = "unbadge"
  /\ badges' = {}
  /\ Goto(Tool, "idle")
  /\ UNCHANGED <<document, queue, target, outlined, savedOutline, history, captureMu,
                 wipes, toolState, task>>

\* The node selected in the DevTools panel, if any, is captured when it is not
\* the one of the last call; the answer is then read off the history.
CallGet ==
  /\ pc[Tool] = "idle" /\ calls < MaxCalls
  /\ calls' = calls + 1
  /\ \E e \in Selectable :
       /\ lastPanelNode # <<document, e>>
       /\ lastPanelNode' = <<document, e>>
       /\ task' = [task EXCEPT ![Tool] = Task(<<document, e>>, "panel")]
  /\ Goto(Tool, "enqueue")
  /\ UNCHANGED <<page, history, captureMu, wipes>>

-----------------------------------------------------------------------------
Capture(g) ==
  \/ EnqueueNode(g) \/ LockCapture(g) \/ TakeTarget(g) \/ DescribeTarget(g)
  \/ ApplyHighlight(g) \/ RemoveHighlight(g) \/ PushSelection(g) \/ PinBadge(g)

User ==
  \/ \E g \in Gestures, e \in Selectable : AltClick(g, e) \/ InspectNode(g, e)
  \/ Navigate
  \/ CallClear \/ CallGet

Next == User \/ NavigationClears \/ RemoveBadges \/ \E g \in Goroutines : Capture(g)

Spec == Init /\ [][Next]_vars

\* Goroutines run, chromedp calls end, and sync.Mutex does not starve a waiter.
Fairness ==
  /\ \A g \in Goroutines : SF_vars(Capture(g))
  /\ WF_vars(NavigationClears) /\ WF_vars(RemoveBadges)

FairSpec == Spec /\ Fairness

-----------------------------------------------------------------------------
TypeOK ==
  /\ document \in 1..MaxDocuments
  /\ queue \in Seq(Elements)
  /\ target \in Elements \union {Nil}
  /\ outlined \subseteq Elements /\ savedOutline \in BOOLEAN
  /\ badges \subseteq Elements \X (Nat \ {0})
  /\ items \in Seq([seq : Nat \ {0}, source : Sources, node : Nodes \union {Nil}])
  /\ nextSeq \in Nat
  /\ captureMu \in Goroutines \union {Nil}
  /\ lastPanelNode \in Nodes \union {Nil}
  /\ wipes \in Nat /\ calls \in 0..MaxCalls
  /\ pc \in [Goroutines -> {"none", "idle", "enqueue", "lock", "take", "describe", "outline",
                            "restore", "push", "badge", "unbadge", "ended"}]
  /\ task \in [Goroutines -> [picked : Nodes \union {Nil}, source : Sources,
                              node : Nodes \union {Nil}, seq : Nat]]

\* The history holds the newest HistoryCap selections since it was last cleared,
\* oldest first and with no number missing: "keeps the last 10".
HistoryIsRecent ==
  /\ Len(items) = IF nextSeq < HistoryCap THEN nextSeq ELSE HistoryCap
  /\ \A i \in 1..Len(items) : items[i].seq = nextSeq - Len(items) + i

\* From the description of its target to the badge a capture works on one
\* element: what it pushes, outlines and marks is the node it described, unless
\* the page navigated and there is no target any more.  The highlight is there for
\* its screenshot only.
CaptureKeepsTarget ==
  /\ \A g \in Goroutines :
       pc[g] \in {"outline", "restore", "push", "badge"} =>
         target = Nil \/ task[g].node \in {Nil, <<document, target>>}
  /\ outlined # {} => outlined = {target} /\ \E g \in Goroutines : pc[g] = "restore"

\* A badge number marks one element of the page.
BadgeNumbersUnique == \A b, c \in badges : b[2] = c[2] => b = c

\* Every queued element is taken by a capture or gone with its document.
QueueDrains == queue # <<>> ~> queue = <<>>
=============================================================================
