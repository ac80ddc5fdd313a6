----------------------------- MODULE Dispatcher -----------------------------
(***************************************************************************)
(* chromedp's message pipeline for one target (chromedp/browser.go and     *)
(* chromedp/target.go).  Commands go through cmdQueue to the router        *)
(* (Browser.run), which writes them to Chrome.  Answers and events come    *)
(* back through                                                            *)
(*                                                                         *)
(*   wire -> reader -> incomingQueue -> router -> messageQueue             *)
(*        -> receiver -> syncEventQueue -> handler                         *)
(*                                                                         *)
(* Reader and router are the goroutines of Browser.run, receiver and       *)
(* handler those of Target.run.  The receiver gives an answer to the       *)
(* Execute that waits for it; the handler takes the events, and for a      *)
(* documentUpdated it executes a command itself and waits for the answer.  *)
(* Every Execute has a number of its own, so that an answer that comes     *)
(* after a timeout meets nobody.                                           *)
(*                                                                         *)
(* An event that does not unmarshal, or of a domain the handler does not   *)
(* follow, ends at the receiver: Skipped stands for one.  A write of the   *)
(* router may fail, and the connection may be lost; the goroutines of the  *)
(* target go on then, until the context is cancelled.                      *)
(***************************************************************************)
EXTENDS Naturals, Sequences, FiniteSets

CONSTANTS
  Clients,      \* goroutines that execute commands on the target
  Handler,      \* the goroutine that handles the target's events
  CmdCap,       \* capacity of cmdQueue
  IncomingCap,  \* capacity of incomingQueue
  MessageCap,   \* capacity of messageQueue
  SyncCap,      \* capacity of syncEventQueue
  MaxCommands,  \* bound: commands executed
  MaxEvents,    \* bound: events emitted, for the handler or not
  MaxWire,      \* bound: Chrome says more while fewer messages are on the wire
  Nil           \* no message

Executors == Clients \union {Handler}
CommandIds == 1..MaxCommands

EventKinds == {"documentUpdated", "other"}
Answers == [kind : {"answer"}, n : CommandIds]
Events == [kind : EventKinds, n : 1..MaxEvents]
Skipped == [kind |-> "skipped", n |-> 0]
Messages == Answers \union Events \union {Skipped}

Answer(id) == [kind |-> "answer", n |-> id]
Event(n, kind) == [kind |-> kind, n |-> n]
Detached == [kind |-> "detached", n |-> 0]

ASSUME DispatcherAssumption ==
  /\ CmdCap \in Nat \ {0} /\ IncomingCap \in Nat \ {0}
  /\ MessageCap \in Nat \ {0} /\ SyncCap \in Nat \ {0}
  /\ MaxCommands \in Nat /\ MaxEvents \in Nat /\ MaxWire \in Nat
  /\ Handler \notin Clients
  /\ Nil \notin Messages

VARIABLES
  next,       \* Browser.next: the number of the last command
  state,      \* state[x]: what the Execute of x waits for, if any
  command,    \* command[x]: the number of x's command
  cmdQueue,
  unwritten,  \* commands the router could not write to the connection
  connected,  \* the connection is not lost
  pending,    \* commands Chrome has and did not answer
  wire,       \* messages from Chrome to the reader
  incoming,   \* incomingQueue
  delTab,     \* the session is in delTabQueue
  attached,   \* pages holds the session
  routing,    \* the message the router has for messageQueue, or Nil
  messages,   \* messageQueue
  holding,    \* the event the receiver has for syncEventQueue, or Nil
  syncQueue,  \* syncEventQueue
  emitted,    \* events Chrome emitted for the handler
  skipped,    \* events Chrome emitted that end at the receiver
  handled,    \* events the handler took
  gone,       \* Chrome says nothing more about the target
  cancelled   \* the context is cancelled

executors == <<next, state, command>>
chrome == <<pending, wire, emitted, skipped, gone>>
link == <<unwritten, connected>>
browserRun == <<cmdQueue, link, incoming, delTab, attached, routing>>
targetRun == <<messages, holding, syncQueue, handled>>
vars == <<executors, chrome, browserRun, targetRun, cancelled>>

Init ==
  /\ next = 0
  /\ state = [x \in Executors |-> "idle"] /\ command = [x \in Executors |-> 0]
  /\ unwritten = {} /\ connected = TRUE
  /\ cmdQueue = <<>> /\ pending = {} /\ wire = <<>> /\ incoming = <<>>
  /\ delTab = FALSE /\ attached = TRUE /\ routing = Nil
  /\ messages = <<>> /\ holding = Nil /\ syncQueue = <<>>
  /\ emitted = 0 /\ skipped = 0 /\ handled = 0 /\ gone = FALSE /\ cancelled = FALSE

(***************************************************************************)
(* Target.Execute.                                                         *)
(***************************************************************************)
\* A new number and a listener for its answer; and a form that does not count.
StartExecute_SameNumber(x) ==
  /\ state[x] = "idle"
  /\ next < MaxCommands
  /\ next' = next
  /\ command' = [command EXCEPT ![x] = next + 1]
  /\ state' = [state EXCEPT ![x] = "sending"]
StartExecute(x) ==
  /\ state[x] = "idle"
  /\ next < MaxCommands
  /\ next' = next + 1
  /\ command' = [command EXCEPT ![x] = next + 1]
  /\ state' = [state EXCEPT ![x] = "sending"]

CallExecute(x) ==
  /\ ~cancelled
  /\ StartExecute(x)
  /\ UNCHANGED <<chrome, browserRun, targetRun, cancelled>>

SendCommand(x) ==
  /\ state[x] = "sending" /\ ~cancelled
  /\ Len(cmdQueue) < CmdCap
  /\ cmdQueue' = Append(cmdQueue, command[x])
  /\ state' = [state EXCEPT ![x] = "waiting"]
  /\ UNCHANGED <<next, command, chrome, link, incoming, delTab, attached, routing, targetRun,
                 cancelled>>

\* Its answer has come, or its context (a client's may have a deadline) is done.
Returns(x) == state' = [state EXCEPT ![x] = "idle"]

GiveUp(x) ==
  /\ state[x] \in {"sending", "waiting"}
  /\ cancelled \/ x # Handler
  /\ Returns(x)
  /\ UNCHANGED <<next, command, chrome, browserRun, targetRun, cancelled>>

(***************************************************************************)
(* Chrome.                                                                 *)
(***************************************************************************)
\* Chrome still speaks of the target, and the wire has room.
Says == ~gone /\ Len(wire) < MaxWire

AnswerCommand(id) ==
  /\ Says
  /\ id \in pending
  /\ pending' = pending \ {id}
  /\ wire' = Append(wire, Answer(id))
  /\ UNCHANGED <<executors, emitted, skipped, gone, browserRun, targetRun, cancelled>>

EmitEvent ==
  /\ Says
  /\ emitted + skipped < MaxEvents
  /\ emitted' = emitted + 1
  /\ \E kind \in EventKinds : wire' = Append(wire, Event(emitted + 1, kind))
  /\ UNCHANGED <<executors, pending, skipped, gone, browserRun, targetRun, cancelled>>

\* An event that ends at the receiver.
EmitSkipped ==
  /\ Says
  /\ emitted + skipped < MaxEvents
  /\ skipped' = skipped + 1
  /\ wire' = Append(wire, Skipped)
  /\ UNCHANGED <<executors, pending, emitted, gone, browserRun, targetRun, cancelled>>

Detach ==
  /\ Says
  /\ gone' = TRUE
  /\ wire' = Append(wire, Detached)
  /\ UNCHANGED <<executors, pending, emitted, skipped, browserRun, targetRun, cancelled>>

(***************************************************************************)
(* Browser.run: the reader and the router.                                 *)
(***************************************************************************)
\* The reader passes a message of the session on, or asks to delete the page.  The
\* send to delTabQueue, of capacity one, cannot block: a session detaches once.
ReadMessage ==
  /\ ~cancelled
  /\ wire # <<>>
  /\ wire' = Tail(wire)
  /\ \/ /\ Head(wire) # Detached /\ Len(incoming) < IncomingCap
        /\ incoming' = Append(incoming, Head(wire))
        /\ UNCHANGED delTab
     \/ /\ Head(wire) = Detached /\ ~delTab
        /\ delTab' = TRUE
        /\ UNCHANGED incoming
  /\ UNCHANGED <<executors, pending, emitted, skipped, gone, cmdQueue, link, attached, routing,
                 targetRun, cancelled>>

\* The read of the reader fails, whatever Chrome says or said.  It closes
\* LostConnection, on which the router returns: what it might still do before is
\* what it might have done before the read failed.  The queues of events and of
\* pages to delete are read by nobody now; the one of commands fills up.
LoseConnection ==
  /\ ~cancelled
  /\ connected
  /\ connected' = FALSE /\ gone' = TRUE
  /\ pending' = {} /\ wire' = <<>> /\ incoming' = <<>> /\ delTab' = FALSE
  /\ UNCHANGED <<executors, emitted, skipped, cmdQueue, unwritten, attached, routing, targetRun,
                 cancelled>>

RouterFree == ~cancelled /\ connected /\ routing = Nil

\* A write that fails is logged and the router goes on, but nobody tells the
\* Execute.
WriteCommand ==
  /\ RouterFree
  /\ cmdQueue # <<>>
  /\ cmdQueue' = Tail(cmdQueue)
  /\ \/ pending' = pending \union {Head(cmdQueue)} /\ UNCHANGED unwritten
     \/ unwritten' = unwritten \union {Head(cmdQueue)} /\ UNCHANGED pending
  /\ UNCHANGED <<executors, wire, emitted, skipped, gone, connected, incoming, delTab, attached,
                 routing, targetRun, cancelled>>

DeletePage ==
  /\ RouterFree
  /\ delTab
  /\ delTab' = FALSE /\ attached' = FALSE
  /\ UNCHANGED <<executors, chrome, cmdQueue, link, incoming, routing, targetRun, cancelled>>

\* A message of a page that is gone is dropped; and a form in which the page was
\* never put to the pages.
RouteMessage_Unregistered ==
  /\ RouterFree
  /\ incoming # <<>>
  /\ incoming' = Tail(incoming) /\ routing' = Nil
  /\ UNCHANGED <<executors, chrome, cmdQueue, link, delTab, attached, targetRun, cancelled>>
RouteMessage ==
  /\ RouterFree
  /\ incoming # <<>>
  /\ incoming' = Tail(incoming)
  /\ routing' = IF attached THEN Head(incoming) ELSE Nil
  /\ UNCHANGED <<executors, chrome, cmdQueue, link, delTab, attached, targetRun, cancelled>>

\* The send to messageQueue blocks while it is full; and a form that drops then.
DeliverMessage_Drops ==
  /\ ~cancelled /\ routing # Nil
  /\ messages' = IF Len(messages) < MessageCap THEN Append(messages, routing) ELSE messages
  /\ routing' = Nil
  /\ UNCHANGED <<executors, chrome, cmdQueue, link, incoming, delTab, attached, holding,
                 syncQueue, handled, cancelled>>
DeliverMessage ==
  /\ ~cancelled /\ routing # Nil
  /\ Len(messages) < MessageCap
  /\ messages' = Append(messages, routing)
  /\ routing' = Nil
  /\ UNCHANGED <<executors, chrome, cmdQueue, link, incoming, delTab, attached, holding,
                 syncQueue, handled, cancelled>>

(***************************************************************************)
(* Target.run: the receiver and the handler.                               *)
(***************************************************************************)
\* The Executes whose listener matches the answer.
Addressee(m) == {x \in Executors : state[x] = "waiting" /\ command[x] = m.n}

ReceiverFree == ~cancelled /\ holding = Nil /\ messages # <<>>

\* The receiver calls the listeners with an answer.
ReceiveAnswer ==
  /\ ReceiverFree
  /\ Head(messages).kind = "answer"
  /\ messages' = Tail(messages)
  /\ state' = [x \in Executors |-> IF x \in Addressee(Head(messages)) THEN "idle" ELSE state[x]]
  /\ UNCHANGED <<next, command, chrome, browserRun, holding, syncQueue, handled, cancelled>>

\* The receiver calls the listeners with an event, to pass it on after that.
ReceiveEvent ==
  /\ ReceiverFree
  /\ Head(messages).kind \in EventKinds
  /\ messages' = Tail(messages)
  /\ holding' = Head(messages)
  /\ UNCHANGED <<executors, chrome, browserRun, syncQueue, handled, cancelled>>

\* An event that does not unmarshal is logged and left; one of another domain has
\* only its listeners called.
SkipEvent ==
  /\ ReceiverFree
  /\ Head(messages) = Skipped
  /\ messages' = Tail(messages)
  /\ UNCHANGED <<executors, chrome, browserRun, holding, syncQueue, handled, cancelled>>

\* The send to syncEventQueue blocks while it is full; and a form with a queue
\* that never is.
PassEvent_Unbounded ==
  /\ ~cancelled /\ holding # Nil
  /\ syncQueue' = Append(syncQueue, holding)
  /\ holding' = Nil
  /\ UNCHANGED <<executors, chrome, browserRun, messages, handled, cancelled>>
PassEvent ==
  /\ ~cancelled /\ holding # Nil
  /\ Len(syncQueue) < SyncCap
  /\ syncQueue' = Append(syncQueue, holding)
  /\ holding' = Nil
  /\ UNCHANGED <<executors, chrome, browserRun, messages, handled, cancelled>>

\* The handler takes an event; documentUpdated makes it execute DOM.getDocument
\* (within the bound on commands) before it takes the next.
HandleEvent ==
  /\ ~cancelled
  /\ state[Handler] = "idle"
  /\ syncQueue # <<>>
  /\ syncQueue' = Tail(syncQueue)
  /\ handled' = Head(syncQueue).n
  /\ IF Head(syncQueue).kind = "documentUpdated" /\ next < MaxCommands
       THEN StartExecute(Handler)
       ELSE UNCHANGED executors
  /\ UNCHANGED <<chrome, browserRun, messages, holding, cancelled>>

\* The goroutines of both runs return and the connection is closed: what they
\* had and what Chrome says from now on is read by nobody.
CancelContext ==
  /\ ~cancelled
  /\ cancelled' = TRUE /\ gone' = TRUE /\ attached' = FALSE /\ delTab' = FALSE
  /\ connected' = FALSE
  /\ cmdQueue' = <<>> /\ pending' = {} /\ wire' = <<>> /\ incoming' = <<>>
  /\ routing' = Nil /\ messages' = <<>> /\ holding' = Nil /\ syncQueue' = <<>>
  /\ UNCHANGED <<executors, unwritten, emitted, skipped, handled>>

-----------------------------------------------------------------------------
Receiver == ReceiveAnswer \/ ReceiveEvent \/ SkipEvent \/ PassEvent

Pipeline ==
  \/ ReadMessage \/ WriteCommand \/ DeletePage \/ RouteMessage
  \/ DeliverMessage \/ Receiver \/ HandleEvent

Next ==
  \/ \E x \in Executors : SendCommand(x) \/ GiveUp(x)
  \/ \E x \in Clients : CallExecute(x)
  \/ \E id \in CommandIds : AnswerCommand(id)
  \/ EmitEvent \/ EmitSkipped \/ Detach \/ LoseConnection \/ CancelContext
  \/ Pipeline

Spec == Init /\ [][Next]_vars

\* Goroutines run and the select of the router is fair between its ready cases;
\* Chrome answers a command it has; a cancelled Execute returns.  No Execute of
\* a client is assumed to have a deadline.  Nothing is asked of SendCommand and
\* DeletePage: an Execute that waits returns without them.
Fairness ==
  /\ \A x \in Executors : WF_vars(cancelled /\ GiveUp(x))
  /\ \A id \in CommandIds : WF_vars(AnswerCommand(id))
  /\ SF_vars(WriteCommand) /\ SF_vars(RouteMessage)
  /\ WF_vars(ReadMessage) /\ WF_vars(DeliverMessage)
  /\ WF_vars(Receiver) /\ WF_vars(HandleEvent)

FairSpec == Spec /\ Fairness

-----------------------------------------------------------------------------
QueuesOK ==
  /\ cmdQueue \in Seq(CommandIds) /\ Len(cmdQueue) <= CmdCap
  /\ wire \in Seq(Messages \union {Detached})
  /\ incoming \in Seq(Messages) /\ Len(incoming) <= IncomingCap
  /\ messages \in Seq(Messages) /\ Len(messages) <= MessageCap
  /\ syncQueue \in Seq(Events) /\ Len(syncQueue) <= SyncCap
  /\ routing \in Messages \union {Nil} /\ holding \in Events \union {Nil}

TypeOK ==
  /\ QueuesOK
  /\ next \in 0..MaxCommands /\ command \in [Executors -> 0..MaxCommands]
  /\ state \in [Executors -> {"idle", "sending", "waiting"}]
  /\ \A x \in Executors : state[x] # "idle" => command[x] \in CommandIds
  /\ pending \subseteq CommandIds /\ unwritten \subseteq CommandIds
  /\ connected \in BOOLEAN /\ skipped \in 0..MaxEvents
  /\ emitted \in 0..MaxEvents /\ handled \in 0..MaxEvents
  /\ delTab \in BOOLEAN /\ attached \in BOOLEAN /\ gone \in BOOLEAN /\ cancelled \in BOOLEAN

Slot(m) == IF m = Nil THEN <<>> ELSE <<m>>

\* What Chrome said and the target did not get yet, oldest first.
InTransit == syncQueue \o Slot(holding) \o messages \o Slot(routing) \o incoming \o wire

\* The target may still be told something.
Reachable == attached /\ connected

\* While the page is attached and the connection is not lost, the five goroutines and
\* four queues between Chrome and the handler hold exactly the events for the handler
\* that are not handled, in order, whatever is skipped between them.
NothingLost ==
  LET isEvent == {i \in 1..Len(InTransit) : InTransit[i].kind \in EventKinds}
  IN  Reachable =>
        /\ {InTransit[i].n : i \in isEvent} = (handled + 1)..emitted
        /\ \A i, j \in isEvent : i < j => InTransit[i].n < InTransit[j].n

\* The commands with a number that are queued or pending at Chrome, and the answers
\* to it that are on their way.
Outstanding(id) ==
  LET queued   == {i \in 1..Len(cmdQueue) : cmdQueue[i] = id}
      answered == {i \in 1..Len(InTransit) : InTransit[i] = Answer(id)}
  IN  Cardinality(queued) + Cardinality(pending \intersect {id}) + Cardinality(answered)

\* An Execute that waits has exactly one command or answer outstanding, so that
\* it neither waits in vain nor leaves an answer to a later Execute (unless the
\* target was detached or the connection lost); only if its command could not be
\* written it has none, and waits until its context is done.
AnswerOutstanding ==
  \A x \in Executors :
    state[x] = "waiting" /\ Reachable
      => Outstanding(command[x]) = IF command[x] \in unwritten THEN 0 ELSE 1

\* The deadlock that Target.run warns of: syncEventQueue is full, the receiver
\* waits to send to it, and the handler waits for an answer only the receiver
\* can give it.
Wedged ==
  /\ holding # Nil /\ Len(syncQueue) = SyncCap
  /\ state[Handler] \in {"sending", "waiting"}

\* Every Execute returns, unless the target was detached, the connection lost or
\* the command not written (then only its own deadline ends it), or the target's
\* goroutines are wedged.
ExecuteReturns ==
  \A x \in Executors :
    state[x] = "waiting" ~> \/ state[x] # "waiting" \/ Wedged
                            \/ gone /\ ~cancelled
                            \/ command[x] \in unwritten /\ ~cancelled

\* The abstract specification of the events.
Pipe == INSTANCE EventPipe WITH emitted <- emitted, handled <- handled

\* The pipeline is one queue of events, whatever the goroutines do.
PipeSpec == Pipe!Spec
=============================================================================
