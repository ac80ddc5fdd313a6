------------------------------ MODULE Navigation ------------------------------
(***************************************************************************)
(* Navigations that wait for their page (chromedp/chromedp.go              *)
(* responseAction, chromedp/nav.go Navigate and Reload, as devbrowser.go   *)
(* calls them) and the logs of the page they leave and the one they reach  *)
(* (console_logs.go, mcp-errors.go, mcp-network.go).  All of them are      *)
(* listeners of the Target: one goroutine hands them Chrome's messages in  *)
(* order, while the callers run and send commands.                         *)
(*                                                                         *)
(* Navigation n of Chrome loads document n; document 0 was there before.   *)
(* Chrome tells, in this order: the request of the document; its response  *)
(* or its failure; the execution contexts cleared, the frame navigated, the*)
(* lifecycle event "init"; what the page logs; its load event.             *)
(***************************************************************************)
EXTENDS Naturals, Sequences

CONSTANTS
  Callers,   \* the goroutines that navigate
  Overlap,   \* may a caller begin while another navigation is under way, or the page navigate
  Kinds,     \* what a document requests: "fetch", and "frame" for the document of a frame
  MaxNavs,   \* bound: navigations
  MaxLag     \* bound: Chrome sends when at most so many messages wait

ASSUME NavigationAssumption ==
  /\ Overlap \in BOOLEAN /\ Kinds \subseteq {"fetch", "frame"}
  /\ MaxNavs \in Nat /\ MaxLag \in Nat

VARIABLES
  \* Chrome
  doc,       \* the document shown
  failed,    \* the documents that are error pages
  pending,   \* the navigation that has not committed yet, 0 for none
  navs,      \* navigations begun
  fetched,   \* those whose document is requested (not about:blank)
  loaded,    \* the load event of the document was sent
  said,      \* the document has logged and thrown its error
  fetching,  \* the requests the document makes: each not yet made, sent, ended
  lost,      \* history: those that had ended when a frame in it asked for its document
  answers,   \* the answers Chrome owes: navigations whose command waits
  \* the Target
  stream,    \* messages on their way to the listeners
  frameSeen, \* a frameNavigated was handed to the listeners: t.cur may be set
  caller,    \* the callers
  \* DevBrowser
  consoleLogs,  \* ConsoleLogs and JsErrors: the documents whose message is in them
  networkLogs   \* NetworkLogs: the requests in it

chrome == <<doc, failed, pending, navs, fetched, loaded, said, fetching, lost, answers>>
logs == <<consoleLogs, networkLogs>>
vars == <<chrome, stream, frameSeen, caller, logs>>

Navs == 1..MaxNavs
Docs == 0..MaxNavs

Idle == [pc |-> "idle", command |-> "none", nav |-> 0, frame |-> FALSE, loader |-> 0,
         req |-> 0, init |-> FALSE, early |-> <<>>, err |-> FALSE, finished |-> FALSE,
         result |-> "none"]

Waiting(c) == caller[c].pc \in {"listening", "sent", "waiting"}

Room == Len(stream) <= MaxLag

Returned(r, result) == [Idle EXCEPT !.pc = "returned", !.nav = r.nav, !.result = result]

\* No navigation is under way: each has committed or ended, and the listeners heard so.
Settled ==
  /\ pending = 0 /\ \A c \in Callers : ~Waiting(c)
  /\ \A i \in DOMAIN stream : stream[i].type \notin {"init", "within"}

\* The request of document n, and those document n makes.
DocRequest(n) == [doc |-> n, kind |-> "document"]
SubRequest(n, kind) == [doc |-> n, kind |-> kind]

\* The requests of the document shown that have ended.
EndedRequests ==
  {DocRequest(n) : n \in {doc} \cap fetched}
    \cup {SubRequest(doc, kind) : kind \in {k \in Kinds : fetching[k] = "ended"}}

-----------------------------------------------------------------------------
(***************************************************************************)
(* Chrome.                                                                 *)
(***************************************************************************)
\* A navigation begins and ends the one that was pending.  A document that is
\* not fetched (about:blank, data:) has no request.
Failure(n, canceled) ==
  IF n \in fetched THEN <<[type |-> "failed", id |-> DocRequest(n), canceled |-> canceled]>> ELSE <<>>

Begin(requested) ==
  LET n == navs + 1 IN
  /\ Room /\ navs < MaxNavs
  /\ navs' = n /\ pending' = n
  /\ failed' = IF pending = 0 THEN failed ELSE failed \cup {pending}
  /\ fetched' = IF requested THEN fetched \cup {n} ELSE fetched
  /\ stream' = stream \o Failure(pending, TRUE)
                      \o (IF requested THEN <<[type |-> "request", id |-> DocRequest(n)]>> ELSE <<>>)

\* The page navigates by itself: a link, a redirect of a script.
PageNavigates ==
  /\ Overlap \/ Settled
  /\ Begin(TRUE)
  /\ UNCHANGED <<doc, loaded, said, fetching, lost, answers, frameSeen, caller, logs>>

\* The script of a page, or of a frame in it, changes the URL.
PageRewritesURL ==
  /\ Room /\ (Overlap \/ Settled)
  /\ stream' = Append(stream, [type |-> "within"])
  /\ UNCHANGED <<chrome, frameSeen, caller, logs>>

Shows(n) == <<[type |-> "cleared"], [type |-> "navigated"], [type |-> "init", doc |-> n]>>

Commit ==
  /\ Room
  /\ pending # 0
  /\ doc' = pending /\ pending' = 0
  /\ loaded' = FALSE /\ said' = FALSE /\ fetching' = [kind \in Kinds |-> "none"] /\ lost' = {}
  /\ \/ /\ stream' = stream
             \o (IF pending \in fetched
                 THEN <<[type |-> "response", id |-> DocRequest(pending)]>> ELSE <<>>)
             \o Shows(pending)
        /\ UNCHANGED failed
     \/ /\ pending \in fetched
        /\ stream' = stream \o Failure(pending, FALSE) \o Shows(pending)
        /\ failed' = failed \cup {pending}
  /\ UNCHANGED <<navs, fetched, answers, frameSeen, caller, logs>>

\* The navigation ends without a document: it is a download, or was stopped.
Abort ==
  /\ Room
  /\ pending \in fetched
  /\ stream' = stream \o Failure(pending, TRUE)
  /\ pending' = 0 /\ failed' = failed \cup {pending}
  /\ UNCHANGED <<doc, navs, fetched, loaded, said, fetching, lost, answers, frameSeen, caller, logs>>

\* The document logs to the console and throws an error.
Say ==
  /\ Room
  /\ ~said
  /\ said' = TRUE
  /\ stream' = Append(stream, [type |-> "console", doc |-> doc])
  /\ UNCHANGED <<doc, failed, pending, navs, fetched, loaded, fetching, lost, answers, frameSeen, caller, logs>>

\* A script asks for something, or a frame for its document, each once.
SendFetch(kind) ==
  /\ Room
  /\ fetching[kind] = "none"
  /\ fetching' = [fetching EXCEPT ![kind] = "sent"]
  /\ stream' = Append(stream, [type |-> "request", id |-> SubRequest(doc, kind)])
  /\ lost' = IF kind = "frame" THEN EndedRequests ELSE lost
  /\ UNCHANGED <<doc, failed, pending, navs, fetched, loaded, said, answers, frameSeen, caller, logs>>

EndFetch(kind) ==
  /\ Room
  /\ fetching[kind] = "sent"
  /\ fetching' = [fetching EXCEPT ![kind] = "ended"]
  /\ \/ stream' = Append(stream, [type |-> "response", id |-> SubRequest(doc, kind)])
     \/ stream' = Append(stream, [type |-> "failed", id |-> SubRequest(doc, kind), canceled |-> FALSE])
  /\ UNCHANGED <<doc, failed, pending, navs, fetched, loaded, said, lost, answers, frameSeen, caller, logs>>

Load ==
  /\ Room
  /\ ~loaded /\ \A kind \in Kinds : fetching[kind] # "sent"
  /\ loaded' = TRUE
  /\ stream' = Append(stream, [type |-> "load", doc |-> doc])
  /\ UNCHANGED <<doc, failed, pending, navs, fetched, said, fetching, lost, answers, frameSeen, caller, logs>>

\* The answer to a command: Page.reload's at once, Page.navigate's when the
\* navigation is decided, with an errorText when it failed.
Answer(c) ==
  LET n == caller[c].nav IN
  /\ Room /\ n \in answers
  /\ caller[c].command = "navigate" => pending # n
  /\ answers' = answers \ {n}
  /\ stream' = Append(stream, [type |-> "answer", to |-> c,
                               error |-> caller[c].command = "navigate" /\ (n \in failed \/ doc < n)])
  /\ UNCHANGED <<doc, failed, pending, navs, fetched, loaded, said, fetching, lost, frameSeen, caller, logs>>

-----------------------------------------------------------------------------
(***************************************************************************)
(* The callers.                                                            *)
(***************************************************************************)
\* responseAction reads the frame of the page, t.cur, known once a frameNavigated
\* was handed to the Target or when it was attached, and registers its listener.
Listen(c, command) ==
  /\ caller[c].pc \in {"idle", "returned"}
  /\ Overlap \/ Settled
  /\ command = "reload" => frameSeen
  /\ caller' = [caller EXCEPT ![c] =
       [Idle EXCEPT !.pc = "listening", !.command = command, !.frame = frameSeen]]
  /\ UNCHANGED <<chrome, stream, frameSeen, logs>>

\* Page.navigate or Page.reload, to another document: not to a fragment of the same.
Send(c, requested) ==
  /\ caller[c].pc = "listening"
  /\ Begin(requested)
  /\ answers' = answers \cup {navs + 1}
  /\ caller' = [caller EXCEPT ![c].pc = "sent", ![c].nav = navs + 1]
  /\ UNCHANGED <<doc, loaded, said, fetching, lost, frameSeen, logs>>

\* The select after the actions: the listener has finished, with or without a
\* load error.
Finish(c) ==
  /\ caller[c].pc = "waiting" /\ caller[c].finished
  /\ caller' = [caller EXCEPT ![c] = Returned(@, IF @.err THEN "error" ELSE "nil")]
  /\ UNCHANGED <<chrome, stream, frameSeen, logs>>

\* The context ends.
ContextDone(c) ==
  /\ caller[c].pc \in {"sent", "waiting"}
  /\ answers' = answers \ {caller[c].nav}
  /\ caller' = [caller EXCEPT ![c] = Returned(@, "error")]
  /\ UNCHANGED <<doc, failed, pending, navs, fetched, loaded, said, fetching, lost, stream, frameSeen, logs>>

-----------------------------------------------------------------------------
(***************************************************************************)
(* The listeners.                                                          *)
(***************************************************************************)
\* handleEvent; … and a form that takes the load event of the old page for its own.
HandleEvent_AnyLoad(r, m) ==
  CASE m.type = "request" /\ m.id = DocRequest(r.loader) -> [r EXCEPT !.req = r.loader]
    [] m.type = "failed" /\ r.req # 0 /\ m.id = DocRequest(r.req) ->
         [r EXCEPT !.err = TRUE, !.finished = @ \/ m.canceled]
    [] m.type = "load" -> [r EXCEPT !.finished = TRUE]
    [] OTHER -> r

HandleEvent(r, m) ==
  CASE m.type = "request" /\ m.id = DocRequest(r.loader) -> [r EXCEPT !.req = r.loader]
    [] m.type = "failed" /\ r.req # 0 /\ m.id = DocRequest(r.req) ->
         [r EXCEPT !.err = TRUE, !.finished = @ \/ m.canceled]
    [] m.type = "init" /\ r.frame -> [r EXCEPT !.init = TRUE]
    [] m.type = "load" /\ r.init -> [r EXCEPT !.finished = TRUE]
    [] OTHER -> r

\* The loader a message gives away, 0 for none.
LoaderOf(r, m) ==
  CASE m.type = "request" /\ r.frame /\ m.id.kind = "document" -> m.id.doc
    [] m.type = "init" /\ r.frame -> m.doc
    [] OTHER -> 0

\* The events handled one after the other.
Handled(r, events) ==
  LET upTo[i \in 0..Len(events)] == IF i = 0 THEN r ELSE HandleEvent(upTo[i - 1], events[i])
  IN  upTo[Len(events)]

\* Once the loader is known the early events are handled again; … and a form
\* that keeps them.
Replay_Keeps(r, events) == Handled(r, events)

Replay(r, events) == [Handled(r, events) EXCEPT !.early = <<>>]

\* The listener keeps the frame up to date while it looks for the loader; … and
\* a form that stays with the frame it began with.
FrameOf_First(r, m) == r.frame

FrameOf(r, m) == r.frame \/ m.type = "navigated"

\* The listener of responseAction.  One whose context has ended hears nothing.
Heard(r, m) ==
  LET known == [r EXCEPT !.frame = FrameOf(r, m), !.early = Append(@, m)]
      found == LoaderOf(known, m)
  IN
  IF r.finished THEN r
  ELSE IF r.loader # 0 THEN HandleEvent(r, m)
  ELSE IF m.type = "within" THEN [known EXCEPT !.finished = TRUE]
  ELSE IF found # 0 THEN Replay([known EXCEPT !.loader = found], known.early)
  ELSE known

\* The error of the command ends its caller, its answer lets it wait.
Answered(r, m) ==
  IF m.error THEN Returned(r, "error") ELSE [r EXCEPT !.pc = "waiting"]

\* initializeConsoleCapture, initializeErrorCapture.
ConsoleHeard(L, m) ==
  CASE m.type = "console" -> L \cup {m.doc}
    [] m.type = "cleared" -> {}
    [] OTHER -> L

\* initializeNetworkCapture: the request of any document starts the log anew, that of
\* a frame too; … and a form that empties the log with the others.
NetworkHeard_ClearsAtCommit(L, m) ==
  CASE m.type \in {"response", "failed"} -> L \cup {m.id}
    [] m.type = "cleared" -> {}
    [] OTHER -> L

NetworkHeard(L, m) ==
  CASE m.type \in {"response", "failed"} -> L \cup {m.id}
    [] m.type = "request" /\ m.id.kind \in {"document", "frame"} -> {}
    [] OTHER -> L

\* runListeners hands the next message to all of them.
Dispatch ==
  LET m == Head(stream) IN
  /\ stream # <<>>
  /\ stream' = Tail(stream)
  /\ frameSeen' = (frameSeen \/ m.type = "navigated")
  /\ caller' = [c \in Callers |->
       IF m.type = "answer" THEN IF m.to = c /\ caller[c].pc = "sent" THEN Answered(caller[c], m) ELSE caller[c]
       ELSE IF Waiting(c) THEN Heard(caller[c], m) ELSE caller[c]]
  /\ consoleLogs' = ConsoleHeard(consoleLogs, m)
  /\ networkLogs' = NetworkHeard(networkLogs, m)
  /\ UNCHANGED chrome

-----------------------------------------------------------------------------
Init ==
  /\ doc = 0 /\ failed = {} /\ pending = 0 /\ navs = 0 /\ fetched = {}
  /\ loaded \in BOOLEAN /\ said = FALSE /\ answers = {}
  /\ fetching = [kind \in Kinds |-> "none"] /\ lost = {}
  /\ stream = <<>> /\ frameSeen \in BOOLEAN
  /\ caller = [c \in Callers |-> Idle]
  /\ consoleLogs = {} /\ networkLogs = {}

Chrome ==
  \/ Commit \/ Abort \/ Load
  \/ \E kind \in Kinds : EndFetch(kind)
  \/ \E c \in Callers : Answer(c)

Page == PageNavigates \/ PageRewritesURL \/ Say \/ \E kind \in Kinds : SendFetch(kind)

Caller(c) == (\E requested \in BOOLEAN : Send(c, requested)) \/ Finish(c)

Next ==
  \/ Chrome \/ Page \/ Dispatch
  \/ \E c \in Callers :
       \/ Caller(c) \/ ContextDone(c)
       \/ \E command \in {"navigate", "reload"} : Listen(c, command)

Spec == Init /\ [][Next]_vars

\* The goroutines run, and Chrome decides a navigation, ends the requests of a
\* page and loads it.
FairSpec ==
  /\ Spec /\ WF_vars(Dispatch)
  /\ WF_vars(Commit \/ Abort) /\ WF_vars(Load)
  /\ \A kind \in Kinds : WF_vars(EndFetch(kind))
  /\ \A c \in Callers : WF_vars(Answer(c)) /\ WF_vars(Caller(c))

-----------------------------------------------------------------------------
(***************************************************************************)
(* Properties.                                                             *)
(***************************************************************************)
\* What Chrome says, and what a listener keeps.
Requests == [doc : Docs, kind : {"document"} \cup Kinds]

Messages ==
  [type : {"cleared", "navigated", "within"}]
    \cup [type : {"request", "response"}, id : Requests]
    \cup [type : {"failed"}, id : Requests, canceled : BOOLEAN]
    \cup [type : {"init", "console", "load"}, doc : Docs]
    \cup [type : {"answer"}, to : Callers, error : BOOLEAN]

CallerStates ==
  [pc : {"idle", "listening", "sent", "waiting", "returned"},
   command : {"none", "navigate", "reload"}, nav : Docs, frame : BOOLEAN, loader : Docs,
   req : Docs, init : BOOLEAN, early : Seq(Messages), err : BOOLEAN, finished : BOOLEAN,
   result : {"none", "nil", "error"}]

\* The values the variables take; events are kept only while the loader is not known.
TypeOK ==
  /\ doc \in Docs /\ failed \subseteq Navs /\ pending \in Docs /\ navs \in Docs
  /\ loaded \in BOOLEAN /\ said \in BOOLEAN
  /\ fetching \in [Kinds -> {"none", "sent", "ended"}] /\ lost \subseteq Requests
  /\ answers \subseteq Navs /\ fetched \subseteq Navs /\ frameSeen \in BOOLEAN
  /\ stream \in Seq(Messages) /\ caller \in [Callers -> CallerStates]
  /\ \A c \in Callers : caller[c].loader # 0 => caller[c].early = <<>>
  /\ consoleLogs \subseteq Docs /\ networkLogs \subseteq Requests

\* A navigation that returns nil has waited for its page: its document was
\* loaded, and is not an error page (nav.go, "waiting for the page to load").
NavigateWaits ==
  \A c \in Callers : caller[c].result = "nil" =>
    /\ caller[c].nav \notin failed
    /\ doc > caller[c].nav \/ (doc = caller[c].nav /\ loaded)

\* Once everything Chrome sent is handled, the console and error logs are those
\* of the document shown, nothing of the page before and nothing missing; and the
\* network log has every request of that document that has ended (its own and those
\* it made), but for those that ended before a frame in it asked for its document,
\* and unless a later navigation has begun.  What else the network log holds is not
\* said: a request of the page before may end late (console_logs.go, mcp-errors.go,
\* mcp-network.go).
LogsOfPage ==
  stream = <<>> =>
    /\ consoleLogs = IF said THEN {doc} ELSE {}
    /\ doc = navs => EndedRequests \ lost \subseteq networkLogs

\* A navigation returns, whatever its page does: commits, fails, is aborted.
NavigateReturns == \A c \in Callers : caller[c].pc = "sent" ~> caller[c].pc = "returned"

=============================================================================
