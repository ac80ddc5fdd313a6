---------------------------- MODULE Interception ----------------------------
(***************************************************************************)
(* browser_intercept_request (mcp-intercept.go): an agent starts and stops *)
(* the capture of responses.  While CDP's Fetch domain is enabled, Chrome  *)
(* pauses every request at its response and tells the listener, which      *)
(* starts a goroutine that records the response and lets the request go    *)
(* on.  The flag InterceptActive is set by the tool under InterceptMutex,  *)
(* the Fetch domain in a later chromedp call.                              *)
(*                                                                         *)
(* A restart of the browser replaces the context, its Fetch domain and its *)
(* requests; the flag and the captured requests are not reset.             *)
(***************************************************************************)
EXTENDS Naturals, Sequences

CONSTANTS
  Requests,     \* bound: the XHR and fetch calls the page makes
  Agents,       \* goroutines that serve the tool
  BufferCap,    \* how many intercepted requests are kept (100 in the code)
  MaxCalls,     \* bound: calls of start and stop
  MaxRestarts   \* bound: restarts of the browser

ASSUME InterceptionAssumption ==
  /\ BufferCap \in Nat \ {0}
  /\ MaxCalls \in Nat /\ MaxRestarts \in Nat
  /\ Requests \intersect Agents = {}

VARIABLES
  active,       \* InterceptActive
  captured,     \* InterceptedReqs, oldest first
  enabled,      \* Chrome's Fetch domain is enabled in the current context
  request,      \* request[r]: what Chrome does with r
  events,       \* EventRequestPaused on its way to the listener
  pc,           \* pc[g]: an agent in the tool, or the goroutine of a request
  calls, restarts

vars == <<active, captured, enabled, request, events, pc, calls, restarts>>

Goto(g, l) == pc' = [pc EXCEPT ![g] = l]

Init ==
  /\ active = FALSE /\ captured = <<>> /\ enabled = FALSE
  /\ request = [r \in Requests |-> "unsent"]
  /\ events = <<>>
  /\ pc = [g \in Requests \union Agents |-> "idle"]
  /\ calls = 0 /\ restarts = 0

(***************************************************************************)
(* The tool.                                                               *)
(***************************************************************************)
\* start: nothing to do when active; else an empty buffer and Fetch.enable.
StartInterception(a) ==
  /\ pc[a] = "idle" /\ calls < MaxCalls
  /\ ~active
  /\ calls' = calls + 1
  /\ active' = TRUE /\ captured' = <<>>
  /\ Goto(a, "enable")
  /\ UNCHANGED <<enabled, request, events, restarts>>

EnableFetch(a) ==
  /\ pc[a] = "enable"
  /\ enabled' = TRUE
  /\ Goto(a, "idle")
  /\ UNCHANGED <<active, captured, request, events, calls, restarts>>

StopInterception(a) ==
  /\ pc[a] = "idle" /\ calls < MaxCalls
  /\ calls' = calls + 1
  /\ active' = FALSE
  /\ Goto(a, "disable")
  /\ UNCHANGED <<captured, enabled, request, events, restarts>>

\* Chrome lets every paused request go on; a form in which stop forgets the call.
DisableFetch_Forgotten(a) ==
  /\ pc[a] = "disable"
  /\ Goto(a, "idle")
  /\ UNCHANGED <<active, captured, enabled, request, events, calls, restarts>>
DisableFetch(a) ==
  /\ pc[a] = "disable"
  /\ enabled' = FALSE
  /\ request' = [r \in Requests |-> IF request[r] = "paused" THEN "done" ELSE request[r]]
  /\ Goto(a, "idle")
  /\ UNCHANGED <<active, captured, events, calls, restarts>>

(***************************************************************************)
(* Chrome.                                                                 *)
(***************************************************************************)
SendRequest(r) ==
  /\ request[r] = "unsent"
  /\ request' = [request EXCEPT ![r] = "sent"]
  /\ UNCHANGED <<active, captured, enabled, events, pc, calls, restarts>>

\* The response arrives (or the request fails, and has no status): the request
\* is paused or done.
Respond(r) ==
  /\ request[r] = "sent"
  /\ IF enabled
       THEN /\ request' = [request EXCEPT ![r] = "paused"]
            /\ \E ok \in BOOLEAN : events' = Append(events, [id |-> r, hasStatus |-> ok])
       ELSE request' = [request EXCEPT ![r] = "done"] /\ UNCHANGED events
  /\ UNCHANGED <<active, captured, enabled, pc, calls, restarts>>

\* The browser is closed and opened again.  A call of Fetch.enable or Fetch.disable
\* that is under way fails with its context and ends its tool, the flag left as it
\* is; one that has not begun goes to the new context.
InCall == {a \in Agents : pc[a] \in {"enable", "disable"}}

Restart ==
  /\ restarts < MaxRestarts
  /\ restarts' = restarts + 1
  /\ enabled' = FALSE /\ events' = <<>>
  /\ request' = [r \in Requests |-> IF request[r] = "unsent" THEN "unsent" ELSE "done"]
  /\ \E failing \in SUBSET InCall :
       pc' = [g \in DOMAIN pc |-> IF g \in failing THEN "idle" ELSE pc[g]]
  /\ UNCHANGED <<active, captured, calls>>

(***************************************************************************)
(* The listener and the goroutine of one paused request.                   *)
(***************************************************************************)
\* The listener ignores the event of an inactive interception.
Listen ==
  /\ events # <<>>
  /\ events' = Tail(events)
  /\ IF active
       THEN Goto(Head(events).id, IF Head(events).hasStatus THEN "body" ELSE "continue")
       ELSE UNCHANGED pc
  /\ UNCHANGED <<active, captured, enabled, request, calls, restarts>>

\* The body is read from Chrome, or not: an error is ignored.
GetResponseBody(r) ==
  /\ pc[r] = "body"
  /\ Goto(r, "record")
  /\ UNCHANGED <<active, captured, enabled, request, events, calls, restarts>>

\* The oldest of BufferCap captured requests makes room; and an off-by-one form.
Record_OneTooMany(r) ==
  IF Len(captured) > BufferCap THEN Append(Tail(captured), r) ELSE Append(captured, r)
Record(r) ==
  IF Len(captured) >= BufferCap THEN Append(Tail(captured), r) ELSE Append(captured, r)

RecordRequest(r) ==
  /\ pc[r] = "record"
  /\ captured' = Record(r)
  /\ Goto(r, "continue")
  /\ UNCHANGED <<active, enabled, request, events, calls, restarts>>

\* Chrome lets the request go on, if it still waits; an error is ignored.
ContinueRequest(r) ==
  /\ pc[r] = "continue"
  /\ request' = [request EXCEPT ![r] = IF @ = "paused" THEN "done" ELSE @]
  /\ Goto(r, "ended")
  /\ UNCHANGED <<active, captured, enabled, events, calls, restarts>>

-----------------------------------------------------------------------------
Tool(a) == StartInterception(a) \/ StopInterception(a)
Finish(a) == EnableFetch(a) \/ DisableFetch(a)
Handle(r) == GetResponseBody(r) \/ RecordRequest(r) \/ ContinueRequest(r)

Next ==
  \/ \E a \in Agents : Tool(a) \/ Finish(a)
  \/ \E r \in Requests : SendRequest(r) \/ Respond(r) \/ Handle(r)
  \/ Restart \/ Listen

Spec == Init /\ [][Next]_vars

\* Goroutines run, chromedp calls end, the listener is called for every event.
Fairness ==
  /\ \A a \in Agents : WF_vars(Finish(a))
  /\ \A r \in Requests : WF_vars(Handle(r))
  /\ WF_vars(Listen)

FairSpec == Spec /\ Fairness

-----------------------------------------------------------------------------
Paused(r) == request[r] = "paused"

TypeOK ==
  /\ active \in BOOLEAN /\ enabled \in BOOLEAN
  /\ captured \in Seq(Requests) /\ Len(captured) <= BufferCap
  /\ request \in [Requests -> {"unsent", "sent", "paused", "done"}]
  /\ events \in Seq([id : Requests, hasStatus : BOOLEAN])
  /\ pc \in [Requests \union Agents ->
               {"idle", "enable", "disable", "body", "record", "continue", "ended"}]
  /\ calls \in 0..MaxCalls /\ restarts \in 0..MaxRestarts

\* A request the capture paused never hangs the page: its event is on its way to
\* an active interception, a goroutine is about to let it go on, or a stop is
\* about to disable Fetch.
PausedHasReleaser ==
  \A r \in Requests : Paused(r) =>
    \/ active /\ \E i \in 1..Len(events) : events[i].id = r
    \/ pc[r] \in {"body", "record", "continue"}
    \/ \E a \in Agents : pc[a] = "disable"

\* A request paused for the capture goes on.
PausedEnds == \A r \in Requests : Paused(r) ~> ~Paused(r)
=============================================================================
