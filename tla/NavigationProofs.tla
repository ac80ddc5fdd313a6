--------------------------- MODULE NavigationProofs ---------------------------
(***************************************************************************)
(* Theorems about Navigation, for any number of callers and navigations.   *)
(*                                                                         *)
(* The types (TypeCorrect) and the logs (LogsAreOfPage) hold whatever the  *)
(* callers and the page do.  What a navigation that returns nil has waited *)
(* for (NavigationWaits) holds when the callers navigate in turn: with     *)
(* another navigation under way it does not, and TLC finds the trace.      *)
(*                                                                         *)
(* Each is the end of what is so of the messages on their way: LogsInv     *)
(* says what the logs will be once they are handled, TurnsInv what a       *)
(* caller that waits has heard of its navigation and what is still before  *)
(* it, so that Chrome's messages and the listener's answers to them never  *)
(* miss each other.  Lemmas that end in Grows or Grow are of messages that *)
(* Chrome puts behind the others, those that end in Tail of the message    *)
(* that is handed to the listeners.                                        *)
(***************************************************************************)
EXTENDS Navigation, SequenceTheorems, WellFoundedInduction, TLAPS

-----------------------------------------------------------------------------
(***************************************************************************)
(* Messages by what they are.                                              *)
(***************************************************************************)
IsRequest(m, n) == m.type = "request" /\ m.id = DocRequest(n)
IsFailure(m, n) == m.type = "failed" /\ m.id = DocRequest(n)
IsCancel(m, n) == IsFailure(m, n) /\ m.canceled
IsInit(m, n) == m.type = "init" /\ m.doc = n

\* No message of the type in q.
None(q, type) == \A i \in 1..Len(q) : q[i].type # type

\* The request of n is in q.
Asks(q, n) == \E i \in 1..Len(q) : IsRequest(q[i], n)

\* Message j of q comes before every "init".
Early(q, j) == \A l \in 1..j : q[l].type # "init"

(***************************************************************************)
(* Chrome's page, and how it numbers documents and navigations.            *)
(***************************************************************************)
Pages == [doc : Docs, pending : Docs, navs : Docs, failed : SUBSET Navs,
          fetched : SUBSET Navs, loaded : BOOLEAN]

Now == [doc |-> doc, pending |-> pending, navs |-> navs, failed |-> failed,
        fetched |-> fetched, loaded |-> loaded]

\* The numbers of page s.
Numbered(s) == s.doc <= s.navs /\ s.pending \in {0, s.navs} /\ (s.pending # 0 => s.doc < s.pending)

Counted ==
  /\ doc <= navs /\ pending \in {0, navs} /\ (pending # 0 => doc < pending)
  /\ failed \subseteq 1..navs /\ fetched \subseteq 1..navs
  /\ pending \notin failed

(***************************************************************************)
(* The logs, once the messages on their way are handled.                   *)
(***************************************************************************)
\* x is in ConsoleLogs, or its message is in q, and nothing clears the log after.
Logged(x, L, q) ==
  \/ x \in L /\ None(q, "cleared")
  \/ \E i \in 1..Len(q) :
       /\ q[i].type = "console" /\ q[i].doc = x
       /\ \A j \in i..Len(q) : q[j].type # "cleared"

\* The same of NetworkLogs, which the request of a document starts anew, of the page
\* or of a frame in it.
Restarts(m) == m.type = "request" /\ m.id.kind \in {"document", "frame"}

Captured(x, L, q) ==
  \/ x \in L /\ \A i \in 1..Len(q) : ~Restarts(q[i])
  \/ \E i \in 1..Len(q) :
       /\ q[i].type \in {"response", "failed"} /\ q[i].id = x
       /\ \A j \in i..Len(q) : ~Restarts(q[j])

ConsoleAhead == \A x \in Docs : Logged(x, consoleLogs, stream) <=> x = doc /\ said

NetworkAhead ==
  doc = navs => \A id \in EndedRequests \ lost : Captured(id, networkLogs, stream)

LogsInv == Counted /\ ConsoleAhead /\ NetworkAhead

(***************************************************************************)
(* What is on its way to page s: a request is of the navigation under way, *)
(* or its end follows; load events are of documents that were shown, in    *)
(* order.                                                                  *)
(***************************************************************************)
Ends(m, n) == IsCancel(m, n) \/ IsInit(m, n)

RequestsEnd(q, s) ==
  \A i \in 1..Len(q), n \in Navs : IsRequest(q[i], n) =>
    n \in s.fetched /\ (n = s.pending \/ \E j \in i..Len(q) : Ends(q[j], n))

LoadsInOrder(q, s) ==
  \A i \in 1..Len(q) :
    /\ q[i].type = "load" => q[i].doc <= s.doc /\ (q[i].doc = s.doc => s.loaded)
    /\ q[i].type = "init" =>
         /\ q[i].doc <= s.doc
         /\ \A j \in i..Len(q) : q[j].type = "load" => q[i].doc <= q[j].doc

(***************************************************************************)
(* A caller r that waits, with q before its listener, when the callers     *)
(* navigate in turn.                                                       *)
(***************************************************************************)
\* Where it is in its navigation, and the messages that show its page.
Place(r, q, s) ==
  /\ r.pc = "listening" => r.nav = 0 /\ s.pending = 0
  /\ r.pc # "listening" => r.nav = s.navs /\ r.nav # 0
  /\ s.pending # 0 => s.pending = r.nav
  /\ None(r.early, "within") /\ None(r.early, "init") /\ None(q, "within")

Shown(r, q, s) ==
  \A i \in 1..Len(q) : q[i].type = "init" =>
    /\ r.nav # 0 /\ q[i].doc = r.nav /\ s.doc = r.nav
    /\ r.frame \/ \E j \in 1..i : q[j].type = "navigated"

\* Its loader is that of its own navigation, or of one that was canceled before
\* and whose failure is still to come, before any page shows.
CancelAhead(q, i, n) == \E j \in i..Len(q) : IsCancel(q[j], n) /\ Early(q, j)

Loader(r, q, s) ==
  /\ r.loader <= s.navs
  /\ r.loader = 0 => ~r.finished /\ ~r.init /\ r.req = 0
  /\ r.loader # 0 => r.frame
  /\ r.loader \notin {0, r.nav} /\ ~r.finished =>
       ~r.init /\ r.req = r.loader /\ CancelAhead(q, 1, r.loader)

Strangers(r, q) ==
  \A i \in 1..Len(q), n \in Navs : IsRequest(q[i], n) /\ n # r.nav => CancelAhead(q, i, n)

\* It has heard the request of its navigation, or that is still to come: so a failure counts.
Known(r) == r.req = r.nav \/ Asks(r.early, r.nav)

Requested(r, q, s) ==
  r.nav \in s.fetched /\ s.pending = r.nav =>
    r.err \/ r.loader \notin {0, r.nav} \/ Known(r) \/ Asks(q, r.nav)

\* A failure of its navigation: kept with the early events, or on its way.
FailureKept(r) ==
  \E i, j \in 1..Len(r.early) :
    i <= j /\ IsRequest(r.early[i], r.nav) /\ IsFailure(r.early[j], r.nav)

FailureAhead(r, q) ==
  \E j \in 1..Len(q) :
    /\ IsFailure(q[j], r.nav) /\ Early(q, j)
    /\ Known(r) \/ \E i \in 1..j : IsRequest(q[i], r.nav)

Failing(r, q, s) ==
  r.nav \in s.failed =>
    \/ r.err \/ r.loader \notin {0, r.nav}
    \/ ~r.init /\ (FailureKept(r) \/ FailureAhead(r, q))

\* Once it has seen "init", a load event is that of its page.
Seen(r, q, s) ==
  r.init /\ ~r.finished =>
    /\ r.nav # 0 /\ r.loader = r.nav /\ s.doc = r.nav /\ (r.nav \in s.failed => r.err)
    /\ \A i \in 1..Len(q) : q[i].type = "load" => r.nav <= q[i].doc

Ended(r, s) ==
  r.finished /\ ~r.err => r.nav # 0 /\ r.nav \notin s.failed /\ s.doc = r.nav /\ s.loaded

Waits(r, q, s) ==
  /\ Place(r, q, s) /\ Shown(r, q, s) /\ Loader(r, q, s) /\ Strangers(r, q)
  /\ Requested(r, q, s) /\ Failing(r, q, s) /\ Seen(r, q, s) /\ Ended(r, s)

\* A caller that has returned nil.
Done(r, s) ==
  r.result = "nil" =>
    /\ r.nav # 0 /\ r.nav \notin s.failed /\ r.nav <= s.doc
    /\ s.doc = r.nav => s.loaded

InTurn == \A c, e \in Callers : Waiting(c) /\ Waiting(e) => c = e

TurnsInv ==
  /\ Counted /\ RequestsEnd(stream, Now) /\ LoadsInOrder(stream, Now)
  /\ InTurn
  /\ \A c \in Callers :
       /\ Done(caller[c], Now)
       /\ Waiting(c) => caller[c].result = "none" /\ Waits(caller[c], stream, Now)

-----------------------------------------------------------------------------
(***************************************************************************)
(* Sequences, and the events handled one after the other.                  *)
(***************************************************************************)
\* A set that has zero and with each number the next one has every number.
LEMMA EveryNatural ==
  ASSUME NEW S, 0 \in S, \A n \in Nat : n \in S => n + 1 \in S
  PROVE  \A n \in Nat : n \in S
<1> DEFINE R == OpToRel(<, Nat)
<1>1. R = {p \in Nat \X Nat : p[1] < p[2]}
  BY Zenon DEF OpToRel
<1>2. IsWellFoundedOn(R, Nat)
  BY NatLessThanWellFounded
<1> HIDE DEF R
<1>3. SUFFICES ASSUME Nat \ S # {} PROVE FALSE
  BY Zenon
<1>4. PICK x \in Nat \ S : \A y \in Nat \ S : ~ (<<y, x>> \in R)
  BY <1>2, <1>3, WFMin
<1>5. x # 0 /\ x - 1 \in Nat /\ (x - 1) + 1 = x
  BY <1>4
<1>6. x - 1 \notin S
  BY <1>5
<1>7. <<x - 1, x>> \in R
  <2>1. x - 1 < x
    BY <1>5
  <2>2. <<x - 1, x>> \in Nat \X Nat
    BY <1>5
  <2>3. <<x - 1, x>>[1] = x - 1 /\ <<x - 1, x>>[2] = x
    OBVIOUS
  <2> QED BY <1>1, <2>1, <2>2, <2>3, Zenon
<1> QED BY <1>4, <1>5, <1>6, <1>7

\* The head and the tail of a sequence, by position.
LEMMA Shorter ==
  ASSUME NEW S, NEW q \in Seq(S), q # <<>>
  PROVE  /\ Len(q) \in Nat \ {0} /\ Head(q) \in S /\ Head(q) = q[1]
         /\ Tail(q) \in Seq(S) /\ Len(Tail(q)) = Len(q) - 1
         /\ \A i \in 1..Len(Tail(q)) : i + 1 \in 1..Len(q) /\ Tail(q)[i] = q[i + 1]
         /\ \A i \in 2..Len(q) : i - 1 \in 1..Len(Tail(q)) /\ q[i] = Tail(q)[i - 1]
<1>1. Len(q) \in Nat \ {0}
  BY EmptySeq
<1>2. Head(q) = q[1]
  OBVIOUS
<1>3. /\ Head(q) \in S /\ Tail(q) \in Seq(S) /\ Len(Tail(q)) = Len(q) - 1
      /\ \A i \in 1..Len(Tail(q)) : Tail(q)[i] = q[i + 1]
  BY HeadTailProperties
<1>4. \A i \in 2..Len(q) : i - 1 \in 1..Len(Tail(q)) /\ (i - 1) + 1 = i
  BY <1>1, <1>3
<1>5. \A i \in 2..Len(q) : i - 1 \in 1..Len(Tail(q)) /\ q[i] = Tail(q)[i - 1]
  BY <1>3, <1>4
<1>6. \A i \in 1..Len(Tail(q)) : i + 1 \in 1..Len(q)
  BY <1>1, <1>3
<1> QED BY <1>1, <1>2, <1>3, <1>5, <1>6

\* What Handled is: the last of the states the events lead through.
LEMMA HandledInSteps ==
  ASSUME NEW r, NEW events, Len(events) \in Nat
  PROVE  \E f : /\ f[0] = r /\ Handled(r, events) = f[Len(events)]
                /\ \A i \in 1..Len(events) : f[i] = HandleEvent(f[i - 1], events[i])
<1> DEFINE Steps(f, n) ==
      f = [i \in 0..n |-> IF i = 0 THEN r ELSE HandleEvent(f[i - 1], events[i])]
<1> DEFINE S == {n \in Nat : \E f : Steps(f, n)}
<1>1. 0 \in S
  <2> DEFINE f == [i \in 0..0 |-> r]
  <2>1. Steps(f, 0)
    OBVIOUS
  <2> QED BY <2>1
<1>2. ASSUME NEW n \in Nat, n \in S PROVE n + 1 \in S
  <2>1. PICK f : Steps(f, n)
    BY <1>2
  <2> DEFINE g == [i \in 0..(n + 1) |-> IF i = n + 1 THEN HandleEvent(f[n], events[n + 1]) ELSE f[i]]
  <2> HIDE DEF Steps
  <2>2. \A i \in 0..n : f[i] = IF i = 0 THEN r ELSE HandleEvent(f[i - 1], events[i])
    BY <2>1 DEF Steps
  <2>3. \A i \in 0..(n + 1) : g[i] = IF i = n + 1 THEN HandleEvent(f[n], events[n + 1]) ELSE f[i]
    BY Zenon
  <2>4. \A i \in 0..n : i # n + 1
    OBVIOUS
  <2>4a. n \in 0..n /\ 0..n \subseteq 0..(n + 1)
    OBVIOUS
  <2>4b. \A i \in 0..n : g[i] = f[i]
    BY <2>3, <2>4, <2>4a, Zenon
  <2>4c. g[n + 1] = HandleEvent(g[n], events[n + 1])
    BY <2>3, <2>4, <2>4b, <2>4a
  <2>5. \A i \in 0..(n + 1) : g[i] = IF i = 0 THEN r ELSE HandleEvent(g[i - 1], events[i])
    <3>1. TAKE i \in 0..(n + 1)
    <3>2. CASE i = n + 1
      BY <3>2, <2>4c
    <3>3. CASE i = 0
      BY <3>3, <2>2, <2>4b
    <3>4. CASE i \in 1..n
      <4>1. i \in 0..n /\ i - 1 \in 0..n /\ i # 0
        BY <3>4
      <4> HIDE DEF g
      <4> QED BY <4>1, <2>2, <2>4b
    <3> QED BY <3>1, <3>2, <3>3, <3>4
  <2>6. Steps(g, n + 1)
    <3>1. DOMAIN g = 0..(n + 1) /\ g = [i \in 0..(n + 1) |-> g[i]]
      OBVIOUS
    <3> HIDE DEF g
    <3> QED BY <3>1, <2>5 DEF Steps
  <2> QED BY <2>6
<1>3. Len(events) \in S
  <2> HIDE DEF S
  <2> QED BY <1>1, <1>2, EveryNatural
<1> DEFINE h == CHOOSE f : Steps(f, Len(events))
<1>4. Steps(h, Len(events))
  BY <1>3, Zenon
<1>5. Handled(r, events) = h[Len(events)]
  BY DEF Handled
<1> HIDE DEF h
<1>6. \A i \in 0..Len(events) : h[i] = IF i = 0 THEN r ELSE HandleEvent(h[i - 1], events[i])
  BY <1>4
<1>7. 0 \in 0..Len(events) /\ \A i \in 1..Len(events) : i \in 0..Len(events) /\ i # 0
  OBVIOUS
<1>8. h[0] = r /\ \A i \in 1..Len(events) : h[i] = HandleEvent(h[i - 1], events[i])
  BY <1>6, <1>7
<1> QED BY <1>5, <1>8

-----------------------------------------------------------------------------
(***************************************************************************)
(* Types.                                                                  *)
(***************************************************************************)
\* A message has the fields of its type.
LEMMA MessageFields ==
  ASSUME NEW m \in Messages
  PROVE  /\ m.type \in {"cleared", "navigated", "within", "request", "response", "failed",
                        "init", "console", "load", "answer"}
         /\ m.type \in {"request", "response", "failed"} => m.id \in Requests
         /\ m.type = "failed" => m.canceled \in BOOLEAN
         /\ m.type \in {"init", "console", "load"} => m.doc \in Docs
         /\ m.type = "answer" => m.to \in Callers /\ m.error \in BOOLEAN
BY DEF Messages

LEMMA RequestFields ==
  ASSUME NEW n \in Docs
  PROVE  /\ DocRequest(n) \in Requests
         /\ DocRequest(n).kind = "document" /\ DocRequest(n).doc = n
         /\ \A kind \in Kinds : /\ SubRequest(n, kind) \in Requests
                                 /\ SubRequest(n, kind).kind = kind /\ kind # "document"
BY NavigationAssumption DEF DocRequest, SubRequest, Requests

LEMMA EndedType == ASSUME TypeOK PROVE EndedRequests \subseteq Requests
BY RequestFields DEF EndedRequests, TypeOK

\* A request that ends.
LEMMA EndAdds ==
  ASSUME TypeOK, NEW kind \in Kinds, EndFetch(kind)
  PROVE  \E m \in Messages : /\ stream' = Append(stream, m)
                             /\ m.type \in {"response", "failed"} /\ m.id = SubRequest(doc, kind)
<1> DEFINE a == [type |-> "response", id |-> SubRequest(doc, kind)]
           b == [type |-> "failed", id |-> SubRequest(doc, kind), canceled |-> FALSE]
<1>1. a \in Messages /\ b \in Messages
  <2>1. SubRequest(doc, kind) \in Requests /\ FALSE \in BOOLEAN
    BY RequestFields DEF TypeOK
  <2> QED BY <2>1 DEF Messages
<1>2. a.type = "response" /\ a.id = SubRequest(doc, kind) /\ b.type = "failed" /\ b.id = SubRequest(doc, kind)
  OBVIOUS
<1>3. stream' = Append(stream, a) \/ stream' = Append(stream, b)
  BY DEF EndFetch
<1> HIDE DEF a, b
<1> QED BY <1>1, <1>2, <1>3

\* What handleEvent does to each field.
LEMMA Handles ==
  ASSUME NEW r \in CallerStates, NEW m \in Messages, NEW h, h = HandleEvent(r, m)
  PROVE  /\ h \in CallerStates
         /\ h.pc = r.pc /\ h.command = r.command /\ h.nav = r.nav /\ h.frame = r.frame
         /\ h.loader = r.loader /\ h.early = r.early /\ h.result = r.result
         /\ h.req = IF IsRequest(m, r.loader) THEN r.loader ELSE r.req
         /\ h.init <=> r.init \/ (m.type = "init" /\ r.frame)
         /\ h.err <=> r.err \/ (r.req # 0 /\ IsFailure(m, r.req))
         /\ h.finished <=> \/ r.finished \/ (m.type = "load" /\ r.init)
                           \/ (r.req # 0 /\ IsCancel(m, r.req))
<1>1. m.type = "failed" => m.canceled \in BOOLEAN
  BY MessageFields
<1>2. CASE IsRequest(m, r.loader)
  <2>1. h = [r EXCEPT !.req = r.loader]
    BY <1>2 DEF HandleEvent, IsRequest
  <2> QED BY <1>2, <2>1 DEF CallerStates, IsRequest, IsFailure, IsCancel
<1>3. CASE r.req # 0 /\ IsFailure(m, r.req)
  <2>1. h = [r EXCEPT !.err = TRUE, !.finished = r.finished \/ m.canceled]
    BY <1>3 DEF HandleEvent, IsFailure
  <2>2. h \in CallerStates
    BY <1>1, <1>3, <2>1 DEF CallerStates, IsFailure
  <2> QED BY <1>1, <1>3, <2>1, <2>2 DEF CallerStates, IsRequest, IsFailure, IsCancel
<1>4. CASE m.type = "init" /\ r.frame
  <2>1. h = [r EXCEPT !.init = TRUE]
    BY <1>4 DEF HandleEvent
  <2> QED BY <1>4, <2>1 DEF CallerStates, IsRequest, IsFailure, IsCancel
<1>5. CASE m.type = "load" /\ r.init
  <2>1. h = [r EXCEPT !.finished = TRUE]
    BY <1>5 DEF HandleEvent
  <2> QED BY <1>5, <2>1 DEF CallerStates, IsRequest, IsFailure, IsCancel
<1>6. CASE /\ ~IsRequest(m, r.loader) /\ ~(r.req # 0 /\ IsFailure(m, r.req))
           /\ ~(m.type = "init" /\ r.frame) /\ ~(m.type = "load" /\ r.init)
  <2>1. h = r
    BY <1>6 DEF HandleEvent, IsRequest, IsFailure
  <2> QED BY <1>6, <2>1 DEF CallerStates, IsCancel
<1> QED BY <1>2, <1>3, <1>4, <1>5, <1>6

\* Events handled one after the other: the fields that stay, and the states between.
LEMMA HandledKeeps ==
  ASSUME NEW r \in CallerStates, NEW events \in Seq(Messages)
  PROVE  \E f : /\ f[0] = r /\ Handled(r, events) = f[Len(events)]
                /\ \A i \in 1..Len(events) : f[i] = HandleEvent(f[i - 1], events[i])
                /\ \A i \in 0..Len(events) :
                     /\ f[i] \in CallerStates
                     /\ f[i].pc = r.pc /\ f[i].command = r.command /\ f[i].nav = r.nav
                     /\ f[i].frame = r.frame /\ f[i].loader = r.loader
                     /\ f[i].early = r.early /\ f[i].result = r.result
<1>1. Len(events) \in Nat /\ \A i \in 1..Len(events) : events[i] \in Messages
  BY LenProperties, ElementOfSeq
<1>2. PICK f : /\ f[0] = r /\ Handled(r, events) = f[Len(events)]
               /\ \A i \in 1..Len(events) : f[i] = HandleEvent(f[i - 1], events[i])
  BY <1>1, HandledInSteps
<1> DEFINE Same(x) ==
      /\ x \in CallerStates
      /\ x.pc = r.pc /\ x.command = r.command /\ x.nav = r.nav
      /\ x.frame = r.frame /\ x.loader = r.loader
      /\ x.early = r.early /\ x.result = r.result
<1> DEFINE S == {n \in Nat : n <= Len(events) => Same(f[n])}
<1>3. 0 \in S
  BY <1>2
<1>4. ASSUME NEW n \in Nat, n \in S PROVE n + 1 \in S
  <2>1. SUFFICES ASSUME n + 1 <= Len(events) PROVE Same(f[n + 1])
    OBVIOUS
  <2>2. Same(f[n]) /\ n + 1 \in 1..Len(events) /\ (n + 1) - 1 = n
    BY <1>1, <1>4, <2>1
  <2>3. f[n + 1] = HandleEvent(f[n], events[n + 1]) /\ events[n + 1] \in Messages
    BY <1>1, <1>2, <2>2
  <2> DEFINE x == f[n]
             h == f[n + 1]
             m == events[n + 1]
  <2>4. Same(x) /\ x \in CallerStates /\ m \in Messages /\ h = HandleEvent(x, m)
    BY <2>2, <2>3
  <2> HIDE DEF x, h, m
  <2>5. /\ h \in CallerStates
        /\ h.pc = x.pc /\ h.command = x.command /\ h.nav = x.nav /\ h.frame = x.frame
        /\ h.loader = x.loader /\ h.early = x.early /\ h.result = x.result
    <3> HIDE DEF Same
    <3> QED BY <2>4, Handles
  <2>6. Same(h)
    BY <2>4, <2>5
  <2> QED BY <2>6 DEF h
<1> HIDE DEF Same
<1>5. \A n \in Nat : n \in S
  <2> HIDE DEF S
  <2> QED BY <1>3, <1>4, EveryNatural
<1>6. \A i \in 0..Len(events) : Same(f[i])
  BY <1>1, <1>5
<1> QED BY <1>2, <1>6 DEF Same

\* What a listener keeps of the caller, whatever it hears.
LEMMA HeardType ==
  ASSUME NEW r \in CallerStates, NEW m \in Messages,
         r.loader # 0 => r.early = <<>>
  PROVE  /\ Heard(r, m) \in CallerStates
         /\ Heard(r, m).loader # 0 => Heard(r, m).early = <<>>
         /\ Heard(r, m).pc = r.pc /\ Heard(r, m).command = r.command
         /\ Heard(r, m).nav = r.nav /\ Heard(r, m).result = r.result
<1> DEFINE known == [r EXCEPT !.frame = FrameOf(r, m), !.early = Append(@, m)]
           found == LoaderOf(known, m)
           start == [known EXCEPT !.loader = found]
<1>1. /\ known \in CallerStates /\ known.pc = r.pc /\ known.command = r.command
      /\ known.nav = r.nav /\ known.result = r.result /\ known.loader = r.loader
  <2>1. FrameOf(r, m) \in BOOLEAN
    BY DEF FrameOf, CallerStates
  <2>2. Append(r.early, m) \in Seq(Messages)
    BY AppendProperties DEF CallerStates
  <2> QED BY <2>1, <2>2 DEF CallerStates
<1> HIDE DEF known
<1>2. found \in Docs
  <2>1. 0 \in Docs /\ (m.type = "request" => m.id.doc \in Docs) /\ (m.type = "init" => m.doc \in Docs)
    BY NavigationAssumption, MessageFields DEF Docs, Requests
  <2> QED BY <2>1 DEF LoaderOf
<1> HIDE DEF found
<1>3. CASE r.finished
  BY <1>3 DEF Heard
<1>4. CASE ~r.finished /\ r.loader # 0
  <2>1. Heard(r, m) = HandleEvent(r, m)
    BY <1>4 DEF Heard
  <2> QED BY <2>1, Handles
<1>5. CASE ~r.finished /\ r.loader = 0 /\ m.type = "within"
  <2> DEFINE h == [known EXCEPT !.finished = TRUE]
  <2>1. Heard(r, m) = h
    BY <1>5 DEF Heard, known
  <2>2. /\ h \in CallerStates /\ h.pc = known.pc /\ h.command = known.command
        /\ h.nav = known.nav /\ h.result = known.result /\ h.loader = known.loader
    BY <1>1 DEF CallerStates
  <2> HIDE DEF h
  <2> QED BY <1>1, <1>5, <2>1, <2>2
<1>6. CASE ~r.finished /\ r.loader = 0 /\ m.type # "within" /\ found # 0
  <2>1. Heard(r, m) = Replay(start, known.early)
    BY <1>6 DEF Heard, known, found
  <2>2. start \in CallerStates /\ known.early \in Seq(Messages)
    BY <1>1, <1>2 DEF CallerStates
  <2>3. start.pc = r.pc /\ start.command = r.command /\ start.nav = r.nav /\ start.result = r.result
    BY <1>1 DEF CallerStates
  <2> HIDE DEF start
  <2>4. Len(known.early) \in 0..Len(known.early)
    BY <2>2, LenProperties
  <2> DEFINE h == Handled(start, known.early)
  <2>5. /\ h \in CallerStates /\ h.pc = r.pc /\ h.command = r.command
        /\ h.nav = r.nav /\ h.result = r.result
    BY <2>2, <2>3, <2>4, HandledKeeps
  <2>6. Heard(r, m) = [h EXCEPT !.early = <<>>]
    BY <2>1 DEF Replay
  <2> HIDE DEF h
  <2> DEFINE e == <<>>
             g == [h EXCEPT !.early = e]
  <2>7. e \in Seq(Messages)
    BY EmptySeq
  <2> HIDE DEF e
  <2>8. /\ g \in CallerStates /\ g.early = e /\ g.pc = h.pc /\ g.command = h.command
        /\ g.nav = h.nav /\ g.result = h.result
    BY <2>5, <2>7 DEF CallerStates
  <2>9. Heard(r, m) = g
    BY <2>6 DEF e
  <2> HIDE DEF g
  <2> QED BY <2>5, <2>8, <2>9 DEF e
<1>7. CASE ~r.finished /\ r.loader = 0 /\ m.type # "within" /\ found = 0
  <2>1. Heard(r, m) = known
    BY <1>7 DEF Heard, known, found
  <2> QED BY <1>1, <1>7, <2>1
<1> QED BY <1>3, <1>4, <1>5, <1>6, <1>7

LEMMA IdleType == Idle \in CallerStates
BY NavigationAssumption, EmptySeq DEF Idle, CallerStates, Docs

LEMMA ReturnedType ==
  ASSUME NEW r \in CallerStates, NEW result \in {"error", "nil"}
  PROVE  /\ Returned(r, result) \in CallerStates
         /\ Returned(r, result).loader = 0 /\ Returned(r, result).nav = r.nav
         /\ Returned(r, result).pc = "returned" /\ Returned(r, result).result = result
BY IdleType DEF Returned, Idle, CallerStates

\* A sequence with another behind it, by position.
LEMMA Longer ==
  ASSUME NEW S, NEW q \in Seq(S), NEW x \in Seq(S), NEW p, p = q \o x
  PROVE  /\ p \in Seq(S) /\ Len(p) = Len(q) + Len(x)
         /\ Len(q) \in Nat /\ Len(x) \in Nat /\ Len(p) \in Nat
         /\ \A i \in 1..Len(q) : i \in 1..Len(p) /\ p[i] = q[i]
         /\ \A i \in 1..Len(x) : Len(q) + i \in 1..Len(p) /\ p[Len(q) + i] = x[i]
         /\ \A i \in 1..Len(p) : i \notin 1..Len(q) =>
              i > Len(q) /\ i - Len(q) \in 1..Len(x) /\ p[i] = x[i - Len(q)]
<1>1. /\ p \in Seq(S) /\ Len(p) = Len(q) + Len(x)
      /\ \A i \in 1..(Len(q) + Len(x)) : p[i] = IF i <= Len(q) THEN q[i] ELSE x[i - Len(q)]
  BY ConcatProperties
<1>2. Len(q) \in Nat /\ Len(x) \in Nat
  BY LenProperties
<1>3. \A i \in 1..Len(x) : (Len(q) + i) - Len(q) = i /\ ~(Len(q) + i <= Len(q))
  BY <1>2
<1> QED BY <1>1, <1>2, <1>3

LEMMA Regroup ==
  ASSUME NEW u \in Seq(Messages), NEW v \in Seq(Messages), NEW w \in Seq(Messages)
  PROVE  (u \o v) \o w = u \o (v \o w)
BY ConcatAssociative

LEMMA One ==
  ASSUME NEW S, NEW m \in S
  PROVE  <<m>> \in Seq(S) /\ Len(<<m>>) = 1 /\ <<m>>[1] = m
OBVIOUS

\* The messages of Chrome.
LEMMA MessageTypes ==
  /\ \A n \in Docs : /\ [type |-> "init", doc |-> n] \in Messages
                     /\ [type |-> "console", doc |-> n] \in Messages
                     /\ [type |-> "load", doc |-> n] \in Messages
  /\ \A id \in Requests : /\ [type |-> "request", id |-> id] \in Messages
                          /\ [type |-> "response", id |-> id] \in Messages
  /\ \A id \in Requests, canceled \in BOOLEAN :
       [type |-> "failed", id |-> id, canceled |-> canceled] \in Messages
  /\ \A c \in Callers, error \in BOOLEAN :
       [type |-> "answer", to |-> c, error |-> error] \in Messages
  /\ [type |-> "cleared"] \in Messages /\ [type |-> "navigated"] \in Messages
  /\ [type |-> "within"] \in Messages
BY DEF Messages

LEMMA FailureType ==
  ASSUME TypeOK, NEW n \in Docs, NEW canceled \in BOOLEAN
  PROVE  /\ Failure(n, canceled) \in Seq(Messages)
         /\ n \notin fetched => Failure(n, canceled) = <<>>
         /\ n \in fetched =>
              /\ Failure(n, canceled) = <<[type |-> "failed", id |-> DocRequest(n), canceled |-> canceled]>>
              /\ Len(Failure(n, canceled)) = 1
         /\ \A i \in 1..Len(Failure(n, canceled)) :
              Failure(n, canceled)[i] = [type |-> "failed", id |-> DocRequest(n), canceled |-> canceled]
<1>1. [type |-> "failed", id |-> DocRequest(n), canceled |-> canceled] \in Messages
  BY RequestFields, MessageTypes
<1>2. CASE n \in fetched
  BY <1>1, <1>2, One DEF Failure
<1>3. CASE n \notin fetched
  BY <1>3, EmptySeq DEF Failure
<1> QED BY <1>2, <1>3

LEMMA ShowsType ==
  ASSUME NEW n \in Docs
  PROVE  /\ Shows(n) \in Seq(Messages) /\ Len(Shows(n)) = 3
         /\ Shows(n)[1] = [type |-> "cleared"] /\ Shows(n)[2] = [type |-> "navigated"]
         /\ Shows(n)[3] = [type |-> "init", doc |-> n]
<1> DEFINE a == [type |-> "cleared"]
           b == [type |-> "navigated"]
           c == [type |-> "init", doc |-> n]
<1>1. a \in Messages /\ b \in Messages /\ c \in Messages
  BY MessageTypes
<1>2. Shows(n) = <<a, b, c>>
  BY DEF Shows
<1> HIDE DEF a, b, c
<1>3. /\ <<a, b, c>> \in Seq(Messages) /\ Len(<<a, b, c>>) = 3
      /\ <<a, b, c>>[1] = a /\ <<a, b, c>>[2] = b /\ <<a, b, c>>[3] = c
  BY <1>1
<1> QED BY <1>2, <1>3 DEF a, b, c

\* The navigation that begins, and what it sends.
LEMMA BeginAdds ==
  ASSUME TypeOK, NEW requested \in BOOLEAN, Begin(requested)
  PROVE  /\ navs' = navs + 1 /\ navs' \in Navs /\ pending' = navs'
         /\ failed' \subseteq Navs /\ fetched' \subseteq Navs
         /\ \E x \in Seq(Messages) :
              /\ stream' = stream \o x
              /\ \A i \in 1..Len(x) : x[i].type \in {"failed", "request"}
<1>1. navs' = navs + 1 /\ navs' \in Navs /\ pending' = navs'
  BY NavigationAssumption DEF Begin, TypeOK, Docs, Navs
<1>2. failed' \subseteq Navs /\ fetched' \subseteq Navs
  BY <1>1, NavigationAssumption DEF Begin, TypeOK, Docs, Navs
<1> DEFINE f == Failure(pending, TRUE)
           q == IF requested THEN <<[type |-> "request", id |-> DocRequest(navs + 1)]>> ELSE <<>>
<1>3. f \in Seq(Messages) /\ \A i \in 1..Len(f) : f[i].type = "failed"
  <2>1. pending \in Docs /\ TRUE \in BOOLEAN
    BY DEF TypeOK
  <2>2. /\ f \in Seq(Messages)
        /\ \A i \in 1..Len(f) : f[i] = [type |-> "failed", id |-> DocRequest(pending), canceled |-> TRUE]
    BY <2>1, FailureType, Zenon
  <2> HIDE DEF f
  <2> QED BY <2>2
<1>4. q \in Seq(Messages) /\ \A i \in 1..Len(q) : q[i].type = "request"
  <2>1. [type |-> "request", id |-> DocRequest(navs + 1)] \in Messages
    <3>1. navs + 1 \in Docs
      BY <1>1, NavigationAssumption DEF Navs, Docs
    <3> QED BY <3>1, RequestFields, MessageTypes
  <2> QED BY <2>1, One, EmptySeq
<1>5. stream' = (stream \o f) \o q
  BY DEF Begin
<1> HIDE DEF f, q
<1>6. stream' = stream \o (f \o q)
  <2>1. stream \in Seq(Messages)
    BY DEF TypeOK
  <2>2. f \in Seq(Messages) /\ q \in Seq(Messages)
    BY <1>3, <1>4
  <2> QED BY <1>5, <2>1, <2>2, Regroup
<1>7. f \o q \in Seq(Messages)
  BY <1>3, <1>4, ConcatProperties
<1>8. ASSUME NEW i \in 1..Len(f \o q) PROVE (f \o q)[i].type \in {"failed", "request"}
  BY <1>3, <1>4, Longer
<1> QED BY <1>1, <1>2, <1>6, <1>7, <1>8

\* The page that is shown, and what it sends.
EndsShowing(x, y, n) ==
  /\ x \in Seq(Messages) /\ Len(y) \in Nat /\ Len(x) = Len(y) + 3
  /\ \A i \in 1..Len(y) : x[i] = y[i]
  /\ x[Len(y) + 1].type = "cleared" /\ x[Len(y) + 2].type = "navigated"
  /\ IsInit(x[Len(y) + 3], n)

LEMMA ShowsBehind ==
  ASSUME NEW n \in Docs, NEW y \in Seq(Messages), NEW x, x = y \o Shows(n)
  PROVE  EndsShowing(x, y, n)
<1> DEFINE s == Shows(n)
<1>1. /\ s \in Seq(Messages) /\ Len(s) = 3
      /\ s[1] = [type |-> "cleared"] /\ s[2] = [type |-> "navigated"]
      /\ s[3] = [type |-> "init", doc |-> n]
  BY ShowsType, Zenon
<1>2. x = y \o s
  OBVIOUS
<1> HIDE DEF s
<1>3. /\ x \in Seq(Messages) /\ Len(y) \in Nat /\ Len(x) = Len(y) + Len(s)
      /\ \A i \in 1..Len(y) : x[i] = y[i]
      /\ \A i \in 1..Len(s) : x[Len(y) + i] = s[i]
  <2>1. s \in Seq(Messages)
    BY <1>1
  <2> QED BY <1>2, <2>1, Longer
<1>4. 1 \in 1..Len(s) /\ 2 \in 1..Len(s) /\ 3 \in 1..Len(s)
  BY <1>1
<1>5. s[1].type = "cleared" /\ s[2].type = "navigated" /\ IsInit(s[3], n)
  BY <1>1 DEF IsInit
<1> QED BY <1>1, <1>3, <1>4, <1>5 DEF EndsShowing

LEMMA CommitAdds ==
  ASSUME TypeOK, Commit
  PROVE  /\ pending \in Navs /\ failed' \subseteq Navs
         /\ failed' \in {failed, failed \cup {pending}}
         /\ \E x \in Seq(Messages), k \in {0, 1} :
              /\ stream' = stream \o x /\ Len(x) = k + 3
              /\ k = 1 => x[1].type \in {"response", "failed"} /\ x[1].id = DocRequest(pending)
              /\ x[k + 1].type = "cleared" /\ x[k + 2].type = "navigated" /\ IsInit(x[k + 3], pending)
              /\ pending \in fetched => k = 1
              /\ failed' # failed => k = 1 /\ IsFailure(x[1], pending)
<1>1. pending \in Navs /\ pending \in Docs
  BY NavigationAssumption DEF Commit, TypeOK, Docs, Navs
<1>2. Shows(pending) \in Seq(Messages)
  BY <1>1, ShowsType
\* With what comes before it: nothing, the response or the failure.
<1>3. ASSUME NEW y \in Seq(Messages), NEW k \in {0, 1}, Len(y) = k,
             stream' = stream \o y \o Shows(pending),
             failed' \in {failed, failed \cup {pending}},
             k = 1 => y[1].type \in {"response", "failed"} /\ y[1].id = DocRequest(pending),
             pending \in fetched => k = 1,
             failed' # failed => k = 1 /\ y[1].type = "failed"
      PROVE  \E x \in Seq(Messages) :
              /\ stream' = stream \o x /\ Len(x) = k + 3
              /\ k = 1 => x[1].type \in {"response", "failed"} /\ x[1].id = DocRequest(pending)
              /\ x[k + 1].type = "cleared" /\ x[k + 2].type = "navigated" /\ IsInit(x[k + 3], pending)
              /\ pending \in fetched => k = 1
              /\ failed' # failed => k = 1 /\ IsFailure(x[1], pending)
  <2> DEFINE s == Shows(pending)
             x == y \o s
  <2>0. pending \in Docs /\ y \in Seq(Messages) /\ x = y \o Shows(pending)
    BY <1>1
  <2> HIDE DEF x
  <2>1. /\ x \in Seq(Messages) /\ Len(x) = Len(y) + 3
        /\ \A i \in 1..Len(y) : x[i] = y[i]
        /\ x[Len(y) + 1].type = "cleared" /\ x[Len(y) + 2].type = "navigated"
        /\ IsInit(x[Len(y) + 3], pending)
    <3>1. EndsShowing(x, y, pending)
      BY <2>0, ShowsBehind, Zenon
    <3> QED BY <3>1 DEF EndsShowing
  <2>2. s \in Seq(Messages) /\ stream' = (stream \o y) \o s
    BY <1>2, <1>3
  <2> HIDE DEF s
  <2>3. stream' = stream \o x
    <3>1. stream \in Seq(Messages)
      BY DEF TypeOK
    <3> QED BY <2>0, <2>2, <3>1, Regroup DEF x
  <2>4. k = 1 => x[1] = y[1]
    BY <1>3, <2>1
  <2> QED BY <1>3, <2>1, <2>3, <2>4 DEF IsFailure
<1>4. CASE /\ stream' = stream \o (IF pending \in fetched
                THEN <<[type |-> "response", id |-> DocRequest(pending)]>> ELSE <<>>) \o Shows(pending)
           /\ UNCHANGED failed
  <2> DEFINE m == [type |-> "response", id |-> DocRequest(pending)]
  <2>1. m \in Messages /\ m.type = "response" /\ m.id = DocRequest(pending)
    BY <1>1, RequestFields, MessageTypes
  <2>2. CASE pending \in fetched
    <3>1. stream' = stream \o <<m>> \o Shows(pending)
      BY <1>4, <2>2
    <3> HIDE DEF m
    <3>2. <<m>> \in Seq(Messages) /\ Len(<<m>>) = 1 /\ <<m>>[1] = m
      BY <2>1, One
    <3> QED BY <1>1, <1>3, <1>4, <2>1, <3>1, <3>2 DEF TypeOK
  <2>3. CASE pending \notin fetched
    <3> DEFINE e == <<>>
    <3>1. stream' = stream \o e \o Shows(pending)
      BY <1>4, <2>3
    <3>2. e \in Seq(Messages) /\ Len(e) = 0
      BY EmptySeq
    <3> HIDE DEF e
    <3>3. failed' = failed /\ failed \subseteq Navs
      BY <1>4 DEF TypeOK
    <3>4. 0 \in {0, 1} /\ 0 # 1
      OBVIOUS
    <3> QED BY <1>1, <1>3, <2>3, <3>1, <3>2, <3>3, <3>4
  <2> QED BY <2>2, <2>3
<1>5. CASE /\ pending \in fetched /\ failed' = failed \cup {pending}
           /\ stream' = stream \o Failure(pending, FALSE) \o Shows(pending)
  <2> DEFINE m == [type |-> "failed", id |-> DocRequest(pending), canceled |-> FALSE]
             f == Failure(pending, FALSE)
  <2>1. f \in Seq(Messages) /\ f = <<m>> /\ Len(f) = 1
    <3>1. FALSE \in BOOLEAN
      OBVIOUS
    <3> QED BY <1>1, <1>5, <3>1, FailureType, Zenon
  <2>2. m.type = "failed" /\ m.id = DocRequest(pending)
    OBVIOUS
  <2>3. stream' = stream \o f \o Shows(pending)
    BY <1>5
  <2> HIDE DEF m, f
  <2>4. f[1] = m
    BY <2>1
  <2> QED BY <1>1, <1>3, <1>5, <2>1, <2>2, <2>3, <2>4 DEF TypeOK
<1> QED BY <1>4, <1>5 DEF Commit

LEMMA TypeStep == TypeOK /\ [Next]_vars => TypeOK'
<1> SUFFICES ASSUME TypeOK, [Next]_vars PROVE TypeOK'
  OBVIOUS
<1> USE DEF chrome, logs, vars
<1>0. /\ 0 \in Docs /\ Navs \subseteq Docs
      /\ \A m \in Messages : Append(stream, m) \in Seq(Messages)
      /\ \A x \in Seq(Messages) : stream \o x \in Seq(Messages)
  BY NavigationAssumption, AppendProperties, ConcatProperties DEF TypeOK, Docs, Navs
<1>1. CASE PageNavigates
  BY <1>0, <1>1, BeginAdds DEF PageNavigates, TypeOK
<1>2. CASE PageRewritesURL
  BY <1>0, <1>2, MessageTypes DEF PageRewritesURL, TypeOK
<1>3. CASE Commit
  BY <1>0, <1>3, CommitAdds DEF Commit, TypeOK
<1>4. CASE Abort
  <2>1. pending \in Navs /\ TRUE \in BOOLEAN
    BY <1>4 DEF Abort, TypeOK
  <2>2. stream' \in Seq(Messages)
    BY <1>0, <1>4, <2>1, FailureType DEF Abort
  <2> QED BY <1>0, <1>4, <2>1, <2>2 DEF Abort, TypeOK
<1>5. CASE Say
  BY <1>0, <1>5, MessageTypes DEF Say, TypeOK
<1>6. ASSUME NEW kind \in Kinds, SendFetch(kind) PROVE TypeOK'
  <2>1. stream' \in Seq(Messages)
    BY <1>0, <1>6, MessageTypes, RequestFields DEF SendFetch, TypeOK
  <2>2. lost' \subseteq Requests
    BY <1>6, EndedType DEF SendFetch, TypeOK
  <2>3. fetching' \in [Kinds -> {"none", "sent", "ended"}]
    BY <1>6 DEF SendFetch, TypeOK
  <2> QED BY <1>6, <2>1, <2>2, <2>3 DEF SendFetch, TypeOK
<1>7. ASSUME NEW kind \in Kinds, EndFetch(kind) PROVE TypeOK'
  <2>1. stream' \in Seq(Messages)
    BY <1>0, <1>7, EndAdds
  <2>2. fetching' \in [Kinds -> {"none", "sent", "ended"}]
    BY <1>7 DEF EndFetch, TypeOK
  <2> QED BY <1>7, <2>1, <2>2 DEF EndFetch, TypeOK
<1>8. CASE Load
  BY <1>0, <1>8, MessageTypes DEF Load, TypeOK
<1>9. ASSUME NEW c \in Callers, Answer(c) PROVE TypeOK'
  <2>1. stream' \in Seq(Messages)
    BY <1>0, <1>9, MessageTypes DEF Answer
  <2> QED BY <1>9, <2>1 DEF Answer, TypeOK
<1>10. ASSUME NEW c \in Callers, NEW command \in {"navigate", "reload"}, Listen(c, command) PROVE TypeOK'
  <2>1. PICK frame \in BOOLEAN :
          caller' = [caller EXCEPT ![c] =
            [Idle EXCEPT !.pc = "listening", !.command = command, !.frame = frame]]
    BY <1>10 DEF Listen, TypeOK
  <2> DEFINE r == [Idle EXCEPT !.pc = "listening", !.command = command, !.frame = frame]
  <2>2. r \in CallerStates /\ r.loader = 0
    BY IdleType DEF Idle, CallerStates
  <2> HIDE DEF r
  <2>3. caller' = [caller EXCEPT ![c] = r]
    BY <2>1 DEF r
  <2>4. caller' \in [Callers -> CallerStates] /\ \A e \in Callers : caller'[e] = IF e = c THEN r ELSE caller[e]
    BY <2>2, <2>3 DEF TypeOK
  <2> QED BY <1>10, <2>2, <2>4 DEF Listen, TypeOK
<1>11. ASSUME NEW c \in Callers, NEW requested \in BOOLEAN, Send(c, requested) PROVE TypeOK'
  <2>1. /\ navs + 1 \in Navs /\ navs' \in Navs /\ pending' \in Navs
        /\ failed' \subseteq Navs /\ fetched' \subseteq Navs /\ stream' \in Seq(Messages)
    BY <1>0, <1>11, BeginAdds DEF Send
  <2> DEFINE r == [caller[c] EXCEPT !.pc = "sent", !.nav = navs + 1]
  <2>2. r \in CallerStates /\ r.loader = caller[c].loader /\ r.early = caller[c].early
    <3>1. caller[c] \in CallerStates /\ navs + 1 \in Docs
      BY <1>0, <2>1 DEF TypeOK
    <3> QED BY <3>1 DEF CallerStates
  <2>3. caller' = [caller EXCEPT ![c] = r]
    BY <1>11 DEF Send
  <2> HIDE DEF r
  <2>4. caller' \in [Callers -> CallerStates] /\ \A e \in Callers : caller'[e] = IF e = c THEN r ELSE caller[e]
    BY <2>2, <2>3 DEF TypeOK
  <2> QED BY <1>0, <1>11, <2>1, <2>2, <2>4 DEF Send, TypeOK
<1>12. ASSUME NEW c \in Callers, NEW result \in {"error", "nil"},
              caller' = [caller EXCEPT ![c] = Returned(caller[c], result)],
              Finish(c) \/ ContextDone(c)
       PROVE  TypeOK'
  <2> DEFINE r == Returned(caller[c], result)
  <2>1. r \in CallerStates /\ r.loader = 0
    BY ReturnedType DEF TypeOK
  <2> HIDE DEF r
  <2>2. caller' = [caller EXCEPT ![c] = r]
    BY <1>12 DEF r
  <2>3. caller' \in [Callers -> CallerStates] /\ \A e \in Callers : caller'[e] = IF e = c THEN r ELSE caller[e]
    BY <2>1, <2>2 DEF TypeOK
  <2>4. CASE Finish(c)
    BY <2>1, <2>3, <2>4 DEF Finish, TypeOK
  <2>5. CASE ContextDone(c)
    BY <2>1, <2>3, <2>5 DEF ContextDone, TypeOK
  <2> QED BY <1>12, <2>4, <2>5
<1>13. ASSUME NEW c \in Callers, Finish(c) \/ ContextDone(c) PROVE TypeOK'
  <2>1. CASE Finish(c)
    <3>1. PICK result \in {"error", "nil"} : caller' = [caller EXCEPT ![c] = Returned(caller[c], result)]
      BY <2>1 DEF Finish
    <3> QED BY <2>1, <3>1, <1>12
  <2>2. CASE ContextDone(c)
    <3>1. caller' = [caller EXCEPT ![c] = Returned(caller[c], "error")]
      BY <2>2 DEF ContextDone
    <3> QED BY <2>2, <3>1, <1>12
  <2> QED BY <1>13, <2>1, <2>2
<1>14. CASE Dispatch
  <2> DEFINE m == Head(stream)
  <2>1. stream # <<>> /\ m \in Messages /\ stream' = Tail(stream) /\ stream' \in Seq(Messages)
    BY <1>14, Shorter DEF Dispatch, TypeOK
  <2>2. /\ frameSeen' = (frameSeen \/ m.type = "navigated")
        /\ consoleLogs' = ConsoleHeard(consoleLogs, m) /\ networkLogs' = NetworkHeard(networkLogs, m)
        /\ UNCHANGED chrome
        /\ caller' = [c \in Callers |->
             IF m.type = "answer" THEN IF m.to = c /\ caller[c].pc = "sent" THEN Answered(caller[c], m) ELSE caller[c]
             ELSE IF Waiting(c) THEN Heard(caller[c], m) ELSE caller[c]]
    BY <1>14 DEF Dispatch
  <2> HIDE DEF m
  <2>3. consoleLogs' \subseteq Docs
    BY <2>1, <2>2, MessageFields DEF ConsoleHeard, TypeOK
  <2>4. networkLogs' \subseteq Requests
    BY <2>1, <2>2, MessageFields DEF NetworkHeard, TypeOK
  <2>5. ASSUME NEW c \in Callers
        PROVE  caller'[c] \in CallerStates /\ (caller'[c].loader # 0 => caller'[c].early = <<>>)
    <3>1. caller[c] \in CallerStates /\ (caller[c].loader # 0 => caller[c].early = <<>>)
      BY DEF TypeOK
    <3>2. CASE caller'[c] = caller[c]
      BY <3>1, <3>2
    <3>3. CASE caller'[c] = Heard(caller[c], m)
      BY <2>1, <3>1, <3>3, HeardType
    <3>4. CASE caller'[c] = Answered(caller[c], m)
      <4>1. CASE m.error
        <5>1. caller'[c] = Returned(caller[c], "error")
          BY <3>4, <4>1 DEF Answered
        <5> QED BY <3>1, <5>1, ReturnedType
      <4>2. CASE ~m.error
        <5>1. caller'[c] = [caller[c] EXCEPT !.pc = "waiting"]
          BY <3>4, <4>2 DEF Answered
        <5> QED BY <3>1, <5>1 DEF CallerStates
      <4> QED BY <4>1, <4>2
    <3> QED BY <2>2, <3>2, <3>3, <3>4, Zenon
  <2>6. caller' \in [Callers -> CallerStates]
    BY <2>2, <2>5
  <2> QED BY <2>1, <2>2, <2>3, <2>4, <2>5, <2>6 DEF TypeOK
<1>15. CASE UNCHANGED vars
  BY <1>15 DEF TypeOK
<1> QED BY <1>1, <1>2, <1>3, <1>4, <1>5, <1>6, <1>7, <1>8, <1>9, <1>10, <1>11, <1>13, <1>14, <1>15
     DEF Next, Chrome, Page, Caller

LEMMA TypeInit == Init => TypeOK
<1> SUFFICES ASSUME Init PROVE TypeOK
  OBVIOUS
<1>1. 0 \in Docs /\ <<>> \in Seq(Messages)
  BY NavigationAssumption, EmptySeq DEF Docs
<1>2. caller \in [Callers -> CallerStates] /\ \A c \in Callers : caller[c].loader = 0
  BY IdleType DEF Init, Idle
<1> QED BY <1>1, <1>2 DEF Init, TypeOK

\* The types hold in every state.
THEOREM TypeCorrect == Spec => []TypeOK
BY TypeInit, TypeStep, PTL DEF Spec

-----------------------------------------------------------------------------
(***************************************************************************)
(* The logs.                                                               *)
(***************************************************************************)
\* A message more.
LEMMA AppendIsLonger ==
  ASSUME NEW q \in Seq(Messages), NEW m \in Messages
  PROVE  \E x \in Seq(Messages) : Append(q, m) = q \o x /\ Len(x) = 1 /\ x[1] = m
BY AppendIsConcat, One

\* Messages about other things leave the console log what it will be.
LEMMA LoggedGrows ==
  ASSUME NEW q \in Seq(Messages), NEW x \in Seq(Messages), NEW p, p = q \o x,
         NEW d, NEW L, \A i \in 1..Len(x) : x[i].type \notin {"console", "cleared"}
  PROVE  Logged(d, L, p) <=> Logged(d, L, q)
<1> USE Longer DEF None
<1>1. ASSUME NEW i \in 1..Len(p), p[i].type \in {"console", "cleared"} PROVE i \in 1..Len(q) /\ p[i] = q[i]
  BY <1>1
<1>2. \A i \in 1..Len(q) : i \in 1..Len(p) /\ p[i] = q[i]
  OBVIOUS
<1>3. \A i \in 1..Len(p) : \A j : j \in i..Len(p) => j \in 1..Len(p)
  OBVIOUS
<1>4. \A i \in 1..Len(q) : \A j : j \in i..Len(q) => j \in 1..Len(q) /\ j \in i..Len(p)
  OBVIOUS
<1>5. \A i, j : i \in 1..Len(q) /\ j \in 1..Len(q) /\ j \in i..Len(p) => j \in i..Len(q)
  OBVIOUS
<1>6. None(p, "cleared") <=> None(q, "cleared")
  BY <1>1, <1>2
<1>7. ASSUME NEW i \in 1..Len(q)
      PROVE  (\A j \in i..Len(p) : p[j].type # "cleared") <=> (\A j \in i..Len(q) : q[j].type # "cleared")
  BY <1>1, <1>2, <1>3, <1>4, <1>5
<1> HIDE Longer DEF None
<1> DEFINE After(s, i) == \A j \in i..Len(s) : s[j].type # "cleared"
           Said(s, i) == s[i].type = "console" /\ s[i].doc = d /\ After(s, i)
<1>8. \A i \in 1..Len(q) : Said(p, i) <=> Said(q, i)
  <2> HIDE DEF After
  <2>1. \A i \in 1..Len(q) : After(p, i) <=> After(q, i)
    BY <1>7 DEF After
  <2> QED BY <1>2, <2>1
<1>9. \A i \in 1..Len(p) : Said(p, i) => i \in 1..Len(q)
  BY <1>1
<1>10. \A s : Logged(d, L, s) <=> (d \in L /\ None(s, "cleared")) \/ \E i \in 1..Len(s) : Said(s, i)
  BY DEF Logged
<1>11. \A i \in 1..Len(q) : i \in 1..Len(p)
  BY <1>2
<1> HIDE DEF Said
<1> QED BY <1>6, <1>8, <1>9, <1>10, <1>11

LEMMA LoggedCleared ==
  ASSUME NEW p \in Seq(Messages), NEW k \in 1..Len(p), p[k].type = "cleared",
         \A i \in k..Len(p) : p[i].type # "console",
         NEW d, NEW L
  PROVE  ~Logged(d, L, p)
<1>1. Len(p) \in Nat
  BY LenProperties
<1>2. ~None(p, "cleared")
  BY DEF None
<1>3. ASSUME NEW i \in 1..Len(p), p[i].type = "console" PROVE k \in i..Len(p)
  BY <1>1, <1>3
<1> QED BY <1>2, <1>3 DEF Logged

LEMMA OneMore ==
  ASSUME NEW S, NEW q \in Seq(S), NEW x \in Seq(S), NEW p, p = q \o x
  PROVE  Len(x) = 1 =>
         /\ Len(q) \in Nat /\ Len(p) = Len(q) + 1 /\ p[Len(q) + 1] = x[1]
         /\ \A i \in 1..Len(q) : p[i] = q[i]
<1>1. /\ Len(q) \in Nat /\ Len(p) = Len(q) + Len(x)
      /\ \A i \in 1..Len(q) : p[i] = q[i]
      /\ \A i \in 1..Len(x) : p[Len(q) + i] = x[i]
  BY Longer
<1>2. Len(x) = 1 => 1 \in 1..Len(x)
  OBVIOUS
<1>3. Len(x) = 1 => p[Len(q) + 1] = x[1]
  BY <1>1, <1>2, Zenon
<1> QED BY <1>1, <1>3

LEMMA LoggedConsole ==
  ASSUME NEW q \in Seq(Messages), NEW x \in Seq(Messages), NEW p, p = q \o x,
         Len(x) = 1, x[1].type = "console",
         NEW d, NEW L, \A e : ~Logged(e, L, q)
  PROVE  Logged(d, L, p) <=> d = x[1].doc
<1>1. /\ Len(q) \in Nat /\ Len(p) = Len(q) + 1 /\ p[Len(q) + 1] = x[1]
      /\ \A i \in 1..Len(q) : p[i] = q[i]
  BY OneMore, SMTT(30)
<1>2. ASSUME d = x[1].doc PROVE Logged(d, L, p)
  BY <1>1, <1>2 DEF Logged
<1>3. ASSUME Logged(d, L, p) PROVE d = x[1].doc
  <2>1. CASE d \in L /\ None(p, "cleared")
    <3>1. None(q, "cleared")
      BY <1>1, <2>1 DEF None
    <3> QED BY <2>1, <3>1 DEF Logged
  <2>2. CASE \E i \in 1..Len(p) : /\ p[i].type = "console" /\ p[i].doc = d
                                  /\ \A j \in i..Len(p) : p[j].type # "cleared"
    <3>1. PICK i \in 1..Len(p) : /\ p[i].type = "console" /\ p[i].doc = d
                                 /\ \A j \in i..Len(p) : p[j].type # "cleared"
      BY <2>2
    <3>2. CASE i \in 1..Len(q)
      <4>1. \A j \in i..Len(q) : j \in i..Len(p) /\ j \in 1..Len(q)
        BY <1>1, <3>2
      <4>2. q[i].type = "console" /\ q[i].doc = d /\ \A j \in i..Len(q) : q[j].type # "cleared"
        BY <1>1, <3>1, <3>2, <4>1
      <4> QED BY <3>2, <4>2 DEF Logged
    <3>3. CASE i = Len(q) + 1
      BY <1>1, <3>1, <3>3
    <3> QED BY <1>1, <3>2, <3>3
  <2> QED BY <1>3, <2>1, <2>2 DEF Logged
<1> QED BY <1>2, <1>3

LEMMA LoggedHead ==
  ASSUME NEW q \in Seq(Messages), q # <<>>, NEW d, NEW L
  PROVE  Logged(d, ConsoleHeard(L, Head(q)), Tail(q)) <=> Logged(d, L, q)
<1> DEFINE m == Head(q)
           s == Tail(q)
<1>1. /\ Len(q) \in Nat \ {0} /\ m = q[1] /\ Len(s) = Len(q) - 1
      /\ \A i \in 1..Len(s) : i + 1 \in 1..Len(q) /\ s[i] = q[i + 1]
      /\ \A i \in 2..Len(q) : i - 1 \in 1..Len(s) /\ q[i] = s[i - 1]
  BY Shorter
<1> HIDE DEF m, s
<1>2. None(q, "cleared") <=> m.type # "cleared" /\ None(s, "cleared")
  <2>1. ASSUME None(q, "cleared") PROVE m.type # "cleared" /\ None(s, "cleared")
    BY <1>1, <2>1 DEF None
  <2>2. ASSUME m.type # "cleared", None(s, "cleared"), NEW i \in 1..Len(q) PROVE q[i].type # "cleared"
    <3>1. CASE i = 1
      BY <1>1, <2>2, <3>1
    <3>2. CASE i \in 2..Len(q)
      BY <1>1, <2>2, <3>2 DEF None
    <3> QED BY <1>1, <3>1, <3>2
  <2> QED BY <2>1, <2>2 DEF None
<1>3. ASSUME NEW i \in 1..Len(s)
      PROVE  (\A j \in i..Len(s) : s[j].type # "cleared") <=> (\A j \in (i + 1)..Len(q) : q[j].type # "cleared")
  <2>1. \A j \in i..Len(s) : j \in 1..Len(s) /\ j + 1 \in (i + 1)..Len(q)
    BY <1>1
  <2>2. \A j \in (i + 1)..Len(q) : j \in 2..Len(q) /\ j - 1 \in i..Len(s)
    BY <1>1
  <2> QED BY <1>1, <2>1, <2>2
<1> DEFINE After(p, i) == \A j \in i..Len(p) : p[j].type # "cleared"
<1>4. (\E i \in 1..Len(s) : s[i].type = "console" /\ s[i].doc = d /\ After(s, i))
      <=> \E i \in 2..Len(q) : q[i].type = "console" /\ q[i].doc = d /\ After(q, i)
  <2>1. \A i \in 1..Len(s) : i + 1 \in 2..Len(q) /\ s[i] = q[i + 1] /\ (After(s, i) <=> After(q, i + 1))
    BY <1>1, <1>3
  <2>2. \A i \in 2..Len(q) : i - 1 \in 1..Len(s) /\ q[i] = s[i - 1] /\ (i - 1) + 1 = i
    BY <1>1
  <2> HIDE DEF After
  <2>3. ASSUME NEW i \in 1..Len(s), s[i].type = "console" /\ s[i].doc = d /\ After(s, i)
        PROVE  i + 1 \in 2..Len(q) /\ q[i + 1].type = "console" /\ q[i + 1].doc = d /\ After(q, i + 1)
    BY <2>1, <2>3
  <2>4. ASSUME NEW i \in 2..Len(q), q[i].type = "console" /\ q[i].doc = d /\ After(q, i)
        PROVE  i - 1 \in 1..Len(s) /\ s[i - 1].type = "console" /\ s[i - 1].doc = d /\ After(s, i - 1)
    BY <2>1, <2>2, <2>4
  <2> QED BY <2>3, <2>4, Zenon
<1>5. (\E i \in 1..Len(q) : q[i].type = "console" /\ q[i].doc = d /\ After(q, i))
      <=> \/ m.type = "console" /\ m.doc = d /\ None(s, "cleared")
          \/ \E i \in 2..Len(q) : q[i].type = "console" /\ q[i].doc = d /\ After(q, i)
  <2>1. ASSUME m.type = "console" PROVE After(q, 1) <=> None(s, "cleared")
    BY <1>1, <1>2, <2>1 DEF None
  <2>2. \A i \in 1..Len(q) : i = 1 \/ i \in 2..Len(q)
    BY <1>1
  <2>3. 1 \in 1..Len(q) /\ \A i \in 2..Len(q) : i \in 1..Len(q)
    BY <1>1
  <2> HIDE DEF After
  <2> QED BY <1>1, <2>1, <2>2, <2>3
<1>6. Logged(d, L, q) <=> \/ d \in L /\ None(q, "cleared")
                          \/ \E i \in 1..Len(q) : q[i].type = "console" /\ q[i].doc = d /\ After(q, i)
  BY DEF Logged
<1>7. \A K : Logged(d, K, s) <=> \/ d \in K /\ None(s, "cleared")
                                 \/ \E i \in 1..Len(s) : s[i].type = "console" /\ s[i].doc = d /\ After(s, i)
  BY DEF Logged
<1>8. d \in ConsoleHeard(L, m) <=> (m.type = "console" /\ d = m.doc) \/ (d \in L /\ m.type # "cleared")
  BY DEF ConsoleHeard
<1> HIDE DEF After
<1> QED BY <1>2, <1>4, <1>5, <1>6, <1>7, <1>8 DEF m, s

\* What is or will be in the network log stays so, until a document is requested.
LEMMA CapturedGrows ==
  ASSUME NEW q \in Seq(Messages), NEW x \in Seq(Messages), NEW p, p = q \o x,
         NEW id, NEW L, \A i \in 1..Len(x) : ~Restarts(x[i]), Captured(id, L, q)
  PROVE  Captured(id, L, p)
<1> USE Longer
<1>1. ASSUME NEW i \in 1..Len(p), Restarts(p[i]) PROVE i \in 1..Len(q) /\ Restarts(q[i])
  BY <1>1
<1>2. \A i \in 1..Len(q) : i \in 1..Len(p) /\ p[i] = q[i]
  OBVIOUS
<1>3. \A i \in 1..Len(q) : \A j : j \in i..Len(p) => j \in 1..Len(p)
  OBVIOUS
<1>4. \A i \in 1..Len(q) : \A j : j \in i..Len(p) /\ j \in 1..Len(q) => j \in i..Len(q)
  OBVIOUS
<1> HIDE Longer
<1>5. CASE id \in L /\ \A i \in 1..Len(q) : ~Restarts(q[i])
  BY <1>1, <1>5 DEF Captured
<1>6. CASE \E i \in 1..Len(q) : /\ q[i].type \in {"response", "failed"} /\ q[i].id = id
                                /\ \A j \in i..Len(q) : ~Restarts(q[j])
  <2>1. PICK i \in 1..Len(q) : /\ q[i].type \in {"response", "failed"} /\ q[i].id = id
                               /\ \A j \in i..Len(q) : ~Restarts(q[j])
    BY <1>6
  <2>2. \A j \in i..Len(p) : ~Restarts(p[j])
    BY <1>1, <1>3, <1>4, <2>1
  <2> QED BY <1>2, <2>1, <2>2 DEF Captured
<1> QED BY <1>5, <1>6 DEF Captured

\* A response or a failure that is sent will be in the log.
LEMMA CapturedNew ==
  ASSUME NEW q \in Seq(Messages), NEW x \in Seq(Messages), NEW p, p = q \o x,
         NEW k \in 1..Len(x), x[k].type \in {"response", "failed"},
         \A i \in k..Len(x) : ~Restarts(x[i]), NEW L
  PROVE  Captured(x[k].id, L, p)
<1>1. /\ Len(q) \in Nat /\ Len(x) \in Nat /\ Len(p) = Len(q) + Len(x)
      /\ Len(q) + k \in 1..Len(p) /\ p[Len(q) + k] = x[k]
      /\ \A i \in 1..Len(p) : i \notin 1..Len(q) => p[i] = x[i - Len(q)]
  BY Longer
<1>2. ASSUME NEW j \in (Len(q) + k)..Len(p) PROVE ~Restarts(p[j])
  <2>1. j \in 1..Len(p) /\ j \notin 1..Len(q) /\ j - Len(q) \in k..Len(x)
    BY <1>1
  <2> QED BY <1>1, <2>1
<1> QED BY <1>1, <1>2 DEF Captured

LEMMA CapturedHead ==
  ASSUME NEW q \in Seq(Messages), q # <<>>, NEW id, NEW L, Captured(id, L, q)
  PROVE  Captured(id, NetworkHeard(L, Head(q)), Tail(q))
<1> DEFINE m == Head(q)
           s == Tail(q)
           K == NetworkHeard(L, m)
<1>1. /\ Len(q) \in Nat \ {0} /\ m = q[1] /\ Len(s) = Len(q) - 1
      /\ \A i \in 1..Len(s) : i + 1 \in 1..Len(q) /\ s[i] = q[i + 1]
      /\ \A i \in 2..Len(q) : i - 1 \in 1..Len(s) /\ q[i] = s[i - 1]
  BY Shorter
<1> HIDE DEF m, s
<1>2. CASE id \in L /\ \A i \in 1..Len(q) : ~Restarts(q[i])
  <2>1. ~Restarts(m) /\ \A i \in 1..Len(s) : ~Restarts(s[i])
    BY <1>1, <1>2
  <2>2. id \in K
    BY <1>2, <2>1 DEF NetworkHeard, Restarts
  <2> QED BY <2>1, <2>2 DEF Captured, m, s
<1>3. CASE \E i \in 1..Len(q) : /\ q[i].type \in {"response", "failed"} /\ q[i].id = id
                                /\ \A j \in i..Len(q) : ~Restarts(q[j])
  <2>1. PICK i \in 1..Len(q) : /\ q[i].type \in {"response", "failed"} /\ q[i].id = id
                               /\ \A j \in i..Len(q) : ~Restarts(q[j])
    BY <1>3
  <2>2. CASE i = 1
    <3>1. \A j \in 1..Len(s) : ~Restarts(s[j])
      BY <1>1, <2>1, <2>2
    <3>2. id \in K
      BY <1>1, <2>1, <2>2 DEF NetworkHeard
    <3> QED BY <3>1, <3>2 DEF Captured, m, s
  <2>3. CASE i \in 2..Len(q)
    <3>1. i - 1 \in 1..Len(s) /\ s[i - 1] = q[i]
      BY <1>1, <2>3
    <3>2. ASSUME NEW j \in (i - 1)..Len(s) PROVE ~Restarts(s[j])
      <4>1. j \in 1..Len(s) /\ j + 1 \in i..Len(q)
        BY <1>1, <2>3
      <4> QED BY <1>1, <2>1, <4>1
    <3> QED BY <2>1, <3>1, <3>2 DEF Captured, m, s
  <2> QED BY <1>1, <2>2, <2>3
<1> QED BY <1>2, <1>3 DEF Captured

\* Chrome's numbers.
LEMMA CountedStep == TypeOK /\ Counted /\ [Next]_vars => Counted'
<1> SUFFICES ASSUME TypeOK, Counted, [Next]_vars PROVE Counted'
  OBVIOUS
<1> USE DEF Counted, chrome
<1>1. doc \in Nat /\ navs \in Nat
  BY NavigationAssumption DEF TypeOK, Docs
<1>2. ASSUME NEW requested \in BOOLEAN, Begin(requested), UNCHANGED doc PROVE Counted'
  <2>1. navs' = navs + 1 /\ pending' = navs'
    BY <1>2 DEF Begin
  <2>2. failed' \subseteq 1..navs
    BY <1>2, <1>1 DEF Begin
  <2>3. fetched' \subseteq 1..navs'
    BY <1>2, <1>1 DEF Begin
  <2> QED BY <1>1, <1>2, <2>1, <2>2, <2>3
<1>3. CASE Commit
  <2>1. pending \in 1..navs /\ failed' \in {failed, failed \cup {pending}}
    <3>1. pending = navs /\ navs # 0
      BY <1>3 DEF Commit
    <3>2. failed' = failed \/ failed' = failed \cup {pending}
      BY <1>3 DEF Commit
    <3> QED BY <1>1, <3>1, <3>2
  <2>2. doc' = pending /\ pending' = 0 /\ navs' = navs /\ fetched' = fetched
    BY <1>3 DEF Commit
  <2>3. failed' \subseteq 1..navs /\ 0 \notin failed'
    BY <1>1, <2>1
  <2> QED BY <1>1, <2>1, <2>2, <2>3
<1>4. CASE Abort
  BY <1>1, <1>4 DEF Abort
<1>5. CASE PageNavigates
  BY <1>2, <1>5 DEF PageNavigates
<1>6. ASSUME NEW c \in Callers, NEW requested \in BOOLEAN, Send(c, requested) PROVE Counted'
  BY <1>2, <1>6 DEF Send
<1>7. ASSUME UNCHANGED <<doc, failed, pending, navs, fetched>> PROVE Counted'
  BY <1>7
<1> QED BY <1>3, <1>4, <1>5, <1>6, <1>7
     DEF Next, Chrome, Page, Caller, vars, PageRewritesURL, Say, SendFetch, EndFetch, Load, Answer,
         Listen, Finish, ContextDone, Dispatch

LEMMA ConsoleStep == TypeOK /\ ConsoleAhead /\ [Next]_vars => ConsoleAhead'
<1> SUFFICES ASSUME TypeOK, ConsoleAhead, [Next]_vars PROVE ConsoleAhead'
  OBVIOUS
<1> USE DEF chrome
<1>0. stream \in Seq(Messages) /\ doc \in Docs
  BY DEF TypeOK
\* Messages that are not about the console, and leave the document as it is.
<1>1. ASSUME NEW x \in Seq(Messages), stream' = stream \o x, UNCHANGED <<doc, said, consoleLogs>>,
             \A i \in 1..Len(x) : x[i].type \notin {"console", "cleared"}
      PROVE  ConsoleAhead'
  <2>1. \A d : Logged(d, consoleLogs, stream') <=> Logged(d, consoleLogs, stream)
    BY <1>0, <1>1, LoggedGrows
  <2> QED BY <1>1, <2>1 DEF ConsoleAhead
<1>2. ASSUME NEW m \in Messages, stream' = Append(stream, m), UNCHANGED <<doc, said, consoleLogs>>,
             m.type \notin {"console", "cleared"}
      PROVE  ConsoleAhead'
  <2>1. PICK x \in Seq(Messages) : stream' = stream \o x /\ Len(x) = 1 /\ x[1] = m
    BY <1>0, <1>2, AppendIsLonger
  <2>2. \A i \in 1..Len(x) : i = 1
    BY <2>1
  <2> QED BY <1>1, <1>2, <2>1, <2>2
<1>3. ASSUME NEW requested \in BOOLEAN, Begin(requested), UNCHANGED <<doc, said, consoleLogs>>
      PROVE  ConsoleAhead'
  <2>1. PICK x \in Seq(Messages) :
          stream' = stream \o x /\ \A i \in 1..Len(x) : x[i].type \in {"failed", "request"}
    BY <1>3, BeginAdds
  <2> QED BY <1>1, <1>3, <2>1
<1>4. CASE PageNavigates
  BY <1>3, <1>4 DEF PageNavigates, logs
<1>5. ASSUME NEW c \in Callers, NEW requested \in BOOLEAN, Send(c, requested) PROVE ConsoleAhead'
  BY <1>3, <1>5 DEF Send, logs
<1>6. CASE PageRewritesURL
  BY <1>2, <1>6, MessageTypes DEF PageRewritesURL, logs
<1>7. CASE Commit
  <2>1. PICK x \in Seq(Messages), n \in {0, 1} :
          /\ stream' = stream \o x /\ Len(x) = n + 3
          /\ x[n + 1].type = "cleared" /\ x[n + 2].type = "navigated" /\ IsInit(x[n + 3], pending)
    BY <1>7, CommitAdds
  <2> DEFINE p == stream'
             k == Len(stream) + n + 1
  <2>3. x[n + 3].type = "init" /\ n \in Nat
    BY <2>1 DEF IsInit
  <2>4. /\ Len(stream) \in Nat /\ Len(p) = Len(stream) + Len(x) /\ p \in Seq(Messages)
        /\ \A i \in 1..Len(x) : p[Len(stream) + i] = x[i]
    BY <1>0, <2>1, Longer
  <2>5. k \in 1..Len(p) /\ p[k].type = "cleared"
    <3>1. n + 1 \in 1..Len(x) /\ k = Len(stream) + (n + 1)
      BY <2>1, <2>3, <2>4
    <3> QED BY <2>1, <2>3, <2>4, <3>1
  <2>6. ASSUME NEW i \in k..Len(p) PROVE p[i].type # "console"
    <3>1. i = Len(stream) + (n + 1) \/ i = Len(stream) + (n + 2) \/ i = Len(stream) + (n + 3)
      BY <2>1, <2>3, <2>4
    <3>2. n + 1 \in 1..Len(x) /\ n + 2 \in 1..Len(x) /\ n + 3 \in 1..Len(x)
      BY <2>1, <2>3
    <3> QED BY <2>1, <2>3, <2>4, <3>1, <3>2
  <2> HIDE DEF p, k
  <2>7. \A d : ~Logged(d, consoleLogs, p)
    BY <2>4, <2>5, <2>6, LoggedCleared
  <2>8. \A d : ~Logged(d, consoleLogs, stream')
    BY <2>7 DEF p
  <2>9. said' = FALSE /\ consoleLogs' = consoleLogs
    BY <1>7 DEF Commit, logs
  <2> QED BY <2>8, <2>9 DEF ConsoleAhead
<1>8. CASE Abort
  <2>1. pending \in Docs /\ TRUE \in BOOLEAN
    BY DEF TypeOK
  <2>2. /\ Failure(pending, TRUE) \in Seq(Messages)
        /\ \A i \in 1..Len(Failure(pending, TRUE)) : Failure(pending, TRUE)[i].type = "failed"
    <3> DEFINE f == Failure(pending, TRUE)
    <3>1. /\ f \in Seq(Messages)
          /\ \A i \in 1..Len(f) : f[i] = [type |-> "failed", id |-> DocRequest(pending), canceled |-> TRUE]
      BY <2>1, FailureType, Zenon
    <3> HIDE DEF f
    <3>2. \A i \in 1..Len(f) : f[i].type = "failed"
      BY <3>1
    <3> QED BY <3>1, <3>2 DEF f
  <2> QED BY <1>1, <1>8, <2>2 DEF Abort, logs
<1>9. CASE Say
  <2> DEFINE m == [type |-> "console", doc |-> doc]
  <2>1. m \in Messages /\ m.type = "console" /\ m.doc = doc
    BY <1>0, MessageTypes
  <2>2. stream' = Append(stream, m) /\ ~said /\ said' /\ doc' = doc /\ consoleLogs' = consoleLogs
    BY <1>9 DEF Say, logs
  <2> HIDE DEF m
  <2>3. PICK x \in Seq(Messages) : stream' = stream \o x /\ Len(x) = 1 /\ x[1] = m
    BY <1>0, <2>1, <2>2, AppendIsLonger
  <2>4. \A e : ~Logged(e, consoleLogs, stream)
    <3>1. ASSUME NEW e, Logged(e, consoleLogs, stream) PROVE e \in Docs
      <4>1. consoleLogs \subseteq Docs
        BY DEF TypeOK
      <4>2. CASE e \in consoleLogs
        BY <4>1, <4>2
      <4>3. CASE \E i \in 1..Len(stream) : stream[i].type = "console" /\ stream[i].doc = e
        BY <1>0, <4>3, ElementOfSeq, MessageFields
      <4> QED BY <3>1, <4>2, <4>3 DEF Logged
    <3> QED BY <2>2, <3>1 DEF ConsoleAhead
  <2>5. \A d : Logged(d, consoleLogs, stream') <=> d = doc
    <3> DEFINE L == consoleLogs
               p == stream'
    <3> HIDE DEF L, p
    <3>1. p = stream \o x /\ (\A e : ~Logged(e, L, stream)) /\ x[1].type = "console" /\ x[1].doc = doc
      BY <2>1, <2>3, <2>4 DEF L, p
    <3>2. \A d : Logged(d, L, p) <=> d = x[1].doc
      BY <1>0, <2>3, <3>1, LoggedConsole
    <3> QED BY <3>1, <3>2 DEF L, p
  <2> QED BY <2>2, <2>5 DEF ConsoleAhead
<1>10. ASSUME NEW kind \in Kinds, SendFetch(kind) PROVE ConsoleAhead'
  <2>1. [type |-> "request", id |-> SubRequest(doc, kind)] \in Messages
    BY <1>0, RequestFields, MessageTypes
  <2> QED BY <1>2, <1>10, <2>1 DEF SendFetch, logs
<1>11. ASSUME NEW kind \in Kinds, EndFetch(kind) PROVE ConsoleAhead'
  <2>1. PICK m \in Messages : stream' = Append(stream, m) /\ m.type \in {"response", "failed"}
    BY <1>11, EndAdds
  <2> QED BY <1>2, <1>11, <2>1 DEF EndFetch, logs
<1>12. CASE Load
  BY <1>0, <1>2, <1>12, MessageTypes DEF Load, logs
<1>13. ASSUME NEW c \in Callers, Answer(c) PROVE ConsoleAhead'
  <2>1. PICK error \in BOOLEAN : stream' = Append(stream, [type |-> "answer", to |-> c, error |-> error])
    BY <1>13 DEF Answer
  <2> DEFINE m == [type |-> "answer", to |-> c, error |-> error]
  <2>2. m \in Messages /\ m.type = "answer"
    BY MessageTypes
  <2>3. stream' = Append(stream, m) /\ UNCHANGED <<doc, said, consoleLogs>>
    BY <1>13, <2>1 DEF Answer, logs
  <2> HIDE DEF m
  <2> QED BY <1>2, <2>2, <2>3
<1>14. CASE Dispatch
  <2>1. /\ stream # <<>> /\ stream' = Tail(stream) /\ consoleLogs' = ConsoleHeard(consoleLogs, Head(stream))
        /\ doc' = doc /\ said' = said
    BY <1>14 DEF Dispatch
  <2>2. \A d : Logged(d, consoleLogs', stream') <=> Logged(d, consoleLogs, stream)
    BY <1>0, <2>1, LoggedHead
  <2> QED BY <2>1, <2>2 DEF ConsoleAhead
<1>15. ASSUME UNCHANGED <<doc, said, stream, consoleLogs>> PROVE ConsoleAhead'
  BY <1>15 DEF ConsoleAhead
<1> QED BY <1>4, <1>5, <1>6, <1>7, <1>8, <1>9, <1>10, <1>11, <1>12, <1>13, <1>14, <1>15
     DEF Next, Chrome, Page, Caller, vars, logs, Listen, Finish, ContextDone

LEMMA NetworkStep == TypeOK /\ Counted /\ NetworkAhead /\ [Next]_vars => NetworkAhead'
<1> SUFFICES ASSUME TypeOK, Counted, NetworkAhead, [Next]_vars PROVE NetworkAhead'
  OBVIOUS
<1> USE DEF chrome
<1>0. stream \in Seq(Messages) /\ doc \in Docs /\ doc \in Nat /\ navs \in Nat
  BY NavigationAssumption DEF TypeOK, Docs
\* Messages that do not start the log anew, while no request of the page ends.
<1>1. ASSUME NEW x \in Seq(Messages), stream' = stream \o x,
             UNCHANGED <<doc, navs, fetched, lost, networkLogs>>,
             \A i \in 1..Len(x) : ~Restarts(x[i]), EndedRequests' = EndedRequests
      PROVE  NetworkAhead'
  <2>1. \A id : Captured(id, networkLogs, stream) => Captured(id, networkLogs, stream')
    BY <1>0, <1>1, CapturedGrows
  <2> QED BY <1>1, <2>1 DEF NetworkAhead
<1>2. ASSUME NEW m \in Messages, stream' = Append(stream, m),
             UNCHANGED <<doc, navs, fetched, fetching, lost, networkLogs>>, ~Restarts(m)
      PROVE  NetworkAhead'
  <2>1. PICK x \in Seq(Messages) : stream' = stream \o x /\ Len(x) = 1 /\ x[1] = m
    BY <1>0, <1>2, AppendIsLonger
  <2>2. \A i \in 1..Len(x) : i = 1
    BY <2>1
  <2>3. EndedRequests' = EndedRequests
    BY <1>2 DEF EndedRequests
  <2> QED BY <1>1, <1>2, <2>1, <2>2, <2>3
<1>3. ASSUME NEW requested \in BOOLEAN, Begin(requested), UNCHANGED doc
      PROVE  NetworkAhead'
  <2>1. doc' # navs'
    BY <1>0, <1>3 DEF Begin, Counted
  <2> QED BY <2>1 DEF NetworkAhead
<1>4. CASE PageNavigates
  BY <1>3, <1>4 DEF PageNavigates
<1>5. ASSUME NEW c \in Callers, NEW requested \in BOOLEAN, Send(c, requested) PROVE NetworkAhead'
  BY <1>3, <1>5 DEF Send
<1>6. CASE PageRewritesURL
  BY <1>2, <1>6, MessageTypes DEF PageRewritesURL, logs, Restarts
<1>7. CASE Commit
  <2>1. PICK x \in Seq(Messages), k \in {0, 1} :
          /\ stream' = stream \o x /\ Len(x) = k + 3
          /\ k = 1 => x[1].type \in {"response", "failed"} /\ x[1].id = DocRequest(pending)
          /\ x[k + 1].type = "cleared" /\ x[k + 2].type = "navigated" /\ IsInit(x[k + 3], pending)
          /\ pending \in fetched => k = 1
    BY <1>7, CommitAdds
  <2>2. /\ doc' = pending /\ navs' = navs /\ fetched' = fetched /\ networkLogs' = networkLogs
        /\ fetching' = [kind \in Kinds |-> "none"]
    BY <1>7 DEF Commit, logs
  <2>3. ASSUME pending \in fetched PROVE Captured(DocRequest(pending), networkLogs, stream')
    <3>1. /\ Len(x) = 4 /\ x[1].type \in {"response", "failed"} /\ x[1].id = DocRequest(pending)
          /\ x[2].type = "cleared" /\ x[3].type = "navigated" /\ x[4].type = "init"
      BY <2>1, <2>3 DEF IsInit
    <3>2. 1 \in 1..Len(x) /\ \A i \in 1..Len(x) : i = 1 \/ i = 2 \/ i = 3 \/ i = 4
      BY <3>1
    <3>3. \A i \in 1..Len(x) : ~Restarts(x[i])
      BY <3>1, <3>2 DEF Restarts
    <3> DEFINE p == stream'
               L == networkLogs
    <3>4. p = stream \o x
      BY <2>1
    <3> HIDE DEF p, L
    <3>5. Captured(x[1].id, L, p)
      BY <1>0, <3>1, <3>2, <3>3, <3>4, CapturedNew
    <3> QED BY <3>1, <3>5 DEF p, L
  <2>4. EndedRequests' = {DocRequest(n) : n \in {pending} \cap fetched}
    BY <2>2 DEF EndedRequests
  <2> QED BY <2>2, <2>3, <2>4 DEF NetworkAhead
<1>8. CASE Abort
  <2>1. pending \in Docs /\ TRUE \in BOOLEAN
    BY DEF TypeOK
  <2>2. /\ Failure(pending, TRUE) \in Seq(Messages)
        /\ \A i \in 1..Len(Failure(pending, TRUE)) : Failure(pending, TRUE)[i].type = "failed"
    <3> DEFINE f == Failure(pending, TRUE)
    <3>1. /\ f \in Seq(Messages)
          /\ \A i \in 1..Len(f) : f[i] = [type |-> "failed", id |-> DocRequest(pending), canceled |-> TRUE]
      BY <2>1, FailureType, Zenon
    <3> HIDE DEF f
    <3>2. \A i \in 1..Len(f) : f[i].type = "failed"
      BY <3>1
    <3> QED BY <3>1, <3>2 DEF f
  <2>3. EndedRequests' = EndedRequests
    BY <1>8 DEF Abort, EndedRequests
  <2> QED BY <1>1, <1>8, <2>2, <2>3 DEF Abort, logs, Restarts
<1>9. CASE Say
  BY <1>0, <1>2, <1>9, MessageTypes DEF Say, logs, Restarts
\* The request of a frame: what has ended is lost, so nothing is promised of it.
<1>10. ASSUME NEW kind \in Kinds, SendFetch(kind) PROVE NetworkAhead'
  <2>1. EndedRequests' = EndedRequests
    BY <1>10 DEF SendFetch, EndedRequests, TypeOK
  <2>2. CASE kind = "frame"
    <3>1. lost' = EndedRequests
      BY <1>10, <2>2 DEF SendFetch
    <3> QED BY <2>1, <3>1 DEF NetworkAhead
  <2>3. CASE kind # "frame"
    <3> DEFINE m == [type |-> "request", id |-> SubRequest(doc, kind)]
    <3>1. m \in Messages /\ ~Restarts(m)
      BY <1>0, <2>3, RequestFields, MessageTypes DEF Restarts
    <3>2. stream' = Append(stream, m) /\ UNCHANGED <<doc, navs, fetched, lost, networkLogs>>
      BY <1>10, <2>3 DEF SendFetch, logs
    <3> HIDE DEF m
    <3>3. PICK x \in Seq(Messages) : stream' = stream \o x /\ Len(x) = 1 /\ x[1] = m
      BY <1>0, <3>1, <3>2, AppendIsLonger
    <3>4. \A i \in 1..Len(x) : i = 1
      BY <3>3
    <3> QED BY <1>1, <2>1, <3>1, <3>2, <3>3, <3>4
  <2> QED BY <2>2, <2>3
<1>11. ASSUME NEW kind \in Kinds, EndFetch(kind) PROVE NetworkAhead'
  <2>1. PICK m \in Messages : /\ stream' = Append(stream, m)
                              /\ m.type \in {"response", "failed"} /\ m.id = SubRequest(doc, kind)
    BY <1>11, EndAdds
  <2>2. UNCHANGED <<doc, navs, fetched, lost, networkLogs>>
    BY <1>11 DEF EndFetch, logs
  <2>3. PICK x \in Seq(Messages) : stream' = stream \o x /\ Len(x) = 1 /\ x[1] = m
    BY <1>0, <2>1, AppendIsLonger
  <2> DEFINE p == stream'
             L == networkLogs
  <2>4. p = stream \o x
    BY <2>3
  <2> HIDE DEF p, L
  <2>5. 1 \in 1..Len(x) /\ \A i \in 1..Len(x) : ~Restarts(x[i])
    BY <2>1, <2>3 DEF Restarts
  <2>6. Captured(x[1].id, L, p)
    <3>1. x[1].type \in {"response", "failed"}
      BY <2>1, <2>3
    <3> QED BY <1>0, <2>4, <2>5, <3>1, CapturedNew
  <2>7. \A id : Captured(id, L, stream) => Captured(id, L, p)
    BY <1>0, <2>4, <2>5, CapturedGrows
  <2>8. \A id \in EndedRequests' : id \in EndedRequests \/ id = SubRequest(doc, kind)
    BY <1>11 DEF EndFetch, EndedRequests, TypeOK
  <2> QED BY <2>1, <2>2, <2>3, <2>6, <2>7, <2>8 DEF NetworkAhead, p, L
<1>12. CASE Load
  BY <1>0, <1>2, <1>12, MessageTypes DEF Load, logs, Restarts
<1>13. ASSUME NEW c \in Callers, Answer(c) PROVE NetworkAhead'
  <2>1. PICK error \in BOOLEAN : stream' = Append(stream, [type |-> "answer", to |-> c, error |-> error])
    BY <1>13 DEF Answer
  <2> DEFINE m == [type |-> "answer", to |-> c, error |-> error]
  <2>2. m \in Messages /\ ~Restarts(m)
    BY MessageTypes DEF Restarts
  <2>3. stream' = Append(stream, m) /\ UNCHANGED <<doc, navs, fetched, fetching, lost, networkLogs>>
    BY <1>13, <2>1 DEF Answer, logs
  <2> HIDE DEF m
  <2> QED BY <1>2, <2>2, <2>3
<1>14. CASE Dispatch
  <2>1. /\ stream # <<>> /\ stream' = Tail(stream) /\ networkLogs' = NetworkHeard(networkLogs, Head(stream))
        /\ UNCHANGED <<doc, navs, fetched, fetching, lost>>
    BY <1>14 DEF Dispatch
  <2>2. \A id : Captured(id, networkLogs, stream) => Captured(id, networkLogs', stream')
    BY <1>0, <2>1, CapturedHead
  <2>3. EndedRequests' = EndedRequests
    BY <2>1 DEF EndedRequests
  <2> QED BY <2>1, <2>2, <2>3 DEF NetworkAhead
<1>15. ASSUME UNCHANGED <<doc, navs, fetched, fetching, lost, stream, networkLogs>> PROVE NetworkAhead'
  BY <1>15 DEF NetworkAhead, EndedRequests
<1> QED BY <1>4, <1>5, <1>6, <1>7, <1>8, <1>9, <1>10, <1>11, <1>12, <1>13, <1>14, <1>15
     DEF Next, Chrome, Page, Caller, vars, logs, Listen, Finish, ContextDone

THEOREM LogsInvariant == Spec => [](TypeOK /\ LogsInv)
<1>1. Init => TypeOK
  BY TypeInit
<1>2. Init => LogsInv
  <2> SUFFICES ASSUME Init PROVE LogsInv
    OBVIOUS
  <2>1. Len(stream) = 0
    BY EmptySeq DEF Init
  <2>2. Counted /\ NetworkAhead
    <3>1. EndedRequests = {}
      BY DEF Init, EndedRequests
    <3> QED BY <3>1 DEF Init, Counted, NetworkAhead
  <2>3. ConsoleAhead
    BY <2>1 DEF Init, ConsoleAhead, Logged
  <2> QED BY <2>2, <2>3 DEF LogsInv
<1>3. TypeOK /\ LogsInv /\ [Next]_vars => TypeOK' /\ LogsInv'
  BY TypeStep, CountedStep, ConsoleStep, NetworkStep DEF LogsInv
<1> QED BY <1>1, <1>2, <1>3, PTL DEF Spec

\* When every message has been handled, the console and error logs are those of the
\* document shown, and the network log has its request and those it made, as far as no
\* frame in it has loaded since: whoever navigates and however their navigations overlap.
THEOREM LogsAreOfPage == Spec => []LogsOfPage
<1>1. TypeOK /\ LogsInv => LogsOfPage
  <2> SUFFICES ASSUME TypeOK, LogsInv, stream = <<>>
               PROVE  /\ consoleLogs = IF said THEN {doc} ELSE {}
                      /\ doc = navs => EndedRequests \ lost \subseteq networkLogs
    BY DEF LogsOfPage
  <2>1. Len(stream) = 0
    BY EmptySeq
  <2>2. \A x : Logged(x, consoleLogs, stream) <=> x \in consoleLogs
    BY <2>1 DEF Logged, None
  <2>3. \A id : Captured(id, networkLogs, stream) => id \in networkLogs
    BY <2>1 DEF Captured
  <2>4. consoleLogs \subseteq Docs /\ doc \in Docs
    BY DEF TypeOK
  <2>5. consoleLogs = IF said THEN {doc} ELSE {}
    BY <2>2, <2>4 DEF LogsInv, ConsoleAhead
  <2> QED BY <2>3, <2>5 DEF LogsInv, NetworkAhead
<1> QED BY <1>1, LogsInvariant, PTL

-----------------------------------------------------------------------------
(***************************************************************************)
(* Messages behind those on their way.                                     *)
(***************************************************************************)
LEMMA NoneGrows ==
  ASSUME NEW q \in Seq(Messages), NEW x \in Seq(Messages), NEW p, p = q \o x, NEW type
  PROVE  None(p, type) <=> None(q, type) /\ None(x, type)
<1>1. \A i \in 1..Len(q) : i \in 1..Len(p) /\ p[i] = q[i]
  BY Longer
<1>2. \A i \in 1..Len(x) : Len(q) + i \in 1..Len(p) /\ p[Len(q) + i] = x[i]
  BY Longer
<1>3. \A i \in 1..Len(p) : i \notin 1..Len(q) => i - Len(q) \in 1..Len(x) /\ p[i] = x[i - Len(q)]
  BY Longer
<1>4. ASSUME None(p, type), NEW i \in 1..Len(x) PROVE x[i].type # type
  <2>1. p[Len(q) + i].type # type
    BY <1>2, <1>4 DEF None
  <2> QED BY <1>2, <2>1
<1>5. ASSUME None(p, type) PROVE None(q, type)
  BY <1>1, <1>5 DEF None
<1>6. ASSUME None(q, type), None(x, type), NEW i \in 1..Len(p) PROVE p[i].type # type
  <2>1. CASE i \in 1..Len(q)
    BY <1>1, <1>6, <2>1 DEF None
  <2>2. CASE i \notin 1..Len(q)
    BY <1>3, <1>6, <2>2 DEF None
  <2> QED BY <2>1, <2>2
<1> QED BY <1>4, <1>5, <1>6 DEF None

LEMMA EarlyGrows ==
  ASSUME NEW q \in Seq(Messages), NEW x \in Seq(Messages), NEW p, p = q \o x,
         NEW j \in 1..Len(q)
  PROVE  Early(p, j) <=> Early(q, j)
<1>1. /\ Len(q) \in Nat /\ j \in 1..Len(p) /\ p[j] = q[j]
      /\ \A i \in 1..Len(q) : i \in 1..Len(p) /\ p[i] = q[i]
  BY Longer
<1>2. \A l \in 1..j : l \in 1..Len(q)
  BY <1>1
<1> QED BY <1>1, <1>2 DEF Early

LEMMA CancelGrows ==
  ASSUME NEW q \in Seq(Messages), NEW x \in Seq(Messages), NEW p, p = q \o x,
         NEW i \in Nat \ {0}, NEW n, CancelAhead(q, i, n)
  PROVE  CancelAhead(p, i, n)
<1>1. PICK j \in i..Len(q) : IsCancel(q[j], n) /\ Early(q, j)
  BY DEF CancelAhead
<1>2. j \in 1..Len(q)
  BY LenProperties
<1>3. p[j] = q[j] /\ j \in i..Len(p)
  <2>1. /\ Len(q) \in Nat /\ Len(p) \in Nat
        /\ \A k \in 1..Len(q) : k \in 1..Len(p) /\ p[k] = q[k]
    BY Longer
  <2> QED BY <1>2, <2>1
<1> QED BY <1>1, <1>2, <1>3, EarlyGrows DEF CancelAhead

LEMMA AsksGrows ==
  ASSUME NEW q \in Seq(Messages), NEW x \in Seq(Messages), NEW p, p = q \o x, NEW n
  PROVE  Asks(p, n) <=> Asks(q, n) \/ Asks(x, n)
<1>1. \A i \in 1..Len(q) : i \in 1..Len(p) /\ p[i] = q[i]
  BY Longer
<1>2. \A i \in 1..Len(x) : Len(q) + i \in 1..Len(p) /\ p[Len(q) + i] = x[i]
  BY Longer
<1>3. \A i \in 1..Len(p) : i \notin 1..Len(q) => i - Len(q) \in 1..Len(x) /\ p[i] = x[i - Len(q)]
  BY Longer
<1>4. ASSUME Asks(p, n) PROVE Asks(q, n) \/ Asks(x, n)
  <2>1. PICK i \in 1..Len(p) : IsRequest(p[i], n)
    BY <1>4 DEF Asks
  <2>2. CASE i \in 1..Len(q)
    BY <1>1, <2>1, <2>2 DEF Asks
  <2>3. CASE i \notin 1..Len(q)
    BY <1>3, <2>1, <2>3 DEF Asks
  <2> QED BY <2>2, <2>3
<1>5. ASSUME Asks(q, n) PROVE Asks(p, n)
  BY <1>1, <1>5 DEF Asks
<1>6. ASSUME Asks(x, n) PROVE Asks(p, n)
  BY <1>2, <1>6 DEF Asks
<1> QED BY <1>4, <1>5, <1>6

LEMMA FailureGrows ==
  ASSUME NEW q \in Seq(Messages), NEW x \in Seq(Messages), NEW p, p = q \o x, NEW r,
         FailureAhead(r, q)
  PROVE  FailureAhead(r, p)
<1>1. PICK j \in 1..Len(q) :
        /\ IsFailure(q[j], r.nav) /\ Early(q, j)
        /\ Known(r) \/ \E i \in 1..j : IsRequest(q[i], r.nav)
  BY DEF FailureAhead
<1>2. /\ Len(q) \in Nat /\ \A k \in 1..Len(q) : k \in 1..Len(p) /\ p[k] = q[k]
  BY Longer
<1>3. \A i \in 1..j : i \in 1..Len(q)
  BY <1>2
<1>4. Early(p, j)
  BY <1>1, EarlyGrows
<1>5. Known(r) \/ \E i \in 1..j : IsRequest(p[i], r.nav)
  BY <1>1, <1>2, <1>3
<1>6. j \in 1..Len(p) /\ IsFailure(p[j], r.nav)
  BY <1>1, <1>2
<1> QED BY <1>4, <1>5, <1>6 DEF FailureAhead

\* A failure that is sent before any page shows, when the request was or is before it.
LEMMA FailureNew ==
  ASSUME NEW q \in Seq(Messages), NEW x \in Seq(Messages), NEW p, p = q \o x, NEW r,
         NEW k \in 1..Len(x), IsFailure(x[k], r.nav), \A i \in 1..k : x[i].type # "init",
         None(q, "init"), Known(r) \/ Asks(q, r.nav)
  PROVE  FailureAhead(r, p)
<1>1. /\ Len(q) \in Nat /\ Len(x) \in Nat
      /\ \A i \in 1..Len(q) : i \in 1..Len(p) /\ p[i] = q[i]
      /\ \A i \in 1..Len(x) : Len(q) + i \in 1..Len(p) /\ p[Len(q) + i] = x[i]
      /\ \A i \in 1..Len(p) : i \notin 1..Len(q) => i - Len(q) \in 1..Len(x) /\ p[i] = x[i - Len(q)]
      /\ Len(p) \in Nat
  BY Longer
<1> DEFINE j == Len(q) + k
<1>2. j \in 1..Len(p) /\ IsFailure(p[j], r.nav)
  BY <1>1
<1>3. ASSUME NEW l \in 1..j PROVE p[l].type # "init"
  <2>1. CASE l \in 1..Len(q)
    BY <1>1, <2>1 DEF None
  <2>2. CASE l \notin 1..Len(q)
    <3>1. l \in 1..Len(p) /\ l - Len(q) \in 1..k
      BY <1>1, <1>2, <2>2
    <3> QED BY <1>1, <2>2, <3>1
  <2> QED BY <2>1, <2>2
<1>4. Known(r) \/ \E i \in 1..j : IsRequest(p[i], r.nav)
  <2>1. \A i \in 1..Len(q) : i \in 1..j
    BY <1>1
  <2> QED BY <1>1, <2>1 DEF Asks
<1>5. Early(p, j)
  BY <1>3 DEF Early
<1> HIDE DEF j
<1> QED BY <1>2, <1>4, <1>5 DEF FailureAhead

LEMMA RequestsGrow ==
  ASSUME NEW q \in Seq(Messages), NEW x \in Seq(Messages), NEW p, p = q \o x,
         NEW s \in Pages, NEW t \in Pages, RequestsEnd(q, s), s.fetched \subseteq t.fetched,
         \A i \in 1..Len(x), n \in Navs : IsRequest(x[i], n) => n \in t.fetched /\ n = t.pending,
         t.pending = s.pending \/ s.pending = 0 \/ \E i \in 1..Len(x) : Ends(x[i], s.pending)
  PROVE  RequestsEnd(p, t)
<1>1. /\ p \in Seq(Messages) /\ Len(p) = Len(q) + Len(x)
      /\ Len(q) \in Nat /\ Len(x) \in Nat /\ Len(p) \in Nat
      /\ \A i \in 1..Len(q) : i \in 1..Len(p) /\ p[i] = q[i]
      /\ \A i \in 1..Len(x) : Len(q) + i \in 1..Len(p) /\ p[Len(q) + i] = x[i]
      /\ \A i \in 1..Len(p) : i \notin 1..Len(q) =>
           i > Len(q) /\ i - Len(q) \in 1..Len(x) /\ p[i] = x[i - Len(q)]
  BY Longer, SMTT(30)
<1> SUFFICES ASSUME NEW i \in 1..Len(p), NEW n \in Navs, IsRequest(p[i], n)
             PROVE  n \in t.fetched /\ (n = t.pending \/ \E j \in i..Len(p) : Ends(p[j], n))
  BY DEF RequestsEnd
<1>2. CASE i \in 1..Len(q)
  <2>1. n \in s.fetched /\ (n = s.pending \/ \E j \in i..Len(q) : Ends(q[j], n))
    BY <1>1, <1>2 DEF RequestsEnd
  <2>2. CASE \E j \in i..Len(q) : Ends(q[j], n)
    <3>1. PICK j \in i..Len(q) : Ends(q[j], n)
      BY <2>2
    <3>2. j \in 1..Len(q) /\ j \in i..Len(p)
      BY <1>1, <1>2
    <3> QED BY <1>1, <2>1, <3>1, <3>2
  <2>3. CASE n = s.pending
    <3>1. n # 0
      BY DEF Navs
    <3>2. CASE \E k \in 1..Len(x) : Ends(x[k], s.pending)
      <4>1. PICK k \in 1..Len(x) : Ends(x[k], s.pending)
        BY <3>2
      <4>2. Len(q) + k \in i..Len(p)
        BY <1>1, <1>2
      <4> QED BY <1>1, <2>1, <2>3, <4>1, <4>2
    <3> QED BY <2>1, <2>3, <3>1, <3>2
  <2> QED BY <2>1, <2>2, <2>3
<1>3. CASE i \notin 1..Len(q)
  BY <1>1, <1>3
<1> QED BY <1>2, <1>3

LEMMA LoadsGrow ==
  ASSUME NEW q \in Seq(Messages), NEW x \in Seq(Messages), NEW p, p = q \o x,
         NEW s \in Pages, NEW t \in Pages, LoadsInOrder(q, s),
         s.doc <= t.doc, s.doc = t.doc => (s.loaded => t.loaded),
         \A i \in 1..Len(x) : x[i].type \in {"load", "init"} => x[i].doc = t.doc,
         \A i \in 1..Len(x) : x[i].type = "load" => t.loaded
  PROVE  LoadsInOrder(p, t)
<1>1. /\ Len(q) \in Nat /\ Len(x) \in Nat /\ Len(p) \in Nat /\ p \in Seq(Messages)
      /\ \A i \in 1..Len(q) : i \in 1..Len(p) /\ p[i] = q[i]
      /\ \A i \in 1..Len(p) : i \notin 1..Len(q) => i - Len(q) \in 1..Len(x) /\ p[i] = x[i - Len(q)]
  BY Longer
<1>2. s.doc \in Nat /\ t.doc \in Nat
  BY NavigationAssumption DEF Pages, Docs
<1>3. \A i \in 1..Len(p) : p[i].type \in {"load", "init"} => p[i].doc \in Nat
  BY <1>1, ElementOfSeq, MessageFields, NavigationAssumption DEF Docs
<1>4. \A i \in 1..Len(p) : p[i].type \in {"load", "init"} => p[i].doc <= t.doc
  <2> SUFFICES ASSUME NEW i \in 1..Len(p), p[i].type \in {"load", "init"} PROVE p[i].doc <= t.doc
    OBVIOUS
  <2>1. CASE i \in 1..Len(q)
    <3>1. p[i] = q[i] /\ p[i].doc \in Nat /\ q[i].doc <= s.doc
      BY <1>1, <1>3, <2>1 DEF LoadsInOrder
    <3> QED BY <1>2, <3>1
  <2>2. CASE i \notin 1..Len(q)
    <3>1. i - Len(q) \in 1..Len(x) /\ p[i] = x[i - Len(q)]
      BY <1>1, <2>2
    <3>2. p[i].doc = t.doc
      BY <3>1
    <3> QED BY <1>2, <3>2
  <2> QED BY <2>1, <2>2
<1>5. ASSUME NEW i \in 1..Len(p), p[i].type = "load", p[i].doc = t.doc PROVE t.loaded
  <2>1. CASE i \in 1..Len(q)
    <3>1. p[i] = q[i] /\ q[i].doc <= s.doc /\ (q[i].doc = s.doc => s.loaded)
      BY <1>1, <1>5, <2>1 DEF LoadsInOrder
    <3> QED BY <1>2, <1>5, <3>1
  <2>2. CASE i \notin 1..Len(q)
    BY <1>1, <1>5, <2>2
  <2> QED BY <2>1, <2>2
<1>6. ASSUME NEW i \in 1..Len(p), p[i].type = "init", NEW j \in i..Len(p), p[j].type = "load"
      PROVE  p[i].doc <= p[j].doc
  <2>0. j \in 1..Len(p)
    BY <1>1
  <2>1. CASE j \in 1..Len(q)
    <3>1. i \in 1..Len(q) /\ j \in i..Len(q)
      BY <1>1, <2>1
    <3> QED BY <1>1, <1>6, <2>1, <3>1 DEF LoadsInOrder
  <2>2. CASE j \notin 1..Len(q)
    <3>1. p[j].doc = t.doc
      BY <1>1, <1>6, <2>0, <2>2
    <3> QED BY <1>4, <1>6, <3>1
  <2> QED BY <2>1, <2>2
<1> QED BY <1>4, <1>5, <1>6 DEF LoadsInOrder

-----------------------------------------------------------------------------
(***************************************************************************)
(* A caller that waits, while Chrome goes on.                              *)
(***************************************************************************)
\* Page s becomes t and sends x: messages of the page, or the failure of a navigation
\* that is aborted.
GoesOn(x, s, t) ==
  /\ t.doc = s.doc /\ t.navs = s.navs /\ t.fetched = s.fetched /\ (s.loaded => t.loaded)
  /\ \A i \in 1..Len(x) : /\ x[i].type \notin {"init", "within"}
                          /\ x[i].type = "load" => x[i].doc = s.doc
                          /\ \A n \in Navs : ~IsRequest(x[i], n)
  /\ (t.pending = s.pending /\ t.failed = s.failed)
       \/ /\ s.pending \in s.fetched /\ t.pending = 0 /\ t.failed = s.failed \cup {s.pending}
          /\ Len(x) = 1 /\ IsFailure(x[1], s.pending)

LEMMA WaitsGrow ==
  ASSUME NEW r \in CallerStates, NEW q \in Seq(Messages), NEW x \in Seq(Messages), NEW p, p = q \o x,
         NEW s \in Pages, NEW t \in Pages, Numbered(s), Waits(r, q, s), GoesOn(x, s, t)
  PROVE  Waits(r, p, t)
<1> SUFFICES ASSUME t.doc = s.doc, t.navs = s.navs, t.fetched = s.fetched, s.loaded => t.loaded,
                    \A i \in 1..Len(x) : /\ x[i].type \notin {"init", "within"}
                                         /\ x[i].type = "load" => x[i].doc = s.doc
                                         /\ \A n \in Navs : ~IsRequest(x[i], n),
                    (t.pending = s.pending /\ t.failed = s.failed)
                      \/ /\ s.pending \in s.fetched /\ t.pending = 0 /\ t.failed = s.failed \cup {s.pending}
                         /\ Len(x) = 1 /\ IsFailure(x[1], s.pending)
             PROVE  Waits(r, p, t)
  BY DEF GoesOn
<1>0. /\ r.nav \in Docs /\ r.nav \in Nat /\ r.loader \in Docs /\ s.doc \in Nat /\ s.navs \in Nat
      /\ s.fetched \subseteq Navs /\ 0 \notin Navs
  BY NavigationAssumption DEF CallerStates, Pages, Docs, Navs
<1>1. /\ Len(q) \in Nat /\ Len(x) \in Nat /\ Len(p) \in Nat
      /\ \A i \in 1..Len(q) : i \in 1..Len(p) /\ p[i] = q[i]
      /\ \A i \in 1..Len(p) : i \notin 1..Len(q) => i - Len(q) \in 1..Len(x) /\ p[i] = x[i - Len(q)]
  BY Longer
<1>2. Place(r, p, t)
  <2>1. None(x, "within")
    BY DEF None
  <2>2. None(p, "within")
    BY <2>1, NoneGrows DEF Waits, Place
  <2> QED BY <2>2 DEF Waits, Place
<1>3. Shown(r, p, t)
  <2> SUFFICES ASSUME NEW i \in 1..Len(p), p[i].type = "init"
               PROVE  /\ r.nav # 0 /\ p[i].doc = r.nav /\ t.doc = r.nav
                      /\ r.frame \/ \E j \in 1..i : p[j].type = "navigated"
    BY DEF Shown
  <2>1. i \in 1..Len(q)
    BY <1>1
  <2>2. \A j \in 1..i : j \in 1..Len(q)
    BY <1>1, <2>1
  <2>3. q[i] = p[i] /\ \A j \in 1..i : q[j] = p[j]
    BY <1>1, <2>1, <2>2
  <2>4. /\ r.nav # 0 /\ q[i].doc = r.nav /\ s.doc = r.nav
        /\ r.frame \/ \E j \in 1..i : q[j].type = "navigated"
    BY <2>1, <2>3 DEF Waits, Shown
  <2> QED BY <2>3, <2>4
<1>4. Loader(r, p, t)
  <2>1. CancelAhead(q, 1, r.loader) => CancelAhead(p, 1, r.loader)
    <3>1. 1 \in Nat \ {0}
      OBVIOUS
    <3> QED BY <3>1, CancelGrows
  <2> QED BY <2>1 DEF Waits, Loader
<1>5. Strangers(r, p)
  <2> SUFFICES ASSUME NEW i \in 1..Len(p), NEW n \in Navs, IsRequest(p[i], n), n # r.nav
               PROVE  CancelAhead(p, i, n)
    BY DEF Strangers
  <2>1. i \in 1..Len(q) /\ i \in Nat \ {0}
    <3>1. ASSUME i \notin 1..Len(q) PROVE FALSE
      <4>1. i - Len(q) \in 1..Len(x) /\ p[i] = x[i - Len(q)]
        BY <1>1, <3>1
      <4> DEFINE l == i - Len(q)
      <4>2. l \in 1..Len(x) /\ IsRequest(x[l], n)
        BY <4>1
      <4> HIDE DEF l
      <4> QED BY <4>2
    <3>2. i \in Nat \ {0}
      BY <1>1
    <3> QED BY <3>1, <3>2
  <2>2. CancelAhead(q, i, n)
    BY <1>1, <2>1 DEF Waits, Strangers
  <2> QED BY <2>1, <2>2, CancelGrows
<1>6. Requested(r, p, t)
  <2>1. Asks(q, r.nav) => Asks(p, r.nav)
    BY AsksGrows
  <2>2. r.nav \in t.fetched /\ t.pending = r.nav => s.pending = r.nav
    BY <1>0
  <2> QED BY <2>1, <2>2 DEF Waits, Requested
<1>7. Failing(r, p, t)
  <2> SUFFICES ASSUME r.nav \in t.failed, ~r.err, r.loader \in {0, r.nav}
               PROVE  ~r.init /\ (FailureKept(r) \/ FailureAhead(r, p))
    BY DEF Failing
  <2>1. CASE r.nav \in s.failed
    <3>1. ~r.init /\ (FailureKept(r) \/ FailureAhead(r, q))
      BY <2>1 DEF Waits, Failing
    <3> QED BY <3>1, FailureGrows
  <2>2. CASE r.nav \notin s.failed
    <3>1. /\ s.pending \in s.fetched /\ r.nav = s.pending /\ Len(x) = 1 /\ IsFailure(x[1], r.nav)
          /\ s.doc # r.nav
      BY <1>0, <2>2 DEF Numbered
    <3>2. ~r.init
      BY <3>1 DEF Waits, Seen, Ended
    <3>3. None(q, "init")
      BY <3>1 DEF Waits, Shown, None
    <3>4. Known(r) \/ Asks(q, r.nav)
      BY <3>1 DEF Waits, Requested
    <3>5. 1 \in 1..Len(x) /\ \A i \in 1..1 : x[i].type # "init"
      BY <3>1
    <3>6. FailureAhead(r, p)
      BY <3>1, <3>3, <3>4, <3>5, FailureNew
    <3> QED BY <3>2, <3>6
  <2> QED BY <2>1, <2>2
<1>8. Seen(r, p, t)
  <2> SUFFICES ASSUME r.init, ~r.finished
               PROVE  /\ r.nav # 0 /\ r.loader = r.nav /\ t.doc = r.nav /\ (r.nav \in t.failed => r.err)
                      /\ \A i \in 1..Len(p) : p[i].type = "load" => r.nav <= p[i].doc
    BY DEF Seen
  <2>1. /\ r.nav # 0 /\ r.loader = r.nav /\ s.doc = r.nav /\ (r.nav \in s.failed => r.err)
        /\ \A i \in 1..Len(q) : q[i].type = "load" => r.nav <= q[i].doc
    BY DEF Waits, Seen
  <2>2. r.nav \in t.failed => r.nav \in s.failed
    BY <1>0, <2>1 DEF Numbered
  <2>3. ASSUME NEW i \in 1..Len(p), p[i].type = "load" PROVE r.nav <= p[i].doc
    <3>1. CASE i \in 1..Len(q)
      BY <1>1, <2>1, <2>3, <3>1
    <3>2. CASE i \notin 1..Len(q)
      <4>1. i - Len(q) \in 1..Len(x) /\ p[i] = x[i - Len(q)]
        BY <1>1, <2>3, <3>2
      <4> DEFINE l == i - Len(q)
      <4>2. l \in 1..Len(x) /\ p[i] = x[l] /\ x[l].type = "load"
        BY <2>3, <4>1
      <4> HIDE DEF l
      <4>3. p[i].doc = s.doc
        BY <4>2
      <4> QED BY <1>0, <2>1, <4>3
    <3> QED BY <3>1, <3>2
  <2> QED BY <2>1, <2>2, <2>3
<1>9. Ended(r, t)
  <2> SUFFICES ASSUME r.finished, ~r.err
               PROVE  r.nav # 0 /\ r.nav \notin t.failed /\ t.doc = r.nav /\ t.loaded
    BY DEF Ended
  <2>1. r.nav # 0 /\ r.nav \notin s.failed /\ s.doc = r.nav /\ s.loaded
    BY DEF Waits, Ended
  <2> QED BY <1>0, <2>1 DEF Numbered
<1> QED BY <1>2, <1>3, <1>4, <1>5, <1>6, <1>7, <1>8, <1>9 DEF Waits

\* The page of its navigation is shown.
LEMMA WaitsCommit ==
  ASSUME NEW r \in CallerStates, NEW q \in Seq(Messages), NEW x \in Seq(Messages), NEW p, p = q \o x,
         NEW s \in Pages, NEW t \in Pages, Numbered(s), Waits(r, q, s), NEW n \in {0, 1},
         s.pending # 0, t.doc = s.pending, t.pending = 0, t.navs = s.navs, t.fetched = s.fetched,
         Len(x) = n + 3, n = 1 => x[1].type \in {"response", "failed"},
         x[n + 1].type = "cleared", x[n + 2].type = "navigated", IsInit(x[n + 3], s.pending),
         \/ t.failed = s.failed
         \/ /\ s.pending \in s.fetched /\ t.failed = s.failed \cup {s.pending}
            /\ n = 1 /\ IsFailure(x[1], s.pending)
  PROVE  Waits(r, p, t)
<1>0. /\ r.nav \in Docs /\ r.nav \in Nat /\ r.loader \in Docs /\ s.doc \in Nat /\ s.navs \in Nat
      /\ s.fetched \subseteq Navs /\ 0 \notin Navs
  BY NavigationAssumption DEF CallerStates, Pages, Docs, Navs
<1>1. /\ Len(q) \in Nat /\ Len(x) \in Nat /\ Len(p) \in Nat
      /\ \A i \in 1..Len(q) : i \in 1..Len(p) /\ p[i] = q[i]
      /\ \A i \in 1..Len(x) : Len(q) + i \in 1..Len(p) /\ p[Len(q) + i] = x[i]
      /\ \A i \in 1..Len(p) : i \notin 1..Len(q) => i > Len(q) /\ i - Len(q) \in 1..Len(x) /\ p[i] = x[i - Len(q)]
  <2> HIDE DEF Numbered
  <2> QED BY Longer, SMTT(30)
<1>2. /\ r.pc # "listening" /\ r.nav = s.pending /\ r.nav # 0 /\ s.doc < r.nav /\ r.nav = s.navs
      /\ t.doc = r.nav
  BY <1>0 DEF Waits, Place, Numbered
\* It has not seen a page, and none is on its way.
<1>3. None(q, "init")
  BY <1>0, <1>2 DEF Waits, Shown, None
<1>4. (r.finished => r.err) /\ (r.init => r.finished)
  BY <1>0, <1>2 DEF Waits, Seen, Ended
<1>5. \A i \in 1..Len(x) : i = n + 1 \/ i = n + 2 \/ i = n + 3 \/ (n = 1 /\ i = 1)
  BY <1>1
<1>6. /\ \A i \in 1..Len(x) : x[i].type \in {"response", "failed", "cleared", "navigated", "init"}
      /\ \A i \in 1..Len(x) : x[i].type = "init" => i = n + 3
      /\ n + 2 \in 1..Len(x)
  <2>1. x[n + 3].type = "init"
    BY DEF IsInit
  <2>2. ASSUME NEW i \in 1..Len(x) PROVE x[i].type \in {"response", "failed", "cleared", "navigated", "init"}
    BY <1>5, <2>1
  <2>3. ASSUME NEW i \in 1..Len(x), x[i].type = "init" PROVE i = n + 3
    BY <1>5, <2>3
  <2>4. n + 2 \in 1..Len(x)
    BY <1>1
  <2> QED BY <2>2, <2>3, <2>4
<1>7. Place(r, p, t)
  <2>1. None(x, "within")
    BY <1>6 DEF None
  <2>2. None(p, "within")
    BY <2>1, NoneGrows DEF Waits, Place
  <2> QED BY <1>2, <2>2 DEF Waits, Place
<1>8. Shown(r, p, t)
  <2> SUFFICES ASSUME NEW i \in 1..Len(p), p[i].type = "init"
               PROVE  p[i].doc = r.nav /\ \E j \in 1..i : p[j].type = "navigated"
    BY <1>2 DEF Shown
  <2>1. i \notin 1..Len(q)
    BY <1>1, <1>3 DEF None
  <2>2. i - Len(q) = n + 3 /\ p[i] = x[n + 3]
    BY <1>1, <1>6, <2>1
  <2>3. Len(q) + (n + 2) \in 1..i
    BY <1>1, <2>2
  <2>4. p[Len(q) + (n + 2)].type = "navigated"
    BY <1>1, <1>6
  <2> QED BY <1>2, <2>2, <2>3, <2>4 DEF IsInit
<1>9. Loader(r, p, t)
  <2>1. CancelAhead(q, 1, r.loader) => CancelAhead(p, 1, r.loader)
    <3>1. 1 \in Nat \ {0}
      OBVIOUS
    <3> QED BY <3>1, CancelGrows
  <2> QED BY <2>1 DEF Waits, Loader
<1>10. Strangers(r, p)
  <2> SUFFICES ASSUME NEW i \in 1..Len(p), NEW k \in Navs, IsRequest(p[i], k), k # r.nav
               PROVE  CancelAhead(p, i, k)
    BY DEF Strangers
  <2>1. i \in 1..Len(q) /\ i \in Nat \ {0}
    <3>1. p[i].type = "request"
      BY DEF IsRequest
    <3>2. ASSUME i \notin 1..Len(q) PROVE FALSE
      <4>1. i - Len(q) \in 1..Len(x) /\ p[i] = x[i - Len(q)]
        BY <1>1, <3>2
      <4>2. x[i - Len(q)].type # "request"
        BY <1>6, <4>1
      <4> QED BY <3>1, <4>1, <4>2
    <3> QED BY <1>1, <3>2
  <2>2. CancelAhead(q, i, k)
    BY <1>1, <2>1 DEF Waits, Strangers
  <2> QED BY <2>1, <2>2, CancelGrows
<1>11. Requested(r, p, t)
  BY <1>2 DEF Requested
<1>12. Failing(r, p, t)
  <2> SUFFICES ASSUME r.nav \in t.failed, ~r.err, r.loader \in {0, r.nav}
               PROVE  ~r.init /\ (FailureKept(r) \/ FailureAhead(r, p))
    BY DEF Failing
  <2>1. ~r.init
    BY <1>4
  <2>2. CASE r.nav \in s.failed
    <3>1. FailureKept(r) \/ FailureAhead(r, q)
      BY <2>2 DEF Waits, Failing
    <3> QED BY <2>1, <3>1, FailureGrows
  <2>3. CASE r.nav \notin s.failed
    <3>1. r.nav \in s.fetched /\ n = 1 /\ IsFailure(x[1], r.nav)
      BY <1>2, <2>3
    <3>2. Known(r) \/ Asks(q, r.nav)
      BY <1>2, <3>1 DEF Waits, Requested
    <3>3. 1 \in 1..Len(x) /\ \A i \in 1..1 : x[i].type # "init"
      BY <1>1, <3>1 DEF IsFailure
    <3>4. FailureAhead(r, p)
      BY <1>3, <3>1, <3>2, <3>3, FailureNew
    <3> QED BY <2>1, <3>4
  <2> QED BY <2>2, <2>3
<1>13. Seen(r, p, t) /\ Ended(r, t)
  BY <1>4 DEF Seen, Ended
<1> QED BY <1>7, <1>8, <1>9, <1>10, <1>11, <1>12, <1>13 DEF Waits

\* The caller r that sends its command becomes u, and page s becomes t.
SendsOff(r, u, x, s, t) ==
  /\ s.failed \subseteq 1..s.navs /\ s.fetched \subseteq 1..s.navs /\ r.pc = "listening"
  /\ t.doc = s.doc /\ t.loaded = s.loaded /\ t.navs = s.navs + 1 /\ t.pending = t.navs
  /\ t.failed = s.failed
  /\ \A i \in 1..Len(x) : IsRequest(x[i], t.navs)
  /\ t.navs \in t.fetched => Len(x) = 1
  /\ u = [r EXCEPT !.pc = "sent", !.nav = t.navs]

\* Its navigation is under way.
LEMMA WaitsSend ==
  ASSUME NEW r \in CallerStates, NEW q \in Seq(Messages), NEW x \in Seq(Messages), NEW p, p = q \o x,
         NEW s \in Pages, NEW t \in Pages, Numbered(s), Waits(r, q, s), NEW u \in CallerStates,
         SendsOff(r, u, x, s, t)
  PROVE  Waits(u, p, t)
<1>a. /\ s.doc \in Nat /\ s.navs \in Nat /\ t.navs \in Docs /\ r.loader \in Nat
      /\ s.fetched \subseteq Navs /\ 0 \notin Navs
  BY NavigationAssumption DEF CallerStates, Pages, Docs, Navs
<1> SUFFICES ASSUME s.failed \subseteq 1..s.navs, s.fetched \subseteq 1..s.navs, r.pc = "listening",
                    t.doc = s.doc, t.loaded = s.loaded, t.navs = s.navs + 1, t.pending = t.navs,
                    t.failed = s.failed,
                    \A i \in 1..Len(x) : IsRequest(x[i], t.navs),
                    t.navs \in t.fetched => Len(x) = 1,
                    u = [r EXCEPT !.pc = "sent", !.nav = t.navs]
             PROVE  Waits(u, p, t)
  BY DEF SendsOff
<1>0. /\ s.doc \in Nat /\ s.navs \in Nat /\ t.navs \in Navs /\ t.navs # 0 /\ r.loader \in Nat
      /\ s.fetched \subseteq Navs /\ 0 \notin Navs
  <2>1. t.navs # 0
    BY <1>a
  <2> QED BY <1>a, <2>1, NavigationAssumption DEF Docs, Navs
<1>1. /\ Len(q) \in Nat /\ Len(x) \in Nat /\ Len(p) \in Nat
      /\ \A i \in 1..Len(q) : i \in 1..Len(p) /\ p[i] = q[i]
      /\ \A i \in 1..Len(p) : i \notin 1..Len(q) => i - Len(q) \in 1..Len(x) /\ p[i] = x[i - Len(q)]
  BY Longer
<1>2. /\ u.pc = "sent" /\ u.nav = t.navs /\ u.frame = r.frame /\ u.loader = r.loader /\ u.req = r.req
      /\ u.init = r.init /\ u.early = r.early /\ u.err = r.err /\ u.finished = r.finished
  BY DEF CallerStates
<1>3. r.nav = 0 /\ s.pending = 0
  BY DEF Waits, Place
<1>4. None(q, "init")
  BY <1>3 DEF Waits, Shown, None
<1>5. (r.finished => r.err) /\ (r.init => r.finished)
  BY <1>3 DEF Waits, Seen, Ended
<1>6. \A i \in 1..Len(x) : x[i].type = "request"
  BY DEF IsRequest
<1>7. None(p, "init")
  <2>1. None(x, "init")
    BY <1>6 DEF None
  <2> QED BY <1>4, <2>1, NoneGrows
<1>8. Place(u, p, t)
  <2>1. None(x, "within")
    BY <1>6 DEF None
  <2>2. None(p, "within")
    BY <2>1, NoneGrows DEF Waits, Place
  <2> QED BY <1>0, <1>2, <2>2 DEF Waits, Place
<1>9. Shown(u, p, t)
  BY <1>7 DEF Shown, None
<1>10. Loader(u, p, t)
  <2>1. CancelAhead(q, 1, r.loader) => CancelAhead(p, 1, r.loader)
    <3>1. 1 \in Nat \ {0}
      OBVIOUS
    <3> QED BY <3>1, CancelGrows
  <2>2. r.loader <= s.navs
    BY DEF Waits, Loader
  <2>3. r.loader \notin {0, u.nav} => r.loader \notin {0, r.nav}
    BY <1>3
  <2>4. r.loader <= t.navs
    BY <1>0, <2>2
  <2> QED BY <1>2, <2>1, <2>3, <2>4 DEF Waits, Loader
<1>11. Strangers(u, p)
  <2> SUFFICES ASSUME NEW i \in 1..Len(p), NEW n \in Navs, IsRequest(p[i], n), n # t.navs
               PROVE  CancelAhead(p, i, n)
    BY <1>2 DEF Strangers
  <2>1. CASE i \in 1..Len(q)
    <3>1. n # r.nav /\ IsRequest(q[i], n) /\ i \in Nat \ {0}
      BY <1>0, <1>1, <1>3, <2>1
    <3>2. CancelAhead(q, i, n)
      BY <2>1, <3>1 DEF Waits, Strangers
    <3> QED BY <3>1, <3>2, CancelGrows
  <2>2. CASE i \notin 1..Len(q)
    <3>1. IsRequest(p[i], t.navs)
      BY <1>1, <2>2
    <3>2. n = DocRequest(n).doc /\ t.navs = DocRequest(t.navs).doc
      BY DEF DocRequest
    <3> QED BY <3>1, <3>2 DEF IsRequest
  <2> QED BY <2>1, <2>2
<1>12. Requested(u, p, t)
  <2>1. t.navs \in t.fetched => Asks(x, t.navs)
    <3>1. ASSUME t.navs \in t.fetched PROVE 1 \in 1..Len(x) /\ IsRequest(x[1], t.navs)
      <4>1. Len(x) = 1
        BY <3>1
      <4>2. 1 \in 1..Len(x)
        BY <4>1
      <4> QED BY <4>2
    <3> QED BY <3>1 DEF Asks
  <2>2. t.navs \in t.fetched => Asks(p, t.navs)
    BY <2>1, AsksGrows
  <2> QED BY <1>2, <2>2 DEF Requested
<1>13. Failing(u, p, t)
  BY <1>0, <1>2 DEF Failing
<1>14. Seen(u, p, t) /\ Ended(u, t)
  BY <1>2, <1>5 DEF Seen, Ended
<1> QED BY <1>8, <1>9, <1>10, <1>11, <1>12, <1>13, <1>14 DEF Waits

\* It registers its listener while nothing is under way.
LEMMA WaitsListen ==
  ASSUME NEW q \in Seq(Messages), NEW s \in Pages, RequestsEnd(q, s), s.pending = 0,
         None(q, "init"), None(q, "within"),
         NEW command \in {"navigate", "reload"}, NEW frame \in BOOLEAN,
         NEW r, r = [Idle EXCEPT !.pc = "listening", !.command = command, !.frame = frame]
  PROVE  Waits(r, q, s)
<1>0. s.navs \in Nat /\ 0 \notin Navs /\ s.failed \subseteq Navs /\ s.fetched \subseteq Navs
  BY NavigationAssumption DEF Pages, Docs, Navs
<1>1. /\ r.pc = "listening" /\ r.nav = 0 /\ r.loader = 0 /\ r.req = 0 /\ r.init = FALSE
      /\ r.early = <<>> /\ r.err = FALSE /\ r.finished = FALSE
  BY DEF Idle
<1>2. Len(r.early) = 0
  BY <1>1, EmptySeq
<1>3. Place(r, q, s)
  BY <1>1, <1>2 DEF Place, None
<1>4. Shown(r, q, s)
  BY DEF Shown, None
<1>5. Loader(r, q, s)
  BY <1>0, <1>1 DEF Loader
<1>6. Strangers(r, q)
  <2> SUFFICES ASSUME NEW i \in 1..Len(q), NEW n \in Navs, IsRequest(q[i], n) PROVE CancelAhead(q, i, n)
    BY DEF Strangers
  <2>1. PICK j \in i..Len(q) : Ends(q[j], n)
    BY <1>0 DEF RequestsEnd
  <2>2. Len(q) \in Nat
    BY LenProperties
  <2>3. j \in 1..Len(q) /\ \A l \in 1..j : l \in 1..Len(q)
    BY <2>2
  <2>4. IsCancel(q[j], n)
    BY <2>1, <2>3 DEF Ends, IsInit, None
  <2>5. Early(q, j)
    BY <2>3 DEF Early, None
  <2> QED BY <2>4, <2>5 DEF CancelAhead
<1>7. Requested(r, q, s) /\ Failing(r, q, s)
  BY <1>0, <1>1 DEF Requested, Failing
<1>8. Seen(r, q, s) /\ Ended(r, s)
  BY <1>1 DEF Seen, Ended
<1> QED BY <1>3, <1>4, <1>5, <1>6, <1>7, <1>8 DEF Waits

-----------------------------------------------------------------------------
(***************************************************************************)
(* A caller that waits, when the next message is handed to it.             *)
(***************************************************************************)
LEMMA NoneTail ==
  ASSUME NEW q \in Seq(Messages), q # <<>>, NEW type, None(q, type)
  PROVE  Head(q).type # type /\ None(Tail(q), type)
<1>1. /\ Len(q) \in Nat \ {0} /\ Head(q) = q[1]
      /\ \A i \in 1..Len(Tail(q)) : i + 1 \in 1..Len(q) /\ Tail(q)[i] = q[i + 1]
  BY Shorter
<1> QED BY <1>1 DEF None

LEMMA EarlyTail ==
  ASSUME NEW q \in Seq(Messages), q # <<>>, NEW j \in 1..Len(Tail(q)), Early(q, j + 1)
  PROVE  Head(q).type # "init" /\ Early(Tail(q), j)
<1>1. /\ Len(q) \in Nat \ {0} /\ Head(q) = q[1] /\ Len(Tail(q)) = Len(q) - 1
      /\ \A i \in 1..Len(Tail(q)) : i + 1 \in 1..Len(q) /\ Tail(q)[i] = q[i + 1]
  BY Shorter
<1>2. 1 \in 1..(j + 1)
  OBVIOUS
<1>3. \A l \in 1..j : l \in 1..Len(Tail(q)) /\ l + 1 \in 1..(j + 1)
  BY <1>1
<1> QED BY <1>1, <1>2, <1>3 DEF Early

LEMMA CancelTail ==
  ASSUME NEW q \in Seq(Messages), q # <<>>, NEW i \in Nat, NEW n,
         CancelAhead(q, i + 1, n), i = 0 => ~IsCancel(Head(q), n)
  PROVE  /\ Head(q).type # "init" /\ CancelAhead(Tail(q), 1, n)
         /\ CancelAhead(Tail(q), i, n)
<1>1. /\ Len(q) \in Nat \ {0} /\ Head(q) = q[1] /\ Len(Tail(q)) = Len(q) - 1
      /\ \A l \in 1..Len(Tail(q)) : l + 1 \in 1..Len(q) /\ Tail(q)[l] = q[l + 1]
      /\ \A l \in 2..Len(q) : l - 1 \in 1..Len(Tail(q)) /\ q[l] = Tail(q)[l - 1]
  BY Shorter
<1>2. PICK j \in (i + 1)..Len(q) : IsCancel(q[j], n) /\ Early(q, j)
  BY DEF CancelAhead
<1>3. j \in 2..Len(q)
  BY <1>1, <1>2
<1> DEFINE l == j - 1
<1>4. l \in 1..Len(Tail(q)) /\ l \in i..Len(Tail(q)) /\ j = l + 1 /\ Tail(q)[l] = q[j]
  BY <1>1, <1>3
<1> HIDE DEF l
<1>5. Head(q).type # "init" /\ Early(Tail(q), l)
  BY <1>2, <1>4, EarlyTail
<1> QED BY <1>2, <1>4, <1>5 DEF CancelAhead

LEMMA AsksTail ==
  ASSUME NEW q \in Seq(Messages), q # <<>>, NEW n, Asks(q, n)
  PROVE  IsRequest(Head(q), n) \/ Asks(Tail(q), n)
<1>1. /\ Len(q) \in Nat \ {0} /\ Head(q) = q[1]
      /\ \A l \in 2..Len(q) : l - 1 \in 1..Len(Tail(q)) /\ q[l] = Tail(q)[l - 1]
  BY Shorter
<1>2. PICK i \in 1..Len(q) : IsRequest(q[i], n)
  BY DEF Asks
<1>3. CASE i = 1
  BY <1>1, <1>2, <1>3
<1>4. CASE i \in 2..Len(q)
  BY <1>1, <1>2, <1>4 DEF Asks
<1> QED BY <1>1, <1>3, <1>4

LEMMA FailureTail ==
  ASSUME NEW q \in Seq(Messages), q # <<>>, NEW r, NEW u, FailureAhead(r, q), u.nav = r.nav,
         Known(r) \/ IsRequest(Head(q), r.nav) => Known(u)
  PROVE  \/ IsFailure(Head(q), r.nav) /\ Known(r)
         \/ Head(q).type # "init" /\ FailureAhead(u, Tail(q))
<1>1. /\ Len(q) \in Nat \ {0} /\ Head(q) = q[1] /\ Len(Tail(q)) = Len(q) - 1
      /\ \A l \in 2..Len(q) : l - 1 \in 1..Len(Tail(q)) /\ q[l] = Tail(q)[l - 1]
  BY Shorter
<1>2. PICK j \in 1..Len(q) :
        /\ IsFailure(q[j], r.nav) /\ Early(q, j)
        /\ Known(r) \/ \E i \in 1..j : IsRequest(q[i], r.nav)
  BY DEF FailureAhead
<1>3. CASE j = 1
  <2>1. \A i \in 1..j : i = 1
    BY <1>3
  <2>2. ~IsRequest(q[1], r.nav)
    BY <1>2, <1>3 DEF IsRequest, IsFailure
  <2> QED BY <1>1, <1>2, <1>3, <2>1, <2>2
<1>4. CASE j \in 2..Len(q)
  <2> DEFINE l == j - 1
  <2>1. l \in 1..Len(Tail(q)) /\ j = l + 1 /\ Tail(q)[l] = q[j]
    BY <1>1, <1>4
  <2>2. ASSUME NEW i \in 1..j, IsRequest(q[i], r.nav)
        PROVE  IsRequest(Head(q), r.nav) \/ \E h \in 1..l : IsRequest(Tail(q)[h], r.nav)
    <3>1. CASE i = 1
      BY <1>1, <2>2, <3>1
    <3>2. CASE i # 1
      <4>1. i \in 2..Len(q) /\ i - 1 \in 1..l
        BY <1>4, <3>2
      <4> QED BY <1>1, <2>2, <4>1
    <3> QED BY <3>1, <3>2
  <2> HIDE DEF l
  <2>3. Head(q).type # "init" /\ Early(Tail(q), l)
    BY <1>2, <2>1, EarlyTail
  <2>4. Known(u) \/ \E h \in 1..l : IsRequest(Tail(q)[h], u.nav)
    BY <1>2, <2>2
  <2>5. IsFailure(Tail(q)[l], u.nav)
    BY <1>2, <2>1
  <2> QED BY <2>1, <2>3, <2>4, <2>5 DEF FailureAhead
<1> QED BY <1>1, <1>3, <1>4

LEMMA RequestsTail ==
  ASSUME NEW q \in Seq(Messages), q # <<>>, NEW s, RequestsEnd(q, s)
  PROVE  RequestsEnd(Tail(q), s)
<1>1. /\ Len(q) \in Nat \ {0} /\ Len(Tail(q)) = Len(q) - 1
      /\ \A l \in 1..Len(Tail(q)) : l + 1 \in 1..Len(q) /\ Tail(q)[l] = q[l + 1]
      /\ \A l \in 2..Len(q) : l - 1 \in 1..Len(Tail(q)) /\ q[l] = Tail(q)[l - 1]
  BY Shorter
<1> SUFFICES ASSUME NEW i \in 1..Len(Tail(q)), NEW n \in Navs, IsRequest(Tail(q)[i], n)
             PROVE  n \in s.fetched /\ (n = s.pending \/ \E j \in i..Len(Tail(q)) : Ends(Tail(q)[j], n))
  BY DEF RequestsEnd
<1>2. n \in s.fetched /\ (n = s.pending \/ \E j \in (i + 1)..Len(q) : Ends(q[j], n))
  BY <1>1 DEF RequestsEnd
<1>3. \A j \in (i + 1)..Len(q) : j \in 2..Len(q) /\ j - 1 \in i..Len(Tail(q))
  BY <1>1
<1> QED BY <1>1, <1>2, <1>3

LEMMA LoadsTail ==
  ASSUME NEW q \in Seq(Messages), q # <<>>, NEW s, LoadsInOrder(q, s)
  PROVE  LoadsInOrder(Tail(q), s)
<1>1. /\ Len(q) \in Nat \ {0} /\ Len(Tail(q)) = Len(q) - 1
      /\ \A l \in 1..Len(Tail(q)) : l + 1 \in 1..Len(q) /\ Tail(q)[l] = q[l + 1]
  BY Shorter
<1>2. ASSUME NEW i \in 1..Len(Tail(q))
      PROVE  /\ Tail(q)[i].type = "load" => Tail(q)[i].doc <= s.doc /\ (Tail(q)[i].doc = s.doc => s.loaded)
             /\ Tail(q)[i].type = "init" => Tail(q)[i].doc <= s.doc
  BY <1>1 DEF LoadsInOrder
<1>3. ASSUME NEW i \in 1..Len(Tail(q)), Tail(q)[i].type = "init",
             NEW j \in i..Len(Tail(q)), Tail(q)[j].type = "load"
      PROVE  Tail(q)[i].doc <= Tail(q)[j].doc
  <2>1. j \in 1..Len(Tail(q)) /\ j + 1 \in (i + 1)..Len(q)
    BY <1>1
  <2>2. Tail(q)[i] = q[i + 1] /\ Tail(q)[j] = q[j + 1] /\ i + 1 \in 1..Len(q)
    BY <1>1, <2>1
  <2> QED BY <1>3, <2>1, <2>2 DEF LoadsInOrder
<1> QED BY <1>2, <1>3 DEF LoadsInOrder

\* What is so of a caller whatever the message was.
LEMMA WaitsNext ==
  ASSUME NEW r \in CallerStates, NEW u \in CallerStates, NEW q \in Seq(Messages), q # <<>>,
         NEW s \in Pages, Waits(r, q, s), u.nav = r.nav, u.pc = "listening" <=> r.pc = "listening",
         r.frame => u.frame, Head(q).type = "navigated" => u.frame,
         None(u.early, "within"), None(u.early, "init")
  PROVE  Place(u, Tail(q), s) /\ Shown(u, Tail(q), s) /\ Strangers(u, Tail(q))
<1>1. /\ Len(q) \in Nat \ {0} /\ Head(q) = q[1] /\ Len(Tail(q)) = Len(q) - 1
      /\ \A l \in 1..Len(Tail(q)) : l + 1 \in 1..Len(q) /\ Tail(q)[l] = q[l + 1]
      /\ \A l \in 2..Len(q) : l - 1 \in 1..Len(Tail(q)) /\ q[l] = Tail(q)[l - 1]
  BY Shorter
<1>2. Place(u, Tail(q), s)
  BY NoneTail DEF Waits, Place
<1>3. Shown(u, Tail(q), s)
  <2> SUFFICES ASSUME NEW i \in 1..Len(Tail(q)), Tail(q)[i].type = "init"
               PROVE  /\ u.nav # 0 /\ Tail(q)[i].doc = u.nav /\ s.doc = u.nav
                      /\ u.frame \/ \E j \in 1..i : Tail(q)[j].type = "navigated"
    BY DEF Shown
  <2>1. /\ r.nav # 0 /\ Tail(q)[i].doc = r.nav /\ s.doc = r.nav
        /\ r.frame \/ \E j \in 1..(i + 1) : q[j].type = "navigated"
    BY <1>1 DEF Waits, Shown
  <2>2. ASSUME NEW j \in 1..(i + 1), q[j].type = "navigated"
        PROVE  u.frame \/ \E h \in 1..i : Tail(q)[h].type = "navigated"
    <3>1. CASE j = 1
      BY <1>1, <2>2, <3>1
    <3>2. CASE j # 1
      <4>1. j \in 2..Len(q) /\ j - 1 \in 1..i
        BY <1>1, <3>2
      <4> QED BY <1>1, <2>2, <4>1
    <3> QED BY <3>1, <3>2
  <2> QED BY <2>1, <2>2
<1>4. Strangers(u, Tail(q))
  <2> SUFFICES ASSUME NEW i \in 1..Len(Tail(q)), NEW n \in Navs, IsRequest(Tail(q)[i], n), n # r.nav
               PROVE  CancelAhead(Tail(q), i, n)
    BY DEF Strangers
  <2>1. CancelAhead(q, i + 1, n)
    BY <1>1 DEF Waits, Strangers
  <2>2. i \in Nat /\ i # 0
    OBVIOUS
  <2> QED BY <2>1, <2>2, CancelTail
<1> QED BY <1>2, <1>3, <1>4

\* The answer to its command, or nothing for a listener that has finished.
LEMMA WaitsAnswered ==
  ASSUME NEW r \in CallerStates, NEW u \in CallerStates, NEW q \in Seq(Messages), q # <<>>,
         NEW s \in Pages, Waits(r, q, s), Head(q).type = "answer",
         NEW pc, pc = "listening" <=> r.pc = "listening", u = [r EXCEPT !.pc = pc]
  PROVE  Waits(u, Tail(q), s)
<1> DEFINE m == Head(q)
           k == Tail(q)
<1>1. /\ (u.pc = "listening" <=> r.pc = "listening") /\ u.nav = r.nav /\ u.frame = r.frame /\ u.loader = r.loader
      /\ u.req = r.req /\ u.init = r.init /\ u.early = r.early /\ u.err = r.err /\ u.finished = r.finished
  BY DEF CallerStates
<1>2. \A n : ~IsCancel(m, n) /\ ~IsFailure(m, n) /\ ~IsRequest(m, n)
  BY DEF IsCancel, IsFailure, IsRequest
<1>3. /\ Len(q) \in Nat \ {0}
      /\ \A l \in 1..Len(k) : l + 1 \in 1..Len(q) /\ k[l] = q[l + 1]
  BY Shorter
<1> HIDE DEF k, m
<1>4. Place(u, k, s) /\ Shown(u, k, s) /\ Strangers(u, k)
  <2>1. None(u.early, "within") /\ None(u.early, "init") /\ m.type # "navigated"
    BY <1>1 DEF Waits, Place, m
  <2> QED BY <1>1, <2>1, WaitsNext DEF m, k
<1>5. Loader(u, k, s)
  <2>1. CancelAhead(q, 1, r.loader) => CancelAhead(k, 1, r.loader)
    <3>1. 0 \in Nat /\ 0 + 1 = 1
      OBVIOUS
    <3> QED BY <1>2, <3>1, CancelTail DEF m, k
  <2> QED BY <1>1, <2>1 DEF Waits, Loader
<1>6. Known(u) <=> Known(r)
  BY <1>1 DEF Known
<1>7. Requested(u, k, s)
  <2>1. Asks(q, r.nav) => Asks(k, r.nav)
    BY <1>2, AsksTail DEF m, k
  <2> QED BY <1>1, <1>6, <2>1 DEF Waits, Requested
<1>8. Failing(u, k, s)
  <2>1. FailureAhead(r, q) => FailureAhead(u, k)
    BY <1>1, <1>2, <1>6, FailureTail DEF m, k
  <2>2. FailureKept(r) => FailureKept(u)
    BY <1>1 DEF FailureKept
  <2> QED BY <1>1, <2>1, <2>2 DEF Waits, Failing
<1>9. Seen(u, k, s) /\ Ended(u, s)
  BY <1>1, <1>3 DEF Waits, Seen, Ended
<1> QED BY <1>4, <1>5, <1>7, <1>8, <1>9 DEF Waits, k

LEMMA WaitsFinished ==
  ASSUME NEW r \in CallerStates, NEW q \in Seq(Messages), q # <<>>,
         NEW s \in Pages, Numbered(s), Waits(r, q, s), r.finished
  PROVE  Waits(r, Tail(q), s)
<1>0. r.nav \in Nat /\ s.doc \in Nat /\ s.fetched \subseteq Navs /\ 0 \notin Navs
  BY NavigationAssumption DEF CallerStates, Pages, Docs, Navs
<1>1. r.loader # 0 /\ r.frame
  BY DEF Waits, Loader
<1>2. r.err \/ (r.nav # 0 /\ r.nav \notin s.failed /\ s.doc = r.nav)
  BY DEF Waits, Ended
<1>3. Place(r, Tail(q), s) /\ Shown(r, Tail(q), s) /\ Strangers(r, Tail(q))
  <2>1. None(r.early, "within") /\ None(r.early, "init")
    BY DEF Waits, Place
  <2> QED BY <1>1, <2>1, WaitsNext
<1>4. Loader(r, Tail(q), s)
  BY <1>1 DEF Waits, Loader
<1>5. Requested(r, Tail(q), s)
  BY <1>0, <1>2 DEF Requested, Numbered
<1>6. Failing(r, Tail(q), s) /\ Seen(r, Tail(q), s) /\ Ended(r, s)
  BY <1>2 DEF Waits, Failing, Seen, Ended
<1> QED BY <1>3, <1>4, <1>5, <1>6 DEF Waits

\* A message when the loader is known.
LEMMA WaitsHandle ==
  ASSUME NEW r \in CallerStates, NEW u \in CallerStates, NEW q \in Seq(Messages), q # <<>>,
         NEW s \in Pages, Numbered(s), LoadsInOrder(q, s), Waits(r, q, s),
         ~r.finished, r.loader # 0, r.early = <<>>, u = HandleEvent(r, Head(q))
  PROVE  Waits(u, Tail(q), s)
<1> DEFINE m == Head(q)
           k == Tail(q)
<1>0. r.nav \in Nat /\ s.doc \in Nat /\ s.navs \in Nat /\ r.loader \in Nat /\ r.req \in Docs
  BY NavigationAssumption DEF CallerStates, Pages, Docs
<1>1. /\ Len(q) \in Nat \ {0} /\ m \in Messages /\ m = q[1] /\ 1 \in 1..Len(q)
      /\ \A l \in 1..Len(k) : l + 1 \in 1..Len(q) /\ k[l] = q[l + 1]
  BY Shorter
<1> HIDE DEF m, k
<1>2. u = HandleEvent(r, m)
  BY DEF m
<1>3. /\ u.pc = r.pc /\ u.nav = r.nav /\ u.frame = r.frame /\ u.loader = r.loader /\ u.early = r.early
      /\ u.req = IF IsRequest(m, r.loader) THEN r.loader ELSE r.req
      /\ u.init <=> r.init \/ (m.type = "init" /\ r.frame)
      /\ u.err <=> r.err \/ (r.req # 0 /\ IsFailure(m, r.req))
      /\ u.finished <=> r.finished \/ (m.type = "load" /\ r.init) \/ (r.req # 0 /\ IsCancel(m, r.req))
  BY <1>1, <1>2, Handles
<1>4. r.frame /\ Len(r.early) = 0
  BY EmptySeq DEF Waits, Loader
<1>5. /\ ~FailureKept(r) /\ \A n : ~Asks(r.early, n)
      /\ (Known(r) <=> r.req = r.nav) /\ (Known(u) <=> u.req = r.nav)
  BY <1>3, <1>4 DEF FailureKept, Asks, Known
<1>6. Place(u, k, s) /\ Shown(u, k, s) /\ Strangers(u, k)
  <2>1. None(u.early, "within") /\ None(u.early, "init")
    BY <1>3 DEF Waits, Place
  <2> QED BY <1>3, <1>4, <2>1, WaitsNext DEF k
\* What cancels the navigation of another loader finishes the listener.
<1>7. r.loader # r.nav => /\ ~r.init /\ r.req = r.loader /\ CancelAhead(q, 1, r.loader)
  BY DEF Waits, Loader
<1>8. ASSUME r.loader # r.nav
      PROVE  IsCancel(m, r.loader) \/ (m.type # "init" /\ CancelAhead(k, 1, r.loader))
  <2>1. 0 \in Nat /\ 0 + 1 = 1
    OBVIOUS
  <2> QED BY <1>7, <1>8, <2>1, CancelTail DEF m, k
<1>9. Loader(u, k, s)
  <2>1. ASSUME r.loader # r.nav, ~u.finished
        PROVE  ~u.init /\ u.req = u.loader /\ CancelAhead(k, 1, u.loader)
    <3>1. ~IsCancel(m, r.loader)
      BY <1>3, <1>7, <2>1
    <3> QED BY <1>3, <1>7, <1>8, <2>1, <3>1
  <2> QED BY <1>3, <1>4, <2>1 DEF Waits, Loader
<1>10. ASSUME Known(r) \/ IsRequest(m, r.nav), r.loader = r.nav PROVE Known(u)
  BY <1>3, <1>5, <1>10
<1>11. Requested(u, k, s)
  <2> SUFFICES ASSUME r.nav \in s.fetched, s.pending = r.nav, ~r.err, r.loader = r.nav
               PROVE  Known(u) \/ Asks(k, r.nav)
    BY <1>3 DEF Requested
  <2>1. Known(r) \/ Asks(q, r.nav)
    BY DEF Waits, Requested
  <2>2. Asks(q, r.nav) => IsRequest(m, r.nav) \/ Asks(k, r.nav)
    BY AsksTail DEF m, k
  <2> QED BY <1>10, <2>1, <2>2
\* A failure of its navigation.
<1>12. ASSUME r.nav \in s.failed, ~u.err, r.loader = r.nav
       PROVE  ~r.init /\ m.type # "init" /\ FailureAhead(u, k)
  <2>1. ~r.err /\ r.loader \in {0, r.nav}
    BY <1>3, <1>12
  <2>2. ~r.init /\ FailureAhead(r, q)
    BY <1>5, <1>12, <2>1 DEF Waits, Failing
  <2>3. ~(IsFailure(m, r.nav) /\ Known(r))
    BY <1>3, <1>5, <1>12
  <2>4. Known(r) \/ IsRequest(m, r.nav) => Known(u)
    BY <1>10, <1>12
  <2>5. u.nav = r.nav
    BY <1>3
  <2>6. \/ IsFailure(m, r.nav) /\ Known(r)
        \/ m.type # "init" /\ FailureAhead(u, k)
    BY <2>2, <2>4, <2>5, FailureTail DEF m, k
  <2> QED BY <2>2, <2>3, <2>6
<1>13. Failing(u, k, s)
  BY <1>3, <1>12 DEF Failing
<1>14. Seen(u, k, s)
  <2> SUFFICES ASSUME u.init, ~u.finished
               PROVE  /\ r.nav # 0 /\ r.loader = r.nav /\ s.doc = r.nav /\ (r.nav \in s.failed => u.err)
                      /\ \A i \in 1..Len(k) : k[i].type = "load" => r.nav <= k[i].doc
    BY <1>3 DEF Seen
  <2>1. CASE r.init
    <3>1. /\ r.nav # 0 /\ r.loader = r.nav /\ s.doc = r.nav /\ (r.nav \in s.failed => r.err)
          /\ \A i \in 1..Len(q) : q[i].type = "load" => r.nav <= q[i].doc
      BY <2>1 DEF Waits, Seen
    <3> QED BY <1>1, <1>3, <3>1, SMTT(30)
  <2>2. CASE ~r.init
    <3>1. m.type = "init"
      BY <1>3, <2>2
    <3>2. r.nav # 0 /\ m.doc = r.nav /\ s.doc = r.nav
      BY <1>1, <3>1 DEF Waits, Shown
    <3>3. r.loader = r.nav
      BY <1>8, <3>1 DEF IsCancel, IsFailure
    <3>4. r.nav \in s.failed => u.err
      BY <1>12, <3>1, <3>3
    <3>5. ASSUME NEW i \in 1..Len(k), k[i].type = "load" PROVE r.nav <= k[i].doc
      <4>1. i + 1 \in 1..Len(q) /\ k[i] = q[i + 1]
        BY <1>1
      <4> QED BY <1>1, <3>1, <3>2, <3>5, <4>1 DEF LoadsInOrder
    <3> QED BY <3>2, <3>3, <3>4, <3>5
  <2> QED BY <2>1, <2>2
<1>15. Ended(u, s)
  <2> SUFFICES ASSUME u.finished, ~u.err
               PROVE  r.nav # 0 /\ r.nav \notin s.failed /\ s.doc = r.nav /\ s.loaded
    BY <1>3 DEF Ended
  <2>1. m.type = "load" /\ r.init /\ ~r.err
    BY <1>3 DEF IsCancel
  <2>2. /\ r.nav # 0 /\ s.doc = r.nav /\ r.nav \notin s.failed
        /\ r.nav <= m.doc
    BY <1>1, <2>1 DEF Waits, Seen
  <2>3. m.doc <= s.doc /\ (m.doc = s.doc => s.loaded) /\ m.doc \in Nat
    BY <1>1, <2>1, MessageFields, NavigationAssumption DEF LoadsInOrder, Docs
  <2> QED BY <1>0, <2>2, <2>3
<1> QED BY <1>6, <1>9, <1>11, <1>13, <1>14, <1>15 DEF Waits, k

\* A message kept while the loader is not known.
LEMMA WaitsKeep ==
  ASSUME NEW r \in CallerStates, NEW u \in CallerStates, NEW q \in Seq(Messages), q # <<>>,
         NEW s \in Pages, Waits(r, q, s), ~r.finished, r.loader = 0,
         u = [r EXCEPT !.frame = FrameOf(r, Head(q)), !.early = Append(@, Head(q))],
         LoaderOf(u, Head(q)) = 0
  PROVE  Waits(u, Tail(q), s)
<1> DEFINE m == Head(q)
           k == Tail(q)
<1>0. s.failed \subseteq Navs /\ s.fetched \subseteq Navs /\ 0 \notin Navs /\ r.early \in Seq(Messages)
  BY DEF Pages, Navs, CallerStates
<1>1. /\ Len(q) \in Nat \ {0} /\ m \in Messages /\ m = q[1] /\ 1 \in 1..Len(q)
  BY Shorter
<1>2. /\ u.pc = r.pc /\ u.nav = r.nav /\ u.frame = FrameOf(r, m) /\ u.early = Append(r.early, m)
      /\ u.loader = 0 /\ u.req = r.req /\ u.init = r.init /\ u.err = r.err /\ u.finished = r.finished
  BY DEF CallerStates
<1>3. LoaderOf(u, m) = 0
  OBVIOUS
<1> HIDE DEF m, k
<1>4. r.req = 0 /\ ~r.init
  BY DEF Waits, Loader
<1>5. PICK x \in Seq(Messages) : u.early = r.early \o x /\ Len(x) = 1 /\ x[1] = m
  <2>1. \E x \in Seq(Messages) : Append(r.early, m) = r.early \o x /\ Len(x) = 1 /\ x[1] = m
    BY <1>0, <1>1, AppendIsLonger, Zenon
  <2> QED BY <1>2, <2>1
<1>6. \A i \in 1..Len(x) : i = 1
  BY <1>5
\* "init" would give the loader away.
<1>7. m.type \notin {"init", "within"}
  <2>1. ASSUME m.type = "init" PROVE FALSE
    <3>1. r.nav # 0 /\ m.doc = r.nav /\ (r.frame \/ \E j \in 1..1 : q[j].type = "navigated")
      BY <1>1, <2>1 DEF Waits, Shown
    <3>2. \A j \in 1..1 : q[j].type # "navigated"
      BY <1>1, <2>1
    <3>3. u.frame
      BY <1>2, <3>1, <3>2 DEF FrameOf
    <3> QED BY <1>3, <2>1, <3>1, <3>3 DEF LoaderOf
  <2>2. m.type # "within"
    BY NoneTail DEF Waits, Place, m
  <2> QED BY <2>1, <2>2
<1>8. Place(u, k, s) /\ Shown(u, k, s) /\ Strangers(u, k)
  <2>1. None(x, "within") /\ None(x, "init")
    BY <1>5, <1>6, <1>7 DEF None
  <2>0. None(r.early, "within") /\ None(r.early, "init")
    BY DEF Waits, Place
  <2>2. None(u.early, "within") /\ None(u.early, "init")
    <3>1. r.early \in Seq(Messages) /\ u.early = r.early \o x
      BY <1>0, <1>5
    <3> QED BY <2>0, <2>1, <3>1, NoneGrows, Zenon
  <2>3. (r.frame => u.frame) /\ (m.type = "navigated" => u.frame)
    BY <1>2 DEF FrameOf
  <2> QED BY <1>2, <2>2, <2>3, WaitsNext DEF m, k
<1>9. Loader(u, k, s)
  BY <1>2, <1>4 DEF Waits, Loader
<1>10. ASSUME r.nav # 0, Known(r) \/ IsRequest(m, r.nav) PROVE Asks(u.early, r.nav)
  <2>1. CASE Asks(r.early, r.nav)
    BY <1>0, <1>5, <2>1, AsksGrows
  <2>2. CASE IsRequest(m, r.nav)
    <3>1. 1 \in 1..Len(x) /\ IsRequest(x[1], r.nav)
      BY <1>5, <2>2
    <3>2. Asks(x, r.nav)
      BY <3>1 DEF Asks
    <3> QED BY <1>0, <1>5, <3>2, AsksGrows
  <2> QED BY <1>4, <1>10, <2>1, <2>2 DEF Known
<1>11. Requested(u, k, s)
  <2> SUFFICES ASSUME r.nav \in s.fetched, s.pending = r.nav, ~r.err
               PROVE  Known(u) \/ Asks(k, r.nav)
    BY <1>2 DEF Requested
  <2>1. Known(r) \/ Asks(q, r.nav)
    BY DEF Waits, Requested
  <2>2. Asks(q, r.nav) => IsRequest(m, r.nav) \/ Asks(k, r.nav)
    BY AsksTail DEF m, k
  <2>3. r.nav # 0
    BY <1>0
  <2> QED BY <1>2, <1>10, <2>1, <2>2, <2>3 DEF Known
<1>12. Failing(u, k, s)
  <2> SUFFICES ASSUME r.nav \in s.failed, ~r.err
               PROVE  FailureKept(u) \/ FailureAhead(u, k)
    BY <1>2, <1>4 DEF Failing
  <2>0. r.nav # 0
    BY <1>0
  <2>1. FailureKept(r) \/ FailureAhead(r, q)
    BY DEF Waits, Failing
  <2>2. /\ Len(r.early) \in Nat /\ Len(u.early) = Len(r.early) + 1 /\ u.early[Len(r.early) + 1] = m
        /\ \A i \in 1..Len(r.early) : u.early[i] = r.early[i]
    BY <1>0, <1>5, OneMore
  <2>3. CASE FailureKept(r)
    <3>1. PICK i, j \in 1..Len(r.early) :
            i <= j /\ IsRequest(r.early[i], r.nav) /\ IsFailure(r.early[j], r.nav)
      BY <2>3 DEF FailureKept
    <3>2. i \in 1..Len(u.early) /\ j \in 1..Len(u.early)
      BY <2>2
    <3> QED BY <1>2, <2>2, <3>1, <3>2 DEF FailureKept
  <2>4. CASE IsFailure(m, r.nav) /\ Known(r)
    <3>1. Asks(r.early, r.nav)
      BY <1>4, <2>0, <2>4 DEF Known
    <3>2. PICK i \in 1..Len(r.early) : IsRequest(r.early[i], r.nav)
      BY <3>1 DEF Asks
    <3> DEFINE j == Len(r.early) + 1
    <3>3. i \in 1..Len(u.early) /\ j \in 1..Len(u.early) /\ i <= j
      BY <2>2
    <3>4. IsRequest(u.early[i], u.nav) /\ IsFailure(u.early[j], u.nav)
      BY <1>2, <2>2, <2>4, <3>2
    <3> HIDE DEF j
    <3> QED BY <3>3, <3>4 DEF FailureKept
  <2>5. CASE FailureAhead(r, q) /\ ~(IsFailure(m, r.nav) /\ Known(r))
    <3>1. Known(r) \/ IsRequest(m, r.nav) => Known(u)
      BY <1>2, <1>10, <2>0 DEF Known
    <3>2. u.nav = r.nav
      BY <1>2
    <3> QED BY <2>5, <3>1, <3>2, FailureTail DEF m, k
  <2> QED BY <2>1, <2>3, <2>4, <2>5
<1>13. Seen(u, k, s) /\ Ended(u, s)
  BY <1>2, <1>4 DEF Seen, Ended
<1> QED BY <1>8, <1>9, <1>11, <1>12, <1>13 DEF Waits, k

\* The events handled again once the loader is known, of which only the last shows a page.
LEMMA Replayed ==
  ASSUME NEW r \in CallerStates, NEW events \in Seq(Messages), NEW u, u = Replay(r, events)
  PROVE  /\ Len(events) # 0 /\ r.loader # 0 /\ r.frame /\ ~r.init /\ ~r.finished /\ r.req = 0
         /\ \A i \in 1..(Len(events) - 1) : events[i].type # "init"
         => /\ u.pc = r.pc /\ u.nav = r.nav /\ u.frame = r.frame /\ u.loader = r.loader /\ u.early = <<>>
            /\ u.init => events[Len(events)].type = "init"
            /\ u.finished \/ r.err => u.err
            /\ Asks(events, r.loader) => u.req = r.loader
            /\ (\E a, b \in 1..Len(events) :
                  a <= b /\ IsRequest(events[a], r.loader) /\ IsFailure(events[b], r.loader)) => u.err
<1> DEFINE N == Len(events)
           L == r.loader
<1>2. PICK f : /\ f[0] = r /\ Handled(r, events) = f[N]
               /\ \A i \in 1..N : f[i] = HandleEvent(f[i - 1], events[i])
               /\ \A i \in 0..N :
                    /\ f[i] \in CallerStates
                    /\ f[i].pc = r.pc /\ f[i].command = r.command /\ f[i].nav = r.nav
                    /\ f[i].frame = r.frame /\ f[i].loader = r.loader
                    /\ f[i].early = r.early /\ f[i].result = r.result
  BY HandledKeeps
<1>0. N \in Nat /\ \A i \in 1..N : events[i] \in Messages
  BY LenProperties, ElementOfSeq
<1> DEFINE Follows(h, x, m) ==
      /\ h.req = IF IsRequest(m, x.loader) THEN x.loader ELSE x.req
      /\ h.init <=> x.init \/ (m.type = "init" /\ x.frame)
      /\ h.err <=> x.err \/ (x.req # 0 /\ IsFailure(m, x.req))
      /\ h.finished <=> x.finished \/ (m.type = "load" /\ x.init) \/ (x.req # 0 /\ IsCancel(m, x.req))
<1>2a. ASSUME NEW n \in Nat, n + 1 <= N
       PROVE  Follows(f[n + 1], f[n], events[n + 1])
  <2> DEFINE x == f[n]
             m == events[n + 1]
             h == f[n + 1]
  <2>1. n \in 0..N /\ n + 1 \in 1..N /\ (n + 1) - 1 = n
    BY <1>0, <1>2a
  <2>2. x \in CallerStates /\ m \in Messages /\ h = HandleEvent(x, m)
    BY <1>0, <1>2, <2>1
  <2> HIDE DEF x, m, h
  <2>3. Follows(h, x, m)
    BY <2>2, Handles
  <2> QED BY <2>3 DEF x, m, h
<1> SUFFICES ASSUME Len(events) # 0, r.loader # 0, r.frame, ~r.init, ~r.finished, r.req = 0,
                    \A i \in 1..(Len(events) - 1) : events[i].type # "init"
             PROVE  /\ u.pc = r.pc /\ u.nav = r.nav /\ u.frame = r.frame /\ u.loader = r.loader /\ u.early = <<>>
                    /\ u.init => events[Len(events)].type = "init"
                    /\ u.finished \/ r.err => u.err
                    /\ Asks(events, r.loader) => u.req = r.loader
                    /\ (\E a, b \in 1..Len(events) :
                          a <= b /\ IsRequest(events[a], r.loader) /\ IsFailure(events[b], r.loader)) => u.err
  OBVIOUS
<1>1. N \in Nat \ {0} /\ \A i \in 1..N : events[i] \in Messages
  BY <1>0
<1> DEFINE J(i) ==
      /\ f[i].req \in {0, L} /\ (f[i].finished \/ r.err => f[i].err)
      /\ i < N => ~f[i].init
      /\ f[i].init => i = N /\ events[N].type = "init"
      /\ (\E a \in 1..i : IsRequest(events[a], L)) => f[i].req = L
      /\ (\E a, b \in 1..i : a <= b /\ IsRequest(events[a], L) /\ IsFailure(events[b], L)) => f[i].err
<1> DEFINE S == {i \in Nat : i <= N => J(i)}
<1>3. 0 \in S
  BY <1>2
<1> HIDE DEF N, L
<1>4. ASSUME NEW n \in Nat, n \in S PROVE n + 1 \in S
  <2> SUFFICES ASSUME n + 1 <= N PROVE J(n + 1)
    OBVIOUS
  <2> DEFINE x == f[n]
             m == events[n + 1]
             h == f[n + 1]
  <2>1. J(n) /\ n < N
    BY <1>1, <1>4
  <2>2. x \in CallerStates /\ m \in Messages /\ h = HandleEvent(x, m) /\ x.loader = L /\ x.frame
    <3>1. n \in 0..N /\ n + 1 \in 1..N /\ (n + 1) - 1 = n
      BY <1>1
    <3> QED BY <1>1, <1>2, <3>1 DEF L
  <2>3. /\ x.req \in {0, L} /\ (x.finished \/ r.err => x.err) /\ ~x.init
        /\ (\E a \in 1..n : IsRequest(events[a], L)) => x.req = L
        /\ (\E a, b \in 1..n : a <= b /\ IsRequest(events[a], L) /\ IsFailure(events[b], L)) => x.err
    BY <2>1
  <2> HIDE DEF x, m, h, J
  <2>4. /\ h.req = IF IsRequest(m, x.loader) THEN x.loader ELSE x.req
        /\ h.init <=> x.init \/ (m.type = "init" /\ x.frame)
        /\ h.err <=> x.err \/ (x.req # 0 /\ IsFailure(m, x.req))
        /\ h.finished <=> x.finished \/ (m.type = "load" /\ x.init) \/ (x.req # 0 /\ IsCancel(m, x.req))
    BY <1>2a DEF x, m, h
  <2>5. h.req \in {0, L} /\ (h.finished \/ r.err => h.err)
    BY <2>2, <2>3, <2>4 DEF IsCancel
  <2>6. h.init => n + 1 = N /\ events[N].type = "init"
    <3>1. ASSUME n + 1 # N PROVE m.type # "init"
      <4>1. n + 1 \in 1..(N - 1)
        BY <1>1, <2>1, <3>1
      <4> QED BY <4>1 DEF m, N
    <3> QED BY <2>3, <2>4, <3>1 DEF m
  <2>7. \A a \in 1..(n + 1) : a \in 1..n \/ a = n + 1
    OBVIOUS
  <2>8. ASSUME NEW a \in 1..(n + 1), IsRequest(events[a], L) PROVE h.req = L
    <3>1. CASE a = n + 1
      <4>1. IsRequest(m, L)
        BY <2>8, <3>1 DEF m
      <4> QED BY <2>2, <2>4, <4>1
    <3>2. CASE a \in 1..n
      BY <2>2, <2>3, <2>4, <2>8, <3>2
    <3> QED BY <2>7, <3>1, <3>2
  <2>9. ASSUME NEW a \in 1..(n + 1), NEW b \in 1..(n + 1), a <= b,
               IsRequest(events[a], L), IsFailure(events[b], L)
        PROVE  h.err
    <3>1. CASE b \in 1..n
      <4>1. a \in 1..n
        BY <2>9, <3>1
      <4> QED BY <2>3, <2>4, <2>9, <3>1, <4>1
    <3>2. CASE b = n + 1
      <4>1. IsFailure(m, L)
        BY <2>9, <3>2 DEF m
      <4>2. a # n + 1
        BY <2>9, <3>2 DEF IsRequest, IsFailure
      <4>3. x.req = L
        BY <2>3, <2>7, <2>9, <4>2
      <4>4. L # 0
        BY DEF L
      <4> QED BY <2>4, <4>1, <4>3, <4>4
    <3> QED BY <2>7, <3>1, <3>2
  <2>10. n + 1 < N => ~h.init
    BY <1>1, <2>6
  <2> QED BY <2>5, <2>6, <2>8, <2>9, <2>10 DEF J, h
<1>5. N \in S
  <2> HIDE DEF S
  <2> QED BY <1>1, <1>3, <1>4, EveryNatural
<1>6. J(N) /\ N \in 0..N
  BY <1>1, <1>5
<1>7. f[N] \in CallerStates /\ u = [f[N] EXCEPT !.early = <<>>]
  BY <1>2, <1>6 DEF Replay
<1>8. /\ u.pc = f[N].pc /\ u.nav = f[N].nav /\ u.frame = f[N].frame /\ u.loader = f[N].loader
      /\ u.early = <<>> /\ u.init = f[N].init /\ u.finished = f[N].finished
      /\ u.err = f[N].err /\ u.req = f[N].req
  BY <1>7 DEF CallerStates
<1>9. /\ f[N].pc = r.pc /\ f[N].nav = r.nav /\ f[N].frame = r.frame /\ f[N].loader = r.loader
  BY <1>2, <1>6
<1> QED BY <1>6, <1>8, <1>9 DEF N, L, Asks

\* What r is once it has kept m, and once its loader is L.
Keeps(known, r, m) ==
  /\ known \in CallerStates /\ known.pc = r.pc /\ known.nav = r.nav /\ known.frame = FrameOf(r, m)
  /\ known.loader = r.loader /\ known.req = r.req /\ known.init = r.init
  /\ known.err = r.err /\ known.finished = r.finished
  /\ known.early \in Seq(Messages)
  /\ Len(r.early) \in Nat /\ Len(known.early) = Len(r.early) + 1
  /\ known.early[Len(known.early)] = m
  /\ \A i \in 1..Len(r.early) : known.early[i] = r.early[i]

WithLoader(v, r, L) ==
  /\ v \in CallerStates /\ v.pc = r.pc /\ v.nav = r.nav /\ v.frame = r.frame /\ v.loader = L
  /\ v.req = r.req /\ v.init = r.init /\ v.err = r.err /\ v.finished = r.finished

\* The message it hears, kept with the early ones.
LEMMA KnownFields ==
  ASSUME NEW r \in CallerStates, NEW m \in Messages,
         NEW known, known = [r EXCEPT !.frame = FrameOf(r, m), !.early = Append(@, m)]
  PROVE  Keeps(known, r, m)
<1>1. FrameOf(r, m) \in BOOLEAN
  BY DEF FrameOf, CallerStates
<1>2. r.early \in Seq(Messages)
  BY DEF CallerStates
<1>3. /\ Append(r.early, m) \in Seq(Messages) /\ Len(Append(r.early, m)) = Len(r.early) + 1
      /\ Append(r.early, m)[Len(r.early) + 1] = m /\ Len(r.early) \in Nat
      /\ \A i \in 1..Len(r.early) : Append(r.early, m)[i] = r.early[i]
  BY <1>2, AppendProperties
<1>4. /\ known \in CallerStates /\ known.pc = r.pc /\ known.nav = r.nav /\ known.frame = FrameOf(r, m)
      /\ known.loader = r.loader /\ known.req = r.req /\ known.init = r.init
      /\ known.err = r.err /\ known.finished = r.finished /\ known.early = Append(r.early, m)
  BY <1>1, <1>3 DEF CallerStates
<1> QED BY <1>3, <1>4 DEF Keeps

LEMMA LoaderFields ==
  ASSUME NEW r \in CallerStates, NEW L \in Docs, NEW v, v = [r EXCEPT !.loader = L]
  PROVE  WithLoader(v, r, L)
BY DEF CallerStates, WithLoader

\* The message that gives the loader away.
LEMMA WaitsFound ==
  ASSUME NEW r \in CallerStates, NEW u \in CallerStates, NEW q \in Seq(Messages), q # <<>>,
         NEW s \in Pages, Numbered(s), s.fetched \subseteq 1..s.navs,
         RequestsEnd(q, s), LoadsInOrder(q, s), Waits(r, q, s), ~r.finished, r.loader = 0,
         NEW known, known = [r EXCEPT !.frame = FrameOf(r, Head(q)), !.early = Append(@, Head(q))],
         NEW L, L = LoaderOf(known, Head(q)), L # 0,
         u = Replay([known EXCEPT !.loader = L], known.early)
  PROVE  Waits(u, Tail(q), s)
<1> DEFINE m == Head(q)
           k == Tail(q)
           v == [known EXCEPT !.loader = L]
           events == known.early
<1>0. /\ s.failed \subseteq Navs /\ s.fetched \subseteq Navs /\ 0 \notin Navs /\ r.early \in Seq(Messages)
      /\ s.doc \in Nat /\ s.navs \in Nat /\ r.nav \in Nat
  BY NavigationAssumption DEF Pages, Navs, CallerStates, Docs
<1>1. /\ Len(q) \in Nat \ {0} /\ m \in Messages /\ m = q[1] /\ 1 \in 1..Len(q)
      /\ \A l \in 1..Len(k) : l + 1 \in 1..Len(q) /\ k[l] = q[l + 1]
  BY Shorter
<1>2. /\ known \in CallerStates /\ known.pc = r.pc /\ known.nav = r.nav /\ known.frame = FrameOf(r, m)
      /\ known.loader = r.loader /\ known.req = r.req /\ known.init = r.init
      /\ known.err = r.err /\ known.finished = r.finished
      /\ events \in Seq(Messages)
      /\ Len(r.early) \in Nat /\ Len(events) = Len(r.early) + 1
      /\ events[Len(events)] = m
      /\ \A i \in 1..Len(r.early) : events[i] = r.early[i]
  <2>1. known = [r EXCEPT !.frame = FrameOf(r, m), !.early = Append(@, m)]
    OBVIOUS
  <2>2. m \in Messages
    BY <1>1
  <2> HIDE DEF m, events
  <2>3. Keeps(known, r, m)
    BY <2>1, <2>2, KnownFields, Zenon
  <2> QED BY <2>3, Zenon DEF Keeps, events
<1>3. L = LoaderOf(known, m)
  OBVIOUS
<1> HIDE DEF m, k
<1>4. r.req = 0 /\ ~r.init
  BY DEF Waits, Loader
\* It is the request of a document, or "init".
<1>5. known.frame /\ ((IsRequest(m, L) /\ m.type = "request") \/ (m.type = "init" /\ m.doc = L)) /\ L \in Navs
  <2>1. known.frame /\ ((m.type = "request" /\ m.id.kind = "document" /\ L = m.id.doc) \/ (m.type = "init" /\ L = m.doc))
    BY <1>3 DEF LoaderOf
  <2>2. CASE m.type = "request" /\ m.id.kind = "document" /\ L = m.id.doc
    <3>1. m.id \in Requests
      BY <1>1, <2>2, MessageFields
    <3>2. m.id = DocRequest(L) /\ L \in Docs
      BY <2>2, <3>1 DEF Requests, DocRequest
    <3>3. L \in Navs
      BY <3>2, NavigationAssumption DEF Docs, Navs
    <3> QED BY <2>1, <2>2, <3>2, <3>3 DEF IsRequest
  <2>3. CASE m.type = "init" /\ L = m.doc
    <3>1. L \in Docs
      BY <1>1, <2>3, MessageFields
    <3>2. L \in Navs
      BY <3>1, NavigationAssumption DEF Docs, Navs
    <3> QED BY <2>1, <2>3, <3>2
  <2> QED BY <2>1, <2>2, <2>3
<1>6. m.type = "init" => r.nav # 0 /\ L = r.nav /\ s.doc = r.nav
  BY <1>1, <1>5 DEF Waits, Shown
<1>7. IsRequest(m, L) => L \in s.fetched
  BY <1>1, <1>5 DEF RequestsEnd
\* The events that are handled again.
<1>10. /\ v \in CallerStates /\ v.pc = r.pc /\ v.nav = r.nav /\ v.frame = known.frame /\ v.loader = L
       /\ v.req = 0 /\ ~v.init /\ ~v.finished /\ v.err = r.err
  <2>1. L \in Docs
    BY <1>5, NavigationAssumption DEF Docs, Navs
  <2>2. /\ v \in CallerStates /\ v.pc = known.pc /\ v.nav = known.nav /\ v.frame = known.frame /\ v.loader = L
        /\ v.req = known.req /\ v.init = known.init /\ v.err = known.err /\ v.finished = known.finished
    <3>1. known \in CallerStates
      BY <1>2
    <3>2. v = [known EXCEPT !.loader = L]
      OBVIOUS
    <3> HIDE DEF v
    <3>3. WithLoader(v, known, L)
      BY <2>1, <3>1, <3>2, LoaderFields, Zenon
    <3> QED BY <3>3, Zenon DEF WithLoader
  <2> QED BY <1>2, <1>4, <2>2
<1>11. u = Replay(v, events)
  OBVIOUS
<1> HIDE DEF v, events
<1>13. \A i \in 1..(Len(events) - 1) : events[i].type # "init"
  <2>1. \A i \in 1..(Len(events) - 1) : i \in 1..Len(r.early)
    BY <1>2
  <2> QED BY <1>2, <2>1 DEF Waits, Place, None
<1>14. /\ u.pc = r.pc /\ u.nav = r.nav /\ u.frame = known.frame /\ u.loader = L /\ u.early = <<>>
       /\ u.init => m.type = "init"
       /\ u.finished \/ r.err => u.err
       /\ Asks(events, L) => u.req = L
       /\ (\E a, b \in 1..Len(events) :
             a <= b /\ IsRequest(events[a], L) /\ IsFailure(events[b], L)) => u.err
  <2>1. Len(events) # 0 /\ v.loader # 0 /\ v.frame
    BY <1>5, <1>10, <1>2
  <2> QED BY <1>2, <1>10, <1>11, <1>13, <2>1, Replayed
<1>15. IsRequest(m, L) => u.req = L
  <2>1. Len(events) \in 1..Len(events)
    BY <1>2
  <2>2. IsRequest(m, L) => Asks(events, L)
    BY <1>2, <2>1 DEF Asks
  <2> QED BY <1>14, <2>2
<1>16. ASSUME FailureKept(r), L = r.nav PROVE u.err
  <2>1. PICK a, b \in 1..Len(r.early) :
          a <= b /\ IsRequest(r.early[a], r.nav) /\ IsFailure(r.early[b], r.nav)
    BY <1>16 DEF FailureKept
  <2>2. a \in 1..Len(events) /\ b \in 1..Len(events)
    BY <1>2
  <2> QED BY <1>2, <1>14, <1>16, <2>1, <2>2
<1>17. Place(u, k, s) /\ Shown(u, k, s) /\ Strangers(u, k)
  <2>1. None(u.early, "within") /\ None(u.early, "init")
    <3>1. 1..Len(u.early) = {}
      BY <1>14, EmptySeq
    <3> QED BY <3>1 DEF None
  <2> QED BY <1>5, <1>14, <2>1, WaitsNext DEF k
<1>18. Loader(u, k, s)
  <2>1. L <= s.navs
    <3>1. CASE IsRequest(m, L)
      BY <1>7, <3>1
    <3>2. CASE m.type = "init"
      BY <1>0, <1>6, <3>2 DEF Waits, Place
    <3> QED BY <1>5, <3>1, <3>2
  <2>2. ASSUME L # r.nav PROVE ~u.init /\ u.req = L /\ CancelAhead(k, 1, L)
    <3>1. IsRequest(m, L) /\ m.type = "request"
      BY <1>5, <1>6, <2>2
    <3>2. CancelAhead(q, 1, L)
      BY <1>1, <1>5, <2>2, <3>1 DEF Waits, Strangers
    <3>3. ~IsCancel(m, L) /\ 0 \in Nat /\ 0 + 1 = 1
      BY <3>1 DEF IsCancel, IsFailure
    <3>4. CancelAhead(k, 1, L)
      BY <3>2, <3>3, CancelTail DEF m, k
    <3> QED BY <1>14, <1>15, <3>1, <3>4
  <2> QED BY <1>5, <1>14, <2>1, <2>2 DEF Loader
<1>19. Requested(u, k, s)
  <2> SUFFICES ASSUME r.nav \in s.fetched, s.pending = r.nav, L = r.nav PROVE Known(u)
    BY <1>14 DEF Requested
  <2>1. s.doc < r.nav
    BY <1>0 DEF Numbered
  <2>2. IsRequest(m, L)
    BY <1>0, <1>5, <1>6, <2>1
  <2> QED BY <1>14, <1>15, <2>2 DEF Known
\* A failure of its navigation.
<1>20. ASSUME r.nav \in s.failed, ~u.err, L = r.nav
       PROVE  m.type # "init" /\ FailureAhead(u, k)
  <2>1. ~r.err /\ r.loader = 0
    BY <1>14, <1>20
  <2>2. FailureKept(r) \/ FailureAhead(r, q)
    BY <1>20, <2>1 DEF Waits, Failing
  <2>3. FailureAhead(r, q)
    BY <1>16, <1>20, <2>2
  <2>4. ~IsFailure(m, r.nav)
    BY <1>5 DEF IsFailure
  <2>5. CASE m.type = "init"
    <3>1. /\ Len(q) \in Nat /\ q[1].type = "init"
      BY <1>1, <2>5
    <3>2. \A j \in 1..Len(q) : ~Early(q, j)
      BY <3>1 DEF Early
    <3> QED BY <2>3, <3>2 DEF FailureAhead
  <2>6. CASE m.type # "init"
    <3>1. IsRequest(m, L)
      BY <1>5, <2>6
    <3>2. Known(u) /\ u.nav = r.nav
      BY <1>14, <1>15, <1>20, <3>1 DEF Known
    <3>3. \/ IsFailure(m, r.nav) /\ Known(r)
          \/ m.type # "init" /\ FailureAhead(u, k)
      BY <2>3, <3>2, FailureTail DEF m, k
    <3> QED BY <2>4, <3>3
  <2> QED BY <2>5, <2>6
<1>21. Failing(u, k, s)
  BY <1>5, <1>14, <1>20 DEF Failing
<1>22. Seen(u, k, s)
  <2> SUFFICES ASSUME u.init
               PROVE  /\ r.nav # 0 /\ L = r.nav /\ s.doc = r.nav /\ (r.nav \in s.failed => u.err)
                      /\ \A i \in 1..Len(k) : k[i].type = "load" => r.nav <= k[i].doc
    BY <1>14 DEF Seen
  <2>1. m.type = "init" /\ r.nav # 0 /\ L = r.nav /\ s.doc = r.nav /\ m.doc = r.nav
    BY <1>5, <1>6, <1>14
  <2>2. r.nav \in s.failed => u.err
    BY <1>20, <2>1
  <2>3. ASSUME NEW i \in 1..Len(k), k[i].type = "load" PROVE r.nav <= k[i].doc
    <3>1. i + 1 \in 1..Len(q) /\ k[i] = q[i + 1]
      BY <1>1
    <3> QED BY <1>1, <2>1, <2>3, <3>1 DEF LoadsInOrder
  <2> QED BY <2>1, <2>2, <2>3
<1>23. Ended(u, s)
  BY <1>14 DEF Ended
<1> QED BY <1>17, <1>18, <1>19, <1>21, <1>22, <1>23 DEF Waits, k

\* Whatever the message is.
LEMMA WaitsHeard ==
  ASSUME NEW r \in CallerStates, NEW q \in Seq(Messages), q # <<>>,
         NEW s \in Pages, Numbered(s), s.fetched \subseteq 1..s.navs,
         RequestsEnd(q, s), LoadsInOrder(q, s), Waits(r, q, s),
         r.loader # 0 => r.early = <<>>,
         NEW u, u = Heard(r, Head(q))
  PROVE  Waits(u, Tail(q), s)
<1> DEFINE m == Head(q)
           known == [r EXCEPT !.frame = FrameOf(r, m), !.early = Append(@, m)]
           L == LoaderOf(known, m)
<1>1. m \in Messages /\ u \in CallerStates
  BY Shorter, HeardType
<1>2. CASE r.finished
  BY <1>2, WaitsFinished DEF Heard
<1>3. CASE ~r.finished /\ r.loader # 0
  <2>1. u = HandleEvent(r, m)
    BY <1>3 DEF Heard
  <2> QED BY <1>1, <1>3, <2>1, WaitsHandle
<1>4. CASE ~r.finished /\ r.loader = 0
  <2>1. m.type # "within"
    BY NoneTail DEF Waits, Place
  <2>2. CASE L = 0
    <3>1. u = known
      BY <1>4, <2>1, <2>2 DEF Heard
    <3>2. LoaderOf(u, m) = 0
      BY <2>2, <3>1
    <3> QED BY <1>1, <1>4, <3>1, <3>2, WaitsKeep
  <2>3. CASE L # 0
    <3>1. u = Replay([known EXCEPT !.loader = L], known.early)
      BY <1>4, <2>1, <2>3 DEF Heard
    <3> QED BY <1>1, <1>4, <2>3, <3>1, WaitsFound
  <2> QED BY <2>2, <2>3
<1> QED BY <1>2, <1>3, <1>4


-----------------------------------------------------------------------------
(***************************************************************************)
(* The steps, when the callers navigate in turn.                           *)
(***************************************************************************)
LEMMA NowFields ==
  ASSUME TypeOK
  PROVE  /\ Now \in Pages
         /\ Now.doc = doc /\ Now.pending = pending /\ Now.navs = navs /\ Now.failed = failed
         /\ Now.fetched = fetched /\ Now.loaded = loaded
BY DEF Now, Pages, TypeOK

LEMMA NextFields ==
  ASSUME TypeOK'
  PROVE  /\ Now' \in Pages
         /\ (Now').doc = doc' /\ (Now').pending = pending' /\ (Now').navs = navs' /\ (Now').failed = failed'
         /\ (Now').fetched = fetched' /\ (Now').loaded = loaded'
BY DEF Now, Pages, TypeOK

LEMMA CountedNumbers ==
  ASSUME TypeOK, Counted
  PROVE  /\ Numbered(Now) /\ Now.failed \subseteq 1..Now.navs /\ Now.fetched \subseteq 1..Now.navs
BY NowFields DEF Counted, Numbered

\* A navigation begins when none is under way: only its request is sent.
LEMMA BeginInTurn ==
  ASSUME TypeOK, NEW requested \in BOOLEAN, Begin(requested), pending = 0
  PROVE  /\ navs' = navs + 1 /\ navs' \in Navs /\ pending' = navs' /\ failed' = failed
         /\ fetched' = IF requested THEN fetched \cup {navs'} ELSE fetched
         /\ \E x \in Seq(Messages) :
              /\ stream' = stream \o x
              /\ \A i \in 1..Len(x) : requested /\ IsRequest(x[i], navs')
              /\ requested => Len(x) = 1
<1>1. navs' = navs + 1 /\ navs' \in Navs /\ pending' = navs'
  BY BeginAdds
<1>2. failed' = failed /\ fetched' = IF requested THEN fetched \cup {navs'} ELSE fetched
  BY DEF Begin
<1>3. Failure(pending, TRUE) = <<>>
  BY DEF Failure, TypeOK, Navs
<1>4. /\ stream \in Seq(Messages) /\ stream \o <<>> = stream
  BY ConcatEmptySeq DEF TypeOK
<1> DEFINE m == [type |-> "request", id |-> DocRequest(navs')]
<1>5. m \in Messages /\ IsRequest(m, navs')
  <2>1. navs' \in Docs
    BY <1>1, NavigationAssumption DEF Navs, Docs
  <2> QED BY <2>1, RequestFields, MessageTypes DEF IsRequest
<1>6. stream' = stream \o (IF requested THEN <<m>> ELSE <<>>)
  BY <1>1, <1>3, <1>4 DEF Begin
<1> HIDE DEF m
<1>7. CASE requested
  <2> DEFINE x == <<m>>
  <2>1. x \in Seq(Messages) /\ Len(x) = 1 /\ x[1] = m
    BY <1>5, One
  <2>2. stream' = stream \o x
    BY <1>6, <1>7
  <2> HIDE DEF x
  <2>3. \A i \in 1..Len(x) : IsRequest(x[i], navs')
    BY <1>5, <2>1
  <2> QED BY <1>1, <1>2, <1>7, <2>1, <2>2, <2>3
<1>8. CASE ~requested
  <2> DEFINE x == <<>>
  <2>1. x \in Seq(Messages) /\ \A i \in 1..Len(x) : requested /\ IsRequest(x[i], navs')
    BY EmptySeq
  <2>2. stream' = stream \o x
    BY <1>6, <1>8
  <2> HIDE DEF x
  <2>3. \E y \in Seq(Messages) :
          /\ stream' = stream \o y
          /\ \A i \in 1..Len(y) : requested /\ IsRequest(y[i], navs')
          /\ requested => Len(y) = 1
    BY <1>8, <2>1, <2>2
  <2> QED BY <1>1, <1>2, <2>3, Zenon
<1> QED BY <1>7, <1>8

\* The page and the commands go on, with the navigation that is under way or without it.
LEMMA TurnsGrow ==
  ASSUME TypeOK, TypeOK', TurnsInv, Counted',
         doc' = doc, navs' = navs, fetched' = fetched, loaded => loaded', caller' = caller,
         NEW x \in Seq(Messages), stream' = stream \o x,
         \A i \in 1..Len(x) : /\ x[i].type \notin {"init", "within"}
                              /\ x[i].type = "load" => x[i].doc = doc /\ loaded'
                              /\ \A n \in Navs : ~IsRequest(x[i], n),
         (pending' = pending /\ failed' = failed)
           \/ /\ pending \in fetched /\ pending' = 0 /\ failed' = failed \cup {pending}
              /\ Len(x) = 1 /\ IsCancel(x[1], pending)
  PROVE  TurnsInv'
<1> DEFINE s == Now
           t == Now'
           q == stream
           p == stream'
<1>1. /\ s \in Pages /\ Numbered(s)
      /\ s.doc = doc /\ s.pending = pending /\ s.navs = navs /\ s.failed = failed
      /\ s.fetched = fetched /\ s.loaded = loaded
  BY NowFields, CountedNumbers DEF TurnsInv
<1>2. /\ t \in Pages
      /\ t.doc = doc' /\ t.pending = pending' /\ t.navs = navs' /\ t.failed = failed'
      /\ t.fetched = fetched' /\ t.loaded = loaded'
  BY NextFields
<1>3. q \in Seq(Messages) /\ p = q \o x
  BY DEF TypeOK
<1>4. RequestsEnd(q, s) /\ LoadsInOrder(q, s)
  BY DEF TurnsInv
<1>5. \A c \in Callers : Done(caller[c], s) /\ (Waiting(c) => caller[c].result = "none" /\ Waits(caller[c], q, s))
  BY DEF TurnsInv
<1>6. \A c \in Callers : Waiting(c)' <=> Waiting(c)
  BY DEF Waiting
<1>7. s.doc \in Nat /\ s.pending \in Nat /\ \A c \in Callers : caller[c] \in CallerStates /\ caller[c].nav \in Nat
  BY <1>1, NavigationAssumption DEF TypeOK, CallerStates, Pages, Docs
<1> HIDE DEF s, t, q, p
<1>8. RequestsEnd(p, t)
  <2>1. s.fetched \subseteq t.fetched
    BY <1>1, <1>2
  <2>2. \A i \in 1..Len(x), n \in Navs : IsRequest(x[i], n) => n \in t.fetched /\ n = t.pending
    OBVIOUS
  <2>3. t.pending = s.pending \/ s.pending = 0 \/ \E i \in 1..Len(x) : Ends(x[i], s.pending)
    BY <1>1, <1>2 DEF Ends
  <2> QED BY <1>1, <1>2, <1>3, <1>4, <2>1, <2>2, <2>3, RequestsGrow
<1>9. LoadsInOrder(p, t)
  <2>1. s.doc <= t.doc /\ (s.doc = t.doc => (s.loaded => t.loaded))
    BY <1>1, <1>2, <1>7
  <2>2. \A i \in 1..Len(x) : x[i].type \in {"load", "init"} => x[i].doc = t.doc
    BY <1>2
  <2>3. \A i \in 1..Len(x) : x[i].type = "load" => t.loaded
    BY <1>2
  <2> QED BY <1>1, <1>2, <1>3, <1>4, <2>1, <2>2, <2>3, LoadsGrow
<1>10. ASSUME NEW c \in Callers, Waiting(c) PROVE Waits(caller[c], p, t)
  <2> DEFINE r == caller[c]
  <2>1. r \in CallerStates /\ Waits(r, q, s)
    BY <1>5, <1>7, <1>10
  <2> HIDE DEF r
  <2>2. t.doc = s.doc /\ t.navs = s.navs /\ t.fetched = s.fetched /\ (s.loaded => t.loaded)
    BY <1>1, <1>2
  <2>3. \A i \in 1..Len(x) : /\ x[i].type \notin {"init", "within"}
                             /\ x[i].type = "load" => x[i].doc = s.doc
                             /\ \A n \in Navs : ~IsRequest(x[i], n)
    BY <1>1
  <2>4. (t.pending = s.pending /\ t.failed = s.failed)
          \/ /\ s.pending \in s.fetched /\ t.pending = 0 /\ t.failed = s.failed \cup {s.pending}
             /\ Len(x) = 1 /\ IsFailure(x[1], s.pending)
    BY <1>1, <1>2 DEF IsCancel
  <2>5. GoesOn(x, s, t)
    BY <2>2, <2>3, <2>4, Zenon DEF GoesOn
  <2>6. Waits(r, p, t)
    <3>1. s \in Pages /\ t \in Pages /\ Numbered(s) /\ q \in Seq(Messages) /\ p = q \o x
      BY <1>1, <1>2, <1>3
    <3> QED BY <2>1, <2>5, <3>1, WaitsGrow
  <2> QED BY <2>6 DEF r
<1>11. ASSUME NEW c \in Callers PROVE Done(caller[c], t)
  <2> SUFFICES ASSUME caller[c].result = "nil"
               PROVE  /\ caller[c].nav # 0 /\ caller[c].nav \notin t.failed /\ caller[c].nav <= t.doc
                      /\ t.doc = caller[c].nav => t.loaded
    BY DEF Done
  <2>1. /\ caller[c].nav # 0 /\ caller[c].nav \notin s.failed /\ caller[c].nav <= s.doc
        /\ s.doc = caller[c].nav => s.loaded
    BY <1>5 DEF Done
  <2>2. s.pending # 0 => s.doc < s.pending
    BY <1>1 DEF Numbered
  <2>3. caller[c].nav \notin t.failed
    BY <1>1, <1>2, <1>7, <2>1, <2>2
  <2> QED BY <1>1, <1>2, <2>1, <2>3
<1>12. InTurn'
  BY <1>6 DEF TurnsInv, InTurn
<1> QED BY <1>5, <1>6, <1>8, <1>9, <1>10, <1>11, <1>12 DEF TurnsInv, p, t

\* Abort, Say, SendFetch, EndFetch, Load, Answer.
LEMMA TurnsPage ==
  ASSUME TypeOK, TypeOK', TurnsInv, Counted',
         \/ Abort \/ Say \/ Load \/ \E c \in Callers : Answer(c)
         \/ \E kind \in Kinds : SendFetch(kind) \/ EndFetch(kind)
  PROVE  TurnsInv'
<1>0. doc \in Docs /\ stream \in Seq(Messages)
  BY DEF TypeOK
\* One message.
<1>1. ASSUME NEW m \in Messages, stream' = Append(stream, m),
             doc' = doc, navs' = navs, fetched' = fetched, loaded => loaded', caller' = caller,
             pending' = pending, failed' = failed,
             m.type \notin {"init", "within"}, m.type = "load" => m.doc = doc /\ loaded',
             \A n \in Navs : ~IsRequest(m, n)
      PROVE  TurnsInv'
  <2>1. PICK x \in Seq(Messages) : stream' = stream \o x /\ Len(x) = 1 /\ x[1] = m
    BY <1>0, <1>1, AppendIsLonger
  <2>2. \A i \in 1..Len(x) : /\ x[i].type \notin {"init", "within"}
                             /\ x[i].type = "load" => x[i].doc = doc /\ loaded'
                             /\ \A n \in Navs : ~IsRequest(x[i], n)
    <3>1. \A i \in 1..Len(x) : x[i] = m
      BY <2>1
    <3> QED BY <1>1, <3>1
  <2>3. stream' = stream \o x
    BY <2>1
  <2> QED BY <1>1, <2>2, <2>3, TurnsGrow
<1>2. CASE Abort
  <2>1. pending \in Navs /\ pending \in Docs /\ TRUE \in BOOLEAN
    BY <1>2 DEF Abort, TypeOK
  <2> DEFINE x == Failure(pending, TRUE)
             m == [type |-> "failed", id |-> DocRequest(pending), canceled |-> TRUE]
  <2>2. x \in Seq(Messages) /\ x = <<m>> /\ Len(x) = 1
    <3>1. pending \in fetched
      BY <1>2 DEF Abort
    <3> QED BY <2>1, <3>1, FailureType, Zenon
  <2>3. stream' = stream \o x
    BY <1>2 DEF Abort
  <2>4. m.type = "failed" /\ IsCancel(m, pending)
    BY DEF IsCancel, IsFailure
  <2> HIDE DEF x, m
  <2>5. x[1] = m /\ \A i \in 1..Len(x) : x[i] = m
    BY <2>2
  <2>6. \A i \in 1..Len(x) : /\ x[i].type \notin {"init", "within"}
                             /\ x[i].type = "load" => x[i].doc = doc /\ loaded'
                             /\ \A n \in Navs : ~IsRequest(x[i], n)
    BY <2>4, <2>5 DEF IsRequest
  <2>7. /\ pending \in fetched /\ pending' = 0 /\ failed' = failed \cup {pending}
        /\ Len(x) = 1 /\ IsCancel(x[1], pending)
    BY <1>2, <2>2, <2>4, <2>5 DEF Abort
  <2>8. doc' = doc /\ navs' = navs /\ fetched' = fetched /\ (loaded => loaded') /\ caller' = caller
    BY <1>2 DEF Abort
  <2> QED BY <2>2, <2>3, <2>6, <2>7, <2>8, TurnsGrow
<1>3. CASE Say
  <2> DEFINE m == [type |-> "console", doc |-> doc]
  <2>1. m \in Messages /\ m.type = "console"
    BY <1>0, MessageTypes
  <2>2. stream' = Append(stream, m)
    BY <1>3 DEF Say
  <2> HIDE DEF m
  <2> QED BY <1>1, <1>3, <2>1, <2>2 DEF Say, IsRequest
<1>4. ASSUME NEW kind \in Kinds, SendFetch(kind) PROVE TurnsInv'
  <2> DEFINE m == [type |-> "request", id |-> SubRequest(doc, kind)]
  <2>1. m \in Messages /\ m.type = "request" /\ \A n \in Navs : ~IsRequest(m, n)
    BY <1>0, MessageTypes, RequestFields DEF IsRequest, DocRequest, SubRequest
  <2>2. stream' = Append(stream, m)
    BY <1>4 DEF SendFetch
  <2> HIDE DEF m
  <2> QED BY <1>1, <1>4, <2>1, <2>2 DEF SendFetch
<1>5. ASSUME NEW kind \in Kinds, EndFetch(kind) PROVE TurnsInv'
  <2>1. PICK m \in Messages : stream' = Append(stream, m) /\ m.type \in {"response", "failed"}
    BY <1>5, EndAdds
  <2> QED BY <1>1, <1>5, <2>1 DEF EndFetch, IsRequest
<1>6. CASE Load
  <2> DEFINE m == [type |-> "load", doc |-> doc]
  <2>1. m \in Messages /\ m.type = "load" /\ m.doc = doc
    BY <1>0, MessageTypes
  <2>2. stream' = Append(stream, m)
    BY <1>6 DEF Load
  <2> HIDE DEF m
  <2> QED BY <1>1, <1>6, <2>1, <2>2 DEF Load, IsRequest
<1>7. ASSUME NEW c \in Callers, Answer(c) PROVE TurnsInv'
  <2>1. PICK error \in BOOLEAN : stream' = Append(stream, [type |-> "answer", to |-> c, error |-> error])
    BY <1>7 DEF Answer
  <2> DEFINE m == [type |-> "answer", to |-> c, error |-> error]
  <2>2. m \in Messages /\ m.type = "answer"
    BY MessageTypes
  <2>3. stream' = Append(stream, m)
    BY <2>1
  <2> HIDE DEF m
  <2> QED BY <1>1, <1>7, <2>2, <2>3 DEF Answer, IsRequest
<1> QED BY <1>2, <1>3, <1>4, <1>5, <1>6, <1>7

\* The page of a navigation is shown.
LEMMA TurnsCommit ==
  ASSUME TypeOK, TypeOK', TurnsInv, Counted', Commit
  PROVE  TurnsInv'
<1> DEFINE s == Now
           t == Now'
           q == stream
           p == stream'
<1>1. /\ s \in Pages /\ Numbered(s)
      /\ s.doc = doc /\ s.pending = pending /\ s.navs = navs /\ s.failed = failed
      /\ s.fetched = fetched /\ s.loaded = loaded
  BY NowFields, CountedNumbers DEF TurnsInv
<1>2. /\ t \in Pages
      /\ t.doc = doc' /\ t.pending = pending' /\ t.navs = navs' /\ t.failed = failed'
      /\ t.fetched = fetched' /\ t.loaded = loaded'
  BY NextFields
<1>3. PICK x \in Seq(Messages), k \in {0, 1} :
        /\ stream' = stream \o x /\ Len(x) = k + 3
        /\ k = 1 => x[1].type \in {"response", "failed"} /\ x[1].id = DocRequest(pending)
        /\ x[k + 1].type = "cleared" /\ x[k + 2].type = "navigated" /\ IsInit(x[k + 3], pending)
        /\ pending \in fetched => k = 1
        /\ failed' # failed => k = 1 /\ IsFailure(x[1], pending)
  BY CommitAdds
<1>4. /\ pending # 0 /\ doc' = pending /\ pending' = 0 /\ navs' = navs /\ fetched' = fetched
      /\ caller' = caller /\ failed' \in {failed, failed \cup {pending}}
      /\ failed' # failed => pending \in fetched
  BY DEF Commit, TypeOK
<1>5. RequestsEnd(q, s) /\ LoadsInOrder(q, s)
  BY DEF TurnsInv
<1>6. \A c \in Callers : Done(caller[c], s) /\ (Waiting(c) => caller[c].result = "none" /\ Waits(caller[c], q, s))
  BY DEF TurnsInv
<1>7. \A c \in Callers : Waiting(c)' <=> Waiting(c)
  BY <1>4 DEF Waiting
<1>8. /\ s.doc \in Nat /\ s.pending \in Nat /\ s.doc < s.pending
      /\ \A c \in Callers : caller[c] \in CallerStates /\ caller[c].nav \in Nat
  <2>1. s.doc \in Nat /\ s.pending \in Nat /\ \A c \in Callers : caller[c] \in CallerStates /\ caller[c].nav \in Nat
    BY <1>1, NavigationAssumption DEF TypeOK, CallerStates, Pages, Docs
  <2> QED BY <1>1, <1>4, <2>1 DEF Numbered
<1>9. q \in Seq(Messages) /\ p = q \o x
  BY <1>3 DEF TypeOK
<1>10. /\ \A i \in 1..Len(x) : x[i].type \in {"response", "failed", "cleared", "navigated", "init"}
       /\ \A i \in 1..Len(x) : x[i].type = "init" => x[i].doc = pending
       /\ k + 3 \in 1..Len(x)
  <2>1. \A i \in 1..Len(x) : i = k + 1 \/ i = k + 2 \/ i = k + 3 \/ (k = 1 /\ i = 1)
    BY <1>3
  <2>2. x[k + 3].type = "init" /\ x[k + 3].doc = pending
    BY <1>3 DEF IsInit
  <2>3. ASSUME NEW i \in 1..Len(x) PROVE x[i].type \in {"response", "failed", "cleared", "navigated", "init"}
    BY <1>3, <2>1, <2>2
  <2>4. ASSUME NEW i \in 1..Len(x), x[i].type = "init" PROVE x[i].doc = pending
    BY <1>3, <2>1, <2>2, <2>4
  <2>5. k + 3 \in 1..Len(x)
    BY <1>3
  <2> QED BY <2>3, <2>4, <2>5
<1> HIDE DEF s, t, q, p
<1>11. RequestsEnd(p, t)
  <2>1. s.fetched \subseteq t.fetched
    BY <1>1, <1>2, <1>4
  <2>2. \A i \in 1..Len(x), n \in Navs : IsRequest(x[i], n) => n \in t.fetched /\ n = t.pending
    BY <1>10 DEF IsRequest
  <2>3. t.pending = s.pending \/ s.pending = 0 \/ \E i \in 1..Len(x) : Ends(x[i], s.pending)
    BY <1>1, <1>3, <1>10 DEF Ends
  <2> QED BY <1>1, <1>2, <1>5, <1>9, <2>1, <2>2, <2>3, RequestsGrow
<1>12. LoadsInOrder(p, t)
  <2>1. s.doc <= t.doc /\ (s.doc = t.doc => (s.loaded => t.loaded))
    BY <1>1, <1>2, <1>4, <1>8
  <2>2. \A i \in 1..Len(x) : x[i].type \in {"load", "init"} => x[i].doc = t.doc
    BY <1>2, <1>4, <1>10
  <2>3. \A i \in 1..Len(x) : x[i].type = "load" => t.loaded
    BY <1>10
  <2> QED BY <1>1, <1>2, <1>5, <1>9, <2>1, <2>2, <2>3, LoadsGrow
<1>13. ASSUME NEW c \in Callers, Waiting(c) PROVE Waits(caller[c], p, t)
  <2> DEFINE r == caller[c]
  <2>1. r \in CallerStates /\ Waits(r, q, s)
    BY <1>6, <1>8, <1>13
  <2> HIDE DEF r
  <2>2. /\ s.pending # 0 /\ t.doc = s.pending /\ t.pending = 0 /\ t.navs = s.navs /\ t.fetched = s.fetched
    BY <1>1, <1>2, <1>4
  <2>3. /\ Len(x) = k + 3 /\ (k = 1 => x[1].type \in {"response", "failed"})
        /\ x[k + 1].type = "cleared" /\ x[k + 2].type = "navigated" /\ IsInit(x[k + 3], s.pending)
    BY <1>1, <1>3
  <2>4. \/ t.failed = s.failed
        \/ /\ s.pending \in s.fetched /\ t.failed = s.failed \cup {s.pending}
           /\ k = 1 /\ IsFailure(x[1], s.pending)
    BY <1>1, <1>2, <1>3, <1>4
  <2>5. Waits(r, p, t)
    BY <1>1, <1>2, <1>9, <2>1, <2>2, <2>3, <2>4, WaitsCommit
  <2> QED BY <2>5 DEF r
<1>14. ASSUME NEW c \in Callers PROVE Done(caller[c], t)
  <2> SUFFICES ASSUME caller[c].result = "nil"
               PROVE  /\ caller[c].nav # 0 /\ caller[c].nav \notin t.failed /\ caller[c].nav < t.doc
    BY <1>2, <1>4, <1>1, <1>8 DEF Done
  <2>1. caller[c].nav # 0 /\ caller[c].nav \notin s.failed /\ caller[c].nav <= s.doc
    BY <1>6 DEF Done
  <2> QED BY <1>1, <1>2, <1>4, <1>8, <2>1
<1>15. InTurn'
  BY <1>7 DEF TurnsInv, InTurn
<1> QED BY <1>4, <1>6, <1>7, <1>11, <1>12, <1>13, <1>14, <1>15 DEF TurnsInv, p, t

\* A navigation begins when none is under way.
LEMMA BeginOrder ==
  ASSUME TypeOK, TypeOK', TurnsInv, NEW requested \in BOOLEAN, Begin(requested), pending = 0,
         doc' = doc, loaded' = loaded
  PROVE  /\ RequestsEnd(stream', Now') /\ LoadsInOrder(stream', Now')
         /\ \A c \in Callers : Done(caller[c], Now')
<1> DEFINE s == Now
           t == Now'
           q == stream
           p == stream'
<1>1. /\ s \in Pages
      /\ s.doc = doc /\ s.pending = pending /\ s.navs = navs /\ s.failed = failed
      /\ s.fetched = fetched /\ s.loaded = loaded
  BY NowFields
<1>2. /\ t \in Pages
      /\ t.doc = doc' /\ t.pending = pending' /\ t.navs = navs' /\ t.failed = failed'
      /\ t.fetched = fetched' /\ t.loaded = loaded'
  BY NextFields
<1>3. /\ navs' \in Navs /\ pending' = navs' /\ failed' = failed
      /\ fetched' = IF requested THEN fetched \cup {navs'} ELSE fetched
      /\ \E x \in Seq(Messages) :
           /\ stream' = stream \o x
           /\ \A i \in 1..Len(x) : requested /\ IsRequest(x[i], navs')
           /\ requested => Len(x) = 1
  BY BeginInTurn
<1>4. PICK x \in Seq(Messages) :
        p = q \o x /\ \A i \in 1..Len(x) : requested /\ IsRequest(x[i], navs')
  BY <1>3
<1>5. RequestsEnd(q, s) /\ LoadsInOrder(q, s) /\ \A c \in Callers : Done(caller[c], s)
  BY DEF TurnsInv
<1>6. q \in Seq(Messages) /\ s.doc \in Nat
  BY <1>1, NavigationAssumption DEF TypeOK, Pages, Docs
<1>7. \A i \in 1..Len(x) : x[i].type = "request"
  BY <1>4 DEF IsRequest
<1> HIDE DEF s, t, q, p
<1>8. RequestsEnd(p, t)
  <2>1. s.fetched \subseteq t.fetched
    BY <1>1, <1>2, <1>3
  <2>2. ASSUME NEW i \in 1..Len(x), NEW n \in Navs, IsRequest(x[i], n)
        PROVE  n \in t.fetched /\ n = t.pending
    <3>1. requested /\ IsRequest(x[i], navs')
      BY <1>4
    <3>2. n = DocRequest(n).doc /\ navs' = DocRequest(navs').doc
      BY DEF DocRequest
    <3>3. n = navs'
      BY <2>2, <3>1, <3>2 DEF IsRequest
    <3> QED BY <1>2, <1>3, <3>1, <3>3
  <2>3. s.pending = 0
    BY <1>1
  <2> QED BY <1>1, <1>2, <1>4, <1>5, <1>6, <2>1, <2>2, <2>3, RequestsGrow
<1>9. LoadsInOrder(p, t)
  <2>1. s.doc <= t.doc /\ (s.doc = t.doc => (s.loaded => t.loaded))
    BY <1>1, <1>2, <1>6
  <2>2. \A i \in 1..Len(x) : x[i].type \in {"load", "init"} => x[i].doc = t.doc
    BY <1>7
  <2>3. \A i \in 1..Len(x) : x[i].type = "load" => t.loaded
    BY <1>7
  <2> QED BY <1>1, <1>2, <1>4, <1>5, <1>6, <2>1, <2>2, <2>3, LoadsGrow
<1>10. \A c \in Callers : Done(caller[c], t)
  BY <1>1, <1>2, <1>3, <1>5 DEF Done
<1> QED BY <1>8, <1>9, <1>10 DEF p, t

\* The page navigates, or rewrites its URL, while no caller waits.
LEMMA TurnsAlone ==
  ASSUME TypeOK, TypeOK', TurnsInv, Counted', Overlap = FALSE, PageNavigates \/ PageRewritesURL
  PROVE  TurnsInv'
<1>1. pending = 0 /\ caller' = caller /\ \A c \in Callers : ~Waiting(c)
  BY DEF PageNavigates, PageRewritesURL, Settled
<1>2. \A c \in Callers : ~Waiting(c)'
  BY <1>1 DEF Waiting
<1>3. CASE PageNavigates
  <2>1. Begin(TRUE) /\ TRUE \in BOOLEAN /\ doc' = doc /\ loaded' = loaded
    BY <1>3 DEF PageNavigates
  <2>2. /\ RequestsEnd(stream', Now') /\ LoadsInOrder(stream', Now')
        /\ \A c \in Callers : Done(caller[c], Now')
    BY <1>1, <2>1, BeginOrder
  <2> QED BY <1>1, <1>2, <2>2 DEF TurnsInv, InTurn
<1>4. CASE PageRewritesURL
  <2> DEFINE s == Now
  <2>1. s \in Pages /\ Now' = s /\ RequestsEnd(stream, s) /\ LoadsInOrder(stream, s) /\ stream \in Seq(Messages)
    BY <1>4, NowFields DEF PageRewritesURL, chrome, Now, TurnsInv, TypeOK
  <2> HIDE DEF s
  <2> DEFINE m == [type |-> "within"]
  <2>2. m \in Messages /\ m.type = "within"
    BY MessageTypes
  <2>3. stream' = Append(stream, m)
    BY <1>4 DEF PageRewritesURL
  <2> HIDE DEF m
  <2>4. PICK x \in Seq(Messages) : stream' = stream \o x /\ Len(x) = 1 /\ x[1] = m
    BY <2>1, <2>2, <2>3, AppendIsLonger
  <2>5. stream' = stream \o x /\ \A i \in 1..Len(x) : x[i].type = "within"
    <3>1. \A i \in 1..Len(x) : x[i] = m
      BY <2>4
    <3> QED BY <2>2, <2>4, <3>1
  <2>6. s.doc \in Nat
    BY <2>1, NavigationAssumption DEF Pages, Docs
  <2>7. RequestsEnd(stream', s)
    <3>1. \A i \in 1..Len(x), n \in Navs : IsRequest(x[i], n) => n \in s.fetched /\ n = s.pending
      BY <2>5 DEF IsRequest
    <3>2. s.fetched \subseteq s.fetched /\ s.pending = s.pending
      OBVIOUS
    <3>3. s \in Pages /\ RequestsEnd(stream, s) /\ stream \in Seq(Messages) /\ stream' = stream \o x
      BY <2>1, <2>5
    <3> QED BY <3>1, <3>2, <3>3, RequestsGrow, Zenon
  <2>8. LoadsInOrder(stream', s)
    <3>1. \A i \in 1..Len(x) : x[i].type \in {"load", "init"} => x[i].doc = s.doc
      BY <2>5
    <3>2. \A i \in 1..Len(x) : x[i].type = "load" => s.loaded
      BY <2>5
    <3>3. s.doc <= s.doc /\ (s.doc = s.doc => (s.loaded => s.loaded))
      BY <2>6
    <3> QED BY <2>1, <2>5, <3>1, <3>2, <3>3, LoadsGrow
  <2>9. \A c \in Callers : Done(caller[c], s)
    BY DEF TurnsInv, s
  <2> QED BY <1>1, <1>2, <2>1, <2>7, <2>8, <2>9 DEF TurnsInv, InTurn
<1> QED BY <1>3, <1>4

\* A caller registers its listener while none waits.
LEMMA TurnsListen ==
  ASSUME TypeOK, TypeOK', TurnsInv, Counted', Overlap = FALSE,
         NEW c \in Callers, NEW command \in {"navigate", "reload"}, Listen(c, command)
  PROVE  TurnsInv'
<1> DEFINE s == Now
<1>1. /\ s \in Pages /\ s.pending = pending /\ Now' = s /\ stream' = stream /\ stream \in Seq(Messages)
      /\ RequestsEnd(stream, s) /\ LoadsInOrder(stream, s) /\ \A e \in Callers : Done(caller[e], s)
  BY NowFields DEF Listen, chrome, Now, TurnsInv, TypeOK
<1>2. /\ pending = 0 /\ \A e \in Callers : ~Waiting(e)
      /\ None(stream, "init") /\ None(stream, "within")
  BY DEF Listen, Settled, None, TypeOK
<1>3. PICK frame \in BOOLEAN :
        caller' = [caller EXCEPT ![c] =
          [Idle EXCEPT !.pc = "listening", !.command = command, !.frame = frame]]
  BY DEF Listen, TypeOK
<1> DEFINE r == [Idle EXCEPT !.pc = "listening", !.command = command, !.frame = frame]
<1>4. r.result = "none" /\ r.pc = "listening"
  BY DEF Idle
<1>5. Waits(r, stream, s)
  <2>1. s.pending = 0
    BY <1>1, <1>2
  <2>2. r = [Idle EXCEPT !.pc = "listening", !.command = command, !.frame = frame]
    OBVIOUS
  <2> HIDE DEF r, s
  <2> QED BY <1>1, <1>2, <2>1, <2>2, WaitsListen, Zenon
<1>6. \A e \in Callers : caller'[e] = IF e = c THEN r ELSE caller[e]
  BY <1>3 DEF TypeOK
<1> HIDE DEF r, s
<1>7. ASSUME NEW e \in Callers
      PROVE  /\ Waiting(e)' => e = c /\ caller'[e].result = "none" /\ Waits(caller'[e], stream, s)
             /\ Done(caller'[e], s)
  <2>1. CASE e = c
    <3>1. caller'[e] = r
      BY <1>6, <2>1
    <3> QED BY <1>4, <1>5, <2>1, <3>1 DEF Done
  <2>2. CASE e # c
    <3>1. caller'[e] = caller[e] /\ ~Waiting(e)'
      BY <1>2, <1>6, <2>2 DEF Waiting
    <3> QED BY <1>1, <3>1
  <2> QED BY <2>1, <2>2
<1>8. InTurn'
  BY <1>7 DEF InTurn
<1> QED BY <1>1, <1>7, <1>8 DEF TurnsInv

\* It sends its command.
LEMMA TurnsSend ==
  ASSUME TypeOK, TypeOK', TurnsInv, Counted', NEW c \in Callers, NEW requested \in BOOLEAN, Send(c, requested)
  PROVE  TurnsInv'
<1> DEFINE s == Now
           t == Now'
           q == stream
           p == stream'
           r == caller[c]
           u == [r EXCEPT !.pc = "sent", !.nav = navs + 1]
<1>1. /\ s \in Pages /\ Numbered(s) /\ s.failed \subseteq 1..s.navs /\ s.fetched \subseteq 1..s.navs
      /\ s.doc = doc /\ s.pending = pending /\ s.navs = navs /\ s.failed = failed
      /\ s.fetched = fetched /\ s.loaded = loaded
  BY NowFields, CountedNumbers DEF TurnsInv
<1>2. /\ t \in Pages
      /\ t.doc = doc' /\ t.pending = pending' /\ t.navs = navs' /\ t.failed = failed'
      /\ t.fetched = fetched' /\ t.loaded = loaded'
  BY NextFields
<1>3. /\ r \in CallerStates /\ r.pc = "listening" /\ Waiting(c) /\ r.result = "none" /\ Waits(r, q, s)
  BY DEF Send, Waiting, TurnsInv, TypeOK
<1>4. pending = 0
  BY <1>1, <1>3 DEF Waits, Place
<1>5. Begin(requested) /\ doc' = doc /\ loaded' = loaded /\ caller' = [caller EXCEPT ![c] = u]
  BY DEF Send
<1>6. /\ RequestsEnd(p, t) /\ LoadsInOrder(p, t) /\ \A e \in Callers : Done(caller[e], t)
  BY <1>4, <1>5, BeginOrder
<1>7. /\ navs' = navs + 1 /\ navs' \in Navs /\ pending' = navs' /\ failed' = failed
      /\ fetched' = IF requested THEN fetched \cup {navs'} ELSE fetched
      /\ \E x \in Seq(Messages) :
           /\ stream' = stream \o x
           /\ \A i \in 1..Len(x) : requested /\ IsRequest(x[i], navs')
           /\ requested => Len(x) = 1
  BY <1>4, <1>5, BeginInTurn
<1>8. navs \in Nat /\ navs + 1 \in Docs /\ q \in Seq(Messages)
  BY <1>7, NavigationAssumption DEF TypeOK, Docs, Navs
<1>9. u \in CallerStates /\ u.pc = "sent" /\ u.result = "none"
  BY <1>3, <1>8 DEF CallerStates
<1>10. \A e \in Callers : caller'[e] = IF e = c THEN u ELSE caller[e]
  BY <1>5 DEF TypeOK
<1>11. Waits(u, p, t)
  <2>1. u = [r EXCEPT !.pc = "sent", !.nav = t.navs]
    BY <1>2, <1>7
  <2> HIDE DEF u, r, s, t, q, p
  <2>2. PICK x \in Seq(Messages) :
           /\ p = q \o x
           /\ \A i \in 1..Len(x) : requested /\ IsRequest(x[i], navs')
           /\ requested => Len(x) = 1
    BY <1>7 DEF p, q
  <2>3. /\ t.doc = s.doc /\ t.loaded = s.loaded /\ t.navs = s.navs + 1 /\ t.pending = t.navs
        /\ t.failed = s.failed
    BY <1>1, <1>2, <1>5, <1>7
  <2>4. \A i \in 1..Len(x) : IsRequest(x[i], t.navs)
    BY <1>2, <2>2
  <2>5. t.navs \in t.fetched => Len(x) = 1
    <3>1. navs + 1 \notin 1..navs
      BY <1>8
    <3> QED BY <1>1, <1>2, <1>7, <2>2, <3>1
  <2>6. /\ s \in Pages /\ Numbered(s) /\ s.failed \subseteq 1..s.navs /\ s.fetched \subseteq 1..s.navs
        /\ t \in Pages /\ q \in Seq(Messages) /\ p = q \o x
    BY <1>1, <1>2, <1>8, <2>2
  <2>7. r \in CallerStates /\ r.pc = "listening" /\ Waits(r, q, s) /\ u \in CallerStates
    BY <1>3, <1>9
  <2>8. SendsOff(r, u, x, s, t)
    BY <1>1, <1>3, <2>1, <2>3, <2>4, <2>5 DEF SendsOff
  <2> QED BY <2>6, <2>7, <2>8, WaitsSend
<1>12. \A e \in Callers : e # c => ~Waiting(e)
  BY <1>3 DEF TurnsInv, InTurn
<1> HIDE DEF u, r, s, t, q, p
<1>13. ASSUME NEW e \in Callers
       PROVE  /\ Waiting(e)' => e = c /\ caller'[e].result = "none" /\ Waits(caller'[e], p, t)
              /\ Done(caller'[e], t)
  <2>1. CASE e = c
    <3>1. caller'[e] = u
      BY <1>10, <2>1
    <3> QED BY <1>9, <1>11, <2>1, <3>1 DEF Done
  <2>2. CASE e # c
    <3>1. caller'[e] = caller[e] /\ ~Waiting(e)'
      BY <1>10, <1>12, <2>2 DEF Waiting
    <3> QED BY <1>6, <3>1
  <2> QED BY <2>1, <2>2
<1>14. InTurn'
  BY <1>13 DEF InTurn
<1> QED BY <1>6, <1>13, <1>14 DEF TurnsInv, p, t

\* It returns: the page it waited for is there, or it has an error.
LEMMA TurnsReturn ==
  ASSUME TypeOK, TypeOK', TurnsInv, Counted', NEW c \in Callers, Finish(c) \/ ContextDone(c)
  PROVE  TurnsInv'
<1> DEFINE s == Now
           r == caller[c]
<1>1. /\ s \in Pages /\ Now' = s /\ stream' = stream
      /\ RequestsEnd(stream, s) /\ LoadsInOrder(stream, s)
      /\ \A e \in Callers : Done(caller[e], s) /\ (Waiting(e) => caller[e].result = "none" /\ Waits(caller[e], stream, s))
  BY NowFields DEF Finish, ContextDone, chrome, Now, TurnsInv
<1>2. r \in CallerStates /\ s.doc \in Nat
  BY <1>1, NavigationAssumption DEF TypeOK, Pages, Docs
<1>3. Waits(r, stream, s)
  BY <1>1 DEF Finish, ContextDone, Waiting
<1>4. PICK result \in {"error", "nil"} :
        /\ caller' = [caller EXCEPT ![c] = Returned(r, result)]
        /\ result = "nil" => r.finished /\ ~r.err
  BY DEF Finish, ContextDone
<1> DEFINE u == Returned(r, result)
<1>5. u.pc = "returned" /\ u.result = result /\ u.nav = r.nav
  <2> HIDE DEF r
  <2> QED BY <1>2, ReturnedType
<1>6. \A e \in Callers : caller'[e] = IF e = c THEN u ELSE caller[e]
  BY <1>4 DEF TypeOK
<1> HIDE DEF s, r, u
<1>7. Done(u, s)
  <2> SUFFICES ASSUME result = "nil"
               PROVE  /\ r.nav # 0 /\ r.nav \notin s.failed /\ r.nav <= s.doc
                      /\ s.doc = r.nav => s.loaded
    BY <1>5 DEF Done
  <2>1. r.nav # 0 /\ r.nav \notin s.failed /\ s.doc = r.nav /\ s.loaded
    BY <1>3, <1>4 DEF Waits, Ended
  <2> QED BY <1>2, <2>1
<1>8. ASSUME NEW e \in Callers
      PROVE  /\ Waiting(e)' => Waiting(e) /\ caller'[e].result = "none" /\ Waits(caller'[e], stream, s)
             /\ Done(caller'[e], s)
  <2>1. CASE e = c
    <3>1. caller'[e] = u
      BY <1>6, <2>1
    <3> QED BY <1>5, <1>7, <3>1 DEF Waiting
  <2>2. CASE e # c
    <3>1. caller'[e] = caller[e] /\ (Waiting(e)' <=> Waiting(e))
      BY <1>6, <2>2 DEF Waiting
    <3> QED BY <1>1, <3>1
  <2> QED BY <2>1, <2>2
<1>9. InTurn'
  BY <1>8 DEF TurnsInv, InTurn
<1> QED BY <1>1, <1>8, <1>9 DEF TurnsInv

\* The next message is handed to the listeners.
LEMMA TurnsDispatch ==
  ASSUME TypeOK, TypeOK', TurnsInv, Counted', Dispatch
  PROVE  TurnsInv'
<1> DEFINE s == Now
           q == stream
           m == Head(q)
<1>1. /\ s \in Pages /\ Numbered(s) /\ s.failed \subseteq 1..s.navs /\ s.fetched \subseteq 1..s.navs
  BY NowFields, CountedNumbers DEF TurnsInv
<1>2. /\ Now' = s /\ stream' = Tail(q) /\ q # <<>> /\ q \in Seq(Messages)
      /\ RequestsEnd(q, s) /\ LoadsInOrder(q, s)
  BY DEF Dispatch, chrome, Now, TurnsInv, TypeOK
<1>3. m \in Messages
  BY <1>2, Shorter
<1>4. \A c \in Callers : caller'[c] =
        IF m.type = "answer" THEN IF m.to = c /\ caller[c].pc = "sent" THEN Answered(caller[c], m) ELSE caller[c]
        ELSE IF Waiting(c) THEN Heard(caller[c], m) ELSE caller[c]
  BY DEF Dispatch
<1>5. \A c \in Callers : Done(caller[c], s) /\ (Waiting(c) => caller[c].result = "none" /\ Waits(caller[c], q, s))
  BY DEF TurnsInv
<1>6. ASSUME NEW c \in Callers
      PROVE  caller[c] \in CallerStates /\ (caller[c].loader # 0 => caller[c].early = <<>>)
  BY DEF TypeOK
<1> HIDE DEF s, q, m
<1>7. RequestsEnd(Tail(q), s) /\ LoadsInOrder(Tail(q), s)
  BY <1>2, RequestsTail, LoadsTail
<1>8. ASSUME NEW c \in Callers
      PROVE  /\ Waiting(c)' => Waiting(c) /\ caller'[c].result = "none" /\ Waits(caller'[c], Tail(q), s)
             /\ Done(caller'[c], s)
  <2> DEFINE r == caller[c]
             u == caller'[c]
  <2>1. r \in CallerStates /\ (r.loader # 0 => r.early = <<>>) /\ Done(r, s)
    BY <1>5, <1>6
  <2>2. Waiting(c) => r.result = "none" /\ Waits(r, q, s)
    BY <1>5
  <2>3. /\ Waiting(c) <=> r.pc \in {"listening", "sent", "waiting"}
        /\ Waiting(c)' <=> u.pc \in {"listening", "sent", "waiting"}
    BY DEF Waiting
  <2>4. u = IF m.type = "answer" THEN IF m.to = c /\ r.pc = "sent" THEN Answered(r, m) ELSE r
            ELSE IF Waiting(c) THEN Heard(r, m) ELSE r
    BY <1>4
  <2> HIDE DEF r, u
  <2>5. CASE m.type = "answer" /\ m.to = c /\ r.pc = "sent"
    <3>1. u = Answered(r, m)
      BY <2>4, <2>5
    <3>2. CASE m.error
      <4>1. u = Returned(r, "error")
        BY <3>1, <3>2 DEF Answered
      <4>2. u.pc = "returned" /\ u.result = "error"
        BY <2>1, <4>1, ReturnedType
      <4>3. Done(u, s) /\ ~Waiting(c)'
        BY <2>3, <4>2 DEF Done
      <4> QED BY <4>3 DEF u
    <3>3. CASE ~m.error
      <4>1. u = [r EXCEPT !.pc = "waiting"]
        BY <3>1, <3>3 DEF Answered
      <4>2. u \in CallerStates /\ u.result = r.result
        BY <2>1, <4>1 DEF CallerStates
      <4>3. Waiting(c) /\ r.result = "none" /\ Waits(r, q, s)
        BY <2>2, <2>3, <2>5
      <4>4. "waiting" = "listening" <=> r.pc = "listening"
        BY <2>5
      <4>5. Head(q).type = "answer"
        BY <2>5 DEF m
      <4>6. Waits(u, Tail(q), s)
        BY <1>1, <1>2, <2>1, <4>1, <4>2, <4>3, <4>4, <4>5, WaitsAnswered
      <4>7. Done(u, s)
        BY <4>2, <4>3 DEF Done
      <4> QED BY <4>2, <4>3, <4>6, <4>7 DEF u
    <3> QED BY <3>2, <3>3
  <2>6. CASE m.type = "answer" /\ ~(m.to = c /\ r.pc = "sent")
    <3>1. u = r
      BY <2>4, <2>6
    <3>2. ASSUME Waiting(c) PROVE Waits(r, Tail(q), s)
      <4>1. r = [r EXCEPT !.pc = r.pc]
        BY <2>1 DEF CallerStates
      <4>2. Head(q).type = "answer" /\ Waits(r, q, s) /\ (r.pc = "listening" <=> r.pc = "listening")
        BY <2>2, <2>6, <3>2 DEF m
      <4> QED BY <1>1, <1>2, <2>1, <4>1, <4>2, WaitsAnswered
    <3> QED BY <2>1, <2>2, <2>3, <3>1, <3>2 DEF u
  <2>7. CASE m.type # "answer" /\ Waiting(c)
    <3>1. u = Heard(r, m)
      BY <2>4, <2>7
    <3>2. u.pc = r.pc /\ u.nav = r.nav /\ u.result = r.result
      BY <1>3, <2>1, <3>1, HeardType
    <3>3. Waits(r, q, s) /\ u = Heard(r, Head(q))
      BY <2>2, <2>7, <3>1 DEF m
    <3>4. Waits(u, Tail(q), s)
      BY <1>1, <1>2, <2>1, <3>3, WaitsHeard
    <3>5. Done(u, s)
      BY <2>1, <3>2 DEF Done
    <3> QED BY <2>2, <2>7, <3>2, <3>4, <3>5 DEF u
  <2>8. CASE m.type # "answer" /\ ~Waiting(c)
    <3>1. u = r
      BY <2>4, <2>8
    <3> QED BY <2>1, <2>3, <2>8, <3>1 DEF u
  <2> QED BY <2>5, <2>6, <2>7, <2>8
<1>9. InTurn'
  BY <1>8 DEF TurnsInv, InTurn
<1> QED BY <1>2, <1>7, <1>8, <1>9 DEF TurnsInv

LEMMA TurnsStep ==
  ASSUME Overlap = FALSE, TypeOK, TypeOK', TurnsInv, [Next]_vars
  PROVE  TurnsInv'
<1>0. Counted'
  BY CountedStep DEF TurnsInv
<1>1. CASE Page \/ Chrome
  <2>1. CASE PageNavigates \/ PageRewritesURL
    BY <1>0, <2>1, TurnsAlone
  <2>2. CASE Commit
    BY <1>0, <2>2, TurnsCommit
  <2>3. CASE \/ Abort \/ Say \/ Load \/ \E c \in Callers : Answer(c)
             \/ \E kind \in Kinds : SendFetch(kind) \/ EndFetch(kind)
    BY <1>0, <2>3, TurnsPage
  <2> QED BY <1>1, <2>1, <2>2, <2>3 DEF Page, Chrome
<1>2. CASE Dispatch
  BY <1>0, <1>2, TurnsDispatch
<1>3. ASSUME NEW c \in Callers, NEW command \in {"navigate", "reload"}, Listen(c, command) PROVE TurnsInv'
  BY <1>0, <1>3, TurnsListen
<1>4. ASSUME NEW c \in Callers, Caller(c) \/ ContextDone(c) PROVE TurnsInv'
  <2>1. ASSUME NEW requested \in BOOLEAN, Send(c, requested) PROVE TurnsInv'
    BY <1>0, <2>1, TurnsSend
  <2>2. CASE Finish(c) \/ ContextDone(c)
    BY <1>0, <2>2, TurnsReturn
  <2> QED BY <1>4, <2>1, <2>2 DEF Caller
<1>5. CASE UNCHANGED vars
  <2>1. /\ Now' = Now /\ stream' = stream /\ caller' = caller
    BY <1>5 DEF vars, chrome, Now
  <2>2. \A c \in Callers : Waiting(c)' <=> Waiting(c)
    BY <2>1 DEF Waiting
  <2> QED BY <1>0, <2>1, <2>2 DEF TurnsInv, InTurn
<1> QED BY <1>1, <1>2, <1>3, <1>4, <1>5 DEF Next

LEMMA TurnsInit == ASSUME Init PROVE TurnsInv
<1>1. \A c \in Callers : caller[c].pc = "idle" /\ caller[c].result = "none"
  BY DEF Init, Idle
<1>2. Len(stream) = 0 /\ navs = 0 /\ doc = 0 /\ pending = 0 /\ failed = {} /\ fetched = {}
  BY EmptySeq DEF Init
<1>3. Counted
  BY <1>2 DEF Counted
<1>4. RequestsEnd(stream, Now) /\ LoadsInOrder(stream, Now)
  BY <1>2 DEF RequestsEnd, LoadsInOrder
<1>5. \A c \in Callers : Done(caller[c], Now) /\ ~Waiting(c)
  BY <1>1 DEF Done, Waiting
<1> QED BY <1>3, <1>4, <1>5 DEF TurnsInv, InTurn

\* When the callers navigate in turn, each has in all its states kept of its navigation
\* what decides whether it succeeded.
THEOREM TurnsInvariant == ASSUME Overlap = FALSE PROVE Spec => [](TypeOK /\ TurnsInv)
<1>1. Init => TypeOK /\ TurnsInv
  BY TypeInit, TurnsInit
<1>2. (TypeOK /\ TurnsInv) /\ [Next]_vars => (TypeOK /\ TurnsInv)'
  BY TypeStep, TurnsStep
<1> QED BY <1>1, <1>2, PTL DEF Spec

\* When the callers navigate in turn, one that returns nil has waited for its page:
\* its document was loaded and is not an error page.
THEOREM NavigationWaits == ASSUME Overlap = FALSE PROVE Spec => []NavigateWaits
<1>1. TypeOK /\ TurnsInv => NavigateWaits
  <2> SUFFICES ASSUME TypeOK, TurnsInv, NEW c \in Callers, caller[c].result = "nil"
               PROVE  /\ caller[c].nav \notin failed
                      /\ doc > caller[c].nav \/ (doc = caller[c].nav /\ loaded)
    BY DEF NavigateWaits
  <2>1. /\ caller[c].nav \notin failed /\ caller[c].nav <= doc
        /\ doc = caller[c].nav => loaded
    BY NowFields DEF TurnsInv, Done
  <2>2. doc \in Nat /\ caller[c].nav \in Nat
    BY NavigationAssumption DEF TypeOK, CallerStates, Docs
  <2> QED BY <2>1, <2>2
<1> QED BY <1>1, TurnsInvariant, PTL

=============================================================================
