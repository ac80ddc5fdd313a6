------------------------------- MODULE NodeTree -------------------------------
(***************************************************************************)
(* The copy of a page's DOM that a chromedp Target keeps for its queries   *)
(* (chromedp/target.go, the node operations of chromedp/util.go) and one   *)
(* query that waits for a node in it (chromedp/query.go), as the tools and *)
(* OpenBrowser's WaitReady use it.                                         *)
(*                                                                         *)
(* Chrome numbers a node when it first tells the client of it, forgets all *)
(* its numbers at a load and at DOM.getDocument, never uses one twice, and *)
(* reports changes of numbered nodes only.  Its events wait in one queue   *)
(* for the handler; the answer to a command overtakes the queue, since the *)
(* goroutine in front of it hands answers to their caller at once.         *)
(***************************************************************************)
EXTENDS Naturals, FiniteSets, Sequences, SequencesExt

CONSTANTS
  Elements,     \* the elements of the pages
  Shadow,       \* those of them that are shadow roots
  Target,       \* the element the query looks for
  Doc,          \* the document node
  Attach,       \* the target may have existed before: newTarget loads its document
  Quiet,        \* such a page does not change until newTarget has it
  MaxLoads,     \* bound: loads of a page
  MaxMutations  \* bound: insertions and removals

ASSUME NodeTreeAssumption ==
  /\ IsFiniteSet(Elements) /\ Shadow \subseteq Elements /\ Target \in Elements \ Shadow /\ Doc \notin Elements
  /\ Attach \in BOOLEAN /\ Quiet \in BOOLEAN /\ MaxLoads \in Nat /\ MaxMutations \in Nat

VARIABLES
  \* Chrome
  kids,      \* kids[n][s]: the elements in slot s of node n
  number,    \* number[n]: the node id the client knows n by, 0 when none
  opened,    \* the nodes whose children were told
  last,      \* the last number given
  loading,   \* a page is committed and not parsed yet
  loads, mutations,
  \* the Target
  queue,     \* events on their way to the handler, the syncEventQueue last
  frames,    \* the Frame objects, in the order they were made
  cur,       \* the one t.frames[t.cur] is, 0 for none
  context,   \* t.execContexts has a context for it
  op,        \* the event the handler has looked up and not applied
  fetch,     \* fetch[p]: where the documentUpdated of goroutine p stands
  attacher,  \* where newTarget stands
  query      \* the query

chrome == <<kids, number, opened, last, loading, loads, mutations>>
mirror == <<frames, cur, context, op>>
vars == <<chrome, queue, mirror, fetch, attacher, query>>

Slots == {"children", "shadow"}
Fetchers == {"handler", "attacher"}
Nodes == Elements \cup {Doc}
SlotOf(e) == IF e \in Shadow THEN "shadow" ELSE "children"
Leaf == [s \in Slots |-> <<>>]
NoOp == [type |-> "none"]
Resting == [state |-> "idle", frame |-> 0, root |-> 0, tree |-> <<>>]
NoFrame == [root |-> 0, nodes |-> <<>>, fetched |-> 0]

-----------------------------------------------------------------------------
(***************************************************************************)
(* Chrome.                                                                 *)
(***************************************************************************)
Blank == [n \in Nodes |-> Leaf]

\* A document that is empty, and one whose only child holds the target.
Pages == {Blank} \cup
  { [Blank EXCEPT ![Doc].children = <<e>>, ![e].children = <<Target>>]
      : e \in Elements \ (Shadow \cup {Target}) }

Below(n) == UNION { ToSet(kids[n][s]) : s \in Slots }
Inside == {Doc} \cup Below(Doc) \cup UNION { Below(n) : n \in Below(Doc) }
ParentOf(e) == CHOOSE n \in Nodes : e \in Below(n)
Known == { n \in Nodes : number[n] # 0 }

\* A node is told with its shadow root.
WithShadow(N) == N \cup UNION { ToSet(kids[n].shadow) : n \in N }

\* Where x is in s, 0 when it is not.
PlaceOf(x, s) == SelectInSeq(s, LAMBDA y : y = x)

\* The numbers after the nodes N, in some order, got one each.
Numbered(N, from, nums) ==
  LET order == SetToSeq(N)
  IN [n \in Nodes |-> IF n \in N THEN from + PlaceOf(n, order) ELSE nums[n]]

\* What the client is told of the node n: its shadow root, and its children once opened.
Told(n, K, nums, open) ==
  [s \in Slots |-> IF s = "children" /\ n \notin open THEN <<>>
                   ELSE [i \in DOMAIN K[n][s] |-> nums[K[n][s][i]]]]

Fragment(N, K, nums, open) ==
  LET ids == { nums[n] : n \in N }
  IN [i \in ids |-> Told(CHOOSE n \in N : nums[n] = i, K, nums, open)]

Stirs == Quiet => attacher = "done"

Forget == number' = [n \in Nodes |-> 0] /\ opened' = {}

\* A new document replaces the old one.
Commit ==
  /\ Stirs /\ loads < MaxLoads /\ ~loading
  /\ kids' \in Pages
  /\ Forget
  /\ loading' = TRUE /\ loads' = loads + 1
  /\ queue' = queue \o <<[type |-> "cleared"], [type |-> "navigated"], [type |-> "context"]>>
  /\ UNCHANGED <<last, mutations, mirror, fetch, attacher, query>>

\* The new document is parsed.
Loaded ==
  /\ Stirs /\ loading
  /\ loading' = FALSE
  /\ Forget
  /\ queue' = Append(queue, [type |-> "updated"])
  /\ UNCHANGED <<kids, last, loads, mutations, mirror, fetch, attacher, query>>

\* The page puts an element behind the i-th child of p, or gives p a shadow root.
InsertElement(e, p, i) ==
  LET s == SlotOf(e)
      K == [kids EXCEPT ![p][s] = InsertAt(@, i + 1, e)]
      tell == p \in Known /\ (s = "shadow" \/ p \in opened)
      nums == Numbered({e}, last, number)
  IN
  /\ Stirs /\ mutations < MaxMutations
  /\ e \in Elements \ Inside /\ p \in {Doc} \cup ToSet(kids[Doc].children)
  /\ i \in 0..Len(kids[p][s]) /\ (s = "shadow" => p # Doc /\ kids[p][s] = <<>>)
  /\ kids' = K
  /\ mutations' = mutations + 1
  /\ IF tell
     THEN /\ number' = nums /\ last' = last + 1
          /\ queue' = Append(queue,
               [type |-> "insert", slot |-> s, at |-> number[p],
                prev |-> IF i = 0 THEN 0 ELSE number[kids[p][s][i]],
                node |-> nums[e], tree |-> Fragment({e}, K, nums, opened)])
     ELSE UNCHANGED <<number, last, queue>>
  /\ UNCHANGED <<opened, loading, loads, mirror, fetch, attacher, query>>

\* The page takes an element out; its children go with it.
RemoveElement(e) ==
  LET p == ParentOf(e)
      s == SlotOf(e)
      gone == {e} \cup Below(e)
  IN
  /\ Stirs /\ mutations < MaxMutations
  /\ e \in Inside \ {Doc}
  /\ kids' = [n \in Nodes |-> IF n \in gone THEN Leaf
                              ELSE [kids[n] EXCEPT ![s] = RemoveFirst(@, e)]]
  /\ mutations' = mutations + 1
  /\ number' = [n \in Nodes |-> IF n \in gone THEN 0 ELSE number[n]]
  /\ opened' = opened \ gone
  /\ queue' = IF p \in Known /\ e \in Known
              THEN Append(queue, [type |-> "remove", slot |-> s, at |-> number[p], node |-> number[e]])
              ELSE queue
  /\ UNCHANGED <<last, loading, loads, mirror, fetch, attacher, query>>

\* DOM.getDocument numbers the document and its children anew.
AnswerDocument(p) ==
  LET N == {Doc} \cup WithShadow(ToSet(kids[Doc].children))
      nums == Numbered(N, last, [n \in Nodes |-> 0])
  IN
  /\ fetch[p].state = "asked"
  /\ number' = nums /\ last' = last + Cardinality(N) /\ opened' = {Doc}
  /\ fetch' = [fetch EXCEPT ![p].state = "answered", ![p].root = nums[Doc],
                            ![p].tree = Fragment(N, kids, nums, {Doc})]
  /\ UNCHANGED <<kids, loading, loads, mutations, queue, mirror, attacher, query>>

\* DOM.querySelector under a node: none, or the number of the target, told to
\* the client first with its siblings when it was not.
AnswerQuery ==
  LET p == ParentOf(Target)
      N == WithShadow(ToSet(kids[p].children))
      nums == Numbered(N, last, number)
  IN
  /\ query.state = "asked"
  /\ IF query.root \notin { number[n] : n \in Known } \/ Target \notin Inside
     THEN /\ query' = [query EXCEPT !.state = "answered", !.root = 0]
          /\ UNCHANGED <<number, last, opened, queue>>
     ELSE IF p \in opened
     THEN /\ query' = [query EXCEPT !.state = "answered", !.root = number[Target]]
          /\ UNCHANGED <<number, last, opened, queue>>
     ELSE /\ number' = nums /\ last' = last + Cardinality(N) /\ opened' = opened \cup {p}
          /\ queue' = Append(queue, [type |-> "set", at |-> number[p],
                                     nodes |-> [i \in DOMAIN kids[p].children |-> nums[kids[p].children[i]]],
                                     tree |-> Fragment(N, kids, nums, opened)])
          /\ query' = [query EXCEPT !.state = "answered", !.root = nums[Target]]
  /\ UNCHANGED <<kids, loading, loads, mutations, mirror, fetch, attacher>>

-----------------------------------------------------------------------------
(***************************************************************************)
(* The handler of the Target.                                              *)
(***************************************************************************)
\* documentUpdated holds the lock of its frame while it asks.
Locked(f) == \E p \in Fetchers : fetch[p].state \in {"asked", "answered"} /\ fetch[p].frame = f

HandlerFree == fetch["handler"].state = "idle" /\ op = NoOp

Take(type) == queue # <<>> /\ HandlerFree /\ Head(queue).type = type /\ queue' = Tail(queue)

\* pageEvent, EventFrameNavigated: a new Frame object, without nodes.
FrameNavigated ==
  /\ Take("navigated")
  /\ frames' = Append(frames, NoFrame)
  /\ cur' = Len(frames')
  /\ UNCHANGED <<chrome, context, op, fetch, attacher, query>>

\* runtimeEvent.
ContextsCleared ==
  /\ Take("cleared")
  /\ context' = FALSE
  /\ UNCHANGED <<chrome, frames, cur, op, fetch, attacher, query>>

\* … and a form that forgets the context it is told of.
ContextCreated_Ignored ==
  /\ Take("context")
  /\ UNCHANGED <<chrome, mirror, fetch, attacher, query>>

ContextCreated ==
  /\ Take("context")
  /\ context' = TRUE
  /\ UNCHANGED <<chrome, frames, cur, op, fetch, attacher, query>>

\* domEvent, EventDocumentUpdated: without a top-level frame it is only logged.
DocumentUpdated ==
  /\ Take("updated")
  /\ fetch' = IF cur = 0 THEN fetch
              ELSE [fetch EXCEPT !["handler"] = [Resting EXCEPT !.state = "locking", !.frame = cur]]
  /\ UNCHANGED <<chrome, mirror, attacher, query>>

\* domEvent reads f.Nodes without the frame's lock: an id it does not find is
\* taken for one that has been invalidated.
LookUp ==
  /\ queue # <<>> /\ HandlerFree /\ Head(queue).type \in {"set", "insert", "remove"}
  /\ queue' = Tail(queue)
  /\ cur # 0 /\ Head(queue).at \in DOMAIN frames[cur].nodes
  /\ op' = [type |-> "event", event |-> Head(queue), frame |-> cur, fetched |-> frames[cur].fetched]
  /\ UNCHANGED <<chrome, frames, cur, context, fetch, attacher, query>>

Drop ==
  /\ queue # <<>> /\ HandlerFree /\ Head(queue).type \in {"set", "insert", "remove"}
  /\ queue' = Tail(queue)
  /\ cur # 0 /\ Head(queue).at \notin DOMAIN frames[cur].nodes
  /\ UNCHANGED <<chrome, mirror, fetch, attacher, query>>

\* insertNode: behind prev, and in front of all when prev is not there; … and a
\* form that puts the node before prev.
InsertNode_Before(s, prev, c) ==
  LET i == PlaceOf(prev, s) IN InsertAt(s, IF i = 0 THEN 1 ELSE i, c)

InsertNode(s, prev, c) == InsertAt(s, PlaceOf(prev, s) + 1, c)

\* removeNode.
RemoveNode(s, c) == RemoveFirst(s, c)

\* One map over another: walk puts what it meets into the frame's map.
Over(f, g) == [i \in DOMAIN f \cup DOMAIN g |-> IF i \in DOMAIN f THEN f[i] ELSE g[i]]

\* setChildNodes, childNodeInserted and shadowRootPushed, childNodeRemoved and shadowRootPopped.
Applied(nodes, e) ==
  LET n == e.at IN
  CASE e.type = "set"    -> Over(e.tree, [nodes EXCEPT ![n].children = e.nodes])
    [] e.type = "insert" ->
         Over(e.tree, [nodes EXCEPT ![n][e.slot] =
           IF e.slot = "shadow" THEN Append(@, e.node) ELSE InsertNode(@, e.prev, e.node)])
    [] e.type = "remove" ->
         [i \in DOMAIN nodes \ {e.node} |->
            IF i = n THEN [nodes[n] EXCEPT ![e.slot] = RemoveNode(@, e.node)] ELSE nodes[i]]

\* op(n) under the lock of the frame; nodes of an earlier document change out of sight.
Apply ==
  /\ op # NoOp /\ ~Locked(op.frame)
  /\ frames' = IF frames[op.frame].fetched # op.fetched THEN frames
               ELSE [frames EXCEPT ![op.frame].nodes = Applied(@, op.event)]
  /\ op' = NoOp
  /\ UNCHANGED <<chrome, queue, cur, context, fetch, attacher, query>>

\* documentUpdated: under the lock, forget the nodes and ask for the document, …
LockFrame(p) ==
  LET f == fetch[p].frame IN
  /\ fetch[p].state = "locking" /\ ~Locked(f)
  /\ frames' = [frames EXCEPT ![f].nodes = <<>>, ![f].fetched = @ + 1]
  /\ fetch' = [fetch EXCEPT ![p].state = "asked"]
  /\ UNCHANGED <<chrome, queue, cur, context, op, attacher, query>>

\* … then take the answer.  That DOM.getDocument fails, which leaves the frame without
\* a root until the next load, is not modelled.
TakeDocument(p) ==
  LET f == fetch[p].frame IN
  /\ fetch[p].state = "answered"
  /\ frames' = [frames EXCEPT ![f].root = fetch[p].root, ![f].nodes = fetch[p].tree]
  /\ fetch' = [fetch EXCEPT ![p] = Resting]
  /\ attacher' = IF p = "attacher" THEN "done" ELSE attacher
  /\ UNCHANGED <<chrome, queue, cur, context, op, query>>

-----------------------------------------------------------------------------
(***************************************************************************)
(* newTarget on an existing target, in the goroutine of Run.               *)
(***************************************************************************)
LoadFrameTree ==
  /\ attacher = "tree"
  /\ frames' = Append(frames, NoFrame) /\ cur' = Len(frames')
  /\ attacher' = "document"
  /\ UNCHANGED <<chrome, queue, context, op, fetch, query>>

LoadDocument ==
  /\ attacher = "document"
  /\ fetch' = [fetch EXCEPT !["attacher"] = [Resting EXCEPT !.state = "locking", !.frame = cur]]
  /\ attacher' = "fetching"
  /\ UNCHANGED <<chrome, queue, mirror, query>>

(***************************************************************************)
(* The query: Selector.Do retries until waitReady has the node.            *)
(***************************************************************************)
\* ensureFrame, then s.by on the root.
AskQuery ==
  /\ attacher = "done" /\ query.state = "idle"
  /\ cur # 0 /\ context /\ ~Locked(cur) /\ frames[cur].root # 0
  /\ query' = [query EXCEPT !.state = "asked", !.frame = cur, !.root = frames[cur].root]
  /\ UNCHANGED <<chrome, queue, mirror, fetch, attacher>>

\* waitReady looks the answer up in the frame the query began with; … and a
\* form that gives up instead of trying again.
TakeAnswer_Once ==
  /\ query.state = "answered" /\ ~Locked(query.frame)
  /\ query' = [query EXCEPT !.state =
       IF query.root # 0 /\ query.root \in DOMAIN frames[query.frame].nodes THEN "done" ELSE "failed"]
  /\ UNCHANGED <<chrome, queue, mirror, fetch, attacher>>

TakeAnswer ==
  /\ query.state = "answered" /\ ~Locked(query.frame)
  /\ query' = [query EXCEPT !.state =
       IF query.root # 0 /\ query.root \in DOMAIN frames[query.frame].nodes THEN "done" ELSE "idle"]
  /\ UNCHANGED <<chrome, queue, mirror, fetch, attacher>>

-----------------------------------------------------------------------------
Init ==
  /\ attacher \in IF Attach THEN {"tree", "done"} ELSE {"done"}
  /\ kids \in IF attacher = "tree" THEN Pages ELSE {Blank}
  /\ number = [n \in Nodes |-> 0] /\ opened = {} /\ last = 0
  /\ loading = FALSE /\ loads = 0 /\ mutations = 0
  /\ queue = IF attacher = "tree" THEN <<[type |-> "context"]>> ELSE <<>>
  /\ frames = <<>> /\ cur = 0 /\ context = FALSE /\ op = NoOp
  /\ fetch = [p \in Fetchers |-> Resting]
  /\ query = [state |-> "idle", frame |-> 0, root |-> 0]

Handler ==
  \/ FrameNavigated \/ ContextsCleared \/ ContextCreated \/ DocumentUpdated
  \/ LookUp \/ Drop \/ Apply \/ LockFrame("handler") \/ TakeDocument("handler")

Attacher == LoadFrameTree \/ LoadDocument \/ LockFrame("attacher") \/ TakeDocument("attacher")

Answering == (\E p \in Fetchers : AnswerDocument(p)) \/ AnswerQuery

Page ==
  \/ Commit \/ Loaded
  \/ \E e \in Elements : RemoveElement(e) \/ \E p \in Nodes, i \in 0..Cardinality(Elements) : InsertElement(e, p, i)

Querier == AskQuery \/ TakeAnswer

Next == Handler \/ Attacher \/ Answering \/ Page \/ Querier

Spec == Init /\ [][Next]_vars

\* The goroutines run, Chrome answers and parses what it commits; the page need
\* neither load nor change.
FairSpec ==
  Spec /\ WF_vars(Handler) /\ WF_vars(Attacher) /\ WF_vars(Answering)
       /\ WF_vars(Loaded) /\ WF_vars(Querier)

-----------------------------------------------------------------------------
(***************************************************************************)
(* Properties.                                                             *)
(***************************************************************************)
\* The shape of the Target's state; ids are those Chrome has given.
TypeOK ==
  /\ \A n \in Nodes : number[n] \in 0..last
  /\ opened \subseteq Known
  /\ cur \in 0..Len(frames) /\ context \in BOOLEAN
  /\ \A f \in DOMAIN frames :
       /\ frames[f].root \in 0..last /\ DOMAIN frames[f].nodes \subseteq 1..last
       /\ \A i \in DOMAIN frames[f].nodes : DOMAIN frames[f].nodes[i] = Slots
  /\ attacher \in {"tree", "document", "fetching", "done"}
  /\ query.state \in {"idle", "asked", "answered", "done"}

\* The client rests: no event waits, no document is asked for, none is loading.
AtRest ==
  /\ queue = <<>> /\ op = NoOp /\ ~loading /\ attacher = "done"
  /\ \A p \in Fetchers : fetch[p].state = "idle"

\* Whatever loads, insertions, removals and answers overtook each other, once
\* the client rests the current frame's Nodes have every node Chrome has told it
\* of, under its id and with the same children in the same order (domEvent,
\* documentUpdated and the node operations).
MirrorAgrees ==
  AtRest /\ cur # 0 =>
    /\ frames[cur].root = number[Doc]
    /\ \A n \in Known :
         /\ number[n] \in DOMAIN frames[cur].nodes
         /\ frames[cur].nodes[number[n]] = Told(n, kids, number, opened)

\* A query whose element is in a loaded page from some moment on is answered:
\* the retries of Selector.Do outlive every load, and every answer that came
\* before its events (query.go).
QueryFinishes == <>[](frames # <<>> /\ Target \in Inside) => <>(query.state = "done")

=============================================================================
