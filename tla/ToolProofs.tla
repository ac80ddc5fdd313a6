----------------------------- MODULE ToolProofs -----------------------------
(***************************************************************************)
(* Theorems about what two of the browser's tools share with goroutines of *)
(* the program.                                                            *)
(*                                                                         *)
(* Interception, for any number of requests, calls and restarts: its types *)
(* and the bound of the buffer, and, for the one agent that a browser      *)
(* usually has, that no request the capture paused is left without         *)
(* somebody who lets it go on.                                             *)
(*                                                                         *)
(* Geometry, which device emulation writes beside the poll and the change  *)
(* of the configuration, for any positions and sizes: its types, and that  *)
(* the program remembers what it has written, however the three interleave,*)
(* unless two of them store at the same time.  Last, the arithmetic of     *)
(* WindowFit, for sizes of any numbers.                                    *)
(***************************************************************************)
EXTENDS Interception, Geometry, WindowFit, SequenceTheorems, TLAPS

-----------------------------------------------------------------------------
(* Interception.                                                           *)

\* Recording keeps the buffer within its cap: the oldest request makes room.
LEMMA RecordBounded ==
  ASSUME captured \in Seq(Requests), Len(captured) <= BufferCap, NEW r \in Requests
  PROVE  Record(r) \in Seq(Requests) /\ Len(Record(r)) <= BufferCap
<1>1. BufferCap \in Nat /\ BufferCap > 0 BY InterceptionAssumption DEF InterceptionAssumption
<1>2. CASE Len(captured) >= BufferCap
  <2>1. captured # <<>> BY <1>1, <1>2
  <2>2. Tail(captured) \in Seq(Requests) /\ Len(Tail(captured)) = Len(captured) - 1
    BY <2>1, HeadTailProperties
  <2>3. /\ Append(Tail(captured), r) \in Seq(Requests)
        /\ Len(Append(Tail(captured), r)) = Len(Tail(captured)) + 1
    BY <2>2, AppendProperties
  <2> QED BY <1>1, <1>2, <2>2, <2>3, LenProperties DEF Record
<1>3. CASE ~(Len(captured) >= BufferCap)
  <2>1. Append(captured, r) \in Seq(Requests) /\ Len(Append(captured, r)) = Len(captured) + 1
    BY AppendProperties
  <2> QED BY <1>1, <1>3, <2>1, LenProperties DEF Record
<1> QED BY <1>2, <1>3

\* A step keeps the types.
LEMMA StepType ==
  ASSUME TypeOK, Next
  PROVE  TypeOK'
<1> USE DEF TypeOK, Goto
<1>1. ASSUME NEW a \in Agents, StartInterception(a) PROVE TypeOK'
  <2>1. captured' \in Seq(Requests) /\ Len(captured') = 0 BY <1>1 DEF StartInterception
  <2>2. calls' \in 0..MaxCalls
    BY <1>1, InterceptionAssumption DEF StartInterception, InterceptionAssumption
  <2>3. Len(captured') <= BufferCap
    BY <2>1, InterceptionAssumption DEF InterceptionAssumption
  <2> QED BY <1>1, <2>1, <2>2, <2>3 DEF StartInterception
<1>2. ASSUME NEW a \in Agents, EnableFetch(a) PROVE TypeOK'
  BY <1>2 DEF EnableFetch
<1>3. ASSUME NEW a \in Agents, StopInterception(a) PROVE TypeOK'
  <2>1. calls' \in 0..MaxCalls
    BY <1>3, InterceptionAssumption DEF StopInterception, InterceptionAssumption
  <2> QED BY <1>3, <2>1 DEF StopInterception
<1>4. ASSUME NEW a \in Agents, DisableFetch(a) PROVE TypeOK'
  BY <1>4 DEF DisableFetch
<1>5. ASSUME NEW r \in Requests, SendRequest(r) PROVE TypeOK'
  BY <1>5 DEF SendRequest
<1>6. ASSUME NEW r \in Requests, Respond(r) PROVE TypeOK'
  <2>1. events' \in Seq([id : Requests, hasStatus : BOOLEAN])
    <3>1. CASE enabled
      <4>1. PICK ok \in BOOLEAN : events' = Append(events, [id |-> r, hasStatus |-> ok])
        BY <1>6, <3>1 DEF Respond
      <4> QED BY <4>1, AppendProperties
    <3>2. CASE ~enabled BY <1>6, <3>2 DEF Respond
    <3> QED BY <3>1, <3>2
  <2>2. request' \in [Requests -> {"unsent", "sent", "paused", "done"}] BY <1>6 DEF Respond
  <2> QED BY <1>6, <2>1, <2>2 DEF Respond
<1>7. ASSUME NEW r \in Requests, GetResponseBody(r) PROVE TypeOK'
  BY <1>7 DEF GetResponseBody
<1>8. ASSUME NEW r \in Requests, RecordRequest(r) PROVE TypeOK'
  <2>1. captured' \in Seq(Requests) /\ Len(captured') <= BufferCap
    BY <1>8, RecordBounded DEF RecordRequest
  <2> QED BY <1>8, <2>1 DEF RecordRequest
<1>9. ASSUME NEW r \in Requests, ContinueRequest(r) PROVE TypeOK'
  BY <1>9 DEF ContinueRequest
<1>10. CASE Restart
  <2>1. events' \in Seq([id : Requests, hasStatus : BOOLEAN]) BY <1>10 DEF Restart
  <2>2. restarts' \in 0..MaxRestarts
    BY <1>10, InterceptionAssumption DEF Restart, InterceptionAssumption
  <2> QED BY <1>10, <2>1, <2>2 DEF Restart
<1>11. CASE Listen
  <2>1. events' \in Seq([id : Requests, hasStatus : BOOLEAN])
    BY <1>11, HeadTailProperties DEF Listen
  <2>2. Head(events) \in [id : Requests, hasStatus : BOOLEAN]
    BY <1>11, HeadTailProperties DEF Listen
  <2> QED BY <1>11, <2>1, <2>2 DEF Listen
<1> QED
  BY <1>1, <1>2, <1>3, <1>4, <1>5, <1>6, <1>7, <1>8, <1>9, <1>10, <1>11
  DEF Next, Tool, Finish, Handle

\* Initially the types hold.
LEMMA InitType == Init => TypeOK
<1> SUFFICES ASSUME Init PROVE TypeOK OBVIOUS
<1>1. captured \in Seq(Requests) /\ Len(captured) = 0 BY DEF Init
<1>2. events \in Seq([id : Requests, hasStatus : BOOLEAN]) BY DEF Init
<1>3. Len(captured) <= BufferCap /\ 0 \in 0..MaxCalls /\ 0 \in 0..MaxRestarts
  BY <1>1, InterceptionAssumption DEF InterceptionAssumption
<1> QED BY <1>1, <1>2, <1>3 DEF Init, TypeOK

\* Every variable has its type; in particular at most BufferCap intercepted requests
\* are kept, however many goroutines record at once (mcp-intercept.go).
THEOREM TypeCorrect == Spec => []TypeOK
<1>1. TypeOK /\ [Next]_vars => TypeOK'
  <2>1. ASSUME TypeOK, UNCHANGED vars PROVE TypeOK'
    BY <2>1 DEF TypeOK, vars
  <2> QED BY <2>1, StepType
<1> QED BY <1>1, InitType, PTL DEF Spec

-----------------------------------------------------------------------------
\* The flag and the Fetch domain differ only while the agent is between setting one
\* and the other.
FlagCoversFetch ==
  \A a \in Agents :
    /\ pc[a] = "enable" => active
    /\ enabled => active \/ pc[a] = "disable"

\* The tool is called by one goroutine at a time.
OneAgent == \E a \in Agents : Agents = {a}

Invariant == TypeOK /\ FlagCoversFetch /\ PausedHasReleaser

\* A step of the only agent keeps the releasers.
LEMMA AgentKeeps ==
  ASSUME OneAgent, Invariant, NEW a \in Agents, Tool(a) \/ Finish(a)
  PROVE  FlagCoversFetch' /\ PausedHasReleaser'
<1> USE DEF Invariant, TypeOK, Goto, FlagCoversFetch, PausedHasReleaser, Paused
<1>0. Agents = {a} BY DEF OneAgent
<1>1. \A r \in Requests : r # a BY InterceptionAssumption DEF InterceptionAssumption
<1>2. CASE StartInterception(a) BY <1>0, <1>1, <1>2 DEF StartInterception
<1>3. CASE EnableFetch(a) BY <1>0, <1>1, <1>3 DEF EnableFetch
<1>4. CASE StopInterception(a) BY <1>0, <1>1, <1>4 DEF StopInterception
<1>5. CASE DisableFetch(a) BY <1>0, <1>1, <1>5 DEF DisableFetch
<1> QED BY <1>2, <1>3, <1>4, <1>5 DEF Tool, Finish

\* So does the listener, whose event may be the releaser of its request.
LEMMA ListenKeeps ==
  ASSUME OneAgent, Invariant, Listen
  PROVE  FlagCoversFetch' /\ PausedHasReleaser'
<1>0. PICK a \in Agents : Agents = {a} BY DEF OneAgent
<1>1. a \notin Requests BY <1>0, InterceptionAssumption DEF InterceptionAssumption
<1> USE DEF Invariant, TypeOK, Goto, FlagCoversFetch, PausedHasReleaser, Paused
<1>2. /\ Len(events') = Len(events) - 1
      /\ \A i \in 1..Len(events') : events'[i] = events[i + 1]
      /\ Head(events) = events[1] /\ Head(events).id \in Requests
  <2> DEFINE E == [id : Requests, hasStatus : BOOLEAN]
  <2>1. events \in Seq(E) /\ events # <<>> /\ events' = Tail(events) BY DEF Listen
  <2>2. Head(events) \in E BY <2>1, HeadTailProperties
  <2>3. Len(Tail(events)) = Len(events) - 1
        /\ \A i \in 1..Len(Tail(events)) : Tail(events)[i] = events[i + 1]
    BY <2>1, HeadTailProperties
  <2> HIDE DEF E
  <2>4. Head(events) = events[1] BY <2>1
  <2> QED BY <2>1, <2>2, <2>3, <2>4 DEF E
<1>3. pc[a] = pc'[a] BY <1>1, <1>2 DEF Listen
<1>4. FlagCoversFetch' BY <1>0, <1>3 DEF Listen
<1>5. ASSUME NEW q \in Requests, Paused(q)'
      PROVE  \/ active' /\ \E i \in 1..Len(events') : events'[i].id = q
             \/ pc'[q] \in {"body", "record", "continue"}
             \/ pc'[a] = "disable"
  <2>0. active' = active /\ Paused(q) BY <1>5 DEF Listen
  <2>1. CASE pc[a] = "disable" BY <1>3, <2>1
  <2>2. CASE pc[q] \in {"body", "record", "continue"} BY <1>2, <2>2 DEF Listen
  <2>3. CASE active /\ \E i \in 1..Len(events) : events[i].id = q
    <3>1. PICK i \in 1..Len(events) : events[i].id = q BY <2>3
    <3>2. CASE i = 1 BY <1>2, <2>3, <3>1, <3>2 DEF Listen
    <3>3. CASE i # 1
      <4>1. i - 1 \in 1..Len(events') BY <1>2, <3>1, <3>3
      <4>2. events'[i - 1] = events[(i - 1) + 1] /\ (i - 1) + 1 = i BY <1>2, <3>1, <4>1
      <4> QED BY <4>2, <3>1, <2>0, <2>3, <4>1
    <3> QED BY <3>2, <3>3
  <2> QED BY <1>0, <2>0, <2>1, <2>2, <2>3
<1>6. PausedHasReleaser' BY <1>5
<1> QED BY <1>4, <1>6

\* So does a step of Chrome or of a request's goroutine.
LEMMA RequestKeeps ==
  ASSUME OneAgent, Invariant,
         Restart \/ \E r \in Requests : SendRequest(r) \/ Respond(r) \/ Handle(r)
  PROVE  FlagCoversFetch' /\ PausedHasReleaser'
<1>0. PICK a \in Agents : Agents = {a} BY DEF OneAgent
<1>1. a \notin Requests BY <1>0, InterceptionAssumption DEF InterceptionAssumption
<1> USE DEF Invariant, TypeOK, Goto, FlagCoversFetch, PausedHasReleaser, Paused
<1>2. ASSUME NEW r \in Requests, SendRequest(r) PROVE FlagCoversFetch' /\ PausedHasReleaser'
  BY <1>0, <1>1, <1>2 DEF SendRequest
<1>3. ASSUME NEW r \in Requests, Respond(r) PROVE FlagCoversFetch' /\ PausedHasReleaser'
  <2>1. CASE ~enabled BY <1>0, <1>1, <1>3, <2>1 DEF Respond
  <2>2. CASE enabled
    <3>1. PICK ok \in BOOLEAN : events' = Append(events, [id |-> r, hasStatus |-> ok])
      BY <1>3, <2>2 DEF Respond
    <3>2. /\ Len(events') = Len(events) + 1
          /\ events'[Len(events) + 1].id = r
          /\ \A i \in 1..Len(events) : events'[i] = events[i]
      BY <3>1
    <3>3. /\ active' = active /\ pc' = pc /\ enabled' = enabled
          /\ \A q \in Requests : q # r => request'[q] = request[q]
      BY <1>3, <2>2 DEF Respond
    <3>4. ASSUME NEW q \in Requests, Paused(q)'
          PROVE  \/ active /\ \E i \in 1..Len(events') : events'[i].id = q
                 \/ pc[q] \in {"body", "record", "continue"}
                 \/ pc[a] = "disable"
      <4>1. CASE q = r
        <5>1. Len(events') \in 1..Len(events') /\ events'[Len(events')].id = q
          BY <3>2, <4>1
        <5> QED BY <1>0, <2>2, <5>1
      <4>2. CASE q # r
        <5>1. Paused(q) BY <3>3, <3>4, <4>2
        <5>2. \/ active /\ \E i \in 1..Len(events) : events[i].id = q
              \/ pc[q] \in {"body", "record", "continue"}
              \/ pc[a] = "disable"
          BY <1>0, <5>1
        <5>3. CASE active /\ \E i \in 1..Len(events) : events[i].id = q
          BY <3>2, <5>3
        <5> QED BY <5>2, <5>3
      <4> QED BY <4>1, <4>2
    <3>5. FlagCoversFetch' BY <3>3
    <3>6. PausedHasReleaser' BY <3>3, <3>4
    <3> QED BY <3>5, <3>6
  <2> QED BY <2>1, <2>2
<1>4. ASSUME NEW r \in Requests, Handle(r) PROVE FlagCoversFetch' /\ PausedHasReleaser'
  <2>1. CASE GetResponseBody(r) BY <1>0, <1>1, <2>1 DEF GetResponseBody
  <2>2. CASE RecordRequest(r) BY <1>0, <1>1, <2>2 DEF RecordRequest
  <2>3. CASE ContinueRequest(r) BY <1>0, <1>1, <2>3 DEF ContinueRequest
  <2> QED BY <1>4, <2>1, <2>2, <2>3 DEF Handle
<1>5. CASE Restart
  <2>1. /\ enabled' = FALSE /\ active' = active
        /\ \A b \in Agents : pc'[b] \in {pc[b], "idle"}
        /\ \A q \in Requests : request'[q] # "paused"
    BY <1>5 DEF Restart
  <2> QED BY <2>1
<1> QED BY <1>2, <1>3, <1>4, <1>5

\* With one agent, a request the capture paused always has a releaser: its event is on
\* its way to an active interception, its goroutine is about to let it go on, or a stop
\* is about to disable Fetch (mcp-intercept.go).  By itself that is not inductive: a
\* request could be paused while the flag is off and no stop under way, which
\* FlagCoversFetch excludes.
THEOREM PausedIsReleased ==
  ASSUME OneAgent
  PROVE  Spec => []PausedHasReleaser
<1>1. Init => Invariant
  <2>1. Init => FlagCoversFetch /\ PausedHasReleaser
    BY DEF Init, FlagCoversFetch, PausedHasReleaser, Paused
  <2> QED BY <2>1, InitType DEF Invariant
<1>2. Invariant /\ [Next]_vars => Invariant'
  <2>1. ASSUME Invariant, Next PROVE Invariant'
    <3>1. TypeOK' BY <2>1, StepType DEF Invariant
    <3>2. FlagCoversFetch' /\ PausedHasReleaser'
      BY <2>1, AgentKeeps, ListenKeeps, RequestKeeps DEF Next
    <3> QED BY <3>1, <3>2 DEF Invariant
  <2>2. ASSUME Invariant, UNCHANGED vars PROVE Invariant'
    BY <2>2 DEF Invariant, TypeOK, FlagCoversFetch, PausedHasReleaser, Paused, vars
  <2> QED BY <2>1, <2>2
<1>3. Invariant => PausedHasReleaser BY DEF Invariant
<1> QED BY <1>1, <1>2, <1>3, PTL DEF Spec

-----------------------------------------------------------------------------
(* Geometry.                                                               *)

\* A poll has bounds to save, a change of the configuration a value to set, and who sets
\* a key a value of its kind.
HasWork ==
  /\ poll \in {"position", "storePosition", "size"} => polled \in Bounds
  /\ setter \in {"position", "size"} => setting \in Bounds
  /\ setter = "saving" <=> saving["setter"] # "idle"
  /\ poll \in {"storePosition", "storeAgain"} => taken["poll"] \in Positions
  /\ poll = "storeSize" => taken["poll"] \in Sizes
  /\ \A w \in Savers : /\ saving[w] = "storePosition" => taken[w] \in Positions
                       /\ saving[w] = "storeSize" => taken[w] \in Sizes

\* No two store at the same time.
Alone == \A v, w \in Writers : Storing(v) /\ Storing(w) => v = w

\* But for a change of the configuration that is to save its own, who sets the position
\* sets that of the field; and who does not need to has it stored.
PositionKept ==
  setter \notin {"size", "save"} =>
    /\ poll \in {"storePosition", "storeAgain"} => taken["poll"] = position
    /\ \A w \in Savers : saving[w] = "storePosition" => taken[w] = position
    /\ poll # "storePosition" /\ saving["setter"] # "storePosition"
         => Stored("position", Origin) = position

\* So is it with the size, once one is configured: one set without being saved (that of
\* the monitor) is not.
SizeKept ==
  sizeConfigured /\ setter # "save" =>
    /\ poll = "storeSize" => taken["poll"] = size
    /\ \A w \in Savers : saving[w] = "storeSize" => taken[w] = size
    /\ poll # "storeSize" /\ setter # "saving" => store.size = size

GeometryInv ==
  /\ GeometryTypeOK
  /\ HasWork
  /\ ~overlapped => Alone /\ PositionKept /\ SizeKept

-----------------------------------------------------------------------------
\* A stored key is not the absence of one.
LEMMA NilIsNothing ==
  /\ \A p \in Positions : p # Nil
  /\ \A s \in Sizes : s # Nil
  /\ \A b \in Bounds : b # Nil /\ b.position \in Positions /\ b.size \in Sizes
BY GeometryAssumption DEF Bounds

LEMMA GeometryStarts == GeometryInit => GeometryInv
<1> SUFFICES ASSUME GeometryInit PROVE GeometryInv
  OBVIOUS
<1> USE GeometryAssumption DEF GeometryInit, Savers, Writers
<1>1. GeometryTypeOK
  <2>1. store \in [position : Positions \union {Nil}, size : Sizes \union {Nil}]
    OBVIOUS
  <2> QED BY <2>1 DEF GeometryTypeOK
<1>2. HasWork
  BY DEF HasWork
<1>3. Alone /\ PositionKept /\ SizeKept
  BY DEF Alone, Storing, PositionKept, SizeKept, Stored
<1> QED BY <1>1, <1>2, <1>3 DEF GeometryInv

\* The types and the work at hand need nothing else.
LEMMA GeometryTyped ==
  GeometryTypeOK /\ HasWork /\ [GeometryNext]_geometryVars => GeometryTypeOK' /\ HasWork'
<1> SUFFICES ASSUME GeometryTypeOK, HasWork, [GeometryNext]_geometryVars
             PROVE  GeometryTypeOK' /\ HasWork'
  OBVIOUS
<1> USE GeometryAssumption, NilIsNothing
        DEF GeometryTypeOK, HasWork, fields, polling, configuring, saves, Savers, Writers
<1>1. CASE Start
  <2>1. position' \in Positions /\ size' \in Sizes /\ sizeConfigured' \in BOOLEAN
    BY <1>1 DEF Start, Stored
  <2>2. saving' = [w \in Savers |-> "idle"] /\ taken' = [w \in Writers |-> Nil]
    BY <1>1 DEF Start
  <2>3. GeometryTypeOK'
    <3>1. /\ saving' \in [Savers -> {"idle", "storePosition", "size", "storeSize"}]
          /\ taken' \in [Writers -> Positions \union Sizes \union {Nil}]
      BY <2>2
    <3>2. store' = store
      BY <1>1 DEF Start
    <3> QED BY <1>1, <2>1, <3>1, <3>2 DEF Start
  <2>4. HasWork'
    BY <1>1, <2>2 DEF Start
  <2> QED BY <2>3, <2>4
<1>2. CASE Open
  BY <1>2 DEF Open
<1>3. CASE StartWithDetectedSize
  BY <1>3 DEF StartWithDetectedSize, Detected
<1>4. CASE LaunchWindow
  BY <1>4 DEF LaunchWindow, Bounds
<1>5. CASE MoveWindow
  BY <1>5 DEF MoveWindow
<1>6. CASE CloseBrowser
  BY <1>6 DEF CloseBrowser
<1>7. CASE ReadBounds
  BY <1>7 DEF ReadBounds
<1>8. CASE SavePosition
  <2>1. overlapped' \in BOOLEAN
    BY <1>8 DEF SavePosition, BeginsToStore
  <2>2. taken' \in [Writers -> Positions \union Sizes \union {Nil}]
    BY <1>8 DEF SavePosition
  <2> QED BY <1>8, <2>1, <2>2 DEF SavePosition
<1>9. CASE SaveSize
  <2>1. overlapped' \in BOOLEAN
    BY <1>9 DEF SaveSize, BeginsToStore
  <2>2. taken' \in [Writers -> Positions \union Sizes \union {Nil}]
    BY <1>9 DEF SaveSize
  <2>3. GeometryTypeOK'
    <3>1. size' \in Sizes /\ sizeConfigured' \in BOOLEAN
      <4>1. polled.size \in Sizes
        BY <1>9 DEF SaveSize
      <4>2. \/ size' = polled.size /\ sizeConfigured' = TRUE
            \/ size' = size /\ sizeConfigured' = sizeConfigured
        BY <1>9 DEF SaveSize
      <4> QED BY <4>1, <4>2
    <3>2. /\ poll' \in {"idle", "storeSize"} /\ polled' = Nil
          /\ UNCHANGED <<position, monitor, store, window, opener, setter, setting, saving>>
      BY <1>9 DEF SaveSize
    <3> QED BY <2>1, <2>2, <3>1, <3>2
  <2>4. poll' = "storeSize" => taken'["poll"] \in Sizes
    BY <1>9 DEF SaveSize
  <2>5. \A w \in Savers : taken'[w] = taken[w] /\ saving'[w] = saving[w]
    BY <1>9 DEF SaveSize
  <2>6. HasWork'
    BY <1>9, <2>4, <2>5 DEF SaveSize
  <2> QED BY <2>3, <2>6
<1>10. CASE StoreGeometry
  BY <1>10 DEF StoreGeometry, Set
<1>11. CASE TakePositionAgain
  BY <1>11 DEF TakePositionAgain
<1>12. CASE ChangePositionAndSize
  BY <1>12 DEF ChangePositionAndSize
<1>13. CASE SetPosition
  BY <1>13 DEF SetPosition
<1>14. CASE SetSize
  BY <1>14 DEF SetSize
<1>15. CASE SaveSetting
  BY <1>15 DEF SaveSetting, SaveConfig, BeginsToStore
<1>16. CASE EmulateDevice
  BY <1>16 DEF EmulateDevice, SaveConfig, BeginsToStore
<1>17. ASSUME NEW w \in Savers, StorePosition(w) PROVE GeometryTypeOK' /\ HasWork'
  BY <1>17 DEF StorePosition, Set
<1>18. ASSUME NEW w \in Savers, TakeSize(w) PROVE GeometryTypeOK' /\ HasWork'
  BY <1>18 DEF TakeSize
<1>19. ASSUME NEW w \in Savers, StoreSize(w) PROVE GeometryTypeOK' /\ HasWork'
  BY <1>19 DEF StoreSize, Set
<1>20. CASE UNCHANGED geometryVars
  BY <1>20 DEF geometryVars
<1> QED
  BY <1>1, <1>2, <1>3, <1>4, <1>5, <1>6, <1>7, <1>8, <1>9, <1>10, <1>11, <1>12, <1>13, <1>14,
     <1>15, <1>16, <1>17, <1>18, <1>19, <1>20
     DEF GeometryNext, Browser, Poll, Setter, Saver

\* As long as no two store at the same time, no step leaves a key behind.
LEMMA GeometryStep == GeometryInv /\ [GeometryNext]_geometryVars => GeometryInv'
<1> SUFFICES ASSUME GeometryInv, [GeometryNext]_geometryVars, ~overlapped'
             PROVE  Alone' /\ PositionKept' /\ SizeKept'
  BY GeometryTyped DEF GeometryInv
<1> USE GeometryAssumption, NilIsNothing
        DEF GeometryTypeOK, HasWork, fields, polling, configuring, saves, Savers, Writers,
            Alone, Storing, PositionKept, SizeKept, Stored
<1> DEFINE Kept == Alone /\ PositionKept /\ SizeKept
<1>1. CASE Start
  BY <1>1 DEF Start
<1>a. SUFFICES ASSUME ~Start PROVE Kept'
  BY <1>1
<1>b. ~overlapped
  BY <1>a DEF Open, StartWithDetectedSize, LaunchWindow, MoveWindow, CloseBrowser, ReadBounds,
              SavePosition, SaveSize, StoreGeometry, TakePositionAgain, ChangePositionAndSize,
              SetPosition, SetSize, SaveSetting, SaveConfig, BeginsToStore, EmulateDevice,
              StorePosition, TakeSize, StoreSize, geometryVars, GeometryNext, Browser, Poll,
              Setter, Saver
<1>c. /\ GeometryTypeOK /\ HasWork /\ Kept
  BY <1>b DEF GeometryInv
<1> HIDE DEF Kept
<1> USE <1>c DEF Kept
<1>2. CASE Open
  BY <1>2 DEF Open
<1>3. CASE StartWithDetectedSize
  BY <1>3 DEF StartWithDetectedSize, Detected
<1>4. CASE LaunchWindow
  BY <1>4 DEF LaunchWindow, Bounds
<1>5. CASE MoveWindow
  BY <1>5 DEF MoveWindow
<1>6. CASE CloseBrowser
  BY <1>6 DEF CloseBrowser
<1>7. CASE ReadBounds
  BY <1>7 DEF ReadBounds
<1>8. CASE SavePosition
  BY <1>8 DEF SavePosition, BeginsToStore
<1>9. CASE SaveSize
  BY <1>9 DEF SaveSize, BeginsToStore
<1>10. CASE StoreGeometry
  BY <1>10 DEF StoreGeometry, Set
<1>11. CASE TakePositionAgain
  BY <1>11 DEF TakePositionAgain
<1>12. CASE ChangePositionAndSize
  BY <1>12 DEF ChangePositionAndSize
<1>13. CASE SetPosition
  BY <1>13 DEF SetPosition
<1>14. CASE SetSize
  BY <1>14 DEF SetSize
<1>15. CASE SaveSetting
  BY <1>15 DEF SaveSetting, SaveConfig, BeginsToStore
<1>16. CASE EmulateDevice
  BY <1>16 DEF EmulateDevice, SaveConfig, BeginsToStore
<1>17. ASSUME NEW w \in Savers, StorePosition(w) PROVE Kept'
  BY <1>17 DEF StorePosition, Set
<1>18. ASSUME NEW w \in Savers, TakeSize(w) PROVE Kept'
  BY <1>18 DEF TakeSize
<1>19. ASSUME NEW w \in Savers, StoreSize(w) PROVE Kept'
  BY <1>19 DEF StoreSize, Set
<1>20. CASE UNCHANGED geometryVars
  BY <1>20 DEF geometryVars
<1> QED
  BY <1>a, <1>2, <1>3, <1>4, <1>5, <1>6, <1>7, <1>8, <1>9, <1>10, <1>11, <1>12, <1>13, <1>14,
     <1>15, <1>16, <1>17, <1>18, <1>19, <1>20
     DEF GeometryNext, Browser, Poll, Setter, Saver

\* What no interleaving of the four writers breaks, the types with it.
THEOREM GeometryInvariant == GeometrySpec => []GeometryInv
BY GeometryStarts, GeometryStep, PTL DEF GeometrySpec

\* Every variable of Geometry has its type.
THEOREM GeometryTypes == GeometrySpec => []GeometryTypeOK
BY GeometryInvariant, PTL DEF GeometryInv

\* No interleaving of the poll, a change of the configuration and the emulation tool
\* leaves the store at rest with a position or a configured size that the fields no longer
\* have (SaveGeometry, SetBrowserPositionAndSize, SaveConfig), as long as no two of them had
\* keys to set at the same time: what one of them overwrites in the fields it overwrites in
\* the store.
THEOREM StoreFollowsFields == GeometrySpec => []FieldsAreStored
<1>1. GeometryInv => FieldsAreStored
  BY DEF GeometryInv, GeometryTypeOK, HasWork, FieldsAreStored, AtRest, Agree, Storing, Savers,
         Writers, PositionKept, SizeKept
<1> QED BY <1>1, GeometryInvariant, PTL

\* A window that the fields describe is the one a restart would open.
DescribedReopens ==
  /\ [position |-> position, size |-> size] = window
  /\ sizeConfigured /\ AtRest /\ ~overlapped
  => window = [position |-> Stored("position", Origin), size |-> store.size]

\* So a window that the fields describe is the window the program would open if it ended
\* now and were started again (LoadConfig), once a size is configured, at rest and without
\* overlap: the second half of ReopensAsLeft follows from the first.
THEOREM DescribedIsReopened == GeometrySpec => []DescribedReopens
<1>1. FieldsAreStored => DescribedReopens
  BY DEF FieldsAreStored, Agree, DescribedReopens
<1> QED BY <1>1, StoreFollowsFields, PTL

-----------------------------------------------------------------------------
(* The arithmetic of window sizes.                                         *)

\* A constrained size is the largest one that exceeds neither what was asked for
\* nor the monitor: clamping loses no more than it must.
THEOREM ConstrainedIsLargest ==
  ASSUME NEW req \in Dimensions, NEW mon \in Dimensions, IsDetected(mon)
  PROVE  LET fit == CalculateConstrainedSize(req, mon)
         IN  /\ fit \in Dimensions /\ Within(fit, req) /\ Within(fit, mon)
             /\ \A s \in Dimensions : Within(s, req) /\ Within(s, mon) => Within(s, fit)
BY DEF CalculateConstrainedSize, Within, Least, Dimensions

\* What RequiredWindowSize is for: nothing of the viewport is covered by DevTools,
\* unless the monitor has no room for both.
THEOREM ViewportUncovered ==
  ASSUME NEW req \in Dimensions, NEW cur \in Dimensions, NEW mon \in Dimensions, NEW reserved \in BOOLEAN,
         IsDetected(mon) => Within(Needed(req, reserved), mon)
  PROVE  Within(Needed(req, reserved), RequiredWindowSize(req, cur, mon, reserved))
<1> DEFINE need == Needed(req, reserved)
<1>1. need \in Dimensions BY DEF Needed, DevToolsReservedWidth, Dimensions
<1>2. CASE IsDetected(mon)
  BY <1>1, <1>2 DEF RequiredWindowSize, CalculateConstrainedSize, Within, Least, Most, Dimensions
<1>3. CASE ~IsDetected(mon)
  BY <1>1, <1>3 DEF RequiredWindowSize, CalculateConstrainedSize, Within, Least, Most, Dimensions
<1> QED BY <1>2, <1>3

\* "Never shrinks": true of a window that the fields describe and the monitor holds.
THEOREM GrowOnlyGrows ==
  ASSUME NEW req \in Dimensions, NEW cur \in Dimensions, NEW mon \in Dimensions, NEW reserved \in BOOLEAN,
         IsDetected(mon) => Within(cur, mon)
  PROVE  Within(cur, GrowWindowToFit(req, cur, cur, mon, reserved))
<1> DEFINE need == Needed(req, reserved)
<1>1. need \in Dimensions BY DEF Needed, DevToolsReservedWidth, Dimensions
<1>2. Within(cur, RequiredWindowSize(req, cur, mon, reserved))
  <2>1. CASE IsDetected(mon)
    BY <1>1, <2>1 DEF RequiredWindowSize, CalculateConstrainedSize, Within, Least, Most, Dimensions
  <2>2. CASE ~IsDetected(mon)
    BY <1>1, <2>2 DEF RequiredWindowSize, CalculateConstrainedSize, Within, Least, Most, Dimensions
  <2> QED BY <2>1, <2>2
<1>3. Within(cur, cur) BY DEF Within, Dimensions
<1> QED BY <1>2, <1>3 DEF GrowWindowToFit

\* Both conditions are needed.  A window wider than the primary monitor (it may be on
\* another one) loses width when it is to grow in height; so does one within the
\* monitor that the user enlarged since the last poll.
Shrinks(req, cur, now, mon) ==
  IsDetected(mon) /\ ~Within(now, GrowWindowToFit(req, cur, now, mon, FALSE))

THEOREM GrowMayShrink ==
  /\ \E req, cur, mon \in Dimensions : Shrinks(req, cur, cur, mon)
  /\ \E req, cur, now, mon \in Dimensions :
       Within(cur, mon) /\ Within(now, mon) /\ Shrinks(req, cur, now, mon)
<1> DEFINE mon == [w |-> 1000, h |-> 1000]
           req == [w |-> 400, h |-> 800]
           small == [w |-> 500, h |-> 500]
           wide == [w |-> 900, h |-> 500]
           wider == [w |-> 1200, h |-> 500]
<1>1. {mon, req, small, wide, wider} \subseteq Dimensions BY DEF Dimensions
<1>2. Shrinks(req, wider, wider, mon)
  <2> DEFINE new == RequiredWindowSize(req, wider, mon, FALSE)
  <2>1. new = [w |-> 1000, h |-> 800]
    BY DEF RequiredWindowSize, CalculateConstrainedSize, Needed, IsDetected, Least, Most
  <2> HIDE DEF new
  <2>2. ~Within(new, wider) /\ ~Within(wider, new) BY <2>1 DEF Within
  <2>3. GrowWindowToFit(req, wider, wider, mon, FALSE) = new BY <2>2 DEF GrowWindowToFit, new
  <2>4. IsDetected(mon) BY DEF IsDetected
  <2> HIDE DEF mon, req, small, wide, wider
  <2> QED BY <2>2, <2>3, <2>4 DEF Shrinks
<1>3. Shrinks(req, small, wide, mon)
  <2> DEFINE new == RequiredWindowSize(req, small, mon, FALSE)
  <2>1. new = [w |-> 500, h |-> 800]
    BY DEF RequiredWindowSize, CalculateConstrainedSize, Needed, IsDetected, Least, Most
  <2> HIDE DEF new
  <2>2. ~Within(new, small) /\ ~Within(wide, new) BY <2>1 DEF Within
  <2>3. GrowWindowToFit(req, small, wide, mon, FALSE) = new BY <2>2 DEF GrowWindowToFit, new
  <2>4. IsDetected(mon) BY DEF IsDetected
  <2> HIDE DEF mon, req, small, wide, wider
  <2> QED BY <2>2, <2>3, <2>4 DEF Shrinks
<1>4. Within(small, mon) /\ Within(wide, mon) BY DEF Within
<1> HIDE DEF mon, req, small, wide, wider
<1> QED BY <1>1, <1>2, <1>3, <1>4

\* Growing again for the same viewport changes nothing: emulating a device twice
\* does not make the window creep.
THEOREM GrowSettles ==
  ASSUME NEW req \in Dimensions, NEW cur \in Dimensions, NEW mon \in Dimensions, NEW reserved \in BOOLEAN,
         NEW new \in Dimensions, new = RequiredWindowSize(req, cur, mon, reserved)
  PROVE  RequiredWindowSize(req, new, mon, reserved) = new
<1> DEFINE need == Needed(req, reserved)
<1>1. need \in Dimensions BY DEF Needed, DevToolsReservedWidth, Dimensions
<1>2. CASE IsDetected(mon)
  BY <1>1, <1>2 DEF RequiredWindowSize, CalculateConstrainedSize, Least, Most, Dimensions
<1>3. CASE ~IsDetected(mon)
  BY <1>1, <1>3 DEF RequiredWindowSize, CalculateConstrainedSize, Least, Most, Dimensions
<1> QED BY <1>2, <1>3

\* Every preset fits the monitor that was detected.
THEOREM PresetFits ==
  ASSUME NEW mode \in Presets, NEW mon \in Dimensions, IsDetected(mon)
  PROVE  Within(GetPresetSize(mode, mon), mon)
<1>1. BaseSize(mode) \in Dimensions BY DEF BaseSize, Presets, Dimensions
<1>2. CASE mode = "desktop" BY <1>2 DEF GetPresetSize, Within, Dimensions
<1>3. CASE mode # "desktop"
  BY <1>1, <1>3, ConstrainedIsLargest DEF GetPresetSize, IsDetected, Dimensions
<1> QED BY <1>2, <1>3
=============================================================================
