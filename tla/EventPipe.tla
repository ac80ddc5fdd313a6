------------------------------ MODULE EventPipe ------------------------------
(***************************************************************************)
(* What chromedp promises the handler of a target: the events Chrome emits *)
(* for it are handled one by one, in the order they were emitted, none     *)
(* twice and none left out, until the target is detached, its connection   *)
(* lost or its context cancelled; then the rest is dropped.  Only events   *)
(* that unmarshal, of the domains the handler follows, are for it.         *)
(***************************************************************************)
EXTENDS Naturals

VARIABLES emitted,  \* how many events Chrome emitted
          handled   \* how many of them the handler took

Init == emitted = 0 /\ handled = 0

Emit == emitted' = emitted + 1 /\ UNCHANGED handled

\* The handler takes event number handled + 1.
Handle(n) == n = handled + 1 /\ n <= emitted /\ handled' = n /\ UNCHANGED emitted

Next == Emit \/ \E n \in 1..emitted : Handle(n)

Spec == Init /\ [][Next]_<<emitted, handled>>
=============================================================================
