---------------------------- MODULE MCLifecycle ----------------------------
(* Instances of Lifecycle: which goroutines there are and what each calls. *)
EXTENDS Lifecycle, TLC

CONSTANTS Drivers,   \* goroutines that open and close the browser
          Watchers,  \* goroutines that reload it (the file watcher)
          Agents,    \* goroutines that serve browser tools
          Drive      \* the calls a driver makes

MCCallers == Drivers \union Watchers \union Agents

MCOps ==
  [p \in MCCallers |-> IF p \in Drivers THEN Drive
                       ELSE IF p \in Watchers THEN {"Reload"} ELSE {"Tool"}]

\* Two drivers make the same calls: safety runs need not tell them apart.
DriverSymmetry == Permutations(Drivers)
=============================================================================
