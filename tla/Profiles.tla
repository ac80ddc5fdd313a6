------------------------------ MODULE Profiles ------------------------------
(***************************************************************************)
(* The profile directories of Chrome (profiles.go, profile_dir.go,         *)
(* context.go and the directory part of chromedp/allocate.go).             *)
(*                                                                         *)
(* Several daemons, each with one Chrome at a time, start it in a profile  *)
(* that persists (WithProfile) or in a temporary one.  A daemon may crash  *)
(* anywhere and start again; a Chrome may be killed, which leaves its lock *)
(* and an exit type of "Crashed" behind, or outlive its daemon.  All the   *)
(* while ProfileCleaner.CleanStale sweeps the temporary directories.       *)
(* The daemons share one persistent profile (they serve one project root). *)
(***************************************************************************)
EXTENDS Naturals

CONSTANTS
  Daemons,      \* programs that embed devbrowser
  Persistent,   \* those of them that were given WithProfile
  Profile,      \* the persistent profile directory
  Grace,        \* ProfileCleaner.Grace, in ticks of the clock
  MaxChromes,   \* bound: Chromes started
  Nil           \* no process, no directory

Chromes == 1..MaxChromes

ASSUME ProfilesAssumption ==
  /\ Persistent \subseteq Daemons
  /\ Grace \in Nat /\ MaxChromes \in Nat
  /\ Profile \notin Nat /\ Nil \notin Nat /\ Nil # Profile

\* A temporary directory has the number of the Chrome it was made for.
Directories == Chromes \union {Profile}

VARIABLES
  daemon,    \* daemon[d]: where its CreateBrowserContext and Allocate stand
  mine,      \* mine[d]: the Chrome (or its directory) d has, or Nil
  read,      \* read[d]: the logins in the Preferences that d read
  next,      \* the Chrome started next
  state,     \* state[p]: the Chrome p
  home,      \* home[p]: its profile directory
  memory,    \* memory[p]: the logins p knows
  lock,      \* lock[x]: the process that SingletonLock names, or Nil
  exists,    \* the temporary directories that exist
  age,       \* age[x]: ticks since the directory x was modified
  exitType,  \* profile.exit_type in the Preferences of Profile
  logins,    \* what else is in them: the Chromes whose logins they hold
  saved,     \* the Chromes that ever saved a login (history)
  reported,  \* the last mark of the Preferences failed, as the log says
  sweep      \* the directory CleanStale looks at, and how far it is

daemons == <<daemon, mine, read>>
processes == <<next, state, home, memory>>
preferences == <<exitType, logins, saved, reported>>
vars == <<daemons, processes, lock, exists, age, preferences, sweep>>

Resting == [at |-> "list", dir |-> Nil]

Init ==
  /\ daemon = [d \in Daemons |-> "idle"] /\ mine = [d \in Daemons |-> Nil]
  /\ read = [d \in Daemons |-> {}]
  /\ next = 1 /\ state = [p \in Chromes |-> "none"] /\ home = [p \in Chromes |-> Nil]
  /\ memory = [p \in Chromes |-> {}]
  /\ lock = [x \in Directories |-> Nil] /\ exists = {} /\ age = [x \in Chromes |-> 0]
  /\ exitType = "none" /\ logins = {} /\ saved = {} /\ reported = FALSE
  /\ sweep = Resting

Alive(p) == state[p] \in {"starting", "running"}

\* lockOwner finds a lock whose process lives.
Held(x) == lock[x] # Nil /\ Alive(lock[x])

Goto(d, to) == daemon' = [daemon EXCEPT ![d] = to]

(***************************************************************************)
(* A daemon: buildAllocatorOptions, Allocate, shutdownChrome.              *)
(***************************************************************************)
\* profileLocked: a held profile makes the browser fall back to a temporary one;
\* and a form that does not look.
CheckProfile_Blind(d) ==
  /\ daemon[d] = "idle" /\ next <= MaxChromes
  /\ Goto(d, IF d \in Persistent THEN "reading" ELSE "temporary")
  /\ UNCHANGED <<mine, read, processes, lock, exists, age, preferences, sweep>>
CheckProfile(d) ==
  /\ daemon[d] = "idle" /\ next <= MaxChromes
  /\ Goto(d, IF d \in Persistent /\ ~Held(Profile) THEN "reading" ELSE "temporary")
  /\ UNCHANGED <<mine, read, processes, lock, exists, age, preferences, sweep>>

\* markProfileExitedCleanly reads the Preferences; there may be none.
ReadPreferences(d) ==
  /\ daemon[d] = "reading"
  /\ read' = [read EXCEPT ![d] = logins]
  /\ reported' = FALSE
  /\ Goto(d, IF exitType = "none" THEN "persistent" ELSE "marking")
  /\ UNCHANGED <<mine, processes, lock, exists, age, exitType, logins, saved, sweep>>

\* It writes what it read with a normal exit, through a temporary file; a form that
\* keeps the exit type, and one that keeps nothing else.
MarkExitedCleanly_Keeps(d) ==
  /\ daemon[d] = "marking"
  /\ logins' = read[d]
  /\ Goto(d, "persistent")
  /\ UNCHANGED <<mine, read, processes, lock, exists, age, exitType, saved, reported, sweep>>
MarkExitedCleanly_Blank(d) ==
  /\ daemon[d] = "marking"
  /\ exitType' = "Normal" /\ logins' = {}
  /\ Goto(d, "persistent")
  /\ UNCHANGED <<mine, read, processes, lock, exists, age, saved, reported, sweep>>
MarkExitedCleanly(d) ==
  /\ daemon[d] = "marking"
  /\ exitType' = "Normal" /\ logins' = read[d]
  /\ Goto(d, "persistent")
  /\ UNCHANGED <<mine, read, processes, lock, exists, age, saved, reported, sweep>>

\* What cannot be read, decoded or written is left as it is and reported; Chrome
\* starts all the same.
MarkFails(d) ==
  /\ daemon[d] \in {"reading", "marking"}
  /\ reported' = TRUE
  /\ Goto(d, "persistent")
  /\ UNCHANGED <<mine, read, processes, lock, exists, age, exitType, logins, saved, sweep>>

\* Allocate makes a temporary directory when there is no user-data-dir.
MakeTemporary(d) ==
  /\ daemon[d] = "temporary" /\ next <= MaxChromes
  /\ next' = next + 1
  /\ mine' = [mine EXCEPT ![d] = next]
  /\ home' = [home EXCEPT ![next] = next]
  /\ exists' = exists \union {next} /\ age' = [age EXCEPT ![next] = 0]
  /\ Goto(d, "made")
  /\ UNCHANGED <<read, state, memory, lock, preferences, sweep>>

StartTemporary(d) ==
  /\ daemon[d] = "made"
  /\ state' = [state EXCEPT ![mine[d]] = "starting"]
  /\ Goto(d, "open")
  /\ UNCHANGED <<mine, read, next, home, memory, lock, exists, age, preferences, sweep>>

StartPersistent(d) ==
  /\ daemon[d] = "persistent" /\ next <= MaxChromes
  /\ next' = next + 1
  /\ mine' = [mine EXCEPT ![d] = next]
  /\ home' = [home EXCEPT ![next] = Profile]
  /\ state' = [state EXCEPT ![next] = "starting"]
  /\ Goto(d, "open")
  /\ UNCHANGED <<read, memory, lock, exists, age, preferences, sweep>>

\* shutdownChrome has its Chrome exit or killed, and the reaper has removed a
\* temporary directory, before CreateBrowserContext goes on; and a form that
\* keeps the process.
ShutdownChrome_KeepsChrome(d) ==
  /\ daemon[d] = "open"
  /\ ~Alive(mine[d])
  /\ exists' = exists \ {mine[d]}
  /\ Goto(d, "idle")
  /\ UNCHANGED <<mine, read, processes, lock, age, preferences, sweep>>
ShutdownChrome(d) ==
  /\ daemon[d] = "open"
  /\ ~Alive(mine[d])
  /\ mine' = [mine EXCEPT ![d] = Nil]
  /\ exists' = exists \ {mine[d]}
  /\ Goto(d, "idle")
  /\ UNCHANGED <<read, processes, lock, age, preferences, sweep>>

\* The daemon dies; where the system has no death signal, its Chrome lives on.
CrashDaemon(d) ==
  /\ daemon[d] # "down"
  /\ Goto(d, "down")
  /\ mine' = [mine EXCEPT ![d] = Nil]
  /\ UNCHANGED <<read, processes, lock, exists, age, preferences, sweep>>

Orphans == {p \in Chromes : Alive(p) /\ \A d \in Daemons : mine[d] # p}

\* It starts again, later than an orphan takes to write its lock.
RestartDaemon(d) ==
  /\ daemon[d] = "down"
  /\ \A p \in Orphans : state[p] = "running"
  /\ Goto(d, "idle")
  /\ UNCHANGED <<mine, read, processes, lock, exists, age, preferences, sweep>>

(***************************************************************************)
(* Chrome (external).                                                      *)
(***************************************************************************)
\* Opened anew, a directory counts as modified.
Touch(x) == age' = IF x = Profile THEN age ELSE [age EXCEPT ![x] = 0]

\* It locks its profile; until it exits, the Preferences say "Crashed".
LockProfile(p) ==
  /\ state[p] = "starting"
  /\ ~Held(home[p])
  /\ state' = [state EXCEPT ![p] = "running"]
  /\ lock' = [lock EXCEPT ![home[p]] = p]
  /\ Touch(home[p])
  /\ IF home[p] = Profile
       THEN exitType' = "Crashed" /\ memory' = [memory EXCEPT ![p] = logins]
       ELSE UNCHANGED <<exitType, memory>>
  /\ UNCHANGED <<daemons, next, home, exists, logins, saved, reported, sweep>>

\* The developer logs in: Chrome writes its Preferences.
SaveLogin(p) ==
  /\ state[p] = "running" /\ home[p] = Profile
  /\ memory' = [memory EXCEPT ![p] = @ \union {p}]
  /\ logins' = memory[p] \union {p}
  /\ saved' = saved \union {p}
  /\ exitType' = "Crashed"
  /\ UNCHANGED <<daemons, next, state, home, lock, exists, age, reported, sweep>>

\* An orderly exit removes the lock.
ExitCleanly(p) ==
  /\ state[p] = "running"
  /\ state' = [state EXCEPT ![p] = "dead"]
  /\ lock' = [lock EXCEPT ![home[p]] = Nil]
  /\ Touch(home[p])
  /\ IF home[p] = Profile
       THEN exitType' = "Normal" /\ logins' = memory[p]
       ELSE UNCHANGED <<exitType, logins>>
  /\ UNCHANGED <<daemons, next, home, memory, exists, saved, reported, sweep>>

\* A crash or a kill leaves it; so does the exit of one that finds its profile held.
Die(p) ==
  /\ Alive(p)
  /\ state' = [state EXCEPT ![p] = "dead"]
  /\ UNCHANGED <<daemons, next, home, memory, lock, exists, age, preferences, sweep>>

(***************************************************************************)
(* ProfileCleaner.CleanStale.                                              *)
(***************************************************************************)
At(step, x) == sweep' = [at |-> step, dir |-> x]

\* lockOwner: a lock decides by its process, no lock sends it to the age.
LookAtLock(x) ==
  /\ sweep.at = "list" /\ x \in exists
  /\ IF lock[x] = Nil THEN At("age", x)
       ELSE ~Alive(lock[x]) /\ At("remove", x)
  /\ UNCHANGED <<daemons, processes, lock, exists, age, preferences>>

\* Older than the grace, it goes; and a form with no grace.
LookAtAge_NoGrace ==
  /\ sweep.at = "age"
  /\ At("remove", sweep.dir)
  /\ UNCHANGED <<daemons, processes, lock, exists, age, preferences>>
LookAtAge ==
  /\ sweep.at = "age"
  /\ IF sweep.dir \in exists /\ age[sweep.dir] > Grace
       THEN At("remove", sweep.dir)
       ELSE sweep' = Resting
  /\ UNCHANGED <<daemons, processes, lock, exists, age, preferences>>

RemoveStale ==
  /\ sweep.at = "remove"
  /\ exists' = exists \ {sweep.dir}
  /\ lock' = [lock EXCEPT ![sweep.dir] = Nil]
  /\ sweep' = Resting
  /\ UNCHANGED <<daemons, processes, age, preferences>>

\* The directories that a daemon made or a Chrome was started in, not locked yet.
Opening ==
  {x \in exists : state[x] = "starting" \/ \E d \in Daemons : mine[d] = x /\ daemon[d] = "made"}

\* Time passes.  A Chrome writes its lock within the grace, and CleanStale looks at
\* the lock and at the age of a directory with no such time between.
Tick ==
  /\ sweep.at # "age"
  /\ \A x \in Opening : age[x] < Grace
  /\ \E x \in exists : age[x] <= Grace
  /\ age' = [x \in Chromes |-> IF x \in exists /\ age[x] <= Grace THEN age[x] + 1 ELSE age[x]]
  /\ UNCHANGED <<daemons, processes, lock, exists, preferences, sweep>>

-----------------------------------------------------------------------------
Daemon(d) ==
  \/ CheckProfile(d) \/ ReadPreferences(d) \/ MarkExitedCleanly(d) \/ MarkFails(d)
  \/ MakeTemporary(d) \/ StartTemporary(d) \/ StartPersistent(d)
  \/ ShutdownChrome(d) \/ CrashDaemon(d) \/ RestartDaemon(d)

Chrome(p) == LockProfile(p) \/ SaveLogin(p) \/ ExitCleanly(p) \/ Die(p)

Sweeper == (\E x \in Chromes : LookAtLock(x)) \/ LookAtAge \/ RemoveStale

Next ==
  \/ \E d \in Daemons : Daemon(d)
  \/ \E p \in Chromes : Chrome(p)
  \/ Sweeper
  \/ Tick

Spec == Init /\ [][Next]_vars

-----------------------------------------------------------------------------
TypeOK ==
  /\ daemon \in [Daemons -> {"idle", "reading", "marking", "persistent", "temporary", "made",
                             "open", "down"}]
  /\ mine \in [Daemons -> Chromes \union {Nil}]
  /\ \A d \in Daemons : mine[d] = Nil <=> daemon[d] \notin {"made", "open"}
  /\ read \in [Daemons -> SUBSET Chromes]
  /\ next \in 1..(MaxChromes + 1)
  /\ state \in [Chromes -> {"none", "starting", "running", "dead"}]
  /\ home \in [Chromes -> Directories \union {Nil}]
  /\ memory \in [Chromes -> SUBSET Chromes]
  /\ lock \in [Directories -> Chromes \union {Nil}]
  /\ exists \subseteq Chromes /\ age \in [Chromes -> 0..(Grace + 1)]
  /\ exitType \in {"none", "Normal", "Crashed"}
  /\ logins \subseteq Chromes /\ saved \subseteq Chromes /\ reported \in BOOLEAN
  /\ sweep \in [at : {"list", "age", "remove"}, dir : Chromes \union {Nil}]

\* Two Chromes never have the persistent profile: the one that finds it held gets a
\* temporary one, also after a crash left the holder behind.
OneChromePerProfile ==
  \A p, q \in Chromes : Alive(p) /\ Alive(q) /\ home[p] = Profile /\ home[q] = Profile => p = q

\* A sweep never takes the directory of a Chrome that lives or is being started.
SweepSparesLive ==
  [][\A x \in Chromes :
       RemoveStale /\ sweep.dir = x => ~Alive(x) /\ x \notin Opening]_vars

\* No start on the persistent profile shows "Restore pages?", whatever killed the
\* Chrome or the daemon before: it finds an exit type that is normal, or none, or
\* the log says that it could not be marked.
NoRestoreBubble ==
  [][\A p \in Chromes :
       LockProfile(p) /\ home[p] = Profile => exitType # "Crashed" \/ reported]_vars

\* A login saved once stays in the Preferences of the profile, through every mark,
\* crash and restart.
LoginsKept == saved \subseteq logins
=============================================================================
