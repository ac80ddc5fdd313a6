---------------------------- MODULE ProfilesProofs ----------------------------
(***************************************************************************)
(* Theorems about Profiles, for any number of daemons, Chromes and ticks   *)
(* of grace: the types, and that a sweep spares what is in use.  With one  *)
(* daemon on the persistent profile, as a project root has one: that two   *)
(* Chromes never share it, that no start of it shows a crash unreported,   *)
(* and that no login is lost.                                              *)
(***************************************************************************)
EXTENDS Profiles, TLAPS

OneOwner == \A d, e \in Persistent : d = e

On(p) == Alive(p) /\ home[p] = Profile

(***************************************************************************)
(* Numbers: a Chrome and the directory made for it have the number that    *)
(* was next then.                                                          *)
(***************************************************************************)
Homes ==
  /\ \A p \in Chromes : p >= next => state[p] = "none"
  /\ \A p \in Chromes : home[p] \in {p, Profile, Nil}
  /\ \A x \in exists : x < next /\ home[x] = x
  /\ \A d \in Daemons : mine[d] # Nil => mine[d] < next
  /\ \A d, e \in Daemons : mine[d] # Nil /\ mine[d] = mine[e] => d = e
  /\ \A d \in Daemons :
       daemon[d] = "made" => state[mine[d]] = "none" /\ home[mine[d]] = mine[d]
  /\ \A p \in Chromes : state[p] # "none" => home[p] # Nil

\* A lock names the Chrome of its directory, and one that has run.
Locks ==
  /\ \A p \in Chromes : state[p] = "running" => lock[home[p]] = p
  /\ \A x \in Chromes : lock[x] # Nil => lock[x] = x /\ state[x] \in {"running", "dead"}

\* What CleanStale found out still holds when it acts on it.
Sweeping ==
  /\ sweep.at # "list" => sweep.dir \in Chromes /\ sweep.dir < next /\ home[sweep.dir] = sweep.dir
  /\ \A d \in Daemons : daemon[d] = "made" => mine[d] \in exists
  /\ sweep.at = "age" /\ state[sweep.dir] = "running" => age[sweep.dir] <= Grace
  /\ sweep.at = "remove" => ~Alive(sweep.dir) /\ sweep.dir \notin Opening
  /\ \A x \in Opening : age[x] <= Grace

Invariant == TypeOK /\ Homes /\ Locks /\ Sweeping

(***************************************************************************)
(* One owner of the persistent profile.                                    *)
(***************************************************************************)
\* While it prepares the profile nobody runs on it.
Ownership ==
  /\ \A d \in Daemons : daemon[d] \in {"reading", "marking", "persistent"} => d \in Persistent
  /\ \A d \in Daemons : mine[d] # Nil /\ home[mine[d]] = Profile => d \in Persistent
  /\ \A d \in Persistent, p \in Chromes :
       state[p] = "starting" /\ home[p] = Profile => mine[d] = p \/ daemon[d] = "down"
  /\ \A d \in Persistent :
       daemon[d] \in {"reading", "marking", "persistent"} => \A p \in Chromes : ~On(p)

Marked == exitType # "Crashed" \/ reported

\* The Preferences are ready for the next start, and hold every login.
Preferences ==
  /\ \A d \in Daemons : daemon[d] = "persistent" => Marked
  /\ \A p \in Chromes : state[p] = "starting" /\ home[p] = Profile => Marked
  /\ LoginsKept
  /\ \A d \in Daemons : daemon[d] = "marking" => saved \subseteq read[d]
  /\ \A p \in Chromes : state[p] = "running" /\ home[p] = Profile => saved \subseteq memory[p]

OwnerInvariant == OneChromePerProfile /\ Ownership /\ Preferences

LEMMA Constants ==
  /\ MaxChromes \in Nat /\ Grace \in Nat /\ Persistent \subseteq Daemons
  /\ Profile \notin Chromes /\ Nil \notin Chromes /\ Nil # Profile
BY ProfilesAssumption DEF ProfilesAssumption, Chromes

\* A daemon without a Chrome goes on, and the Preferences change with it.
Unopened == {"idle", "reading", "marking", "persistent", "temporary", "down"}

LEMMA DaemonMoves ==
  ASSUME TypeOK, NEW d \in Daemons, NEW to \in Unopened,
         daemon[d] \in Unopened, daemon' = [daemon EXCEPT ![d] = to],
         UNCHANGED <<mine, processes, lock, exists, age, saved, sweep>>,
         read' \in [Daemons -> SUBSET Chromes], exitType' \in {"none", "Normal", "Crashed"},
         logins' \subseteq Chromes, reported' \in BOOLEAN
  PROVE  TypeOK'
<1> USE DEF processes, Unopened
<1>1. daemon' \in [Daemons -> {"idle", "reading", "marking", "persistent", "temporary", "made",
                               "open", "down"}]
  BY DEF TypeOK
<1>2. \A e \in Daemons : mine'[e] = Nil <=> daemon'[e] \notin {"made", "open"} BY DEF TypeOK
<1> QED BY <1>1, <1>2 DEF TypeOK

LEMMA StepType ==
  ASSUME TypeOK, Homes, Sweeping, Next
  PROVE  TypeOK'
<1> USE Constants
<1>1. ASSUME NEW d \in Daemons, CheckProfile(d) PROVE TypeOK'
  <2>1. \E to \in Unopened : daemon' = [daemon EXCEPT ![d] = to]
    BY <1>1 DEF CheckProfile, Goto, Unopened
  <2>2. daemon[d] \in Unopened /\ UNCHANGED <<mine, read, processes, lock, exists, age, preferences, sweep>>
    BY <1>1 DEF CheckProfile, Unopened
  <2> QED BY <2>1, <2>2, DaemonMoves DEF TypeOK, preferences
<1>2. ASSUME NEW d \in Daemons, ReadPreferences(d) PROVE TypeOK'
  <2>1. \E to \in Unopened : daemon' = [daemon EXCEPT ![d] = to]
    BY <1>2 DEF ReadPreferences, Goto, Unopened
  <2>2. /\ daemon[d] \in Unopened /\ read' \in [Daemons -> SUBSET Chromes] /\ reported' \in BOOLEAN
        /\ UNCHANGED <<mine, processes, lock, exists, age, exitType, logins, saved, sweep>>
    BY <1>2 DEF ReadPreferences, Unopened, TypeOK
  <2> QED BY <2>1, <2>2, DaemonMoves DEF TypeOK
<1>3. ASSUME NEW d \in Daemons, MarkExitedCleanly(d) PROVE TypeOK'
  <2>1. daemon' = [daemon EXCEPT ![d] = "persistent"] /\ daemon[d] = "marking"
    BY <1>3 DEF MarkExitedCleanly, Goto
  <2>2. /\ exitType' = "Normal" /\ logins' = read[d] /\ read[d] \subseteq Chromes
        /\ UNCHANGED <<mine, read, processes, lock, exists, age, saved, reported, sweep>>
    BY <1>3 DEF MarkExitedCleanly, TypeOK
  <2> QED BY <2>1, <2>2, DaemonMoves DEF Unopened, TypeOK, preferences
<1>4. ASSUME NEW d \in Daemons, MarkFails(d) PROVE TypeOK'
  <2>1. daemon' = [daemon EXCEPT ![d] = "persistent"] /\ daemon[d] \in Unopened
    BY <1>4 DEF MarkFails, Goto, Unopened
  <2>2. /\ reported' = TRUE
        /\ UNCHANGED <<mine, read, processes, lock, exists, age, exitType, logins, saved, sweep>>
    BY <1>4 DEF MarkFails
  <2> QED BY <2>1, <2>2, DaemonMoves DEF Unopened, TypeOK, preferences
<1>10. ASSUME NEW d \in Daemons, RestartDaemon(d) PROVE TypeOK'
  <2>1. daemon' = [daemon EXCEPT ![d] = "idle"] /\ daemon[d] = "down"
    BY <1>10 DEF RestartDaemon, Goto
  <2>2. UNCHANGED <<mine, read, processes, lock, exists, age, preferences, sweep>>
    BY <1>10 DEF RestartDaemon
  <2> QED BY <2>1, <2>2, DaemonMoves DEF Unopened, TypeOK, preferences
<1> USE DEF TypeOK, Homes, Chromes, Directories, Resting, daemons, processes, preferences
<1>5. ASSUME NEW d \in Daemons, MakeTemporary(d) PROVE TypeOK'
  BY SMTT(60), <1>5 DEF MakeTemporary, Goto
<1>6. ASSUME NEW d \in Daemons, StartTemporary(d) PROVE TypeOK'
  BY SMTT(60), <1>6 DEF StartTemporary, Goto
<1>7. ASSUME NEW d \in Daemons, StartPersistent(d) PROVE TypeOK'
  BY SMTT(60), <1>7 DEF StartPersistent, Goto
<1>8. ASSUME NEW d \in Daemons, ShutdownChrome(d) PROVE TypeOK'
  <2>1. daemon' = [daemon EXCEPT ![d] = "idle"] /\ mine' = [mine EXCEPT ![d] = Nil]
    BY <1>8 DEF ShutdownChrome, Goto
  <2>2. \A e \in Daemons : mine'[e] = Nil <=> daemon'[e] \notin {"made", "open"} BY <2>1
  <2>3. exists' \subseteq Chromes BY <1>8 DEF ShutdownChrome
  <2> QED BY <1>8, <2>1, <2>2, <2>3 DEF ShutdownChrome
<1>9. ASSUME NEW d \in Daemons, CrashDaemon(d) PROVE TypeOK'
  BY SMTT(60), <1>9 DEF CrashDaemon, Goto
<1>11. ASSUME NEW p \in Chromes, LockProfile(p) PROVE TypeOK'
  <2>1. home[p] \in Directories /\ home[p] # Nil BY <1>11 DEF LockProfile
  <2>2. lock' \in [Directories -> Chromes \union {Nil}] BY <1>11, <2>1 DEF LockProfile
  <2>3. age' \in [Chromes -> 0..(Grace + 1)] BY <1>11, <2>1 DEF LockProfile, Touch
  <2>4. exitType' \in {"none", "Normal", "Crashed"} /\ memory' \in [Chromes -> SUBSET Chromes]
    <3>1. CASE home[p] = Profile
      <4>1. exitType' = "Crashed" BY <1>11, <3>1 DEF LockProfile
      <4>2. memory' = [memory EXCEPT ![p] = logins] BY <1>11, <3>1 DEF LockProfile
      <4>3. memory' \in [Chromes -> SUBSET Chromes] BY <4>2
      <4> QED BY <4>1, <4>3
    <3>2. CASE home[p] # Profile BY <1>11, <3>2 DEF LockProfile
    <3> QED BY <3>1, <3>2
  <2> QED BY <1>11, <2>2, <2>3, <2>4 DEF LockProfile
<1>12. ASSUME NEW p \in Chromes, SaveLogin(p) PROVE TypeOK'
  BY <1>12 DEF SaveLogin
<1>13. ASSUME NEW p \in Chromes, ExitCleanly(p) PROVE TypeOK'
  <2>1. home[p] \in Directories /\ home[p] # Nil BY <1>13 DEF ExitCleanly
  <2>2. lock' \in [Directories -> Chromes \union {Nil}] BY <1>13, <2>1 DEF ExitCleanly
  <2>3. age' \in [Chromes -> 0..(Grace + 1)] BY <1>13, <2>1 DEF ExitCleanly, Touch
  <2>4. exitType' \in {"none", "Normal", "Crashed"} /\ logins' \subseteq Chromes
    <3>1. CASE home[p] = Profile BY <1>13, <3>1 DEF ExitCleanly
    <3>2. CASE home[p] # Profile BY <1>13, <3>2 DEF ExitCleanly
    <3> QED BY <3>1, <3>2
  <2> QED BY <1>13, <2>2, <2>3, <2>4 DEF ExitCleanly
<1>14. ASSUME NEW p \in Chromes, Die(p) PROVE TypeOK'
  BY SMTT(60), <1>14 DEF Die, Alive
<1>15. ASSUME NEW x \in Chromes, LookAtLock(x) PROVE TypeOK'
  BY SMTT(60), <1>15 DEF LookAtLock, At, Alive
<1>16. CASE LookAtAge
  BY SMTT(60), <1>16 DEF LookAtAge, At
<1>17. CASE RemoveStale
  BY <1>17 DEF RemoveStale
<1>18. CASE Tick
  <2>1. age' \in [Chromes -> 0..(Grace + 1)] BY <1>18 DEF Tick
  <2> QED BY <1>18, <2>1 DEF Tick
<1> QED
  BY <1>1, <1>2, <1>3, <1>4, <1>5, <1>6, <1>7, <1>8, <1>9, <1>10, <1>11, <1>12, <1>13, <1>14, <1>15,
     <1>16, <1>17, <1>18
  DEF Next, Daemon, Chrome, Sweeper

LEMMA StepHomes ==
  ASSUME TypeOK, Homes, Next
  PROVE  Homes'
<1> USE Constants DEF TypeOK, Homes, Chromes, Directories, daemons, processes, preferences
<1>1. ASSUME NEW d \in Daemons, CheckProfile(d) PROVE Homes'
  BY <1>1 DEF CheckProfile, Held, Alive, Goto
<1>2. ASSUME NEW d \in Daemons, ReadPreferences(d) PROVE Homes'
  BY <1>2 DEF ReadPreferences, Goto
<1>3. ASSUME NEW d \in Daemons, MarkExitedCleanly(d) PROVE Homes'
  BY <1>3 DEF MarkExitedCleanly, Goto
<1>4. ASSUME NEW d \in Daemons, MarkFails(d) PROVE Homes'
  BY <1>4 DEF MarkFails, Goto
<1>5. ASSUME NEW d \in Daemons, MakeTemporary(d) PROVE Homes'
  BY <1>5 DEF MakeTemporary, Goto
<1>6. ASSUME NEW d \in Daemons, StartTemporary(d) PROVE Homes'
  BY <1>6 DEF StartTemporary, Goto
<1>7. ASSUME NEW d \in Daemons, StartPersistent(d) PROVE Homes'
  BY <1>7 DEF StartPersistent, Goto
<1>8. ASSUME NEW d \in Daemons, ShutdownChrome(d) PROVE Homes'
  BY <1>8 DEF ShutdownChrome, Goto, Alive
<1>9. ASSUME NEW d \in Daemons, CrashDaemon(d) PROVE Homes'
  BY <1>9 DEF CrashDaemon, Goto
<1>10. ASSUME NEW d \in Daemons, RestartDaemon(d) PROVE Homes'
  BY <1>10 DEF RestartDaemon, Goto, Orphans, Alive
<1>11. ASSUME NEW p \in Chromes, LockProfile(p) PROVE Homes'
  BY <1>11 DEF LockProfile, Touch, Held, Alive
<1>12. ASSUME NEW p \in Chromes, SaveLogin(p) PROVE Homes'
  BY <1>12 DEF SaveLogin
<1>13. ASSUME NEW p \in Chromes, ExitCleanly(p) PROVE Homes'
  BY <1>13 DEF ExitCleanly, Touch
<1>14. ASSUME NEW p \in Chromes, Die(p) PROVE Homes'
  BY <1>14 DEF Die, Alive
<1>15. ASSUME NEW x \in Chromes, LookAtLock(x) PROVE Homes'
  BY <1>15 DEF LookAtLock, At, Alive
<1>16. CASE LookAtAge
  BY <1>16 DEF LookAtAge, At
<1>17. CASE RemoveStale
  BY <1>17 DEF RemoveStale
<1>18. CASE Tick
  BY <1>18 DEF Tick
<1> QED
  BY <1>1, <1>2, <1>3, <1>4, <1>5, <1>6, <1>7, <1>8, <1>9, <1>10, <1>11, <1>12, <1>13, <1>14, <1>15,
     <1>16, <1>17, <1>18
  DEF Next, Daemon, Chrome, Sweeper

LEMMA StepLocks ==
  ASSUME Invariant, Next
  PROVE  Locks'
<1> USE Constants DEF Invariant, TypeOK, Homes, Locks, Sweeping, Chromes, Directories, Alive,
        daemons, processes, preferences
<1>1. ASSUME NEW d \in Daemons, CheckProfile(d) PROVE Locks'
  BY <1>1 DEF CheckProfile, Held, Alive, Goto
<1>2. ASSUME NEW d \in Daemons, ReadPreferences(d) PROVE Locks'
  BY <1>2 DEF ReadPreferences, Goto
<1>3. ASSUME NEW d \in Daemons, MarkExitedCleanly(d) PROVE Locks'
  BY <1>3 DEF MarkExitedCleanly, Goto
<1>4. ASSUME NEW d \in Daemons, MarkFails(d) PROVE Locks'
  BY <1>4 DEF MarkFails, Goto
<1>5. ASSUME NEW d \in Daemons, MakeTemporary(d) PROVE Locks'
  BY <1>5 DEF MakeTemporary, Goto
<1>6. ASSUME NEW d \in Daemons, StartTemporary(d) PROVE Locks'
  BY <1>6 DEF StartTemporary, Goto
<1>7. ASSUME NEW d \in Daemons, StartPersistent(d) PROVE Locks'
  BY <1>7 DEF StartPersistent, Goto
<1>8. ASSUME NEW d \in Daemons, ShutdownChrome(d) PROVE Locks'
  BY <1>8 DEF ShutdownChrome, Goto, Alive
<1>9. ASSUME NEW d \in Daemons, CrashDaemon(d) PROVE Locks'
  BY <1>9 DEF CrashDaemon, Goto
<1>10. ASSUME NEW d \in Daemons, RestartDaemon(d) PROVE Locks'
  BY <1>10 DEF RestartDaemon, Goto, Orphans, Alive
<1>11. ASSUME NEW p \in Chromes, LockProfile(p) PROVE Locks'
  BY <1>11 DEF LockProfile, Touch, Held, Alive
<1>12. ASSUME NEW p \in Chromes, SaveLogin(p) PROVE Locks'
  BY <1>12 DEF SaveLogin
<1>13. ASSUME NEW p \in Chromes, ExitCleanly(p) PROVE Locks'
  BY <1>13 DEF ExitCleanly, Touch
<1>14. ASSUME NEW p \in Chromes, Die(p) PROVE Locks'
  BY <1>14 DEF Die, Alive
<1>15. ASSUME NEW x \in Chromes, LookAtLock(x) PROVE Locks'
  BY <1>15 DEF LookAtLock, At, Alive
<1>16. CASE LookAtAge
  BY <1>16 DEF LookAtAge, At
<1>17. CASE RemoveStale
  BY <1>17 DEF RemoveStale
<1>18. CASE Tick
  BY <1>18 DEF Tick
<1> QED
  BY <1>1, <1>2, <1>3, <1>4, <1>5, <1>6, <1>7, <1>8, <1>9, <1>10, <1>11, <1>12, <1>13, <1>14, <1>15,
     <1>16, <1>17, <1>18
  DEF Next, Daemon, Chrome, Sweeper

LEMMA StepSweeping ==
  ASSUME Invariant, Next
  PROVE  Sweeping'
<1> USE Constants DEF Invariant, TypeOK, Homes, Locks, Sweeping, Opening, Chromes, Directories,
        Resting, Alive, daemons, processes, preferences
<1>1. ASSUME NEW d \in Daemons, CheckProfile(d) PROVE Sweeping'
  BY <1>1 DEF CheckProfile, Held, Alive, Goto
<1>2. ASSUME NEW d \in Daemons, ReadPreferences(d) PROVE Sweeping'
  BY <1>2 DEF ReadPreferences, Goto
<1>3. ASSUME NEW d \in Daemons, MarkExitedCleanly(d) PROVE Sweeping'
  BY <1>3 DEF MarkExitedCleanly, Goto
<1>4. ASSUME NEW d \in Daemons, MarkFails(d) PROVE Sweeping'
  BY <1>4 DEF MarkFails, Goto
<1>5. ASSUME NEW d \in Daemons, MakeTemporary(d) PROVE Sweeping'
  <2>1. next \in Chromes /\ next \notin exists /\ mine'[d] = next /\ age'[next] = 0
    BY <1>5 DEF MakeTemporary
  <2>2. \A x \in Opening' : x = next \/ (x \in Opening /\ age'[x] = age[x])
    BY <1>5, <2>1 DEF MakeTemporary, Goto
  <2> HIDE DEF Opening
  <2>3. sweep' = sweep /\ state' = state /\ next' = next + 1 BY <1>5 DEF MakeTemporary
  <2>4. \A x \in Opening' : age'[x] <= Grace
    <3> SUFFICES ASSUME NEW x \in Opening' PROVE age'[x] <= Grace
      OBVIOUS
    <3>1. CASE x = next BY <2>1, <3>1
    <3>2. CASE x # next BY <2>2, <3>2
    <3> QED BY <3>1, <3>2
  <2>5. sweep'.at # "list" =>
          /\ sweep'.dir \in Chromes /\ sweep'.dir < next' /\ sweep.dir # next
          /\ home'[sweep'.dir] = sweep'.dir
    BY <1>5, <2>1, <2>3 DEF MakeTemporary
  <2>6. sweep'.at = "age" /\ state'[sweep'.dir] = "running" => age'[sweep'.dir] <= Grace
    <3> SUFFICES ASSUME sweep.at = "age", state[sweep.dir] = "running"
                 PROVE  age'[sweep.dir] <= Grace
      BY <2>3
    <3>1. sweep.dir \in Chromes /\ sweep.dir # next BY <2>3, <2>5
    <3>2. age'[sweep.dir] = age[sweep.dir] BY <1>5, <2>1, <3>1 DEF MakeTemporary
    <3> QED BY <3>2
  <2>7. sweep'.at = "remove" =>
          state'[sweep'.dir] \notin {"starting", "running"} /\ sweep'.dir \notin Opening'
    <3> SUFFICES ASSUME sweep.at = "remove"
                 PROVE  state'[sweep.dir] \notin {"starting", "running"} /\ sweep.dir \notin Opening'
      BY <2>3
    <3>1. sweep.dir \in Chromes /\ sweep.dir # next BY <2>3, <2>5
    <3>2. state[sweep.dir] \notin {"starting", "running"} /\ sweep.dir \notin Opening BY DEF Sweeping
    <3>3. sweep.dir \notin Opening' BY <2>2, <3>1, <3>2
    <3> QED BY <2>3, <3>2, <3>3
  <2>8. \A e \in Daemons : daemon'[e] = "made" => mine'[e] \in exists'
    BY <1>5, <2>1 DEF MakeTemporary, Goto
  <2> QED BY <2>3, <2>4, <2>5, <2>6, <2>7, <2>8
<1>6. ASSUME NEW d \in Daemons, StartTemporary(d) PROVE Sweeping'
  <2>1. mine[d] \in Chromes /\ home[mine[d]] = mine[d] BY <1>6 DEF StartTemporary
  <2>2. Opening' \subseteq Opening BY <1>6, <2>1 DEF StartTemporary, Goto
  <2>3. mine[d] \in exists => mine[d] \in Opening BY <1>6, <2>1 DEF StartTemporary
  <2> HIDE DEF Opening
  <2>4. sweep' = sweep /\ age' = age /\ next' = next /\ home' = home BY <1>6 DEF StartTemporary
  <2>5. \A x \in Chromes : x # mine[d] => state'[x] = state[x] BY <1>6, <2>1 DEF StartTemporary
  <2>6. state'[mine[d]] = "starting" BY <1>6, <2>1 DEF StartTemporary
  <2>7. \A x \in Opening' : age'[x] <= Grace BY <2>2, <2>4
  <2>8. sweep'.at = "age" /\ state'[sweep'.dir] = "running" => age'[sweep'.dir] <= Grace
    <3> SUFFICES ASSUME sweep.at = "age", state'[sweep.dir] = "running"
                 PROVE  age[sweep.dir] <= Grace
      BY <2>4
    <3>1. sweep.dir \in Chromes /\ sweep.dir # mine[d] BY <2>6
    <3> QED BY <2>5, <3>1
  <2>9. sweep'.at = "remove" =>
          state'[sweep'.dir] \notin {"starting", "running"} /\ sweep'.dir \notin Opening'
    <3> SUFFICES ASSUME sweep.at = "remove"
                 PROVE  state'[sweep.dir] \notin {"starting", "running"} /\ sweep.dir \notin Opening'
      BY <2>4
    <3>1. sweep.dir \in Chromes /\ state[sweep.dir] \notin {"starting", "running"} /\ sweep.dir \notin Opening
      BY DEF Sweeping
    <3>2. sweep.dir # mine[d] BY <1>6, <2>3, <3>1 DEF StartTemporary
    <3> QED BY <2>2, <2>5, <3>1, <3>2
  <2>10. \A e \in Daemons : daemon'[e] = "made" => mine'[e] \in exists'
    BY <1>6 DEF StartTemporary, Goto
  <2> QED BY <2>4, <2>7, <2>8, <2>9, <2>10
<1>7. ASSUME NEW d \in Daemons, StartPersistent(d) PROVE Sweeping'
  <2>1. next \in Chromes /\ next \notin exists BY <1>7 DEF StartPersistent
  <2>2. Opening' = Opening BY <1>7, <2>1 DEF StartPersistent, Goto
  <2> HIDE DEF Opening
  <2>3. sweep' = sweep /\ age' = age /\ next' = next + 1 BY <1>7 DEF StartPersistent
  <2>4. \A x \in Chromes : x # next => state'[x] = state[x] BY <1>7, <2>1 DEF StartPersistent
  <2>5. sweep'.at # "list" =>
          /\ sweep'.dir \in Chromes /\ sweep'.dir < next' /\ home'[sweep'.dir] = sweep'.dir
          /\ state'[sweep'.dir] = state[sweep'.dir]
    BY <1>7, <2>3, <2>4 DEF StartPersistent
  <2>6. sweep'.at = "age" /\ state'[sweep'.dir] = "running" => age'[sweep'.dir] <= Grace
    BY <2>3, <2>5
  <2>7. sweep'.at = "remove" =>
          state'[sweep'.dir] \notin {"starting", "running"} /\ sweep'.dir \notin Opening'
    BY <2>2, <2>3, <2>5
  <2>8. \A e \in Daemons : daemon'[e] = "made" => mine'[e] \in exists'
    BY <1>7, <2>1 DEF StartPersistent, Goto
  <2> QED BY <2>2, <2>3, <2>5, <2>6, <2>7, <2>8
<1>8. ASSUME NEW d \in Daemons, ShutdownChrome(d) PROVE Sweeping'
  BY <1>8 DEF ShutdownChrome, Goto, Alive
<1>9. ASSUME NEW d \in Daemons, CrashDaemon(d) PROVE Sweeping'
  BY <1>9 DEF CrashDaemon, Goto
<1>10. ASSUME NEW d \in Daemons, RestartDaemon(d) PROVE Sweeping'
  BY <1>10 DEF RestartDaemon, Goto, Orphans, Alive
<1>11. ASSUME NEW p \in Chromes, LockProfile(p) PROVE Sweeping'
  <2>1. Opening' \subseteq Opening /\ Opening \subseteq Chromes
    <3>1. Opening \subseteq Chromes OBVIOUS
    <3>2. Opening' \subseteq Opening BY <1>11 DEF LockProfile
    <3> QED BY <3>1, <3>2
  <2> HIDE DEF Opening
  <2>2. \A x \in Chromes : age'[x] = age[x] \/ age'[x] = 0 BY <1>11 DEF LockProfile, Touch
  <2>3. home[p] = p => age'[p] = 0 BY <1>11 DEF LockProfile, Touch
  <2>4. sweep' = sweep /\ next' = next /\ home' = home BY <1>11 DEF LockProfile
  <2>5. \A x \in Chromes : x # p => state'[x] = state[x] BY <1>11 DEF LockProfile
  <2>6. home[p] \in {p, Profile} BY <1>11 DEF LockProfile
  <2>7. sweep'.at = "age" /\ state'[sweep'.dir] = "running" => age'[sweep'.dir] <= Grace
    <3> SUFFICES ASSUME sweep.at = "age", state'[sweep.dir] = "running"
                 PROVE  age'[sweep.dir] <= Grace
      BY <2>4
    <3>1. sweep.dir \in Chromes BY <2>4
    <3>2. CASE sweep.dir = p
      <4>1. home[p] = p BY <3>2
      <4> QED BY <2>3, <3>2, <4>1
    <3>3. CASE sweep.dir # p
      <4>1. age[sweep.dir] <= Grace BY <2>5, <3>1, <3>3
      <4>2. age'[sweep.dir] = age[sweep.dir] \/ age'[sweep.dir] = 0 BY <2>2, <3>1
      <4>3. CASE age'[sweep.dir] = age[sweep.dir] BY <4>1, <4>3
      <4>4. CASE age'[sweep.dir] = 0 BY <4>4
      <4> QED BY <4>2, <4>3, <4>4
    <3> QED BY <3>2, <3>3
  <2>8. sweep'.at = "remove" =>
          state'[sweep'.dir] \notin {"starting", "running"} /\ sweep'.dir \notin Opening'
    <3> SUFFICES ASSUME sweep.at = "remove"
                 PROVE  state'[sweep.dir] \notin {"starting", "running"} /\ sweep.dir \notin Opening'
      BY <2>4
    <3>1. sweep.dir \in Chromes /\ state[sweep.dir] \notin {"starting", "running"} /\ sweep.dir \notin Opening
      BY DEF Sweeping
    <3>2. sweep.dir # p BY <1>11, <3>1 DEF LockProfile
    <3> QED BY <2>1, <2>5, <3>1, <3>2
  <2>9. \A x \in Opening' : age'[x] <= Grace
    <3> SUFFICES ASSUME NEW x \in Opening' PROVE age'[x] <= Grace
      OBVIOUS
    <3>1. x \in Chromes /\ age[x] <= Grace BY <2>1
    <3>2. CASE age'[x] = age[x] BY <3>1, <3>2
    <3>3. CASE age'[x] = 0 BY <3>3
    <3> QED BY <2>2, <3>1, <3>2, <3>3
  <2>10. \A d \in Daemons : daemon'[d] = "made" => mine'[d] \in exists'
    BY <1>11 DEF LockProfile
  <2> QED BY <2>4, <2>7, <2>8, <2>9, <2>10
<1>12. ASSUME NEW p \in Chromes, SaveLogin(p) PROVE Sweeping'
  BY <1>12 DEF SaveLogin
<1>13. ASSUME NEW p \in Chromes, ExitCleanly(p) PROVE Sweeping'
  BY <1>13 DEF ExitCleanly, Touch
<1>14. ASSUME NEW p \in Chromes, Die(p) PROVE Sweeping'
  BY <1>14 DEF Die, Alive
<1>15. ASSUME NEW x \in Chromes, LookAtLock(x) PROVE Sweeping'
  BY <1>15 DEF LookAtLock, At, Alive
<1>16. CASE LookAtAge
  BY <1>16 DEF LookAtAge, At
<1>17. CASE RemoveStale
  BY <1>17 DEF RemoveStale
<1>18. CASE Tick
  BY <1>18 DEF Tick
<1> QED
  BY <1>1, <1>2, <1>3, <1>4, <1>5, <1>6, <1>7, <1>8, <1>9, <1>10, <1>11, <1>12, <1>13, <1>14, <1>15,
     <1>16, <1>17, <1>18
  DEF Next, Daemon, Chrome, Sweeper

LEMMA StepOwner ==
  ASSUME Invariant, OneChromePerProfile, Ownership, Next, OneOwner
  PROVE  OneChromePerProfile' /\ Ownership'
<1> USE Constants DEF Invariant, TypeOK, Homes, Locks, OneChromePerProfile, Ownership,
        OneOwner, On, Alive, Chromes, Directories, daemons, processes, preferences
<1>1. ASSUME NEW d \in Daemons, CheckProfile(d) PROVE OneChromePerProfile' /\ Ownership'
  <2>1. OneChromePerProfile' BY <1>1 DEF CheckProfile
  <2>2. CASE d \in Persistent /\ ~Held(Profile)
    <3>1. \A p \in Chromes : ~On(p)
      <4> SUFFICES ASSUME NEW p \in Chromes, On(p) PROVE FALSE
        OBVIOUS
      <4>1. mine[d] = Nil BY <1>1 DEF CheckProfile
      <4>2. state[p] = "running" BY <1>1, <2>2, <4>1 DEF CheckProfile
      <4> QED BY <2>2, <4>2 DEF Held
    <3> QED BY <1>1, <2>1, <2>2, <3>1 DEF CheckProfile, Goto
  <2>3. CASE ~(d \in Persistent /\ ~Held(Profile))
    BY <1>1, <2>1, <2>3 DEF CheckProfile, Goto
  <2> QED BY <2>2, <2>3
<1>2. ASSUME NEW d \in Daemons, ReadPreferences(d) PROVE OneChromePerProfile' /\ Ownership'
  BY <1>2 DEF ReadPreferences, Goto
<1>3. ASSUME NEW d \in Daemons, MarkExitedCleanly(d) PROVE OneChromePerProfile' /\ Ownership'
  BY <1>3 DEF MarkExitedCleanly, Goto
<1>4. ASSUME NEW d \in Daemons, MarkFails(d) PROVE OneChromePerProfile' /\ Ownership'
  BY <1>4 DEF MarkFails, Goto
<1>5. ASSUME NEW d \in Daemons, MakeTemporary(d) PROVE OneChromePerProfile' /\ Ownership'
  <2>1. next \in Chromes /\ state[next] = "none" BY <1>5 DEF MakeTemporary
  <2>2. \A p \in Chromes : On(p)' <=> On(p) BY <1>5, <2>1 DEF MakeTemporary
  <2>3. OneChromePerProfile' BY <1>5, <2>1, <2>2 DEF MakeTemporary
  <2>4. Ownership' BY <1>5, <2>1, <2>2 DEF MakeTemporary, Goto
  <2> QED BY <2>3, <2>4
<1>6. ASSUME NEW d \in Daemons, StartTemporary(d) PROVE OneChromePerProfile' /\ Ownership'
  BY <1>6 DEF StartTemporary, Goto
<1>7. ASSUME NEW d \in Daemons, StartPersistent(d) PROVE OneChromePerProfile' /\ Ownership'
  BY <1>7 DEF StartPersistent, Goto
<1>8. ASSUME NEW d \in Daemons, ShutdownChrome(d) PROVE OneChromePerProfile' /\ Ownership'
  BY SMTT(60), <1>8 DEF ShutdownChrome, Goto, Alive
<1>9. ASSUME NEW d \in Daemons, CrashDaemon(d) PROVE OneChromePerProfile' /\ Ownership'
  BY <1>9 DEF CrashDaemon, Goto
<1>10. ASSUME NEW d \in Daemons, RestartDaemon(d) PROVE OneChromePerProfile' /\ Ownership'
  BY <1>10 DEF RestartDaemon, Goto, Orphans, Alive
<1>11. ASSUME NEW p \in Chromes, LockProfile(p) PROVE OneChromePerProfile' /\ Ownership'
  BY <1>11 DEF LockProfile, Touch, Held, Alive
<1>12. ASSUME NEW p \in Chromes, SaveLogin(p) PROVE OneChromePerProfile' /\ Ownership'
  BY <1>12 DEF SaveLogin
<1>13. ASSUME NEW p \in Chromes, ExitCleanly(p) PROVE OneChromePerProfile' /\ Ownership'
  BY <1>13 DEF ExitCleanly, Touch
<1>14. ASSUME NEW p \in Chromes, Die(p) PROVE OneChromePerProfile' /\ Ownership'
  BY <1>14 DEF Die, Alive
<1>15. ASSUME NEW x \in Chromes, LookAtLock(x) PROVE OneChromePerProfile' /\ Ownership'
  BY <1>15 DEF LookAtLock, At, Alive
<1>16. CASE LookAtAge
  BY <1>16 DEF LookAtAge, At
<1>17. CASE RemoveStale
  BY <1>17 DEF RemoveStale
<1>18. CASE Tick
  BY <1>18 DEF Tick
<1> QED
  BY <1>1, <1>2, <1>3, <1>4, <1>5, <1>6, <1>7, <1>8, <1>9, <1>10, <1>11, <1>12, <1>13, <1>14, <1>15,
     <1>16, <1>17, <1>18
  DEF Next, Daemon, Chrome, Sweeper

LEMMA StepPreferences ==
  ASSUME Invariant, OwnerInvariant, Next, OneOwner
  PROVE  Preferences'
<1> USE Constants DEF Invariant, TypeOK, Homes, OwnerInvariant, OneChromePerProfile, Ownership,
        Preferences, Marked, LoginsKept, OneOwner, On, Alive, Chromes, daemons, processes, preferences
<1>1. ASSUME NEW d \in Daemons, CheckProfile(d) PROVE Preferences'
  BY <1>1 DEF CheckProfile, Held, Alive, Goto
<1>2. ASSUME NEW d \in Daemons, ReadPreferences(d) PROVE Preferences'
  BY <1>2 DEF ReadPreferences, Goto
<1>3. ASSUME NEW d \in Daemons, MarkExitedCleanly(d) PROVE Preferences'
  BY <1>3 DEF MarkExitedCleanly, Goto
<1>4. ASSUME NEW d \in Daemons, MarkFails(d) PROVE Preferences'
  BY <1>4 DEF MarkFails, Goto
<1>5. ASSUME NEW d \in Daemons, MakeTemporary(d) PROVE Preferences'
  BY <1>5 DEF MakeTemporary, Goto
<1>6. ASSUME NEW d \in Daemons, StartTemporary(d) PROVE Preferences'
  BY <1>6 DEF StartTemporary, Goto
<1>7. ASSUME NEW d \in Daemons, StartPersistent(d) PROVE Preferences'
  BY <1>7 DEF StartPersistent, Goto
<1>8. ASSUME NEW d \in Daemons, ShutdownChrome(d) PROVE Preferences'
  BY <1>8 DEF ShutdownChrome, Goto, Alive
<1>9. ASSUME NEW d \in Daemons, CrashDaemon(d) PROVE Preferences'
  BY <1>9 DEF CrashDaemon, Goto
<1>10. ASSUME NEW d \in Daemons, RestartDaemon(d) PROVE Preferences'
  BY <1>10 DEF RestartDaemon, Goto, Orphans, Alive
<1>11. ASSUME NEW p \in Chromes, LockProfile(p) PROVE Preferences'
  BY <1>11 DEF LockProfile, Touch, Held, Alive
<1>12. ASSUME NEW p \in Chromes, SaveLogin(p) PROVE Preferences'
  BY <1>12 DEF SaveLogin
<1>13. ASSUME NEW p \in Chromes, ExitCleanly(p) PROVE Preferences'
  BY <1>13 DEF ExitCleanly, Touch
<1>14. ASSUME NEW p \in Chromes, Die(p) PROVE Preferences'
  BY <1>14 DEF Die, Alive
<1>15. ASSUME NEW x \in Chromes, LookAtLock(x) PROVE Preferences'
  BY <1>15 DEF LookAtLock, At, Alive
<1>16. CASE LookAtAge
  BY <1>16 DEF LookAtAge, At
<1>17. CASE RemoveStale
  BY <1>17 DEF RemoveStale
<1>18. CASE Tick
  BY <1>18 DEF Tick
<1> QED
  BY <1>1, <1>2, <1>3, <1>4, <1>5, <1>6, <1>7, <1>8, <1>9, <1>10, <1>11, <1>12, <1>13, <1>14, <1>15,
     <1>16, <1>17, <1>18
  DEF Next, Daemon, Chrome, Sweeper

LEMMA InitInvariant == Init => Invariant
<1> SUFFICES ASSUME Init PROVE Invariant
  OBVIOUS
<1> USE Constants DEF Init, Chromes, Directories, Resting
<1>1. TypeOK
  <2>1. next \in 1..(MaxChromes + 1) OBVIOUS
  <2>2. age \in [Chromes -> 0..(Grace + 1)]
    <3>1. 0 \in 0..(Grace + 1) OBVIOUS
    <3> QED BY <3>1
  <2>3. \A d \in Daemons : mine[d] = Nil <=> daemon[d] \notin {"made", "open"} OBVIOUS
  <2>4. sweep \in [at : {"list", "age", "remove"}, dir : Chromes \union {Nil}] OBVIOUS
  <2> QED BY <2>1, <2>2, <2>3, <2>4 DEF TypeOK
<1>2. Homes BY DEF Homes
<1>3. Locks BY DEF Locks
<1>4. Sweeping BY DEF Sweeping, Opening
<1> QED BY <1>1, <1>2, <1>3, <1>4 DEF Invariant

LEMMA InitOwner == Init => OwnerInvariant
BY Constants DEF Init, OwnerInvariant, OneChromePerProfile, Ownership, Preferences, Marked, On,
   Alive, LoginsKept, Chromes

LEMMA StutterInvariant == Invariant /\ UNCHANGED vars => Invariant'
<1> SUFFICES ASSUME Invariant, UNCHANGED vars PROVE Invariant'
  OBVIOUS
<1> USE DEF Invariant, vars, daemons, processes, preferences
<1>1. TypeOK' BY DEF TypeOK
<1>2. Homes' BY DEF Homes
<1>3. Locks' BY DEF Locks
<1>4. Sweeping' BY DEF Sweeping, Opening, Alive
<1> QED BY <1>1, <1>2, <1>3, <1>4

LEMMA StutterOwner == OwnerInvariant /\ UNCHANGED vars => OwnerInvariant'
BY DEF OwnerInvariant, OneChromePerProfile, Ownership, Preferences, Marked, On, Alive, LoginsKept,
   vars, daemons, processes, preferences

LEMMA StepInvariant == Invariant /\ [Next]_vars => Invariant'
<1>1. Invariant /\ Next => Invariant'
  BY StepType, StepHomes, StepLocks, StepSweeping DEF Invariant
<1> QED BY <1>1, StutterInvariant

LEMMA StepOwnerInvariant ==
  OneOwner /\ Invariant /\ OwnerInvariant /\ [Next]_vars => OwnerInvariant'
<1>1. OneOwner /\ Invariant /\ OwnerInvariant /\ Next => OwnerInvariant'
  BY StepOwner, StepPreferences DEF OwnerInvariant
<1> QED BY <1>1, StutterOwner

\* What the theorems rest on: the numbers, the locks and the sweep agree.
LEMMA Invariance == Spec => []Invariant
BY InitInvariant, StepInvariant, PTL DEF Spec

\* Every variable keeps its type, for any number of daemons, Chromes and ticks.
THEOREM TypeCorrect == Spec => []TypeOK
BY Invariance, PTL DEF Invariant

\* CleanStale never removes the directory of a Chrome that lives or is being
\* started: between its look at the lock and the removal nothing revives it.
THEOREM SweepSpares == Spec => SweepSparesLive
<1>1. Invariant => [\A x \in Chromes :
                      RemoveStale /\ sweep.dir = x => ~Alive(x) /\ x \notin Opening]_vars
  BY DEF Invariant, Sweeping, RemoveStale
<1> QED BY <1>1, Invariance, PTL DEF SweepSparesLive

LEMMA OwnerInvariance == ASSUME OneOwner PROVE Spec => []OwnerInvariant
<1>1. Init => OwnerInvariant BY InitOwner
<1>2. Invariant /\ OwnerInvariant /\ [Next]_vars => OwnerInvariant' BY StepOwnerInvariant
<1> QED BY <1>1, <1>2, Invariance, PTL DEF Spec

\* With one daemon on the persistent profile, two Chromes never have it at a time,
\* although a crash of the daemon may leave the first behind.
THEOREM OneChrome == ASSUME OneOwner PROVE Spec => []OneChromePerProfile
BY OwnerInvariance, PTL DEF OwnerInvariant

\* Then no start on it shows a crash that was not reported: markProfileExitedCleanly
\* acts while nobody writes the Preferences.
THEOREM NoBubble == ASSUME OneOwner PROVE Spec => NoRestoreBubble
<1>1. OwnerInvariant => [\A p \in Chromes :
        LockProfile(p) /\ home[p] = Profile => exitType # "Crashed" \/ reported]_vars
  BY DEF OwnerInvariant, Preferences, Marked, LockProfile
<1> QED BY <1>1, OwnerInvariance, PTL DEF NoRestoreBubble

\* And no mark undoes a login saved before it.
THEOREM LoginsAreKept == ASSUME OneOwner PROVE Spec => []LoginsKept
BY OwnerInvariance, PTL DEF OwnerInvariant, Preferences
=============================================================================
