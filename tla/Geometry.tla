------------------------------ MODULE Geometry ------------------------------
(***************************************************************************)
(* The position and the size of the browser window (monitor_geometry.go,   *)
(* monitor_detection.go, geometry_utils.go, position.go, config.go and the *)
(* part of Open that prepares them).  Four parties write the fields of     *)
(* DevBrowser or the store: the opener, the goroutine that polls the       *)
(* window's bounds, a change of the configuration (which restarts the      *)
(* browser) and the emulation tool, which saves every setting.  The last   *)
(* three do so without Mu, so their steps interleave: each reads a field   *)
(* and only then sets the key of the store, and what it has read may be    *)
(* old when the key is set.                                                *)
(*                                                                         *)
(* The window is what Chrome reports; the store never fails.  The life     *)
(* cycle is reduced to a window that is closed, being opened or open, and  *)
(* at most one poll is between reading the bounds and saving them, and one *)
(* call of the tool saves at a time.  Width and Height are one value, and  *)
(* a poll that writes a field and reads it back at once does so in a step. *)
(*                                                                         *)
(* What every specification has is named after the module here, since      *)
(* ToolProofs extends this one and Interception.                           *)
(***************************************************************************)
EXTENDS Naturals

CONSTANTS
  Positions,     \* positions of a window
  Sizes,         \* sizes of a window
  Origin,        \* the position New starts with, "0,0"
  DefaultSize,   \* the size New starts with, 1024x768
  MonitorSize,   \* the size of the primary monitor
  Nil            \* no key in the store, no window, no monitor detected, no value

Bounds == [position : Positions, size : Sizes]

ASSUME GeometryAssumption ==
  /\ Origin \in Positions
  /\ DefaultSize \in Sizes /\ MonitorSize \in Sizes
  /\ Nil \notin Positions \union Sizes \union Bounds

Savers == {"setter", "tool"}  \* the callers of SaveConfig
Writers == Savers \union {"poll"}

VARIABLES
  position, size,  \* Position; Width and Height
  sizeConfigured,  \* SizeConfigured
  monitor,         \* MonitorWidth and MonitorHeight
  store,           \* the keys browser_position and browser_size
  window,          \* the bounds of the open window
  opener,          \* where the goroutine that opens the browser is
  poll, polled,    \* where the geometry monitor is, the bounds it has to save
  setter, setting, \* where the change of the configuration is, the value it has to set
  saving,          \* saving[w]: where the SaveConfig of w is
  taken,           \* taken[w]: what w has read of a field and not stored yet
  overlapped       \* since the start of the program, two stored at the same time

fields == <<position, size, sizeConfigured>>
polling == <<poll, polled>>
configuring == <<setter, setting>>
saves == <<saving, taken, overlapped>>
geometryVars == <<fields, monitor, store, window, opener, polling, configuring, saves>>

Stored(key, default) == IF store[key] = Nil THEN default ELSE store[key]

-----------------------------------------------------------------------------
(* The program and the window.                                             *)

GeometryInit ==
  /\ position = Origin /\ size = DefaultSize /\ sizeConfigured = FALSE
  /\ monitor = Nil
  /\ store = [position |-> Nil, size |-> Nil]
  /\ window = Nil /\ opener = "idle"
  /\ poll = "idle" /\ polled = Nil
  /\ setter = "idle" /\ setting = Nil
  /\ saving = [w \in Savers |-> "idle"] /\ taken = [w \in Writers |-> Nil]
  /\ overlapped = FALSE

\* The program ends, at any point, and is started again: New sets the defaults
\* and LoadConfig replaces what the store has.
Start ==
  /\ position' = Stored("position", Origin)
  /\ size' = Stored("size", DefaultSize)
  /\ sizeConfigured' = (store.size # Nil)
  /\ monitor' = Nil /\ window' = Nil /\ opener' = "idle"
  /\ poll' = "idle" /\ polled' = Nil
  /\ setter' = "idle" /\ setting' = Nil
  /\ saving' = [w \in Savers |-> "idle"] /\ taken' = [w \in Writers |-> Nil]
  /\ overlapped' = FALSE
  /\ UNCHANGED store

\* Open starts its goroutine, for the user or for RestartBrowser.
Open ==
  /\ window = Nil /\ opener = "idle"
  /\ opener' = IF sizeConfigured THEN "launch" ELSE "detect"
  /\ setter' = IF setter \in {"close", "reopen"} THEN "opening" ELSE setter
  /\ UNCHANGED <<fields, monitor, store, window, polling, setting, saves>>

\* DetectMonitorSize keeps what it has when it finds no display.
Detected == {monitor, MonitorSize}

\* The opener, when no size is configured.
StartWithDetectedSize ==
  /\ opener = "detect"
  /\ opener' = "launch"
  /\ monitor' \in Detected
  /\ size' = IF sizeConfigured \/ monitor' = Nil THEN size ELSE monitor'
  /\ UNCHANGED <<position, sizeConfigured, store, window, polling, configuring, saves>>

\* Chrome is started with --window-position and --window-size.
LaunchWindow ==
  /\ opener = "launch"
  /\ opener' = "idle"
  /\ window' = [position |-> position, size |-> size]
  /\ setter' = IF setter = "opening" THEN "idle" ELSE setter
  /\ UNCHANGED <<fields, monitor, store, polling, setting, saves>>

\* The user, or the window manager, moves or resizes the window.
MoveWindow ==
  /\ window # Nil
  /\ window' \in Bounds \ {window}
  /\ UNCHANGED <<fields, monitor, store, opener, polling, configuring, saves>>

\* CloseBrowser, for the user or for RestartBrowser.
CloseBrowser ==
  /\ window # Nil
  /\ window' = Nil
  /\ setter' = IF setter = "close" THEN "reopen" ELSE setter
  /\ UNCHANGED <<fields, monitor, store, opener, polling, setting, saves>>

-----------------------------------------------------------------------------
(* Who stores.                                                             *)

\* The poll has a key to set; so has a writer that is in SaveConfig.
Storing(w) ==
  IF w = "poll" THEN poll \in {"storePosition", "storeSize", "again", "storeAgain"}
                ELSE saving[w] # "idle"

\* Writer w begins to store.
BeginsToStore(w) ==
  overlapped' = (overlapped \/ \E other \in Writers \ {w} : Storing(other))

\* A writer sets a key to what it has read.
Set(key, w) ==
  /\ store' = [store EXCEPT ![key] = taken[w]]
  /\ taken' = [taken EXCEPT ![w] = Nil]

-----------------------------------------------------------------------------
(* The goroutine that polls the window every two seconds.                  *)

\* checkAndSaveGeometry reads the bounds of the window.
ReadBounds ==
  /\ poll = "idle" /\ window # Nil
  /\ polled' = window /\ poll' = "position"
  /\ UNCHANGED <<fields, monitor, store, window, opener, configuring, saves>>

\* SaveGeometry, the position.
SavePosition ==
  /\ poll = "position"
  /\ IF polled.position # position
     THEN /\ poll' = "storePosition"
          /\ position' = polled.position
          /\ taken' = [taken EXCEPT !["poll"] = polled.position]
          /\ BeginsToStore("poll")
     ELSE poll' = "size" /\ UNCHANGED <<position, taken, overlapped>>
  /\ UNCHANGED <<size, sizeConfigured, monitor, store, window, opener, polled, configuring,
                 saving>>

\* Mutant: The size is taken over but not saved.
SaveSize_Unsaved ==
  /\ poll = "size" /\ poll' = "idle" /\ polled' = Nil
  /\ size' = polled.size
  /\ sizeConfigured' = (sizeConfigured \/ polled.size # size)
  /\ UNCHANGED <<position, store, monitor, window, opener, configuring, saves>>

\* SaveGeometry, the size.
SaveSize ==
  /\ poll = "size" /\ polled' = Nil
  /\ IF polled.size # size
     THEN /\ poll' = "storeSize"
          /\ size' = polled.size /\ sizeConfigured' = TRUE
          /\ taken' = [taken EXCEPT !["poll"] = polled.size]
          /\ BeginsToStore("poll")
     ELSE /\ poll' = "idle"
          /\ UNCHANGED <<size, sizeConfigured, taken, overlapped>>
  /\ UNCHANGED <<position, monitor, store, window, opener, configuring, saving>>

\* SaveGeometry sets a key: the position, the size, and with the size the position
\* once more, which it reads again.
StoreGeometry ==
  /\ \/ poll = "storePosition" /\ poll' = "size" /\ Set("position", "poll")
     \/ poll = "storeSize" /\ poll' = "again" /\ Set("size", "poll")
     \/ poll = "storeAgain" /\ poll' = "idle" /\ Set("position", "poll")
  /\ UNCHANGED <<fields, monitor, window, opener, polled, configuring, saving, overlapped>>

TakePositionAgain ==
  /\ poll = "again" /\ poll' = "storeAgain"
  /\ taken' = [taken EXCEPT !["poll"] = position]
  /\ UNCHANGED <<fields, monitor, store, window, opener, polled, configuring, saving,
                 overlapped>>

-----------------------------------------------------------------------------
(* The configuration.                                                      *)

\* SaveConfig begins: it reads the position.
SaveConfig(w) ==
  /\ saving[w] = "idle"
  /\ saving' = [saving EXCEPT ![w] = "storePosition"]
  /\ taken' = [taken EXCEPT ![w] = position]
  /\ BeginsToStore(w)

StorePosition(w) ==
  /\ saving[w] = "storePosition"
  /\ saving' = [saving EXCEPT ![w] = "size"]
  /\ Set("position", w)
  /\ UNCHANGED <<fields, monitor, window, opener, polling, configuring, overlapped>>

TakeSize(w) ==
  /\ saving[w] = "size"
  /\ saving' = [saving EXCEPT ![w] = "storeSize"]
  /\ taken' = [taken EXCEPT ![w] = size]
  /\ UNCHANGED <<fields, monitor, store, window, opener, polling, configuring, overlapped>>

\* SaveConfig ends; the change goes on to RestartBrowser.
StoreSize(w) ==
  /\ saving[w] = "storeSize"
  /\ saving' = [saving EXCEPT ![w] = "idle"]
  /\ Set("size", w)
  /\ setter' = IF w = "setter" THEN "close" ELSE setter
  /\ UNCHANGED <<fields, monitor, window, opener, polling, setting, overlapped>>

\* BrowserPositionAndSizeChanged while the browser is open.
ChangePositionAndSize ==
  /\ setter = "idle" /\ window # Nil
  /\ setting' \in Bounds
  /\ setter' = "position"
  /\ UNCHANGED <<fields, monitor, store, window, opener, polling, saves>>

\* SetBrowserPositionAndSize.
SetPosition ==
  /\ setter = "position" /\ setter' = "size"
  /\ position' = setting.position
  /\ UNCHANGED <<size, sizeConfigured, monitor, store, window, opener, polling, setting, saves>>

\* Mutant: The change restarts the browser without saving.
SetSize_Unsaved ==
  /\ setter = "size" /\ setter' = "close"
  /\ size' = setting.size /\ setting' = Nil
  /\ UNCHANGED <<position, sizeConfigured, monitor, store, window, opener, polling, saves>>

SetSize ==
  /\ setter = "size" /\ setter' = "save"
  /\ size' = setting.size /\ setting' = Nil
  /\ UNCHANGED <<position, sizeConfigured, monitor, store, window, opener, polling, saves>>

\* The change saves the configuration, to restart the browser after that: close the
\* window, if it is still open, and open it again.
SaveSetting ==
  /\ setter = "save" /\ setter' = "saving"
  /\ SaveConfig("setter")
  /\ UNCHANGED <<fields, monitor, store, window, opener, polling, setting>>

\* browser_emulate_device saves the configuration with its own setting.
EmulateDevice ==
  /\ SaveConfig("tool")
  /\ UNCHANGED <<fields, monitor, store, window, opener, polling, configuring>>

-----------------------------------------------------------------------------
Browser == StartWithDetectedSize \/ LaunchWindow
Poll == SavePosition \/ SaveSize \/ StoreGeometry \/ TakePositionAgain
Saver(w) == StorePosition(w) \/ TakeSize(w) \/ StoreSize(w)
Setter == SetPosition \/ SetSize \/ SaveSetting
RestartBrowser == setter \in {"close", "reopen"} /\ (CloseBrowser \/ Open)

GeometryNext ==
  \/ Start \/ Open \/ Browser \/ MoveWindow \/ CloseBrowser
  \/ ReadBounds \/ Poll
  \/ ChangePositionAndSize \/ Setter \/ EmulateDevice
  \/ \E w \in Savers : Saver(w)

GeometrySpec == GeometryInit /\ [][GeometryNext]_geometryVars

\* The goroutines that run: the poll, whose ticker ticks; the change of the
\* configuration, which restarts the browser by itself; and the tool.  Nothing is
\* asked of the opener: a window that stays open has been launched.
GeometryFairness ==
  /\ WF_geometryVars(ReadBounds \/ Poll)
  /\ WF_geometryVars(Setter \/ Saver("setter") \/ RestartBrowser)
  /\ WF_geometryVars(Saver("tool"))

GeometryFairSpec == GeometrySpec /\ GeometryFairness

-----------------------------------------------------------------------------
GeometryTypeOK ==
  /\ position \in Positions /\ size \in Sizes /\ sizeConfigured \in BOOLEAN
  /\ monitor \in {Nil, MonitorSize}
  /\ store \in [position : Positions \union {Nil}, size : Sizes \union {Nil}]
  /\ window \in Bounds \union {Nil}
  /\ opener \in {"idle", "detect", "launch"}
  /\ poll \in {"idle", "position", "storePosition", "size", "storeSize", "again", "storeAgain"}
  /\ polled \in Bounds \union {Nil}
  /\ setter \in {"idle", "position", "size", "save", "saving", "close", "reopen", "opening"}
  /\ setting \in Bounds \union {Nil}
  /\ saving \in [Savers -> {"idle", "storePosition", "size", "storeSize"}]
  /\ taken \in [Writers -> Positions \union Sizes \union {Nil}]
  /\ overlapped \in BOOLEAN

\* No key is being set and no change of the configuration is to save its own.
AtRest ==
  /\ setter \notin {"size", "save"}
  /\ \A w \in Writers : ~Storing(w)

\* The store has the position and, once one is configured, the size of the fields.
Agree ==
  /\ Stored("position", Origin) = position
  /\ sizeConfigured => store.size = size

\* However the poll, a change of the configuration and the emulation tool interleave,
\* at rest the store has what the fields have, as long as no two of them had keys to
\* set at the same time.  Fields may be written in between at any time.
FieldsAreStored == ~overlapped /\ AtRest => Agree

\* From some point on the window is open, and neither closed nor moved.
StaysOpen == <>[](window # Nil) /\ <>[][FALSE]_window

\* A window that stays open, and where it is, is described by the fields, whatever was
\* written over them by a poll or a change that overlapped; and once a size is
\* configured it is the window the program would open if it ended and were started
\* again, unless two stored at the same time.
ReopensAsLeft ==
  StaysOpen =>
    <>[](/\ [position |-> position, size |-> size] = window
         /\ sizeConfigured /\ ~overlapped =>
              window = [position |-> Stored("position", Origin), size |-> store.size])

=============================================================================
