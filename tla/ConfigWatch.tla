---------------------------- MODULE ConfigWatch ----------------------------
(***************************************************************************)
(* watchConfigFile of main.go: file events on the configuration file start *)
(* or restart a timer, and the goroutine reloads when the timer's channel  *)
(* delivers.  reloadCh is that channel while the goroutine selects on it,  *)
(* and nil, which never delivers, before the first event and once a reload *)
(* has started.                                                            *)
(***************************************************************************)
EXTENDS Integers

CONSTANT MaxSaves    \* bound on the saves of the configuration

ASSUME ConfigWatchAssumption == MaxSaves \in Nat

VARIABLES
  saved,      \* how often the configuration file was saved
  events,     \* file events that the goroutine has not received yet
  timer,      \* reloadTimer: nil, running, fired (a value is in its channel)
              \* or idle (that value was taken)
  reloadCh,   \* reloadCh # nil
  ctxDone,
  pc,         \* where watchConfigFile is
  loaded,     \* the save that the last reload has read
  quiet       \* history: the timer ran out after the last event received

vars == <<saved, events, timer, reloadCh, ctxDone, pc, loaded, quiet>>

\* One type invariant: every variable has its type.
TypeOK ==
  /\ saved \in 0..MaxSaves /\ events \in 0..MaxSaves /\ loaded \in 0..MaxSaves
  /\ timer \in {"nil", "running", "fired", "idle"}
  /\ {reloadCh, ctxDone, quiet} \subseteq BOOLEAN
  /\ pc \in {"select", "reloading", "returned"}

\* main has loaded the configuration there was; no event has come in.
Init ==
  /\ saved = 0 /\ events = 0 /\ loaded = 0
  /\ timer = "nil"
  /\ reloadCh = FALSE /\ ctxDone = FALSE /\ quiet = FALSE
  /\ pc = "select"

-----------------------------------------------------------------------------
\* The user saves the configuration; fsnotify reports it.
Save ==
  /\ saved < MaxSaves
  /\ saved' = saved + 1 /\ events' = events + 1
  /\ UNCHANGED <<timer, reloadCh, ctxDone, pc, loaded, quiet>>

\* 300ms are over.
Expire ==
  /\ timer = "running" /\ pc # "returned"
  /\ timer' = "fired" /\ quiet' = TRUE
  /\ UNCHANGED <<saved, events, reloadCh, ctxDone, pc, loaded>>

Cancel ==
  /\ ~ctxDone
  /\ ctxDone' = TRUE
  /\ UNCHANGED <<saved, events, timer, reloadCh, pc, loaded, quiet>>

-----------------------------------------------------------------------------
(* watchConfigFile.                                                        *)

TimerStopped == "stopped"    \* mutant: stopped and not started again
TimerKeepsValue == IF timer = "fired" THEN "fired" ELSE "running"  \* mutant: not drained
TimerRestarted == "running"

NeverListens == reloadCh                \* mutant: the channel is not remembered
ListensOnce == reloadCh \/ timer = "nil"

\* scheduleReload: the first event creates the timer and reloadCh; later ones
\* stop it, drain it and start it again, and leave reloadCh as it is.
TakeEvent ==
  /\ pc = "select" /\ events > 0
  /\ events' = events - 1
  /\ timer' = TimerRestarted /\ reloadCh' = ListensOnce /\ quiet' = FALSE
  /\ UNCHANGED <<saved, ctxDone, pc, loaded>>

TakeTimer ==
  /\ pc = "select" /\ reloadCh /\ timer = "fired"
  /\ timer' = "idle" /\ reloadCh' = FALSE
  /\ pc' = "reloading"
  /\ UNCHANGED <<saved, events, ctxDone, loaded, quiet>>

\* reloadConfig (Runtime has what it does) reads the file as it is by then.
Reload ==
  /\ pc = "reloading"
  /\ loaded' = saved
  /\ pc' = "select"
  /\ UNCHANGED <<saved, events, timer, reloadCh, ctxDone, quiet>>

Return ==
  /\ pc = "select" /\ ctxDone
  /\ pc' = "returned"
  /\ UNCHANGED <<saved, events, timer, reloadCh, ctxDone, loaded, quiet>>

-----------------------------------------------------------------------------
Next == Save \/ Expire \/ Cancel \/ TakeEvent \/ TakeTimer \/ Reload \/ Return

\* Timers run out, the goroutine runs; nobody has to save or to cancel.
Fairness == WF_vars(Expire) /\ WF_vars(TakeEvent \/ TakeTimer \/ Reload \/ Return)

Spec == Init /\ [][Next]_vars
FairSpec == Spec /\ Fairness

-----------------------------------------------------------------------------
(* Properties.                                                             *)

\* "Debounces fsnotify events": a reload starts when 300ms have gone by since
\* the last event received, never on what an earlier run of the timer left.
Debounced == [][pc = "select" /\ pc' = "reloading" => quiet]_vars

\* The first save is followed by a reload, however many saves come after it.
FirstSaveLoaded == saved > 0 ~> (loaded > 0 \/ ctxDone)

\* "calls reload 300ms after the last one, until ctx is done or the watcher
\* closes": whatever is saved is loaded in the end.
EverySaveLoaded ==
  \A n \in 1..MaxSaves : saved >= n ~> (loaded >= n \/ ctxDone)
=============================================================================
