------------------------------ MODULE Runtime ------------------------------
(***************************************************************************)
(* runtimeState of main.go and the goroutines that share it: the daemon    *)
(* loop that executes rules (Process), the tray connections that toggle    *)
(* dry-run (handleCommand -> SetDryRun), the configuration reloader        *)
(* (reloadConfig -> SwapEngine) and main, which closes the SSH pools on    *)
(* the way out (Close).                                                    *)
(*                                                                         *)
(* runtimeState.mu is Go's RWMutex: Lock announces the writer, which from  *)
(* then on keeps new readers out, and waits for the readers already in;    *)
(* Unlock admits the readers that were kept waiting.                       *)
(***************************************************************************)
EXTENDS Integers

CONSTANTS
  Handlers,          \* tray connections: one handleClient goroutine each
  Reloader, Main,    \* the reload goroutine and the main goroutine
  NoOne,             \* nobody holds or awaits the write lock
  MaxReloads         \* bound on the reloads that are started

ASSUME RuntimeAssumption ==
  /\ MaxReloads \in Nat
  /\ Reloader \notin Handlers /\ Main \notin Handlers /\ NoOne \notin Handlers
  /\ Reloader # Main /\ Reloader # NoOne /\ Main # NoOne

VARIABLES
  ctxDone,   \* the signal context is cancelled
  writer,    \* who announced itself in mu.Lock, until it unlocks
  rtDry,     \* runtimeState.dryRun
  engine,    \* *runtimeState.engine: which load built it, its own flag, its pool
  pools,     \* where the SSH pool of each load is
  uiDry,     \* SocketUI.st.DryRun, what the tray shows
  toggle,    \* per connection: where it is in handleCommand("toggle_dry_run")
  reload,    \* where the reload goroutine is, and what it has in hand
  proc,      \* where the daemon goroutine is in runtimeState.Process
  mainpc     \* where main is

vars == <<ctxDone, writer, rtDry, engine, pools, uiDry, toggle, reload, proc,
          mainpc>>

-----------------------------------------------------------------------------
Loads == 0..MaxReloads        \* load 0 is the one main does before it starts
PoolState == {"none", "local", "registered", "closed"}
ToggleState == [pc : {"idle", "command", "flipped", "locking"},
                enabled : BOOLEAN]
ReloadState == [pc : {"idle", "loading", "built", "locking", "swapped"},
                load : Loads, dry : BOOLEAN]
ProcState == [pc : {"out", "blocked", "entered", "deciding", "acting"},
              load : Loads, dry : BOOLEAN]

\* One type invariant: every variable has its type.
TypeOK ==
  /\ ctxDone \in BOOLEAN
  /\ writer \in Handlers \cup {Reloader, Main, NoOne}
  /\ rtDry \in BOOLEAN
  /\ engine \in [load : Loads, dry : BOOLEAN, pool : BOOLEAN]
  /\ pools \in [Loads -> PoolState]
  /\ uiDry \in BOOLEAN
  /\ toggle \in [Handlers -> ToggleState]
  /\ reload \in ReloadState
  /\ proc \in ProcState
  /\ mainpc \in {"serving", "cleanup", "closing", "closed", "exited"}

\* What a goroutine has in hand is cleared when it is done with it.
Idle == [pc |-> "idle", enabled |-> FALSE]
Out == [pc |-> "out", load |-> 0, dry |-> FALSE]

\* main's set-up: one engine, built with the flag the runtime and the UI get.
Init ==
  /\ ctxDone = FALSE
  /\ writer = NoOne
  /\ rtDry \in BOOLEAN
  /\ \E p \in BOOLEAN :
       /\ engine = [load |-> 0, dry |-> rtDry, pool |-> p]
       /\ pools = [l \in Loads |-> IF l = 0 /\ p THEN "registered" ELSE "none"]
  /\ uiDry = rtDry
  /\ toggle = [h \in Handlers |-> Idle]
  /\ reload = [pc |-> "idle", load |-> 0, dry |-> FALSE]
  /\ proc = Out
  /\ mainpc = "serving"

Alive == mainpc # "exited"    \* main's return ends every goroutine

-----------------------------------------------------------------------------
(* The read-write lock.                                                    *)

ReaderIn == proc.pc \in {"entered", "deciding", "acting"}
Admitted(p) == IF p.pc = "blocked" THEN [p EXCEPT !.pc = "entered"] ELSE p

Announce(g) == writer = NoOne /\ writer' = g
LockIgnoringReaders(g) == writer = g    \* mutant: a writer does not wait
HoldsLock(g) == writer = g /\ ~ReaderIn
UnlockWithoutHandOver == writer' = NoOne /\ UNCHANGED proc    \* mutant
UnlockForgotten == UNCHANGED <<writer, proc>>                  \* mutant
Unlock == writer' = NoOne /\ proc' = Admitted(proc)

-----------------------------------------------------------------------------
(* A tray connection toggles dry-run.                                      *)

\* handleClient: a line arrives; a cancelled context ends the connection.
Command(h) ==
  /\ Alive /\ toggle[h].pc = "idle"
  /\ ~ctxDone
  /\ toggle' = [toggle EXCEPT ![h].pc = "command"]
  /\ UNCHANGED <<ctxDone, writer, rtDry, engine, pools, uiDry, reload, proc, mainpc>>

FlippedLate == uiDry       \* mutant: the value from before the flip
Flipped == ~uiDry

\* handleCommand under SocketUI.mu: flip what is shown and keep the value for
\* the callback, which runs after the broadcast, with SocketUI.mu released.
Flip(h) ==
  /\ Alive /\ toggle[h].pc = "command"
  /\ uiDry' = ~uiDry
  /\ toggle' = [toggle EXCEPT ![h] = [pc |-> "flipped", enabled |-> Flipped]]
  /\ UNCHANGED <<ctxDone, writer, rtDry, engine, pools, reload, proc, mainpc>>

SetDryRunLock(h) ==
  /\ Alive /\ toggle[h].pc = "flipped"
  /\ Announce(h)
  /\ toggle' = [toggle EXCEPT ![h].pc = "locking"]
  /\ UNCHANGED <<ctxDone, rtDry, engine, pools, uiDry, reload, proc, mainpc>>

EngineNotTold(dry) == engine     \* mutant: only the runtime's flag is set
EngineInMode(dry) == [engine EXCEPT !.dry = dry]

SetDryRun(h) ==
  /\ Alive /\ toggle[h].pc = "locking"
  /\ HoldsLock(h)
  /\ rtDry' = toggle[h].enabled
  /\ engine' = EngineInMode(toggle[h].enabled)
  /\ toggle' = [toggle EXCEPT ![h] = Idle]
  /\ Unlock
  /\ UNCHANGED <<ctxDone, pools, uiDry, reload, mainpc>>

-----------------------------------------------------------------------------
(* The configuration is reloaded.                                          *)

ReloadStart ==
  /\ Alive /\ reload.pc = "idle" /\ reload.load < MaxReloads
  /\ reload' = [reload EXCEPT !.pc = "loading", !.load = @ + 1]
  /\ UNCHANGED <<ctxDone, writer, rtDry, engine, pools, uiDry, toggle, proc, mainpc>>

\* config.Load fails: nothing was created.
ReloadLoadFails ==
  /\ Alive /\ reload.pc = "loading"
  /\ reload' = [reload EXCEPT !.pc = "idle", !.dry = FALSE]
  /\ UNCHANGED <<ctxDone, writer, rtDry, engine, pools, uiDry, toggle, proc, mainpc>>

\* newSSH, then runtime.DryRun() evaluated for NewEngine: a read lock taken
\* and released, long before SwapEngine takes the write lock.
ReloadBuild(hasPool) ==
  /\ Alive /\ reload.pc = "loading"
  /\ writer = NoOne
  /\ reload' = [reload EXCEPT !.pc = "built", !.dry = rtDry]
  /\ pools' = IF hasPool THEN [pools EXCEPT ![reload.load] = "local"] ELSE pools
  /\ UNCHANGED <<ctxDone, writer, rtDry, engine, uiDry, toggle, proc, mainpc>>

\* NewEngine fails (a regex, an action): the new pool is closed.
ReloadBuildFails ==
  /\ Alive /\ reload.pc = "built"
  /\ reload' = [reload EXCEPT !.pc = "idle", !.dry = FALSE]
  /\ pools' = [pools EXCEPT ![reload.load] = IF @ = "local" THEN "closed" ELSE @]
  /\ UNCHANGED <<ctxDone, writer, rtDry, engine, uiDry, toggle, proc, mainpc>>

SwapEngineLock ==
  /\ Alive /\ reload.pc = "built"
  /\ Announce(Reloader)
  /\ reload' = [reload EXCEPT !.pc = "locking"]
  /\ UNCHANGED <<ctxDone, rtDry, engine, pools, uiDry, toggle, proc, mainpc>>

NotRegistered(l) == pools        \* mutant: not appended to sshPools
Registered(l) == [pools EXCEPT ![l] = IF @ = "local" THEN "registered" ELSE @]

\* The pool of the engine that is replaced stays in sshPools.
SwapEngine ==
  /\ Alive /\ reload.pc = "locking"
  /\ HoldsLock(Reloader)
  /\ engine' = [load |-> reload.load, dry |-> reload.dry,
                pool |-> pools[reload.load] = "local"]
  /\ pools' = Registered(reload.load)
  /\ reload' = [reload EXCEPT !.pc = "swapped"]
  /\ Unlock
  /\ UNCHANGED <<ctxDone, rtDry, uiDry, toggle, mainpc>>

\* tracker.Reset, SetRules and the notification: outside runtimeState.mu.
ReloadFinish ==
  /\ Alive /\ reload.pc = "swapped"
  /\ reload' = [reload EXCEPT !.pc = "idle", !.dry = FALSE]
  /\ UNCHANGED <<ctxDone, writer, rtDry, engine, pools, uiDry, toggle, proc, mainpc>>

-----------------------------------------------------------------------------
(* The daemon goroutine executes the rules on one file.                    *)

ProcessCall ==
  /\ Alive /\ proc.pc = "out"
  /\ proc' = [proc EXCEPT !.pc = IF writer = NoOne THEN "entered" ELSE "blocked"]
  /\ UNCHANGED <<ctxDone, writer, rtDry, engine, pools, uiDry, toggle, reload, mainpc>>

ProcessReturn ==
  /\ proc' = Out
  /\ UNCHANGED <<ctxDone, writer, rtDry, engine, pools, uiDry, toggle, reload, mainpc>>

\* Engine.Process: the file cannot be stat'ed any more.
StatFails == Alive /\ proc.pc = "entered" /\ ProcessReturn

\* Engine.Process: one copy of the engine's flag serves the whole call.
Snapshot ==
  /\ Alive /\ proc.pc = "entered"
  /\ proc' = [pc |-> "deciding", load |-> engine.load, dry |-> engine.dry]
  /\ UNCHANGED <<ctxDone, writer, rtDry, engine, pools, uiDry, toggle, reload, mainpc>>

\* The loop over the rules ends without an action: the context is cancelled,
\* no rule with actions matches, or the matching rule is only described.
NoAction == Alive /\ proc.pc = "deciding" /\ ProcessReturn

MayActInDryRun == ~ctxDone           \* mutant: the flag is not looked at
MayAct == ~ctxDone /\ ~proc.dry

\* The context was checked before a rule that matches: its actions run.
StartActions ==
  /\ Alive /\ proc.pc = "deciding"
  /\ MayAct
  /\ proc' = [proc EXCEPT !.pc = "acting"]
  /\ UNCHANGED <<ctxDone, writer, rtDry, engine, pools, uiDry, toggle, reload, mainpc>>

\* Actions and hooks are through, whether they succeeded or not.
EndActions == Alive /\ proc.pc = "acting" /\ ProcessReturn

-----------------------------------------------------------------------------
(* Shutdown.                                                               *)

\* SIGINT, SIGTERM or "quit" from the tray.
Cancel ==
  /\ Alive /\ ~ctxDone
  /\ ctxDone' = TRUE
  /\ UNCHANGED <<writer, rtDry, engine, pools, uiDry, toggle, reload, proc, mainpc>>

\* SocketUI.Run: <-ctx.Done(), then cleanup of the socket.
StopServing ==
  /\ mainpc = "serving" /\ ctxDone
  /\ mainpc' = "cleanup"
  /\ UNCHANGED <<ctxDone, writer, rtDry, engine, pools, uiDry, toggle, reload, proc>>

CloseLock ==
  /\ mainpc = "cleanup"
  /\ Announce(Main)
  /\ mainpc' = "closing"
  /\ UNCHANGED <<ctxDone, rtDry, engine, pools, uiDry, toggle, reload, proc>>

SlicePools == [l \in {} |-> "closed"]    \* mutant: forgets every pool
ClosedPools ==
  [l \in Loads |-> IF pools[l] = "registered" THEN "closed" ELSE pools[l]]

Close ==
  /\ mainpc = "closing"
  /\ HoldsLock(Main)
  /\ pools' = ClosedPools
  /\ mainpc' = "closed"
  /\ Unlock
  /\ UNCHANGED <<ctxDone, rtDry, engine, uiDry, toggle, reload>>

Exit ==
  /\ mainpc = "closed"
  /\ mainpc' = "exited"
  /\ UNCHANGED <<ctxDone, writer, rtDry, engine, pools, uiDry, toggle, reload, proc>>

-----------------------------------------------------------------------------
HandlerStep(h) == Command(h) \/ Flip(h) \/ SetDryRunLock(h) \/ SetDryRun(h)

ReloaderStep ==
  \/ ReloadStart \/ ReloadLoadFails \/ ReloadBuildFails
  \/ \E hasPool \in BOOLEAN : ReloadBuild(hasPool)
  \/ SwapEngineLock \/ SwapEngine \/ ReloadFinish

ProcessStep ==
  ProcessCall \/ StatFails \/ Snapshot \/ NoAction \/ StartActions \/ EndActions

MainStep == StopServing \/ CloseLock \/ Close \/ Exit

Next ==
  \/ \E h \in Handlers : HandlerStep(h)
  \/ ReloaderStep
  \/ ProcessStep
  \/ Cancel
  \/ MainStep

\* A goroutine that can take a step takes one: for Process this needs actions
\* that end, which is the environment's part.  Nothing makes a tray send a
\* command, an editor save the configuration or the daemon find a file.
\* Go's Mutex is handed over to a waiter in the end and RWMutex lets waiting
\* readers in before the next writer, hence strong fairness for the steps that
\* need a lock somebody else may take first.
Fairness ==
  /\ \A h \in Handlers :
       /\ WF_vars(Flip(h) \/ SetDryRun(h))
       /\ SF_vars(SetDryRunLock(h))
  /\ WF_vars(SwapEngine \/ ReloadFinish)
  /\ SF_vars(SwapEngineLock \/ \E hasPool \in BOOLEAN : ReloadBuild(hasPool))
  /\ WF_vars(StatFails \/ Snapshot \/ NoAction \/ StartActions \/ EndActions)
  /\ WF_vars(StopServing \/ Close \/ Exit)
  /\ SF_vars(CloseLock)

Spec == Init /\ [][Next]_vars
FairSpec == Spec /\ Fairness

-----------------------------------------------------------------------------
(* Properties.                                                             *)

\* Each writer that announced itself is exactly where it asked for the lock,
\* and a reader is kept waiting only while some writer will admit it: no
\* goroutine waits in runtimeState.mu for somebody who is not there.
LockConsistent ==
  /\ \A h \in Handlers : writer = h <=> toggle[h].pc = "locking"
  /\ writer = Reloader <=> reload.pc = "locking"
  /\ writer = Main <=> mainpc = "closing"
  /\ proc.pc = "blocked" => writer # NoOne

\* From the copy of the flag to the last action, Engine.Process works with the
\* engine that is installed and with the flag that engine has now.
ProcessSeesOneEngine ==
  /\ proc.pc \in {"deciding", "acting"} =>
        proc.load = engine.load /\ proc.dry = engine.dry
  /\ proc.pc = "acting" => ~proc.dry

\* runtimeState.Close comes after the cancelled context was seen and waits for
\* the file in hand: no action runs when the pools are closed or main returns.
NothingActsAfterClose ==
  /\ mainpc # "serving" => ctxDone
  /\ mainpc \in {"closed", "exited"} => proc.pc # "acting"

\* "Log actions without executing them" (main.go, --dry-run) and the tray's
\* toggle: while actions run, the runtime is not in dry-run mode.
DryRunHonoured == proc.pc = "acting" => ~rtDry

\* The same for the engine main built: it is in the runtime's mode always.
DryRunHonouredUntilReload ==
  /\ engine.load = 0 => engine.dry = rtDry
  /\ proc.load = 0 => (proc.pc = "acting" => ~rtDry)

\* The pool an action may use is one runtimeState will close, and has not.
PoolsOutliveActions ==
  proc.pc = "acting" /\ engine.pool => pools[proc.load] = "registered"

\* With no toggle under way the tray shows the mode the runtime is in.
UIAgreesWhenQuiet ==
  (\A h \in Handlers : toggle[h].pc \in {"idle", "command"}) => uiDry = rtDry

\* runtimeState keeps the promise of ActionGate.
Gate == INSTANCE ActionGate WITH
          RuleSets <- Loads,
          rules <- engine.load,
          dry <- engine.dry,
          acting <- (proc.pc = "acting"),
          shut <- (mainpc \in {"closed", "exited"})
ImplementsGate == Gate!Spec

\* A cancelled context ends the program, whatever toggles and reloads are
\* queueing for the lock, provided actions end.
ShutdownCompletes == ctxDone ~> mainpc = "exited"

\* A toggle the tray was shown is handed to the engine: SetDryRun returns.
ToggleReturns ==
  \A h \in Handlers :
    toggle[h].pc = "flipped" ~> (toggle[h].pc = "idle" \/ ~Alive)

\* A file handed to Process is not kept waiting by a stream of toggles.
ProcessReturns == proc.pc = "blocked" ~> (proc.pc = "out" \/ ~Alive)
=============================================================================
