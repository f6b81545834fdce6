# avella in TLA+

avella is a file automation daemon: it watches directories, waits until new
files stop growing, evaluates a list of rules on each file and executes the
actions of the first rule that matches (move, upload, run a command, ...). A
menu bar application, the tray, shows what it does over a unix socket and can
switch dry-run mode. The configuration is reloaded when its file changes.

The individual functions are short and well covered by unit tests. What the
tests hardly reach is how six kinds of goroutine interleave, and what is left
behind when one step of several fails: that is what the modules here are about.

## The system's parts

| part | source | state | operations | talks to |
|---|---|---|---|---|
| runtime state | `main.go` 40-105 | engine, dry-run flag, list of SSH pools, one `RWMutex` | `Process`, `ShouldIgnore`, `DryRun`, `SetDryRun`, `SwapEngine`, `Close` | everything below, through the lock |
| daemon loop and tracker | `main.go` 207-308, `sweep.go` | what was processed: path -> fingerprint, dry-run | deliveries, start-up and periodic sweep, `ShouldProcess`, `MarkProcessed`, `Prune`, `Reset` | runtime state, watcher (channel), UI |
| configuration reload | `main.go` 310-428 | timer and its channel | debounce, `reloadConfig` | runtime state, tracker, UI |
| watcher, stabilizer | `watcher/`, `stabilizer/` | pending paths, one goroutine each | Create events, `WaitStable`, offer on a channel | daemon loop; `ShouldIgnore` |
| socket UI | `ui/socket.go` | shown state, connections | `SetStatus`, `IncProcessed`, `AddRecentFile`, `SetRules`, toggle, quit, greeting, broadcasts, cleanup | daemon loop, trays, runtime state (toggle callback), main (cancel) |
| rule engine | `rules/` | compiled rules, its own dry-run flag | `Process`, `ShouldIgnore`, `SetDryRun` | actions |
| actions | `actions/`, `template/` | none (files, remote files) | move, scp, exec, notify, validate_zip | file system, SSH pool |
| SSH pool | `ssh/pool.go` | cached connections, agent connections | `SFTP`, `Close` | network |
| configuration | `config/` | none | `Load`, `Validate`, `expandPaths` | main, reload |
| tray | `tray/` (Swift) | connection, line buffer, backoff, last state, notifications | connect, receive, send, reconnect | socket UI |

What makes each part correct:

* **runtime state** - actions run in the mode and with the engine in force;
  neither is replaced under them; after shutdown nothing acts and no pool is
  used closed; every waiter for the lock gets it.
* **daemon loop** - what succeeded is not repeated, what did not is taken up
  again, a change is never mistaken for what was processed before.
* **reload** - saves are debounced and the last one is loaded; the tracker
  belongs to the engine that is installed.
* **watcher** - one goroutine per path, a path is offered only when stable,
  cancelling ends everything and closes the channel once.
* **socket UI** - every registered connection is sent every change or dropped;
  dead connections go; a slow tray holds nobody up.
* **configuration** - what is accepted can be built and run.
* **rules** - the first match is executed, and of it what is configured, once
  and in order, whatever fails.
* **actions** - a file is taken away only when all of it is elsewhere; success
  means delivered; a cancelled context ends them.
* **SSH pool** - only known hosts, dead connections replaced, nothing open at
  the end.
* **tray** - not modelled, see the plan.

The hard behaviours are listed one by one, at their lines, under `hazards` in
`PROJECT.json`, with the properties that catch them or the reason why none does.

## The modules

| module | models | properties |
|---|---|---|
| `ActionGate` | the abstract promise: actions of one file at a time, in the mode and for the rule set in force, none after the gate is shut | the target of `ImplementsGate` |
| `Runtime` | `runtimeState` with its lock and the goroutines that take it: tray toggles, reload, `Process`, shutdown | see the runs |
| `StableFeed` | the abstract promise of the watcher: what is noticed is waited for once, handed over at most once for that and only to a daemon that receives; closed for good when nobody is left | the target of `ImplementsFeed` |
| `Announcements` | the abstract promise to the trays: who is registered is sent every announcement once or dropped, who joins is greeted with the state there is then, who was dropped may be sent what was announced before, and nothing that is announced afterwards | the target of `ImplementsAnnouncements` |
| `EngineCall` | a call of `Engine.Process` as its callers rely on it: one look at the file, one mode, no start once the context is done, nothing taken but its own file and only while it acts | the target of `ImplementsCall`, in `RuleEngine` and in `Daemon` |
| `Daemon` | the daemon goroutine and the tracker; `R == INSTANCE Runtime` gives it the lock, the reload, the toggles | |
| `ConfigWatch` | `watchConfigFile` | |
| `Watcher` | `watcher.go` and `stabilizer.go` | |
| `SocketUI` | `ui/socket.go` without the life of the socket file | |
| `Config` | `config.go`: `Validate`, `expandPaths`, `TypeName`; how the engine compiles and matches a rule | operators only |
| `SshPool` | `ssh/pool.go` | |
| `RuleEngine` | from `Load` to the files: `Engine.Process`, the actions, with `Config` and (`P == INSTANCE SshPool`) the pool | |
| `MCDaemon`, `MCWatcher`, `MCRuleEngine` | constants for TLC | |
| `RuntimeProofs`, `DaemonProofs`, `ConfigWatchProofs`, `WatcherProofs`, `SocketUIProofs`, `RuleEngineProofs`, `RuleOrderProofs` | proofs about the module of that name; the last one about `RuleEngine` too | |

`Runtime` and `Daemon` see of a rule whether it matches and of an action that it
begins and ends; `RuleEngine` is the inside of that call, for one file, one
engine and one context, and takes the lock around it for granted (`Runtime` has it).
The two meet in `EngineCall`: `Daemon` takes the call for that (`DaemonRefinesCall`),
and what `RuleEngine` does between call and return is that (`ProcessRefinesCall`).

`PROJECT.json` maps each definition to the lines it stands for. How the code is
read:

* **The lock** (`Runtime`). Go's `RWMutex`: a writer announces itself
  (`Announce`), which excludes later writers and keeps new readers waiting
  (`ProcessCall` goes to "blocked"), commits when the readers are out
  (`HoldsLock`), and on `Unlock` the readers that waited are in. A read lock
  that is taken and given back at once (`DryRun`, `ShouldIgnore`) is a step that
  needs `writer = NoOne`. The goroutine of `Process` is the one reader that stays in,
  because `Engine.Process` runs the actions under the read lock.
* **Copies.** What the code copies and uses later is a field of the goroutine
  that holds it: the value a toggle passes to its callback, the flag `reloadConfig`
  passes to `NewEngine`, the flag `Engine.Process` reads once, `handlePath`'s
  `FileInfo`, the line and the connections of a broadcast.
* **Set-up.** `Init` of `Runtime` is the moment before `SocketUI.Run`: one
  engine, with or without a pool, all flags equal (`--dry-run` or not).
* **Files** (`Daemon`). A file is there or not and has a version, which is its
  fingerprint (size and modification time). Two contents of one fingerprint are
  one version: the tracker cannot tell them apart by design. `os.Stat`,
  `DryRun()` and `ShouldProcess` are one step (`AskTracker`): the tracker is
  written by this goroutine and by `Reset` only, and `Reset` or a toggle in between
  gives the answers that it gives just before or after the step. `Prune` is one step
  for the same reason. The `os.Stat` of `Engine.Process` is a later step, and the file
  may change in between: the history `done` has, for every success, both the version
  that `handlePath` saw, which is recorded, and the one the engine saw and acted on.
  Actions succeed or fail, with the file left or gone.
* **Pools** do not matter to `Daemon`: it starts without one.
* **Time** is left out: timers expire at any moment, "15 minutes" is a tick
  whenever the loop selects, a file ages when it does.
* **Watcher**: `IgnoreFunc` and `ShouldSkip` are the constant `Rejected`; a
  file's contents are its size. `consumer` is the daemon, receiving or busy.
* **SocketUI**: the state is a version number, lines are `hello` or a state of a
  version, the socket buffers hold `Room` lines. `mu` is never held across a
  wait, so each critical section is one step; the two sections of
  `broadcastLocked` and the writes between them are separate steps of each
  goroutine. So are, where `handleClient` ends or a greeting fails, the removal from
  the set (`HandlerEnds`, `GreetingFails`) and the `Close` after `mu` is released
  (`CloseDropped`): a broadcast with an older list can write to the connection in between.
  A handler ends when its connection does, or at any time on a line that is too
  long for its scanner. The write deadline is a field of the connection, as in package
  `net`. The callback after a toggle's broadcast is in `Runtime`.

* **Configurations** (`Config`). A regular expression or a glob is the set of
  names it matches, with a flag for the one that does not compile. Durations and
  sizes are numbers, negative durations and future modification times included.
  A text with a template is "plain", "file" (needs the file's
  data, hence its `os.Stat`) or "bad" (does not parse). An action is the *set* of the
  types it has fields for: nothing checks that there is one only, and `TypeName`
  (what a tray shows) and `FromConfig` (what runs) choose in different orders, so
  both are definitions here. `expandPaths` is a flag "home" that it sets on a rule's
  actions and, as in the code, not on the hooks'.
* **One file** (`RuleEngine`). Its contents are its size: other programs make it grow,
  and create it when it is gone. `copies` says how much of it is at each
  destination, or `Partial` for one that was truncated and not filled. `move` is
  `Rename`, or open, copy and remove; `scp` is a session of the pool, create, upload,
  flush, compare, remove and the deferred close, with the goroutine that closes the
  session when the context is cancelled (`CancelUpload`). Any of these steps may
  fail. `exec`, `notify` and `validate_zip` are one step each.
* **Pool** (`SshPool`). `getConn` is check, dial, handshake; a connection may die
  at any moment. `Pool.mu` is held from one end to the other, and one file is
  processed at a time, so it has one caller.

Names with the comment "mutant" are deliberately wrong variants of the
definition that follows them. They are used by no specification; `PROJECT.json`
names, for each property, the variant that violates it.

## What TLC checks

`CHECK_DEADLOCK FALSE` is set throughout: the program is meant to end.

| run | configuration | shows |
|---|---|---|
| `runtime` | 1 tray, 2 reloads | `ProcessSeesOneEngine`, `PoolsOutliveActions`, `DryRunHonouredUntilReload`, `UIAgreesWhenQuiet`; `ImplementsGate`; `ShutdownCompletes`, `ToggleReturns`, `ProcessReturns` |
| `daemon` | a changing file with `min_age`, a `.part` file, 1 tray | `OnlyMisrecordedRepeats`, `RecordsOnlyWhatWasSeen`, `EveryFileAttended` |
| `daemon_reload` | a changing file, one with `min_age` that the reloaded configuration ignores, 1 reload | `OnlyMisrecordedRepeatsUntilReload`, `AtMostOneStaleRecord`, `EveryFileAttended` |
| `config_watch` | 3 saves | `Debounced`, `FirstSaveLoaded` |
| `watcher` | 3 paths, 2 checks, 3 changes | `OneWorkerPerPath`, `OfferedAfterQuiet`, `ImplementsFeed`, `CancelCloses`, `WaitEnds` |
| `socket` | 1 connection, 3 changes | `NobodyMissesAChange`, `RegisteredAreServed`, `ImplementsAnnouncements`, `BroadcastReturns`, `LeaversDropped` |
| `rules` | 15 configurations, 6 files | `FirstMatchWins`, `RunsAsConfigured`, `NothingDeletedUncopied`, `SuccessMeansDelivered`, `AcceptedConfigWorks`, `NothingLeftOpen`, `ImplementsCall`, `CancelEndsProcess` |

Five runs show that the code does not do what it says:

| run | what the documents say | what happens |
|---|---|---|
| `runtime_dry_run` | `main.go:35`: "Log actions without executing them." | `reloadConfig` passes `runtime.DryRun()` to `NewEngine` and swaps later. A toggle in between sets the old engine's flag; the new engine goes live with the old value and executes actions in dry-run mode. |
| `runtime_toggles` | `README.md:61`: the tray "shows live status" with a dry-run toggle | Two trays toggle at once. The flips are ordered by `SocketUI.mu`, the callbacks are not: the runtime ends up in the mode the trays do not show. With one connection the run `runtime` shows that this cannot happen (a tray that reconnects may have two for a moment). |
| `daemon_repeat` | `sweep.go:38`: "Files already processed successfully are skipped until they change." | A file processed between `SwapEngine` and `tracker.Reset` loses its record and is executed again by the same engine. No file changes in this run: a change between the two stats, next paragraph, has the same effect. |
| `config_watch_once` | `main.go:332`: "calls reload 300ms after the last one, until ctx is done" | `reloadCh` is nil after the first reload, and stays so: the configuration is reloaded once in the life of the daemon. |
| `socket_slow` | `socket.go:303`: "so slow clients cannot block state mutations" | A broadcast that is done with a connection clears the deadline that another goroutine, by then in `Write`, relies on. If that is the daemon goroutine, it stops processing files until the tray reads, leaves or is sent something else. |

`NoRepeat` fails for another reason as well: `handlePath` stats the file (`main.go:234`) and
records that, but the engine acts on what its own `os.Stat` finds (`rules/engine.go:160`). If the file
changes in between, the new version is executed, the old one recorded, and the next
sweep executes the new one again, without any reload. The runs `daemon` and `daemon_reload` have
such changes, so they check what is true: `OnlyMisrecordedRepeats`, that a success is
repeated only if the first time its record was of the version before, and that the
repetition is recorded as what it is, so that there is one only. `daemon_repeat` leaves
changes out, to show the other cause.

`TypeOK` is an invariant of each of the first kind of run but `daemon_reload`.
Three invariants that the refinements imply are not checked again by TLC, but
proved as theorems of their own: `LockConsistent`, `NothingActsAfterClose`
(`Runtime`, with `ImplementsGate`) and `NobodyLeftWhenClosed` (`Watcher`, with
`ImplementsFeed`).

While the models were written some more came up that are no property of a run:

* `config.go:58`: "Only one field should be set per action." Nothing checks it.
  With `exec` and `scp` both set the tray shows `scp` and `exec` runs.
* `config.yaml.example:33` asks for "at least one action" per rule. Nothing
  checks it: a rule without actions is passed over, and its hooks never run.
* `README.md:36`, the example's `notify` after a `move`, cannot work: the text has a
  placeholder, the hook is given the path from before the move, and `NewFileData`
  stats it. The hook fails and is logged.
* `expandPaths` skips hooks: a `move` to `~/x` in a hook goes to a directory named `~`.
  `ExpandHome("~user/x")` is the home directory joined with `ser/x`.
* A negative `min_age` is accepted (`config.go:229`). Then no age is checked at all, a
  `min_age_seconds` beside it included, though `match.go:16` says that `min_age` overrides
  it "when > 0": the engine's value is compared with zero for equality. `FirstMatchWins` takes
  such a `min_age` for no criterion.
* `scheduleReload`'s drain of the timer's channel is redundant with the Go version of
  `go.mod`, whose `Stop` and `Reset` discard a stale value; what `Debounced` needs is that one
  of them does.
* Templates are not parsed when the configuration is loaded.
* A copy across devices or an upload that fails half-way leaves a truncated file
  at the destination; `SuccessMeansDelivered` only says that it is not reported as
  success, and the next sweep writes it again.

### Bounds

* Trays: one shows every property of the lock that concerns writers of two
  kinds; two are needed only for the order of callbacks, and the run that has
  two is the one that finds it. The proofs hold for any number.
* Reloads: load 0 is the engine `main` builds, load 1 replaces it, load 2 replaces
  one that was itself installed by a reload.
* Versions: two per file tell "as recorded" from "changed". Every file can
  also vanish and come back any number of times.
* Watcher: two checks tell a counter that is reset from one that is not; three
  changes are enough for a create, a change and a replacement of one path, or
  one of each for two.
* Sockets: room for one line makes every second write wait. Three changes let
  broadcasts of two goroutines overlap with each other and with a greeting. One
  connection is what liveness can afford without symmetry; connections share
  only the acceptor and the broadcasts, and the safety properties are proved for
  any number.
* Rules: seven configurations combine rules like those of `config.yaml.example` with
  pass-through rules, several actions, hooks, an action with two fields, a negative
  `min_age`, and rules none of which matches; eight
  are those `Load` has to reject (an unknown host in an action and in a hook, no name, no
  such file type, an empty action in a hook, a bad expression, a bad `min_age`, a missing directory).
  `MaxSize = 2` tells a partial
  copy, a whole one and one outgrown by the file apart, and is either side of the
  size bounds in the rules. One host, which dies and is dialled again: `MaxAgents = 2`
  lets a second agent connection accumulate.
* `ConfigWatch`: three saves, one before, one during and one after a reload.

### Fairness

A goroutine that can take a step takes one: weak fairness for the steps that
stay enabled, strong fairness where another goroutine may get in first (a
mutex or `RWMutex` lets waiters in in the end; a `select` picks at random among
the ready cases, so the ticker is not passed over for ever). Timers run out.
The watched directory can be read again and again, if not at
every attempt. Nothing makes the environment act: no tray has to toggle, no editor to save,
no file to arrive. Three assumptions are worth naming. `Runtime` assumes that actions
end and that the broadcast before a toggle's callback returns; the first is up
to the environment (SSH has no timeout, see the hazards), the second is what
`socket` shows for trays that read and `socket_slow` refutes for trays that do
not. `socket` assumes that trays read.

`rules` assumes that Process goes on, that commands that are killed and local
files come to an end (`CombinedOutput` without `WaitDelay` may wait longer, for a child of
the command that keeps the pipe open), and that a *closed* session lets go of what waits in it.
It does not assume that `getConn` returns, which has no timeout, nor that an upload
over an open session makes progress: `CancelEndsProcess` must hold without.

## What is proved

All of it for every value of the constants, from the assumptions the modules
state (names that are distinct, bounds that are natural numbers): any number of
trays, connections, paths, reloads, saves, rules, hosts. Every safety property
(invariant, action property or refinement) that a passing run checks is a theorem.

Four of the five findings come with a theorem that says what exactly goes wrong:
the property that the run refutes holds of every behaviour without one
particular step or overlap. What the theorem excludes is what the run shows.
(The fifth, `socket_slow`, refutes a liveness property.)

| refuted by | theorem | holds as long as |
|---|---|---|
| `runtime_toggles` | `TogglesApartAgree` (`UIAgreesWhenQuiet`) | no two connections are between their broadcast and their callback at once; `OneTrayAgrees` is the case of a single connection |
| `runtime_dry_run` | `DryRunOutsideWindow` (`DryRunHonoured`) | the mode is not switched between the copy of the flag for `NewEngine` and `SwapEngine`; `DryRunWithoutReload` is the case without reloads |
| `daemon_repeat` | `NoRepeatOutsideGaps` (`NoRepeat`) | no success of the new engine is recorded between `SwapEngine` and `Reset`, and no actions succeed on a file that changed between the two stats. With the first alone, `RepeatsOutsideWindow`, or without reloads, `RepeatsWithoutReload`, `OnlyMisrecordedRepeats` holds |
| `config_watch_once` | `LoadedOnce` | the other way round: once a reload has started, no later save is ever loaded |

Each module has one inductive invariant, theorem `Invariance`; the rest follows
from it. What it adds to the properties, and why they are not inductive alone:

* **`RuntimeProofs`**: `OneEngine`, `CleanShutdown`, `DryRunUntilReload`, `PoolsOutlive`,
  `LockDiscipline`, `GateRefinement` (`Spec => Gate!Spec`). "Process works with the engine
  that is installed" survives a `SwapEngine` only because the one who commits
  holds the lock, which needs the bookkeeping of the lock (`LockConsistent`) and
  that `HoldsLock` excludes a reader (lemma `CommitAdmits`). "The pool is open
  while an action runs" needs that the pool of the installed engine is
  registered until `Close`, and that the load in hand is not yet the installed one
  (`LoadsInOrder`): otherwise a failing reload could close the pool in use.
  "Until a reload the mode is honoured" needs that the first engine is always in
  the runtime's mode and cannot come back. `TogglesApartAgree` has an invariant of its
  own (`ShownMode`: the trays show the runtime's mode, or the one some toggle is about to
  hand over), and so has `DryRunOutsideWindow` (`EnginesInMode`: the engine that runs and the one being
  built are in the mode of the runtime).
* **`DaemonProofs`**: `ImplementsRuntime` shows that every step of the composition
  is one of `Runtime` or leaves it alone (`Spec => R!Spec`). So all that is proved of
  `Runtime` holds here, and its invariant is used as it is. On top of it: `RecordsAreSeen`,
  `RepeatsOfFirst`, `RepeatsWithoutReload`, `OneStaleRecord`. `Handling` ties
  handlePath to where Process is (in `running` exactly when Process is not out). `Remembered`
  says of everything the first engine did to the version that was to be recorded: the
  file has changed since, or its record is there, or it is in hand on the way to
  `MarkProcessed` - and what else is in hand is newer. `DoneBefore` says of what it did to
  a version that came after handlePath's stat that whatever is handled later was
  stat'ed later: so when it is repeated, it is recorded rightly. `OneStale` distinguishes the record that is still in hand at a
  `Reset` from the one it becomes. `RepeatsOutsideWindow` needs `Remembered` of the
  engine that is installed, from its `Reset` on, and that no engine has done anything
  before it was installed (`DonePast`). `DaemonRefinesCall` gives the call of
  `EngineCall`.
* **`ConfigWatchProofs`**: `LoadedOnce`, and `ReloadsAreDebounced`, because a value in the timer's
  channel was put there after the last event (`FreshValue`), which is what Stop, drain
  and Reset are for.
* **`WatcherProofs`**: `OnePerPath`, `StableWhenOffered`, `CleanEnd`. `Counted` says what
  WaitStable's counter means: the last `stable + 1` looks agree with `lastSize`.
  `FeedRefinement` (`Spec => Feed!Spec`): the sets of `StableFeed` are the paths of the
  goroutines in each phase, which are disjoint because no path has two goroutines.
  `WorkersSuffice` shows, by counting, that the finite supply of goroutines in the
  model never keeps a path from being accepted: in the code there is no such limit.
* **`SocketUIProofs`**: `NoChangeMissed`, `ServedUntilDropped`. While broadcasts are under
  way a connection need not have the newest state; `SentOrPending` says that then
  the acceptor will greet it with that state, or some goroutine has it still on its list
  with a line at least as new, or is about to drop it. `AnnouncementsRefinement`
  (`Spec => A!Spec`): what `Announcements` has as owed is what the goroutines still have on their
  lists. Connections that were dropped stay on them: a broadcast goes on with its old
  list, and until whoever dropped one has closed it too, a write to it can succeed. What is
  proved is that nothing of a later broadcast is sent. Only a greeting ends with the
  registration: while it is under way nobody but a broadcast or cleanup can drop the connection, and those
  close it in the same critical section (`GreetedAreMembers`). `Dropping` says that what is
  closed without the lock is not registered, so that `ServedUntilDropped` holds.
* **`RuleEngineProofs`**: `AcceptedWorks` from a lemma that what `Validate` accepts
  builds, hooks included (`ValidBuilds`), and one that the action that is made of a
  configured one is one of its types (`MadeOfItsTypes`); `ClosedForGood`; `CopiedFirst` (a
  copy of the size that was read, at any of the places files go to, counts) and
  `Delivered` from `Copied`, what the sizes Process holds say about the destination in each
  phase.
* **`RuleOrderProofs`**: `FirstMatch` from "no rule before the one looked at is to be
  executed" (`Passed`) and the equality of the code's matching, with its two fallbacks, and
  the reference definition `Meets`; `AsConfigured` from `Traced`: at any time the
  history is n actions, all but the last of which worked, and then hooks of that outcome,
  and Process points right behind it. `ProcessRefinesCall` (`Spec => C!Spec`): every action and
  hook, whichever of its steps fails, takes away the file it was called for or nothing,
  and Load, Close, the pool and the hosts do not show.

Only model-checked: all liveness (the prover has no rules for fairness and
`ENABLED`), that is `ShutdownCompletes`, `ToggleReturns`, `ProcessReturns`,
`EveryFileAttended`, `FirstSaveLoaded`, `CancelCloses`, `WaitEnds`, `BroadcastReturns`,
`LeaversDropped`, `CancelEndsProcess`.

## Not modelled, and why

* **The tray** (Swift): a project of its own, first in the plan below.
* **The life of the socket file**: probe, unlink and listen of two daemons started
  together, and the unlink of a daemon that is slow to end. It is a matter of two
  processes that the program does not support, and of the file system.
* **YAML, regular expressions, the text of templates, zip archives, views of the
  tray, logging, path helpers**: pure functions or I/O. What an error in them leads to is modelled.
* `--once` is the first sweep of `Daemon`, and the headless UI is `Runtime` without trays,
  `main` waiting for the daemon instead of the context.
* Several files at once in `RuleEngine`: the daemon processes one at a time.

## Plan

1. `TrayClient`: `SocketClient.swift` (generations, backoff, line buffer,
   handshake, protocol mismatch) and `NotificationManager`, composed with `SocketUI`
   through a sequence of lines per connection. What a tray shows when nothing is
   under way: two broadcasts may reach it in reverse, and it ignores a newer state that
   comes before `hello` and takes the older one of the greeting. At most one
   reconnect per disconnect.
2. `SocketLifecycle`: probe, unlink, listen and cleanup of two daemons.
3. Proofs about these. Of what there is, the safety of every run is proved; what is left is
   the composition of `Daemon` with `StableFeed` (its deliveries are any path at any
   time, which is more than the watcher does).
