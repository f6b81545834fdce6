------------------------------- MODULE Daemon -------------------------------
(***************************************************************************)
(* The daemon goroutine: runDaemon's select loop, processExistingFiles,    *)
(* handlePath and the processTracker of sweep.go, composed with Runtime,   *)
(* whose lock it takes three times per file (ShouldIgnore, DryRun,         *)
(* Process) and whose reload empties the tracker under its feet.           *)
(*                                                                         *)
(* A file's size and modification time are one number, its version: two    *)
(* states of a file the tracker could not tell apart are one version.      *)
(***************************************************************************)
EXTENDS Integers, FiniteSets

CONSTANTS
  Handlers, Reloader, Main, NoOne, MaxReloads,    \* see Runtime
  Paths,        \* the paths of the watched directory
  Temporary,    \* those ShouldSkip rejects (.part, .tmp, ...)
  NeedsAge,     \* those whose rule has a min_age
  Matches,      \* per load: the paths a rule with actions matches
  Ignores,      \* per load: the paths in config.Ignored
  Changing,     \* those that other programs write, remove and put back
  MaxVersion    \* bound on the states of a file

ASSUME DaemonAssumption ==
  /\ MaxVersion \in Nat
  /\ Temporary \subseteq Paths /\ Changing \subseteq Paths /\ NeedsAge \subseteq Paths
  /\ Matches \in [0..MaxReloads -> SUBSET Paths]
  /\ Ignores \in [0..MaxReloads -> SUBSET Paths]

VARIABLES
  ctxDone, writer, rtDry, engine, pools, uiDry, toggle, reload, proc, mainpc,
  file,      \* the disk: per path whether it is there, its version, its age
  tracker,   \* processTracker.processed
  loop,      \* where runDaemon is, and the rest of the directory listing
  handle,    \* where handlePath is, and the os.FileInfo it holds
  done       \* history: what the actions succeeded on, and for which load

runtimeVars == <<ctxDone, writer, rtDry, engine, pools, uiDry, toggle, reload,
                 proc, mainpc>>
daemonVars == <<file, tracker, loop, handle, done>>
vars == <<runtimeVars, daemonVars>>

R == INSTANCE Runtime

ASSUME ComposedAssumption == R!RuntimeAssumption

-----------------------------------------------------------------------------
Versions == 0..MaxVersion
NoPath == "no path"
FileState == [here : BOOLEAN, ver : Versions, aged : BOOLEAN]

\* A success of the actions: on the version the engine saw, when handlePath had
\* seen ver, which is the one that is then recorded.
Success == [path : Paths, ver : Versions, seen : Versions, load : R!Loads]

\* A processedRecord.  History: the version the rules saw, the engine's load.
Record == [ver : Versions, dry : BOOLEAN, seen : Versions, load : R!Loads]

Resting == [pc |-> "out", path |-> NoPath, match |-> FALSE,
            ver |-> 0, dry |-> FALSE, seen |-> 0, load |-> 0]

\* One type invariant: every variable has its type.
TypeOK ==
  /\ R!TypeOK
  /\ file \in [Paths -> FileState]
  /\ DOMAIN tracker \subseteq Paths
  /\ \A p \in DOMAIN tracker : tracker[p] \in Record
  /\ loop \in [pc : {"listing", "sweeping", "select", "returned"}, todo : SUBSET Paths]
  /\ handle \in [pc : {"out", "ignore", "stat", "process", "running", "mark"},
                 path : Paths \cup {NoPath}, match : BOOLEAN,
                 ver : Versions, dry : BOOLEAN, seen : Versions, load : R!Loads]
  /\ done \subseteq Success

\* runDaemon begins with a sweep of the files that are already there.  No
\* SSH hosts are configured: pools are the business of Runtime.
Init ==
  /\ R!Init /\ ~engine.pool
  /\ file \in [Paths -> [here : BOOLEAN, ver : {0}, aged : {FALSE}]]
  /\ \A p \in Paths \ Changing : file[p].here
  /\ tracker = [p \in {} |-> 0]
  /\ loop = [pc |-> "listing", todo |-> {}]
  /\ handle = Resting
  /\ done = {}

-----------------------------------------------------------------------------
(* The files, changed by programs this daemon knows nothing of.            *)

\* Created, written to or replaced: a version nobody has seen.
Write(p) ==
  /\ file[p].ver < MaxVersion
  /\ file' = [file EXCEPT ![p] = [here |-> TRUE, ver |-> @.ver + 1, aged |-> FALSE]]
  /\ UNCHANGED <<runtimeVars, tracker, loop, handle, done>>

Remove(p) ==
  /\ file[p].here
  /\ file' = [file EXCEPT ![p].here = FALSE]
  /\ UNCHANGED <<runtimeVars, tracker, loop, handle, done>>

\* Moved back with its times preserved.
Restore(p) ==
  /\ ~file[p].here
  /\ file' = [file EXCEPT ![p].here = TRUE]
  /\ UNCHANGED <<runtimeVars, tracker, loop, handle, done>>

Age(p) ==
  /\ p \in NeedsAge /\ ~file[p].aged
  /\ file' = [file EXCEPT ![p].aged = TRUE]
  /\ UNCHANGED <<runtimeVars, tracker, loop, handle, done>>

-----------------------------------------------------------------------------
(* processTracker.                                                         *)

Untracked(p) == p \notin DOMAIN tracker

DescribedIsFinal(p, ver, dry) ==       \* mutant: a dry run settles the file
  Untracked(p) \/ tracker[p].ver # ver
TrackedIsFinal(p, ver, dry) ==         \* mutant: the fingerprint is not compared
  Untracked(p) \/ (tracker[p].dry /\ ~dry)
AlwaysProcess(p, ver, dry) == TRUE     \* mutant: the tracker is not asked
ShouldProcess(p, ver, dry) ==
  Untracked(p) \/ tracker[p].ver # ver \/ (tracker[p].dry /\ ~dry)

\* Mutants: no fingerprint is kept; the file is stat'ed again after its actions.
MarkWithoutInfo ==
  [p \in DOMAIN tracker \cup {handle.path} |->
     [ver |-> -1, dry |-> handle.dry, seen |-> handle.seen, load |-> handle.load]]
MarkAsItIsNow ==
  [p \in DOMAIN tracker \cup {handle.path} |->
     IF p = handle.path
     THEN [ver |-> file[p].ver, dry |-> handle.dry, seen |-> handle.seen, load |-> handle.load]
     ELSE tracker[p]]
MarkProcessed ==
  [p \in DOMAIN tracker \cup {handle.path} |->
     IF p = handle.path
     THEN [ver |-> handle.ver, dry |-> handle.dry, seen |-> handle.seen, load |-> handle.load]
     ELSE tracker[p]]

Pruned == [p \in {q \in DOMAIN tracker : file[q].here} |-> tracker[p]]

NotEmptied == tracker     \* mutant: a reload leaves the tracker as it is
Emptied == [p \in {} |-> 0]

-----------------------------------------------------------------------------
(* handlePath, one file at a time.                                         *)

\* The caller has a path; ShouldSkip looks at its extension only.
Begin(p) == IF p \in Temporary THEN Resting ELSE [Resting EXCEPT !.pc = "ignore", !.path = p]

Reading == R!Alive /\ writer = NoOne    \* a read lock taken and given back

\* runtime.ShouldIgnore: an unreadable file is not ignored.
Ignored(p) == file[p].here /\ p \in Ignores[engine.load]

CheckIgnore ==
  /\ handle.pc = "ignore" /\ Reading
  /\ handle' = IF Ignored(handle.path) THEN Resting ELSE [handle EXCEPT !.pc = "stat"]
  /\ UNCHANGED <<runtimeVars, file, tracker, loop, done>>

FileMissing ==
  /\ handle.pc = "stat" /\ R!Alive
  /\ ~file[handle.path].here
  /\ handle' = Resting
  /\ UNCHANGED <<runtimeVars, file, tracker, loop, done>>

\* os.Stat, runtime.DryRun() and tracker.ShouldProcess: nothing another
\* goroutine does in between changes the answer.
AskTracker ==
  /\ handle.pc = "stat" /\ Reading
  /\ file[handle.path].here
  /\ handle' = IF ShouldProcess(handle.path, file[handle.path].ver, rtDry)
               THEN [handle EXCEPT !.pc = "process", !.ver = file[handle.path].ver]
               ELSE Resting
  /\ UNCHANGED <<runtimeVars, file, tracker, loop, done>>

CallProcess ==
  /\ handle.pc = "process"
  /\ R!ProcessCall
  /\ handle' = [handle EXCEPT !.pc = "running"]
  /\ UNCHANGED <<file, tracker, loop, done>>

\* Engine.Process: its own os.Stat fails, or decides what the rules match.
FileGone ==
  /\ handle.pc = "running" /\ ~file[handle.path].here
  /\ R!StatFails
  /\ handle' = Resting
  /\ UNCHANGED <<file, tracker, loop, done>>

Matching(p) ==
  p \in Matches[engine.load] /\ (p \in NeedsAge => file[p].aged)

Evaluate ==
  /\ handle.pc = "running" /\ file[handle.path].here
  /\ R!Snapshot
  /\ handle' = [handle EXCEPT !.match = Matching(handle.path),
                              !.seen = file[handle.path].ver, !.load = engine.load]
  /\ UNCHANGED <<file, tracker, loop, done>>

\* No rule matches, or the cancelled context is an error: nothing is recorded.
NotMatched ==
  /\ handle.pc = "running" /\ (~handle.match \/ ctxDone)
  /\ R!NoAction
  /\ handle' = Resting
  /\ UNCHANGED <<file, tracker, loop, done>>

Described ==
  /\ handle.pc = "running" /\ handle.match /\ proc.dry /\ ~ctxDone
  /\ R!NoAction
  /\ handle' = [handle EXCEPT !.pc = "mark", !.dry = TRUE]
  /\ UNCHANGED <<file, tracker, loop, done>>

Execute ==
  /\ handle.pc = "running" /\ handle.match
  /\ R!StartActions
  /\ UNCHANGED daemonVars

\* The actions succeed, and the file stays or is moved, uploaded, deleted.
\* What they were decided for is the file of the engine's own Stat.
Succeeded(gone) ==
  /\ handle.pc = "running"
  /\ R!EndActions
  /\ handle' = [handle EXCEPT !.pc = "mark"]
  /\ file' = [file EXCEPT ![handle.path].here = @ /\ ~gone]
  /\ done' = done \cup {[path |-> handle.path, ver |-> handle.ver,
                         seen |-> handle.seen, load |-> handle.load]}
  /\ UNCHANGED <<tracker, loop>>

\* An action fails: on_fail hooks have run, the error leaves no record, and
\* what earlier actions did to the file is done.
Failed(gone) ==
  /\ handle.pc = "running"
  /\ R!EndActions
  /\ handle' = Resting
  /\ file' = [file EXCEPT ![handle.path].here = @ /\ ~gone]
  /\ UNCHANGED <<tracker, loop, done>>

\* After Process has released the lock.
Mark ==
  /\ handle.pc = "mark" /\ R!Alive
  /\ tracker' = MarkProcessed
  /\ handle' = Resting
  /\ UNCHANGED <<runtimeVars, file, loop, done>>

-----------------------------------------------------------------------------
(* runDaemon.                                                              *)

Between(pc) == R!Alive /\ loop.pc = pc /\ handle.pc = "out"

\* processExistingFiles: one os.ReadDir, then file by file, no matter whether
\* the context is cancelled meanwhile.
ReadDir ==
  /\ Between("listing")
  /\ loop' = [pc |-> "sweeping", todo |-> {p \in Paths : file[p].here}]
  /\ UNCHANGED <<runtimeVars, file, tracker, handle, done>>

\* The directory cannot be read: that is logged, and the next sweep tries again.
ReadDirFails ==
  /\ Between("listing")
  /\ loop' = [loop EXCEPT !.pc = "select"]
  /\ UNCHANGED <<runtimeVars, file, tracker, handle, done>>

SweepFile(p) ==
  /\ Between("sweeping") /\ p \in loop.todo
  /\ loop' = [loop EXCEPT !.todo = @ \ {p}]
  /\ handle' = Begin(p)
  /\ UNCHANGED <<runtimeVars, file, tracker, done>>

SweepDone ==
  /\ Between("sweeping") /\ loop.todo = {}
  /\ loop' = [loop EXCEPT !.pc = "select"]
  /\ UNCHANGED <<runtimeVars, file, tracker, handle, done>>

Tick ==
  /\ Between("select")
  /\ tracker' = Pruned
  /\ done' = {d \in done : file[d.path].here}
  /\ loop' = [loop EXCEPT !.pc = "listing"]
  /\ UNCHANGED <<runtimeVars, file, handle>>

\* The watcher has a path to deliver, of a file that may be gone again.
Deliver(p) ==
  /\ Between("select") /\ p \notin Temporary
  /\ handle' = Begin(p)
  /\ UNCHANGED <<runtimeVars, file, tracker, loop, done>>

Return ==
  /\ Between("select") /\ ctxDone
  /\ loop' = [loop EXCEPT !.pc = "returned"]
  /\ UNCHANGED <<runtimeVars, file, tracker, handle, done>>

-----------------------------------------------------------------------------
(* The other goroutines.                                                   *)

\* The tail of reloadConfig: tracker.Reset.  What the replaced engine did need
\* not be repeated by the new one, nor may it be: the history drops it.
Reset ==
  /\ R!ReloadFinish
  /\ tracker' = Emptied
  /\ done' = {d \in done : d.load = engine.load}
  /\ UNCHANGED <<file, loop, handle>>

Others(A) == A /\ UNCHANGED daemonVars

ReloadUntilSwapped ==
  \/ R!ReloadStart \/ R!ReloadLoadFails \/ R!ReloadBuildFails
  \/ R!ReloadBuild(FALSE)
  \/ R!SwapEngineLock \/ R!SwapEngine

HandlePath ==
  \/ CheckIgnore \/ FileMissing \/ AskTracker \/ CallProcess
  \/ FileGone \/ Evaluate \/ NotMatched \/ Described \/ Execute
  \/ \E gone \in BOOLEAN : Succeeded(gone) \/ Failed(gone)
  \/ Mark

Sweep == ReadDir \/ ReadDirFails \/ SweepDone \/ \E p \in Paths : SweepFile(p)

FileStep(p) ==
  /\ R!Alive    \* what becomes of the files afterwards is of no interest
  /\ \/ p \in Changing /\ (Write(p) \/ Remove(p) \/ Restore(p))
     \/ Age(p)

Next ==
  \/ \E p \in Paths : FileStep(p) \/ Deliver(p)
  \/ HandlePath \/ Sweep \/ Tick \/ Return
  \/ Reset
  \/ Others(ReloadUntilSwapped)
  \/ \E h \in Handlers : Others(R!HandlerStep(h))
  \/ Others(R!Cancel)
  \/ Others(R!MainStep)

Spec == Init /\ [][Next]_vars

\* As in Runtime; the select statement picks at random among the cases that
\* are ready, so the ticker is not passed over for ever, and a read lock is
\* had between one writer and the next.  The directory can be read again and
\* again, if not always.
Fairness ==
  /\ WF_vars(HandlePath) /\ SF_vars(CheckIgnore) /\ SF_vars(AskTracker)
  /\ WF_vars(Sweep) /\ SF_vars(ReadDir)
  /\ SF_vars(Tick)
  /\ \A h \in Handlers : WF_vars(Others(R!SetDryRun(h)))
  /\ WF_vars(Others(R!SwapEngine))
  /\ WF_vars(Others(R!Close))

FairSpec == Spec /\ Fairness

-----------------------------------------------------------------------------
(* Properties.                                                             *)

Acting(p) == proc.pc = "acting" /\ handle.path = p

\* What the acting engine has done before to the version it acts on, and
\* nobody has seen the file gone since.
Before == {d \in done : d.path = handle.path /\ d.seen = handle.seen /\ d.load = proc.load}

\* "Files already processed successfully are skipped until they change"
\* (ShouldProcess): actions do not run on a version they succeeded on before,
\* for the same engine, unless Prune has seen the file gone in between.
NoRepeat == proc.pc = "acting" => Before = {}

\* What is repeated all the same changed between the Stat of handlePath and
\* that of the engine the first time, so that the record is of the version
\* before; the repetition is recorded as what it is, and so is the only one.
OnlyMisrecordedRepeats ==
  proc.pc = "acting" =>
    \A d \in Before : d.ver < d.seen /\ handle.ver = handle.seen

\* So it is with the engine main built, also while a reload replaces it.
OnlyMisrecordedRepeatsUntilReload == proc.load = 0 => OnlyMisrecordedRepeats

\* A record never vouches for a version newer than the one the rules were
\* evaluated on: a change during or after processing is not mistaken for it.
RecordsOnlyWhatWasSeen ==
  \A p \in DOMAIN tracker : tracker[p].ver <= tracker[p].seen

\* Once a reload is over, at most one record is not the new engine's: that of
\* the file which was between Process and MarkProcessed.
AtMostOneStaleRecord ==
  reload.pc # "swapped" =>
    Cardinality({p \in DOMAIN tracker : tracker[p].load # engine.load}) <= 1

\* A file that a rule matches in live mode does not stay unattended: the sweep
\* alone, with no help from the watcher, gets it executed or recorded, also
\* when it ripened by age, failed before or was only described in dry-run.
Unattended(p) ==
  /\ ~ctxDone /\ ~rtDry /\ ~engine.dry
  /\ file[p].here /\ p \notin Temporary /\ p \notin Ignores[engine.load] /\ Matching(p)
  /\ ~Acting(p)
  /\ p \in DOMAIN tracker => tracker[p].ver # file[p].ver \/ tracker[p].dry

EveryFileAttended == \A p \in Paths : []<>~Unattended(p)

\* What Process does for handlePath is a call as EngineCall has it, which the
\* inside of the call, RuleEngine, implements too.
CallPc == IF proc.pc \in {"entered", "blocked"} THEN "called" ELSE proc.pc
C == INSTANCE EngineCall WITH
       Contents <- Versions, Gone <- -1,
       content <- [p \in Paths |-> IF file[p].here THEN file[p].ver ELSE -1],
       pc <- CallPc,
       path <- IF proc.pc = "out" THEN NoPath ELSE handle.path,
       dry <- CallPc \in {"deciding", "acting"} /\ proc.dry
ImplementsCall == C!Spec
=============================================================================
