---------------------------- MODULE DaemonProofs ----------------------------
(***************************************************************************)
(* Proofs about Daemon, for any files, configurations and tray connections *)
(* and any number of reloads.  What is proved of Runtime is used as it is: *)
(* Daemon implements it.                                                   *)
(***************************************************************************)
EXTENDS Daemon, FiniteSetTheorems, TLAPS

RP == INSTANCE RuntimeProofs

-----------------------------------------------------------------------------
(* The daemon's steps are steps of Runtime, or leave it alone.             *)

LEMMA Composed == RP!RuntimeAssumption
BY ComposedAssumption DEF R!RuntimeAssumption, RP!RuntimeAssumption

LEMMA Untouched == UNCHANGED runtimeVars => UNCHANGED R!vars
BY DEF runtimeVars, R!vars

LEMMA HandleStep == HandlePath => [R!Next]_R!vars
<1>1. CheckIgnore \/ FileMissing \/ AskTracker \/ Mark => [R!Next]_R!vars
  BY Untouched DEF CheckIgnore, FileMissing, AskTracker, Mark
<1>2. CallProcess \/ FileGone \/ Evaluate \/ NotMatched \/ Described \/ Execute => R!Next
  BY DEF CallProcess, FileGone, Evaluate, NotMatched, Described, Execute, R!Next, R!ProcessStep
<1>3. (\E gone \in BOOLEAN : Succeeded(gone) \/ Failed(gone)) => R!Next
  BY DEF Succeeded, Failed, R!Next, R!ProcessStep
<1> QED
  BY <1>1, <1>2, <1>3 DEF HandlePath

LEMMA RuntimeStep == [Next]_vars => [R!Next]_R!vars
<1>1. CASE (\E p \in Paths : FileStep(p) \/ Deliver(p)) \/ Sweep \/ Tick \/ Return
  BY <1>1, Untouched DEF FileStep, Write, Remove, Restore, Age, Deliver, Sweep, ReadDir, ReadDirFails, SweepDone,
     SweepFile, Tick, Return
<1>2. CASE HandlePath
  BY <1>2, HandleStep
<1>3. CASE Reset
  BY <1>3 DEF Reset, R!Next, R!ReloaderStep
<1>4. CASE Others(ReloadUntilSwapped)
  BY <1>4 DEF Others, ReloadUntilSwapped, R!Next, R!ReloaderStep
<1>5. CASE (\E h \in Handlers : Others(R!HandlerStep(h))) \/ Others(R!Cancel) \/ Others(R!MainStep)
  BY <1>5 DEF Others, R!Next
<1>6. CASE UNCHANGED vars
  BY <1>6, Untouched DEF vars
<1> QED
  BY <1>1, <1>2, <1>3, <1>4, <1>5, <1>6 DEF Next

\* The daemon goroutine and the files are an implementation of what Runtime
\* leaves open about them: every property of Runtime is one of Daemon.
THEOREM ImplementsRuntime == Spec => R!Spec
<1>1. Init => R!Init
  BY DEF Init
<1> QED
  BY <1>1, RuntimeStep, PTL DEF Spec, R!Spec

-----------------------------------------------------------------------------
(* RP is the same module, with what is proved of it.                       *)

LEMMA SameLock ==
  /\ R!Unlock <=> RP!Unlock
  /\ \A g : (R!Announce(g) <=> RP!Announce(g)) /\ (R!HoldsLock(g) <=> RP!HoldsLock(g))
BY Zenon DEF R!Unlock, RP!Unlock, R!Admitted, RP!Admitted, R!Announce, RP!Announce,
   R!HoldsLock, RP!HoldsLock, R!ReaderIn, RP!ReaderIn

LEMMA SameHandler == \A h : R!HandlerStep(h) <=> RP!HandlerStep(h)
<1> TAKE h
<1>1. R!Command(h) <=> RP!Command(h)
  BY Zenon DEF R!Command, RP!Command, R!Alive, RP!Alive
<1>2. R!Flip(h) <=> RP!Flip(h)
  BY Zenon DEF R!Flip, RP!Flip, R!Flipped, RP!Flipped, R!Alive, RP!Alive
<1>3. R!SetDryRunLock(h) <=> RP!SetDryRunLock(h)
  BY SameLock, Zenon DEF R!SetDryRunLock, RP!SetDryRunLock, R!Alive, RP!Alive
<1>4. R!SetDryRun(h) <=> RP!SetDryRun(h)
  BY SameLock, Zenon DEF R!SetDryRun, RP!SetDryRun, R!EngineInMode, RP!EngineInMode, R!Idle,
     RP!Idle, R!Alive, RP!Alive
<1> QED
  BY <1>1, <1>2, <1>3, <1>4, Zenon DEF R!HandlerStep, RP!HandlerStep

LEMMA SameReloader == R!ReloaderStep <=> RP!ReloaderStep
<1>1. (R!ReloadStart <=> RP!ReloadStart) /\ (R!ReloadLoadFails <=> RP!ReloadLoadFails)
  BY Zenon DEF R!ReloadStart, RP!ReloadStart, R!ReloadLoadFails, RP!ReloadLoadFails, R!Alive,
     RP!Alive
<1>2. \A p : R!ReloadBuild(p) <=> RP!ReloadBuild(p)
  BY Zenon DEF R!ReloadBuild, RP!ReloadBuild, R!Alive, RP!Alive
<1>3. (R!ReloadBuildFails <=> RP!ReloadBuildFails) /\ (R!ReloadFinish <=> RP!ReloadFinish)
  BY Zenon DEF R!ReloadBuildFails, RP!ReloadBuildFails, R!ReloadFinish, RP!ReloadFinish,
     R!Alive, RP!Alive
<1>4. R!SwapEngineLock <=> RP!SwapEngineLock
  BY SameLock, Zenon DEF R!SwapEngineLock, RP!SwapEngineLock, R!Alive, RP!Alive
<1>5. R!SwapEngine <=> RP!SwapEngine
  BY SameLock, Zenon DEF R!SwapEngine, RP!SwapEngine, R!Registered, RP!Registered, R!Alive,
     RP!Alive
<1> QED
  BY <1>1, <1>2, <1>3, <1>4, <1>5, Zenon DEF R!ReloaderStep, RP!ReloaderStep

LEMMA SameProcess == R!ProcessStep <=> RP!ProcessStep
<1>1. R!ProcessReturn <=> RP!ProcessReturn
  BY Zenon DEF R!ProcessReturn, RP!ProcessReturn, R!Out, RP!Out
<1>2. /\ R!StatFails <=> RP!StatFails
      /\ R!NoAction <=> RP!NoAction
      /\ R!EndActions <=> RP!EndActions
  BY <1>1, Zenon DEF R!StatFails, RP!StatFails, R!NoAction, RP!NoAction, R!EndActions,
     RP!EndActions, R!Alive, RP!Alive
<1>3. (R!ProcessCall <=> RP!ProcessCall) /\ (R!Snapshot <=> RP!Snapshot)
  BY Zenon DEF R!ProcessCall, RP!ProcessCall, R!Snapshot, RP!Snapshot, R!Alive, RP!Alive
<1>4. R!StartActions <=> RP!StartActions
  BY Zenon DEF R!StartActions, RP!StartActions, R!MayAct, RP!MayAct, R!Alive, RP!Alive
<1> QED
  BY <1>2, <1>3, <1>4, Zenon DEF R!ProcessStep, RP!ProcessStep

LEMMA SameMain == (R!MainStep <=> RP!MainStep) /\ (R!Cancel <=> RP!Cancel)
<1>1. (R!StopServing <=> RP!StopServing) /\ (R!Exit <=> RP!Exit) /\ (R!Cancel <=> RP!Cancel)
  BY Zenon DEF R!StopServing, RP!StopServing, R!Exit, RP!Exit, R!Cancel, RP!Cancel, R!Alive,
     RP!Alive
<1>2. (R!CloseLock <=> RP!CloseLock) /\ (R!Close <=> RP!Close)
  BY SameLock, Zenon DEF R!CloseLock, RP!CloseLock, R!Close, RP!Close, R!ClosedPools,
     RP!ClosedPools, R!Loads, RP!Loads
<1> QED
  BY <1>1, <1>2, Zenon DEF R!MainStep, RP!MainStep

LEMMA SameSpec == R!Spec => RP!Spec
<1>1. R!Init => RP!Init
  BY Zenon DEF R!Init, RP!Init, R!Loads, RP!Loads, R!Idle, RP!Idle, R!Out, RP!Out
<1>2. R!vars = RP!vars /\ R!vars' = RP!vars'
  BY Zenon DEF R!vars, RP!vars
<1>3. R!Next <=> RP!Next
  BY SameHandler, SameReloader, SameProcess, SameMain, Zenon DEF R!Next, RP!Next
<1>4. [R!Next]_R!vars => [RP!Next]_RP!vars
  BY <1>2, <1>3
<1> QED
  BY <1>1, <1>4, PTL DEF R!Spec, RP!Spec

\* The inductive invariant of Runtime.
LEMMA RuntimeInvariance == Spec => []RP!IInv
<1>1. RP!Spec => []RP!IInv
  BY Composed, RP!Invariance, PTL
<1> QED
  BY <1>1, SameSpec, ImplementsRuntime, PTL

-----------------------------------------------------------------------------
(* The inductive invariant of the daemon goroutine.                        *)

HandlePcs == {"out", "ignore", "stat", "process", "running", "mark"}
HandleState == [pc : HandlePcs, path : Paths \cup {NoPath}, match : BOOLEAN,
                ver : Versions, dry : BOOLEAN, seen : Versions, load : R!Loads]
LoopState == [pc : {"listing", "sweeping", "select", "returned"}, todo : SUBSET Paths]

Types ==
  /\ file \in [Paths -> FileState]
  /\ DOMAIN tracker \subseteq Paths
  /\ \A p \in DOMAIN tracker : tracker[p] \in Record
  /\ loop \in LoopState
  /\ handle \in HandleState
  /\ done \subseteq Success

\* handlePath waits in Process, with what Stat has told it.
Handling ==
  /\ handle.pc # "out" => handle.path \in Paths
  /\ handle.pc = "running" <=> proc.pc # "out"
  /\ handle.pc # "mark" => ~handle.dry
  /\ handle.pc \in {"process", "running", "mark"} => handle.ver <= file[handle.path].ver
  /\ proc.pc \in {"deciding", "acting"} =>
       /\ handle.ver <= handle.seen /\ handle.seen <= file[handle.path].ver
       /\ handle.load = proc.load
  /\ handle.pc = "mark" => handle.ver <= handle.seen

\* What the installed engine did, and handlePath had seen, is superseded,
\* recorded, or about to be recorded, and it is not what is in hand.  A record counts only outside the
\* window between SwapEngine and Reset, which is about to drop it.  E is the set
\* of the engines this is said of: the first one, or all of them.
Past(p, v) == [path |-> p, ver |-> v, seen |-> v, load |-> engine.load] \in done
Final(p, v) == /\ p \in DOMAIN tracker /\ tracker[p].ver = v /\ ~tracker[p].dry
               /\ reload.pc # "swapped"
InHand(p, v) == /\ handle.path = p /\ handle.ver = v /\ ~handle.dry
                /\ handle.load = engine.load
Remembered(E) ==
  engine.load \in E =>
    \A p \in Paths, v \in Versions : Past(p, v) =>
      /\ v <= file[p].ver
      /\ v < file[p].ver \/ Final(p, v) \/ (handle.pc = "mark" /\ InHand(p, v))
      /\ handle.pc \in {"process", "running", "mark"} /\ handle.path = p =>
           v < handle.ver \/ (handle.pc = "mark" /\ InHand(p, v))

\* A success is recorded before the swap that makes way for the next Reset, or
\* after that Reset.
MarkInTime == Mark /\ reload.pc = "swapped" => handle.load # engine.load \/ handle.dry

\* Nothing was done by an engine that is still to be installed.
DonePast == \A d \in done : d.load <= engine.load

\* A version the actions have been done to was there before the Stat of the
\* handling that is under way, whatever is recorded of it.
DoneBefore ==
  \A d \in done :
    /\ d.ver <= d.seen /\ d.seen <= file[d.path].ver
    /\ handle.pc \in {"process", "running"} /\ handle.path = d.path => d.seen <= handle.ver

LaterEngine == reload.pc = "swapped" => engine.load >= 1

\* Between a Reset and the next swap only the record that was in hand at the
\* Reset is of another engine, or it still is in hand.
Stale == {p \in DOMAIN tracker : tracker[p].load # engine.load}
StaleInHand == handle.pc = "mark" /\ handle.load # engine.load
OneStale ==
  reload.pc # "swapped" =>
    Stale = {} \/ (~StaleInHand /\ \E p \in Paths : Stale \subseteq {p})

DInv(E) ==
  /\ Types /\ Handling /\ RecordsOnlyWhatWasSeen /\ LaterEngine /\ DonePast /\ DoneBefore
  /\ OneStale
  /\ Remembered(E)

\* What is used of the invariant of Runtime.
LEMMA FromRuntime ==
  ASSUME RP!IInv
  PROVE  /\ engine.load \in R!Loads /\ rtDry \in BOOLEAN /\ reload.load \in R!Loads
         /\ proc.pc \in {"deciding", "acting"} => proc.load = engine.load
         /\ reload.pc = "locking" => engine.load < reload.load
BY DEF RP!IInv, RP!TypeOK, RP!ProcState, RP!ReloadState, RP!Loads, R!Loads, RP!ProcessSeesOneEngine,
   RP!LoadsInOrder

LEMMA Numbers == R!Loads \subseteq Nat /\ Versions \subseteq Nat /\ 0 \in R!Loads /\ 0 \in Versions
BY DaemonAssumption, ComposedAssumption DEF R!RuntimeAssumption, R!Loads, Versions

LEMMA Fields ==
  ASSUME handle \in HandleState
  PROVE  /\ handle.pc \in HandlePcs /\ handle.path \in Paths \cup {NoPath} /\ handle.match \in BOOLEAN
         /\ handle.ver \in Versions /\ handle.dry \in BOOLEAN /\ handle.seen \in Versions
         /\ handle.load \in R!Loads
BY DEF HandleState

LEMMA FileFields ==
  ASSUME Types, NEW p \in Paths
  PROVE  file[p] \in FileState /\ file[p].here \in BOOLEAN /\ file[p].ver \in Versions /\ file[p].ver \in Nat
BY Numbers DEF Types, FileState

LEMMA RestingType == Resting \in HandleState /\ Resting.pc = "out" /\ ~Resting.dry
BY Numbers DEF Resting, HandleState, HandlePcs

-----------------------------------------------------------------------------
(* Steps of the other goroutines.                                          *)

\* What they do to the runtime: a reader that waits may be admitted, and an
\* engine of a later load may be swapped in.
LEMMA Elsewhere ==
  ASSUME RP!IInv,
         ReloadUntilSwapped \/ (\E h \in Handlers : R!HandlerStep(h)) \/ R!Cancel \/ R!MainStep
  PROVE  /\ proc'.pc # "out" <=> proc.pc # "out"
         /\ proc'.pc \in {"deciding", "acting"} => proc' = proc
         /\ \/ engine'.load = engine.load /\ (reload'.pc = "swapped" <=> reload.pc = "swapped")
            \/ reload'.pc = "swapped" /\ engine'.load >= 1 /\ engine.load < engine'.load
<1>1. proc \in R!ProcState /\ reload \in R!ReloadState /\ engine \in [load : R!Loads, dry : BOOLEAN, pool : BOOLEAN]
  BY DEF RP!IInv, RP!TypeOK, RP!ProcState, RP!ReloadState, RP!Loads, R!Loads, R!ProcState, R!ReloadState
<1>2. R!Unlock \/ proc' = proc =>
        /\ proc'.pc # "out" <=> proc.pc # "out"
        /\ proc'.pc \in {"deciding", "acting"} => proc' = proc
  BY <1>1 DEF R!Unlock, R!Admitted, R!ProcState
<1>3. CASE \E h \in Handlers : R!HandlerStep(h)
  <2>1. reload' = reload /\ (R!Unlock \/ proc' = proc)
    BY <1>3 DEF R!HandlerStep, R!Command, R!Flip, R!SetDryRunLock, R!SetDryRun
  <2>2. engine'.load = engine.load
    BY <1>1, <1>3 DEF R!HandlerStep, R!Command, R!Flip, R!SetDryRunLock, R!SetDryRun, R!EngineInMode
  <2> QED
    BY <1>2, <2>1, <2>2
<1>4. CASE R!SwapEngine
  <2>1. reload.pc = "locking" /\ engine' = [load |-> reload.load, dry |-> reload.dry, pool |-> pools[reload.load] = "local"]
    BY <1>4 DEF R!SwapEngine
  <2>2. engine'.load = reload.load
    BY <2>1
  <2>3. engine'.load >= 1 /\ engine.load < engine'.load
    <3>1. engine.load \in Nat /\ reload.load \in Nat /\ engine.load < reload.load
      BY <2>1, FromRuntime, Numbers
    <3> QED
      BY <2>2, <3>1
  <2>4. reload'.pc = "swapped" /\ R!Unlock
    BY <1>1, <1>4 DEF R!SwapEngine, R!ReloadState
  <2> QED
    BY <1>2, <2>3, <2>4
<1>5. CASE R!ReloadStart \/ R!ReloadLoadFails \/ R!ReloadBuildFails \/ R!ReloadBuild(FALSE) \/ R!SwapEngineLock
  <2>1. engine' = engine /\ proc' = proc
    BY <1>5 DEF R!ReloadStart, R!ReloadLoadFails, R!ReloadBuildFails, R!ReloadBuild, R!SwapEngineLock
  <2>2. reload.pc # "swapped" /\ reload'.pc # "swapped"
    BY <1>1, <1>5 DEF R!ReloadStart, R!ReloadLoadFails, R!ReloadBuildFails, R!ReloadBuild, R!SwapEngineLock,
       R!ReloadState
  <2> QED
    BY <2>1, <2>2, <1>2
<1>6. CASE R!Cancel \/ R!MainStep
  <2>1. engine' = engine /\ reload' = reload /\ (R!Unlock \/ proc' = proc)
    BY <1>6 DEF R!Cancel, R!MainStep, R!StopServing, R!CloseLock, R!Close, R!Exit
  <2> QED
    BY <1>2, <2>1
<1> QED
  BY <1>3, <1>4, <1>5, <1>6 DEF ReloadUntilSwapped

LEMMA OthersStep ==
  ASSUME NEW E, RP!IInv, RP!IInv', DInv(E), UNCHANGED daemonVars,
         ReloadUntilSwapped \/ (\E h \in Handlers : R!HandlerStep(h)) \/ R!Cancel \/ R!MainStep
  PROVE  DInv(E)'
<1>1. UNCHANGED <<file, tracker, loop, handle, done>>
  BY DEF daemonVars
<1>0. engine'.load \in R!Loads
  BY DEF RP!IInv, RP!TypeOK, RP!Loads, R!Loads
<1>2. /\ proc'.pc # "out" <=> proc.pc # "out"
      /\ proc'.pc \in {"deciding", "acting"} => proc' = proc
      /\ \/ engine'.load = engine.load /\ (reload'.pc = "swapped" <=> reload.pc = "swapped")
         \/ reload'.pc = "swapped" /\ engine'.load >= 1 /\ engine.load < engine'.load
  BY Elsewhere
<1>3. Types' /\ RecordsOnlyWhatWasSeen' /\ DoneBefore'
  BY <1>1 DEF DInv, Types, RecordsOnlyWhatWasSeen, DoneBefore
<1>4. Handling'
  BY <1>1, <1>2 DEF DInv, Handling
<1>5. CASE engine'.load = engine.load /\ (reload'.pc = "swapped" <=> reload.pc = "swapped")
  <2>1. LaterEngine' /\ DonePast' /\ Remembered(E)'
    BY <1>1, <1>5 DEF DInv, LaterEngine, DonePast, Remembered, Past, Final, InHand
  <2>2. Stale' = Stale /\ StaleInHand' = StaleInHand
    BY <1>1, <1>5 DEF Stale, StaleInHand
  <2>3. OneStale'
    BY <1>5, <2>2 DEF DInv, OneStale
  <2> QED
    BY <1>3, <1>4, <2>1, <2>3 DEF DInv
<1>6. CASE reload'.pc = "swapped" /\ engine'.load >= 1 /\ engine.load < engine'.load
  <2>1. LaterEngine' /\ OneStale'
    BY <1>6 DEF LaterEngine, OneStale
  <2>2. ASSUME NEW d \in done'
        PROVE  d.load \in R!Loads /\ d.load < engine'.load
    <3>1. d.load <= engine.load /\ d.load \in R!Loads
      BY <1>1, <2>2 DEF DInv, DonePast, Types, Success
    <3>2. d.load \in Nat /\ engine.load \in Nat /\ engine'.load \in Nat
      BY <3>1, FromRuntime, Numbers, <1>0
    <3> QED
      BY <1>6, <3>1, <3>2
  <2>3. \A l \in R!Loads : l < engine'.load => l <= engine'.load /\ l # engine'.load
    <3>1. \A l, m \in Nat : l < m => l <= m /\ l # m
      OBVIOUS
    <3> QED
      BY <1>0, <3>1, Numbers
  <2>4. DonePast'
    BY <2>2, <2>3 DEF DonePast
  <2>5. ASSUME NEW p, NEW v PROVE ~Past(p, v)'
    BY <2>2, <2>3 DEF Past
  <2>6. Remembered(E)'
    BY <2>5 DEF Remembered
  <2> QED
    BY <1>3, <1>4, <2>1, <2>4, <2>6 DEF DInv
<1> QED
  BY <1>2, <1>5, <1>6

-----------------------------------------------------------------------------
(* Files, sweeps and the tracker.                                          *)

LEMMA FileSteps == ASSUME NEW E, DInv(E), NEW q \in Paths, FileStep(q) PROVE DInv(E)'
<1>1. UNCHANGED <<engine, reload, proc, tracker, loop, handle, done>>
  BY DEF FileStep, Write, Remove, Restore, Age, runtimeVars
<1>2. file' \in [Paths -> FileState] /\ \A p \in Paths : file[p].ver <= file'[p].ver
  <2>1. CASE Write(q)
    <3>1. file[q].ver + 1 \in Versions /\ file[q].ver \in Nat
      BY <2>1, FileFields, DaemonAssumption DEF DInv, Write, Versions
    <3>2. \A p \in Paths : file'[p] = IF p = q THEN [here |-> TRUE, ver |-> file[q].ver + 1, aged |-> FALSE] ELSE file[p]
      BY <2>1 DEF DInv, Types, Write
    <3>3. file' \in [Paths -> FileState]
      BY <2>1, <3>1 DEF DInv, Types, FileState, Write
    <3> QED
      BY <3>1, <3>2, <3>3, FileFields DEF DInv
  <2>2. CASE Remove(q) \/ Restore(q) \/ Age(q)
    <3>1. file' \in [Paths -> FileState] /\ \A p \in Paths : file'[p].ver = file[p].ver
      <4>1. file \in [Paths -> FileState]
        BY DEF DInv, Types
      <4>2. CASE Remove(q)
        BY <4>1, <4>2 DEF FileState, Remove
      <4>3. CASE Restore(q)
        BY <4>1, <4>3 DEF FileState, Restore
      <4>4. CASE Age(q)
        BY <4>1, <4>4 DEF FileState, Age
      <4> QED
        BY <2>2, <4>2, <4>3, <4>4
    <3> QED
      BY <3>1, FileFields DEF DInv
  <2> QED
    BY <2>1, <2>2 DEF FileStep
<1>3. Types' /\ RecordsOnlyWhatWasSeen' /\ LaterEngine' /\ DonePast' /\ OneStale'
  BY <1>1, <1>2 DEF DInv, Types, RecordsOnlyWhatWasSeen, LaterEngine, DonePast, OneStale, Stale, StaleInHand
<1>4. \A p \in Paths, n \in Nat : n <= file[p].ver => n <= file'[p].ver
  <2> TAKE p \in Paths, n \in Nat
  <2>1. file[p].ver \in Nat /\ file'[p].ver \in Nat
    BY <1>2, FileFields, Numbers DEF DInv, FileState
  <2> QED
    BY <1>2, <2>1
<1>5. Handling'
  <2>1. handle.ver \in Nat
    BY Fields, Numbers DEF DInv, Types
  <2>2. handle.pc \in {"process", "running", "mark"} => handle.ver <= file'[handle.path].ver
    BY <1>4, <2>1 DEF DInv, Handling
  <2>3. proc.pc \in {"deciding", "acting"} => handle.seen <= file'[handle.path].ver
    <3>1. handle.seen \in Nat /\ (proc.pc \in {"deciding", "acting"} => handle.path \in Paths)
      BY Fields, Numbers DEF DInv, Types, Handling
    <3> QED
      BY <1>4, <3>1 DEF DInv, Handling
  <2> QED
    BY <1>1, <2>2, <2>3 DEF DInv, Handling
<1>7. DoneBefore'
  <2>1. \A d \in done : d.path \in Paths /\ d.seen \in Nat
    BY Numbers DEF DInv, Types, Success
  <2> QED
    BY <1>1, <1>4, <2>1 DEF DInv, DoneBefore
<1>6. Remembered(E)'
  <2>1. \A p \in Paths, v \in Versions : /\ v <= file[p].ver => v <= file'[p].ver
                                         /\ v < file[p].ver => v < file'[p].ver
    <3> TAKE p \in Paths, v \in Versions
    <3>1. file[p].ver \in Nat /\ file'[p].ver \in Nat /\ v \in Nat
      BY <1>2, FileFields, Numbers DEF DInv, FileState
    <3> QED
      BY <1>2, <3>1
  <2> QED
    BY <1>1, <2>1 DEF DInv, Remembered, Past, Final, InHand
<1> QED
  BY <1>3, <1>5, <1>6, <1>7 DEF DInv

\* handlePath begins or ends without a record.
LEMMA Rests ==
  ASSUME NEW E, DInv(E), handle.pc # "mark", handle' \in HandleState, handle'.pc \in {"out", "ignore", "stat"},
         ~handle'.dry, handle'.pc # "out" => handle'.path \in Paths, proc'.pc = "out",
         engine' = engine, reload' = reload, tracker' = tracker, done' = done, loop' \in LoopState,
         file' \in [Paths -> FileState], \A p \in Paths : file'[p].ver = file[p].ver
  PROVE  DInv(E)'
<1>1. Types' /\ RecordsOnlyWhatWasSeen' /\ LaterEngine' /\ DonePast' /\ Handling'
  BY DEF DInv, Types, RecordsOnlyWhatWasSeen, LaterEngine, DonePast, Handling
<1>2. Remembered(E)'
  BY DEF DInv, Remembered, Past, Final
<1>3. Stale' = Stale /\ ~StaleInHand'
  BY DEF Stale, StaleInHand
<1>4. OneStale'
  BY <1>3 DEF DInv, OneStale
<1>5. DoneBefore'
  <2>1. \A d \in done : d.path \in Paths
    BY DEF DInv, Types, Success
  <2> QED
    BY <2>1 DEF DInv, DoneBefore
<1> QED
  BY <1>1, <1>2, <1>4, <1>5 DEF DInv

LEMMA BeginType ==
  ASSUME NEW p \in Paths
  PROVE  /\ Begin(p) \in HandleState /\ Begin(p).pc \in {"out", "ignore"} /\ ~Begin(p).dry
         /\ Begin(p).pc # "out" => Begin(p).path \in Paths
BY RestingType DEF Begin, HandleState, HandlePcs, Resting

LEMMA LoopSteps ==
  ASSUME NEW E, DInv(E), ReadDir \/ ReadDirFails \/ SweepDone \/ Return \/ (\E p \in Paths : SweepFile(p) \/ Deliver(p))
  PROVE  DInv(E)'
<1>1. /\ handle.pc = "out"
      /\ UNCHANGED <<engine, reload, proc, file, tracker, done>>
  BY DEF ReadDir, ReadDirFails, SweepDone, Return, SweepFile, Deliver, Between, runtimeVars
<1>2. /\ handle' \in HandleState /\ handle'.pc \in {"out", "ignore"} /\ ~handle'.dry
      /\ handle'.pc # "out" => handle'.path \in Paths
  <2>1. CASE ReadDir \/ ReadDirFails \/ SweepDone \/ Return
    BY <1>1, <2>1 DEF ReadDir, ReadDirFails, SweepDone, Return, DInv, Types, Handling
  <2>2. CASE \E p \in Paths : SweepFile(p) \/ Deliver(p)
    BY <2>2, BeginType DEF SweepFile, Deliver
  <2> QED
    BY <2>1, <2>2
<1>3. loop' \in LoopState
  BY DEF DInv, Types, LoopState, ReadDir, ReadDirFails, SweepDone, Return, SweepFile, Deliver
<1>4. proc'.pc = "out"
  BY <1>1 DEF DInv, Handling
<1>5. file' \in [Paths -> FileState] /\ \A p \in Paths : file'[p].ver = file[p].ver
  BY <1>1 DEF DInv, Types
<1> QED
  BY <1>1, <1>2, <1>3, <1>4, <1>5, Rests

\* Prune: what is gone is forgotten by the tracker and by the history.
LEMMA TickStep == ASSUME NEW E, DInv(E), Tick PROVE DInv(E)'
<1>1. /\ handle.pc = "out" /\ UNCHANGED <<engine, reload, proc, file, handle>>
      /\ tracker' = Pruned /\ done' = {d \in done : file[d.path].here}
      /\ loop' = [loop EXCEPT !.pc = "listing"]
  BY DEF Tick, Between, runtimeVars
<1>2. /\ DOMAIN tracker' = {q \in DOMAIN tracker : file[q].here}
      /\ \A p \in DOMAIN tracker' : tracker'[p] = tracker[p]
  BY <1>1 DEF Pruned
<1>3. Types' /\ RecordsOnlyWhatWasSeen' /\ LaterEngine' /\ DonePast' /\ DoneBefore' /\ Handling'
  <2>1. loop' \in LoopState
    BY <1>1 DEF DInv, Types, LoopState
  <2> QED
    BY <1>1, <1>2, <2>1 DEF DInv, Types, RecordsOnlyWhatWasSeen, LaterEngine, DonePast, DoneBefore,
       Handling
<1>4. Remembered(E)'
  <2>1. \A p, v : Past(p, v)' => Past(p, v) /\ file[p].here
    BY <1>1 DEF Past
  <2>2. \A p, v : Final(p, v) /\ file[p].here => Final(p, v)'
    BY <1>1, <1>2 DEF Final
  <2> QED
    BY <1>1, <2>1, <2>2 DEF DInv, Remembered
<1>5. OneStale'
  <2>1. Stale' \subseteq Stale
    BY <1>1, <1>2 DEF Stale
  <2>2. ~StaleInHand'
    BY <1>1 DEF StaleInHand
  <2> QED
    BY <1>1, <2>1, <2>2 DEF DInv, OneStale
<1> QED
  BY <1>3, <1>4, <1>5 DEF DInv

\* The tail of reloadConfig.  What the new engine has done by then is in hand
\* or superseded: no record is needed for it.
LEMMA ResetStep == ASSUME NEW E, RP!IInv, DInv(E), Reset PROVE DInv(E)'
<1>1. /\ reload.pc = "swapped" /\ engine' = engine /\ proc' = proc /\ reload' = [reload EXCEPT !.pc = "idle", !.dry = FALSE]
      /\ tracker' = Emptied /\ done' \subseteq done
      /\ UNCHANGED <<file, loop, handle>>
  BY DEF Reset, R!ReloadFinish
<1>2. DOMAIN tracker' = {}
  BY <1>1 DEF Emptied
<1>3. Types' /\ RecordsOnlyWhatWasSeen'
  BY <1>1, <1>2 DEF DInv, Types, RecordsOnlyWhatWasSeen
<1>4. Handling'
  BY <1>1 DEF DInv, Handling
<1>4a. reload'.pc = "idle"
  BY <1>1 DEF RP!IInv, RP!TypeOK, RP!ReloadState
<1>5. LaterEngine'
  BY <1>1, <1>4a DEF LaterEngine
<1>6. Remembered(E)' /\ DonePast' /\ DoneBefore'
  BY <1>1 DEF DInv, Remembered, DonePast, DoneBefore, Past, Final, InHand
<1>7. OneStale'
  BY <1>2 DEF OneStale, Stale
<1> QED
  BY <1>3, <1>4, <1>5, <1>6, <1>7 DEF DInv

-----------------------------------------------------------------------------
(* handlePath.                                                             *)

\* What Process does to proc.
LEMMA ProcessSteps ==
  ASSUME RP!IInv
  PROVE  /\ R!ProcessCall => proc.pc = "out" /\ proc'.pc \in {"entered", "blocked"}
         /\ R!StatFails => proc.pc = "entered" /\ proc'.pc = "out"
         /\ R!Snapshot => proc.pc = "entered" /\ proc'.pc = "deciding" /\ proc'.load = engine.load
         /\ R!NoAction => proc.pc = "deciding" /\ proc'.pc = "out"
         /\ R!StartActions => proc.pc = "deciding" /\ proc'.pc = "acting" /\ proc'.load = proc.load
         /\ R!EndActions => proc.pc = "acting" /\ proc'.pc = "out"
         /\ R!ProcessCall \/ R!StatFails \/ R!Snapshot \/ R!NoAction \/ R!StartActions \/ R!EndActions
              => engine' = engine /\ reload' = reload
<1>1. proc \in R!ProcState
  BY DEF RP!IInv, RP!TypeOK, RP!ProcState, RP!Loads, R!Loads, R!ProcState
<1> QED
  BY <1>1 DEF R!ProcState, R!ProcessCall, R!StatFails, R!Snapshot, R!NoAction, R!StartActions, R!EndActions,
     R!ProcessReturn, R!Out

\* From Stat to MarkProcessed.
LEMMA Advances ==
  ASSUME NEW E, DInv(E), handle.pc \in {"process", "running"}, handle' \in HandleState,
         handle'.path = handle.path, handle'.ver = handle.ver,
         handle'.pc \in {"running", "mark"}, handle'.pc = "running" <=> proc'.pc # "out",
         handle'.pc = "running" => ~handle'.dry,
         proc'.pc \in {"deciding", "acting"} =>
           /\ handle'.ver <= handle'.seen /\ handle'.seen <= file[handle.path].ver
           /\ handle'.load = proc'.load,
         handle'.pc = "mark" => handle'.ver <= handle'.seen /\ handle'.load = engine.load,
         engine' = engine, reload' = reload, tracker' = tracker, done' = done, loop' = loop, file' = file
  PROVE  DInv(E)'
<1>1. Types' /\ RecordsOnlyWhatWasSeen' /\ LaterEngine' /\ DonePast' /\ DoneBefore'
  BY DEF DInv, Types, RecordsOnlyWhatWasSeen, LaterEngine, DonePast, DoneBefore
<1>2. Handling'
  BY DEF DInv, Handling
<1>3. Remembered(E)'
  BY DEF DInv, Remembered, Past, Final, InHand
<1>4. Stale' = Stale /\ ~StaleInHand'
  BY DEF Stale, StaleInHand
<1>5. OneStale'
  BY <1>4 DEF DInv, OneStale
<1> QED
  BY <1>1, <1>2, <1>3, <1>5 DEF DInv

LEMMA AskStep == ASSUME NEW E, RP!IInv, DInv(E), AskTracker PROVE DInv(E)'
<1>1. /\ handle.pc = "stat" /\ handle.path \in Paths /\ proc.pc = "out"
      /\ UNCHANGED <<engine, reload, proc, file, tracker, loop, done>>
  BY DEF AskTracker, DInv, Handling, runtimeVars
<1>2. handle \in HandleState /\ ~handle.dry /\ file[handle.path].ver \in Versions
  BY <1>1, FileFields DEF DInv, Types, Handling
<1>3. CASE ~ShouldProcess(handle.path, file[handle.path].ver, rtDry)
  <2>1. handle' = Resting
    BY <1>3 DEF AskTracker
  <2> QED
    BY <1>1, <2>1, RestingType, Rests DEF DInv, Types
<1>4. CASE ShouldProcess(handle.path, file[handle.path].ver, rtDry)
  <2>1. handle' = [handle EXCEPT !.pc = "process", !.ver = file[handle.path].ver]
    BY <1>4 DEF AskTracker
  <2>2. /\ handle' \in HandleState /\ handle'.pc = "process" /\ handle'.ver = file[handle.path].ver
        /\ handle'.path = handle.path /\ handle'.dry = handle.dry
    BY <1>2, <2>1 DEF HandleState, HandlePcs
  <2>3. Types' /\ RecordsOnlyWhatWasSeen' /\ LaterEngine' /\ DonePast'
    BY <1>1, <2>2 DEF DInv, Types, RecordsOnlyWhatWasSeen, LaterEngine, DonePast
  <2>4. Handling'
    <3>1. file[handle.path].ver \in Nat
      BY <1>1, FileFields DEF DInv
    <3>2. handle'.ver <= file[handle.path].ver
      BY <2>2, <3>1
    <3> QED
      BY <1>1, <1>2, <2>2, <3>2 DEF Handling
  <2>5. Remembered(E)'
    <3> SUFFICES ASSUME engine.load \in E, NEW p \in Paths, NEW v \in Versions, Past(p, v)
                 PROVE  /\ v <= file[p].ver /\ (v < file[p].ver \/ Final(p, v))
                        /\ handle.path = p => v < handle'.ver
      BY <1>1, <2>2 DEF Remembered, Past, Final
    <3>1. v <= file[p].ver /\ (v < file[p].ver \/ Final(p, v))
      BY <1>1 DEF DInv, Remembered
    <3>2. CASE handle.path = p
      <4>1. v \in Nat /\ file[p].ver \in Nat
        BY <1>2, <3>2, Numbers
      <4>2. ~(Final(p, v) /\ v = file[p].ver)
        BY <1>4, <3>2 DEF ShouldProcess, Untracked, Final
      <4> QED
        BY <2>2, <3>1, <3>2, <4>1, <4>2
    <3> QED
      BY <3>1, <3>2
  <2>8. DoneBefore'
    BY <1>1, <2>2 DEF DInv, DoneBefore
  <2>6. Stale' = Stale /\ ~StaleInHand'
    BY <1>1, <2>2 DEF Stale, StaleInHand
  <2>7. OneStale'
    BY <1>1, <2>6 DEF DInv, OneStale
  <2> QED
    BY <2>3, <2>4, <2>5, <2>7, <2>8 DEF DInv
<1> QED
  BY <1>3, <1>4

LEMMA EndSteps ==
  ASSUME NEW E, RP!IInv, DInv(E),
         CheckIgnore \/ FileMissing \/ FileGone \/ NotMatched \/ (\E gone \in BOOLEAN : Failed(gone))
  PROVE  DInv(E)'
<1>1. /\ handle.pc \in {"ignore", "stat", "running"} /\ UNCHANGED <<tracker, loop, done>>
  BY DEF CheckIgnore, FileMissing, FileGone, NotMatched, Failed
<1>2. engine' = engine /\ reload' = reload /\ proc'.pc = "out"
  BY ProcessSteps DEF CheckIgnore, FileMissing, FileGone, NotMatched, Failed, DInv, Handling, runtimeVars
<1>3. handle' = Resting \/ (handle.pc = "ignore" /\ handle' = [handle EXCEPT !.pc = "stat"])
  BY DEF CheckIgnore, FileMissing, FileGone, NotMatched, Failed
<1>4. /\ handle' \in HandleState /\ handle'.pc \in {"out", "stat"} /\ ~handle'.dry
      /\ handle'.pc # "out" => handle'.path \in Paths
  <2>1. handle \in HandleState
    BY DEF DInv, Types
  <2>2. CASE handle' = Resting
    BY <2>2, RestingType
  <2>3. CASE handle.pc = "ignore" /\ handle' = [handle EXCEPT !.pc = "stat"]
    <3>1. handle' \in HandleState /\ handle'.pc = "stat" /\ handle'.path = handle.path /\ handle'.dry = handle.dry
      BY <2>1, <2>3 DEF HandleState, HandlePcs
    <3> QED
      BY <2>3, <3>1 DEF DInv, Handling
  <2> QED
    BY <1>3, <2>2, <2>3
<1>5. file' \in [Paths -> FileState] /\ \A p \in Paths : file'[p].ver = file[p].ver
  <2>1. file \in [Paths -> FileState]
    BY DEF DInv, Types
  <2>2. CASE \E gone \in BOOLEAN : Failed(gone)
    <3>1. PICK gone \in BOOLEAN : file' = [file EXCEPT ![handle.path].here = @ /\ ~gone]
      BY <2>2 DEF Failed
    <3> QED
      BY <2>1, <3>1 DEF FileState
  <2>3. CASE CheckIgnore \/ FileMissing \/ FileGone \/ NotMatched
    BY <2>1, <2>3 DEF CheckIgnore, FileMissing, FileGone, NotMatched
  <2> QED
    BY <2>2, <2>3
<1>6. loop' \in LoopState
  BY <1>1 DEF DInv, Types
<1> QED
  BY <1>1, <1>2, <1>4, <1>5, <1>6, Rests

LEMMA InProcess ==
  ASSUME NEW E, RP!IInv, DInv(E), CallProcess \/ Evaluate \/ Described \/ Execute PROVE DInv(E)'
<1>1. /\ handle.pc \in {"process", "running"} /\ engine' = engine /\ reload' = reload
      /\ UNCHANGED <<tracker, done, loop, file>>
  BY ProcessSteps DEF CallProcess, Evaluate, Described, Execute, daemonVars
<1>2. handle \in HandleState /\ handle.path \in Paths /\ ~handle.dry
      /\ handle.ver <= file[handle.path].ver
  BY <1>1 DEF DInv, Types, Handling
<1>3. CASE CallProcess
  <2>1. handle' = [handle EXCEPT !.pc = "running"] /\ proc'.pc \in {"entered", "blocked"}
    BY <1>3, ProcessSteps DEF CallProcess
  <2>2. /\ handle' \in HandleState /\ handle'.pc = "running" /\ handle'.path = handle.path
        /\ handle'.ver = handle.ver /\ handle'.dry = handle.dry
    BY <1>2, <2>1 DEF HandleState, HandlePcs
  <2> QED
    BY <1>1, <1>2, <2>1, <2>2, Advances
<1>4. CASE Evaluate
  <2>1. /\ handle.pc = "running" /\ proc'.pc = "deciding" /\ proc'.load = engine.load
        /\ handle' = [handle EXCEPT !.match = Matching(handle.path),
                                    !.seen = file[handle.path].ver, !.load = engine.load]
    BY <1>4, ProcessSteps DEF Evaluate
  <2>2. Matching(handle.path) \in BOOLEAN /\ file[handle.path].ver \in Versions /\ engine.load \in R!Loads
    BY <1>2, FileFields, FromRuntime DEF Matching, DInv
  <2>3. /\ handle' \in HandleState /\ handle'.pc = "running" /\ handle'.path = handle.path
        /\ handle'.ver = handle.ver /\ handle'.dry = handle.dry
        /\ handle'.seen = file[handle.path].ver /\ handle'.load = engine.load
    BY <1>2, <2>1, <2>2 DEF HandleState, HandlePcs
  <2>4. handle'.seen <= file[handle.path].ver
    BY <1>2, <2>3, FileFields DEF DInv
  <2> QED
    BY <1>1, <1>2, <2>1, <2>3, <2>4, Advances
<1>5. CASE Described
  <2>1. /\ handle.pc = "running" /\ proc.pc = "deciding" /\ proc'.pc = "out"
        /\ handle' = [handle EXCEPT !.pc = "mark", !.dry = TRUE]
    BY <1>5, ProcessSteps DEF Described
  <2>2. /\ handle' \in HandleState /\ handle'.pc = "mark" /\ handle'.path = handle.path
        /\ handle'.ver = handle.ver /\ handle'.seen = handle.seen /\ handle'.load = handle.load
    BY <1>2, <2>1 DEF HandleState, HandlePcs
  <2>3. handle.ver <= handle.seen /\ handle.load = engine.load
    BY <2>1, FromRuntime DEF DInv, Handling
  <2> QED
    BY <1>1, <2>1, <2>2, <2>3, Advances
<1>6. CASE Execute
  <2>1. handle.pc = "running" /\ proc.pc = "deciding" /\ proc'.pc = "acting" /\ proc'.load = proc.load
        /\ handle' = handle
    BY <1>6, ProcessSteps DEF Execute, daemonVars
  <2>2. handle.ver <= handle.seen /\ handle.seen <= file[handle.path].ver /\ handle.load = proc.load
    BY <2>1 DEF DInv, Handling
  <2> QED
    BY <1>1, <1>2, <2>1, <2>2, Advances
<1> QED
  BY <1>3, <1>4, <1>5, <1>6

\* The actions have worked: until MarkProcessed, handle stands for the record.
LEMMA SucceededStep ==
  ASSUME NEW E, RP!IInv, DInv(E), NEW gone \in BOOLEAN, Succeeded(gone) PROVE DInv(E)'
<1>1. /\ handle.pc = "running" /\ proc.pc = "acting" /\ proc'.pc = "out" /\ engine' = engine /\ reload' = reload
      /\ handle' = [handle EXCEPT !.pc = "mark"]
      /\ file' = [file EXCEPT ![handle.path].here = @ /\ ~gone]
      /\ done' = done \cup {[path |-> handle.path, ver |-> handle.ver,
                              seen |-> handle.seen, load |-> handle.load]}
      /\ UNCHANGED <<tracker, loop>>
  BY ProcessSteps DEF Succeeded
<1>2. /\ handle \in HandleState /\ handle.path \in Paths /\ ~handle.dry /\ handle.ver <= handle.seen
      /\ handle.load = engine.load /\ handle.ver <= file[handle.path].ver
      /\ handle.seen <= file[handle.path].ver
  BY <1>1, FromRuntime DEF DInv, Types, Handling
<1>3. /\ handle' \in HandleState /\ handle'.pc = "mark" /\ handle'.path = handle.path
      /\ handle'.ver = handle.ver /\ handle'.seen = handle.seen /\ handle'.load = handle.load
      /\ handle'.dry = handle.dry
  BY <1>1, <1>2 DEF HandleState, HandlePcs
<1>4. file' \in [Paths -> FileState] /\ \A p \in Paths : file'[p].ver = file[p].ver
  BY <1>1 DEF DInv, Types, FileState
<1>5. done' \subseteq Success
  <2>1. handle.ver \in Versions /\ handle.seen \in Versions /\ handle.load \in R!Loads
    BY <1>2, Fields
  <2> QED
    BY <1>1, <1>2, <2>1 DEF DInv, Types, Success
<1>6. Types' /\ RecordsOnlyWhatWasSeen' /\ LaterEngine'
  BY <1>1, <1>3, <1>4, <1>5 DEF DInv, Types, RecordsOnlyWhatWasSeen, LaterEngine
<1>10. DonePast'
  <2> SUFFICES ASSUME NEW d \in done' PROVE d.load <= engine.load
    BY <1>1 DEF DonePast
  <2>1. d \in done \/ d.load = engine.load
    BY <1>1, <1>2
  <2>2. d \in done => d.load <= engine.load
    BY DEF DInv, DonePast
  <2>3. engine.load <= engine.load
    <3>1. engine.load \in Nat
      BY FromRuntime, Numbers
    <3> QED
      BY <3>1
  <2> QED
    BY <2>1, <2>2, <2>3
<1>11. DoneBefore'
  <2> SUFFICES ASSUME NEW d \in done' PROVE d.ver <= d.seen /\ d.seen <= file'[d.path].ver
    BY <1>3 DEF DoneBefore
  <2>1. CASE d \in done
    <3>1. d.path \in Paths
      BY <2>1 DEF DInv, Types, Success
    <3> QED
      BY <1>4, <2>1, <3>1 DEF DInv, DoneBefore
  <2>2. CASE d \notin done
    <3>1. d.path = handle.path /\ d.ver = handle.ver /\ d.seen = handle.seen
      BY <1>1, <2>2
    <3> QED
      BY <1>2, <1>4, <3>1
  <2> QED
    BY <2>1, <2>2
<1>7. Handling'
  BY <1>1, <1>2, <1>3, <1>4 DEF Handling
<1>8. Remembered(E)'
  <2> SUFFICES ASSUME engine.load \in E, NEW p \in Paths, NEW v \in Versions, Past(p, v)'
               PROVE  /\ v <= file[p].ver
                      /\ v < file[p].ver \/ Final(p, v) \/ InHand(p, v)
                      /\ handle.path = p => v < handle.ver \/ InHand(p, v)
    BY <1>1 DEF Remembered, Final, InHand
  <2>1. CASE Past(p, v)
    BY <1>1, <2>1 DEF DInv, Remembered
  <2>2. CASE ~Past(p, v)
    <3>1. [path |-> p, ver |-> v, seen |-> v, load |-> engine.load]
            = [path |-> handle.path, ver |-> handle.ver, seen |-> handle.seen, load |-> handle.load]
      BY <1>1, <2>2 DEF Past
    <3>2. p = handle.path /\ v = handle.ver
      BY <3>1
    <3>3. InHand(p, v) /\ v <= file[p].ver
      BY <1>2, <3>2 DEF InHand
    <3> QED
      BY <3>3
  <2> QED
    BY <2>1, <2>2
<1>9. OneStale'
  <2>1. Stale' = Stale /\ ~StaleInHand'
    BY <1>1, <1>2, <1>3 DEF Stale, StaleInHand
  <2> QED
    BY <1>1, <2>1 DEF DInv, OneStale
<1> QED
  BY <1>6, <1>7, <1>8, <1>9, <1>10, <1>11 DEF DInv

\* MarkProcessed: the record replaces handle, and what an earlier one said is
\* of an older version.
LEMMA MarkStep ==
  ASSUME NEW E, RP!IInv, DInv(E), Mark, engine.load \in E => MarkInTime
  PROVE  DInv(E)'
<1>1. /\ handle.pc = "mark" /\ handle' = Resting /\ tracker' = MarkProcessed
      /\ UNCHANGED <<engine, reload, proc, file, loop, done>>
  BY DEF Mark, runtimeVars
<1>2. handle \in HandleState /\ handle.path \in Paths /\ handle.ver <= file[handle.path].ver
      /\ handle.ver <= handle.seen /\ proc.pc = "out"
  BY <1>1 DEF DInv, Types, Handling
<1> DEFINE new == [ver |-> handle.ver, dry |-> handle.dry, seen |-> handle.seen, load |-> handle.load]
<1>3. /\ DOMAIN tracker' = DOMAIN tracker \cup {handle.path}
      /\ tracker'[handle.path] = new
      /\ \A p \in DOMAIN tracker : p # handle.path => tracker'[p] = tracker[p]
  BY <1>1 DEF MarkProcessed
<1>4. new \in Record /\ new.ver = handle.ver /\ new.dry = handle.dry /\ new.seen = handle.seen /\ new.load = handle.load
  BY <1>2, Fields DEF Record
<1> HIDE DEF new
<1>5. Types' /\ RecordsOnlyWhatWasSeen' /\ LaterEngine' /\ DonePast' /\ DoneBefore'
  BY <1>1, <1>2, <1>3, <1>4, RestingType DEF DInv, Types, RecordsOnlyWhatWasSeen, LaterEngine, DonePast,
     DoneBefore
<1>6. Handling'
  BY <1>1, <1>2, RestingType DEF Handling
<1>7. Remembered(E)'
  <2> SUFFICES ASSUME engine.load \in E, NEW p \in Paths, NEW v \in Versions, Past(p, v)
               PROVE  v <= file[p].ver /\ (v < file[p].ver \/ Final(p, v)')
    BY <1>1, RestingType DEF Remembered, Past
  <2>1. /\ v <= file[p].ver
        /\ v < file[p].ver \/ Final(p, v) \/ InHand(p, v)
        /\ handle.path = p => v < handle.ver \/ InHand(p, v)
    BY <1>1 DEF DInv, Remembered
  <2>2. CASE p # handle.path
    BY <1>1, <1>3, <2>1, <2>2 DEF Final, InHand
  <2>3. CASE p = handle.path
    <3>1. InHand(p, v) => Final(p, v)'
      BY <1>1, <1>3, <1>4 DEF InHand, Final, MarkInTime
    <3>2. v < handle.ver => v < file[p].ver
      <4>1. v \in Nat /\ handle.ver \in Nat /\ file[p].ver \in Nat
        BY <1>2, Fields, FileFields, Numbers DEF DInv
      <4> QED
        BY <1>2, <2>3, <4>1
    <3> QED
      BY <2>1, <2>3, <3>1, <3>2
  <2> QED
    BY <2>2, <2>3
<1>8. OneStale'
  <2> SUFFICES ASSUME reload.pc # "swapped"
               PROVE  Stale' = {} \/ (~StaleInHand' /\ \E p \in Paths : Stale' \subseteq {p})
    BY <1>1 DEF OneStale
  <2>1. ~StaleInHand'
    BY <1>1, RestingType DEF StaleInHand
  <2>2. Stale = {} \/ (~StaleInHand /\ \E p \in Paths : Stale \subseteq {p})
    BY DEF DInv, OneStale
  <2>3. Stale' \subseteq Stale \cup {handle.path}
    BY <1>1, <1>3 DEF Stale
  <2>4. ~StaleInHand => Stale' \subseteq Stale
    BY <1>1, <1>3, <1>4 DEF Stale, StaleInHand
  <2> QED
    BY <1>2, <2>1, <2>2, <2>3, <2>4
<1> QED
  BY <1>5, <1>6, <1>7, <1>8 DEF DInv

-----------------------------------------------------------------------------
(* The invariant holds.                                                    *)

LEMMA InitDInv == ASSUME NEW E, Init PROVE DInv(E)
<1>1. /\ engine.load = 0 /\ proc.pc = "out" /\ reload.pc = "idle"
      /\ DOMAIN tracker = {} /\ handle = Resting /\ done = {}
      /\ loop = [pc |-> "listing", todo |-> {}]
      /\ file \in [Paths -> [here : BOOLEAN, ver : {0}, aged : {FALSE}]]
  <2>1. R!Init /\ tracker = [p \in {} |-> 0] /\ handle = Resting /\ done = {}
    BY DEF Init
  <2>2. PICK p \in BOOLEAN : engine = [load |-> 0, dry |-> rtDry, pool |-> p]
    BY <2>1, Zenon DEF R!Init
  <2>3. proc.pc = "out" /\ reload.pc = "idle"
    BY <2>1 DEF R!Init, R!Out
  <2>4. DOMAIN tracker = {} /\ engine.load = 0
    BY <2>1, <2>2
  <2> QED
    BY <2>1, <2>3, <2>4 DEF Init
<1>2. file \in [Paths -> FileState] /\ loop \in LoopState
  BY <1>1, Numbers DEF FileState, LoopState
<1>3. Types /\ RecordsOnlyWhatWasSeen /\ LaterEngine
  BY <1>1, <1>2, RestingType DEF Types, RecordsOnlyWhatWasSeen, LaterEngine
<1>4. Handling
  BY <1>1, RestingType DEF Handling
<1>5. Remembered(E) /\ OneStale /\ DonePast /\ DoneBefore
  BY <1>1 DEF Remembered, Past, OneStale, Stale, DonePast, DoneBefore
<1> QED
  BY <1>3, <1>4, <1>5 DEF DInv

LEMMA Steps ==
  ASSUME NEW E, RP!IInv, RP!IInv', DInv(E), [Next]_vars, engine.load \in E => [MarkInTime]_vars
  PROVE  DInv(E)'
<1>0. Mark => vars' # vars
  <2> SUFFICES ASSUME Mark PROVE handle' # handle
    BY DEF vars, daemonVars
  <2> QED
    BY RestingType DEF Mark
<1>1. CASE \E p \in Paths : FileStep(p) \/ Deliver(p)
  BY <1>1, FileSteps, LoopSteps
<1>2. CASE HandlePath
  <2>1. CASE Mark
    BY <1>0, <2>1, MarkStep
  <2>2. CASE HandlePath /\ ~Mark
    BY <2>2, EndSteps, AskStep, InProcess, SucceededStep DEF HandlePath
  <2> QED
    BY <1>2, <2>1, <2>2
<1>3. CASE Sweep \/ Return
  BY <1>3, LoopSteps DEF Sweep
<1>4. CASE Tick \/ Reset
  BY <1>4, TickStep, ResetStep
<1>5. CASE \/ Others(ReloadUntilSwapped) \/ (\E h \in Handlers : Others(R!HandlerStep(h)))
           \/ Others(R!Cancel) \/ Others(R!MainStep)
  BY <1>5, OthersStep DEF Others
<1>6. CASE UNCHANGED vars
  <2>1. UNCHANGED <<engine, reload, proc, file, tracker, loop, handle, done>>
    BY <1>6 DEF vars, runtimeVars, daemonVars
  <2> QED
    BY <2>1 DEF DInv, Types, Handling, RecordsOnlyWhatWasSeen, Remembered, Past, Final, InHand, LaterEngine,
       DonePast, DoneBefore, OneStale, Stale, StaleInHand
<1> QED
  BY <1>1, <1>2, <1>3, <1>4, <1>5, <1>6 DEF Next

\* Said of the first engine, it is an invariant: where LaterEngine holds, no
\* Mark of the first engine's is late.
THEOREM Invariance == Spec => []DInv({0})
<1>1. Init => DInv({0})
  BY InitDInv
<1>2. RP!IInv /\ RP!IInv' /\ DInv({0}) /\ [Next]_vars => DInv({0})'
  <2> SUFFICES ASSUME RP!IInv, RP!IInv', DInv({0}), [Next]_vars PROVE DInv({0})'
    OBVIOUS
  <2>1. engine.load \in {0} => [MarkInTime]_vars
    BY DEF DInv, LaterEngine, MarkInTime
  <2> QED
    BY <2>1, Steps
<1> QED
  BY <1>1, <1>2, RuntimeInvariance, PTL DEF Spec

\* Said of every engine, it is one if successes are recorded in time.
LEMMA InvarianceInTime == Spec /\ [][MarkInTime]_vars => []DInv(R!Loads)
<1>1. Init => DInv(R!Loads)
  BY InitDInv
<1>2. RP!IInv /\ RP!IInv' /\ DInv(R!Loads) /\ [Next]_vars /\ [MarkInTime]_vars
        => DInv(R!Loads)'
  BY Steps
<1> QED
  BY <1>1, <1>2, RuntimeInvariance, PTL DEF Spec

-----------------------------------------------------------------------------
(* What follows.                                                           *)

\* Every variable of Runtime, and every one of the daemon goroutine, has its
\* type at all times.
THEOREM TypeCorrect == Spec => []TypeOK
<1>1. RP!IInv => R!TypeOK
  BY DEF RP!IInv, RP!TypeOK, R!TypeOK, RP!Loads, R!Loads, RP!PoolState, R!PoolState, RP!ToggleState,
     R!ToggleState, RP!ReloadState, R!ReloadState, RP!ProcState, R!ProcState
<1>2. R!TypeOK /\ DInv({0}) => TypeOK
  BY DEF DInv, Types, TypeOK, HandleState, HandlePcs, LoopState
<1> QED
  BY <1>1, <1>2, Invariance, RuntimeInvariance, PTL

\* handlePath stats the file before Process does and keeps what it saw: a
\* change in between makes the record too old, never too new.
THEOREM RecordsAreSeen == Spec => []RecordsOnlyWhatWasSeen
<1>1. DInv({0}) => RecordsOnlyWhatWasSeen
  BY DEF DInv
<1> QED
  BY <1>1, Invariance, PTL

\* What the running actions have been done to before was not recorded as that.
LEMMA Repeats ==
  ASSUME NEW E, RP!IInv, DInv(E), engine.load \in E
  PROVE  OnlyMisrecordedRepeats
<1> SUFFICES ASSUME proc.pc = "acting", NEW d \in Before
             PROVE  d.ver < d.seen /\ handle.ver = handle.seen
  BY DEF OnlyMisrecordedRepeats
<1>1. /\ handle.pc = "running" /\ handle.path \in Paths /\ proc.load = engine.load
      /\ handle.ver <= handle.seen /\ handle \in HandleState
  BY FromRuntime DEF DInv, Types, Handling
<1>2. /\ d \in done /\ d \in Success /\ d.path = handle.path /\ d.seen = handle.seen
      /\ d.load = engine.load
  BY <1>1 DEF Before, DInv, Types
<1>3. /\ d.ver \in Nat /\ d.seen \in Versions /\ d.seen \in Nat /\ handle.ver \in Nat
      /\ handle.seen \in Nat
  BY <1>1, <1>2, Fields, Numbers DEF Success
<1>4. d.ver <= d.seen /\ d.seen <= handle.ver
  BY <1>1, <1>2 DEF DInv, DoneBefore
<1>5. d.ver # d.seen
  <2> SUFFICES ASSUME d.ver = d.seen PROVE FALSE
    OBVIOUS
  <2>1. d = [path |-> handle.path, ver |-> d.seen, seen |-> d.seen, load |-> engine.load]
    BY <1>2 DEF Success
  <2>2. Past(handle.path, d.seen)
    BY <1>2, <2>1 DEF Past
  <2>3. d.seen < handle.ver
    BY <1>1, <1>3, <2>2 DEF DInv, Remembered
  <2> QED
    BY <1>1, <1>2, <1>3, <2>3
<1> QED
  BY <1>1, <1>2, <1>3, <1>4, <1>5

\* The engine that main built repeats nothing but what changed between the two
\* Stats the first time, and that once, whatever sweep, watcher, tray and
\* reload do meanwhile.
THEOREM RepeatsOfFirst == Spec => []OnlyMisrecordedRepeatsUntilReload
<1>1. RP!IInv /\ DInv({0}) => OnlyMisrecordedRepeatsUntilReload
  <2> SUFFICES ASSUME RP!IInv, DInv({0}), proc.load = 0, proc.pc = "acting"
               PROVE  OnlyMisrecordedRepeats
    BY DEF OnlyMisrecordedRepeatsUntilReload, OnlyMisrecordedRepeats
  <2>1. engine.load = 0
    BY FromRuntime
  <2> QED
    BY <2>1, Repeats
<1> QED
  BY <1>1, Invariance, RuntimeInvariance, PTL

\* So does any other engine, as long as no success of its own is recorded
\* between SwapEngine and Reset.
THEOREM RepeatsOutsideWindow == Spec /\ [][MarkInTime]_vars => []OnlyMisrecordedRepeats
<1>1. RP!IInv /\ DInv(R!Loads) => OnlyMisrecordedRepeats
  BY FromRuntime, Repeats
<1> QED
  BY <1>1, InvarianceInTime, RuntimeInvariance, PTL

\* So it is at all times, if the configuration is not reloaded.
COROLLARY RepeatsWithoutReload ==
  ASSUME MaxReloads = 0
  PROVE  Spec => []OnlyMisrecordedRepeats
<1>1. RP!IInv /\ OnlyMisrecordedRepeatsUntilReload => OnlyMisrecordedRepeats
  <2> SUFFICES ASSUME RP!IInv, OnlyMisrecordedRepeatsUntilReload, proc.pc = "acting"
               PROVE  OnlyMisrecordedRepeats
    BY DEF OnlyMisrecordedRepeats
  <2>1. proc.load = 0
    BY FromRuntime, SMT DEF R!Loads
  <2> QED
    BY <2>1 DEF OnlyMisrecordedRepeatsUntilReload
<1> QED
  BY <1>1, RepeatsOfFirst, RuntimeInvariance, PTL

\* No actions succeed on a file that changed between the Stat of handlePath and
\* that of Engine.Process.
StatsAgree == \A gone \in BOOLEAN : Succeeded(gone) => handle.seen = handle.ver

AllAgree == \A d \in done : d.ver = d.seen

LEMMA Agreement == Spec /\ [][StatsAgree]_vars => []AllAgree
<1>1. Init => AllAgree
  BY DEF Init, AllAgree
<1>2. DInv({0}) /\ AllAgree /\ [Next]_vars /\ [StatsAgree]_vars => AllAgree'
  <2> SUFFICES ASSUME DInv({0}), AllAgree, [Next]_vars, [StatsAgree]_vars PROVE AllAgree'
    OBVIOUS
  <2>1. CASE \E gone \in BOOLEAN : Succeeded(gone)
    <3>1. PICK gone \in BOOLEAN : Succeeded(gone)
      BY <2>1
    <3>2. handle.pc = "running" /\ handle'.pc = "mark"
      BY <3>1 DEF Succeeded, DInv, Types, HandleState
    <3>3. vars' # vars
      BY <3>2 DEF vars, daemonVars
    <3>4. handle.seen = handle.ver
      BY <3>1, <3>3 DEF StatsAgree
    <3>5. done' = done \cup {[path |-> handle.path, ver |-> handle.ver,
                              seen |-> handle.seen, load |-> handle.load]}
      BY <3>1 DEF Succeeded
    <3> QED
      BY <3>4, <3>5 DEF AllAgree
  <2>2. CASE ~\E gone \in BOOLEAN : Succeeded(gone)
    <3>1. done' \subseteq done
      <4>1. CASE \E p \in Paths : FileStep(p) \/ Deliver(p)
        BY <4>1 DEF FileStep, Write, Remove, Restore, Age, Deliver
      <4>2. CASE HandlePath
        BY <2>2, <4>2 DEF HandlePath, CheckIgnore, FileMissing, AskTracker, CallProcess, FileGone,
           Evaluate, NotMatched, Described, Execute, Failed, Mark, daemonVars
      <4>3. CASE Sweep \/ Tick \/ Return \/ Reset
        BY <4>3 DEF Sweep, ReadDir, ReadDirFails, SweepDone, SweepFile, Tick, Return, Reset
      <4>4. CASE \/ Others(ReloadUntilSwapped) \/ Others(R!Cancel) \/ Others(R!MainStep)
                 \/ \E h \in Handlers : Others(R!HandlerStep(h))
        BY <4>4 DEF Others, daemonVars
      <4>5. CASE UNCHANGED vars
        BY <4>5 DEF vars, daemonVars
      <4> QED
        BY <4>1, <4>2, <4>3, <4>4, <4>5 DEF Next
    <3> QED
      BY <3>1 DEF AllAgree
  <2> QED
    BY <2>1, <2>2
<1> QED
  BY <1>1, <1>2, Invariance, PTL DEF Spec

\* "Files already processed successfully are skipped until they change", but for
\* two gaps, which are the only causes of a repeat: the one between the two
\* Stats and the one between SwapEngine and Reset.
THEOREM NoRepeatOutsideGaps == Spec /\ [][MarkInTime]_vars /\ [][StatsAgree]_vars => []NoRepeat
<1>1. OnlyMisrecordedRepeats /\ AllAgree /\ DInv({0}) => NoRepeat
  <2> SUFFICES ASSUME OnlyMisrecordedRepeats, AllAgree, DInv({0}), proc.pc = "acting", NEW d \in Before
               PROVE  FALSE
    BY DEF NoRepeat
  <2>1. d \in done /\ d.ver < d.seen /\ d.ver = d.seen
    BY DEF OnlyMisrecordedRepeats, AllAgree, Before
  <2>2. d.ver \in Nat /\ d.seen \in Nat
    BY <2>1, Numbers DEF DInv, Types, Success
  <2> QED
    BY <2>1, <2>2
<1> QED
  BY <1>1, RepeatsOutsideWindow, Agreement, Invariance, PTL

\* Once a reload is over all records but one are of the new engine: only the
\* file between Process and MarkProcessed escapes the Reset.
THEOREM OneStaleRecord == Spec => []AtMostOneStaleRecord
<1>1. DInv({0}) => AtMostOneStaleRecord
  <2> SUFFICES ASSUME DInv({0}), reload.pc # "swapped" PROVE Cardinality(Stale) <= 1
    BY DEF AtMostOneStaleRecord, Stale
  <2>1. CASE Stale = {}
    BY <2>1, FS_EmptySet
  <2>2. CASE Stale # {}
    <3>1. PICK p \in Paths : Stale \subseteq {p}
      BY <2>2 DEF DInv, OneStale
    <3>2. Stale = {p}
      BY <2>2, <3>1
    <3> QED
      BY <3>2, FS_Singleton
  <2> QED
    BY <2>1, <2>2
<1> QED
  BY <1>1, Invariance, PTL

-----------------------------------------------------------------------------
(* Daemon implements EngineCall: the call as handlePath sees it.           *)

On(f) == [p \in Paths |-> IF f[p].here THEN f[p].ver ELSE -1]
CallPath == IF proc.pc = "out" THEN NoPath ELSE handle.path
CallDry == CallPc \in {"deciding", "acting"} /\ proc.dry

LEMMA SameCall ==
  ASSUME proc' = proc, handle'.path = handle.path \/ proc.pc = "out"
  PROVE  CallPc' = CallPc /\ CallPath' = CallPath /\ CallDry' = CallDry
<1>1. CallPc' = CallPc /\ CallPath' = CallPath
  BY DEF CallPc, CallPath
<1>2. (CallPc' \in {"deciding", "acting"} /\ proc'.dry) = (CallPc \in {"deciding", "acting"} /\ proc.dry)
  BY <1>1
<1> QED
  BY <1>1, <1>2 DEF CallDry

LEMMA CallStutters ==
  ASSUME On(file') = On(file), ctxDone' = ctxDone,
         CallPc' = CallPc, CallPath' = CallPath, CallDry' = CallDry
  PROVE  UNCHANGED C!callVars
BY DEF C!callVars, On, CallPath, CallDry

\* Where the call is, from the phases of Runtime.
LEMMA CallNow ==
  /\ proc.pc = "out" => CallPc = "out" /\ CallPath = NoPath /\ CallDry = FALSE
  /\ proc.pc \in {"entered", "blocked"} =>
       CallPc = "called" /\ CallPath = handle.path /\ CallDry = FALSE
  /\ proc.pc \in {"deciding", "acting"} /\ proc.dry \in BOOLEAN =>
       CallPc = proc.pc /\ CallPath = handle.path /\ CallDry = proc.dry
BY DEF CallPc, CallPath, CallDry

LEMMA CallNext ==
  /\ proc'.pc = "out" => CallPc' = "out" /\ CallPath' = NoPath /\ CallDry' = FALSE
  /\ proc'.pc \in {"entered", "blocked"} =>
       CallPc' = "called" /\ CallPath' = handle'.path /\ CallDry' = FALSE
  /\ proc'.pc \in {"deciding", "acting"} /\ proc'.dry \in BOOLEAN =>
       CallPc' = proc'.pc /\ CallPath' = handle'.path /\ CallDry' = proc'.dry
BY DEF CallPc, CallPath, CallDry

\* What other programs do to the files.
LEMMA FilesChange ==
  ASSUME NEW E, DInv(E), NEW q \in Paths, FileStep(q)
  PROVE  C!Next \/ UNCHANGED C!callVars
<1>1. /\ proc' = proc /\ handle' = handle /\ ctxDone' = ctxDone
      /\ Age(q) \/ (q \in Changing /\ (Write(q) \/ Remove(q) \/ Restore(q)))
  BY DEF FileStep, Write, Remove, Restore, Age, runtimeVars
<1>2. CallPc' = CallPc /\ CallPath' = CallPath /\ CallDry' = CallDry
  BY <1>1, SameCall
<1>3. file \in [Paths -> FileState] /\ file[q].ver \in Versions
  BY FileFields DEF DInv, Types
<1>4. CASE Age(q)
  <2>1. file' = [file EXCEPT ![q].aged = TRUE]
    BY <1>4 DEF Age
  <2>2. \A p \in Paths : file'[p].here = file[p].here /\ file'[p].ver = file[p].ver
    BY <1>3, <2>1 DEF FileState
  <2>3. On(file') = On(file)
    BY <2>2 DEF On
  <2> QED
    BY <1>1, <1>2, <2>3, CallStutters
<1>5. CASE q \in Changing /\ (Write(q) \/ Remove(q) \/ Restore(q))
  <2>1. /\ \A p \in Paths \ {q} : file'[p] = file[p]
        /\ file'[q].here => file'[q].ver \in Versions
    <3>1. CASE Write(q)
      <4>1. file[q].ver + 1 \in Versions
        BY <1>3, <3>1, DaemonAssumption DEF Write, Versions
      <4>2. file'[q] = [here |-> TRUE, ver |-> file[q].ver + 1, aged |-> FALSE]
        BY <1>3, <3>1 DEF Write
      <4>3. \A p \in Paths \ {q} : file'[p] = file[p]
        BY <1>3, <3>1 DEF Write
      <4> QED
        BY <4>1, <4>2, <4>3
    <3>2. CASE Remove(q) \/ Restore(q)
      BY <1>3, <3>2 DEF Remove, Restore, FileState
    <3> QED
      BY <1>5, <3>1, <3>2
  <2> DEFINE c == IF file'[q].here THEN file'[q].ver ELSE -1
  <2>2. c \in Versions \cup {-1}
    BY <2>1
  <2>3. On(file') = [On(file) EXCEPT ![q] = c]
    <3>1. On(file')[q] = c /\ \A p \in Paths \ {q} : On(file')[p] = On(file)[p]
      BY <2>1 DEF On
    <3>2. DOMAIN On(file') = Paths /\ On(file') = [p \in Paths |-> On(file')[p]]
      BY DEF On
    <3>3. DOMAIN On(file) = Paths /\ On(file) = [p \in Paths |-> On(file)[p]]
      BY DEF On
    <3> HIDE DEF c
    <3> QED
      BY <3>1, <3>2, <3>3
  <2> HIDE DEF c
  <2>4. C!Change(q)
    BY <1>1, <1>2, <2>2, <2>3 DEF C!Change, On
  <2> QED
    BY <1>5, <2>4 DEF C!Next
<1> QED
  BY <1>1, <1>4, <1>5

\* The steps of handlePath within the call.
LEMMA CallProceeds ==
  ASSUME NEW E, RP!IInv, DInv(E),
         CallProcess \/ FileGone \/ Evaluate \/ NotMatched \/ Described \/ Execute
           \/ \E gone \in BOOLEAN : Succeeded(gone) \/ Failed(gone)
  PROVE  C!Next
<1>1. /\ ctxDone' = ctxDone /\ handle.pc \in {"process", "running"} /\ handle.path \in Paths
      /\ handle \in HandleState
  BY DEF CallProcess, FileGone, Evaluate, NotMatched, Described, Execute, Succeeded, Failed,
     R!ProcessCall, R!StatFails, R!Snapshot, R!NoAction, R!StartActions, R!EndActions, R!ProcessReturn,
     DInv, Handling, Types
<1>2. proc \in R!ProcState /\ engine.dry \in BOOLEAN
  BY DEF RP!IInv, RP!TypeOK, RP!ProcState, RP!Loads, R!Loads, R!ProcState
<1>3. On(file)[handle.path] = IF file[handle.path].here THEN file[handle.path].ver ELSE -1
  BY <1>1 DEF On
<1>4. CASE CallProcess
  <2>1. /\ proc.pc = "out" /\ proc'.pc \in {"entered", "blocked"} /\ file' = file
        /\ handle'.path = handle.path
    BY <1>1, <1>4, ProcessSteps DEF CallProcess, HandleState
  <2>2. /\ CallPc = "out" /\ CallDry = FALSE
        /\ CallPc' = "called" /\ CallPath' = handle.path /\ CallDry' = FALSE
    BY <2>1, CallNow, CallNext
  <2>3. C!Call(handle.path)
    BY <1>1, <2>1, <2>2 DEF C!Call
  <2> QED
    BY <1>1, <2>3 DEF C!Next
<1>5. CASE FileGone
  <2>1. proc.pc = "entered" /\ proc'.pc = "out" /\ file' = file /\ ~file[handle.path].here
    BY <1>5, ProcessSteps DEF FileGone
  <2>2. /\ CallPc = "called" /\ CallPath = handle.path
        /\ CallPc' = "out" /\ CallPath' = NoPath /\ CallDry' = FALSE
    BY <2>1, CallNow, CallNext
  <2>3. C!StatFails
    BY <1>1, <2>1, <2>2 DEF C!StatFails, C!Return
  <2> QED
    BY <2>3 DEF C!Next
<1>6. CASE Evaluate
  <2>1. /\ proc.pc = "entered" /\ proc'.pc = "deciding" /\ proc'.dry = engine.dry
        /\ file' = file /\ file[handle.path].here /\ handle'.path = handle.path
    BY <1>1, <1>6 DEF Evaluate, R!Snapshot, HandleState
  <2>2. /\ CallPc = "called" /\ CallPath = handle.path
        /\ CallPc' = "deciding" /\ CallPath' = handle.path /\ CallDry' \in BOOLEAN
    BY <1>2, <2>1, CallNow, CallNext
  <2>3. On(file)[CallPath] # -1
    BY <1>1, <1>3, <2>1, <2>2, FileFields DEF DInv
  <2>4. C!Look
    BY <1>1, <2>1, <2>2, <2>3 DEF C!Look, On
  <2> QED
    BY <2>4 DEF C!Next
<1>7. CASE NotMatched \/ Described
  <2>1. proc.pc = "deciding" /\ proc'.pc = "out" /\ file' = file
    BY <1>7, ProcessSteps DEF NotMatched, Described
  <2>2. CallPc = "deciding" /\ CallPc' = "out" /\ CallPath' = NoPath /\ CallDry' = FALSE
    BY <1>2, <2>1, CallNow, CallNext DEF R!ProcState
  <2>3. C!Decline
    BY <1>1, <2>1, <2>2 DEF C!Decline, C!Return
  <2> QED
    BY <2>3 DEF C!Next
<1>8. CASE Execute
  <2>1. /\ proc.pc = "deciding" /\ proc'.pc = "acting" /\ proc'.dry = proc.dry
        /\ ~ctxDone /\ ~proc.dry /\ proc.dry \in BOOLEAN /\ file' = file /\ handle' = handle
    BY <1>2, <1>8 DEF Execute, R!StartActions, R!MayAct, R!ProcState, daemonVars
  <2>2. /\ CallPc = "deciding" /\ CallPc' = "acting" /\ CallPath' = CallPath
        /\ CallDry' = CallDry /\ ~CallDry
    BY <2>1, CallNow, CallNext
  <2>3. C!Act
    BY <1>1, <2>1, <2>2 DEF C!Act
  <2> QED
    BY <2>3 DEF C!Next
<1>9. CASE \E gone \in BOOLEAN : Succeeded(gone) \/ Failed(gone)
  <2>1. PICK gone \in BOOLEAN : Succeeded(gone) \/ Failed(gone)
    BY <1>9
  <2>2. /\ proc.pc = "acting" /\ proc'.pc = "out" /\ proc.dry \in BOOLEAN
        /\ file' = [file EXCEPT ![handle.path].here = @ /\ ~gone]
    BY <1>2, <2>1, ProcessSteps DEF Succeeded, Failed, R!ProcState
  <2>3. /\ CallPc = "acting" /\ CallPath = handle.path
        /\ CallPc' = "out" /\ CallPath' = NoPath /\ CallDry' = FALSE
    BY <2>2, CallNow, CallNext
  <2>4. On(file') = On(file) \/ On(file') = [On(file) EXCEPT ![CallPath] = -1]
    <3>1. file \in [Paths -> FileState]
      BY DEF DInv, Types
    <3>2. \A p \in Paths : /\ file'[p].ver = file[p].ver
                           /\ p # handle.path => file'[p].here = file[p].here
      BY <1>1, <2>2, <3>1 DEF FileState
    <3>3. file'[handle.path].here <=> file[handle.path].here /\ ~gone
      BY <1>1, <2>2, <3>1 DEF FileState
    <3>4. CASE gone
      BY <1>1, <2>3, <3>2, <3>3, <3>4 DEF On
    <3>5. CASE ~gone
      BY <1>1, <3>2, <3>3, <3>5 DEF On
    <3> QED
      BY <3>4, <3>5
  <2>5. C!End
    BY <1>1, <2>3, <2>4 DEF C!End, C!Return, C!Taken, On, CallPath
  <2> QED
    BY <2>5 DEF C!Next
<1> QED
  BY <1>4, <1>5, <1>6, <1>7, <1>8, <1>9

\* Those of the other goroutines: the context, and what waits for the lock.
LEMMA CallUndisturbed ==
  ASSUME RP!IInv, UNCHANGED daemonVars,
         ReloadUntilSwapped \/ (\E h \in Handlers : R!HandlerStep(h)) \/ R!Cancel \/ R!MainStep
  PROVE  C!Next \/ UNCHANGED C!callVars
<1>1. /\ proc'.pc # "out" <=> proc.pc # "out"
      /\ proc'.pc \in {"deciding", "acting"} => proc' = proc
  BY Elsewhere
<1>2. proc \in R!ProcState /\ file' = file /\ handle' = handle
  BY DEF RP!IInv, RP!TypeOK, RP!ProcState, RP!Loads, R!Loads, R!ProcState, daemonVars
<1>3. proc' = proc \/ R!Unlock
  BY DEF ReloadUntilSwapped, R!HandlerStep, R!Command, R!Flip, R!SetDryRunLock, R!SetDryRun, R!Cancel,
     R!MainStep, R!StopServing, R!CloseLock, R!Close, R!Exit, R!ReloadStart, R!ReloadLoadFails,
     R!ReloadBuildFails, R!ReloadBuild, R!SwapEngineLock, R!SwapEngine
<1>4. proc' = proc \/ (proc.pc \in {"entered", "blocked"} /\ proc'.pc \in {"entered", "blocked"})
  BY <1>2, <1>3 DEF R!Unlock, R!Admitted, R!ProcState
<1>5. CallPc' = CallPc /\ CallPath' = CallPath /\ CallDry' = CallDry
  BY <1>2, <1>4, SameCall, CallNow, CallNext
<1>6. CASE R!Cancel
  <2>1. C!Cancel
    BY <1>2, <1>5, <1>6 DEF R!Cancel, C!Cancel
  <2> QED
    BY <2>1 DEF C!Next
<1>7. CASE ~R!Cancel
  <2>1. ctxDone' = ctxDone
    BY <1>7 DEF ReloadUntilSwapped, R!HandlerStep, R!Command, R!Flip, R!SetDryRunLock, R!SetDryRun,
       R!MainStep, R!StopServing, R!CloseLock, R!Close, R!Exit, R!ReloadStart, R!ReloadLoadFails,
       R!ReloadBuildFails, R!ReloadBuild, R!SwapEngineLock, R!SwapEngine
  <2> QED
    BY <1>2, <1>5, <2>1, CallStutters
<1> QED
  BY <1>6, <1>7

\* The rest of the daemon goroutine is not in a call.
LEMMA NoCall ==
  ASSUME NEW E, RP!IInv, DInv(E),
         CheckIgnore \/ FileMissing \/ AskTracker \/ Mark \/ Sweep \/ Tick \/ Return \/ Reset
           \/ \E p \in Paths : Deliver(p)
  PROVE  UNCHANGED C!callVars
<1>1. file' = file /\ ctxDone' = ctxDone /\ proc' = proc
  BY DEF CheckIgnore, FileMissing, AskTracker, Mark, Sweep, ReadDir, ReadDirFails, SweepDone, SweepFile, Tick, Return,
     Reset, R!ReloadFinish, Deliver, runtimeVars
<1>2. handle.pc # "running" \/ handle' = handle
  BY DEF CheckIgnore, FileMissing, AskTracker, Mark, Sweep, ReadDir, ReadDirFails, SweepDone, SweepFile, Tick, Return,
     Reset, Deliver, Between
<1>3. handle'.path = handle.path \/ proc.pc = "out"
  BY <1>2 DEF DInv, Handling
<1> QED
  BY <1>1, <1>3, SameCall, CallStutters

LEMMA CallInit == Init => C!Init
<1> SUFFICES ASSUME Init PROVE C!Init
  OBVIOUS
<1>1. proc.pc = "out" /\ ctxDone = FALSE
  BY DEF Init, R!Init, R!Out
<1>2. CallPc = "out" /\ CallPath = NoPath /\ CallDry = FALSE
  BY <1>1, CallNow
<1>3. On(file) \in [Paths -> Versions \cup {-1}]
  BY Numbers DEF Init, On
<1> QED
  BY <1>1, <1>2, <1>3 DEF C!Init, On

\* What handlePath calls is the call of EngineCall, for any files and engines:
\* RuleEngine, proved to be one too, is the inside of it.
THEOREM DaemonRefinesCall == Spec => ImplementsCall
<1>1. RP!IInv /\ DInv({0}) /\ [Next]_vars => [C!Next]_(C!callVars)
  <2> SUFFICES ASSUME RP!IInv, DInv({0}), [Next]_vars PROVE C!Next \/ UNCHANGED C!callVars
    OBVIOUS
  <2>1. CASE UNCHANGED vars
    <3>1. proc' = proc /\ handle' = handle /\ file' = file /\ ctxDone' = ctxDone
      BY <2>1 DEF vars, runtimeVars, daemonVars
    <3> QED
      BY <3>1, SameCall, CallStutters
  <2>2. CASE \E p \in Paths : FileStep(p)
    BY <2>2, FilesChange
  <2>3. CASE HandlePath
    BY <2>3, CallProceeds, NoCall DEF HandlePath
  <2>4. CASE (\E p \in Paths : Deliver(p)) \/ Sweep \/ Tick \/ Return \/ Reset
    BY <2>4, NoCall
  <2>5. CASE \/ Others(ReloadUntilSwapped) \/ Others(R!Cancel) \/ Others(R!MainStep)
             \/ \E h \in Handlers : Others(R!HandlerStep(h))
    BY <2>5, CallUndisturbed DEF Others
  <2> QED
    BY <2>1, <2>2, <2>3, <2>4, <2>5 DEF Next
<1> QED
  BY <1>1, CallInit, Invariance, RuntimeInvariance, PTL DEF Spec, ImplementsCall, C!Spec
=============================================================================
