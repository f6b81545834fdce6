--------------------------- MODULE RuntimeProofs ---------------------------
(***************************************************************************)
(* Proofs about Runtime, for any number of tray connections and reloads.   *)
(***************************************************************************)
EXTENDS Runtime, TLAPS

-----------------------------------------------------------------------------
(* Type correctness: every variable of the runtime keeps its type, for     *)
(* every set of connections and every bound on the reloads.                *)

LEMMA InitTypeOK == Init => TypeOK
<1> SUFFICES ASSUME Init PROVE TypeOK
  OBVIOUS
<1>1. 0 \in Loads
  BY RuntimeAssumption DEF Loads
<1>2. PICK p \in BOOLEAN :
        /\ engine = [load |-> 0, dry |-> rtDry, pool |-> p]
        /\ pools = [l \in Loads |-> IF l = 0 /\ p THEN "registered" ELSE "none"]
  BY DEF Init
<1>3. engine \in [load : Loads, dry : BOOLEAN, pool : BOOLEAN]
  BY <1>1, <1>2, Zenon DEF Init
<1>4. pools \in [Loads -> PoolState]
  BY <1>2 DEF PoolState
<1>5. toggle \in [Handlers -> ToggleState]
  BY DEF Init, Idle, ToggleState
<1>6. reload \in ReloadState /\ proc \in ProcState
  BY <1>1 DEF Init, Out, ReloadState, ProcState
<1> QED
  BY <1>3, <1>4, <1>5, <1>6 DEF Init, TypeOK

\* Proved before the lock discipline, on which it does not depend: Unlock
\* keeps the type of proc whoever was admitted.
LEMMA UnlockType == TypeOK /\ Unlock => proc' \in ProcState
  BY DEF TypeOK, Unlock, Admitted, ProcState

LEMMA HandlerTypeOK ==
  ASSUME TypeOK, NEW h \in Handlers, HandlerStep(h)
  PROVE  TypeOK'
<1> USE DEF TypeOK, ToggleState
<1>1. CASE Command(h)
  BY <1>1 DEF Command
<1>2. CASE Flip(h)
  BY <1>2 DEF Flip, Flipped
<1>3. CASE SetDryRunLock(h)
  BY <1>3 DEF SetDryRunLock, Announce
<1>4. CASE SetDryRun(h)
  <2>1. proc' \in ProcState
    BY <1>4, UnlockType DEF SetDryRun
  <2>2. engine' \in [load : Loads, dry : BOOLEAN, pool : BOOLEAN]
    BY <1>4 DEF SetDryRun, EngineInMode
  <2>3. toggle' \in [Handlers -> ToggleState]
    BY <1>4 DEF SetDryRun, Idle
  <2>4. rtDry' \in BOOLEAN
    BY <1>4 DEF SetDryRun
  <2> QED
    BY <1>4, <2>1, <2>2, <2>3 DEF SetDryRun, Unlock
<1> QED
  BY <1>1, <1>2, <1>3, <1>4 DEF HandlerStep

LEMMA ReloaderTypeOK == TypeOK /\ ReloaderStep => TypeOK'
<1> SUFFICES ASSUME TypeOK, ReloaderStep PROVE TypeOK'
  OBVIOUS
<1> USE RuntimeAssumption DEF TypeOK, ReloadState, PoolState, Loads
<1>1. CASE ReloadStart
  <2>1. reload.load + 1 \in Loads
    BY <1>1 DEF ReloadStart
  <2>2. reload' \in ReloadState
    BY <1>1, <2>1 DEF ReloadStart
  <2> QED
    BY <1>1, <2>2 DEF ReloadStart
<1>2. CASE ReloadLoadFails
  BY <1>2 DEF ReloadLoadFails
<1>3. CASE ReloadBuildFails
  BY <1>3 DEF ReloadBuildFails
<1>4. CASE \E hasPool \in BOOLEAN : ReloadBuild(hasPool)
  BY <1>4 DEF ReloadBuild
<1>5. CASE SwapEngineLock
  BY <1>5 DEF SwapEngineLock, Announce
<1>6. CASE SwapEngine
  <2>1. proc' \in ProcState
    BY <1>6, UnlockType DEF SwapEngine
  <2>2. reload.load \in Loads /\ reload.dry \in BOOLEAN
    OBVIOUS
  <2>3. engine' \in [load : Loads, dry : BOOLEAN, pool : BOOLEAN]
    BY <1>6, <2>2, Zenon DEF SwapEngine
  <2>4. pools' \in [Loads -> PoolState]
    BY <1>6 DEF SwapEngine, Registered
  <2>5. reload' \in ReloadState
    BY <1>6 DEF SwapEngine
  <2> QED
    BY <1>6, <2>1, <2>4 DEF SwapEngine, Unlock
<1>7. CASE ReloadFinish
  BY <1>7 DEF ReloadFinish
<1> QED
  BY <1>1, <1>2, <1>3, <1>4, <1>5, <1>6, <1>7 DEF ReloaderStep

LEMMA ProcessTypeOK == TypeOK /\ ProcessStep => TypeOK'
<1> SUFFICES ASSUME TypeOK, ProcessStep PROVE TypeOK'
  OBVIOUS
<1> USE RuntimeAssumption DEF TypeOK, ProcState, Loads
<1>1. CASE ProcessCall
  BY <1>1 DEF ProcessCall
<1>2. CASE StatFails \/ NoAction \/ EndActions
  <2>1. ProcessReturn
    BY <1>2 DEF StatFails, NoAction, EndActions
  <2>2. proc' \in ProcState
    BY <2>1 DEF ProcessReturn, Out
  <2> QED
    BY <2>1, <2>2 DEF ProcessReturn
<1>3. CASE Snapshot
  BY <1>3 DEF Snapshot
<1>4. CASE StartActions
  BY <1>4 DEF StartActions
<1> QED
  BY <1>1, <1>2, <1>3, <1>4 DEF ProcessStep

LEMMA MainTypeOK == TypeOK /\ MainStep => TypeOK'
<1> SUFFICES ASSUME TypeOK, MainStep PROVE TypeOK'
  OBVIOUS
<1> USE DEF TypeOK
<1>1. CASE StopServing \/ Exit
  BY <1>1 DEF StopServing, Exit
<1>2. CASE CloseLock
  BY <1>2 DEF CloseLock, Announce
<1>3. CASE Close
  <2>1. proc' \in ProcState
    BY <1>3, UnlockType DEF Close
  <2> QED
    BY <1>3, <2>1 DEF Close, ClosedPools, Unlock, PoolState
<1> QED
  BY <1>1, <1>2, <1>3 DEF MainStep

\* Every variable of the runtime keeps its type, whatever the goroutines do.
THEOREM TypeCorrect == Spec => []TypeOK
<1>1. TypeOK /\ [Next]_vars => TypeOK'
  <2> SUFFICES ASSUME TypeOK, [Next]_vars PROVE TypeOK'
    OBVIOUS
  <2>1. CASE \E h \in Handlers : HandlerStep(h)
    BY <2>1, HandlerTypeOK
  <2>2. CASE ReloaderStep
    BY <2>2, ReloaderTypeOK
  <2>3. CASE ProcessStep
    BY <2>3, ProcessTypeOK
  <2>4. CASE Cancel
    BY <2>4 DEF Cancel, TypeOK
  <2>5. CASE MainStep
    BY <2>5, MainTypeOK
  <2>6. CASE UNCHANGED vars
    BY <2>6 DEF vars, TypeOK
  <2> QED
    BY <2>1, <2>2, <2>3, <2>4, <2>5, <2>6 DEF Next
<1> QED
  BY <1>1, InitTypeOK, PTL DEF Spec

-----------------------------------------------------------------------------
(* The inductive invariant.  The properties of Runtime are not inductive   *)
(* by themselves: that the first engine has the runtime's flag needs to    *)
(* know that a swapped engine is a later load, and that an action's pool   *)
(* is open needs to know where pools are closed.                           *)

\* An engine that is being built is of a later load than the one installed.
LoadsInOrder ==
  /\ engine.load <= reload.load
  /\ reload.pc \in {"loading", "built", "locking"} => engine.load < reload.load

\* The pool of the installed engine is in sshPools until Close has closed it.
EnginePoolRegistered ==
  engine.pool => \/ pools[engine.load] = "registered"
                 \/ pools[engine.load] = "closed" /\ mainpc \in {"closed", "exited"}

FirstEngineInMode == engine.load = 0 => engine.dry = rtDry

IInv ==
  /\ TypeOK
  /\ LockConsistent
  /\ ProcessSeesOneEngine
  /\ NothingActsAfterClose
  /\ LoadsInOrder
  /\ EnginePoolRegistered
  /\ FirstEngineInMode

LEMMA InitIInv == Init => IInv
<1> SUFFICES ASSUME Init PROVE IInv
  OBVIOUS
<1>1. TypeOK
  BY InitTypeOK
<1>2. LockConsistent
  BY RuntimeAssumption DEF Init, LockConsistent, Idle, Out
<1>3. ProcessSeesOneEngine /\ NothingActsAfterClose
  BY DEF Init, ProcessSeesOneEngine, NothingActsAfterClose, Out
<1>4. PICK p \in BOOLEAN :
        /\ engine = [load |-> 0, dry |-> rtDry, pool |-> p]
        /\ pools = [l \in Loads |-> IF l = 0 /\ p THEN "registered" ELSE "none"]
  BY DEF Init
<1>5. LoadsInOrder /\ EnginePoolRegistered
  <2>1. 0 \in Loads
    BY RuntimeAssumption DEF Loads
  <2> QED
    BY <1>4, <2>1 DEF Init, LoadsInOrder, EnginePoolRegistered
<1>6. FirstEngineInMode
  BY <1>4, Zenon DEF FirstEngineInMode
<1> QED
  BY <1>1, <1>2, <1>3, <1>5, <1>6 DEF IInv

\* Who commits a write finds no reader and lets in the one that waited.
LEMMA CommitAdmits ==
  ASSUME TypeOK, ~ReaderIn, Unlock
  PROVE  proc'.pc \in {"out", "entered"}
  BY DEF TypeOK, ReaderIn, Unlock, Admitted, ProcState

LEMMA HandlerIInv ==
  ASSUME IInv, NEW h \in Handlers, HandlerStep(h)
  PROVE  IInv'
<1> USE DEF IInv
<1>1. TypeOK'
  BY HandlerTypeOK
<1>2. CASE Command(h) \/ Flip(h)
  <2>1. /\ UNCHANGED <<writer, rtDry, engine, pools, reload, proc, mainpc, ctxDone>>
        /\ \A g \in Handlers : toggle'[g].pc = "locking" <=> toggle[g].pc = "locking"
    BY <1>2 DEF Command, Flip, TypeOK, ToggleState
  <2>2. LockConsistent'
    BY <2>1 DEF LockConsistent
  <2>3. ProcessSeesOneEngine' /\ NothingActsAfterClose'
    BY <2>1 DEF ProcessSeesOneEngine, NothingActsAfterClose
  <2>4. LoadsInOrder' /\ EnginePoolRegistered' /\ FirstEngineInMode'
    BY <2>1 DEF LoadsInOrder, EnginePoolRegistered, FirstEngineInMode
  <2> QED
    BY <1>1, <2>2, <2>3, <2>4
<1>3. CASE SetDryRunLock(h)
  <2> USE <1>3 DEF SetDryRunLock, Announce
  <2>1. LockConsistent'
    BY RuntimeAssumption DEF LockConsistent, TypeOK, ToggleState
  <2>2. ProcessSeesOneEngine' /\ NothingActsAfterClose'
    BY DEF ProcessSeesOneEngine, NothingActsAfterClose
  <2>3. LoadsInOrder' /\ EnginePoolRegistered' /\ FirstEngineInMode'
    BY DEF LoadsInOrder, EnginePoolRegistered, FirstEngineInMode
  <2> QED
    BY <1>1, <2>1, <2>2, <2>3
<1>4. CASE SetDryRun(h)
  <2>1. proc'.pc \in {"out", "entered"}
    BY <1>4, CommitAdmits DEF SetDryRun, HoldsLock
  <2>2. LockConsistent'
    BY <1>4, <2>1, RuntimeAssumption
       DEF SetDryRun, HoldsLock, Unlock, Idle, LockConsistent, TypeOK, ToggleState
  <2>3. ProcessSeesOneEngine' /\ NothingActsAfterClose'
    BY <1>4, <2>1 DEF SetDryRun, ProcessSeesOneEngine, NothingActsAfterClose
  <2>4. /\ engine'.load = engine.load /\ engine'.pool = engine.pool
        /\ engine'.dry = toggle[h].enabled
    BY <1>4, Zenon DEF SetDryRun, EngineInMode, TypeOK
  <2>5. LoadsInOrder' /\ EnginePoolRegistered'
    BY <1>4, <2>4 DEF SetDryRun, LoadsInOrder, EnginePoolRegistered
  <2>6. FirstEngineInMode'
    BY <1>4, <2>4, Zenon DEF SetDryRun, FirstEngineInMode
  <2> QED
    BY <1>1, <2>2, <2>3, <2>5, <2>6
<1> QED
  BY <1>2, <1>3, <1>4 DEF HandlerStep

LEMMA ReloaderIInv ==
  ASSUME IInv, ReloaderStep
  PROVE  IInv'
<1> USE DEF IInv
<1>1. TypeOK'
  BY ReloaderTypeOK
<1>2. reload.load \in Nat /\ engine.load \in Nat
  BY RuntimeAssumption DEF TypeOK, ReloadState, Loads
<1>3. CASE ReloadStart \/ ReloadLoadFails \/ ReloadFinish
  <2> USE <1>3 DEF ReloadStart, ReloadLoadFails, ReloadFinish
  <2>1. LockConsistent'
    BY DEF LockConsistent, TypeOK, ReloadState
  <2>2. ProcessSeesOneEngine' /\ NothingActsAfterClose'
    BY DEF ProcessSeesOneEngine, NothingActsAfterClose
  <2>3. LoadsInOrder'
    <3>1. UNCHANGED engine
      OBVIOUS
    <3>2. CASE ReloadStart
      <4>1. reload'.load = reload.load + 1
        BY <3>2 DEF TypeOK, ReloadState
      <4> QED
        BY <1>2, <3>1, <4>1 DEF LoadsInOrder
    <3>3. CASE ReloadLoadFails \/ ReloadFinish
      <4>1. reload'.load = reload.load /\ reload'.pc = "idle"
        BY <3>3 DEF TypeOK, ReloadState
      <4> QED
        BY <3>1, <4>1 DEF LoadsInOrder
    <3> QED
      BY <1>3, <3>2, <3>3
  <2>4. EnginePoolRegistered' /\ FirstEngineInMode'
    BY DEF EnginePoolRegistered, FirstEngineInMode
  <2> QED
    BY <1>1, <2>1, <2>2, <2>3, <2>4
<1>4. CASE ReloadBuildFails \/ \E hasPool \in BOOLEAN : ReloadBuild(hasPool)
  <2> USE <1>4 DEF ReloadBuildFails, ReloadBuild
  <2>1. LockConsistent'
    BY DEF LockConsistent, TypeOK, ReloadState
  <2>2. ProcessSeesOneEngine' /\ NothingActsAfterClose'
    BY DEF ProcessSeesOneEngine, NothingActsAfterClose
  <2>3. LoadsInOrder'
    <3>1. /\ reload'.load = reload.load /\ reload'.pc \in {"idle", "built"}
          /\ reload.pc \in {"loading", "built"} /\ UNCHANGED engine
      BY DEF TypeOK, ReloadState
    <3> QED
      BY <3>1 DEF LoadsInOrder
  <2>4. engine.load # reload.load
    BY <1>2 DEF LoadsInOrder
  <2>5. pools'[engine.load] = pools[engine.load]
    BY <2>4 DEF TypeOK
  <2>6. EnginePoolRegistered' /\ FirstEngineInMode'
    BY <2>5 DEF EnginePoolRegistered, FirstEngineInMode
  <2> QED
    BY <1>1, <2>1, <2>2, <2>3, <2>6
<1>5. CASE SwapEngineLock
  <2> USE <1>5 DEF SwapEngineLock, Announce
  <2>1. LockConsistent'
    BY RuntimeAssumption DEF LockConsistent, TypeOK, ReloadState
  <2>2. ProcessSeesOneEngine' /\ NothingActsAfterClose'
    BY DEF ProcessSeesOneEngine, NothingActsAfterClose
  <2>3. LoadsInOrder' /\ EnginePoolRegistered' /\ FirstEngineInMode'
    BY DEF LoadsInOrder, EnginePoolRegistered, FirstEngineInMode, TypeOK, ReloadState
  <2> QED
    BY <1>1, <2>1, <2>2, <2>3
<1>6. CASE SwapEngine
  <2>1. proc'.pc \in {"out", "entered"}
    BY <1>6, CommitAdmits DEF SwapEngine, HoldsLock
  <2>2. LockConsistent'
    BY <1>6, <2>1, RuntimeAssumption
       DEF SwapEngine, HoldsLock, Unlock, LockConsistent, TypeOK, ReloadState
  <2>3. ProcessSeesOneEngine' /\ NothingActsAfterClose'
    BY <1>6, <2>1 DEF SwapEngine, ProcessSeesOneEngine, NothingActsAfterClose
  <2>4. /\ engine'.load = reload.load
        /\ engine'.pool <=> pools[reload.load] = "local"
        /\ reload'.load = reload.load /\ reload'.pc = "swapped"
    BY <1>6 DEF SwapEngine, TypeOK, ReloadState
  <2>5. LoadsInOrder'
    BY <1>2, <2>4 DEF LoadsInOrder
  <2>6. EnginePoolRegistered'
    BY <1>6, <2>4 DEF SwapEngine, Registered, EnginePoolRegistered, TypeOK, ReloadState
  <2>7. engine'.load # 0
    BY <1>2, <1>6, <2>4 DEF SwapEngine, LoadsInOrder
  <2>8. FirstEngineInMode'
    BY <2>7 DEF FirstEngineInMode
  <2> QED
    BY <1>1, <2>2, <2>3, <2>5, <2>6, <2>8
<1> QED
  BY <1>3, <1>4, <1>5, <1>6 DEF ReloaderStep

LEMMA ProcessIInv ==
  ASSUME IInv, ProcessStep
  PROVE  IInv'
<1> USE DEF IInv
<1>1. TypeOK'
  BY ProcessTypeOK
<1>2. UNCHANGED <<ctxDone, writer, rtDry, engine, pools, toggle, reload, mainpc>>
  BY DEF ProcessStep, ProcessCall, StatFails, Snapshot, NoAction, StartActions,
         EndActions, ProcessReturn
<1>3. LoadsInOrder' /\ EnginePoolRegistered' /\ FirstEngineInMode'
  BY <1>2 DEF LoadsInOrder, EnginePoolRegistered, FirstEngineInMode
<1>4. proc'.pc = "blocked" => writer # NoOne
  BY DEF ProcessStep, ProcessCall, StatFails, Snapshot, NoAction, StartActions,
         EndActions, ProcessReturn, Out, TypeOK, ProcState
<1>5. LockConsistent'
  BY <1>2, <1>4 DEF LockConsistent
<1>6. ProcessSeesOneEngine'
  <2>1. CASE ProcessCall
    BY <2>1 DEF ProcessCall, ProcessSeesOneEngine, TypeOK, ProcState
  <2>2. CASE StatFails \/ NoAction \/ EndActions
    BY <2>2 DEF StatFails, NoAction, EndActions, ProcessReturn, Out, ProcessSeesOneEngine
  <2>3. CASE Snapshot
    BY <2>3 DEF Snapshot, ProcessSeesOneEngine
  <2>4. CASE StartActions
    BY <2>4 DEF StartActions, MayAct, ProcessSeesOneEngine, TypeOK, ProcState
  <2> QED
    BY <2>1, <2>2, <2>3, <2>4 DEF ProcessStep
<1>7. NothingActsAfterClose'
  <2>1. proc'.pc = "acting" => ~ctxDone
    BY DEF ProcessStep, ProcessCall, StatFails, Snapshot, NoAction, StartActions, MayAct,
           EndActions, ProcessReturn, Out, TypeOK, ProcState
  <2> QED
    BY <1>2, <2>1 DEF NothingActsAfterClose
<1> QED
  BY <1>1, <1>3, <1>5, <1>6, <1>7

LEMMA MainIInv ==
  ASSUME IInv, MainStep
  PROVE  IInv'
<1> USE DEF IInv
<1>1. TypeOK'
  BY MainTypeOK
<1>2. UNCHANGED <<ctxDone, rtDry, engine, toggle, reload>>
  BY DEF MainStep, StopServing, CloseLock, Close, Exit
<1>3. LoadsInOrder' /\ FirstEngineInMode'
  BY <1>2 DEF LoadsInOrder, FirstEngineInMode
<1>4. CASE StopServing \/ Exit
  <2> USE <1>4 DEF StopServing, Exit
  <2>1. LockConsistent'
    BY DEF LockConsistent
  <2>2. ProcessSeesOneEngine' /\ NothingActsAfterClose' /\ EnginePoolRegistered'
    BY DEF ProcessSeesOneEngine, NothingActsAfterClose, EnginePoolRegistered
  <2> QED
    BY <1>1, <1>3, <2>1, <2>2
<1>5. CASE CloseLock
  <2> USE <1>5 DEF CloseLock, Announce
  <2>1. LockConsistent'
    BY RuntimeAssumption DEF LockConsistent
  <2>2. ProcessSeesOneEngine' /\ NothingActsAfterClose' /\ EnginePoolRegistered'
    BY DEF ProcessSeesOneEngine, NothingActsAfterClose, EnginePoolRegistered
  <2> QED
    BY <1>1, <1>3, <2>1, <2>2
<1>6. CASE Close
  <2>1. proc'.pc \in {"out", "entered"}
    BY <1>6, CommitAdmits DEF Close, HoldsLock
  <2>2. LockConsistent'
    BY <1>6, <2>1, RuntimeAssumption DEF Close, Unlock, LockConsistent
  <2>3. ProcessSeesOneEngine' /\ NothingActsAfterClose'
    BY <1>2, <1>6, <2>1 DEF Close, ProcessSeesOneEngine, NothingActsAfterClose
  <2>4. EnginePoolRegistered'
    BY <1>6 DEF Close, ClosedPools, EnginePoolRegistered, TypeOK
  <2> QED
    BY <1>1, <1>3, <2>2, <2>3, <2>4
<1> QED
  BY <1>4, <1>5, <1>6 DEF MainStep

\* The invariant holds in every reachable state.
THEOREM Invariance == Spec => []IInv
<1>1. IInv /\ [Next]_vars => IInv'
  <2> SUFFICES ASSUME IInv, [Next]_vars PROVE IInv'
    OBVIOUS
  <2>1. CASE \E h \in Handlers : HandlerStep(h)
    BY <2>1, HandlerIInv
  <2>2. CASE ReloaderStep
    BY <2>2, ReloaderIInv
  <2>3. CASE ProcessStep
    BY <2>3, ProcessIInv
  <2>4. CASE Cancel
    BY <2>4 DEF Cancel, IInv, TypeOK, LockConsistent, ProcessSeesOneEngine,
       NothingActsAfterClose, LoadsInOrder, EnginePoolRegistered, FirstEngineInMode
  <2>5. CASE MainStep
    BY <2>5, MainIInv
  <2>6. CASE UNCHANGED vars
    BY <2>6 DEF vars, IInv, TypeOK, LockConsistent, ProcessSeesOneEngine,
       NothingActsAfterClose, LoadsInOrder, EnginePoolRegistered, FirstEngineInMode
  <2> QED
    BY <2>1, <2>2, <2>3, <2>4, <2>5, <2>6 DEF Next
<1> QED
  BY <1>1, InitIInv, PTL DEF Spec

-----------------------------------------------------------------------------
(* What follows from the invariant.                                        *)

\* No goroutine waits in runtimeState.mu for somebody who is not there.
THEOREM LockDiscipline == Spec => []LockConsistent
<1>1. IInv => LockConsistent
  BY DEF IInv
<1> QED
  BY <1>1, Invariance, PTL

\* Engine.Process works with one engine and one mode from end to end.
THEOREM OneEngine == Spec => []ProcessSeesOneEngine
<1>1. IInv => ProcessSeesOneEngine
  BY DEF IInv
<1> QED
  BY <1>1, Invariance, PTL

\* No action runs once the pools are closed or main has returned.
THEOREM CleanShutdown == Spec => []NothingActsAfterClose
<1>1. IInv => NothingActsAfterClose
  BY DEF IInv
<1> QED
  BY <1>1, Invariance, PTL

\* The engine main built never acts while the runtime is in dry-run mode.
THEOREM DryRunUntilReload == Spec => []DryRunHonouredUntilReload
<1>1. IInv => DryRunHonouredUntilReload
  BY Zenon DEF IInv, ProcessSeesOneEngine, FirstEngineInMode, DryRunHonouredUntilReload
<1> QED
  BY <1>1, Invariance, PTL

\* As long as no reload is started, dry-run is honoured by whatever acts.
THEOREM DryRunWithoutReload ==
  ASSUME MaxReloads = 0
  PROVE  Spec => []DryRunHonoured
<1>1. IInv => engine.load = 0
  BY RuntimeAssumption DEF IInv, TypeOK, Loads
<1>2. IInv => DryRunHonoured
  BY <1>1, Zenon DEF IInv, ProcessSeesOneEngine, FirstEngineInMode, DryRunHonoured
<1> QED
  BY <1>2, Invariance, PTL

\* An action's pool is registered for Close, and open, while the action runs.
THEOREM PoolsOutlive == Spec => []PoolsOutliveActions
<1>1. IInv => PoolsOutliveActions
  BY DEF IInv, ProcessSeesOneEngine, NothingActsAfterClose, EnginePoolRegistered,
         PoolsOutliveActions
<1> QED
  BY <1>1, Invariance, PTL

-----------------------------------------------------------------------------
(* What the trays show.  DryRunHonoured and UIAgreesWhenQuiet are refuted  *)
(* by the runs runtime_dry_run and runtime_toggles.  The theorems below    *)
(* say that each has one cause: without it the property holds, for any     *)
(* number of trays and reloads.                                            *)

\* A goroutine of handleClient is between the flip and the end of SetDryRun.
HandingOver(h) == toggle[h].pc \in {"flipped", "locking"}

\* No two trays are in there at once.
OneToggleAtATime ==
  \A g, h \in Handlers : HandingOver(g) /\ HandingOver(h) => g = h

\* The trays show the mode some toggle is about to hand over, or there is none
\* and they show the mode of the runtime.
ShownMode ==
  \/ \E h \in Handlers : HandingOver(h) /\ uiDry = toggle[h].enabled
  \/ (\A h \in Handlers : ~HandingOver(h)) /\ uiDry = rtDry

LEMMA ShownModeKept ==
  ASSUME TypeOK, OneToggleAtATime, OneToggleAtATime', [Next]_vars, ShownMode
  PROVE  ShownMode'
<1>1. toggle \in [Handlers -> ToggleState]
  BY DEF TypeOK
<1>2. CASE UNCHANGED <<uiDry, rtDry, toggle>>
  BY <1>2 DEF ShownMode, HandingOver
<1>3. ASSUME NEW h \in Handlers, HandlerStep(h)
      PROVE  ShownMode'
  <2>1. CASE Command(h)
    <3>1. /\ \A g \in Handlers : /\ HandingOver(g)' = HandingOver(g)
                                 /\ toggle'[g].enabled = toggle[g].enabled
          /\ UNCHANGED <<uiDry, rtDry>>
      BY <1>1, <2>1 DEF Command, HandingOver, ToggleState
    <3> QED
      BY <3>1, Zenon DEF ShownMode
  <2>2. CASE Flip(h)
    <3>1. HandingOver(h)' /\ uiDry' = toggle'[h].enabled
      BY <1>1, <2>2 DEF Flip, Flipped, HandingOver, ToggleState
    <3> QED
      BY <3>1, Zenon DEF ShownMode
  <2>3. CASE SetDryRunLock(h)
    <3>1. /\ \A g \in Handlers : /\ HandingOver(g)' = HandingOver(g)
                                 /\ toggle'[g].enabled = toggle[g].enabled
          /\ UNCHANGED <<uiDry, rtDry>>
      BY <1>1, <2>3 DEF SetDryRunLock, HandingOver, ToggleState
    <3> QED
      BY <3>1, Zenon DEF ShownMode
  <2>4. CASE SetDryRun(h)
    <3>1. HandingOver(h)
      BY <2>4 DEF SetDryRun, HandingOver
    <3>2. uiDry = toggle[h].enabled
      BY <3>1, Zenon DEF ShownMode, OneToggleAtATime
    <3>3. \A g \in Handlers : ~HandingOver(g)'
      <4>1. SUFFICES ASSUME NEW g \in Handlers, HandingOver(g)' PROVE FALSE
        OBVIOUS
      <4>2. CASE g = h
        BY <1>1, <2>4, <4>1, <4>2 DEF SetDryRun, Idle, HandingOver
      <4>3. CASE g # h
        <5>1. HandingOver(g)
          BY <1>1, <2>4, <4>1, <4>3 DEF SetDryRun, HandingOver
        <5> QED
          BY <3>1, <4>3, <5>1 DEF OneToggleAtATime
      <4> QED
        BY <4>2, <4>3
    <3>4. uiDry' = uiDry /\ rtDry' = toggle[h].enabled
      BY <2>4, Zenon DEF SetDryRun
    <3>5. uiDry' = rtDry'
      BY <3>2, <3>4, Zenon
    <3> QED
      BY <3>3, <3>5, Zenon DEF ShownMode
  <2> QED
    BY <1>3, <2>1, <2>2, <2>3, <2>4 DEF HandlerStep
<1>4. CASE ReloaderStep
  BY <1>2, <1>4 DEF ReloaderStep, ReloadStart, ReloadLoadFails, ReloadBuildFails,
                    ReloadBuild, SwapEngineLock, SwapEngine, ReloadFinish
<1>5. CASE ProcessStep
  BY <1>2, <1>5 DEF ProcessStep, ProcessCall, StatFails, Snapshot, NoAction,
                    StartActions, EndActions, ProcessReturn
<1>6. CASE Cancel \/ MainStep
  BY <1>2, <1>6 DEF Cancel, MainStep, StopServing, CloseLock, Close, Exit
<1>7. CASE UNCHANGED vars
  BY <1>2, <1>7 DEF vars
<1> QED
  BY <1>3, <1>4, <1>5, <1>6, <1>7 DEF Next

\* Trays that toggle at the same time are the only cause of runtime_toggles:
\* as long as the callbacks do not overlap, every tray shows the mode of the
\* runtime whenever no toggle is under way, whatever reloads and files do.
THEOREM TogglesApartAgree == Spec /\ []OneToggleAtATime => []UIAgreesWhenQuiet
<1>1. Init => ShownMode
  <2> SUFFICES ASSUME Init PROVE ShownMode
    OBVIOUS
  <2>1. uiDry = rtDry
    BY DEF Init
  <2>2. \A h \in Handlers : ~HandingOver(h)
    BY DEF Init, Idle, HandingOver
  <2> QED
    BY <2>1, <2>2, Zenon DEF ShownMode
<1>2. TypeOK /\ OneToggleAtATime /\ OneToggleAtATime' /\ [Next]_vars /\ ShownMode
        => ShownMode'
  BY ShownModeKept
<1>3. TypeOK /\ ShownMode => UIAgreesWhenQuiet
  BY DEF TypeOK, ToggleState, ShownMode, HandingOver, UIAgreesWhenQuiet
<1> QED
  BY <1>1, <1>2, <1>3, TypeCorrect, PTL DEF Spec

\* So a program with one connection never disagrees with its tray.
THEOREM OneTrayAgrees ==
  ASSUME NEW tray \in Handlers, Handlers = {tray}
  PROVE  Spec => []UIAgreesWhenQuiet
<1>1. OneToggleAtATime
  BY DEF OneToggleAtATime
<1> QED
  BY <1>1, TogglesApartAgree, PTL

-----------------------------------------------------------------------------
(* The mode of what acts.                                                  *)

\* reloadConfig is between runtime.DryRun() and the end of SwapEngine.
Building == reload.pc \in {"built", "locking"}

\* No toggle ends while a reload is in there.
ModeKeptWhileBuilding == Building => rtDry' = rtDry

\* Both the engine that runs and the one that is being built are in the mode
\* of the runtime.
EnginesInMode == engine.dry = rtDry /\ (Building => reload.dry = rtDry)

LEMMA EnginesInModeKept ==
  ASSUME TypeOK, [Next]_vars, [ModeKeptWhileBuilding]_vars, EnginesInMode
  PROVE  EnginesInMode'
<1>1. CASE UNCHANGED <<rtDry, engine, reload>>
  BY <1>1 DEF EnginesInMode, Building
<1>2. ASSUME NEW h \in Handlers, HandlerStep(h)
      PROVE  EnginesInMode'
  <2>1. CASE Command(h) \/ Flip(h) \/ SetDryRunLock(h)
    BY <1>1, <2>1 DEF Command, Flip, SetDryRunLock
  <2>2. CASE SetDryRun(h)
    <3>1. engine'.dry = rtDry' /\ reload' = reload
      BY <2>2, Zenon DEF SetDryRun, EngineInMode, TypeOK
    <3>2. ASSUME Building' PROVE reload'.dry = rtDry'
      <4>1. Building /\ reload.dry = rtDry
        BY <3>1, <3>2, Zenon DEF EnginesInMode, Building
      <4>2. rtDry' = rtDry
        BY <4>1, Zenon DEF ModeKeptWhileBuilding, vars
      <4> QED
        BY <3>1, <4>1, <4>2, Zenon
    <3> QED
      BY <3>1, <3>2, Zenon DEF EnginesInMode
  <2> QED
    BY <1>2, <2>1, <2>2 DEF HandlerStep
<1>3. CASE ReloaderStep
  <2>1. rtDry' = rtDry
    BY <1>3 DEF ReloaderStep, ReloadStart, ReloadLoadFails, ReloadBuildFails,
                ReloadBuild, SwapEngineLock, SwapEngine, ReloadFinish
  <2>2. CASE ReloadStart \/ ReloadLoadFails \/ ReloadBuildFails \/ ReloadFinish
    <3>1. engine' = engine /\ ~Building'
      BY <2>2 DEF ReloadStart, ReloadLoadFails, ReloadBuildFails, ReloadFinish,
                  Building, TypeOK, ReloadState
    <3> QED
      BY <2>1, <3>1, Zenon DEF EnginesInMode
  <2>3. CASE \E hasPool \in BOOLEAN : ReloadBuild(hasPool)
    <3>1. engine' = engine /\ reload' = [reload EXCEPT !.pc = "built", !.dry = rtDry]
      BY <2>3 DEF ReloadBuild
    <3>2. reload'.dry = rtDry
      BY <3>1, Zenon DEF TypeOK, ReloadState
    <3> QED
      BY <2>1, <3>1, <3>2, Zenon DEF EnginesInMode
  <2>4. CASE SwapEngineLock
    <3>1. engine' = engine /\ Building /\ reload' = [reload EXCEPT !.pc = "locking"]
      BY <2>4 DEF SwapEngineLock, Building
    <3>2. reload'.dry = reload.dry
      BY <3>1, Zenon DEF TypeOK, ReloadState
    <3> QED
      BY <2>1, <3>1, <3>2, Zenon DEF EnginesInMode
  <2>5. CASE SwapEngine
    <3>1. Building /\ ~Building'
      BY <2>5 DEF SwapEngine, Building, TypeOK, ReloadState
    <3>2. engine'.dry = reload.dry
      BY <2>5, Zenon DEF SwapEngine
    <3> QED
      BY <2>1, <3>1, <3>2, Zenon DEF EnginesInMode
  <2> QED
    BY <1>3, <2>2, <2>3, <2>4, <2>5 DEF ReloaderStep
<1>4. CASE ProcessStep
  BY <1>1, <1>4 DEF ProcessStep, ProcessCall, StatFails, Snapshot, NoAction,
                    StartActions, EndActions, ProcessReturn
<1>5. CASE Cancel \/ MainStep
  BY <1>1, <1>5 DEF Cancel, MainStep, StopServing, CloseLock, Close, Exit
<1>6. CASE UNCHANGED vars
  BY <1>1, <1>6 DEF vars
<1> QED
  BY <1>2, <1>3, <1>4, <1>5, <1>6 DEF Next

\* A toggle between runtime.DryRun() and SwapEngine is the only cause of
\* runtime_dry_run: without it actions run in the mode the runtime is in.
THEOREM DryRunOutsideWindow ==
  Spec /\ [][ModeKeptWhileBuilding]_vars => []DryRunHonoured
<1>1. Init => EnginesInMode
  <2> SUFFICES ASSUME Init PROVE EnginesInMode
    OBVIOUS
  <2>1. engine.dry = rtDry
    <3>1. PICK p \in BOOLEAN : engine = [load |-> 0, dry |-> rtDry, pool |-> p]
      BY DEF Init
    <3> QED
      BY <3>1, Zenon
  <2>2. ~Building
    BY DEF Init, Building
  <2> QED
    BY <2>1, <2>2, Zenon DEF EnginesInMode
<1>2. TypeOK /\ [Next]_vars /\ [ModeKeptWhileBuilding]_vars /\ EnginesInMode
        => EnginesInMode'
  BY EnginesInModeKept
<1>3. ProcessSeesOneEngine /\ EnginesInMode => DryRunHonoured
  BY Zenon DEF ProcessSeesOneEngine, EnginesInMode, DryRunHonoured
<1> QED
  BY <1>1, <1>2, <1>3, TypeCorrect, OneEngine, PTL DEF Spec

-----------------------------------------------------------------------------
(* Runtime implements ActionGate: each step is a step of the gate or       *)
(* leaves it as it is.  The invariant is what makes a commit a Replace     *)
(* (nothing acts) and StartActions a Start (the gate's mode is live, and   *)
(* it is not shut).                                                        *)

GateUnchanged == UNCHANGED <<engine, proc.pc = "acting", mainpc \in {"closed", "exited"}>>

LEMMA GateInit == Init => Gate!Init
<1> SUFFICES ASSUME Init PROVE Gate!Init
  OBVIOUS
<1>1. 0 \in Loads
  BY RuntimeAssumption DEF Loads
<1>2. PICK p \in BOOLEAN : engine = [load |-> 0, dry |-> rtDry, pool |-> p]
  BY DEF Init
<1>3. rtDry \in BOOLEAN
  BY DEF Init
<1>4. engine.load = 0 /\ engine.dry = rtDry
  BY <1>2, Zenon
<1>5. (proc.pc = "acting") = FALSE /\ (mainpc \in {"closed", "exited"}) = FALSE
  BY DEF Init, Out
<1> QED
  BY <1>1, <1>3, <1>4, <1>5, Zenon DEF Gate!Init

LEMMA GateStutter == GateUnchanged => UNCHANGED Gate!gateVars
  BY DEF GateUnchanged, Gate!gateVars

LEMMA GateReplace ==
  ASSUME TypeOK, TypeOK', ~ReaderIn, Unlock, UNCHANGED mainpc
  PROVE  Gate!Next
<1>1. engine'.load \in Loads /\ engine'.dry \in BOOLEAN
  BY DEF TypeOK
<1>2. proc.pc # "acting" /\ proc'.pc # "acting"
  BY CommitAdmits DEF ReaderIn
<1>3. Gate!Replace(engine'.load, engine'.dry)
  BY <1>2 DEF Gate!Replace
<1> QED
  BY <1>1, <1>3 DEF Gate!Next

LEMMA GateStep ==
  ASSUME IInv, IInv', [Next]_vars
  PROVE  [Gate!Next]_(Gate!gateVars)
<1> USE DEF IInv
<1>1. CASE \E h \in Handlers : HandlerStep(h)
  <2>1. PICK h \in Handlers : HandlerStep(h)
    BY <1>1
  <2>2. CASE Command(h) \/ Flip(h) \/ SetDryRunLock(h)
    BY <2>2, GateStutter DEF Command, Flip, SetDryRunLock, GateUnchanged
  <2>3. CASE SetDryRun(h)
    BY <2>3, GateReplace DEF SetDryRun, HoldsLock
  <2> QED
    BY <2>1, <2>2, <2>3 DEF HandlerStep
<1>2. CASE ReloaderStep
  <2>1. CASE SwapEngine
    BY <2>1, GateReplace DEF SwapEngine, HoldsLock
  <2>2. CASE ReloaderStep /\ ~SwapEngine
    BY <2>2, GateStutter
       DEF ReloaderStep, ReloadStart, ReloadLoadFails, ReloadBuildFails, ReloadBuild,
           SwapEngineLock, ReloadFinish, GateUnchanged
  <2> QED
    BY <1>2, <2>1, <2>2
<1>3. CASE ProcessStep
  <2>1. CASE ProcessCall \/ StatFails \/ Snapshot \/ NoAction
    BY <2>1, GateStutter
       DEF ProcessCall, StatFails, Snapshot, NoAction, ProcessReturn, Out, GateUnchanged,
           TypeOK, ProcState
  <2>2. CASE StartActions
    <3>1. proc.pc # "acting" /\ proc'.pc = "acting" /\ UNCHANGED <<engine, mainpc>>
      BY <2>2 DEF StartActions, TypeOK, ProcState
    <3>2. ~engine.dry
      BY <2>2 DEF StartActions, MayAct, ProcessSeesOneEngine
    <3>3. mainpc \notin {"closed", "exited"}
      BY <2>2 DEF StartActions, MayAct, NothingActsAfterClose
    <3>4. Gate!Start
      BY <3>1, <3>2, <3>3 DEF Gate!Start
    <3> QED
      BY <3>4 DEF Gate!Next
  <2>3. CASE EndActions
    <3>1. proc.pc = "acting" /\ proc'.pc # "acting" /\ UNCHANGED <<engine, mainpc>>
      BY <2>3 DEF EndActions, ProcessReturn, Out
    <3>2. Gate!Finish
      BY <3>1 DEF Gate!Finish
    <3> QED
      BY <3>2 DEF Gate!Next
  <2> QED
    BY <1>3, <2>1, <2>2, <2>3 DEF ProcessStep
<1>4. CASE Cancel \/ StopServing \/ CloseLock \/ Exit \/ UNCHANGED vars
  BY <1>4, GateStutter
     DEF Cancel, StopServing, CloseLock, Exit, vars, GateUnchanged
<1>5. CASE Close
  <2>1. proc.pc # "acting" /\ proc'.pc # "acting"
    BY <1>5, CommitAdmits DEF Close, HoldsLock, ReaderIn
  <2>2. mainpc' \in {"closed", "exited"} /\ UNCHANGED engine
    BY <1>5 DEF Close
  <2>3. Gate!Shut
    BY <2>1, <2>2 DEF Gate!Shut
  <2> QED
    BY <2>3 DEF Gate!Next
<1> QED
  BY <1>1, <1>2, <1>3, <1>4, <1>5 DEF Next, MainStep

\* The runtime keeps the promise of ActionGate.
THEOREM GateRefinement == Spec => ImplementsGate
<1>1. Init => Gate!Init
  BY GateInit
<1>2. IInv /\ IInv' /\ [Next]_vars => [Gate!Next]_(Gate!gateVars)
  BY GateStep
<1> QED
  BY <1>1, <1>2, Invariance, PTL DEF Spec, ImplementsGate, Gate!Spec
=============================================================================
