------------------------- MODULE ConfigWatchProofs -------------------------
(* Proofs about ConfigWatch, for any number of saves.                       *)
EXTENDS ConfigWatch, TLAPS

\* A value in the timer's channel is not stale: no event came in since.
FreshValue == timer = "fired" => quiet

\* Each event is that of a save.
EventsOfSaves == events <= saved

IInv == TypeOK /\ FreshValue /\ EventsOfSaves

\* The types, apart: the numbers and the rest.
Numbers == saved \in 0..MaxSaves /\ events \in 0..MaxSaves /\ loaded \in 0..MaxSaves
Places ==
  /\ timer \in {"nil", "running", "fired", "idle"}
  /\ pc \in {"select", "reloading", "returned"}
Flags == reloadCh \in BOOLEAN /\ ctxDone \in BOOLEAN /\ quiet \in BOOLEAN

LEMMA TypesApart == TypeOK <=> Numbers /\ Places /\ Flags
BY Zenon DEF TypeOK, Numbers, Places, Flags

LEMMA InitIInv == Init => IInv
<1> SUFFICES ASSUME Init PROVE IInv
  OBVIOUS
<1>1. Numbers /\ EventsOfSaves
  BY ConfigWatchAssumption DEF Init, Numbers, EventsOfSaves
<1>2. Places /\ Flags /\ FreshValue
  BY DEF Init, Places, Flags, FreshValue
<1> QED
  BY <1>1, <1>2, TypesApart DEF IInv

LEMMA NumbersKept == Numbers /\ EventsOfSaves /\ [Next]_vars => Numbers' /\ EventsOfSaves'
BY ConfigWatchAssumption DEF Numbers, EventsOfSaves, Next, vars, Save, Expire, Cancel,
  TakeEvent, TakeTimer, Reload, Return

\* An event drains the timer's channel, so a value that is in it later is fresh.
LEMMA ValueStaysFresh ==
  Places /\ Flags /\ FreshValue /\ [Next]_vars => Places' /\ Flags' /\ FreshValue'
<1> SUFFICES ASSUME Places, Flags, FreshValue, [Next]_vars PROVE Places' /\ Flags' /\ FreshValue'
  OBVIOUS
<1> USE DEF Places, Flags, FreshValue
<1>1. CASE Save
  BY <1>1 DEF Save
<1>2. CASE Expire
  BY <1>2 DEF Expire
<1>3. CASE Cancel
  BY <1>3 DEF Cancel
<1>4. CASE TakeEvent
  <2>1. ListensOnce \in BOOLEAN
    BY DEF ListensOnce
  <2> QED
    BY <1>4, <2>1 DEF TakeEvent, TimerRestarted
<1>5. CASE TakeTimer
  BY <1>5 DEF TakeTimer
<1>6. CASE Reload
  BY <1>6 DEF Reload
<1>7. CASE Return
  BY <1>7 DEF Return
<1>8. CASE UNCHANGED vars
  BY <1>8 DEF vars
<1> QED
  BY <1>1, <1>2, <1>3, <1>4, <1>5, <1>6, <1>7, <1>8 DEF Next

\* The inductive invariant of watchConfigFile holds in every state.
THEOREM Invariance == Spec => []IInv
<1>1. IInv /\ [Next]_vars => IInv'
  <2>1. TypeOK' <=> Numbers' /\ Places' /\ Flags'
    BY Zenon DEF TypeOK, Numbers, Places, Flags
  <2> QED
    BY <2>1, TypesApart, NumbersKept, ValueStaysFresh DEF IInv
<1> QED
  BY <1>1, InitIInv, PTL DEF Spec

\* Every variable of watchConfigFile keeps its type, however many saves come.
THEOREM TypeCorrect == Spec => []TypeOK
<1>1. IInv => TypeOK
  BY DEF IInv
<1> QED
  BY <1>1, Invariance, PTL

\* "Debounces fsnotify events" holds for any number of saves: TakeTimer is the
\* only step to a reload, and the value it takes is fresh.
THEOREM ReloadsAreDebounced == Spec => Debounced
<1>1. IInv /\ [Next]_vars => [pc = "select" /\ pc' = "reloading" => quiet]_vars
  BY DEF IInv, FreshValue, Next, Save, Expire, Cancel, TakeEvent, TakeTimer, Reload, Return, vars
<1> QED
  BY <1>1, Invariance, PTL DEF Spec, Debounced
-----------------------------------------------------------------------------
(* One reload.                                                             *)

\* Until the first event there is no timer, and the goroutine listens to its
\* channel until it takes a value from it.  An event is that of a save, so what
\* a reload reads is at least the first one; and once there has been a reload
\* there is a timer, and its channel is not listened to.
ListensFirstTime ==
  /\ reloadCh \/ pc = "reloading" \/ loaded > 0 => timer # "nil" /\ saved > 0
  /\ pc = "reloading" \/ loaded > 0 => ~reloadCh
  /\ pc = "reloading" => loaded = 0

LEMMA ListensFirstTimeKept == IInv /\ ListensFirstTime /\ [Next]_vars => ListensFirstTime'
<1> SUFFICES ASSUME IInv, ListensFirstTime, [Next]_vars PROVE ListensFirstTime'
  OBVIOUS
<1>1. Numbers /\ Places /\ Flags /\ EventsOfSaves
  BY TypesApart DEF IInv
<1> USE DEF ListensFirstTime
<1>2. CASE Save
  BY <1>1, <1>2 DEF Save, Numbers
<1>3. CASE TakeEvent
  <2>1. saved > 0 /\ timer' # "nil" /\ UNCHANGED <<saved, pc, loaded>> /\ pc = "select"
    BY <1>1, <1>3 DEF TakeEvent, TimerRestarted, Numbers, EventsOfSaves
  <2>2. loaded > 0 => ~ListensOnce
    BY <1>1, Zenon DEF ListensOnce
  <2>3. loaded > 0 => ~reloadCh'
    BY <1>3, <2>2 DEF TakeEvent
  <2> QED
    BY <2>1, <2>3
<1>4. CASE TakeTimer
  BY <1>1, <1>4 DEF TakeTimer, Numbers
<1>5. CASE Reload
  BY <1>1, <1>5 DEF Reload, Numbers
<1>6. CASE Expire \/ Cancel \/ Return
  BY <1>6 DEF Expire, Cancel, Return
<1>7. CASE UNCHANGED vars
  BY <1>7 DEF vars
<1> QED
  BY <1>2, <1>3, <1>4, <1>5, <1>6, <1>7 DEF Next

\* reloadCh is nil after the first reload and stays nil: in the life of a daemon
\* the configuration is loaded once after the start, for any number of saves.
\* What is saved later is never read.
THEOREM LoadedOnce == Spec => [][loaded > 0 => loaded' = loaded]_vars
<1>1. Init => ListensFirstTime
  BY DEF Init, ListensFirstTime
<1>2. ListensFirstTime /\ [Next]_vars => [loaded > 0 => loaded' = loaded]_vars
  BY DEF ListensFirstTime, Next, Save, Expire, Cancel, TakeEvent, TakeTimer, Reload, Return, vars
<1> QED
  BY <1>1, <1>2, ListensFirstTimeKept, Invariance, PTL DEF Spec
=============================================================================
