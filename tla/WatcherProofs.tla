---------------------------- MODULE WatcherProofs ----------------------------
(***************************************************************************)
(* Proofs about Watcher, for any number of paths, goroutines, checks and   *)
(* changes of the files.                                                   *)
(***************************************************************************)
EXTENDS Watcher, FiniteSetTheorems, TLAPS

Alive(w) == worker[w].pc # "none"

\* A goroutine has a path while it runs.
HasPath == \A w \in Workers : Alive(w) => worker[w].path \in Paths

\* The locals of WaitStable: stable counts the looks that agree with the last
\* one, and what is offered has looked the same often enough.
Agrees(l, n) ==
  IF l.looks = <<>>
  THEN n = 0 /\ l.lastSize = -1
  ELSE /\ n < Len(l.looks)
       /\ \A i \in (Len(l.looks) - n)..Len(l.looks) : l.looks[i] = l.lastSize
Counted(l) ==
  /\ Len(l.looks) <= Checks + 1
  /\ l.pc = "looking" => l.stable < Checks /\ Agrees(l, l.stable)
  /\ l.pc = "offering" => Agrees(l, Checks)

\* One that does not run has none.
Resting == \A w \in Workers : ~Alive(w) => worker[w].path = NoFile

CountsRight == \A w \in Workers : Counted(worker[w])

IInv == TypeOK /\ HasPath /\ Resting /\ CountsRight /\ OneWorkerPerPath /\ NobodyLeftWhenClosed

-----------------------------------------------------------------------------
(* One look.                                                               *)

\* t is q with s looked at last, and maybe without its oldest look.
OneMore(t, q, s) ==
  /\ t \in Seq(Sizes) /\ Len(t) <= Checks + 1 /\ Len(t) > 0
  /\ Len(t) = Len(q) + 1 \/ (Len(t) = Checks + 1 /\ Len(q) = Checks + 1)
  /\ t[Len(t)] = s
  /\ \A k \in 1..(Len(t) - 1) : t[Len(t) - k] = q[Len(q) + 1 - k]

LEMMA LatestLooks ==
  ASSUME NEW q \in Seq(Sizes), NEW s \in Sizes, Len(q) <= Checks + 1
  PROVE  OneMore(Latest(Append(q, s)), q, s)
<1> DEFINE a == Append(q, s)
           r == Latest(a)
<1> USE WatcherAssumption
<1>1. /\ a \in Seq(Sizes) /\ Len(a) = Len(q) + 1 /\ Len(q) \in Nat
      /\ a[Len(a)] = s /\ \A i \in 1..Len(q) : a[i] = q[i]
  OBVIOUS
<1>2. CASE Len(a) > Checks + 1
  <2>1. r = Tail(a)
    BY <1>2 DEF Latest
  <2>2. /\ Tail(a) \in Seq(Sizes) /\ Len(Tail(a)) = Len(q)
        /\ \A i \in 1..Len(q) : Tail(a)[i] = a[i + 1]
    BY <1>1, <1>2
  <2>3. Len(q) = Checks + 1
    BY <1>1, <1>2
  <2> DEFINE t == Tail(a)
  <2> HIDE DEF a, r, t
  <2>4. \A k \in 1..(Len(q) - 1) : t[Len(q) - k] = q[Len(q) + 1 - k]
    <3> TAKE k \in 1..(Len(q) - 1)
    <3>1. Len(q) - k \in 1..Len(q) /\ Len(q) - k + 1 \in 1..Len(q)
      BY <1>1
    <3>2. t[Len(q) - k] = a[Len(q) - k + 1]
      BY <2>2, <3>1 DEF t
    <3>3. Len(q) - k + 1 = Len(q) + 1 - k
      BY <1>1
    <3> QED
      BY <1>1, <3>1, <3>2, <3>3
  <2>5. t \in Seq(Sizes) /\ Len(t) = Len(q) /\ t[Len(t)] = s
    <3>1. Len(q) \in 1..Len(q) /\ a[Len(q) + 1] = s
      BY <1>1, <2>3
    <3> QED
      BY <2>2, <3>1 DEF t
  <2>6. OneMore(t, q, s)
    BY <1>1, <2>3, <2>4, <2>5 DEF OneMore
  <2> QED
    BY Zenon, <2>1, <2>6 DEF t, r, a
<1>3. CASE ~(Len(a) > Checks + 1)
  <2>1. r = a
    BY <1>3 DEF Latest
  <2> HIDE DEF a, r
  <2>2. \A k \in 1..(Len(a) - 1) : a[Len(a) - k] = q[Len(q) + 1 - k]
    <3> TAKE k \in 1..(Len(a) - 1)
    <3>1. Len(a) - k = Len(q) + 1 - k /\ Len(a) - k \in 1..Len(q)
      BY <1>1
    <3> QED
      BY <1>1, <3>1
  <2>3. OneMore(a, q, s)
    BY <1>1, <1>3, <2>2 DEF OneMore
  <2> QED
    BY Zenon, <2>1, <2>3 DEF r, a
<1> QED
  BY Zenon, <1>2, <1>3 DEF r, a

\* A look leaves the locals as they should be.
LEMMA LookCounts ==
  ASSUME NEW l \in WorkerState, Counted(l), l.pc = "looking", NEW s \in Sizes
  PROVE  Looked(l, s) \in WorkerState /\ Counted(Looked(l, s)) /\ Looked(l, s).path = l.path
         /\ Looked(l, s).pc # "none"
<1> DEFINE n == IF Unchanged(l, s) THEN l.stable + 1 ELSE 0
           m == Looked(l, s)
           q == l.looks
<1> USE WatcherAssumption
<1>1. /\ l.pc \in {"none", "looking", "offering", "leaving"} /\ l.path \in Paths \cup {NoFile}
      /\ l.lastSize \in Sizes \cup {-1} /\ l.stable \in 0..Checks /\ q \in Seq(Sizes)
      /\ l = [pc |-> l.pc, path |-> l.path, lastSize |-> l.lastSize, stable |-> l.stable,
              looks |-> q]
  BY DEF WorkerState
<1>2. Len(q) <= Checks + 1 /\ l.stable < Checks /\ Agrees(l, l.stable)
  BY DEF Counted
<1>3. n \in 0..Checks /\ (n = Checks => Unchanged(l, s))
  BY <1>1, <1>2
<1>4. m = [pc |-> IF Unchanged(l, s) /\ n >= Checks THEN "offering" ELSE "looking",
           path |-> l.path, lastSize |-> s, stable |-> n, looks |-> Latest(Append(q, s))]
  <2> DEFINE p == IF Unchanged(l, s) /\ n >= Checks THEN "offering" ELSE "looking"
             r == Latest(Append(q, s))
  <2>1. m = [l EXCEPT !.lastSize = s, !.stable = n, !.pc = p, !.looks = r]
    BY DEF Looked, Remembered, Reset
  <2> HIDE DEF p, r, n, m
  <2>2. m = [pc |-> p, path |-> l.path, lastSize |-> s, stable |-> n, looks |-> r]
    BY <1>1, <2>1
  <2> QED
    BY <2>2 DEF p, r
<1> HIDE DEF n, m, q
<1>c. /\ m.pc = IF Unchanged(l, s) /\ n >= Checks THEN "offering" ELSE "looking"
      /\ m.path = l.path /\ m.lastSize = s /\ m.stable = n
  BY <1>4
<1>d. OneMore(m.looks, q, s)
  <2>1. m.looks = Latest(Append(q, s))
    BY <1>4, Zenon
  <2>2. OneMore(Latest(Append(q, s)), q, s)
    BY <1>1, <1>2, LatestLooks DEF q
  <2> QED
    BY <2>1, <2>2, Zenon
<1>5. /\ m.looks \in Seq(Sizes) /\ Len(m.looks) <= Checks + 1 /\ Len(m.looks) > 0
      /\ Len(m.looks) = Len(q) + 1 \/ (Len(m.looks) = Checks + 1 /\ Len(q) = Checks + 1)
      /\ m.looks[Len(m.looks)] = s
      /\ \A k \in 1..(Len(m.looks) - 1) : m.looks[Len(m.looks) - k] = q[Len(q) + 1 - k]
  BY <1>d, Zenon DEF OneMore
<1>6. m \in WorkerState
  <2>1. m = [pc |-> m.pc, path |-> l.path, lastSize |-> s, stable |-> n, looks |-> m.looks]
    BY <1>4
  <2>2. m.pc \in {"none", "looking", "offering", "leaving"}
    BY <1>c
  <2> QED
    BY <1>1, <1>3, <1>5, <2>1, <2>2 DEF WorkerState
<1>7. Agrees(m, n)
  <2>1. m.looks # <<>>
    BY <1>5
  <2>2. CASE Unchanged(l, s)
    <3>1. s = l.lastSize /\ s # -1 /\ n = l.stable + 1
      BY <2>2 DEF Unchanged, n
    <3>2. q # <<>> /\ l.stable < Len(q)
          /\ \A i \in (Len(q) - l.stable)..Len(q) : q[i] = l.lastSize
      BY <1>2, <3>1 DEF Agrees, q
    <3>3. Len(q) \in Nat /\ Len(m.looks) \in Nat
      BY <1>1, <1>5
    <3>4. n < Len(m.looks)
      BY <1>1, <1>2, <1>5, <3>1, <3>2, <3>3
    <3>5. ASSUME NEW i \in (Len(m.looks) - n)..Len(m.looks)
          PROVE  m.looks[i] = s
      <4>1. CASE i = Len(m.looks)
        BY <1>5, <4>1
      <4>2. CASE i # Len(m.looks)
        <5>1. PICK k \in 1..n : i = Len(m.looks) - k
          <6>1. Len(m.looks) - i \in 1..n /\ i = Len(m.looks) - (Len(m.looks) - i)
            BY <1>3, <3>3, <4>2
          <6> QED
            BY <6>1
        <5>2. k \in 1..(Len(m.looks) - 1)
          BY <1>3, <3>3, <3>4
        <5>3. Len(q) + 1 - k \in (Len(q) - l.stable)..Len(q)
          BY <1>1, <3>1, <3>3
        <5> QED
          BY <1>5, <3>1, <3>2, <5>1, <5>2, <5>3
      <4> QED
        BY <4>1, <4>2
    <3> QED
      BY <1>c, <2>1, <3>4, <3>5 DEF Agrees
  <2>3. CASE ~Unchanged(l, s)
    <3>1. n = 0
      BY <2>3 DEF n
    <3>2. \A i \in (Len(m.looks) - n)..Len(m.looks) : i = Len(m.looks)
      BY <1>5, <3>1
    <3> QED
      BY <1>c, <1>5, <2>1, <3>1, <3>2 DEF Agrees
  <2> QED
    BY <2>2, <2>3
<1>8. Counted(m)
  BY <1>3, <1>c, <1>5, <1>7 DEF Counted
<1> QED
  BY <1>c, <1>6, <1>8 DEF m

-----------------------------------------------------------------------------
(* The goroutines.                                                         *)

Workable == worker \in [Workers -> WorkerState] /\ HasPath /\ Resting /\ CountsRight

\* What a goroutine becomes concerns its own locals only.
LEMMA OneMoves ==
  ASSUME Workable, NEW w \in Workers, NEW l \in WorkerState, Counted(l),
         l.pc # "none" => l.path \in Paths, l.pc = "none" => l.path = NoFile,
         worker' = [worker EXCEPT ![w] = l]
  PROVE  Workable' /\ worker'[w] = l /\ \A v \in Workers \ {w} : worker'[v] = worker[v]
<1>1. worker' \in [Workers -> WorkerState]
  BY DEF Workable
<1>2. worker'[w] = l /\ \A v \in Workers \ {w} : worker'[v] = worker[v]
  BY DEF Workable
<1>3. HasPath' /\ Resting'
  BY <1>2 DEF HasPath, Resting, Alive, Workable
<1>4. CountsRight'
  <2>1. \A v \in Workers : Counted(worker'[v])
    BY <1>2 DEF CountsRight, Workable
  <2> QED
    BY <2>1, Zenon DEF CountsRight
<1> QED
  BY <1>1, <1>2, <1>3, <1>4 DEF Workable

\* pending, element by element.
LEMMA PendingNames ==
  ASSUME \A p : p \in pending' <=> \E v \in Workers : worker'[v].pc # "none" /\ worker'[v].path = p
  PROVE  pending' = {worker'[v].path : v \in {u \in Workers : worker'[u].pc # "none"}}
BY Zenon

\* A goroutine that goes on with its path disturbs nobody.
LEMMA SamePath ==
  ASSUME OneWorkerPerPath, NEW w \in Workers, pending' = pending,
         Alive(w), worker'[w].pc # "none", worker'[w].path = worker[w].path,
         \A v \in Workers \ {w} : worker'[v] = worker[v]
  PROVE  OneWorkerPerPath'
<1>1. \A v \in Workers : /\ worker'[v].path = worker[v].path
                         /\ worker'[v].pc = "none" <=> worker[v].pc = "none"
  BY DEF Alive
<1>2. \A u, v \in Workers : u # v /\ worker'[u].pc # "none" => worker'[u].path # worker'[v].path
  BY <1>1 DEF OneWorkerPerPath
<1>3. \A p : p \in pending <=> \E v \in Workers : worker[v].pc # "none" /\ worker[v].path = p
  BY DEF OneWorkerPerPath
<1>4. \A p : p \in pending' <=> \E v \in Workers : worker'[v].pc # "none" /\ worker'[v].path = p
  BY <1>1, <1>3
<1>5. pending' = {worker'[v].path : v \in {u \in Workers : worker'[u].pc # "none"}}
  BY <1>4, PendingNames
<1> QED
  BY <1>2, <1>5, Zenon DEF OneWorkerPerPath

\* Leaving: the defer of the goroutine is all that is left to do.
LEMMA LeavingStep ==
  ASSUME Workable, OneWorkerPerPath, NEW w \in Workers, Alive(w), Leaving(w),
         pending' = pending
  PROVE  Workable' /\ OneWorkerPerPath' /\ Alive(w)'
<1> DEFINE l == [worker[w] EXCEPT !.pc = "leaving"]
<1>1. worker[w] \in WorkerState /\ Counted(worker[w]) /\ worker[w].path \in Paths
  BY DEF Workable, HasPath, CountsRight
<1>2. l \in WorkerState /\ l.pc = "leaving" /\ l.path = worker[w].path
      /\ l.looks = worker[w].looks
  BY <1>1 DEF WorkerState
<1>3. Counted(l)
  BY <1>1, <1>2 DEF Counted
<1>4. worker' = [worker EXCEPT ![w] = l]
  BY DEF Leaving
<1> HIDE DEF l
<1>5. Workable' /\ worker'[w] = l /\ \A v \in Workers \ {w} : worker'[v] = worker[v]
  BY <1>1, <1>2, <1>3, <1>4, OneMoves
<1>6. worker'[w].pc # "none" /\ worker'[w].path = worker[w].path
  BY <1>2, <1>5
<1>7. OneWorkerPerPath'
  BY <1>5, <1>6, SamePath
<1> QED
  BY <1>5, <1>6, <1>7 DEF Alive

Sound == Workable /\ OneWorkerPerPath /\ pending \subseteq Paths \ Rejected

LEMMA LookSound ==
  ASSUME Sound, size \in [Paths -> Sizes \cup {Absent}], NEW w \in Workers, Look(w)
  PROVE  Sound' /\ Alive(w)'
<1> USE WatcherAssumption
<1>1. worker[w].pc = "looking" /\ Alive(w) /\ pending' = pending
  BY DEF Look, Alive
<1> DEFINE s == size[worker[w].path]
           l == Looked(worker[w], s)
<1>2. CASE ctxDone \/ s = Absent
  <2>1. Leaving(w)
    BY <1>2 DEF Look
  <2> QED
    BY <1>1, <2>1, LeavingStep DEF Sound
<1>3. CASE ~(ctxDone \/ s = Absent)
  <2>1. worker' = [worker EXCEPT ![w] = l]
    BY <1>3 DEF Look
  <2>2. worker[w] \in WorkerState /\ Counted(worker[w]) /\ worker[w].path \in Paths
    BY <1>1 DEF Sound, Workable, HasPath, CountsRight
  <2>3. s \in Sizes
    BY <1>3, <2>2
  <2>4. l \in WorkerState /\ Counted(l) /\ l.path = worker[w].path /\ l.pc # "none"
    BY <1>1, <2>2, <2>3, LookCounts
  <2> HIDE DEF l
  <2>5. Workable' /\ worker'[w] = l /\ \A v \in Workers \ {w} : worker'[v] = worker[v]
    BY <2>1, <2>2, <2>4, OneMoves DEF Sound
  <2>6. OneWorkerPerPath'
    BY <1>1, <2>4, <2>5, SamePath DEF Sound
  <2> QED
    BY <1>1, <2>4, <2>5, <2>6 DEF Sound, Alive
<1> QED
  BY <1>2, <1>3

LEMMA LeaveSound ==
  ASSUME Sound, NEW w \in Workers, Leave(w)
  PROVE  Sound' /\ worker'[w].pc = "none"
<1>1. /\ Alive(w) /\ worker' = [worker EXCEPT ![w] = None]
      /\ pending' = pending \ {worker[w].path}
  BY DEF Leave, Alive
<1>2. None \in WorkerState /\ Counted(None) /\ None.pc = "none" /\ None.path = NoFile
  BY WatcherAssumption DEF None, WorkerState, Counted
<1>3. Workable' /\ worker'[w] = None /\ \A v \in Workers \ {w} : worker'[v] = worker[v]
  BY <1>1, <1>2, OneMoves DEF Sound
<1>4. \A v \in Workers : worker[v].pc # "none" => worker[v].path \in Paths
  BY DEF Sound, Workable, HasPath, Alive
<1>5. \A u, v \in Workers : u # v /\ worker[u].pc # "none" => worker[u].path # worker[v].path
  BY DEF Sound, OneWorkerPerPath
<1>6. \A u, v \in Workers : u # v /\ worker'[u].pc # "none" => worker'[u].path # worker'[v].path
  <2> SUFFICES ASSUME NEW u \in Workers, NEW v \in Workers, u # v, worker'[u].pc # "none"
               PROVE  worker'[u].path # worker'[v].path
    OBVIOUS
  <2>1. u # w /\ worker'[u] = worker[u]
    BY <1>2, <1>3
  <2>2. CASE v = w
    BY <1>2, <1>3, <1>4, <2>1, <2>2, WatcherAssumption
  <2>3. CASE v # w
    BY <1>3, <1>5, <2>1, <2>3
  <2> QED
    BY <2>2, <2>3
<1>7. \A p : p \in pending <=> \E v \in Workers : worker[v].pc # "none" /\ worker[v].path = p
  BY DEF Sound, OneWorkerPerPath
<1>8. \A p : p \in pending' <=> \E v \in Workers : worker'[v].pc # "none" /\ worker'[v].path = p
  <2> TAKE p
  <2>1. ASSUME p \in pending' PROVE \E v \in Workers : worker'[v].pc # "none" /\ worker'[v].path = p
    <3>1. PICK v \in Workers : worker[v].pc # "none" /\ worker[v].path = p
      BY <1>1, <1>7, <2>1
    <3>2. v # w
      BY <1>1, <2>1, <3>1
    <3> QED
      BY <1>3, <3>1, <3>2
  <2>2. ASSUME NEW v \in Workers, worker'[v].pc # "none", worker'[v].path = p
        PROVE  p \in pending'
    <3>1. v # w /\ worker'[v] = worker[v]
      BY <1>2, <1>3, <2>2
    <3>2. worker[v].path # worker[w].path
      BY <1>5, <2>2, <3>1
    <3> QED
      BY <1>1, <1>7, <2>2, <3>1, <3>2
  <2> QED
    BY <2>1, <2>2
<1>9. pending' = {worker'[v].path : v \in {u \in Workers : worker'[u].pc # "none"}}
  BY <1>8, PendingNames
<1>10. OneWorkerPerPath'
  BY <1>6, <1>9, Zenon DEF OneWorkerPerPath
<1> QED
  BY <1>1, <1>2, <1>3, <1>10 DEF Sound

LEMMA SoundKept ==
  ASSUME Sound, worker' = worker, pending' = pending PROVE Sound'
BY DEF Sound, Workable, HasPath, Alive, CountsRight, Resting, OneWorkerPerPath

LEMMA TakeEventSound ==
  ASSUME Sound, events \in Seq(Paths), TakeEvent
  PROVE  Sound' /\ events' \in Seq(Paths)
<1> DEFINE p == Head(events)
<1>1. p \in Paths /\ events' \in Seq(Paths)
  BY DEF TakeEvent
<1>2. CASE ~Accepts(p)
  <2>1. worker' = worker /\ pending' = pending
    BY <1>2 DEF TakeEvent
  <2> QED
    BY <1>1, <2>1, SoundKept
<1>3. CASE Accepts(p)
  <2> DEFINE l == Started(p)
  <2>1. PICK w \in Workers : /\ worker[w].pc = "none" /\ worker' = [worker EXCEPT ![w] = l]
                             /\ pending' = pending \cup {p}
    BY <1>3 DEF TakeEvent
  <2>2. p \notin Rejected /\ p \notin pending
    BY <1>3 DEF Accepts
  <2>3. l = [pc |-> "looking", path |-> p, lastSize |-> -1, stable |-> 0, looks |-> <<>>]
    BY DEF Started
  <2> HIDE DEF l, p
  <2>4. l \in WorkerState /\ Counted(l) /\ l.pc = "looking" /\ l.path = p
    BY <1>1, <2>3, WatcherAssumption DEF WorkerState, Counted, Agrees
  <2>5. Workable' /\ worker'[w] = l /\ \A v \in Workers \ {w} : worker'[v] = worker[v]
    BY <1>1, <2>1, <2>4, OneMoves DEF Sound
  <2>6. \A q : q \in pending <=> \E v \in Workers : worker[v].pc # "none" /\ worker[v].path = q
    BY DEF Sound, OneWorkerPerPath
  <2>7. \A u, v \in Workers : u # v /\ worker[u].pc # "none" => worker[u].path # worker[v].path
    BY DEF Sound, OneWorkerPerPath
  <2>8. \A u, v \in Workers : u # v /\ worker'[u].pc # "none" => worker'[u].path # worker'[v].path
    <3> SUFFICES ASSUME NEW u \in Workers, NEW v \in Workers, u # v, worker'[u].pc # "none"
                 PROVE  worker'[u].path # worker'[v].path
      OBVIOUS
    <3>1. CASE u = w
      <4>1. worker'[v] = worker[v] /\ worker'[u].path = p
        BY <2>4, <2>5, <3>1
      <4>2. CASE worker[v].pc # "none"
        BY <2>2, <2>6, <4>1, <4>2
      <4>3. CASE worker[v].pc = "none"
        <5>1. worker[v].path = NoFile
          BY <4>3 DEF Sound, Workable, Resting, Alive
        <5> QED
          BY <1>1, <4>1, <5>1, WatcherAssumption
      <4> QED
        BY <4>2, <4>3
    <3>2. CASE u # w /\ v = w
      <4>1. worker'[u] = worker[u] /\ worker'[v].path = p
        BY <2>4, <2>5, <3>2
      <4> QED
        BY <2>2, <2>6, <4>1
    <3>3. CASE u # w /\ v # w
      BY <2>5, <2>7, <3>3
    <3> QED
      BY <3>1, <3>2, <3>3
  <2>9. \A q : q \in pending' <=> \E v \in Workers : worker'[v].pc # "none" /\ worker'[v].path = q
    <3> TAKE q
    <3>1. CASE q = p
      BY <2>1, <2>4, <2>5, <3>1
    <3>2. ASSUME q # p, q \in pending'
          PROVE  \E v \in Workers : worker'[v].pc # "none" /\ worker'[v].path = q
      <4>1. PICK v \in Workers : worker[v].pc # "none" /\ worker[v].path = q
        BY <2>1, <2>6, <3>2
      <4>2. v # w
        BY <2>1, <4>1
      <4> QED
        BY <2>5, <4>1, <4>2
    <3>3. ASSUME q # p, NEW v \in Workers, worker'[v].pc # "none", worker'[v].path = q
          PROVE  q \in pending'
      <4>1. v # w
        BY <2>4, <2>5, <3>3
      <4> QED
        BY <2>1, <2>5, <2>6, <3>3, <4>1
    <3> QED
      BY <3>1, <3>2, <3>3
  <2>10. OneWorkerPerPath'
    BY <2>8, <2>9, PendingNames, Zenon DEF OneWorkerPerPath
  <2> QED
    BY <1>1, <2>1, <2>2, <2>5, <2>10 DEF Sound
<1> QED
  BY <1>2, <1>3

-----------------------------------------------------------------------------
(* All together.                                                           *)

\* The variables of the environment, the loop and the daemon.
Rest ==
  /\ size \in [Paths -> Sizes \cup {Absent}] /\ changes \in 0..MaxChanges
  /\ events \in Seq(Paths) /\ loop \in {"select", "waiting", "closed"}
  /\ consumer \in {"receiving", "busy", "gone"} /\ ctxDone \in BOOLEAN

LEMMA Parts == IInv <=> Sound /\ Rest /\ NobodyLeftWhenClosed
BY DEF IInv, Sound, Workable, Rest, TypeOK

LEMMA InitIInv == Init => IInv
<1> SUFFICES ASSUME Init PROVE IInv
  OBVIOUS
<1> USE WatcherAssumption
<1>1. None \in WorkerState /\ Counted(None) /\ None.pc = "none" /\ None.path = NoFile
  BY DEF None, WorkerState, Counted
<1>2. \A w \in Workers : worker[w] = None
  BY DEF Init
<1>3. Workable
  BY <1>1 DEF Init, Workable, HasPath, Alive, CountsRight, Resting
<1>4. OneWorkerPerPath
  BY <1>1, <1>2 DEF Init, OneWorkerPerPath
<1>5. Rest
  <2>1. size \in [Paths -> Sizes \cup {Absent}] /\ events \in Seq(Paths)
    BY DEF Init
  <2>2. changes \in 0..MaxChanges
    BY DEF Init
  <2> QED
    BY <2>1, <2>2 DEF Init, Rest
<1> QED
  BY <1>3, <1>4, <1>5, Parts DEF Init, Sound, NobodyLeftWhenClosed

LEMMA Untouched ==
  ASSUME Sound, NobodyLeftWhenClosed, UNCHANGED <<worker, pending>>
  PROVE  Sound' /\ (loop' = loop => NobodyLeftWhenClosed')
BY SoundKept DEF NobodyLeftWhenClosed

LEMMA NextIInv == IInv /\ [Next]_vars => IInv'
<1> SUFFICES ASSUME Sound, Rest, NobodyLeftWhenClosed, [Next]_vars
             PROVE  Sound' /\ Rest' /\ NobodyLeftWhenClosed'
  BY Zenon DEF IInv, Sound, Workable, Rest, TypeOK
<1> USE WatcherAssumption DEF Rest
<1>1. ASSUME NEW p \in Paths, NEW s \in Sizes, Appear(p, s)
      PROVE  Sound' /\ Rest' /\ NobodyLeftWhenClosed'
  BY <1>1, Untouched DEF Appear
<1>2. ASSUME NEW p \in Paths, NEW s \in Sizes, Resize(p, s)
      PROVE  Sound' /\ Rest' /\ NobodyLeftWhenClosed'
  BY <1>2, Untouched DEF Resize
<1>3. ASSUME NEW p \in Paths, Disappear(p)
      PROVE  Sound' /\ Rest' /\ NobodyLeftWhenClosed'
  BY <1>3, Untouched DEF Disappear
<1>4. CASE TakeEvent
  <2>1. Sound' /\ Rest'
    BY <1>4, TakeEventSound DEF TakeEvent
  <2>2. NobodyLeftWhenClosed'
    BY <1>4 DEF TakeEvent, NobodyLeftWhenClosed
  <2> QED
    BY <2>1, <2>2
<1>5. CASE StopLoop
  BY <1>5, Untouched DEF StopLoop, NobodyLeftWhenClosed
<1>6. CASE CloseOut
  BY <1>6, Untouched DEF CloseOut, AllEnded, NobodyLeftWhenClosed
<1>7. ASSUME NEW w \in Workers, WorkerStep(w)
      PROVE  Sound' /\ Rest' /\ NobodyLeftWhenClosed'
  \* A goroutine that moves is alive, so the channel is not closed.
  <2>1. CASE Look(w)
    <3>1. loop' = loop /\ Alive(w) /\ Rest'
      BY <2>1 DEF Look, Alive
    <3> QED
      BY <2>1, <3>1, LookSound DEF NobodyLeftWhenClosed, Alive
  <2>2. CASE Deliver(w)
    <3>1. loop' = loop /\ pending' = pending /\ Alive(w) /\ Leaving(w) /\ Rest'
      BY <2>2 DEF Deliver, Alive
    <3> QED
      BY <3>1, LeavingStep DEF Sound, NobodyLeftWhenClosed, Alive
  <2>3. CASE GiveUp(w)
    <3>1. loop' = loop /\ pending' = pending /\ Alive(w) /\ Leaving(w) /\ Rest'
      BY <2>3 DEF GiveUp, Alive
    <3> QED
      BY <3>1, LeavingStep DEF Sound, NobodyLeftWhenClosed, Alive
  <2>4. CASE Leave(w)
    <3>1. loop' = loop /\ Alive(w) /\ Rest'
      BY <2>4 DEF Leave, Alive
    <3> QED
      BY <2>4, <3>1, LeaveSound DEF NobodyLeftWhenClosed, Alive
  <2> QED
    BY <1>7, <2>1, <2>2, <2>3, <2>4 DEF WorkerStep
<1>8. CASE ConsumerBack
  BY <1>8, Untouched DEF ConsumerBack
<1>9. CASE ConsumerSweeps
  BY <1>9, Untouched DEF ConsumerSweeps
<1>10. CASE ConsumerReturns
  BY <1>10, Untouched DEF ConsumerReturns
<1>11. CASE Cancel
  BY <1>11, Untouched DEF Cancel
<1>12. CASE UNCHANGED vars
  BY <1>12, Untouched DEF vars
<1> QED
  BY <1>1, <1>2, <1>3, <1>4, <1>5, <1>6, <1>7, <1>8, <1>9, <1>10, <1>11, <1>12 DEF Next

-----------------------------------------------------------------------------
\* The inductive invariant holds in every state, however many files come.
THEOREM Invariance == Spec => []IInv
BY InitIInv, NextIInv, PTL DEF Spec

\* Every variable of Watcher has its type, for any number of paths.
THEOREM TypeCorrect == Spec => []TypeOK
<1>1. IInv => TypeOK
  BY DEF IInv
<1> QED
  BY <1>1, Invariance, PTL

\* "pending" keeps two goroutines from waiting for one path.
THEOREM OnePerPath == Spec => []OneWorkerPerPath
<1>1. IInv => OneWorkerPerPath
  BY DEF IInv
<1> QED
  BY <1>1, Invariance, PTL

\* WaitStable lets through only what was unchanged for Checks checks in a row.
THEOREM StableWhenOffered == Spec => []OfferedAfterQuiet
<1>1. IInv => OfferedAfterQuiet
  <2> SUFFICES ASSUME IInv, NEW w \in Workers, worker[w].pc = "offering"
               PROVE  /\ Len(worker[w].looks) = Checks + 1
                      /\ \A i \in 1..Checks : worker[w].looks[i] = worker[w].looks[i + 1]
    BY DEF OfferedAfterQuiet
  <2> DEFINE l == worker[w]
  <2>1. l.looks \in Seq(Sizes) /\ Len(l.looks) <= Checks + 1 /\ Agrees(l, Checks)
    BY DEF IInv, TypeOK, WorkerState, CountsRight, Counted
  <2> HIDE DEF l
  <2>2. Len(l.looks) \in Nat /\ Len(l.looks) > Checks
        /\ \A i \in (Len(l.looks) - Checks)..Len(l.looks) : l.looks[i] = l.lastSize
    BY <2>1, WatcherAssumption DEF Agrees
  <2>3. Len(l.looks) = Checks + 1
    BY <2>1, <2>2, WatcherAssumption
  <2>4. \A i \in 1..(Checks + 1) : l.looks[i] = l.lastSize
    BY <2>2, <2>3, WatcherAssumption
  <2>5. \A i \in 1..Checks : l.looks[i] = l.looks[i + 1]
    BY <2>4, WatcherAssumption
  <2> QED
    BY <2>3, <2>5 DEF l
<1> QED
  BY <1>1, Invariance, PTL

\* After the channel is closed nobody is left to send on it: no panic.
THEOREM CleanEnd == Spec => []NobodyLeftWhenClosed
<1>1. IInv => NobodyLeftWhenClosed
  BY DEF IInv
<1> QED
  BY <1>1, Invariance, PTL

-----------------------------------------------------------------------------
(* The names of the goroutines.                                            *)

\* A goroutine can be started for every path that is accepted: that there are
\* no more of them than paths is no restriction, the code has no such limit.
THEOREM WorkersSuffice ==
  Spec => [](\A p \in Paths : Accepts(p) => \E w \in Workers : worker[w].pc = "none")
<1>1. ASSUME IInv, NEW p \in Paths, Accepts(p) PROVE \E w \in Workers : worker[w].pc = "none"
  <2> DEFINE S == Paths \ Rejected
             T == S \ {p}
             f == [w \in Workers |-> worker[w].path]
  <2> SUFFICES ASSUME \A w \in Workers : worker[w].pc # "none" PROVE FALSE
    OBVIOUS
  <2>1. pending = {worker[w].path : w \in Workers} /\ pending \subseteq S /\ p \notin pending
    BY <1>1 DEF IInv, TypeOK, OneWorkerPerPath, Accepts
  <2>2. f \in Injection(Workers, T)
    <3>1. f \in [Workers -> T]
      BY <2>1
    <3>2. \A v, w \in Workers : f[v] = f[w] => v = w
      BY <1>1 DEF IInv, OneWorkerPerPath
    <3> QED
      BY <3>1, <3>2 DEF Injection, IsInjective
  <2>3. IsFiniteSet(S)
    BY FS_Subset, WatcherAssumption
  <2>4. /\ IsFiniteSet(T) /\ Cardinality(T) = Cardinality(S) - 1
        /\ Cardinality(S) \in Nat /\ Cardinality(T) \in Nat
    <3>1. p \in S
      BY <1>1 DEF Accepts
    <3> QED
      BY <2>3, <3>1, FS_RemoveElement, FS_CardinalityType
  <2>5. IsFiniteSet(Workers) /\ Cardinality(Workers) <= Cardinality(T)
    BY <2>2, <2>4, FS_Injection
  <2>6. Cardinality(Workers) \in Nat /\ Cardinality(Workers) >= Cardinality(S)
    BY <2>5, FS_CardinalityType, WatcherAssumption
  <2> QED
    BY <2>4, <2>5, <2>6
<1>2. IInv => \A p \in Paths : Accepts(p) => \E w \in Workers : worker[w].pc = "none"
  BY <1>1
<1> QED
  BY <1>2, Invariance, PTL

-----------------------------------------------------------------------------
(* Watcher implements StableFeed: what the goroutines do is what becomes   *)
(* of the paths, because no two of them have the same.                     *)

\* The phases of a goroutine that StableFeed knows.
Phases == {"looking", "offering", "leaving"}

LEMMA PathsAtUnchanged == worker' = worker => \A k \in Phases : PathsAt(k)' = PathsAt(k)
BY DEF PathsAt

\* The step of a goroutine moves its path, and no other, from phase to phase.
LEMMA PathMoves ==
  ASSUME OneWorkerPerPath, NEW w \in Workers, worker[w].pc # "none",
         worker'[w].pc # "none" => worker'[w].path = worker[w].path,
         \A v \in Workers \ {w} : worker'[v] = worker[v],
         NEW k \in Phases
  PROVE  /\ worker'[w].pc = k => PathsAt(k)' = PathsAt(k) \cup {worker[w].path}
         /\ worker'[w].pc # k => PathsAt(k)' = PathsAt(k) \ {worker[w].path}
<1>1. \A u, v \in Workers : u # v /\ worker[u].pc # "none" => worker[u].path # worker[v].path
  BY DEF OneWorkerPerPath
<1>2. k # "none"
  BY DEF Phases
<1>3. \A q : q \in PathsAt(k) <=> \E v \in Workers : worker[v].pc = k /\ worker[v].path = q
  BY DEF PathsAt
<1>4. \A q : q \in PathsAt(k)' <=> \E v \in Workers : worker'[v].pc = k /\ worker'[v].path = q
  BY DEF PathsAt
<1>5. ASSUME NEW q, q # worker[w].path PROVE q \in PathsAt(k)' <=> q \in PathsAt(k)
  <2>1. \A v \in Workers : worker'[v].pc = k /\ worker'[v].path = q
                             <=> worker[v].pc = k /\ worker[v].path = q
    BY <1>2, <1>5
  <2> QED
    BY <1>3, <1>4, <2>1
<1>6. worker'[w].pc = k => worker[w].path \in PathsAt(k)'
  BY <1>2, <1>4
<1>7. worker'[w].pc # k => worker[w].path \notin PathsAt(k)'
  <2> SUFFICES ASSUME NEW v \in Workers, worker'[w].pc # k, worker'[v].pc = k, worker'[v].path = worker[w].path
               PROVE  FALSE
    BY <1>4
  <2>1. v # w /\ worker[v].path = worker[w].path
    OBVIOUS
  <2> QED
    BY <1>1, <2>1
<1> QED
  BY <1>5, <1>6, <1>7

LEMMA FeedUnchanged ==
  ASSUME worker' = worker, consumer' = consumer, loop' = "closed" <=> loop = "closed"
  PROVE  UNCHANGED Feed!feedVars
<1>1. \A k \in Phases : PathsAt(k)' = PathsAt(k)
  BY PathsAtUnchanged
<1>2. (loop' = "closed") = (loop = "closed")
  OBVIOUS
<1> QED
  BY <1>1, <1>2 DEF Feed!feedVars, Phases

LEMMA FeedInit == Init => Feed!Init
<1> SUFFICES ASSUME Init PROVE Feed!Init
  OBVIOUS
<1>1. \A w \in Workers : worker[w].pc = "none"
  BY DEF Init, None
<1>2. \A k \in Phases : PathsAt(k) = {}
  BY <1>1 DEF PathsAt, Phases
<1>3. (consumer = "receiving") = TRUE /\ (loop = "closed") = FALSE
  BY DEF Init
<1> QED
  BY <1>2, <1>3 DEF Feed!Init, Phases

LEMMA FeedStart ==
  ASSUME IInv, TakeEvent PROVE [Feed!Next]_(Feed!feedVars)
<1> DEFINE p == Head(events)
<1>1. CASE ~Accepts(p)
  BY <1>1, FeedUnchanged DEF TakeEvent
<1>2. CASE Accepts(p)
  <2>1. PICK w \in Workers : worker[w].pc = "none" /\ worker' = [worker EXCEPT ![w] = Started(p)]
    BY <1>2 DEF TakeEvent
  <2>2. p \in Paths \ Rejected /\ p \notin pending
    BY <1>2 DEF TakeEvent, Accepts, IInv, TypeOK
  <2>3. /\ worker'[w].pc = "looking" /\ worker'[w].path = p
        /\ \A v \in Workers \ {w} : worker'[v] = worker[v]
    BY <2>1 DEF Started, IInv, TypeOK
  <2> HIDE DEF p
  <2>4. \A k \in Phases : p \notin PathsAt(k)
    BY <2>2 DEF IInv, OneWorkerPerPath, PathsAt, Phases
  <2>5. PathsAt("looking")' = PathsAt("looking") \cup {p}
    BY <2>1, <2>3 DEF PathsAt
  <2>6. PathsAt("offering")' = PathsAt("offering") /\ PathsAt("leaving")' = PathsAt("leaving")
    BY <2>1, <2>3 DEF PathsAt
  <2>7. loop = "select" /\ loop' = loop /\ consumer' = consumer
    BY DEF TakeEvent
  <2>8. Feed!Notice(p)
    BY <2>4, <2>5, <2>6, <2>7 DEF Feed!Notice, Feed!Taken, Phases
  <2> QED
    BY <2>2, <2>8 DEF Feed!Next
<1> QED
  BY <1>1, <1>2

LEMMA FeedWorker ==
  ASSUME IInv, NEW w \in Workers, WorkerStep(w) PROVE [Feed!Next]_(Feed!feedVars)
<1> DEFINE p == worker[w].path
<1>1. worker \in [Workers -> WorkerState] /\ OneWorkerPerPath /\ Alive(w) /\ p \in Paths /\ p \in pending
  BY DEF IInv, TypeOK, OneWorkerPerPath, WorkerStep, Look, Deliver, GiveUp, Leave, Alive
<1>2. p \in Paths \ Rejected
  BY <1>1 DEF IInv, TypeOK
<1>3. loop # "closed" /\ loop' = loop
  BY DEF IInv, NobodyLeftWhenClosed, WorkerStep, Look, Deliver, GiveUp, Leave
<1>4. \A v \in Workers \ {w} : worker'[v] = worker[v]
  BY <1>1 DEF WorkerStep, Look, Deliver, GiveUp, Leave, Leaving
<1>5. worker'[w].pc # "none" => worker'[w].path = p
  <2>1. CASE Leave(w)
    BY <1>1, <2>1 DEF Leave, None
  <2>2. CASE Leaving(w)
    BY <1>1, <2>2 DEF Leaving, WorkerState
  <2>3. CASE Look(w) /\ ~Leaving(w)
    <3>1. worker'[w] = Looked(worker[w], size[p])
      BY <1>1, <2>3 DEF Look
    <3>2. worker[w] \in WorkerState
      BY <1>1
    <3> QED
      BY <3>1, <3>2 DEF Looked, WorkerState
  <2> QED
    BY <2>1, <2>2, <2>3 DEF WorkerStep, Deliver, GiveUp
<1>6. \A k \in Phases :
        /\ worker'[w].pc = k => PathsAt(k)' = PathsAt(k) \cup {p}
        /\ worker'[w].pc # k => PathsAt(k)' = PathsAt(k) \ {p}
  BY <1>1, <1>4, <1>5, PathMoves DEF Alive
<1>7. \A k \in Phases : p \in PathsAt(k) <=> worker[w].pc = k
  BY <1>1 DEF PathsAt, Phases, OneWorkerPerPath, Alive
<1> HIDE DEF p
<1>8. CASE worker'[w].pc = worker[w].pc /\ consumer' = consumer
  <2>1. \A k \in Phases : PathsAt(k)' = PathsAt(k)
    BY <1>6, <1>7, <1>8
  <2> QED
    BY <1>3, <1>8, <2>1 DEF Feed!feedVars, Phases
<1>9. CASE worker[w].pc = "looking" /\ worker'[w].pc = "offering" /\ consumer' = consumer
  <2>1. Feed!Settle(p)
    BY <1>3, <1>6, <1>7, <1>9 DEF Feed!Settle, Phases
  <2> QED
    BY <1>2, <2>1 DEF Feed!Next
<1>10. CASE /\ worker[w].pc \in {"looking", "offering"} /\ worker'[w].pc = "leaving"
            /\ consumer' = consumer
  <2>1. Feed!GiveUp(p)
    BY <1>3, <1>6, <1>7, <1>10 DEF Feed!GiveUp, Phases
  <2> QED
    BY <1>2, <2>1 DEF Feed!Next
<1>11. CASE Deliver(w)
  <2>1. /\ worker[w].pc = "offering" /\ worker'[w].pc = "leaving"
        /\ consumer = "receiving" /\ consumer' = "busy"
    BY <1>1, <1>11 DEF Deliver, Leaving, WorkerState
  <2>2. Feed!HandOver(p)
    BY <1>3, <1>6, <1>7, <2>1 DEF Feed!HandOver, Phases
  <2> QED
    BY <1>2, <2>2 DEF Feed!Next
<1>12. CASE Leave(w)
  <2>1. worker[w].pc = "leaving" /\ worker'[w].pc = "none" /\ consumer' = consumer
    BY <1>1, <1>12 DEF Leave, None
  <2>2. Feed!Release(p)
    BY <1>3, <1>6, <1>7, <2>1 DEF Feed!Release, Phases
  <2> QED
    BY <1>2, <2>2 DEF Feed!Next
<1>13. CASE GiveUp(w)
  BY <1>1, <1>10, <1>13 DEF GiveUp, Leaving, WorkerState
<1>14. CASE Look(w)
  <2>1. worker[w].pc = "looking" /\ consumer' = consumer
    BY <1>14 DEF Look
  <2>2. worker'[w].pc \in {"looking", "offering", "leaving"}
    <3>1. CASE Leaving(w)
      BY <1>1, <3>1 DEF Leaving, WorkerState
    <3>2. CASE ~Leaving(w)
      <4>1. PICK s : worker'[w] = Looked(worker[w], s)
        BY <1>1, <1>14, <3>2 DEF Look
      <4>2. worker[w] \in WorkerState
        BY <1>1
      <4> QED
        BY <4>1, <4>2 DEF Looked, WorkerState
    <3> QED
      BY <3>1, <3>2
  <2> QED
    BY <1>8, <1>9, <1>10, <2>1, <2>2
<1> QED
  BY <1>11, <1>12, <1>13, <1>14 DEF WorkerStep

LEMMA FeedStep == IInv /\ [Next]_vars => [Feed!Next]_(Feed!feedVars)
<1> SUFFICES ASSUME IInv, [Next]_vars PROVE [Feed!Next]_(Feed!feedVars)
  OBVIOUS
<1>1. CASE \E p \in Paths : Disappear(p) \/ \E s \in Sizes : Appear(p, s) \/ Resize(p, s)
  BY <1>1, FeedUnchanged DEF Disappear, Appear, Resize
<1>2. CASE TakeEvent
  BY <1>2, FeedStart
<1>3. CASE StopLoop \/ Cancel \/ UNCHANGED vars
  BY <1>3, FeedUnchanged DEF StopLoop, Cancel, vars
<1>4. CASE CloseOut
  <2>1. \A k \in Phases : PathsAt(k) = {} /\ PathsAt(k)' = PathsAt(k)
    BY <1>4, PathsAtUnchanged DEF CloseOut, AllEnded, PathsAt, Phases
  <2>2. loop = "waiting" /\ loop' = "closed" /\ consumer' = consumer
    BY <1>4 DEF CloseOut
  <2>3. Feed!Close
    BY <2>1, <2>2 DEF Feed!Close, Feed!Taken, Phases
  <2> QED
    BY <2>3 DEF Feed!Next
<1>5. CASE \E w \in Workers : WorkerStep(w)
  BY <1>5, FeedWorker
<1>6. CASE ConsumerBack \/ ConsumerSweeps \/ ConsumerReturns
  <2>1. worker' = worker /\ loop' = loop
    BY <1>6 DEF ConsumerBack, ConsumerSweeps, ConsumerReturns
  <2>2. (consumer' = "receiving") = ~(consumer = "receiving")
    BY <1>6 DEF ConsumerBack, ConsumerSweeps, ConsumerReturns
  <2>3. \A k \in Phases : PathsAt(k)' = PathsAt(k)
    BY <2>1, PathsAtUnchanged
  <2>4. Feed!Daemon
    BY <2>1, <2>2, <2>3 DEF Feed!Daemon, Phases
  <2> QED
    BY <2>4 DEF Feed!Next
<1> QED
  BY <1>1, <1>2, <1>3, <1>4, <1>5, <1>6 DEF Next

\* The watcher keeps the promise of StableFeed, for any number of paths.
THEOREM FeedRefinement == Spec => ImplementsFeed
<1>1. Init => Feed!Init
  BY FeedInit
<1>2. IInv /\ [Next]_vars => [Feed!Next]_(Feed!feedVars)
  BY FeedStep
<1> QED
  BY <1>1, <1>2, Invariance, PTL DEF Spec, ImplementsFeed, Feed!Spec
=============================================================================
