------------------------------- MODULE Watcher -------------------------------
(***************************************************************************)
(* watcher.go and stabilizer.go: an event loop takes Create events and     *)
(* starts one goroutine per path, which waits until the file's size stops  *)
(* changing and then offers the path to the daemon over the unbuffered     *)
(* channel out.  A cancelled context ends the goroutines, then the loop    *)
(* closes the channel.                                                     *)
(***************************************************************************)
EXTENDS Integers, Sequences, FiniteSets

CONSTANTS
  Paths,        \* the paths of the watched directories
  Rejected,     \* those ShouldSkip or the configuration's ignore list reject
  Workers,      \* names for the goroutines: as many as can be needed
  Sizes,        \* sizes a file can have
  Checks,       \* stableChecks
  NoFile,       \* a goroutine has no path
  MaxChanges    \* bound on what other programs do to the files

ASSUME WatcherAssumption ==
  /\ Rejected \subseteq Paths /\ NoFile \notin Paths
  /\ IsFiniteSet(Paths) /\ Cardinality(Workers) >= Cardinality(Paths \ Rejected)
  /\ Sizes \subseteq Nat
  /\ Checks \in Nat \ {0} /\ MaxChanges \in Nat

VARIABLES
  size,       \* the disk: per path its size, or Absent
  changes,    \* how often other programs have changed it
  events,     \* Create events on their way, oldest first
  loop,       \* the event loop: in select, in wg.Wait, or out is closed
  pending,    \* the paths that have a goroutine
  worker,     \* the goroutines, with the locals of WaitStable
  consumer,   \* the daemon: receiving from out, busy, or gone
  ctxDone

vars == <<size, changes, events, loop, pending, worker, consumer, ctxDone>>

Absent == -1

\* "looks" is history: the last sizes WaitStable has seen, Checks + 1 at most.
None == [pc |-> "none", path |-> NoFile, lastSize |-> -1, stable |-> 0, looks |-> <<>>]
Started(p) == [pc |-> "looking", path |-> p, lastSize |-> -1, stable |-> 0, looks |-> <<>>]

WorkerState ==
  [pc : {"none", "looking", "offering", "leaving"},
   path : Paths \cup {NoFile}, lastSize : Sizes \cup {-1},
   stable : 0..Checks, looks : Seq(Sizes)]

\* One type invariant: every variable has its type.
TypeOK ==
  /\ size \in [Paths -> Sizes \cup {Absent}]
  /\ changes \in 0..MaxChanges
  /\ events \in Seq(Paths)
  /\ loop \in {"select", "waiting", "closed"}
  /\ pending \subseteq Paths \ Rejected
  /\ worker \in [Workers -> WorkerState]
  /\ consumer \in {"receiving", "busy", "gone"}
  /\ ctxDone \in BOOLEAN

Init ==
  /\ size = [p \in Paths |-> Absent]
  /\ changes = 0
  /\ events = <<>>
  /\ loop = "select"
  /\ pending = {}
  /\ worker = [w \in Workers |-> None]
  /\ consumer = "receiving"
  /\ ctxDone = FALSE

-----------------------------------------------------------------------------
(* Other programs: the file appears (created, or another one renamed to    *)
(* this name, which it may replace), is written to, disappears.            *)

Appear(p, s) ==
  /\ changes < MaxChanges
  /\ size' = [size EXCEPT ![p] = s]
  /\ events' = Append(events, p)
  /\ changes' = changes + 1
  /\ UNCHANGED <<loop, pending, worker, consumer, ctxDone>>

Resize(p, s) ==
  /\ changes < MaxChanges /\ size[p] # Absent /\ size[p] # s
  /\ size' = [size EXCEPT ![p] = s]
  /\ changes' = changes + 1
  /\ UNCHANGED <<events, loop, pending, worker, consumer, ctxDone>>

Disappear(p) ==
  /\ changes < MaxChanges /\ size[p] # Absent
  /\ size' = [size EXCEPT ![p] = Absent]
  /\ changes' = changes + 1
  /\ UNCHANGED <<events, loop, pending, worker, consumer, ctxDone>>

-----------------------------------------------------------------------------
(* The event loop of Start.                                                *)

AcceptsAgain(p) == p \notin Rejected     \* mutant: pending is not asked
AcceptsAny(p) == p \notin pending        \* mutant: nor are ShouldSkip and IgnoreFunc
Accepts(p) == p \notin Rejected /\ p \notin pending

TakeEvent ==
  /\ loop = "select" /\ events # <<>>
  /\ events' = Tail(events)
  /\ LET p == Head(events) IN
       IF Accepts(p)
       THEN \E w \in Workers :
              /\ worker[w].pc = "none"
              /\ worker' = [worker EXCEPT ![w] = Started(p)]
              /\ pending' = pending \cup {p}
       ELSE UNCHANGED <<worker, pending>>
  /\ UNCHANGED <<size, changes, loop, consumer, ctxDone>>

\* The context is cancelled (only then does the daemon close the watcher and
\* with it the event channel, which has the same effect).
StopLoop ==
  /\ loop = "select" /\ ctxDone
  /\ loop' = "waiting"
  /\ UNCHANGED <<size, changes, events, pending, worker, consumer, ctxDone>>

NoWait == TRUE      \* mutant: the deferred wg.Wait is missing
AllEnded == \A w \in Workers : worker[w].pc = "none"

CloseOut ==
  /\ loop = "waiting" /\ AllEnded
  /\ loop' = "closed"
  /\ UNCHANGED <<size, changes, events, pending, worker, consumer, ctxDone>>

-----------------------------------------------------------------------------
(* A goroutine: WaitStable, the offer, the deferred delete from pending.   *)

Leaving(w) == worker' = [worker EXCEPT ![w].pc = "leaving"]

Unchanged(l, s) == s = l.lastSize

NeverReset(l) == l.stable       \* mutant: the count survives a change
Reset(l) == 0

FirstSize(l, s) == IF l.lastSize = -1 THEN s ELSE l.lastSize  \* mutant: never updated
Remembered(l, s) == s

Latest(q) == IF Len(q) > Checks + 1 THEN Tail(q) ELSE q

\* What one look at a file of size s makes of the locals.
Looked(l, s) ==
  LET n == IF Unchanged(l, s) THEN l.stable + 1 ELSE Reset(l)
  IN  [l EXCEPT !.lastSize = Remembered(l, s), !.stable = n,
                !.pc = IF Unchanged(l, s) /\ n >= Checks THEN "offering" ELSE "looking",
                !.looks = Latest(Append(@, s))]

Look(w) ==
  /\ worker[w].pc = "looking"
  /\ LET s == size[worker[w].path] IN
       IF ctxDone \/ s = Absent
       THEN Leaving(w)
       ELSE worker' = [worker EXCEPT ![w] = Looked(@, s)]
  /\ UNCHANGED <<size, changes, events, loop, pending, consumer, ctxDone>>

\* out <- path: the daemon's select takes it.
Deliver(w) ==
  /\ worker[w].pc = "offering" /\ consumer = "receiving"
  /\ consumer' = "busy"
  /\ Leaving(w)
  /\ UNCHANGED <<size, changes, events, loop, pending, ctxDone>>

OffersForEver == FALSE     \* mutant: a plain send, without the select
CanGiveUp == ctxDone

GiveUp(w) ==
  /\ worker[w].pc = "offering" /\ CanGiveUp
  /\ Leaving(w)
  /\ UNCHANGED <<size, changes, events, loop, pending, consumer, ctxDone>>

Leave(w) ==
  /\ worker[w].pc = "leaving"
  /\ pending' = pending \ {worker[w].path}
  /\ worker' = [worker EXCEPT ![w] = None]
  /\ UNCHANGED <<size, changes, events, loop, consumer, ctxDone>>

-----------------------------------------------------------------------------
(* The daemon (module Daemon has what it does meanwhile).                  *)

ConsumerBack ==
  /\ consumer = "busy"
  /\ consumer' = "receiving"
  /\ UNCHANGED <<size, changes, events, loop, pending, worker, ctxDone>>

\* A sweep keeps the daemon from receiving.
ConsumerSweeps ==
  /\ consumer = "receiving"
  /\ consumer' = "busy"
  /\ UNCHANGED <<size, changes, events, loop, pending, worker, ctxDone>>

ConsumerReturns ==
  /\ consumer = "receiving" /\ ctxDone
  /\ consumer' = "gone"
  /\ UNCHANGED <<size, changes, events, loop, pending, worker, ctxDone>>

Cancel ==
  /\ ~ctxDone
  /\ ctxDone' = TRUE
  /\ UNCHANGED <<size, changes, events, loop, pending, worker, consumer>>

-----------------------------------------------------------------------------
WorkerStep(w) == Look(w) \/ Deliver(w) \/ GiveUp(w) \/ Leave(w)

Next ==
  \/ \E p \in Paths : Disappear(p) \/ \E s \in Sizes : Appear(p, s) \/ Resize(p, s)
  \/ TakeEvent \/ StopLoop \/ CloseOut
  \/ \E w \in Workers : WorkerStep(w)
  \/ ConsumerBack \/ ConsumerSweeps \/ ConsumerReturns
  \/ Cancel

\* Goroutines run; the daemon gets back to its select and receives; of the
\* sends that are offered none is passed over for ever.
Fairness ==
  /\ WF_vars(TakeEvent \/ StopLoop \/ CloseOut)
  /\ \A w \in Workers : WF_vars(WorkerStep(w)) /\ SF_vars(Deliver(w))
  /\ WF_vars(ConsumerBack)

Spec == Init /\ [][Next]_vars
FairSpec == Spec /\ Fairness

-----------------------------------------------------------------------------
(* Properties.                                                             *)

\* "pending": no two goroutines wait for one file, so that none is offered
\* twice for one Create event, and the set names exactly the files waited for.
OneWorkerPerPath ==
  /\ \A v, w \in Workers :
       v # w /\ worker[v].pc # "none" => worker[v].path # worker[w].path
  /\ pending = {worker[w].path : w \in {v \in Workers : worker[v].pc # "none"}}

\* "Returns nil once the size is unchanged for the given number of consecutive
\* checks": what is offered looked the same Checks + 1 times in a row.
OfferedAfterQuiet ==
  \A w \in Workers : worker[w].pc = "offering" =>
    /\ Len(worker[w].looks) = Checks + 1
    /\ \A i \in 1..Checks : worker[w].looks[i] = worker[w].looks[i + 1]

\* Nobody can send on out after it is closed: that would end the daemon in a
\* panic, and with it an action under way.
NobodyLeftWhenClosed == loop = "closed" => \A w \in Workers : worker[w].pc = "none"

\* Whatever the goroutines do, the daemon sees the feed of StableFeed.
PathsAt(pc) == {worker[w].path : w \in {v \in Workers : worker[v].pc = pc}}
Feed == INSTANCE StableFeed WITH
          Accepted <- Paths \ Rejected,
          waiting <- PathsAt("looking"),
          ready <- PathsAt("offering"),
          ending <- PathsAt("leaving"),
          receiving <- (consumer = "receiving"),
          closed <- (loop = "closed")
ImplementsFeed == Feed!Spec

\* "The channel is closed when the context is cancelled", though the daemon
\* may have stopped receiving.
CancelCloses == ctxDone ~> loop = "closed"

\* A file that is waited for, and that others leave alone at last, is
\* delivered: its goroutine ends without being cancelled only if the file was
\* received or has disappeared.
WaitEnds ==
  \A w \in Workers : worker[w].pc \in {"looking", "offering"} ~> worker[w].pc = "leaving"
=============================================================================
