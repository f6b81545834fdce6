----------------------------- MODULE StableFeed -----------------------------
(***************************************************************************)
(* What the watcher promises the daemon, path by path, without saying how: *)
(* a path that is noticed is waited for once; it is handed over at most    *)
(* once for that, when it has been found stable and to a daemon that       *)
(* receives, one path per receive; and the feed is closed for good, when   *)
(* nobody is left who could still hand over something.  Watcher implements *)
(* it with an event loop, a goroutine per path and an unbuffered channel.  *)
(***************************************************************************)
CONSTANT Accepted    \* the paths that are not rejected

VARIABLES
  waiting,     \* paths whose size still has to settle
  ready,       \* paths that are stable and on offer
  ending,      \* paths that were handed over or given up, still blocked
  receiving,   \* the daemon receives
  closed       \* the feed has ended

feedVars == <<waiting, ready, ending, receiving, closed>>

Init ==
  /\ waiting = {} /\ ready = {} /\ ending = {}
  /\ receiving = TRUE
  /\ closed = FALSE

Taken == waiting \cup ready \cup ending

Notice(p) ==
  /\ ~closed /\ p \notin Taken
  /\ waiting' = waiting \cup {p}
  /\ UNCHANGED <<ready, ending, receiving, closed>>

Settle(p) ==
  /\ ~closed /\ p \in waiting
  /\ waiting' = waiting \ {p}
  /\ ready' = ready \cup {p}
  /\ UNCHANGED <<ending, receiving, closed>>

HandOver(p) ==
  /\ ~closed /\ p \in ready /\ receiving
  /\ ready' = ready \ {p}
  /\ ending' = ending \cup {p}
  /\ receiving' = FALSE
  /\ UNCHANGED <<waiting, closed>>

GiveUp(p) ==
  /\ ~closed /\ p \in waiting \cup ready
  /\ waiting' = waiting \ {p}
  /\ ready' = ready \ {p}
  /\ ending' = ending \cup {p}
  /\ UNCHANGED <<receiving, closed>>

\* From here on the path can be noticed again.
Release(p) ==
  /\ ~closed /\ p \in ending
  /\ ending' = ending \ {p}
  /\ UNCHANGED <<waiting, ready, receiving, closed>>

\* The daemon goes back to receiving, or turns to something else.
Daemon ==
  /\ receiving' = ~receiving
  /\ UNCHANGED <<waiting, ready, ending, closed>>

Close ==
  /\ ~closed /\ Taken = {}
  /\ closed' = TRUE
  /\ UNCHANGED <<waiting, ready, ending, receiving>>

Next ==
  \/ \E p \in Accepted : Notice(p) \/ Settle(p) \/ HandOver(p) \/ GiveUp(p) \/ Release(p)
  \/ Daemon
  \/ Close

Spec == Init /\ [][Next]_feedVars
=============================================================================
