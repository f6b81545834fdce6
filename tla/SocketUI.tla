------------------------------ MODULE SocketUI ------------------------------
(***************************************************************************)
(* ui/socket.go: the state shown to the trays, the connections it is       *)
(* pushed to, and the goroutines that push it: the daemon goroutine        *)
(* (SetStatus, IncProcessed, AddRecentFile), acceptLoop, which greets new  *)
(* connections, and one handleClient per connection, which toggles.        *)
(*                                                                         *)
(* SocketUI.mu is never held while a goroutine waits for something, so a   *)
(* critical section is one step.  A broadcast is not: it copies the state  *)
(* and the set of connections, and writes to one after the other without   *)
(* the lock.  The write deadline belongs to the connection, not to the     *)
(* goroutine that sets it.  The state is its version: a number that grows  *)
(* with every change.                                                      *)
(***************************************************************************)
EXTENDS Integers, Sequences

CONSTANTS
  Conns,             \* connections, each made once by some tray
  Slow,              \* those whose tray may stop reading for ever
  Daemon, Acceptor,  \* the daemon goroutine and the acceptLoop goroutine
  NoConn,            \* a goroutine is not at a connection
  Room,              \* lines that fit the socket buffers of a connection
  MaxVersion         \* bound on the changes of the state

ASSUME SocketAssumption ==
  /\ Slow \subseteq Conns
  /\ NoConn \notin Conns /\ Daemon \notin Conns /\ Acceptor \notin Conns
  /\ Daemon # Acceptor
  /\ Room \in Nat \ {0} /\ MaxVersion \in Nat

VARIABLES
  ctxDone,   \* the signal context is cancelled
  listening, \* the listener is open
  st,        \* SocketUI.st
  told,      \* history: st at the last change that was broadcast
  clients,   \* SocketUI.clients
  conn,      \* the connections: both ends, the lines in between, the deadline
  writer,    \* where each goroutine is in its broadcast or greeting
  sent       \* history: the newest state written to each connection

vars == <<ctxDone, listening, st, told, clients, conn, writer, sent>>

-----------------------------------------------------------------------------
Versions == 0..MaxVersion
Goroutines == Conns \cup {Daemon, Acceptor}
Hello == [type |-> "hello", ver |-> 0]
State(v) == [type |-> "state", ver |-> v]
Lines == {Hello} \cup {State(v) : v \in Versions}
None == -1         \* no state was sent yet

ConnState == [peer : {"absent", "dialed", "up", "left"},    \* the tray's end
              open : BOOLEAN,                               \* this end
              unread : 0..Room,
              deadline : {"none", "armed", "expired"}]

\* "ready" is waiting for a command, for a connection, or for the next file;
\* "closing" is having dropped a connection that it is still to close.
WriterState == [pc : {"none", "ready", "accepted", "registered", "next", "write", "wrote",
                       "closing"},
                at : Conns \cup {NoConn},
                lines : Seq(Lines), todo : SUBSET Conns, failed : SUBSET Conns]

\* One type invariant: every variable has its type.
TypeOK ==
  /\ ctxDone \in BOOLEAN /\ listening \in BOOLEAN
  /\ st \in Versions /\ told \in 0..st
  /\ clients \subseteq Conns
  /\ conn \in [Conns -> ConnState]
  /\ writer \in [Goroutines -> WriterState]
  /\ sent \in [Conns -> {None} \cup Versions]

Ready == [pc |-> "ready", at |-> NoConn, lines |-> <<>>, todo |-> {}, failed |-> {}]
NotStarted == [Ready EXCEPT !.pc = "none"]

Init ==
  /\ ctxDone = FALSE /\ listening = TRUE
  /\ st = 0 /\ told = 0
  /\ clients = {}
  /\ conn = [c \in Conns |-> [peer |-> "absent", open |-> FALSE, unread |-> 0,
                              deadline |-> "none"]]
  /\ writer = [g \in Goroutines |-> IF g \in Conns THEN NotStarted ELSE Ready]
  /\ sent = [c \in Conns |-> None]

\* What a closed connection still held is of no interest.
Closed(cs) ==
  [c \in Conns |-> IF c \in cs
                   THEN [conn[c] EXCEPT !.open = FALSE, !.unread = 0, !.deadline = "none"]
                   ELSE conn[c]]

-----------------------------------------------------------------------------
(* Broadcasts.                                                             *)

\* Mutant: a connection that is still being greeted is left out.
GreetedClients == clients \ {writer[Acceptor].at}
Recipients == clients

\* A change of the state with its broadcast: broadcastLocked up to Unlock.
Change(g) ==
  /\ st < MaxVersion
  /\ st' = st + 1 /\ told' = st + 1
  /\ writer' = [writer EXCEPT ![g] = [pc |-> "next", at |-> NoConn,
                   lines |-> <<State(st + 1)>>, todo |-> Recipients, failed |-> {}]]
  /\ UNCHANGED <<ctxDone, listening, clients, conn, sent>>

\* SetStatus, IncProcessed, AddRecentFile.
DaemonChanges == writer[Daemon].pc = "ready" /\ Change(Daemon)

\* handleClient has a line "toggle_dry_run", maybe the last one of a connection
\* that is closed by now.  The look at ctx and the change are one step: what a
\* change does when ctx ends in between, a change of the daemon does as well.
\* The callback that follows the broadcast is in module Runtime.
Toggle(c) ==
  /\ writer[c].pc = "ready" /\ ~ctxDone
  /\ Change(c)

\* SetRules, called by reloadConfig while connections are served.
SetRules ==
  /\ st < MaxVersion
  /\ st' = st + 1
  /\ UNCHANGED <<ctxDone, listening, told, clients, conn, writer, sent>>

\* A closed connection takes no deadline.
Deadline(c, d) ==
  [conn EXCEPT ![c].deadline = IF conn[c].open THEN d ELSE @]

\* writeToClients, one connection: SetWriteDeadline, Write, SetWriteDeadline.
Arm(g, c) ==
  /\ writer[g].pc = "next" /\ c \in writer[g].todo
  /\ conn' = Deadline(c, "armed")
  /\ writer' = [writer EXCEPT ![g].pc = "write", ![g].at = c]
  /\ UNCHANGED <<ctxDone, listening, st, told, clients, sent>>

Writing(g, c) == writer[g].pc = "write" /\ writer[g].at = c
Reachable(c) == conn[c].open /\ conn[c].peer # "left"

AlwaysFits(c) == TRUE              \* mutant: a write never waits
Fits(c) == conn[c].unread < Room

Newest(v, line) == IF line.type = "state" /\ line.ver > v THEN line.ver ELSE v

Write(g, c) ==
  /\ Writing(g, c)
  /\ Reachable(c) /\ conn[c].deadline # "expired" /\ Fits(c)
  /\ conn' = [conn EXCEPT ![c].unread = @ + 1]
  /\ sent' = [sent EXCEPT ![c] = Newest(@, Head(writer[g].lines))]
  /\ writer' = [writer EXCEPT ![g].lines = IF g = Acceptor THEN Tail(@) ELSE @,
                              ![g].pc = IF g = Acceptor /\ Len(writer[g].lines) > 1
                                        THEN "write" ELSE "wrote"]
  /\ UNCHANGED <<ctxDone, listening, st, told, clients>>

WriteFails(g, c) ==
  /\ g # Acceptor /\ Writing(g, c)
  /\ ~Reachable(c) \/ conn[c].deadline = "expired"
  /\ writer' = [writer EXCEPT ![g].pc = "wrote", ![g].failed = @ \cup {c}]
  /\ UNCHANGED <<ctxDone, listening, st, told, clients, conn, sent>>

TodoAgain(g, c) == writer[g].todo \ ({c} \ writer[g].failed)   \* mutant: retries
TodoLeft(g, c) == writer[g].todo \ {c}

Disarm(g, c) ==
  /\ g # Acceptor /\ writer[g].pc = "wrote" /\ writer[g].at = c
  /\ conn' = Deadline(c, "none")
  /\ writer' = [writer EXCEPT ![g].pc = "next", ![g].at = NoConn,
                              ![g].todo = TodoLeft(g, c)]
  /\ UNCHANGED <<ctxDone, listening, st, told, clients, sent>>

\* The lock is taken again: whom the write failed for is dropped and closed.
Finish(g) ==
  /\ writer[g].pc = "next" /\ writer[g].todo = {}
  /\ clients' = clients \ writer[g].failed
  /\ conn' = Closed(writer[g].failed)
  /\ writer' = [writer EXCEPT ![g] = Ready]
  /\ UNCHANGED <<ctxDone, listening, st, told, sent>>

Expire(c) ==
  /\ conn[c].deadline = "armed"
  /\ conn' = [conn EXCEPT ![c].deadline = "expired"]
  /\ UNCHANGED <<ctxDone, listening, st, told, clients, writer, sent>>

-----------------------------------------------------------------------------
(* acceptLoop.                                                             *)

Accept(c) ==
  /\ writer[Acceptor].pc = "ready" /\ listening /\ conn[c].peer = "dialed"
  /\ conn' = [conn EXCEPT ![c].peer = "up", ![c].open = TRUE]
  /\ writer' = [writer EXCEPT ![Acceptor].pc = "accepted", ![Acceptor].at = c]
  /\ UNCHANGED <<ctxDone, listening, st, told, clients, sent>>

\* The connection is registered before it is greeted, be it after cleanup.
Register(c) ==
  /\ writer[Acceptor].pc = "accepted" /\ writer[Acceptor].at = c
  /\ clients' = clients \cup {c}
  /\ writer' = [writer EXCEPT ![Acceptor].pc = "registered"]
  /\ UNCHANGED <<ctxDone, listening, st, told, conn, sent>>

\* sendHelloAndState: the state is copied, one deadline for both lines.
Greet(c) ==
  /\ writer[Acceptor].pc = "registered" /\ writer[Acceptor].at = c
  /\ writer' = [writer EXCEPT ![Acceptor].pc = "write",
                              ![Acceptor].lines = <<Hello, State(st)>>]
  /\ conn' = Deadline(c, "armed")
  /\ UNCHANGED <<ctxDone, listening, st, told, clients, sent>>

Spawned(c) == [writer EXCEPT ![Acceptor] = Ready, ![c] = Ready]

Greeted(c) ==
  /\ writer[Acceptor].pc = "wrote" /\ writer[Acceptor].at = c
  /\ conn' = Deadline(c, "none")
  /\ writer' = Spawned(c)
  /\ UNCHANGED <<ctxDone, listening, st, told, clients, sent>>

\* removeClient, up to Unlock.
GreetingFails(c) ==
  /\ Writing(Acceptor, c)
  /\ ~Reachable(c) \/ conn[c].deadline = "expired"
  /\ clients' = clients \ {c}
  /\ writer' = [writer EXCEPT ![Acceptor].pc = "closing"]
  /\ UNCHANGED <<ctxDone, listening, st, told, conn, sent>>

-----------------------------------------------------------------------------
(* handleClient's end, shutdown, and the trays.                            *)

DroppedNothing(c) == clients      \* mutant: the deferred delete is missing
Dropped(c) == clients \ {c}

\* The scanner meets the end of the connection, a line once ctx is done, or a
\* line too long for it, which a tray may send at any time.  The connection is
\* taken from the set, but not closed yet.
HandlerEnds(c) ==
  /\ writer[c].pc = "ready"
  /\ clients' = Dropped(c)
  /\ writer' = [writer EXCEPT ![c].pc = "closing", ![c].at = c]
  /\ UNCHANGED <<ctxDone, listening, st, told, conn, sent>>

\* handleClient and removeClient close without the lock.  After a greeting that
\* failed, handleClient is started all the same.
CloseDropped(g, c) ==
  /\ writer[g].pc = "closing" /\ writer[g].at = c
  /\ conn' = Closed({c})
  /\ writer' = IF g = Acceptor THEN Spawned(c) ELSE [writer EXCEPT ![g] = NotStarted]
  /\ UNCHANGED <<ctxDone, listening, st, told, clients, sent>>

\* A signal, or "quit" from a tray.
Cancel ==
  /\ ~ctxDone /\ ctxDone' = TRUE
  /\ UNCHANGED <<listening, st, told, clients, conn, writer, sent>>

\* cleanup, with the connections that nobody accepted.
Cleanup ==
  /\ ctxDone /\ listening
  /\ listening' = FALSE
  /\ conn' = Closed(clients)
  /\ clients' = {}
  /\ UNCHANGED <<ctxDone, st, told, writer, sent>>

Dial(c) ==
  /\ listening /\ conn[c].peer = "absent"
  /\ conn' = [conn EXCEPT ![c].peer = "dialed"]
  /\ UNCHANGED <<ctxDone, listening, st, told, clients, writer, sent>>

Read(c) ==
  /\ conn[c].peer = "up" /\ conn[c].unread > 0
  /\ conn' = [conn EXCEPT ![c].unread = @ - 1]
  /\ UNCHANGED <<ctxDone, listening, st, told, clients, writer, sent>>

Leave(c) ==
  /\ conn[c].peer = "up" /\ conn[c].open
  /\ conn' = [conn EXCEPT ![c].peer = "left", ![c].unread = 0]
  /\ UNCHANGED <<ctxDone, listening, st, told, clients, writer, sent>>

-----------------------------------------------------------------------------
BroadcastStep(g) ==
  Finish(g) \/ \E c \in Conns : Arm(g, c) \/ Write(g, c) \/ WriteFails(g, c) \/ Disarm(g, c)

AcceptorStep(c) == Accept(c) \/ Register(c) \/ Greet(c) \/ Greeted(c) \/ GreetingFails(c)

ConnStep(c) ==
  Toggle(c) \/ HandlerEnds(c) \/ Expire(c) \/ Dial(c) \/ Read(c) \/ Leave(c)

Next ==
  \/ DaemonChanges \/ SetRules \/ Cancel \/ Cleanup
  \/ \E g \in Goroutines : BroadcastStep(g) \/ \E c \in Conns : CloseDropped(g, c)
  \/ \E c \in Conns : AcceptorStep(c) \/ ConnStep(c)

Spec == Init /\ [][Next]_vars

\* Goroutines that can go on do, clocks run, and a tray reads what it is sent
\* unless it is slow.  Several goroutines may wait for room in one connection,
\* and Go lets them write in the order they came: SF.  Nothing makes a tray
\* dial, toggle or leave, nor a silent connection end.
GoroutineStep(g) ==
  \/ BroadcastStep(g)
  \/ \E c \in Conns : CloseDropped(g, c)
  \/ g = Acceptor /\ \E c \in Conns : AcceptorStep(c)
  \/ g \in Conns /\ ~Reachable(g) /\ HandlerEnds(g)

Fairness ==
  /\ \A g \in Goroutines : SF_vars(GoroutineStep(g))
  /\ \A c \in Conns : WF_vars(Expire(c)) /\ (c \notin Slow => WF_vars(Read(c)))
  /\ WF_vars(Cleanup)

FairSpec == Spec /\ Fairness

-----------------------------------------------------------------------------
(* Properties.                                                             *)

Quiet == \A g \in Goroutines : writer[g].pc \in {"none", "ready", "closing"}

\* Registering a connection before its greeting is copied loses no change:
\* when no broadcast or greeting is under way, every registered connection
\* was sent the last state that was broadcast, or a later one.
NobodyMissesAChange ==
  Quiet => \A c \in clients : sent[c] >= told

\* What the goroutines do for the trays is what Announcements says: they owe
\* the state in their hands to those it is still to be written to, dropped by
\* now or not, and the broadcast drops whom it could not write to.  A connection
\* that is dropped while it is greeted is closed with it, and not greeted.
Pushing(g) == writer[g].pc \in {"next", "write", "wrote"}
LastVersion(g) == writer[g].lines[Len(writer[g].lines)].ver
Unwritten(g) ==
  {c \in Conns : IF g = Acceptor
                 THEN Writing(g, c) /\ c \in clients
                 ELSE /\ Pushing(g) /\ c \in writer[g].todo
                      /\ ~(writer[g].pc = "wrote" /\ writer[g].at = c)}
OwedBy(g) == {[by |-> g, to |-> c, ver |-> LastVersion(g)] : c \in Unwritten(g)}
Failed == {c \in Conns : \E g \in Goroutines \ {Acceptor} : Pushing(g) /\ c \in writer[g].failed}
Accepted(pc) == {c \in Conns : writer[Acceptor].pc = pc /\ writer[Acceptor].at = c}
Known == {c \in Conns : conn[c].peer \in {"up", "left"}} \ Accepted("accepted")
A == INSTANCE Announcements WITH
       Subscribers <- Conns, Publishers <- Goroutines, Nothing <- None,
       current <- st, announced <- told, members <- clients, newest <- sent,
       gone <- Known \ clients,
       joining <- clients \cap Accepted("registered"),
       owed <- UNION {OwedBy(g) : g \in Goroutines},
       doomed <- clients \cap Failed
ImplementsAnnouncements == A!Spec

\* A connection this end has closed is not written to or kept: between
\* broadcasts the registered connections are open ones with a goroutine that
\* reads them.
RegisteredAreServed ==
  Quiet => \A c \in clients : conn[c].open /\ writer[c].pc = "ready"

\* Whoever pushes a change is done with it some time, provided the trays read:
\* connections that are closed meanwhile on either side hold nobody up.
BroadcastReturns == \A g \in Goroutines : []<>~Pushing(g)

\* "slow clients cannot block state mutations" (broadcastLocked): with trays
\* that do not read, the daemon goroutine gets through SetStatus and the like
\* all the same, and goes on to its next file.
SlowClientsDoNotBlock == []<>~Pushing(Daemon)

\* A tray that left is dropped, whether or not anything is broadcast again.
LeaversDropped == \A c \in Conns : []<>~(conn[c].peer = "left" /\ c \in clients)
=============================================================================
