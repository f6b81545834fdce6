--------------------------- MODULE SocketUIProofs ---------------------------
(***************************************************************************)
(* Proofs about SocketUI, for any number of connections and changes.       *)
(***************************************************************************)
EXTENDS SocketUI, TLAPS

-----------------------------------------------------------------------------
(* The inductive invariant.                                                *)

Pushers == Goroutines \ {Acceptor}

\* acceptLoop has a connection, whose handler does not run yet.
Accepting(c) == writer[Acceptor].pc # "ready" /\ writer[Acceptor].at = c
Greeting(c) == Accepting(c) /\ writer[Acceptor].pc \notin {"accepted", "closing"}

Phases ==
  /\ writer[Acceptor].pc \in {"ready", "accepted", "registered", "write", "wrote", "closing"}
  /\ \A g \in Pushers : writer[g].pc \in {"none", "ready", "next", "write", "wrote", "closing"}
  /\ \A g \in Pushers : writer[g].pc \in {"write", "wrote"} => writer[g].at \in writer[g].todo
  /\ \A c \in Conns : Accepting(c) => conn[c].peer \in {"up", "left"} /\ writer[c].pc = "none"
  /\ \A c \in Conns : conn[c].peer \in {"absent", "dialed"} => writer[c].pc = "none"

LinesInHand ==
  /\ \A g \in Pushers : Pushing(g) => \E v \in Versions : writer[g].lines = <<State(v)>>
  /\ writer[Acceptor].pc = "write" =>
       \E v \in Versions : writer[Acceptor].lines \in {<<Hello, State(v)>>, <<State(v)>>}

\* Only connections that were registered are written to, kept or closed.
OnlyKnown ==
  /\ \A c \in clients : c \in Known
  /\ \A g \in Pushers : Pushing(g) => \A c \in writer[g].todo \cup writer[g].failed : c \in Known

OpenUntilDropped ==
  /\ \A c \in clients : conn[c].open
  /\ \A c \in Conns : Accepting(c) /\ writer[Acceptor].pc = "accepted" => conn[c].open

\* Whoever drops a connection that is being greeted closes it with it.
GreetedAreMembers == \A c \in Conns : Greeting(c) /\ conn[c].open => c \in clients

\* What is closed without the lock was dropped before.
Dropping == \A g \in Goroutines : writer[g].pc = "closing" => writer[g].at \in Known \ clients

HasReader == \A c \in clients : writer[c].pc \notin {"none", "closing"} \/ Greeting(c)

\* g has a state of version told or later for c, or will drop it.
Pending(g, c) ==
  /\ Pushing(g) /\ LastVersion(g) >= told
  /\ \/ c \in writer[g].failed
     \/ c \in writer[g].todo /\ ~(writer[g].pc = "wrote" /\ writer[g].at = c)
WillGreet(c) ==
  /\ writer[Acceptor].at = c
  /\ \/ writer[Acceptor].pc = "registered"
     \/ writer[Acceptor].pc = "write" /\ LastVersion(Acceptor) >= told

SentOrPending ==
  \A c \in clients : sent[c] >= told \/ WillGreet(c) \/ \E g \in Pushers : Pending(g, c)

IInv ==
  /\ TypeOK /\ Phases /\ LinesInHand
  /\ OnlyKnown /\ OpenUntilDropped /\ GreetedAreMembers /\ Dropping
  /\ HasReader /\ SentOrPending

-----------------------------------------------------------------------------
(* Types.                                                                  *)

LEMMA StateIsLine == \A v \in Versions : State(v) \in Lines /\ Hello \in Lines
  BY DEF Lines

LEMMA GreetingIsLines == \A v \in Versions : <<Hello, State(v)>> \in Seq(Lines)
  BY StateIsLine

LEMMA ReadyType == Ready \in WriterState /\ NotStarted \in WriterState
<1>1. <<>> \in Seq(Lines)
  OBVIOUS
<1> QED
  BY <1>1 DEF Ready, NotStarted, WriterState

LEMMA GoroutineNames == Conns \subseteq Goroutines /\ Daemon \in Goroutines /\ Acceptor \in Goroutines
  BY DEF Goroutines

LEMMA ClosedType ==
  ASSUME TypeOK, NEW cs
  PROVE  Closed(cs) \in [Conns -> ConnState]
<1>1. ASSUME NEW c \in Conns
      PROVE  [conn[c] EXCEPT !.open = FALSE, !.unread = 0, !.deadline = "none"] \in ConnState
  <2>1. conn[c] \in ConnState
    BY DEF TypeOK
  <2>2. 0 \in 0..Room
    BY SocketAssumption
  <2> QED
    BY <2>1, <2>2 DEF ConnState
<1>2. \A c \in Conns : conn[c] \in ConnState
  BY DEF TypeOK
<1> QED
  BY <1>1, <1>2 DEF Closed

LEMMA DeadlineType ==
  ASSUME TypeOK, NEW c \in Conns, NEW d \in {"none", "armed", "expired"}
  PROVE  Deadline(c, d) \in [Conns -> ConnState]
<1>1. conn[c] \in ConnState /\ conn \in [Conns -> ConnState]
  BY DEF TypeOK
<1>2. [conn[c] EXCEPT !.deadline = IF conn[c].open THEN d ELSE conn[c].deadline] \in ConnState
  BY <1>1 DEF ConnState
<1> QED
  BY <1>1, <1>2 DEF Deadline

LEMMA ChangeTypeOK ==
  ASSUME TypeOK, NEW g \in Goroutines, Change(g)
  PROVE  TypeOK'
<1>1. st + 1 \in Versions
  BY SocketAssumption DEF TypeOK, Change, Versions
<1>2. <<State(st + 1)>> \in Seq(Lines)
  BY <1>1, StateIsLine
<1>3. [pc |-> "next", at |-> NoConn, lines |-> <<State(st + 1)>>,
       todo |-> Recipients, failed |-> {}] \in WriterState
  BY <1>2 DEF TypeOK, WriterState, Recipients
<1>4. writer' \in [Goroutines -> WriterState]
  BY <1>3 DEF TypeOK, Change
<1>5. st' \in Versions /\ told' \in 0..st'
  BY <1>1 DEF Change, Versions
<1> QED
  BY <1>4, <1>5 DEF TypeOK, Change

LEMMA OneOrTwo ==
  ASSUME NEW S, NEW a \in S, NEW b \in S
  PROVE  /\ Head(<<a, b>>) = a /\ Tail(<<a, b>>) = <<b>> /\ Len(<<a, b>>) = 2
         /\ Head(<<b>>) = b /\ Tail(<<b>>) = <<>> /\ Len(<<b>>) = 1
         /\ <<b>> \in Seq(S) /\ <<>> \in Seq(S) /\ <<a, b>>[2] = b /\ <<b>>[1] = b
  OBVIOUS

LEMMA LineInHand ==
  ASSUME TypeOK, LinesInHand, NEW g \in Goroutines, writer[g].pc = "write"
  PROVE  Head(writer[g].lines) \in Lines /\ Tail(writer[g].lines) \in Seq(Lines)
<1>1. PICK v \in Versions : writer[g].lines \in {<<Hello, State(v)>>, <<State(v)>>}
  BY DEF LinesInHand, Pushers, Pushing
<1>2. Hello \in Lines /\ State(v) \in Lines
  BY StateIsLine
<1>3. CASE writer[g].lines = <<Hello, State(v)>>
  <2>1. Head(<<Hello, State(v)>>) = Hello /\ Tail(<<Hello, State(v)>>) = <<State(v)>>
    BY <1>2, OneOrTwo
  <2>2. <<State(v)>> \in Seq(Lines)
    BY <1>2, OneOrTwo
  <2> QED
    BY <1>2, <1>3, <2>1, <2>2, Zenon
<1>4. CASE writer[g].lines = <<State(v)>>
  <2>1. Head(<<State(v)>>) = State(v) /\ Tail(<<State(v)>>) = <<>>
    BY <1>2, OneOrTwo
  <2>2. <<>> \in Seq(Lines)
    BY <1>2, OneOrTwo
  <2> QED
    BY <1>2, <1>4, <2>1, <2>2, Zenon
<1> QED
  BY <1>1, <1>3, <1>4

LEMMA BroadcastTypeOK ==
  ASSUME TypeOK, LinesInHand, NEW g \in Goroutines, BroadcastStep(g)
  PROVE  TypeOK'
<1>1. writer[g] \in WriterState /\ writer \in [Goroutines -> WriterState]
  BY DEF TypeOK
<1>2. CASE Finish(g)
  <2>1. conn' \in [Conns -> ConnState]
    BY <1>2, ClosedType DEF Finish
  <2>2. writer' \in [Goroutines -> WriterState]
    BY <1>1, <1>2, ReadyType DEF Finish
  <2> QED
    BY <1>2, <2>1, <2>2 DEF Finish, TypeOK
<1>3. ASSUME NEW c \in Conns, Arm(g, c) PROVE TypeOK'
  <2>1. conn' \in [Conns -> ConnState]
    BY <1>3, DeadlineType DEF Arm
  <2>2. [writer[g] EXCEPT !.pc = "write", !.at = c] \in WriterState
    BY <1>1 DEF WriterState
  <2>3. writer' \in [Goroutines -> WriterState]
    BY <1>1, <1>3, <2>2 DEF Arm
  <2> QED
    BY <1>3, <2>1, <2>3 DEF Arm, TypeOK
<1>4. ASSUME NEW c \in Conns, Write(g, c) PROVE TypeOK'
  <2>1. conn[c] \in ConnState /\ conn \in [Conns -> ConnState]
    BY DEF TypeOK
  <2>2. [conn[c] EXCEPT !.unread = conn[c].unread + 1] \in ConnState
    BY <1>4, <2>1, SocketAssumption DEF Write, Fits, ConnState
  <2>3. conn' \in [Conns -> ConnState]
    BY <1>4, <2>1, <2>2 DEF Write
  <2>4. Head(writer[g].lines) \in Lines /\ Tail(writer[g].lines) \in Seq(Lines)
    BY <1>4, LineInHand DEF Write, Writing
  <2>5. [writer[g] EXCEPT
           !.lines = IF g = Acceptor THEN Tail(writer[g].lines) ELSE writer[g].lines,
           !.pc = IF g = Acceptor /\ Len(writer[g].lines) > 1 THEN "write" ELSE "wrote"] \in WriterState
    BY <1>1, <2>4 DEF WriterState
  <2>6. writer' \in [Goroutines -> WriterState]
    BY <1>1, <1>4, <2>5 DEF Write
  <2>7. Newest(sent[c], Head(writer[g].lines)) \in {None} \cup Versions
    BY <2>4 DEF Newest, Lines, Hello, State, TypeOK
  <2>8. sent' \in [Conns -> {None} \cup Versions]
    BY <1>4, <2>7 DEF Write, TypeOK
  <2> QED
    BY <1>4, <2>3, <2>6, <2>8 DEF Write, TypeOK
<1>5. ASSUME NEW c \in Conns, WriteFails(g, c) PROVE TypeOK'
  <2>1. [writer[g] EXCEPT !.pc = "wrote", !.failed = writer[g].failed \cup {c}] \in WriterState
    BY <1>1 DEF WriterState
  <2>2. writer' \in [Goroutines -> WriterState]
    BY <1>1, <1>5, <2>1 DEF WriteFails
  <2> QED
    BY <1>5, <2>2 DEF WriteFails, TypeOK
<1>6. ASSUME NEW c \in Conns, Disarm(g, c) PROVE TypeOK'
  <2>1. conn' \in [Conns -> ConnState]
    BY <1>6, DeadlineType DEF Disarm
  <2>2. [writer[g] EXCEPT !.pc = "next", !.at = NoConn, !.todo = TodoLeft(g, c)] \in WriterState
    BY <1>1 DEF WriterState, TodoLeft
  <2>3. writer' \in [Goroutines -> WriterState]
    BY <1>1, <1>6, <2>2 DEF Disarm
  <2> QED
    BY <1>6, <2>1, <2>3 DEF Disarm, TypeOK
<1> QED
  BY <1>2, <1>3, <1>4, <1>5, <1>6 DEF BroadcastStep

LEMMA SpawnedType == ASSUME TypeOK, NEW c \in Conns PROVE Spawned(c) \in [Goroutines -> WriterState]
  BY ReadyType, GoroutineNames DEF Spawned, TypeOK

LEMMA AcceptorTypeOK ==
  ASSUME TypeOK, NEW c \in Conns, AcceptorStep(c)
  PROVE  TypeOK'
<1>1. /\ writer[Acceptor] \in WriterState /\ writer \in [Goroutines -> WriterState]
      /\ conn[c] \in ConnState /\ conn \in [Conns -> ConnState]
  BY GoroutineNames DEF TypeOK
<1>2. CASE Accept(c)
  <2>1. [conn[c] EXCEPT !.peer = "up", !.open = TRUE] \in ConnState
    BY <1>1 DEF ConnState
  <2>2. [writer[Acceptor] EXCEPT !.pc = "accepted", !.at = c] \in WriterState
    BY <1>1 DEF WriterState
  <2> QED
    BY <1>2, <2>1, <2>2 DEF Accept, TypeOK
<1>3. CASE Register(c)
  <2>1. [writer[Acceptor] EXCEPT !.pc = "registered"] \in WriterState
    BY <1>1 DEF WriterState
  <2> QED
    BY <1>1, <1>3, <2>1 DEF Register, TypeOK
<1>4. CASE Greet(c)
  <2>1. <<Hello, State(st)>> \in Seq(Lines)
    BY GreetingIsLines DEF TypeOK
  <2>2. [writer[Acceptor] EXCEPT !.pc = "write", !.lines = <<Hello, State(st)>>] \in WriterState
    BY <1>1, <2>1 DEF WriterState
  <2>3. conn' \in [Conns -> ConnState]
    BY <1>4, DeadlineType DEF Greet
  <2> QED
    BY <1>4, <2>2, <2>3 DEF Greet, TypeOK
<1>5. CASE Greeted(c)
  <2>1. conn' \in [Conns -> ConnState]
    BY <1>5, DeadlineType DEF Greeted
  <2> QED
    BY <1>5, <2>1, SpawnedType DEF Greeted, TypeOK
<1>6. CASE GreetingFails(c)
  <2>1. [writer[Acceptor] EXCEPT !.pc = "closing"] \in WriterState
    BY <1>1 DEF WriterState
  <2> QED
    BY <1>1, <1>6, <2>1 DEF GreetingFails, TypeOK
<1> QED
  BY <1>2, <1>3, <1>4, <1>5, <1>6 DEF AcceptorStep

LEMMA ConnTypeOK ==
  ASSUME TypeOK, NEW c \in Conns, ConnStep(c)
  PROVE  TypeOK'
<1>1. /\ conn[c] \in ConnState /\ conn \in [Conns -> ConnState]
      /\ writer \in [Goroutines -> WriterState]
  BY DEF TypeOK
<1>2. CASE Toggle(c)
  BY <1>2, ChangeTypeOK, GoroutineNames DEF Toggle
<1>3. CASE HandlerEnds(c)
  <2>1. [writer[c] EXCEPT !.pc = "closing", !.at = c] \in WriterState
    <3>1. writer[c] \in WriterState
      BY <1>1, GoroutineNames
    <3> QED
      BY <3>1 DEF WriterState
  <2>2. writer' \in [Goroutines -> WriterState]
    BY <1>1, <1>3, <2>1 DEF HandlerEnds
  <2> QED
    BY <1>3, <2>2 DEF HandlerEnds, Dropped, TypeOK
<1>4. CASE Expire(c)
  <2>1. [conn[c] EXCEPT !.deadline = "expired"] \in ConnState
    BY <1>1 DEF ConnState
  <2> QED
    BY <1>1, <1>4, <2>1 DEF Expire, TypeOK
<1>5. CASE Dial(c)
  <2>1. [conn[c] EXCEPT !.peer = "dialed"] \in ConnState
    BY <1>1 DEF ConnState
  <2> QED
    BY <1>1, <1>5, <2>1 DEF Dial, TypeOK
<1>6. CASE Read(c)
  <2>1. [conn[c] EXCEPT !.unread = conn[c].unread - 1] \in ConnState
    BY <1>1, <1>6, SocketAssumption DEF Read, ConnState
  <2> QED
    BY <1>1, <1>6, <2>1 DEF Read, TypeOK
<1>7. CASE Leave(c)
  <2>1. 0 \in 0..Room
    BY SocketAssumption
  <2>2. [conn[c] EXCEPT !.peer = "left", !.unread = 0] \in ConnState
    BY <1>1, <2>1 DEF ConnState
  <2> QED
    BY <1>1, <1>7, <2>2 DEF Leave, TypeOK
<1> QED
  BY <1>2, <1>3, <1>4, <1>5, <1>6, <1>7 DEF ConnStep

LEMMA CloseDroppedTypeOK ==
  ASSUME TypeOK, NEW g \in Goroutines, NEW c \in Conns, CloseDropped(g, c)
  PROVE  TypeOK'
<1>1. conn' \in [Conns -> ConnState]
  BY ClosedType DEF CloseDropped
<1>2. writer' \in [Goroutines -> WriterState]
  BY ReadyType, SpawnedType DEF CloseDropped, TypeOK
<1> QED
  BY <1>1, <1>2 DEF CloseDropped, TypeOK

LEMMA StepTypeOK == TypeOK /\ LinesInHand /\ [Next]_vars => TypeOK'
<1> SUFFICES ASSUME TypeOK, LinesInHand, [Next]_vars PROVE TypeOK'
  OBVIOUS
<1>1. CASE DaemonChanges
  BY <1>1, ChangeTypeOK DEF DaemonChanges, Goroutines
<1>2. CASE SetRules
  BY <1>2, SocketAssumption DEF SetRules, TypeOK, Versions
<1>3. CASE Cancel
  BY <1>3 DEF Cancel, TypeOK
<1>4. CASE Cleanup
  <2>1. conn' \in [Conns -> ConnState]
    BY <1>4, ClosedType DEF Cleanup
  <2> QED
    BY <1>4, <2>1 DEF Cleanup, TypeOK
<1>5. CASE UNCHANGED vars
  BY <1>5 DEF vars, TypeOK
<1> QED
  BY <1>1, <1>2, <1>3, <1>4, <1>5, BroadcastTypeOK, CloseDroppedTypeOK, AcceptorTypeOK, ConnTypeOK DEF Next

-----------------------------------------------------------------------------
(* What the announcements of the state are made of.                        *)

Owed == UNION {OwedBy(g) : g \in Goroutines}
Record(g, c, v) == [by |-> g, to |-> c, ver |-> v]

LEMMA RecordFields == \A g, c, v : /\ Record(g, c, v).by = g
                                   /\ Record(g, c, v).to = c
                                   /\ Record(g, c, v).ver = v
  BY DEF Record

LEMMA InOwed ==
  /\ \A o : o \in Owed <=> \E g \in Goroutines : \E c \in Conns :
              c \in Unwritten(g) /\ o = Record(g, c, LastVersion(g))
  /\ \A o : o \in Owed' <=> \E g \in Goroutines : \E c \in Conns :
              c \in Unwritten(g)' /\ o = Record(g, c, LastVersion(g)')
<1>1. \A o, g : o \in OwedBy(g) <=> \E c \in Conns :
              c \in Unwritten(g) /\ o = Record(g, c, LastVersion(g))
  BY DEF OwedBy, Record, Unwritten
<1>2. \A o, g : o \in OwedBy(g)' <=> \E c \in Conns :
              c \in Unwritten(g)' /\ o = Record(g, c, LastVersion(g)')
  BY DEF OwedBy, Record, Unwritten
<1> QED
  BY <1>1, <1>2, Zenon DEF Owed

\* A step leaves as it is what the goroutines in G owe the connections in C.
KeepsOwed(G, C) ==
  \A g \in G, c \in C : /\ c \in Unwritten(g)' <=> c \in Unwritten(g)
                        /\ c \in Unwritten(g) => LastVersion(g)' = LastVersion(g)

\* It leaves as they are whom the server knows, and which of the connections in
\* C are to be greeted or to be dropped.
KeepsKnown == \A c \in Conns : c \in Known' <=> c \in Known
KeepsJoining(C) == \A c \in C : c \in Accepted("registered")' <=> c \in Accepted("registered")
KeepsFailed(C) == \A c \in C : c \in Failed' <=> c \in Failed
Keeps(C) == KeepsKnown /\ KeepsJoining(C) /\ KeepsFailed(C)

LEMMA SetsKept ==
  ASSUME clients \subseteq Conns
  PROVE  /\ KeepsKnown => Known' = Known
         /\ KeepsJoining(clients) => clients \cap Accepted("registered")' = clients \cap Accepted("registered")
         /\ KeepsFailed(clients) => clients \cap Failed' = clients \cap Failed
<1>1. Known \subseteq Conns /\ Known' \subseteq Conns
  BY DEF Known
<1> QED
  BY <1>1 DEF KeepsKnown, KeepsJoining, KeepsFailed

LEMMA OwedKept ==
  ASSUME KeepsOwed(Goroutines, Conns)
  PROVE  Owed' = Owed
<1>1. \A o : o \in Owed' <=> o \in Owed
  BY InOwed, Zenon DEF KeepsOwed
<1> QED
  BY <1>1

\* A step that the announcements do not show.
LEMMA Stutters ==
  ASSUME TypeOK, UNCHANGED <<st, told, sent, clients>>, Keeps(clients), KeepsOwed(Goroutines, Conns)
  PROVE  UNCHANGED A!announcementVars
<1>1. clients \subseteq Conns
  BY DEF TypeOK
<1>2. Owed' = Owed
  BY OwedKept
<1>3. /\ Known' = Known
      /\ clients' \cap Accepted("registered")' = clients \cap Accepted("registered")
      /\ clients' \cap Failed' = clients \cap Failed
  BY <1>1, SetsKept DEF Keeps
<1>4. (Known \ clients)' = Known \ clients
  BY <1>3
<1> QED
  BY <1>2, <1>3, <1>4 DEF A!announcementVars, Owed

\* A step that only drops the registered connections in S.
LEMMA Drops ==
  ASSUME TypeOK, OnlyKnown, UNCHANGED <<st, told, sent>>,
         NEW S, clients' = clients \ S, Keeps(clients \ S),
         KeepsOwed(Pushers, Conns), KeepsOwed({Acceptor}, Conns \ S)
  PROVE  A!Next
<1> DEFINE D == clients \cap S
<1>1. clients \subseteq Conns /\ clients \subseteq Known /\ D \subseteq clients
  BY DEF TypeOK, OnlyKnown
<1>2. Known' = Known
  <2>1. Known \subseteq Conns /\ Known' \subseteq Conns
    BY DEF Known
  <2> QED
    BY <2>1 DEF Keeps, KeepsKnown
<1>3. clients' = clients \ D
  OBVIOUS
<1>4. (Known \ clients)' = (Known \ clients) \cup D
  BY <1>1, <1>2, <1>3
<1>5. (clients \cap Accepted("registered"))' = (clients \cap Accepted("registered")) \ D
  <2>1. \A c \in clients \ S : c \in Accepted("registered")' <=> c \in Accepted("registered")
    BY DEF Keeps, KeepsJoining
  <2> QED
    BY <2>1
<1>6. (clients \cap Failed)' = (clients \cap Failed) \ D
  <2>1. \A c \in clients \ S : c \in Failed' <=> c \in Failed
    BY DEF Keeps, KeepsFailed
  <2> QED
    BY <2>1
<1>7. Owed' \subseteq Owed /\ \A o \in Owed \ Owed' : o.to \in D
  <2>1. Unwritten(Acceptor)' \subseteq clients \ S /\ Unwritten(Acceptor) \subseteq clients
    BY DEF Unwritten
  <2>2. ASSUME NEW o \in Owed' PROVE o \in Owed
    <3>1. PICK g \in Goroutines, c \in Conns : c \in Unwritten(g)' /\ o = Record(g, c, LastVersion(g)')
      BY <2>2, InOwed
    <3>2. c \in Unwritten(g) /\ o = Record(g, c, LastVersion(g))
      BY <2>1, <3>1 DEF KeepsOwed, Pushers
    <3> QED
      BY <3>2, InOwed
  <2>3. ASSUME NEW o \in Owed \ Owed' PROVE o.to \in D
    <3>1. PICK g \in Goroutines, c \in Conns : c \in Unwritten(g) /\ o = Record(g, c, LastVersion(g))
      BY <2>3, InOwed
    <3>2. ~(c \in Unwritten(g)' /\ o = Record(g, c, LastVersion(g)'))
      BY <2>3, InOwed
    <3>3. g = Acceptor /\ c \in S
      BY <3>1, <3>2 DEF KeepsOwed, Pushers
    <3> QED
      BY <2>1, <3>1, <3>3, RecordFields
  <2> QED
    BY <2>2, <2>3
<1> HIDE DEF D
<1>8. A!Drop(D)
  BY <1>3, <1>4, <1>5, <1>6, <1>7 DEF A!Drop, Owed
<1> QED
  BY <1>1, <1>8 DEF A!Next

\* A step that sends, or fails to send, what g owes c.
LEMMA OneLess ==
  ASSUME NEW g \in Goroutines, NEW c \in Conns,
         c \in Unwritten(g), c \notin Unwritten(g)',
         KeepsOwed(Goroutines \ {g}, Conns), KeepsOwed({g}, Conns \ {c})
  PROVE  /\ Record(g, c, LastVersion(g)) \in Owed
         /\ Owed' = Owed \ {Record(g, c, LastVersion(g))}
<1> DEFINE r == Record(g, c, LastVersion(g))
<1>1. ASSUME NEW o \in Owed' PROVE o \in Owed \ {r}
  <2>1. PICK h \in Goroutines, d \in Conns : d \in Unwritten(h)' /\ o = Record(h, d, LastVersion(h)')
    BY <1>1, InOwed
  <2>2. ~(h = g /\ d = c)
    BY <2>1
  <2>3. d \in Unwritten(h) /\ o = Record(h, d, LastVersion(h))
    BY <2>1, <2>2 DEF KeepsOwed
  <2>4. o # r
    BY <2>2, <2>3, RecordFields
  <2> QED
    BY <2>3, <2>4, InOwed
<1>2. ASSUME NEW o \in Owed, o # r PROVE o \in Owed'
  <2>1. PICK h \in Goroutines, d \in Conns : d \in Unwritten(h) /\ o = Record(h, d, LastVersion(h))
    BY <1>2, InOwed
  <2>2. ~(h = g /\ d = c)
    BY <1>2, <2>1
  <2>3. d \in Unwritten(h)' /\ o = Record(h, d, LastVersion(h)')
    BY <2>1, <2>2 DEF KeepsOwed
  <2> QED
    BY <2>3, InOwed
<1>3. r \in Owed
  BY InOwed
<1> QED
  BY <1>1, <1>2, <1>3

Sends(g, c) ==
  /\ clients' = clients /\ c \in Unwritten(g) /\ c \notin Unwritten(g)'
  /\ KeepsOwed(Goroutines \ {g}, Conns) /\ KeepsOwed({g}, Conns \ {c})

LEMMA Delivers ==
  ASSUME TypeOK, UNCHANGED <<st, told>>, NEW g \in Goroutines, NEW c \in Conns, Sends(g, c),
         KeepsKnown, KeepsJoining(clients), KeepsFailed(clients),
         sent' = [sent EXCEPT ![c] = IF LastVersion(g) > sent[c] THEN LastVersion(g) ELSE sent[c]]
  PROVE  A!Next
<1> DEFINE r == Record(g, c, LastVersion(g))
<1>1. r \in Owed /\ Owed' = Owed \ {r}
  BY OneLess DEF Sends
<1>2. /\ Known' = Known
      /\ clients' = clients
      /\ clients' \cap Accepted("registered")' = clients \cap Accepted("registered")
      /\ clients' \cap Failed' = clients \cap Failed
  BY SetsKept DEF TypeOK, Sends
<1>3. (Known \ clients)' = Known \ clients
  BY <1>2
<1>4. r.to = c /\ r.ver = LastVersion(g)
  BY RecordFields
<1>5. sent' = [sent EXCEPT ![r.to] = IF r.ver > sent[r.to] THEN r.ver ELSE sent[r.to]]
  BY <1>4
<1> HIDE DEF r
<1>6. A!Deliver(r)
  BY <1>1, <1>2, <1>5 DEF A!Deliver, Owed
<1> QED
  BY <1>1, <1>6 DEF A!Next, Owed

LEMMA Fails ==
  ASSUME TypeOK, UNCHANGED <<st, told, sent>>, NEW g \in Goroutines, NEW c \in Conns, Sends(g, c),
         KeepsKnown, KeepsJoining(clients), KeepsFailed(clients \ {c}), c \in Failed'
  PROVE  A!Next
<1> DEFINE r == Record(g, c, LastVersion(g))
<1>1. r \in Owed /\ Owed' = Owed \ {r}
  BY OneLess DEF Sends
<1>2. /\ Known' = Known
      /\ clients' = clients
      /\ clients' \cap Accepted("registered")' = clients \cap Accepted("registered")
  BY SetsKept DEF TypeOK, Sends
<1>3. (Known \ clients)' = Known \ clients
  BY <1>2
<1>4. r.to = c
  BY RecordFields
<1>5. (clients \cap Failed)' = (clients \cap Failed) \cup ({r.to} \cap clients)
  BY <1>2, <1>4 DEF KeepsFailed
<1> HIDE DEF r
<1>6. A!Fail(r)
  BY <1>1, <1>2, <1>5 DEF A!Fail, Owed
<1> QED
  BY <1>1, <1>6 DEF A!Next, Owed

-----------------------------------------------------------------------------
(* The other conjuncts and the announcements, one lemma per action: what    *)
(* the action does to each goroutine and connection, then what becomes of  *)
(* each conjunct, then which step of Announcements it is.                  *)

Rest ==
  /\ Phases /\ LinesInHand
  /\ OnlyKnown /\ OpenUntilDropped /\ GreetedAreMembers /\ Dropping
  /\ HasReader /\ SentOrPending

LEMMA Apart == Acceptor \notin Conns /\ Acceptor \in Goroutines /\ Conns \subseteq Pushers
  BY SocketAssumption, GoroutineNames DEF Pushers

LEMMA InConns ==
  TypeOK => /\ clients \subseteq Conns
            /\ \A g \in Goroutines : writer[g].todo \subseteq Conns /\ writer[g].failed \subseteq Conns
<1> SUFFICES ASSUME TypeOK, NEW g \in Goroutines
             PROVE  clients \subseteq Conns /\ writer[g].todo \subseteq Conns /\ writer[g].failed \subseteq Conns
  BY DEF TypeOK
<1>1. writer[g] \in WriterState
  BY DEF TypeOK
<1> QED
  BY <1>1 DEF WriterState, TypeOK

LEMMA ChangeKeeps ==
  ASSUME IInv, NEW g \in Pushers, writer[g].pc = "ready", Change(g)
  PROVE  Rest' /\ A!Next
<1>1. \A d \in Conns : conn'[d].open = conn[d].open /\ conn'[d].peer = conn[d].peer
  BY DEF IInv, TypeOK, ConnState, Change, Recipients
<1>2. /\ \A h \in Goroutines \ {g} : writer'[h] = writer[h]
      /\ writer'[g].pc = "next"
      /\ writer'[g].at = NoConn
      /\ writer'[g].lines = <<State(st + 1)>>
      /\ writer'[g].todo = clients
      /\ writer'[g].failed = {}
  BY DEF IInv, TypeOK, Pushers, Change, Recipients
<1>3. /\ told' = st + 1
      /\ sent' = sent
      /\ clients' = clients
  BY DEF Change, Recipients
<1>4. Phases'
  BY <1>1, <1>2, Apart DEF IInv, Phases, Accepting, Pushers
<1>5. LinesInHand'
  <2>1. st + 1 \in Versions
    BY SocketAssumption DEF IInv, TypeOK, Change, Versions
  <2> QED
    BY <1>2, <2>1, Apart DEF IInv, LinesInHand, Pushing, Pushers
<1>6. OnlyKnown'
  BY <1>1, <1>2, <1>3, Apart DEF IInv, OnlyKnown, Known, Accepted, Pushing, Pushers
<1>7. OpenUntilDropped'
  BY <1>1, <1>2, <1>3, Apart, InConns DEF IInv, OpenUntilDropped, Accepting, Greeting
<1>8. HasReader'
  BY <1>2, <1>3, Apart, InConns DEF IInv, HasReader, Accepting, Greeting, Pushers
<1>9. SentOrPending'
  <2>1. Pushing(g)' /\ LastVersion(g)' = st + 1
    BY <1>2 DEF Pushing, LastVersion, State
  <2>2. \A d \in clients : Pending(g, d)'
    BY <1>2, <1>3, <2>1, SocketAssumption DEF Pending, Versions
  <2> QED
    BY <1>3, <2>2 DEF SentOrPending
<1>10. GreetedAreMembers' /\ Dropping'
  <2>1. GreetedAreMembers'
    BY <1>1, <1>2, <1>3, Apart DEF IInv, GreetedAreMembers, Accepting, Greeting, Pushers
  <2>2. Dropping'
    BY <1>1, <1>2, <1>3, Apart DEF IInv, Dropping, Known, Accepted, Pushers
  <2> QED
    BY <2>1, <2>2
<1>11. Known' = Known /\ clients \subseteq Conns
  BY <1>1, <1>2, InConns, Apart DEF IInv, Known, Accepted
<1>12. /\ (clients \cap Accepted("registered"))' = clients \cap Accepted("registered")
       /\ (clients \cap Failed)' = clients \cap Failed
  <2>1. KeepsJoining(clients)
    BY <1>2, Apart DEF KeepsJoining, Accepted
  <2>2. KeepsFailed(clients)
    BY <1>2 DEF KeepsFailed, Failed, Pushing
  <2> QED
    BY <1>3, <1>11, <2>1, <2>2, SetsKept
<1>13. /\ Unwritten(g) = {} /\ LastVersion(g)' = st + 1
       /\ \A d \in Conns : d \in Unwritten(g)' <=> d \in clients
       /\ KeepsOwed(Goroutines \ {g}, Conns)
  <2>1. Unwritten(g) = {}
    BY DEF Unwritten, Pushing, Pushers
  <2>2. LastVersion(g)' = st + 1
    BY <1>2 DEF LastVersion, State
  <2>3. \A d \in Conns : d \in Unwritten(g)' <=> d \in clients
    BY <1>2, <1>3 DEF Unwritten, Pushing, Pushers
  <2>4. KeepsOwed(Goroutines \ {g}, Conns)
    BY <1>2, <1>3 DEF KeepsOwed, Unwritten, Writing, Pushing, LastVersion
  <2> QED
    BY <2>1, <2>2, <2>3, <2>4
<1>14. Owed' = Owed \cup {[by |-> g, to |-> d, ver |-> st'] : d \in clients}
  <2>1. ASSUME NEW o \in Owed' PROVE o \in Owed \cup {Record(g, d, st') : d \in clients}
    <3>1. PICK h \in Goroutines, d \in Conns : d \in Unwritten(h)' /\ o = Record(h, d, LastVersion(h)')
      BY <1>3, <2>1, InOwed
    <3>2. CASE h = g
      BY <1>13, <3>1, <3>2 DEF Change
    <3>3. CASE h # g
      <4>1. d \in Unwritten(h) /\ o = Record(h, d, LastVersion(h))
        BY <1>13, <3>1, <3>3 DEF KeepsOwed
      <4> QED
        BY <3>1, <4>1, InOwed
    <3> QED
      BY <3>2, <3>3
  <2>2. ASSUME NEW o \in Owed PROVE o \in Owed'
    <3>1. PICK h \in Goroutines, d \in Conns : d \in Unwritten(h) /\ o = Record(h, d, LastVersion(h))
      BY <2>2, InOwed
    <3>2. h # g
      BY <1>13, <3>1
    <3>3. d \in Unwritten(h)' /\ o = Record(h, d, LastVersion(h)')
      BY <1>13, <3>1, <3>2 DEF KeepsOwed
    <3> QED
      BY <1>3, <3>3, InOwed
  <2>3. ASSUME NEW d \in clients PROVE Record(g, d, st') \in Owed'
    <3>1. d \in clients' /\ d \in Unwritten(g)' /\ Record(g, d, st') = Record(g, d, LastVersion(g)')
      BY <1>3, <1>11, <1>13 DEF Change
    <3> QED
      BY <1>11, <3>1, InOwed DEF Pushers
  <2> QED
    BY <2>1, <2>2, <2>3 DEF Record
<1>15. ~A!Busy(g)
  <2>1. ASSUME NEW o \in Owed, o.by = g PROVE FALSE
    BY <1>13, <2>1, InOwed, RecordFields
  <2> QED
    BY <2>1 DEF A!Busy, Owed
<1>16. A!Next
  <2>1. (Known \ clients)' = Known \ clients
    BY <1>3, <1>11
  <2>2. st' = st + 1 /\ told' = st'
    BY DEF Change
  <2>3. A!Announce(g)
    BY <1>3, <1>12, <1>14, <1>15, <2>1, <2>2 DEF A!Announce, Owed
  <2> QED
    BY <2>3 DEF A!Next, Pushers
<1> QED
  BY <1>4, <1>5, <1>6, <1>7, <1>8, <1>9, <1>10, <1>16 DEF Rest

LEMMA ArmKeeps ==
  ASSUME IInv, NEW g \in Pushers, NEW c \in Conns, Arm(g, c)
  PROVE  Rest' /\ UNCHANGED A!announcementVars
<1>1. \A d \in Conns : conn'[d].open = conn[d].open /\ conn'[d].peer = conn[d].peer
  BY DEF IInv, TypeOK, ConnState, Arm, Deadline
<1>2. /\ \A h \in Goroutines \ {g} : writer'[h] = writer[h]
      /\ writer'[g].pc = "write"
      /\ writer'[g].at = c
      /\ writer'[g].lines = writer[g].lines
      /\ writer'[g].todo = writer[g].todo
      /\ writer'[g].failed = writer[g].failed
  BY DEF IInv, TypeOK, Pushers, Arm
<1>3. /\ writer[g].pc = "next"
      /\ c \in writer[g].todo
      /\ told' = told
      /\ sent' = sent
      /\ clients' = clients
  BY DEF Arm
<1>4. Phases'
  BY <1>1, <1>2, <1>3, Apart DEF IInv, Phases, Accepting, Pushers
<1>5. LinesInHand'
  BY <1>2, <1>3, Apart DEF IInv, LinesInHand, Pushing, Pushers
<1>6. OnlyKnown'
  BY <1>1, <1>2, <1>3, Apart DEF IInv, OnlyKnown, Known, Accepted, Pushing, Pushers
<1>7. OpenUntilDropped'
  BY <1>1, <1>2, <1>3, Apart, InConns DEF IInv, OpenUntilDropped, Accepting, Greeting
<1>8. HasReader'
  BY <1>2, <1>3, Apart, InConns DEF IInv, HasReader, Accepting, Greeting, Pushers
<1>9. SentOrPending'
  BY <1>2, <1>3, Apart DEF IInv, SentOrPending, Pending, WillGreet, LastVersion, Pushing, Pushers
<1>10. GreetedAreMembers' /\ Dropping'
  <2>1. GreetedAreMembers'
    BY <1>1, <1>2, <1>3, Apart DEF IInv, GreetedAreMembers, Accepting, Greeting, Pushers
  <2>2. Dropping'
    BY <1>1, <1>2, <1>3, Apart DEF IInv, Dropping, Known, Accepted, Pushers
  <2> QED
    BY <2>1, <2>2
<1>11. Keeps(clients) /\ KeepsOwed(Goroutines, Conns)
  <2>1. KeepsKnown
    BY <1>1, <1>2, <1>3, Apart DEF KeepsKnown, Known, Accepted
  <2>2. KeepsJoining(clients)
    BY <1>2, <1>3, Apart DEF KeepsJoining, Accepted
  <2>3. KeepsFailed(clients)
    BY <1>2, <1>3 DEF KeepsFailed, Failed, Pushing
  <2>4. KeepsOwed(Goroutines, Conns)
    BY <1>2, <1>3 DEF IInv, Phases, KeepsOwed, Unwritten, Writing, Pushing, LastVersion
  <2> QED
    BY <2>1, <2>2, <2>3, <2>4 DEF Keeps
<1>12. UNCHANGED A!announcementVars
  BY <1>3, <1>11, Stutters DEF IInv, Arm
<1> QED
  BY <1>4, <1>5, <1>6, <1>7, <1>8, <1>9, <1>10, <1>12 DEF Rest

LEMMA PusherWriteKeeps ==
  ASSUME IInv, NEW g \in Pushers, NEW c \in Conns, Write(g, c)
  PROVE  Rest' /\ A!Next
<1>1. \A d \in Conns : conn'[d].open = conn[d].open /\ conn'[d].peer = conn[d].peer
  BY DEF IInv, TypeOK, ConnState, Write, Writing
<1>2. /\ \A h \in Goroutines \ {g} : writer'[h] = writer[h]
      /\ writer'[g].pc = "wrote"
      /\ writer'[g].at = writer[g].at
      /\ writer'[g].lines = writer[g].lines
      /\ writer'[g].todo = writer[g].todo
      /\ writer'[g].failed = writer[g].failed
  BY DEF IInv, TypeOK, Pushers, Write
<1>3. /\ writer[g].pc = "write"
      /\ writer[g].at = c
      /\ told' = told
      /\ \A d \in Conns : sent'[d] = IF d = c THEN Newest(sent[c], Head(writer[g].lines)) ELSE sent[d]
      /\ clients' = clients
  BY DEF IInv, TypeOK, Write, Writing
<1>4. Phases'
  BY <1>1, <1>2, <1>3, Apart DEF IInv, Phases, Accepting, Pushers
<1>5. LinesInHand'
  BY <1>2, <1>3, Apart DEF IInv, LinesInHand, Pushing, Pushers
<1>6. OnlyKnown'
  BY <1>1, <1>2, <1>3, Apart DEF IInv, OnlyKnown, Known, Accepted, Pushing, Pushers
<1>7. OpenUntilDropped'
  BY <1>1, <1>2, <1>3, Apart, InConns DEF IInv, OpenUntilDropped, Accepting, Greeting
<1>8. HasReader'
  BY <1>2, <1>3, Apart, InConns DEF IInv, HasReader, Accepting, Greeting, Pushers
<1>9. SentOrPending'
  <2>1. PICK v \in Versions : writer[g].lines = <<State(v)>>
    BY <1>3 DEF IInv, LinesInHand, Pushing
  <2>2. Head(writer[g].lines) = State(v) /\ LastVersion(g) = v
    BY <2>1, StateIsLine, OneOrTwo DEF LastVersion, State
  <2>3. v \in Int /\ told \in Int /\ \A d \in Conns : sent[d] \in Int
    BY SocketAssumption DEF IInv, TypeOK, Versions, None
  <2>4. sent'[c] \in Int /\ sent'[c] >= v /\ sent'[c] >= sent[c]
    BY <1>3, <2>2, <2>3 DEF Newest, State
  <2>5. ASSUME NEW d \in clients, sent[d] >= told PROVE sent'[d] >= told'
    BY <1>3, <2>3, <2>4, <2>5, InConns DEF IInv
  <2>6. ASSUME NEW d \in clients, WillGreet(d) PROVE WillGreet(d)'
    BY <1>2, <1>3, <2>6, Apart DEF WillGreet, LastVersion, Pushers
  <2>7. ASSUME NEW d \in clients, Pending(g, d), d # c PROVE Pending(g, d)'
    BY <1>2, <1>3, <2>7 DEF Pending, LastVersion, Pushing
  <2>8. ASSUME Pending(g, c) PROVE sent'[c] >= told'
    BY <1>3, <2>2, <2>3, <2>4, <2>8 DEF Pending
  <2>9. ASSUME NEW d \in clients, NEW h \in Pushers \ {g}, Pending(h, d) PROVE Pending(h, d)'
    BY <1>2, <1>3, <2>9 DEF Pending, LastVersion, Pushing, Pushers
  <2> QED
    BY <1>3, <2>5, <2>6, <2>7, <2>8, <2>9 DEF SentOrPending, IInv
<1>10. GreetedAreMembers' /\ Dropping'
  <2>1. GreetedAreMembers'
    BY <1>1, <1>2, <1>3, Apart DEF IInv, GreetedAreMembers, Accepting, Greeting, Pushers
  <2>2. Dropping'
    BY <1>1, <1>2, <1>3, Apart DEF IInv, Dropping, Known, Accepted, Pushers
  <2> QED
    BY <2>1, <2>2
<1>11. A!Next
  <2>1. KeepsKnown
    BY <1>1, <1>2, <1>3, Apart DEF KeepsKnown, Known, Accepted
  <2>2. KeepsJoining(clients)
    BY <1>2, <1>3, Apart DEF KeepsJoining, Accepted
  <2>3. c \in Unwritten(g) /\ c \notin Unwritten(g)'
    BY <1>2, <1>3 DEF IInv, Phases, Unwritten, Writing, Pushing, Pushers
  <2>4. KeepsOwed(Goroutines \ {g}, Conns)
    BY <1>2, <1>3 DEF KeepsOwed, Unwritten, Writing, Pushing, LastVersion
  <2>5. KeepsOwed({g}, Conns \ {c})
    BY <1>2, <1>3 DEF KeepsOwed, Unwritten, Writing, Pushing, LastVersion
  <2>6. Sends(g, c)
    BY <1>3, <2>3, <2>4, <2>5 DEF Sends
  <2>7. KeepsFailed(clients)
    BY <1>2, <1>3 DEF KeepsFailed, Failed, Pushing
  <2>8. PICK v \in Versions : writer[g].lines = <<State(v)>>
    BY <1>3 DEF IInv, LinesInHand, Pushing
  <2>9. Head(writer[g].lines) = State(v) /\ LastVersion(g) = v
    BY <2>8, StateIsLine, OneOrTwo DEF LastVersion, State
  <2>10. sent' = [sent EXCEPT ![c] = IF LastVersion(g) > sent[c] THEN LastVersion(g) ELSE sent[c]]
    <3>1. Newest(sent[c], State(v)) = IF v > sent[c] THEN v ELSE sent[c]
      BY DEF Newest, State
    <3>2. sent' = [sent EXCEPT ![c] = Newest(sent[c], Head(writer[g].lines))]
      BY DEF Write
    <3> QED
      BY <2>9, <3>1, <3>2
  <2> QED
    BY <2>1, <2>2, <2>6, <2>7, <2>10, Delivers DEF IInv, Write, Pushers
<1> QED
  BY <1>4, <1>5, <1>6, <1>7, <1>8, <1>9, <1>10, <1>11 DEF Rest

LEMMA AcceptorWriteKeeps ==
  ASSUME IInv, NEW c \in Conns, Write(Acceptor, c)
  PROVE  Rest' /\ [A!Next]_(A!announcementVars)
<1>1. \A d \in Conns : conn'[d].open = conn[d].open /\ conn'[d].peer = conn[d].peer
  BY DEF IInv, TypeOK, ConnState, Write, Writing
<1>2. /\ \A h \in Goroutines \ {Acceptor} : writer'[h] = writer[h]
      /\ writer'[Acceptor].pc = IF Len(writer[Acceptor].lines) > 1 THEN "write" ELSE "wrote"
      /\ writer'[Acceptor].at = writer[Acceptor].at
      /\ writer'[Acceptor].lines = Tail(writer[Acceptor].lines)
      /\ writer'[Acceptor].todo = writer[Acceptor].todo
      /\ writer'[Acceptor].failed = writer[Acceptor].failed
  BY Apart DEF IInv, TypeOK, Write
<1>3. /\ writer[Acceptor].pc = "write"
      /\ writer[Acceptor].at = c
      /\ told' = told
      /\ \A d \in Conns : sent'[d] = IF d = c THEN Newest(sent[c], Head(writer[Acceptor].lines)) ELSE sent[d]
      /\ clients' = clients
  BY DEF IInv, TypeOK, Write, Writing
<1>4. Phases'
  BY <1>1, <1>2, <1>3, Apart DEF IInv, Phases, Accepting, Pushers
<1>5. LinesInHand'
  <2>1. PICK v \in Versions : writer[Acceptor].lines \in {<<Hello, State(v)>>, <<State(v)>>}
    BY <1>3 DEF IInv, LinesInHand
  <2>2. CASE writer[Acceptor].lines = <<Hello, State(v)>>
    <3>1. writer'[Acceptor].lines = <<State(v)>>
      BY <1>2, <2>2, StateIsLine, OneOrTwo
    <3> QED
      BY <1>2, <3>1 DEF IInv, LinesInHand, Pushing, Pushers
  <2>3. CASE writer[Acceptor].lines = <<State(v)>>
    <3>1. writer'[Acceptor].pc = "wrote"
      BY <1>2, <2>3, StateIsLine, OneOrTwo
    <3> QED
      BY <1>2, <3>1 DEF IInv, LinesInHand, Pushing, Pushers
  <2> QED
    BY <2>1, <2>2, <2>3
<1>6. OnlyKnown'
  BY <1>1, <1>2, <1>3 DEF IInv, OnlyKnown, Known, Accepted, Pushing, Pushers
<1>7. OpenUntilDropped'
  BY <1>1, <1>2, <1>3, InConns DEF IInv, OpenUntilDropped, Greeting
<1>8. HasReader'
  BY <1>2, <1>3, Apart, InConns DEF IInv, HasReader, Accepting, Greeting, Pushers
<1>9. SentOrPending'
  <2>1. PICK v \in Versions : writer[Acceptor].lines \in {<<Hello, State(v)>>, <<State(v)>>}
    BY <1>3 DEF IInv, LinesInHand
  <2>2. v \in Int /\ told \in Int /\ \A d \in Conns : sent[d] \in Int
    BY SocketAssumption DEF IInv, TypeOK, Versions, None
  <2>3. /\ sent'[c] \in Int /\ sent'[c] >= sent[c]
        /\ WillGreet(c) => WillGreet(c)' \/ sent'[c] >= told'
    <3>1. CASE writer[Acceptor].lines = <<Hello, State(v)>>
      <4>1. /\ Head(writer[Acceptor].lines) = Hello /\ LastVersion(Acceptor) = v
            /\ writer'[Acceptor].pc = "write" /\ writer'[Acceptor].lines = <<State(v)>>
        BY <1>2, <3>1 DEF LastVersion, State
      <4>2. LastVersion(Acceptor)' = v
        BY <4>1, StateIsLine, OneOrTwo DEF LastVersion, State
      <4>3. sent'[c] = sent[c]
        BY <1>3, <4>1 DEF Newest, Hello
      <4> QED
        BY <1>2, <1>3, <2>2, <4>1, <4>2, <4>3 DEF WillGreet
    <3>2. CASE writer[Acceptor].lines = <<State(v)>>
      <4>1. Head(writer[Acceptor].lines) = State(v) /\ LastVersion(Acceptor) = v
        BY <3>2, StateIsLine, OneOrTwo DEF LastVersion, State
      <4>2. sent'[c] \in Int /\ sent'[c] >= v /\ sent'[c] >= sent[c]
        BY <1>3, <2>2, <4>1 DEF Newest, State
      <4> QED
        BY <1>3, <2>2, <4>1, <4>2 DEF WillGreet
    <3> QED
      BY <2>1, <3>1, <3>2
  <2>4. ASSUME NEW d \in clients, sent[d] >= told PROVE sent'[d] >= told'
    BY <1>3, <2>2, <2>3, <2>4, InConns DEF IInv
  <2>5. ASSUME NEW d \in clients, NEW h \in Pushers, Pending(h, d) PROVE Pending(h, d)'
    BY <1>2, <1>3, <2>5 DEF Pending, LastVersion, Pushing, Pushers
  <2>6. \A d \in clients : WillGreet(d) => d = c
    BY <1>3 DEF WillGreet
  <2> QED
    BY <1>3, <2>3, <2>4, <2>5, <2>6 DEF SentOrPending, IInv
<1>10. GreetedAreMembers' /\ Dropping'
  <2>1. GreetedAreMembers'
    BY <1>1, <1>2, <1>3, Apart DEF IInv, GreetedAreMembers, Accepting, Greeting, Pushers
  <2>2. Dropping'
    BY <1>1, <1>2, <1>3, Apart DEF IInv, Dropping, Known, Accepted, Pushers
  <2> QED
    BY <2>1, <2>2
<1>11. c \in clients
  BY <1>3 DEF Write, Reachable, IInv, GreetedAreMembers, Accepting, Greeting
<1>12. PICK v \in Versions : writer[Acceptor].lines \in {<<Hello, State(v)>>, <<State(v)>>}
  BY <1>3 DEF IInv, LinesInHand
<1>13. ASSUME writer[Acceptor].lines = <<Hello, State(v)>> PROVE UNCHANGED A!announcementVars
  <2>1. KeepsKnown
    BY <1>1, <1>2, <1>3 DEF KeepsKnown, Known, Accepted
  <2>2. KeepsJoining(clients)
    BY <1>2, <1>3 DEF KeepsJoining, Accepted
  <2>3. KeepsFailed(clients)
    BY <1>2 DEF KeepsFailed, Failed, Pushing
  <2>4. /\ LastVersion(Acceptor) = v /\ writer'[Acceptor].pc = "write"
        /\ writer'[Acceptor].lines = <<State(v)>> /\ sent'[c] = sent[c]
    <3>1. Head(writer[Acceptor].lines) = Hello
      BY <1>13, StateIsLine, OneOrTwo
    <3> QED
      BY <1>2, <1>3, <1>13 DEF LastVersion, State, Newest, Hello
  <2>5. LastVersion(Acceptor)' = v
    BY <2>4, StateIsLine, OneOrTwo DEF LastVersion, State
  <2>6. KeepsOwed(Goroutines, Conns)
    BY <1>2, <1>3, <2>4, <2>5 DEF KeepsOwed, Unwritten, Writing, Pushing, LastVersion
  <2>7. sent' = sent
    BY <2>4 DEF Write, IInv, TypeOK
  <2>8. Keeps(clients)
    BY <2>1, <2>2, <2>3 DEF Keeps
  <2> QED
    BY <2>6, <2>7, <2>8, Stutters DEF IInv, Write
<1>14. ASSUME writer[Acceptor].lines = <<State(v)>> PROVE A!Next
  <2>9. /\ Head(writer[Acceptor].lines) = State(v) /\ LastVersion(Acceptor) = v
        /\ writer'[Acceptor].pc = "wrote"
    BY <1>2, <1>14 DEF LastVersion, State
  <2>1. KeepsKnown
    BY <1>1, <1>2, <1>3 DEF KeepsKnown, Known, Accepted
  <2>2. KeepsJoining(clients)
    BY <1>2, <1>3 DEF KeepsJoining, Accepted
  <2>3. c \in Unwritten(Acceptor) /\ c \notin Unwritten(Acceptor)'
    BY <1>3, <1>11, <2>9 DEF Unwritten, Writing
  <2>4. KeepsOwed(Goroutines \ {Acceptor}, Conns)
    BY <1>2 DEF KeepsOwed, Unwritten, Pushing, LastVersion
  <2>5. KeepsOwed({Acceptor}, Conns \ {c})
    BY <1>2, <1>3 DEF KeepsOwed, Unwritten, Writing
  <2>6. Sends(Acceptor, c)
    BY <1>3, <2>3, <2>4, <2>5 DEF Sends
  <2>7. KeepsFailed(clients)
    BY <1>2 DEF KeepsFailed, Failed, Pushing
  <2>10. sent' = [sent EXCEPT ![c] = IF LastVersion(Acceptor) > sent[c] THEN LastVersion(Acceptor) ELSE sent[c]]
    <3>1. Newest(sent[c], State(v)) = IF v > sent[c] THEN v ELSE sent[c]
      BY DEF Newest, State
    <3>2. sent' = [sent EXCEPT ![c] = Newest(sent[c], Head(writer[Acceptor].lines))]
      BY DEF Write
    <3> QED
      BY <2>9, <3>1, <3>2
  <2> QED
    BY <1>11, <2>1, <2>2, <2>6, <2>7, <2>10, Apart, Delivers DEF IInv, Write
<1> QED
  BY <1>4, <1>5, <1>6, <1>7, <1>8, <1>9, <1>10, <1>12, <1>13, <1>14 DEF Rest

LEMMA WriteFailsKeeps ==
  ASSUME IInv, NEW g \in Pushers, NEW c \in Conns, WriteFails(g, c)
  PROVE  Rest' /\ A!Next
<1>1. \A d \in Conns : conn'[d].open = conn[d].open /\ conn'[d].peer = conn[d].peer
  BY DEF IInv, TypeOK, ConnState, WriteFails, Writing
<1>2. /\ \A h \in Goroutines \ {g} : writer'[h] = writer[h]
      /\ writer'[g].pc = "wrote"
      /\ writer'[g].at = writer[g].at
      /\ writer'[g].lines = writer[g].lines
      /\ writer'[g].todo = writer[g].todo
      /\ writer'[g].failed = writer[g].failed \cup {c}
  BY DEF IInv, TypeOK, Pushers, WriteFails
<1>3. /\ writer[g].pc = "write"
      /\ writer[g].at = c
      /\ told' = told
      /\ sent' = sent
      /\ clients' = clients
  BY DEF WriteFails, Writing
<1>4. Phases'
  BY <1>1, <1>2, <1>3, Apart DEF IInv, Phases, Accepting, Pushers
<1>5. LinesInHand'
  BY <1>2, <1>3, Apart DEF IInv, LinesInHand, Pushing, Pushers
<1>6. OnlyKnown'
  BY <1>1, <1>2, <1>3, Apart DEF IInv, OnlyKnown, Phases, Known, Accepted, Pushing, Pushers
<1>7. OpenUntilDropped'
  BY <1>1, <1>2, <1>3, Apart, InConns DEF IInv, OpenUntilDropped, Accepting, Greeting
<1>8. HasReader'
  BY <1>2, <1>3, Apart, InConns DEF IInv, HasReader, Accepting, Greeting, Pushers
<1>9. SentOrPending'
  BY <1>2, <1>3, Apart DEF IInv, SentOrPending, Pending, WillGreet, LastVersion, Pushing, Pushers
<1>10. GreetedAreMembers' /\ Dropping'
  <2>1. GreetedAreMembers'
    BY <1>1, <1>2, <1>3, Apart DEF IInv, GreetedAreMembers, Accepting, Greeting, Pushers
  <2>2. Dropping'
    BY <1>1, <1>2, <1>3, Apart DEF IInv, Dropping, Known, Accepted, Pushers
  <2> QED
    BY <2>1, <2>2
<1>11. A!Next
  <2>1. KeepsKnown
    BY <1>1, <1>2, <1>3, Apart DEF KeepsKnown, Known, Accepted
  <2>2. KeepsJoining(clients)
    BY <1>2, <1>3, Apart DEF KeepsJoining, Accepted
  <2>3. c \in Unwritten(g) /\ c \notin Unwritten(g)'
    BY <1>2, <1>3 DEF IInv, Phases, Unwritten, Writing, Pushing, Pushers
  <2>4. KeepsOwed(Goroutines \ {g}, Conns)
    BY <1>2, <1>3 DEF KeepsOwed, Unwritten, Writing, Pushing, LastVersion
  <2>5. KeepsOwed({g}, Conns \ {c})
    BY <1>2, <1>3 DEF KeepsOwed, Unwritten, Writing, Pushing, LastVersion
  <2>6. Sends(g, c)
    BY <1>3, <2>3, <2>4, <2>5 DEF Sends
  <2>7. KeepsFailed(clients \ {c})
    BY <1>2, <1>3 DEF KeepsFailed, Failed, Pushing
  <2>8. c \in Failed'
    BY <1>2 DEF Failed, Pushing, Pushers
  <2> QED
    BY <2>1, <2>2, <2>6, <2>7, <2>8, Fails DEF IInv, WriteFails, Pushers
<1> QED
  BY <1>4, <1>5, <1>6, <1>7, <1>8, <1>9, <1>10, <1>11 DEF Rest

LEMMA DisarmKeeps ==
  ASSUME IInv, NEW g \in Pushers, NEW c \in Conns, Disarm(g, c)
  PROVE  Rest' /\ UNCHANGED A!announcementVars
<1>1. \A d \in Conns : conn'[d].open = conn[d].open /\ conn'[d].peer = conn[d].peer
  BY DEF Disarm, Deadline
<1>2. /\ \A h \in Goroutines \ {g} : writer'[h] = writer[h]
      /\ writer'[g].pc = "next"
      /\ writer'[g].at = NoConn
      /\ writer'[g].lines = writer[g].lines
      /\ writer'[g].todo = writer[g].todo \ {c}
      /\ writer'[g].failed = writer[g].failed
  BY DEF IInv, TypeOK, Pushers, Disarm, TodoLeft
<1>3. /\ writer[g].pc = "wrote"
      /\ writer[g].at = c
      /\ told' = told
      /\ sent' = sent
      /\ clients' = clients
  BY DEF Disarm
<1>4. Phases'
  BY <1>1, <1>2, <1>3, Apart DEF IInv, Phases, Accepting, Pushers
<1>5. LinesInHand'
  BY <1>2, <1>3, Apart DEF IInv, LinesInHand, Pushing, Pushers
<1>6. OnlyKnown'
  BY <1>1, <1>2, <1>3, Apart DEF IInv, OnlyKnown, Known, Accepted, Pushing, Pushers
<1>7. OpenUntilDropped'
  BY <1>1, <1>2, <1>3, Apart, InConns DEF IInv, OpenUntilDropped, Accepting, Greeting
<1>8. HasReader'
  BY <1>2, <1>3, Apart, InConns DEF IInv, HasReader, Accepting, Greeting, Pushers
<1>9. SentOrPending'
  BY <1>2, <1>3, Apart DEF IInv, SentOrPending, Pending, WillGreet, LastVersion, Pushing, Pushers
<1>10. GreetedAreMembers' /\ Dropping'
  <2>1. GreetedAreMembers'
    BY <1>1, <1>2, <1>3, Apart DEF IInv, GreetedAreMembers, Accepting, Greeting, Pushers
  <2>2. Dropping'
    BY <1>1, <1>2, <1>3, Apart DEF IInv, Dropping, Known, Accepted, Pushers
  <2> QED
    BY <2>1, <2>2
<1>11. Keeps(clients) /\ KeepsOwed(Goroutines, Conns)
  <2>1. KeepsKnown
    BY <1>1, <1>2, <1>3, Apart DEF KeepsKnown, Known, Accepted
  <2>2. KeepsJoining(clients)
    BY <1>2, <1>3, Apart DEF KeepsJoining, Accepted
  <2>3. KeepsFailed(clients)
    BY <1>2, <1>3 DEF KeepsFailed, Failed, Pushing
  <2>4. KeepsOwed(Goroutines, Conns)
    BY <1>2, <1>3 DEF KeepsOwed, Unwritten, Writing, Pushing, LastVersion
  <2> QED
    BY <2>1, <2>2, <2>3, <2>4 DEF Keeps
<1>12. UNCHANGED A!announcementVars
  BY <1>3, <1>11, Stutters DEF IInv, Disarm
<1> QED
  BY <1>4, <1>5, <1>6, <1>7, <1>8, <1>9, <1>10, <1>12 DEF Rest

LEMMA FinishKeeps ==
  ASSUME IInv, NEW g \in Pushers, Finish(g)
  PROVE  Rest' /\ A!Next
<1>1. \A d \in Conns : conn'[d].peer = conn[d].peer /\ conn'[d].open = (conn[d].open /\ d \notin writer[g].failed)
  BY DEF IInv, TypeOK, ConnState, Finish, Closed
<1>2. /\ \A h \in Goroutines \ {g} : writer'[h] = writer[h]
      /\ writer'[g].pc = "ready"
      /\ writer'[g].at = NoConn
  BY DEF IInv, TypeOK, Pushers, Finish, Ready
<1>3. /\ writer[g].pc = "next"
      /\ writer[g].todo = {}
      /\ clients' = clients \ writer[g].failed
      /\ told' = told
      /\ sent' = sent
  BY DEF Finish
<1>4. Phases'
  BY <1>1, <1>2, <1>3, Apart DEF IInv, Phases, Accepting, Pushers
<1>5. LinesInHand'
  BY <1>2, Apart DEF IInv, LinesInHand, Pushing, Pushers
<1>6. OnlyKnown'
  BY <1>1, <1>2, <1>3, Apart DEF IInv, OnlyKnown, Known, Accepted, Pushing, Pushers
<1>7. OpenUntilDropped'
  <2>1. \A d \in writer[g].failed : d \in Known
    BY <1>3 DEF IInv, OnlyKnown, Pushing
  <2>2. \A d \in clients' : conn'[d].open
    BY <1>1, <1>3, InConns DEF IInv, OpenUntilDropped
  <2>3. ASSUME NEW d \in Conns, Accepting(d)', writer'[Acceptor].pc = "accepted" PROVE conn'[d].open
    <3>1. writer'[Acceptor] = writer[Acceptor]
      BY <1>2, Apart DEF Pushers
    <3>2. Accepting(d) /\ writer[Acceptor].pc = "accepted"
      BY <2>3, <3>1 DEF Accepting
    <3>3. d \notin Known
      BY <3>2 DEF Accepting, Greeting, Known, Accepted
    <3> QED
      BY <1>1, <2>1, <3>2, <3>3 DEF IInv, OpenUntilDropped
  <2> QED
    BY <2>2, <2>3 DEF OpenUntilDropped
<1>8. HasReader'
  BY <1>2, <1>3, Apart, InConns DEF IInv, HasReader, Accepting, Greeting, Pushers
<1>9. SentOrPending'
  BY <1>2, <1>3, Apart DEF IInv, SentOrPending, Pending, WillGreet, LastVersion, Pushing, Pushers
<1>10. GreetedAreMembers' /\ Dropping'
  <2>1. GreetedAreMembers'
    BY <1>1, <1>2, <1>3, Apart DEF IInv, GreetedAreMembers, Accepting, Greeting, Pushers
  <2>2. Dropping'
    BY <1>1, <1>2, <1>3, Apart DEF IInv, Dropping, Known, Accepted, Pushers
  <2> QED
    BY <2>1, <2>2
<1>11. Keeps(clients \ writer[g].failed) /\ KeepsOwed(Pushers, Conns) /\ KeepsOwed({Acceptor}, Conns \ writer[g].failed)
  <2>1. KeepsKnown
    BY <1>1, <1>2, <1>3, Apart DEF KeepsKnown, Known, Accepted
  <2>2. KeepsJoining(clients \ writer[g].failed)
    BY <1>2, <1>3, Apart DEF KeepsJoining, Accepted
  <2>3. KeepsFailed(clients \ writer[g].failed)
    BY <1>2 DEF KeepsFailed, Failed, Pushing
  <2>4. KeepsOwed(Pushers, Conns) /\ KeepsOwed({Acceptor}, Conns \ writer[g].failed)
    <3>1. KeepsOwed(Pushers, Conns)
      BY <1>2, <1>3 DEF KeepsOwed, Unwritten, Pushing, LastVersion, Pushers
    <3>2. writer'[Acceptor] = writer[Acceptor]
      BY <1>2, Apart DEF Pushers
    <3>3. KeepsOwed({Acceptor}, Conns \ writer[g].failed)
      BY <1>3, <3>2 DEF KeepsOwed, Unwritten, Writing, LastVersion
    <3> QED
      BY <3>1, <3>3
  <2> QED
    BY <2>1, <2>2, <2>3, <2>4 DEF Keeps
<1>12. A!Next
  BY <1>3, <1>11, Drops DEF IInv, Finish
<1> QED
  BY <1>4, <1>5, <1>6, <1>7, <1>8, <1>9, <1>10, <1>12 DEF Rest

LEMMA AcceptKeeps ==
  ASSUME IInv, NEW c \in Conns, Accept(c)
  PROVE  Rest' /\ UNCHANGED A!announcementVars
<1>1. \A d \in Conns : conn'[d].open = (conn[d].open \/ d = c) /\ conn'[d].peer = IF d = c THEN "up" ELSE conn[d].peer
  BY DEF IInv, TypeOK, ConnState, Accept
<1>2. /\ \A h \in Goroutines \ {Acceptor} : writer'[h] = writer[h]
      /\ writer'[Acceptor].pc = "accepted"
      /\ writer'[Acceptor].at = c
      /\ writer'[Acceptor].lines = writer[Acceptor].lines
      /\ writer'[Acceptor].todo = writer[Acceptor].todo
      /\ writer'[Acceptor].failed = writer[Acceptor].failed
  BY Apart DEF IInv, TypeOK, Accept
<1>3. /\ writer[Acceptor].pc = "ready"
      /\ conn[c].peer = "dialed"
      /\ told' = told
      /\ sent' = sent
      /\ clients' = clients
  BY SocketAssumption DEF IInv, TypeOK, Versions, Accept
<1>4. Phases'
  BY <1>1, <1>2, <1>3, Apart DEF IInv, Phases, Accepting, Pushers
<1>5. LinesInHand'
  BY <1>2 DEF IInv, LinesInHand, Pushing, Pushers
<1>6. OnlyKnown'
  BY <1>1, <1>2, <1>3 DEF IInv, OnlyKnown, Known, Accepted, Pushing, Pushers
<1>7. OpenUntilDropped'
  BY <1>1, <1>2, <1>3, InConns DEF IInv, OpenUntilDropped, Accepting
<1>8. HasReader'
  BY <1>2, <1>3, Apart, InConns DEF IInv, HasReader, Accepting, Greeting, Pushers
<1>9. SentOrPending'
  BY <1>2, <1>3 DEF IInv, SentOrPending, Pending, WillGreet, LastVersion, Pushing, Pushers
<1>10. GreetedAreMembers' /\ Dropping'
  <2>1. GreetedAreMembers'
    BY <1>1, <1>2, <1>3, Apart DEF IInv, GreetedAreMembers, Accepting, Greeting, Pushers
  <2>2. Dropping'
    BY <1>1, <1>2, <1>3, Apart DEF IInv, Dropping, Known, Accepted, Pushers
  <2> QED
    BY <2>1, <2>2
<1>11. Keeps(clients) /\ KeepsOwed(Goroutines, Conns)
  <2>1. KeepsKnown
    BY <1>1, <1>2, <1>3 DEF KeepsKnown, Known, Accepted
  <2>2. KeepsJoining(clients)
    BY <1>2, <1>3 DEF KeepsJoining, Accepted
  <2>3. KeepsFailed(clients)
    BY <1>2 DEF KeepsFailed, Failed, Pushing
  <2>4. KeepsOwed(Goroutines, Conns)
    BY <1>2, <1>3 DEF KeepsOwed, Unwritten, Writing, Pushing, LastVersion
  <2> QED
    BY <2>1, <2>2, <2>3, <2>4 DEF Keeps
<1>12. UNCHANGED A!announcementVars
  BY <1>3, <1>11, Stutters DEF IInv, Accept
<1> QED
  BY <1>4, <1>5, <1>6, <1>7, <1>8, <1>9, <1>10, <1>12 DEF Rest

LEMMA RegisterKeeps ==
  ASSUME IInv, NEW c \in Conns, Register(c)
  PROVE  Rest' /\ A!Next
<1>1. \A d \in Conns : conn'[d].open = conn[d].open /\ conn'[d].peer = conn[d].peer
  BY DEF IInv, TypeOK, ConnState, Register
<1>2. /\ \A h \in Goroutines \ {Acceptor} : writer'[h] = writer[h]
      /\ writer'[Acceptor].pc = "registered"
      /\ writer'[Acceptor].at = writer[Acceptor].at
      /\ writer'[Acceptor].lines = writer[Acceptor].lines
      /\ writer'[Acceptor].todo = writer[Acceptor].todo
      /\ writer'[Acceptor].failed = writer[Acceptor].failed
  BY Apart DEF IInv, TypeOK, Register
<1>3. /\ writer[Acceptor].pc = "accepted"
      /\ writer[Acceptor].at = c
      /\ clients' = clients \cup {c}
      /\ told' = told
      /\ sent' = sent
  BY SocketAssumption DEF IInv, TypeOK, Versions, Register
<1>4. Phases'
  BY <1>1, <1>2, <1>3, Apart DEF IInv, Phases, Accepting, Pushers
<1>5. LinesInHand'
  BY <1>2 DEF IInv, LinesInHand, Pushing, Pushers
<1>6. OnlyKnown'
  BY <1>1, <1>2, <1>3 DEF IInv, OnlyKnown, Phases, Known, Accepted, Accepting, Pushing, Pushers
<1>7. OpenUntilDropped'
  BY <1>1, <1>2, <1>3, InConns DEF IInv, OpenUntilDropped, Accepting, Greeting
<1>8. HasReader'
  BY <1>2, <1>3, Apart, InConns DEF IInv, HasReader, Accepting, Greeting, Pushers
<1>9. SentOrPending'
  BY <1>2, <1>3 DEF IInv, SentOrPending, Pending, WillGreet, LastVersion, Pushing, Pushers
<1>10. GreetedAreMembers' /\ Dropping'
  <2>1. GreetedAreMembers'
    BY <1>1, <1>2, <1>3, Apart DEF IInv, GreetedAreMembers, Accepting, Greeting, Pushers
  <2>2. Dropping'
    BY <1>1, <1>2, <1>3, Apart DEF IInv, Dropping, Known, Accepted, Pushers
  <2> QED
    BY <2>1, <2>2
<1>11. /\ c \notin Known /\ clients \subseteq Known
       /\ \A d \in Conns : d \in Known' <=> d \in Known \cup {c}
       /\ Accepted("registered") = {} /\ Accepted("registered")' = {c}
  BY <1>1, <1>2, <1>3 DEF IInv, OnlyKnown, Phases, Accepting, Known, Accepted
<1>12. (clients \cap Failed)' = clients \cap Failed
  <2>1. Failed' = Failed
    BY <1>2 DEF Failed, Pushing
  <2>2. c \notin Failed
    BY <1>11 DEF IInv, OnlyKnown, Failed, Pushers
  <2> QED
    BY <1>3, <2>1, <2>2
<1>13. Owed' = Owed
  <2>1. \A h \in Goroutines : Unwritten(h)' = Unwritten(h) /\ (Unwritten(h) # {} => LastVersion(h)' = LastVersion(h))
    BY <1>2, <1>3 DEF Unwritten, Writing, Pushing, LastVersion
  <2>2. \A h \in Goroutines : c \notin Unwritten(h)
    BY <1>3, <1>11 DEF IInv, OnlyKnown, Unwritten, Writing, Pushers
  <2>3. \A o : o \in Owed' <=> o \in Owed
    BY <1>3, <2>1, <2>2, InOwed
  <2> QED
    BY <2>3
<1>14. A!Join(c)
  <2>1. Known' = Known \cup {c}
    BY <1>11 DEF Known
  <2>2. (Known \ clients)' = Known \ clients
    BY <1>3, <1>11, <2>1
  <2>3. (clients \cap Accepted("registered"))' = (clients \cap Accepted("registered")) \cup {c}
    BY <1>3, <1>11
  <2>4. c \notin clients \cup (Known \ clients)
    BY <1>11
  <2>5. st' = st
    BY DEF Register
  <2> QED
    BY <1>3, <1>12, <1>13, <2>2, <2>3, <2>4, <2>5 DEF A!Join, Owed
<1>15. A!Next
  BY <1>14 DEF A!Next
<1> QED
  BY <1>4, <1>5, <1>6, <1>7, <1>8, <1>9, <1>10, <1>15 DEF Rest

LEMMA GreetKeeps ==
  ASSUME IInv, NEW c \in Conns, Greet(c)
  PROVE  Rest' /\ [A!Next]_(A!announcementVars)
<1>1. \A d \in Conns : conn'[d].open = conn[d].open /\ conn'[d].peer = conn[d].peer
  BY DEF IInv, TypeOK, ConnState, Greet, Deadline
<1>2. /\ \A h \in Goroutines \ {Acceptor} : writer'[h] = writer[h]
      /\ writer'[Acceptor].pc = "write"
      /\ writer'[Acceptor].at = writer[Acceptor].at
      /\ writer'[Acceptor].lines = <<Hello, State(st)>>
      /\ writer'[Acceptor].todo = writer[Acceptor].todo
      /\ writer'[Acceptor].failed = writer[Acceptor].failed
  BY Apart DEF IInv, TypeOK, Greet
<1>3. /\ writer[Acceptor].pc = "registered"
      /\ writer[Acceptor].at = c
      /\ st \in Versions
      /\ st >= told
      /\ told' = told
      /\ sent' = sent
      /\ clients' = clients
  BY DEF IInv, TypeOK, Greet
<1>4. Phases'
  BY <1>1, <1>2, <1>3, Apart DEF IInv, Phases, Accepting, Pushers
<1>5. LinesInHand'
  BY <1>2, <1>3 DEF IInv, LinesInHand, Pushing, Pushers
<1>6. OnlyKnown'
  BY <1>1, <1>2, <1>3 DEF IInv, OnlyKnown, Known, Accepted, Pushing, Pushers
<1>7. OpenUntilDropped'
  BY <1>1, <1>2, <1>3, InConns DEF IInv, OpenUntilDropped, Greeting
<1>8. HasReader'
  BY <1>2, <1>3, Apart, InConns DEF IInv, HasReader, Accepting, Greeting, Pushers
<1>9. SentOrPending'
  <2>1. LastVersion(Acceptor)' = st
    BY <1>2 DEF LastVersion, State
  <2>2. \A d \in clients : WillGreet(d) => WillGreet(d)'
    BY <1>2, <1>3, <2>1 DEF WillGreet
  <2>3. ASSUME NEW d \in clients, NEW h \in Pushers, Pending(h, d) PROVE Pending(h, d)'
    BY <1>2, <1>3, <2>3 DEF Pending, LastVersion, Pushing, Pushers
  <2> QED
    BY <1>3, <2>2, <2>3 DEF SentOrPending, IInv
<1>10. GreetedAreMembers' /\ Dropping'
  <2>1. GreetedAreMembers'
    BY <1>1, <1>2, <1>3, Apart DEF IInv, GreetedAreMembers, Accepting, Greeting, Pushers
  <2>2. Dropping'
    BY <1>1, <1>2, <1>3, Apart DEF IInv, Dropping, Known, Accepted, Pushers
  <2> QED
    BY <2>1, <2>2
<1>11. /\ KeepsKnown /\ Failed' = Failed
       /\ Accepted("registered") = {c} /\ Accepted("registered")' = {}
       /\ Unwritten(Acceptor) = {} /\ Unwritten(Acceptor)' = {c} \cap clients /\ LastVersion(Acceptor)' = st
       /\ \A h \in Pushers : Unwritten(h)' = Unwritten(h) /\ LastVersion(h)' = LastVersion(h)
  <2>1. KeepsKnown
    BY <1>1, <1>2, <1>3 DEF KeepsKnown, Known, Accepted
  <2>2. Failed' = Failed
    BY <1>2 DEF Failed, Pushing
  <2>3. Accepted("registered") = {c} /\ Accepted("registered")' = {}
    BY <1>2, <1>3 DEF Accepted
  <2>4. Unwritten(Acceptor) = {} /\ Unwritten(Acceptor)' = {c} \cap clients
    BY <1>2, <1>3 DEF Unwritten, Writing
  <2>5. LastVersion(Acceptor)' = st
    BY <1>2 DEF LastVersion, State
  <2>6. \A h \in Pushers : Unwritten(h)' = Unwritten(h) /\ LastVersion(h)' = LastVersion(h)
    BY <1>2 DEF Unwritten, Pushing, LastVersion, Pushers
  <2> QED
    BY <2>1, <2>2, <2>3, <2>4, <2>5, <2>6
<1>12. ASSUME c \notin clients PROVE UNCHANGED A!announcementVars
  <2>1. KeepsJoining(clients) /\ KeepsFailed(clients)
    BY <1>11, <1>12 DEF KeepsJoining, KeepsFailed
  <2>2. KeepsOwed(Goroutines, Conns)
    BY <1>11, <1>12 DEF KeepsOwed, Pushers
  <2>3. Keeps(clients)
    BY <1>11, <2>1 DEF Keeps
  <2> QED
    BY <1>3, <2>2, <2>3, Stutters DEF IInv, Greet
<1>13. ASSUME c \in clients PROVE A!Next
  <2>1. Owed' = Owed \cup {Record(Acceptor, c, st)}
    <3>1. ASSUME NEW o \in Owed' PROVE o \in Owed \cup {Record(Acceptor, c, st)}
      <4>1. PICK h \in Goroutines, d \in Conns : d \in Unwritten(h)' /\ o = Record(h, d, LastVersion(h)')
        BY <1>3, <3>1, InOwed
      <4>2. CASE h = Acceptor
        BY <1>11, <4>1, <4>2
      <4>3. CASE h # Acceptor
        <5>1. d \in Unwritten(h) /\ o = Record(h, d, LastVersion(h))
          BY <1>11, <4>1, <4>3 DEF Pushers
        <5> QED
          BY <4>1, <5>1, InOwed
      <4> QED
        BY <4>2, <4>3
    <3>2. ASSUME NEW o \in Owed PROVE o \in Owed'
      <4>1. PICK h \in Goroutines, d \in Conns : d \in Unwritten(h) /\ o = Record(h, d, LastVersion(h))
        BY <3>2, InOwed
      <4>2. h \in Pushers
        BY <1>11, <4>1 DEF Pushers
      <4>3. d \in Unwritten(h)' /\ o = Record(h, d, LastVersion(h)')
        BY <1>11, <4>1, <4>2
      <4> QED
        BY <1>3, <4>3, InOwed
    <3>3. Record(Acceptor, c, st) \in Owed'
      <4>1. /\ c \in clients' /\ c \in Unwritten(Acceptor)'
            /\ Record(Acceptor, c, st) = Record(Acceptor, c, LastVersion(Acceptor)')
        BY <1>3, <1>11, <1>13
      <4> QED
        BY <4>1, Apart, InOwed
    <3> QED
      BY <3>1, <3>2, <3>3
  <2>2. Known' = Known /\ (clients \cap Failed)' = clients \cap Failed
    BY <1>3, <1>11 DEF KeepsKnown, Known
  <2>3. (Known \ clients)' = Known \ clients
    BY <1>3, <2>2
  <2>4. /\ c \in clients \cap Accepted("registered")
        /\ (clients \cap Accepted("registered"))' = (clients \cap Accepted("registered")) \ {c}
    BY <1>3, <1>11, <1>13
  <2>5. ~A!Busy(Acceptor)
    <3>1. ASSUME NEW o \in Owed, o.by = Acceptor PROVE FALSE
      BY <1>11, <3>1, InOwed, RecordFields
    <3> QED
      BY <3>1 DEF A!Busy, Owed
  <2>6. st' = st
    BY DEF Greet
  <2>7. A!Greet(Acceptor, c)
    BY <1>3, <2>1, <2>2, <2>4, <2>5, <2>6 DEF A!Greet, Owed, Record
  <2> QED
    BY <2>7, Apart DEF A!Next
<1> QED
  BY <1>4, <1>5, <1>6, <1>7, <1>8, <1>9, <1>10, <1>12, <1>13 DEF Rest

LEMMA GreetedKeeps ==
  ASSUME IInv, NEW c \in Conns, Greeted(c)
  PROVE  Rest' /\ UNCHANGED A!announcementVars
<1>1. \A d \in Conns : conn'[d].open = conn[d].open /\ conn'[d].peer = conn[d].peer
  BY DEF Greeted, Deadline
<1>2. /\ \A h \in Goroutines \ {Acceptor, c} : writer'[h] = writer[h]
      /\ writer'[Acceptor].pc = "ready"
      /\ writer'[c].pc = "ready"
  BY GoroutineNames DEF IInv, TypeOK, Greeted, Spawned, Ready
<1>3. /\ writer[Acceptor].pc = "wrote"
      /\ writer[Acceptor].at = c
      /\ told' = told
      /\ sent' = sent
      /\ clients' = clients
  BY DEF Greeted
<1>4. Phases'
  BY <1>1, <1>2, <1>3, Apart DEF IInv, Phases, Accepting, Pushers
<1>5. LinesInHand'
  BY <1>2 DEF IInv, LinesInHand, Pushing, Pushers
<1>6. OnlyKnown'
  BY <1>1, <1>2, <1>3 DEF IInv, OnlyKnown, Known, Accepted, Pushing, Pushers
<1>7. OpenUntilDropped'
  BY <1>1, <1>2, <1>3, InConns DEF IInv, OpenUntilDropped, Accepting
<1>8. HasReader'
  BY <1>2, <1>3, Apart, InConns DEF IInv, HasReader, Accepting, Greeting, Pushers
<1>9. SentOrPending'
  <2>1. \A d \in clients' : d \in clients /\ ~WillGreet(d)
    BY <1>3 DEF WillGreet
  <2>2. ASSUME NEW d \in clients', NEW h \in Pushers, Pending(h, d) PROVE Pending(h, d)'
    <3>1. h # c
      BY <1>3, <2>2 DEF IInv, Phases, Accepting, Pending, Pushing
    <3> QED
      BY <1>2, <1>3, <2>2, <3>1 DEF Pending, LastVersion, Pushing, Pushers
  <2> QED
    BY <1>3, <2>1, <2>2 DEF SentOrPending, IInv
<1>10. GreetedAreMembers' /\ Dropping'
  <2>1. GreetedAreMembers'
    BY <1>1, <1>2, <1>3, Apart DEF IInv, GreetedAreMembers, Accepting, Greeting, Pushers
  <2>2. Dropping'
    BY <1>1, <1>2, <1>3, Apart DEF IInv, Dropping, Known, Accepted, Pushers
  <2> QED
    BY <2>1, <2>2
<1>11. Keeps(clients) /\ KeepsOwed(Goroutines, Conns)
  <2>1. KeepsKnown
    BY <1>1, <1>2, <1>3 DEF KeepsKnown, Known, Accepted
  <2>2. KeepsJoining(clients)
    BY <1>2, <1>3 DEF KeepsJoining, Accepted
  <2>3. KeepsFailed(clients)
    BY <1>2, <1>3 DEF IInv, Phases, KeepsFailed, Failed, Pushing, Accepting
  <2>4. KeepsOwed(Goroutines, Conns)
    BY <1>2, <1>3 DEF IInv, Phases, KeepsOwed, Unwritten, Writing, Pushing, Accepting, LastVersion
  <2> QED
    BY <2>1, <2>2, <2>3, <2>4 DEF Keeps
<1>12. UNCHANGED A!announcementVars
  BY <1>3, <1>11, Stutters DEF IInv, Greeted
<1> QED
  BY <1>4, <1>5, <1>6, <1>7, <1>8, <1>9, <1>10, <1>12 DEF Rest

LEMMA GreetingFailsKeeps ==
  ASSUME IInv, NEW c \in Conns, GreetingFails(c)
  PROVE  Rest' /\ A!Next
<1>1. \A d \in Conns : conn'[d].open = conn[d].open /\ conn'[d].peer = conn[d].peer
  BY DEF GreetingFails
<1>2. /\ \A h \in Goroutines \ {Acceptor} : writer'[h] = writer[h]
      /\ writer'[Acceptor].pc = "closing"
      /\ writer'[Acceptor].at = c
  BY Apart DEF IInv, TypeOK, GreetingFails, Writing
<1>3. /\ writer[Acceptor].pc = "write"
      /\ writer[Acceptor].at = c
      /\ clients' = clients \ {c}
      /\ told' = told
      /\ sent' = sent
  BY DEF GreetingFails, Writing
<1>4. Phases'
  BY <1>1, <1>2, <1>3, Apart DEF IInv, Phases, Accepting, Pushers
<1>5. LinesInHand'
  BY <1>2 DEF IInv, LinesInHand, Pushing, Pushers
<1>6. OnlyKnown'
  BY <1>1, <1>2, <1>3 DEF IInv, OnlyKnown, Known, Accepted, Pushing, Pushers
<1>7. OpenUntilDropped'
  BY <1>1, <1>2, <1>3, InConns DEF IInv, OpenUntilDropped, Accepting
<1>8. HasReader'
  BY <1>2, <1>3, Apart, InConns DEF IInv, HasReader, Accepting, Greeting, Pushers
<1>9. SentOrPending'
  <2>1. \A d \in clients' : d \in clients /\ ~WillGreet(d)
    BY <1>3 DEF WillGreet
  <2>2. ASSUME NEW d \in clients', NEW h \in Pushers, Pending(h, d) PROVE Pending(h, d)'
    BY <1>2, <1>3, <2>2 DEF Pending, LastVersion, Pushing, Pushers
  <2> QED
    BY <1>3, <2>1, <2>2 DEF SentOrPending, IInv
<1>10. GreetedAreMembers' /\ Dropping'
  <2>1. GreetedAreMembers'
    BY <1>1, <1>2, <1>3 DEF GreetedAreMembers, Accepting, Greeting
  <2>2. c \in Known'
    BY <1>1, <1>2, <1>3 DEF IInv, Phases, Accepting, Known, Accepted
  <2>3. \A d \in Known : d \in Known'
    BY <1>1, <1>2 DEF Known, Accepted
  <2> QED
    BY <1>2, <1>3, <2>1, <2>2, <2>3 DEF IInv, Dropping, Pushers
<1>11. Keeps(clients \ {c}) /\ KeepsOwed(Pushers, Conns) /\ KeepsOwed({Acceptor}, Conns \ {c})
  <2>1. KeepsKnown
    BY <1>1, <1>2, <1>3 DEF KeepsKnown, Known, Accepted
  <2>2. KeepsJoining(clients \ {c})
    BY <1>2, <1>3 DEF KeepsJoining, Accepted
  <2>3. KeepsFailed(clients \ {c})
    BY <1>2 DEF KeepsFailed, Failed, Pushing
  <2>4. KeepsOwed(Pushers, Conns) /\ KeepsOwed({Acceptor}, Conns \ {c})
    BY <1>2, <1>3 DEF KeepsOwed, Unwritten, Writing, Pushing, LastVersion, Pushers
  <2> QED
    BY <2>1, <2>2, <2>3, <2>4 DEF Keeps
<1>12. A!Next
  BY <1>3, <1>11, Drops DEF IInv, GreetingFails
<1> QED
  BY <1>4, <1>5, <1>6, <1>7, <1>8, <1>9, <1>10, <1>12 DEF Rest

LEMMA HandlerEndsKeeps ==
  ASSUME IInv, NEW c \in Conns, HandlerEnds(c)
  PROVE  Rest' /\ A!Next
<1>1. \A d \in Conns : conn'[d].open = conn[d].open /\ conn'[d].peer = conn[d].peer
  BY DEF HandlerEnds
<1>2. /\ \A h \in Goroutines \ {c} : writer'[h] = writer[h]
      /\ writer'[c].pc = "closing"
      /\ writer'[c].at = c
  BY GoroutineNames DEF IInv, TypeOK, HandlerEnds
<1>3. /\ writer[c].pc = "ready"
      /\ clients' = clients \ {c}
      /\ told' = told
      /\ sent' = sent
  BY DEF HandlerEnds, Dropped
<1>4. Phases'
  BY <1>1, <1>2, <1>3, Apart DEF IInv, Phases, Accepting, Pushers
<1>5. LinesInHand'
  BY <1>2, Apart DEF IInv, LinesInHand, Pushing, Pushers
<1>6. OnlyKnown'
  BY <1>1, <1>2, <1>3, Apart DEF IInv, OnlyKnown, Known, Accepted, Pushing, Pushers
<1>7. OpenUntilDropped'
  <2>1. \A d \in clients' : conn'[d].open
    BY <1>1, <1>3, InConns DEF IInv, OpenUntilDropped
  <2>2. ASSUME NEW d \in Conns, Accepting(d)', writer'[Acceptor].pc = "accepted" PROVE conn'[d].open
    BY <1>1, <1>2, <1>3, <2>2, Apart DEF IInv, OpenUntilDropped, Phases, Accepting, Greeting
  <2> QED
    BY <2>1, <2>2 DEF OpenUntilDropped
<1>8. HasReader'
  BY <1>2, <1>3, Apart, InConns DEF IInv, HasReader, Accepting, Greeting, Pushers
<1>9. SentOrPending'
  BY <1>2, <1>3, Apart DEF IInv, SentOrPending, Pending, WillGreet, LastVersion, Pushing, Pushers
<1>10. GreetedAreMembers' /\ Dropping'
  <2>1. ~Accepting(c)
    BY <1>3 DEF IInv, Phases
  <2>2. GreetedAreMembers'
    BY <1>1, <1>2, <1>3, <2>1, Apart DEF IInv, GreetedAreMembers, Accepting, Greeting
  <2>3. c \in Known'
    BY <1>1, <1>2, <1>3, <2>1, Apart DEF IInv, TypeOK, ConnState, Phases, Accepting, Known, Accepted
  <2>4. \A d \in Known : d \in Known'
    BY <1>1, <1>2, Apart DEF Known, Accepted
  <2> QED
    BY <1>2, <1>3, <2>2, <2>3, <2>4 DEF IInv, Dropping
<1>11. Keeps(clients \ {c}) /\ KeepsOwed(Pushers, Conns) /\ KeepsOwed({Acceptor}, Conns \ {c})
  <2>1. KeepsKnown
    BY <1>1, <1>2, Apart DEF KeepsKnown, Known, Accepted
  <2>2. KeepsJoining(clients \ {c})
    BY <1>2, Apart DEF KeepsJoining, Accepted
  <2>3. KeepsFailed(clients \ {c})
    BY <1>2, <1>3 DEF KeepsFailed, Failed, Pushing
  <2>4. KeepsOwed(Pushers, Conns) /\ KeepsOwed({Acceptor}, Conns \ {c})
    <3>1. KeepsOwed(Pushers, Conns)
      BY <1>2, <1>3 DEF KeepsOwed, Unwritten, Pushing, LastVersion, Pushers
    <3>2. writer'[Acceptor] = writer[Acceptor]
      BY <1>2, Apart DEF Pushers
    <3>3. KeepsOwed({Acceptor}, Conns \ {c})
      BY <1>3, <3>2 DEF KeepsOwed, Unwritten, Writing, LastVersion
    <3> QED
      BY <3>1, <3>3
  <2> QED
    BY <2>1, <2>2, <2>3, <2>4 DEF Keeps
<1>12. A!Next
  BY <1>3, <1>11, Drops DEF IInv, HandlerEnds
<1> QED
  BY <1>4, <1>5, <1>6, <1>7, <1>8, <1>9, <1>10, <1>12 DEF Rest

LEMMA CloseDroppedKeeps ==
  ASSUME IInv, NEW g \in Goroutines, NEW c \in Conns, CloseDropped(g, c)
  PROVE  Rest' /\ UNCHANGED A!announcementVars
<1>1. \A d \in Conns : conn'[d].peer = conn[d].peer /\ conn'[d].open = (conn[d].open /\ d # c)
  BY DEF IInv, TypeOK, ConnState, CloseDropped, Closed
<1>2. /\ \A h \in Goroutines : writer'[h] # writer[h] =>
            h = g \/ (g = Acceptor /\ h = c)
      /\ writer'[g].pc = IF g = Acceptor THEN "ready" ELSE "none"
      /\ g = Acceptor => writer'[c].pc = "ready"
  BY GoroutineNames, Apart DEF IInv, TypeOK, CloseDropped, Spawned, NotStarted, Ready
<1>3. /\ writer[g].pc = "closing"
      /\ writer[g].at = c
      /\ told' = told
      /\ sent' = sent
      /\ clients' = clients
      /\ c \in Known /\ c \notin clients
  BY DEF CloseDropped, IInv, Dropping
<1>4. g = Acceptor => writer[c].pc = "none"
  BY <1>3 DEF IInv, Phases, Accepting
<1>5. /\ \A h \in Goroutines : writer'[h] = writer[h]
                               \/ /\ writer[h].pc \in {"none", "closing"}
                                  /\ writer'[h].pc \in {"none", "ready"}
      /\ g # Acceptor => writer'[Acceptor] = writer[Acceptor]
  BY <1>2, <1>3, <1>4, Apart
<1>6. Phases'
  BY <1>1, <1>2, <1>3, <1>5, Apart DEF IInv, Phases, Accepting, Pushers
<1>7. LinesInHand'
  BY <1>2, <1>5, Apart DEF IInv, LinesInHand, Pushing, Pushers
<1>8. Known' = Known
  BY <1>1, <1>2, <1>3, <1>5, Apart DEF Known, Accepted
<1>9. OnlyKnown'
  BY <1>3, <1>5, <1>8 DEF IInv, OnlyKnown, Pushing, Pushers
<1>10. OpenUntilDropped'
  <2>1. \A d \in clients' : conn'[d].open
    BY <1>1, <1>3, InConns DEF IInv, OpenUntilDropped
  <2>2. ASSUME NEW d \in Conns, Accepting(d)', writer'[Acceptor].pc = "accepted" PROVE conn'[d].open
    <3>1. writer'[Acceptor] = writer[Acceptor]
      BY <1>2, <1>5, <2>2
    <3>2. d # c
      BY <1>3, <2>2, <3>1 DEF Accepting, Known, Accepted
    <3> QED
      BY <1>1, <2>2, <3>1, <3>2 DEF IInv, OpenUntilDropped, Accepting
  <2> QED
    BY <2>1, <2>2 DEF OpenUntilDropped
<1>11. HasReader'
  <2> SUFFICES ASSUME NEW d \in clients PROVE writer'[d].pc \notin {"none", "closing"} \/ Greeting(d)'
    BY <1>3 DEF HasReader
  <2>1. CASE writer[d].pc \notin {"none", "closing"}
    BY <1>5, <2>1, GoroutineNames, InConns DEF IInv
  <2>2. CASE Greeting(d)
    <3>1. g # Acceptor
      BY <1>3, <2>2 DEF Greeting
    <3> QED
      BY <1>5, <2>2, <3>1 DEF Accepting, Greeting
  <2> QED
    BY <2>1, <2>2 DEF IInv, HasReader
<1>12. SentOrPending'
  <2>1. ASSUME NEW h \in Pushers, NEW d, Pending(h, d) PROVE Pending(h, d)'
    BY <1>3, <1>5, <2>1 DEF Pending, LastVersion, Pushing, Pushers
  <2>2. ASSUME NEW d, WillGreet(d) PROVE WillGreet(d)'
    BY <1>3, <1>5, <2>2 DEF WillGreet, LastVersion
  <2> QED
    BY <1>3, <2>1, <2>2 DEF IInv, SentOrPending
<1>13. GreetedAreMembers' /\ Dropping'
  <2>1. GreetedAreMembers'
    BY <1>1, <1>2, <1>3, <1>5 DEF IInv, GreetedAreMembers, Accepting, Greeting
  <2>2. Dropping'
    BY <1>3, <1>5, <1>8 DEF IInv, Dropping
  <2> QED
    BY <2>1, <2>2
<1>14. Keeps(clients) /\ KeepsOwed(Goroutines, Conns)
  <2>1. KeepsJoining(clients)
    BY <1>2, <1>3, <1>5 DEF KeepsJoining, Accepted
  <2>2. KeepsFailed(clients)
    BY <1>5 DEF KeepsFailed, Failed, Pushing
  <2>3. KeepsOwed(Goroutines, Conns)
    BY <1>3, <1>5 DEF KeepsOwed, Unwritten, Writing, Pushing, LastVersion
  <2> QED
    BY <1>8, <2>1, <2>2, <2>3 DEF Keeps, KeepsKnown
<1>15. UNCHANGED A!announcementVars
  BY <1>3, <1>14, Stutters DEF IInv, CloseDropped
<1> QED
  BY <1>6, <1>7, <1>9, <1>10, <1>11, <1>12, <1>13, <1>15 DEF Rest

LEMMA CleanupKeeps ==
  ASSUME IInv, Cleanup
  PROVE  Rest' /\ A!Next
<1>1. \A d \in Conns : conn'[d].peer = conn[d].peer /\ conn'[d].open = (conn[d].open /\ d \notin clients)
  BY DEF IInv, TypeOK, ConnState, Cleanup, Closed
<1>2. /\ writer' = writer
  BY DEF Cleanup
<1>3. /\ clients' = {}
      /\ told' = told
      /\ sent' = sent
  BY DEF Cleanup
<1>4. Phases'
  BY <1>1, <1>2 DEF IInv, Phases, Accepting
<1>5. LinesInHand'
  BY <1>2 DEF IInv, LinesInHand, Pushing
<1>6. OnlyKnown'
  BY <1>1, <1>2, <1>3 DEF IInv, OnlyKnown, Known, Accepted, Pushing
<1>7. OpenUntilDropped'
  BY <1>1, <1>2, <1>3 DEF IInv, OpenUntilDropped, OnlyKnown, Known, Accepted, Accepting, Greeting
<1>8. HasReader'
  BY <1>3 DEF HasReader
<1>9. SentOrPending'
  BY <1>3 DEF SentOrPending
<1>10. GreetedAreMembers' /\ Dropping'
  <2>1. GreetedAreMembers'
    BY <1>1, <1>2, <1>3, Apart DEF IInv, GreetedAreMembers, Accepting, Greeting, Pushers
  <2>2. Dropping'
    BY <1>1, <1>2, <1>3, Apart DEF IInv, Dropping, Known, Accepted, Pushers
  <2> QED
    BY <2>1, <2>2
<1>11. Keeps(clients \ clients) /\ KeepsOwed(Pushers, Conns) /\ KeepsOwed({Acceptor}, Conns \ clients)
  <2>1. KeepsKnown
    BY <1>1, <1>2 DEF KeepsKnown, Known, Accepted
  <2>2. KeepsJoining(clients \ clients)
    BY DEF KeepsJoining
  <2>3. KeepsFailed(clients \ clients)
    BY DEF KeepsFailed
  <2>4. KeepsOwed(Pushers, Conns) /\ KeepsOwed({Acceptor}, Conns \ clients)
    BY <1>2, <1>3 DEF KeepsOwed, Unwritten, Writing, Pushing, LastVersion, Pushers
  <2> QED
    BY <2>1, <2>2, <2>3, <2>4 DEF Keeps
<1>12. A!Next
  <2>1. clients' = clients \ clients
    BY <1>3
  <2> QED
    BY <1>11, Drops DEF IInv, Cleanup
<1> QED
  BY <1>4, <1>5, <1>6, <1>7, <1>8, <1>9, <1>10, <1>12 DEF Rest

LEMMA DialKeeps ==
  ASSUME IInv, NEW c \in Conns, Dial(c)
  PROVE  Rest' /\ UNCHANGED A!announcementVars
<1>1. \A d \in Conns : conn'[d].open = conn[d].open /\ conn'[d].peer = IF d = c THEN "dialed" ELSE conn[d].peer
  BY DEF IInv, TypeOK, ConnState, Dial
<1>2. /\ writer' = writer
  BY DEF Dial
<1>3. /\ conn[c].peer = "absent"
      /\ told' = told
      /\ sent' = sent
      /\ clients' = clients
  BY SocketAssumption DEF IInv, TypeOK, Versions, Dial
<1>4. Phases'
  BY <1>1, <1>2, <1>3 DEF IInv, Phases, Accepting
<1>5. LinesInHand'
  BY <1>2 DEF IInv, LinesInHand, Pushing
<1>6. OnlyKnown'
  BY <1>1, <1>2, <1>3 DEF IInv, OnlyKnown, Known, Accepted, Pushing
<1>7. OpenUntilDropped'
  BY <1>1, <1>2, <1>3, InConns DEF IInv, OpenUntilDropped, Accepting, Greeting
<1>8. HasReader'
  BY <1>2, <1>3 DEF IInv, HasReader, Accepting, Greeting
<1>9. SentOrPending'
  BY <1>2, <1>3 DEF IInv, SentOrPending, Pending, WillGreet, LastVersion, Pushing
<1>10. GreetedAreMembers' /\ Dropping'
  <2>1. GreetedAreMembers'
    BY <1>1, <1>2, <1>3, Apart DEF IInv, GreetedAreMembers, Accepting, Greeting, Pushers
  <2>2. Dropping'
    BY <1>1, <1>2, <1>3, Apart DEF IInv, Dropping, Known, Accepted, Pushers
  <2> QED
    BY <2>1, <2>2
<1>11. Keeps(clients) /\ KeepsOwed(Goroutines, Conns)
  <2>1. KeepsKnown
    BY <1>1, <1>2, <1>3 DEF KeepsKnown, Known, Accepted
  <2>2. KeepsJoining(clients)
    BY <1>2 DEF KeepsJoining, Accepted
  <2>3. KeepsFailed(clients)
    BY <1>2 DEF KeepsFailed, Failed, Pushing
  <2>4. KeepsOwed(Goroutines, Conns)
    BY <1>2, <1>3 DEF KeepsOwed, Unwritten, Writing, Pushing, LastVersion
  <2> QED
    BY <2>1, <2>2, <2>3, <2>4 DEF Keeps
<1>12. UNCHANGED A!announcementVars
  BY <1>3, <1>11, Stutters DEF IInv, Dial
<1> QED
  BY <1>4, <1>5, <1>6, <1>7, <1>8, <1>9, <1>10, <1>12 DEF Rest

LEMMA LeaveKeeps ==
  ASSUME IInv, NEW c \in Conns, Leave(c)
  PROVE  Rest' /\ UNCHANGED A!announcementVars
<1>1. \A d \in Conns : conn'[d].open = conn[d].open /\ conn'[d].peer = IF d = c THEN "left" ELSE conn[d].peer
  BY DEF IInv, TypeOK, ConnState, Leave
<1>2. /\ writer' = writer
  BY DEF Leave
<1>3. /\ conn[c].peer = "up"
      /\ told' = told
      /\ sent' = sent
      /\ clients' = clients
  BY SocketAssumption DEF IInv, TypeOK, Versions, Leave
<1>4. Phases'
  BY <1>1, <1>2 DEF IInv, Phases, Accepting
<1>5. LinesInHand'
  BY <1>2 DEF IInv, LinesInHand, Pushing
<1>6. OnlyKnown'
  BY <1>1, <1>2, <1>3 DEF IInv, OnlyKnown, Known, Accepted, Pushing
<1>7. OpenUntilDropped'
  BY <1>1, <1>2, <1>3, InConns DEF IInv, OpenUntilDropped, Accepting, Greeting
<1>8. HasReader'
  BY <1>2, <1>3 DEF IInv, HasReader, Accepting, Greeting
<1>9. SentOrPending'
  BY <1>2, <1>3 DEF IInv, SentOrPending, Pending, WillGreet, LastVersion, Pushing
<1>10. GreetedAreMembers' /\ Dropping'
  <2>1. GreetedAreMembers'
    BY <1>1, <1>2, <1>3, Apart DEF IInv, GreetedAreMembers, Accepting, Greeting, Pushers
  <2>2. Dropping'
    BY <1>1, <1>2, <1>3, Apart DEF IInv, Dropping, Known, Accepted, Pushers
  <2> QED
    BY <2>1, <2>2
<1>11. Keeps(clients) /\ KeepsOwed(Goroutines, Conns)
  <2>1. KeepsKnown
    BY <1>1, <1>2, <1>3 DEF KeepsKnown, Known, Accepted
  <2>2. KeepsJoining(clients)
    BY <1>2 DEF KeepsJoining, Accepted
  <2>3. KeepsFailed(clients)
    BY <1>2 DEF KeepsFailed, Failed, Pushing
  <2>4. KeepsOwed(Goroutines, Conns)
    BY <1>2, <1>3 DEF KeepsOwed, Unwritten, Writing, Pushing, LastVersion
  <2> QED
    BY <2>1, <2>2, <2>3, <2>4 DEF Keeps
<1>12. UNCHANGED A!announcementVars
  BY <1>3, <1>11, Stutters DEF IInv, Leave
<1> QED
  BY <1>4, <1>5, <1>6, <1>7, <1>8, <1>9, <1>10, <1>12 DEF Rest

LEMMA ElsewhereKeeps ==
  ASSUME IInv, UNCHANGED <<clients, writer, told, sent>>,
         \A d \in Conns : conn'[d].open = conn[d].open /\ conn'[d].peer = conn[d].peer
  PROVE  Rest'
<1>1. Phases'
  BY DEF IInv, Phases, Accepting
<1>2. LinesInHand'
  BY DEF IInv, LinesInHand, Pushing
<1>3. OnlyKnown'
  BY DEF IInv, OnlyKnown, Known, Accepted, Pushing
<1>4. OpenUntilDropped'
  BY InConns DEF IInv, OpenUntilDropped, Accepting, Greeting
<1>5. HasReader'
  BY DEF IInv, HasReader, Accepting, Greeting
<1>6. SentOrPending'
  BY DEF IInv, SentOrPending, WillGreet, Pending, Pushing, LastVersion
<1>7. GreetedAreMembers' /\ Dropping'
  BY DEF IInv, GreetedAreMembers, Dropping, Accepting, Greeting, Known, Accepted
<1> QED
  BY <1>1, <1>2, <1>3, <1>4, <1>5, <1>6, <1>7 DEF Rest

LEMMA SeenElsewhere ==
  ASSUME UNCHANGED <<clients, writer>>, \A d \in Conns : conn'[d].peer = conn[d].peer
  PROVE  UNCHANGED <<Known \ clients, clients \cap Accepted("registered"), clients \cap Failed, Owed>>
<1>1. Accepted("registered")' = Accepted("registered") /\ Accepted("accepted")' = Accepted("accepted")
  BY DEF Accepted
<1>2. Known' = Known
  BY <1>1 DEF Known
<1>3. Failed' = Failed
  BY DEF Failed, Pushing
<1>4. \A g \in Goroutines : OwedBy(g)' = OwedBy(g)
  BY DEF OwedBy, Unwritten, Writing, Pushing, LastVersion
<1>5. Owed' = Owed
  BY <1>4 DEF Owed
<1> QED
  BY <1>1, <1>2, <1>3, <1>5

LEMMA ElsewhereStutters ==
  ASSUME UNCHANGED <<clients, writer, st, told, sent>>, \A d \in Conns : conn'[d].peer = conn[d].peer
  PROVE  UNCHANGED A!announcementVars
  BY SeenElsewhere DEF A!announcementVars, Owed

-----------------------------------------------------------------------------
(* All steps together.                                                     *)

LEMMA InitIInv == Init => IInv
<1> SUFFICES ASSUME Init PROVE IInv
  OBVIOUS
<1>1. TypeOK
  <2>1. writer \in [Goroutines -> WriterState]
    BY ReadyType DEF Init
  <2>2. [peer |-> "absent", open |-> FALSE, unread |-> 0, deadline |-> "none"] \in ConnState
    BY SocketAssumption DEF ConnState
  <2>3. conn \in [Conns -> ConnState]
    BY <2>2 DEF Init
  <2>4. 0 \in Versions /\ None \in {None} \cup Versions
    BY SocketAssumption DEF Versions
  <2>5. sent \in [Conns -> {None} \cup Versions]
    BY DEF Init
  <2>6. told \in 0..st
    BY DEF Init
  <2> QED
    BY <2>1, <2>3, <2>4, <2>6, Zenon DEF Init, TypeOK
<1>2. \A g \in Pushers : writer[g].pc \in {"none", "ready"}
  BY DEF Init, Pushers, Ready, NotStarted
<1>3. writer[Acceptor].pc = "ready" /\ \A c \in Conns : writer[c].pc = "none"
  BY Apart, GoroutineNames DEF Init, Ready, NotStarted
<1>4. clients = {}
  BY DEF Init
<1>5. Known = {}
  BY DEF Init, Known
<1>6. Dropping
  BY <1>2, <1>3 DEF Dropping, Pushers
<1> QED
  BY <1>1, <1>2, <1>3, <1>4, <1>5, <1>6 DEF IInv, Phases, LinesInHand, OnlyKnown, OpenUntilDropped,
     GreetedAreMembers, HasReader, SentOrPending, Accepting, Greeting, Pushing

Refines == [A!Next]_(A!announcementVars)

LEMMA BroadcastKeeps == ASSUME IInv, NEW g \in Goroutines, BroadcastStep(g) PROVE Rest' /\ Refines
<1>1. CASE g # Acceptor
  BY <1>1, ArmKeeps, PusherWriteKeeps, WriteFailsKeeps, DisarmKeeps, FinishKeeps DEF BroadcastStep, Pushers, Refines
<1>2. CASE g = Acceptor
  <2>1. \E c \in Conns : Write(Acceptor, c)
    BY <1>2 DEF BroadcastStep, Finish, Arm, WriteFails, Disarm, IInv, Phases
  <2> QED
    BY <2>1, AcceptorWriteKeeps DEF Refines
<1> QED
  BY <1>1, <1>2

LEMMA AcceptorKeeps == ASSUME IInv, NEW c \in Conns, AcceptorStep(c) PROVE Rest' /\ Refines
  BY AcceptKeeps, RegisterKeeps, GreetKeeps, GreetedKeeps, GreetingFailsKeeps DEF AcceptorStep, Refines

LEMMA ConnKeeps == ASSUME IInv, NEW c \in Conns, ConnStep(c) PROVE Rest' /\ Refines
<1>1. CASE Toggle(c)
  BY <1>1, Apart, ChangeKeeps DEF Toggle, Refines
<1>2. CASE Expire(c) \/ Read(c)
  <2>1. \A d \in Conns : conn'[d].open = conn[d].open /\ conn'[d].peer = conn[d].peer
    BY <1>2 DEF Expire, Read, IInv, TypeOK, ConnState
  <2> QED
    BY <1>2, <2>1, ElsewhereKeeps, ElsewhereStutters DEF Expire, Read, Refines
<1> QED
  BY <1>1, <1>2, HandlerEndsKeeps, DialKeeps, LeaveKeeps DEF ConnStep, Refines

LEMMA StepKeeps == IInv /\ [Next]_vars => IInv' /\ Refines
<1> SUFFICES ASSUME IInv, [Next]_vars PROVE IInv' /\ Refines
  OBVIOUS
<1>1. TypeOK'
  BY StepTypeOK DEF IInv
<1>2. CASE DaemonChanges
  <2>1. Daemon \in Pushers
    BY SocketAssumption, GoroutineNames DEF Pushers
  <2>2. Rest' /\ Refines
    BY <1>2, <2>1, ChangeKeeps DEF DaemonChanges, Refines
  <2> QED
    BY <1>1, <2>2 DEF IInv, Rest
<1>3. CASE SetRules \/ Cancel \/ UNCHANGED vars
  <2>1. Rest'
    BY <1>3, ElsewhereKeeps DEF SetRules, Cancel, vars
  <2>2. \A d \in Conns : conn'[d].peer = conn[d].peer
    BY <1>3 DEF SetRules, Cancel, vars
  <2>3. UNCHANGED <<Known \ clients, clients \cap Accepted("registered"), clients \cap Failed, Owed>>
    BY <1>3, SeenElsewhere DEF SetRules, Cancel, vars
  <2>4. ASSUME SetRules PROVE A!Next
    <3>1. A!Change
      BY <2>3, <2>4 DEF SetRules, A!Change, Owed
    <3> QED
      BY <3>1 DEF A!Next
  <2>5. ASSUME Cancel \/ UNCHANGED vars PROVE UNCHANGED A!announcementVars
    BY <2>3, <2>5 DEF Cancel, vars, A!announcementVars, Owed
  <2> QED
    BY <1>1, <1>3, <2>1, <2>4, <2>5 DEF IInv, Rest, Refines
<1>4. CASE Cleanup
  BY <1>1, <1>4, CleanupKeeps DEF IInv, Rest, Refines
<1>5. CASE \E g \in Goroutines : BroadcastStep(g) \/ \E c \in Conns : CloseDropped(g, c)
  BY <1>1, <1>5, BroadcastKeeps, CloseDroppedKeeps DEF IInv, Rest, Refines
<1>6. CASE \E c \in Conns : AcceptorStep(c) \/ ConnStep(c)
  BY <1>1, <1>6, AcceptorKeeps, ConnKeeps DEF IInv, Rest
<1> QED
  BY <1>2, <1>3, <1>4, <1>5, <1>6 DEF Next

LEMMA InitAnnouncements == Init => A!Init
<1> SUFFICES ASSUME Init PROVE A!Init
  OBVIOUS
<1>1. Known = {} /\ clients = {}
  BY DEF Init, Known
<1>2. Owed = {}
  <2>1. \A g \in Goroutines : ~Pushing(g) /\ writer[g].pc # "write"
    BY DEF Init, Pushing, Ready, NotStarted
  <2>2. \A g \in Goroutines : Unwritten(g) = {}
    BY <2>1 DEF Unwritten, Writing
  <2> QED
    BY <2>2, InOwed
<1> QED
  BY <1>1, <1>2 DEF Init, A!Init, Owed

\* The inductive invariant: what a registered connection was not sent yet is in
\* the hands of a goroutine that will send it or drop the connection.
THEOREM Invariance == Spec => []IInv
  BY InitIInv, StepKeeps, PTL DEF Spec

\* ui/socket.go keeps what Announcements promises: everybody who is registered
\* when a change is broadcast is sent it, or dropped; everybody is greeted with
\* the state there is after he was registered; who was dropped is sent nothing
\* that is broadcast afterwards.
THEOREM AnnouncementsRefinement == Spec => ImplementsAnnouncements
<1>1. IInv /\ [Next]_vars => [A!Next]_(A!announcementVars)
  BY StepKeeps DEF Refines
<1> QED
  BY <1>1, InitAnnouncements, Invariance, PTL DEF Spec, ImplementsAnnouncements, A!Spec

\* Every variable has its type, for any number of connections and changes.
THEOREM TypeCorrect == Spec => []TypeOK
<1>1. IInv => TypeOK
  BY DEF IInv
<1> QED
  BY <1>1, Invariance, PTL

\* Between broadcasts and greetings every registered connection was sent the
\* state of the last broadcast or a later one.
THEOREM NoChangeMissed == Spec => []NobodyMissesAChange
<1>1. IInv => NobodyMissesAChange
  <2> SUFFICES ASSUME IInv, Quiet, NEW c \in clients PROVE sent[c] >= told
    BY DEF NobodyMissesAChange
  <2>1. ~WillGreet(c)
    BY Apart DEF Quiet, WillGreet
  <2>2. \A g \in Pushers : ~Pending(g, c)
    BY DEF Quiet, Pending, Pushing, Pushers
  <2> QED
    BY <2>1, <2>2 DEF IInv, SentOrPending
<1> QED
  BY <1>1, Invariance, PTL

\* Between broadcasts and greetings every registered connection is open and
\* has a goroutine that reads it.
THEOREM ServedUntilDropped == Spec => []RegisteredAreServed
<1>1. IInv => RegisteredAreServed
  <2> SUFFICES ASSUME IInv, Quiet, NEW c \in clients PROVE conn[c].open /\ writer[c].pc = "ready"
    BY DEF RegisteredAreServed
  <2>1. ~Greeting(c)
    BY Apart DEF Quiet, Greeting, Accepting, IInv, Phases
  <2>2. writer[c].pc \in {"none", "ready", "closing"}
    BY Apart, InConns, GoroutineNames DEF Quiet, IInv
  <2> QED
    BY <2>1, <2>2 DEF IInv, HasReader, OpenUntilDropped
<1> QED
  BY <1>1, Invariance, PTL
=============================================================================
