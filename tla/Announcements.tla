--------------------------- MODULE Announcements ---------------------------
(***************************************************************************)
(* What ui/socket.go promises the trays, without sockets, deadlines and    *)
(* locks.  A state is announced to everybody who is a member then: each is *)
(* sent it once, unless that fails, and then he is dropped.  Who joins is  *)
(* greeted with the state there is after he has joined, so that he misses  *)
(* nothing in between.  Who was dropped, for whatever reason, may be sent  *)
(* what was announced before, but nothing that is announced afterwards,    *)
(* and he does not come back.  SocketUI implements it.                     *)
(***************************************************************************)
EXTENDS Integers

CONSTANTS
  Subscribers,
  Publishers,
  Nothing        \* nothing was sent yet: less than any version

VARIABLES
  current,     \* the version of the state
  announced,   \* that of the last announcement
  members,
  gone,        \* members once
  joining,     \* members who are still to be greeted
  owed,        \* what is announced but not sent yet: by whom, to whom, which version
  doomed,      \* members whom something could not be sent
  newest       \* the newest version sent to each subscriber

announcementVars == <<current, announced, members, gone, joining, owed, doomed, newest>>

Init ==
  /\ current = 0 /\ announced = 0
  /\ members = {} /\ gone = {} /\ joining = {}
  /\ owed = {} /\ doomed = {}
  /\ newest = [s \in Subscribers |-> Nothing]

Busy(g) == \E o \in owed : o.by = g

\* A change that is not announced.
Change ==
  /\ current' = current + 1
  /\ UNCHANGED <<announced, members, gone, joining, owed, doomed, newest>>

Announce(g) ==
  /\ ~Busy(g)
  /\ current' = current + 1 /\ announced' = current'
  /\ owed' = owed \cup {[by |-> g, to |-> s, ver |-> current'] : s \in members}
  /\ UNCHANGED <<members, gone, joining, doomed, newest>>

Join(s) ==
  /\ s \notin members \cup gone
  /\ members' = members \cup {s} /\ joining' = joining \cup {s}
  /\ UNCHANGED <<current, announced, gone, owed, doomed, newest>>

Greet(g, s) ==
  /\ ~Busy(g) /\ s \in joining
  /\ joining' = joining \ {s}
  /\ owed' = owed \cup {[by |-> g, to |-> s, ver |-> current]}
  /\ UNCHANGED <<current, announced, members, gone, doomed, newest>>

\* Announcements may overtake each other.
Deliver(o) ==
  /\ newest' = [newest EXCEPT ![o.to] = IF o.ver > @ THEN o.ver ELSE @]
  /\ owed' = owed \ {o}
  /\ UNCHANGED <<current, announced, members, gone, joining, doomed>>

Fail(o) ==
  /\ owed' = owed \ {o}
  /\ doomed' = doomed \cup ({o.to} \cap members)
  /\ UNCHANGED <<current, announced, members, gone, joining, newest>>

\* What is on its way to somebody who is dropped may be lost.
Drop(S) ==
  /\ members' = members \ S /\ gone' = gone \cup S
  /\ joining' = joining \ S /\ doomed' = doomed \ S
  /\ owed' \subseteq owed /\ \A o \in owed \ owed' : o.to \in S
  /\ UNCHANGED <<current, announced, newest>>

Next ==
  \/ Change
  \/ \E g \in Publishers : Announce(g) \/ \E s \in Subscribers : Greet(g, s)
  \/ \E s \in Subscribers : Join(s)
  \/ \E o \in owed : Deliver(o) \/ Fail(o)
  \/ \E S \in SUBSET members : Drop(S)

Spec == Init /\ [][Next]_announcementVars
=============================================================================
