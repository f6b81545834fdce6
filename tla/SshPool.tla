------------------------------- MODULE SshPool -------------------------------
(***************************************************************************)
(* ssh/pool.go: connections kept per host, checked before they are used    *)
(* again, and the agent connections their authentication left open.        *)
(* Pool.mu is held from the check to the new connection.                   *)
(***************************************************************************)
EXTENDS Integers

CONSTANTS
  Hosts,        \* the hosts of the configuration
  UsesAgent,    \* those without a key file
  NoHost,
  MaxAgents     \* bound on the agent connections

VARIABLES
  conns,        \* Pool.conns, with what became of the connection
  agentConns,   \* how many there are in Pool.agentConns: all of them are open
  call          \* where getConn is

vars == <<conns, agentConns, call>>

Out == [pc |-> "out", host |-> NoHost]

TypeOK ==
  /\ conns \in [Hosts -> {"none", "up", "dead"}]
  /\ agentConns \in 0..MaxAgents
  /\ call \in [pc : {"out", "check", "dial", "handshake", "connected"},
               host : Hosts \cup {NoHost}]
  /\ call.pc = "out" <=> call.host = NoHost

Init == conns = [h \in Hosts |-> "none"] /\ agentConns = 0 /\ call = Out

At(pc) == call.pc = pc
Goto(pc) == call' = [call EXCEPT !.pc = pc]

-----------------------------------------------------------------------------
\* SFTP is called.  A name the pool does not know is an error of dial.
GetConn(h) ==
  /\ At("out") /\ call' = [pc |-> "check", host |-> h]
  /\ UNCHANGED <<conns, agentConns>>

\* The keepalive request is answered, or the connection is closed and dropped.
Check ==
  /\ At("check")
  /\ IF conns[call.host] = "up"
     THEN Goto("connected") /\ UNCHANGED conns
     ELSE Goto("dial") /\ conns' = [conns EXCEPT ![call.host] = "none"]
  /\ UNCHANGED agentConns

\* authMethod: a key, or a connection to the agent, which stays.
Authenticate ==
  /\ At("dial") /\ Goto("handshake")
  /\ IF call.host \in UsesAgent
     THEN agentConns < MaxAgents /\ agentConns' = agentConns + 1 ELSE UNCHANGED agentConns
  /\ UNCHANGED conns

Connect ==
  /\ At("handshake") /\ Goto("connected")
  /\ conns' = [conns EXCEPT ![call.host] = "up"]
  /\ UNCHANGED agentConns

\* The SFTP session is the caller's.
Session == At("connected") /\ call' = Out /\ UNCHANGED <<conns, agentConns>>

\* No key or agent, no connection, no session.
Fail ==
  /\ call.pc \in {"dial", "handshake", "connected"}
  /\ call' = Out
  /\ UNCHANGED <<conns, agentConns>>

Dies(h) ==
  /\ conns[h] = "up"
  /\ conns' = [conns EXCEPT ![h] = "dead"]
  /\ UNCHANGED <<agentConns, call>>

Close ==
  /\ At("out")
  /\ conns' = [h \in Hosts |-> "none"] /\ agentConns' = 0
  /\ UNCHANGED call
=============================================================================
