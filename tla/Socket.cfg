CONSTANTS
  Conns = {c1}
  Slow = {}
  Daemon = daemon
  Acceptor = acceptor
  NoConn = noconn
  Room = 1
  MaxVersion = 3
SPECIFICATION FairSpec
INVARIANTS TypeOK NobodyMissesAChange RegisteredAreServed
PROPERTIES ImplementsAnnouncements BroadcastReturns LeaversDropped
CHECK_DEADLOCK FALSE
