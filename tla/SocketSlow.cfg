CONSTANTS
  Conns = {c1}
  Slow = {c1}
  Daemon = daemon
  Acceptor = acceptor
  NoConn = noconn
  Room = 1
  MaxVersion = 2
SPECIFICATION FairSpec
PROPERTIES SlowClientsDoNotBlock
CHECK_DEADLOCK FALSE
