SPECIFICATION FairSpec
CONSTANTS
  Conns <- MCConns
  NoConn <- MCNoConn
  Msgs = {m1}
  NoMsg = none
  BookSize = 1
  QueueLimit = 0
  MaxBacklog = 1
  Monitored = TRUE
  Pool = FALSE
  Reconnects = FALSE
PROPERTY SilentPeerDropped
