SPECIFICATION FairSpec
CONSTANTS
  Conns <- MCConns
  NoConn <- MCNoConn
  Msgs = {m1}
  NoMsg = none
  BookSize = 2
  QueueLimit = 0
  MaxBacklog = 1
  Monitored = TRUE
  Pool = FALSE
  Reconnects = FALSE
PROPERTIES HandshakeBounded EveryAddressTried SilentPeerDroppedOnNetwork StopTerminatesOnNetwork
