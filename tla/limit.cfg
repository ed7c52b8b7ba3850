SPECIFICATION Spec
CONSTANTS
  Conns <- MCConns
  NoConn <- MCNoConn
  Msgs = {m1}
  NoMsg = none
  BookSize = 1
  QueueLimit = 1
  MaxBacklog = 2
  Monitored = TRUE
  Pool = FALSE
  Reconnects = FALSE
INVARIANT QueueWithinLimit
