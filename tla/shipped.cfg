SPECIFICATION Spec
CONSTANTS
  Conns <- MCConns
  NoConn <- MCNoConn
  Msgs = {m1, m2}
  NoMsg = none
  BookSize = 1
  QueueLimit = 0
  MaxBacklog = 2
  Monitored = TRUE
  Pool = FALSE
  Reconnects = FALSE
INVARIANTS TypeOK ConnectedMeansOpen NoStrandedMessage NoStaleWriter
PROPERTIES FreshSession StopIsFinal KeepsPromise
