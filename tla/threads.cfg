SPECIFICATION Spec
CONSTANTS
  Conns <- MCConns
  NoConn <- MCNoConn
  Msgs = {m1}
  NoMsg = none
  BookSize = 1
  QueueLimit = 0
  MaxBacklog = 2
  Monitored = TRUE
  Pool = TRUE
  Reconnects = TRUE
VIEW UpToNames
INVARIANTS OneWriter MonitorJudgesCurrent ConnectingOwned OnlyTrackedOpen
