SPECIFICATION FairSpec
CONSTANTS
  MaxSeq = 2
  MaxAsked = 1
  e1 = e1
  e2 = e2
  Exchanges <- TwoExchanges
  Logs <- PairLogs
PROPERTIES  LaterSettles
CHECK_DEADLOCK FALSE
