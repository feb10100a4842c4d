CONSTANTS
  t1 = t1
  t2 = t2
  w1 = w1
  w2 = w2
  w3 = w3
  Threads <- MCThreads
  Main = Main
  NoOne = NoOne
  Works <- MCWorks
  HeightOf <- MCHeight
  NoRoot = NoRoot
  PoolAlgs = {"METISCOIN"}
  PoolMay = {}
  MaxSessions = 2
  MaxSeed = 1
  MaxShares = 1
SPECIFICATION FairSpec
PROPERTIES
  StaleWorkAbandoned
  QueuedShareSent
  
