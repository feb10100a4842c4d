CONSTANTS
  t1 = t1
  t2 = t2
  w1 = w1
  w2 = w2
  w3 = w3
  Threads <- OneThread
  Main = Main
  NoOne = NoOne
  Works <- TwoWorks
  HeightOf <- SameHeight
  NoRoot = NoRoot
  PoolAlgs = {"METISCOIN"}
  PoolMay = {}
  MaxSessions = 1
  MaxSeed = 1
  MaxShares = 0
SPECIFICATION FairSpec
PROPERTY
  NewBlockDataNotified
