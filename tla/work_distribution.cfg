CONSTANTS
  t1 = t1
  t2 = t2
  w1 = w1
  w2 = w2
  w3 = w3
  Threads <- MCThreads
  Main = Main
  NoOne = NoOne
  Works <- TwoWorks
  HeightOf <- TwoHeight
  NoRoot = NoRoot
  PoolAlgs = {"METISCOIN", "PROTOSHARES", "PRIME"}
  PoolMay = {"early", "truncated"}
  MaxSessions = 2
  MaxSeed = 2
  MaxShares = 0
SPECIFICATION Spec
SYMMETRY ThreadSymmetry
INVARIANTS
  TypeOK
  LocksMatchCode
  MonitorAgrees
  WorkIsWhole
  
  OnlySupportedMined
  
PROPERTY
  FetchWholeOffer
  
