CONSTANTS
  t1 = t1
  t2 = t2
  w1 = w1
  w2 = w2
  w3 = w3
  Threads <- MCThreads
  Main = Main
  NoOne = NoOne
  Works <- TwoWorks
  HeightOf <- TwoHeight
  NoRoot = NoRoot
  PoolAlgs = {"METISCOIN"}
  PoolMay = {}
  MaxSessions = 2
  MaxSeed = 3
  MaxShares = 2
SPECIFICATION Spec
SYMMETRY ThreadSymmetry
INVARIANTS
  SeedIdentifiesBlock
  ShareInOnePlace
  SharesStayOnSession
PROPERTY
  MinesAsIfAtomic
