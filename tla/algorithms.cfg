SPECIFICATION Spec
CONSTANTS
  Base = 8
  Layers = 4
  TargetBase = 8
  Mantissa = 2
  Words = 2
  DigitBase = 11
  AddrBase = 8
  WordBytes = 2
  MaxInput = 20
  RawLength = 4
  CheckLength = 1
  MaxFees = 3
  Checksum <- MCChecksum
  PrimeLimit = 20
  Skipped = 3
  Primorial = 30
  SieveSize = 48
  Prime = 1
  Protoshares = 2
  Riecoin = 3
  MaxName = 4
  MaxVersion = 4
  Version <- MCVersion
  HashSize = 2
  KeySize = 2
  SendLimit = 256
  Compacts <- MCCompacts
  Blocks <- MCBlocksFitting
  Addresses <- MCAddresses
  SieveTargets <- MCSieveTargets
  Logins <- MCLogins
  Shares <- MCShares
INVARIANTS
  RootIsTree
  SeedsGiveRoots
  TargetIsShifted
  AddressIsNumber
  SieveIsExact
  HeaderTellsSize
  PoolUnderstands
