SPECIFICATION FairSpec
CONSTANTS
  Base = 4
  Forms <- MCForms
  Cuttable <- MCCuttable
  Riecoin = 3
  MaxReason = 8
  MaxText = 9
  HashSize = 1
  MaxCoinBase = 1
  MaxTx = 1
  BufferSize = 64
  MaxRejected = 1
INVARIANTS
  TypeOK
  TransactionsOnWholeBlock
PROPERTIES
  EffectsAsPromised
  UpdatesAsAssumed
  PingsContinue
