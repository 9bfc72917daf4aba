SPECIFICATION CurrencySpec
CONSTANTS
  last = last
  bank = bank
  wallet0 = wallet0
  wallet1 = wallet1
  empty = empty
  long = long
  garbled = garbled
  none = none
  Stat = {last, bank, wallet0, wallet1}
  Strings = {}
  Foreign = {empty}
  Early = {}
  Value <- MCValue
  Playable <- MCPlayable
  UserFiles <- MCUserFiles
  EmptyHash = empty
  LastChar = last
  Ngpc = {}
  Online = {last, bank, wallet0, wallet1}
  RawChar <- MCRawChar
  Long = long
  Garbled = garbled
  NoEntry = none
  Readable = {TRUE}
  ReadOnly = {}
  Bank = bank
  Wallets <- MCWallets
  Amounts <- MCAmounts
  Payments = {1}
  MaxMoney = 2
INVARIANTS
  NeverOverdrawn
PROPERTIES
  RestartRestores
  OverwriteNeverWritten
  SaveKeepsMoney
