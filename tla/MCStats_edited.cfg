SPECIFICATION Spec
CONSTANTS
  last = last
  gun = gun
  car = car
  ngpc = ngpc
  tag = tag
  ghost = ghost
  empty = empty
  long = long
  garbled = garbled
  none = none
  Stat = {last, gun, tag}
  Strings = {tag}
  Foreign = {ghost, empty}
  Early = {gun}
  Value <- EditValue
  Playable <- EditPlayable
  UserFiles <- EditFiles
  EmptyHash = empty
  LastChar = last
  Ngpc = {}
  Online = {last, tag}
  RawChar <- MCRawChar
  Long = long
  Garbled = garbled
  NoEntry = none
  Readable = {TRUE, FALSE}
  ReadOnly = {2}
INVARIANTS
  TypeOK
  DefaultSettled
PROPERTIES
  SaveKeepsRead
  EndCostsOneFile
  ImplementsStore
  LoadPrecedence
