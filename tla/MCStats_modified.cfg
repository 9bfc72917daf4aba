SPECIFICATION Spec
CONSTANTS
  last = last
  gun = gun
  car = car
  ngpc = ngpc
  tag = tag
  ghost = ghost
  empty = empty
  long = long
  garbled = garbled
  none = none
  Stat = {last, gun, car, ngpc}
  Strings = {}
  Foreign = {empty}
  Early = {}
  Value <- OwnValue
  Playable <- OwnPlayable
  UserFiles <- OwnFiles
  EmptyHash = empty
  LastChar = last
  Ngpc = {ngpc}
  Online = {last, gun, car, ngpc}
  RawChar <- MCRawChar
  Long = long
  Garbled = garbled
  NoEntry = none
  Readable = {TRUE, FALSE}
  ReadOnly = {}
PROPERTY ModifiedStatsSaved
