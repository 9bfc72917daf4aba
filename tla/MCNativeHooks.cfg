SPECIFICATION Spec
CONSTANTS
  Program = {p1, p2}
  NoProgram = NoProgram
  shop = shop
  other = other
  balance = balance
  session = session
  gone = gone
  ours = ours
  theirs = theirs
  Script = {shop, other}
  AllScripts = AllScripts
  Native = {balance, session, gone}
  Resolved = {balance, session}
  Detour = {ours, theirs}
  NoDetour = NoDetour
  Registered <- MCRegistered
INVARIANTS
  FaultsInWindows
  DtorFindsHook
  OwnTablesFreed
  HookedIsDetoured
CHECK_DEADLOCK FALSE
