SPECIFICATION FairSpec
CONSTANTS
  Slot <- MCSlot
  NoSlot = NoSlot
  PsoBuffer = PsoBuffer
  main = main
  char = char
INVARIANTS
  ParsesRightBuffer
  NothingLeftBehind
  JsonNeverMixed
  SuccessHasSource
PROPERTIES
  ImplementsLoads
  OperationsFinish
  LocalLoadFinishes
