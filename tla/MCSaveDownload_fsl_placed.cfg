SPECIFICATION Spec
CONSTANTS
  Slot <- MCSlot
  NoSlot = NoSlot
  PsoBuffer = PsoBuffer
  main = main
  char = char
PROPERTY FslLoadedIfPlaced
