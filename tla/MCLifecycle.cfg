SPECIFICATION LifeSpec
CONSTANTS
  unmodified = unmodified
  names = names
  fsl = fsl
  Odd = Odd
  Missing = Missing
  Options <- MCOptions
  UserFiles <- MCUserFiles
  StackLimit = 3
INVARIANTS
  LifeTypeOK
  RecursesOnce
  ChoiceKept
  FaultsOnlyInWindows
  UnwindsUnused
PROPERTIES
  CompleteUntouched
  StartRuns
  ShutdownEnds
