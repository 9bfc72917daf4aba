SPECIFICATION Spec
CONSTANTS
  Sigs = {1, 2}
  Size = 5
  Digit = {0, 1}
  Code <- MCCode
  Signature <- MCSignature
  Patch <- MCPatch
INVARIANTS
  PointersRight
PROPERTIES
  CodeGivenBack
CHECK_DEADLOCK FALSE
