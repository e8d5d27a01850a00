SPECIFICATION Spec
CONSTANTS
  v1 = v1
  v2 = v2
  NULL = NULL
  Key <- MCKey
  Value <- MCValue
  DefaultCap = 2
INVARIANTS TypeOK SearchCorrect
PROPERTIES ImplementsMap CallsReturn
