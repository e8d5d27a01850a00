SPECIFICATION Spec
CONSTANTS
  NULL = NULL
  Key <- MCKey
  Hash <- MCHash
  Value <- MCValue
  DefaultCap = 2
  MaxCount = 5
INVARIANTS LoadBounded WalkComplete
PROPERTIES IsMap StraysOnlyByBit FreedAsLeft
CHECK_DEADLOCK FALSE
