SPECIFICATION Spec
CONSTANTS
  Room = 2
  MaxArrived = 2
  MaxOut = 3
  MaxWrites = 4
INVARIANTS NoSpin
PROPERTIES Heard SentIfHeard
CHECK_DEADLOCK FALSE
