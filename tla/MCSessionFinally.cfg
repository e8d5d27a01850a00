SPECIFICATION Spec
CONSTANT MaxRead = 3
INVARIANTS FreedAsItself
CHECK_DEADLOCK FALSE
