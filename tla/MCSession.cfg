SPECIFICATION Spec
CONSTANT MaxRead = 3
INVARIANTS FreedOnce ContextFollowsEvent OutlivesToSend Delivered
CHECK_DEADLOCK FALSE
