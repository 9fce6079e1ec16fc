SPECIFICATION Spec
CONSTANT MaxInterrupts = 1
INVARIANT OneTurnAtATime
CHECK_DEADLOCK FALSE
