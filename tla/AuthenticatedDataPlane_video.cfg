SPECIFICATION KeySpec
CONSTANTS
  WordBits = 2
  WindowSize = 5
  Opener = "java"
  MaxCounter = 7
  Masks = {0, 1, 2}
CHECK_DEADLOCK FALSE
INVARIANTS NonceUsedOnce ButtonsReleased
PROPERTIES ImplementsChannel
