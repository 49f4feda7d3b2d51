SPECIFICATION BuffersSpec
CONSTANTS
  Buffers = {b1, b2, b3}
  None = None
  Sizes = {small, large}
CHECK_DEADLOCK FALSE
INVARIANTS DrawsIntoFreeBuffer HeldIsMapped
