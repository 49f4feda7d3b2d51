SPECIFICATION Spec
CONSTANTS
  Windows = {w1}
  Sync = Sync
  MaxConfigures = 1
  Stalls = TRUE
  Hangups = TRUE
CHECK_DEADLOCK FALSE
INVARIANTS RequestIsAnnounced PollsInTurn CleanEnd OneCallback
PROPERTIES FrameIsDrawn RunReturns
