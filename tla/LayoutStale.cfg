CONSTANTS
  View = View
  None = None
  o1 = o1
  o2 = o2
  o3 = o3
  Objects = {View, o1, o2, o3}
  Constrainers = {}
  Looseners = {}
  SelfSized = {}
  Configurable = {o1, o2, o3}
  Painted = {}
  Hiders = {}
  MaxResizes = 0
  Removes = FALSE
  MaxListed = 2
  Detached = FALSE
SPECIFICATION PipelineSpec
CHECK_DEADLOCK FALSE
INVARIANT SettledIsLaidOut
