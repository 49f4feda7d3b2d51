CONSTANTS
  View = View
  None = None
  o1 = o1
  o2 = o2
  o3 = o3
  Objects = {View, o1, o2, o3}
  Constrainers = {}
  Looseners = {o2}
  SelfSized = {o3}
  Configurable = {}
  Painted = {o3}
  Hiders = {o1}
  MaxResizes = 1
  Removes = TRUE
  MaxListed = 2
  Detached = FALSE
SPECIFICATION PipelineSpec
CHECK_DEADLOCK FALSE
INVARIANTS RequestsAreKept NeverPanics
