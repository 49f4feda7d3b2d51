SPECIFICATION Spec
CONSTANTS
  Widgets <- MCWidgets
  NoKey = "no key"
  MaxLength = 3
  MaxObjects = 4
INVARIANTS ChildrenRendered AdditionsKeepOrder
PROPERTIES KeysKeepElements OnePlaceChangeKeepsTheRest
CHECK_DEADLOCK FALSE
