CONSTANTS
  Files <- Bodiless
  TypeOf <- Types
  AppClasses <- Classes
  Asks <- Needed
  Cursors <- Screen
  Positions = {0, 1}
  Limit = 2
  MaxEntities = 2
  MaxFrames = 2
  MaxCalls = 1
SPECIFICATION Spec
CHECK_DEADLOCK FALSE
INVARIANT MissingComponentIsNull
