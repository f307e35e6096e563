\* Scenes as they are shipped and as they can be written by hand, two frames and
\* one call of the application. The engine stops for good after an exception, an
\* undefined read or its last frame.
CONSTANTS
  Files <- Written
  TypeOf <- Types
  AppClasses <- Classes
  Asks <- Needed
  Cursors <- Screen
  Positions = {0, 1}
  Limit = 2
  MaxEntities = 2
  MaxFrames = 2
  MaxCalls = 1
SPECIFICATION Spec
CHECK_DEADLOCK FALSE
INVARIANTS
  TypeOK
  NothingUndefined
  FrameComplete
  CursorCountedOnce
