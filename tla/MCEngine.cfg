\* The whole life of the engine, with up to four events.
CONSTANTS
  Events = {e1, e2}
  MaxEvents = 4
SPECIFICATION FairSpec
INVARIANTS
  TypeOK
  NeverCrashes
  CalledAreUp
  EventsWithinAFrame
  CleanExit
PROPERTY
  CloseEnds
