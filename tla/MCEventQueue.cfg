\* Receivers that register at any time and post from inside a call.
CONSTANTS
  Receivers = {r1, r2, r3}
  Events = {e1, e2}
  MaxEvents = 4
SPECIFICATION Spec
INVARIANTS
  LockStep
PROPERTIES
  UpdateDrains
  ImplementsEventLog
