\* What an exception leaves of the log.
CONSTANTS
  Events = {e1}
  MaxEvents = 1
SPECIFICATION Spec
INVARIANT FlushedOnException
