SPECIFICATION FairSpec
CONSTANTS
  e1 = e1
  e2 = e2
  e3 = e3
  NoEvent = NoEvent
  Events = {e1, e2}
  MaxLine = 2
  SegmentMax = 3
  Retention = 2
  TicksPerDay = 2
  MaxClock = 3
  Faults = {"create", "createSync", "rename", "renameSync", "write", "appendSync", "unlink", "pruneSync", "crash"}
  MaxFaults = 2

PROPERTIES EveryCallReturns
