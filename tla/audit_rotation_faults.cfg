SPECIFICATION Spec
CONSTANTS
  e1 = e1
  e2 = e2
  e3 = e3
  NoEvent = NoEvent
  Events = {e1, e2, e3}
  MaxLine = 2
  SegmentMax = 3
  Retention = 2
  TicksPerDay = 2
  MaxClock = 4
  Faults = {"create", "createSync", "rename", "renameSync", "unlink", "pruneSync", "crash"}
  MaxFaults = 2
SYMMETRY Symmetry
INVARIANTS AckedKept OneDayPerFile
