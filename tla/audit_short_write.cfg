SPECIFICATION Spec
CONSTANTS
  e1 = e1
  e2 = e2
  e3 = e3
  NoEvent = NoEvent
  Events = {e1, e2}
  MaxLine = 2
  SegmentMax = 3
  Retention = 2
  TicksPerDay = 2
  MaxClock = 2
  Faults = {"write"}
  MaxFaults = 1

INVARIANTS AckedKept
