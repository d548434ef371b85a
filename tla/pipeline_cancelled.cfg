SPECIFICATION Spec
CONSTANTS
  r1 = r1
  r2 = r2
  Nobody = Nobody
  Requests = {r1}
  ToolFailures <- AllFailures
  Retention = 1
  MaxClock = 0
  AuditMayFail = FALSE
  MaxRestarts = 0
INVARIANTS SuccessHadResult
