SPECIFICATION FairSpec
CONSTANTS
  r1 = r1
  r2 = r2
  Nobody = Nobody
  Requests = {r1, r2}
  ToolFailures <- AllFailures
  Retention = 0
  MaxClock = 1
  AuditMayFail = TRUE
  MaxRestarts = 1
INVARIANTS TypeOK AnsweredIsAudited AuditTellsReply RefusalReachesClient MetricsMatchAudit SnapshotConsistent
PROPERTIES EveryRequestEnds
