SPECIFICATION Spec
CONSTANTS
  Order <- TheOrder
  Plans <- AllPlans
  Wanted <- WantedPaths
  BlockedNames <- OnlyDB
  SkippedNames <- OnlyN
  Outside <- TheOutside
  AgentRequests <- Requests
  MaxFileBytes = 2
  MaxTotalBytes = 3
  Sources <- AllSources
  BanditBlocked <- OnlyDB
  BanditSkipped <- OnlyN
  MaxSourceBytes = 2
  MaxCopiedBytes = 3
  BanditLimit = 1
  Foreign = {0, 1}
  NestedNames <- OnlyN
  ConfigPath <- da
  AlternatesPath <- db
  MaxSnapshotBytes = 4
  MaxSnapshotEntries = 4
  MaxSnapshotDepth = 1
  MaxConfigBytes = 1
  Listable <- WantedOrDir
  MaxDirectoryEntries = 3
  PageLimits = {1, 2}
  Sites <- TheSites
  Names <- TheNames
  Eggs <- OnlyEgg
  NameOf <- TheNameOf
  MaxEntries = 3
  MaxMetadata = 2
  MaxDependencies = 2
  MaxPerDistribution = 2
  EnvPlans <- AllEnvironments
INVARIANTS TypeOK MissesNothing AddsUp QuietExact PagesExact MissingWasAbsent
