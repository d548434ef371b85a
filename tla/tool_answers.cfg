SPECIFICATION Spec
CONSTANTS
  MaxRecords = 2
  Branches <- MCBranches
  Worktrees <- MCWorktrees
  Histories <- MCHistories
  Changes <- MCChanges
  Logs <- MCLogs
  ContainerLogs <- MCWhole
  MaxLogSize = 14
  MaxLines = 2
  CutLimits = {1, 2, 3, 4}
  Data <- MCData
  OutputLimit = 20
  HostContainers <- MCHostContainers
  HubReplies <- MCHubReplies
  AgentTexts <- MCAgentTexts
  Commands <- MCCommands
  Files <- MCFiles
INVARIANTS GitAnswersExact NumbersAreOfTheFile EvidenceAddsUp ContainerLogsWhole ResponseIsTheData ResponsesFit ServiceListsHonest AgentFindingsExact McpFindingsExact
