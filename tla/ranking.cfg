SPECIFICATION Spec
CONSTANTS
  Pools <- MCPools
  Sizes <- MCSizes
  ExpectedRows = 2
  TierCuts <- MCTierCuts
  RerankTopK = 2
  TournamentTopN = 3
  LlmTopK = 2
  LlmBatch = 1
  MaxIterations = 4
  MaxFaults = 1
INVARIANTS
  TypeOK
  SubmissionIsValid
  GatedAtBottom
  HeadIsPassing
  RetrievalRespectsDominance
  SubsetKeepsRetrieval
  TiersFollowRelevance
  TournamentRespectsDominance
  SkillNeverHurts
  ExhaustedLoopSawEveryone
CHECK_DEADLOCK FALSE
