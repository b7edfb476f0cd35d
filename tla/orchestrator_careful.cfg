\* Every command, given to quiet jobs; two workers compete for all stages of
\* one artifact; one crash.
SPECIFICATION Spec
CONSTANTS
  Stage <- Stages3
  SourceType = {"email"}
  ResourceClass <- Classes
  STAGE_RESOURCE <- AllCheap3
  CHAINS <- Chains3
  NoStage = NoStage
  Artifact = {a1}
  SourceOf <- Emails
  MaxAttempts = 2
  ClaimWindow = 25
  Worker = {w1, w2}
  Cli = {c1}
  Thread = {}
  NoJob = NoJob
  WorkerClass <- CheapWorkers
  Commands = {"reingest", "hold", "release", "retry", "retry_stage", "step"}
  Careful = TRUE
  Pausable <- NoKeys
  Throttled <- NoKeys
  Limits = {}
  MaxCommands = 4
  MaxCrashes = 1
SYMMETRY Symmetry
INVARIANT TypeOK
INVARIANT OneRunnerPerArtifact
INVARIANT PersistedBeforeAdvance
INVARIANT DeadLettered
INVARIANT NothingLost
INVARIANT NoStaleResult
PROPERTY ImplementsStageChain
