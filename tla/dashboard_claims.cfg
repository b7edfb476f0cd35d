\* A worker and an executor thread over two stages of one artifact.
SPECIFICATION DashSpec
CONSTANTS
  Stage <- Stages2
  SourceType = {"email"}
  ResourceClass <- Classes
  STAGE_RESOURCE <- AllCheap2
  CHAINS <- Chains2
  NoStage = NoStage
  Artifact = {a1}
  SourceOf <- Emails
  MaxAttempts = 1
  ClaimWindow = 25
  Worker = {w1}
  Cli = {}
  Thread = {t1}
  NoJob = NoJob
  WorkerClass <- CheapWorkers
  Commands = {"enqueue", "hold", "release", "retry"}
  Careful = TRUE
  Pausable <- NoKeys
  Throttled <- NoKeys
  Limits = {}
  MaxCommands = 4
  MaxCrashes = 1
INVARIANT DashTypeOK
INVARIANT OneRunnerPerArtifact
PROPERTY ImplementsStageChain
