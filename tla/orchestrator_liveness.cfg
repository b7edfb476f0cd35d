\* One artifact, a worker for each of its two stages, no crash; pauses, holds,
\* releases, limits and retries at any time.
SPECIFICATION FairSpec
CONSTANTS
  Stage <- Stages2
  SourceType = {"email"}
  ResourceClass <- Classes
  STAGE_RESOURCE <- Resource2
  CHAINS <- Chains2
  NoStage = NoStage
  Artifact = {a1}
  SourceOf <- Emails
  MaxAttempts = 2
  ClaimWindow = 25
  Worker = {w1, w2}
  Cli = {}
  Thread = {}
  NoJob = NoJob
  WorkerClass <- OneEach
  Commands = {"hold", "release", "pause", "throttle", "retry"}
  Careful = FALSE
  Pausable <- PauseExtract
  Throttled <- PauseExtract
  Limits = {1}
  MaxCommands = 3
  MaxCrashes = 0
PROPERTY EveryArtifactSettles
