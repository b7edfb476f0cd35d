\* A hold and a release of one artifact, given at the same time, next to a worker.
SPECIFICATION Spec
CONSTANTS
  Stage <- Stages2
  SourceType = {"email"}
  ResourceClass <- Classes
  STAGE_RESOURCE <- AllCheap2
  CHAINS <- Chains2
  NoStage = NoStage
  Artifact = {a1}
  SourceOf <- Emails
  MaxAttempts = 1
  ClaimWindow = 25
  Worker = {w1}
  Cli = {}
  Thread = {}
  NoJob = NoJob
  WorkerClass <- CheapWorkers
  Commands = {"hold", "release"}
  Careful = FALSE
  Pausable <- NoKeys
  Throttled <- NoKeys
  Limits = {}
  MaxCommands = 2
  MaxCrashes = 0
INVARIANT HeldMeansFrozen
