\* A worker and two executor threads, two artifacts of one stage.
SPECIFICATION DashFairSpec
CONSTANTS
  Stage <- Stages1
  SourceType = {"email"}
  ResourceClass <- Classes
  STAGE_RESOURCE <- AllCheap1
  CHAINS <- Chains1
  NoStage = NoStage
  Artifact = {a1, a2}
  SourceOf <- Emails
  MaxAttempts = 1
  ClaimWindow = 25
  Worker = {w1}
  Cli = {}
  Thread = {t1, t2}
  NoJob = NoJob
  WorkerClass <- CheapWorkers
  Commands = {"enqueue", "retry"}
  Careful = FALSE
  Pausable <- NoKeys
  Throttled <- NoKeys
  Limits = {}
  MaxCommands = 2
  MaxCrashes = 0
INVARIANT InflightIsWork
INVARIANT EveryModelIsToldToStop
PROPERTY EnqueuedIsDealtWith
