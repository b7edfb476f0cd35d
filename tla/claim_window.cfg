\* A claim window smaller than the number of paused rows, as 25 is when a
\* backlog of one source type is paused.
SPECIFICATION Spec
CONSTANTS
  Stage <- Stages1
  SourceType = {"email", "paste"}
  ResourceClass <- Classes
  STAGE_RESOURCE <- Resource1
  CHAINS <- Chains1
  NoStage = NoStage
  Artifact = {a1, a2}
  SourceOf <- EmailAndPaste
  MaxAttempts = 1
  ClaimWindow = 1
  Worker = {w1}
  Cli = {}
  Thread = {}
  NoJob = NoJob
  WorkerClass <- CheapWorkers
  Commands = {"pause"}
  Careful = FALSE
  Pausable <- PauseEmail
  Throttled <- NoKeys
  Limits = {}
  MaxCommands = 1
  MaxCrashes = 0
PROPERTY ClaimsWhatIsRunnable
