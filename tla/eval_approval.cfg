\* A worker, a step command and the eval commands over one artifact, its
\* stage paused, resumed and asked for again; one command or process killed.
SPECIFICATION EvalSpec
CONSTANTS
  Stage <- EvalStages
  SourceType = {"email"}
  ResourceClass <- EvalClasses
  STAGE_RESOURCE <- EvalResource
  CHAINS <- EvalChains
  NoStage = NoStage
  Artifact = {a1}
  SourceOf <- EvalEmails
  MaxAttempts = 1
  ClaimWindow = 25
  Worker = {w1}
  Cli = {c1}
  Thread = {}
  NoJob = NoJob
  WorkerClass <- EvalWorkers
  Commands = {"pause", "hold", "release", "retry_stage", "step", "eval", "approve"}
  Careful = TRUE
  Pausable <- PauseExtraction
  Throttled <- NoScopes
  Limits = {}
  MaxCommands = 5
  MaxCrashes = 1
  EvalStage = "extract_claims"
  InUse = InUse
  Other = Other
  Path = {InUse, Other}
  DefaultPath = InUse
  Variants <- TwoVariants
  NoPath = NoPath
  NoOutput = NoOutput
INVARIANT EvalTypeOK
INVARIANT PathsLead
INVARIANT InputIsOutput
PROPERTY CommitsTheApproved
PROPERTY ImplementsStageChain
