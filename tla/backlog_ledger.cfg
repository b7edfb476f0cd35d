\* One scan at a time, two ingestions, one of them killed.
\* Everything rests when no command is left to give.
SPECIFICATION Spec
CONSTANTS
  Stage = {"source_note"}
  SourceType = {"email"}
  ResourceClass = {"cheap"}
  STAGE_RESOURCE <- Cheap
  CHAINS <- Chain
  NoStage = NoStage
  Artifact = {"article"}
  SourceOf <- Emails
  MaxAttempts = 1
  ClaimWindow = 25
  edition = edition
  again = again
  anonymous = anonymous
  empty = empty
  Item <- Messages
  Mail <- Messages
  MessageId <- Ids
  TextOf <- Texts
  CutText <- Pieces
  AuthorKey <- Authors
  SentAt <- Times
  Scanner = {s1}
  Ingestor = {i1, i2}
  Direct <- Directly
  Limits = {1, 25}
  MaxCommands = 3
  MaxCrashes = 1
  NoId = NoId
  NoText = NoText
  NoItem = NoItem
  NoEntry = NoEntry
  NoBatch = NoBatch
  NoTriage = NoTriage
SYMMETRY Symmetry
INVARIANT BacklogTypeOK
INVARIANT ScanIsComplete
INVARIANT EditionCountedOnce
INVARIANT IngestedIsQueued
INVARIANT LedgerKnowsItsWork
CHECK_DEADLOCK FALSE
