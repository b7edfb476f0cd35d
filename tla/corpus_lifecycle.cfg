\* Three sources, one of two claims, which is derived twice, one kill.
\* The corpus rests when nothing is derived, groomed or withdrawn.
SPECIFICATION Spec
CONSTANTS
  Source = {s1, s2, s3}
  AuthorOf <- OneAuthor
  Unsigned = {s3}
  Long = {s1}
  Again = {s1}
  NoAuthor = NoAuthor
  MaxCandidates = 2
  Sizes <- LongOrShort
  MaxRuns <- OnceOrTwice
  MaxMerges = 1
  MaxCrashes = 1
  OneWriter = TRUE
  NoRow = NoRow
  NoNote = NoNote
  Nobody = Nobody
INVARIANT CorpusTypeOK
INVARIANT RowsHaveNotes
INVARIANT CountNeverAhead
INVARIANT ClaimsKeepTheirOrigin
INVARIANT NotesAgreeWithRows
INVARIANT EverySurvivorLives
PROPERTY SupportIsKept
PROPERTY RetractionOfClaimsIsComplete
CHECK_DEADLOCK FALSE
