\* Three sources, one of two claims.
\* The corpus rests when nothing is derived, groomed or withdrawn.
SPECIFICATION Spec
CONSTANTS
  Source = {s1, s2, s3}
  AuthorOf <- OneAuthor
  Unsigned = {s1, s2, s3}
  Long = {s1}
  Again = {}
  NoAuthor = NoAuthor
  MaxCandidates = 2
  Sizes <- LongOrShort
  MaxRuns <- OnceOrTwice
  MaxMerges = 1
  MaxCrashes = 0
  OneWriter = TRUE
  NoRow = NoRow
  NoNote = NoNote
  Nobody = Nobody
INVARIANT WithdrawnStaysSilent
CHECK_DEADLOCK FALSE
