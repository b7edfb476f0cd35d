\* Three claims on a line, one withdrawn and derived again, one kill. A pass
\* may always be warmed, so deadlock is checked.
SPECIFICATION GroomSpec
CONSTANTS
  s1 = s1
  s2 = s2
  s3 = s3
  Source <- ThreeSources
  AuthorOf <- OwnAuthors
  Again = {s2}
  NoAuthor = NoAuthor
  MaxCandidates = 1
  Sizes <- OneEach
  MaxRuns <- OnceOrTwice
  MaxMerges = 3
  MaxCrashes = 1
  OneWriter = TRUE
  NoRow = NoRow
  NoNote = NoNote
  Nobody = Nobody
  Judge = {"v2"}
  Threshold = {1, 2}
  Distance <- OnALine
  ShortlistK = 2
INVARIANT WarmedPlansAreFree
PROPERTY ImplementsCorpus
PROPERTY NothingIsLost
