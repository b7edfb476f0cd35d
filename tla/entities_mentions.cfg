\* Two sources, one of them derived again, up to two candidates each.
\* The stage rests when no pass is left to begin.
SPECIFICATION Spec
CONSTANTS
  Source = {s1, s2}
  Name = {n1, n2}
  Type = {"company", "tool"}
  Id <- Ids
  IdFor <- OneSlug
  MaxCandidates = 2
  Again = {s1}
  MaxRuns <- OnceOrMore
  MaxCrashes = 1
  OneWriter = TRUE
  NoRow = NoRow
  NoNote = NoNote
  NoId = NoId
  NoCandidate = NoCandidate
SYMMETRY Symmetry
INVARIANT EntitiesTypeOK
INVARIANT MentionsAreCounted
INVARIANT OneEntityPerName
INVARIANT ResultIsTrue
PROPERTY MentionsAreKept
CHECK_DEADLOCK FALSE
