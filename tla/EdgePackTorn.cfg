CONSTANTS
  absent = absent
  Surfaces <- MCSurfaces
  Occurrences <- MCOccurrences
  NoEntity = absent
  Asked <- MCAsked
  Page <- PackPage
  PageZero <- FirstPage
  Content <- PackContent
  Class <- PackClass
  PageWords = 2
  Garbage = Garbage
  Capacities = {0, 1, 2, 3}
  MaxPoints = 5
  MaxMerged = 6
  TopK = 2
  HeadWords = 2
  MaxQueries = 3
  MaxFailures = 2
SPECIFICATION PackSpec
INVARIANT GivenPageIsExact
