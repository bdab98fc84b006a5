SPECIFICATION FairSpec
CONSTANTS
  None = None
  Find <- Faces
  KindOf <- SixKinds
  ImageOf <- SixImages
  Known = {2, 4, 5}
  Images = 2
  SkipUnknown = TRUE
  MaxStarts = 2
  MaxTrouble = 2
  MaxReviews = 1
INVARIANTS
  FoundIsKept
  ImagesCovered
  RunningIsWorked
PROPERTIES
  RunningEnds
CHECK_DEADLOCK FALSE
