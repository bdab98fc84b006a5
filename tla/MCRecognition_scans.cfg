SPECIFICATION Spec
CONSTANTS
  Face <- MCFace
  PersonOf <- MCPersonOf
  ImageOf <- MCImageOf
  Known <- MCKnown
  Absent <- MCAbsent
  Notable <- MCNotable
  Safe <- MCSafe
  Batch = 2
  Limit = 2
  visible_only = visible_only
  with_hidden = with_hidden
  Key <- MCKey
  NoKey = NoKey
  MaxStarts = 2
  MaxTrouble = 1
  MaxReviews = 1
INVARIANTS
  NothingSkipped
  ExcludedStaysOut
SYMMETRY Symmetry
CHECK_DEADLOCK FALSE
