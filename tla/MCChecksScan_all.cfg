SPECIFICATION FairSpec
CONSTANTS
  None = None
  Finding <- Findings
  ImageOf <- FindingImages
  Suggested = {1, 2}
  Images = 2
  MaxScans = 2
  MaxEvents = 2
INVARIANTS
  NothingForgotten
  ScanIsWorked
PROPERTIES
  ScanEnds
CHECK_DEADLOCK FALSE
