SPECIFICATION FairSpec
CONSTANTS
  Entry <- Entries
  TypeOf <- EntryTypes
  FileOf <- EntryFiles
  Types = 3
  Files = 2
  Batch = 2
  MaxJobs = 2
  MaxMishaps = 3
INVARIANTS
  EndedTogether
  FoundIsWritten
PROPERTIES
  AnalysisEnds
CHECK_DEADLOCK FALSE
