SPECIFICATION Spec
CONSTANTS
  None = None
  Desk = Desk
  FileAnalysis = FileAnalysis
  FaceMatch = FaceMatch
  Normalize = Normalize
  names = names
  duplicates = duplicates
  positions = positions
  profiles = profiles
  Check = {names, duplicates}
  Cleanup = {Normalize, profiles}
  Saving = {duplicates}
  Refreshed = {duplicates}
  Requested = {names, duplicates}
  Incident = {"stop", "review", "stale", "error", "restart"}
  Starter = {s1, s2}
  Run = {r1, r2}
SYMMETRY Interchangeable
INVARIANTS
  ScanShown
  LockInUse
  ScansAlone
