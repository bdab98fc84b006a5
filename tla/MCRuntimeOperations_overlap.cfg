SPECIFICATION Spec
CONSTANTS
  None = None
  Desk = Desk
  FileAnalysis = FileAnalysis
  FaceMatch = FaceMatch
  Normalize = Normalize
  names = names
  duplicates = duplicates
  positions = positions
  profiles = profiles
  Check = {names, positions}
  Cleanup = {Normalize, profiles}
  Saving = {}
  Refreshed = {}
  Requested = {Normalize, profiles, FaceMatch}
  Incident = {}
  Starter = {s1}
  Run = {r1, r2}
INVARIANTS
  OneOperation
