SPECIFICATION SystemSpec
CONSTANTS
  None = None
  w1 = w1
  j1 = j1
  image = image
  vector = vector
  JobType = {image, vector}
  TypeOf <- MCTypeOf
  OriginOf <- MCOriginOf
  Supports <- MCAllSupport
  TokenId = {}
  Priority = {1}
  TerminalRetention = 1
  EnrollmentLifetime = 1
  EnrollmentRetention = 1
  PersistInterval = 1
  MaxClock = 1
  Worker = {w1, w2}
  Job = {j1}
  Operation = {j1}
  Token = {t1, t2}
  Enrollment = {e1}
  Code = {c1, c2}
  Thread = {th1}
  MaxFaults = 1
  MaxInterventions = 1
  Patient = {}
SYMMETRY SymmetricCodes
INVARIANTS
  RunOnce
  TaskIsOwn
  HolderCanReport
  ClaimHasCredential
  OneTokenPerWorker
  CodeSpentOnce
PROPERTIES
  QueueSpec
CHECK_DEADLOCK FALSE
