SPECIFICATION Spec
CONSTANTS
  None = None
  w1 = w1
  w2 = w2
  j1 = j1
  j2 = j2
  o1 = o1
  o2 = o2
  image = image
  vector = vector
  JobType = {image, vector}
  Operation = {o1, o2}
  TypeOf <- MCTypeOf
  OriginOf <- MCOriginOf
  Supports <- MCSupports
  Worker = {w1, w2}
  Job = {j1, j2}
  Token = {t1}
  TokenId = {adm}
  Enrollment = {}
  Code = {}
  Thread = {th1, th2}
  Priority = {1}
  TerminalRetention = 1
  EnrollmentLifetime = 1
  EnrollmentRetention = 1
  PersistInterval = 1
  MaxClock = 1
SYMMETRY Symmetric
INVARIANTS
  ClaimedOnce
PROPERTIES
  CancelledIsFinal
  ClaimerSettles
  LifecycleSpec
  SubmissionsKeepResults
