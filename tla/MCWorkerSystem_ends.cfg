SPECIFICATION FairSystem
CONSTANTS
  None = None
  w1 = w1
  j1 = j1
  image = image
  vector = vector
  JobType = {image, vector}
  TypeOf <- MCTypeOf
  OriginOf <- MCOriginOf
  Supports <- MCSupports
  TokenId = {adm}
  Priority = {1}
  TerminalRetention = 1
  EnrollmentLifetime = 1
  EnrollmentRetention = 1
  PersistInterval = 1
  MaxClock = 0
  Worker = {w1}
  Job = {j1, j2}
  Operation = {j1, j2}
  Token = {t1}
  Enrollment = {}
  Code = {}
  Thread = {th1}
  MaxFaults = 1
  MaxInterventions = 1
  Patient = {j1}
INVARIANTS
  DeliveredIsProduced
  DeliveredIsGone
PROPERTIES
  CalmDelivery
  DispatchEnds
