SPECIFICATION SystemSpec
CONSTANTS
  None = None
  w1 = w1
  j1 = j1
  image = image
  vector = vector
  JobType = {image, vector}
  TypeOf <- MCTypeOf
  OriginOf <- MCOriginOf
  Supports <- MCSupports
  TokenId = {adm}
  Priority = {1}
  TerminalRetention = 1
  EnrollmentLifetime = 1
  EnrollmentRetention = 1
  PersistInterval = 1
  MaxClock = 0
  Worker = {w1}
  Job = {j1}
  Operation = {j1}
  Token = {t1}
  Enrollment = {}
  Code = {}
  Thread = {th1}
  MaxFaults = 1
  MaxInterventions = 0
  Patient = {}
PROPERTIES
  ResultStays
