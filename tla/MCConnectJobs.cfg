SPECIFICATION FairSpec
CONSTANTS
  Requests = {r1, r2}
  Jobs = {j1, j2}
  UserJobs = {j1}
  NoRequest = NoRequest
CONSTRAINT UsersWithoutFaults
INVARIANTS
  TypeOK
  ActiveJobHasWorker
  JobAgreesWithRun
  AcceptedFileStays
  NoLeakedImport
PROPERTIES
  NoJobAfterStop
  ServedJobEnds
