\* Each server is started up to twice.
SPECIFICATION Spec
CONSTANTS
  MaxStarts = 2
INVARIANTS
  LogOutlivesItsUsers
  RunsComplete
  RecordsEndBeforeService
