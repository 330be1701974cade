\* Two invocations, one of them killed, two failures of gen_cmake.py, one use of the unlock command.
SPECIFICATION Spec
CONSTANTS
  Invocations = {i1, i2}
  Modes = {debug, release}
  Projects <- MCProjects
  None = None
  Truncated = Truncated
  Top = Top
  Elsewhere = Elsewhere
  MaxFails = 2
  MaxKills = 1
  MaxUnlocks = 1
SYMMETRY Symmetry
INVARIANTS
  TypeOK
  LockHasHolder
  AloneBuildsOwnMode
  AwayAfterFailure
