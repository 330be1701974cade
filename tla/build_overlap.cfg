\* Two invocations, nobody interrupts them or removes the lock.
SPECIFICATION Spec
CONSTANTS
  Invocations = {i1, i2}
  Modes = {debug, release}
  Projects <- MCProjects
  None = None
  Truncated = Truncated
  Top = Top
  Elsewhere = Elsewhere
  MaxFails = 0
  MaxKills = 0
  MaxUnlocks = 0
INVARIANTS
  OneAtATime
