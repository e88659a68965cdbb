SPECIFICATION Spec
CONSTANTS
  NPROC = 2
  Cpu = {c0, c1}
  Cpu0 = c0
  Sleeps <- NoSleeps
  Clock = clock
  Ticks = ticks
  None = none
INVARIANT KilledInUse
