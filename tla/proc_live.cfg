SPECIFICATION FairSpec
CONSTANTS
  NPROC = 3
  Cpu = {c0}
  Cpu0 = c0
  Sleeps <- OneSleeper
  Clock = clock
  Ticks = ticks
  None = none
PROPERTIES WaitReturns KilledExits
