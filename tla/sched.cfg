SPECIFICATION Spec
CONSTANTS
  NPROC = 3
  Cpu = {c0, c1}
  Policies = {"FCFS", "PBS"}
  Priority = {10}
  MaxTicks = 1
  Proc = {1, 2, 3}
  LastQue = 1
  AgeTicks = 1
  Main = {m1, m2}
  Handler = {h1, h2}
  MaxInterval = 3
  NPAGES = 2
  NoContext = none
  NENTRY = 5
  Pipe = {"p1", "p2"}
  Word = {"echo", "cat", "none", "f"}
  MAXARGS = 3
  Missing = {"none"}
  MaxFails = 1
  None = none
CHECK_DEADLOCK FALSE
INVARIANTS OneHart LeastKey AlarmRestores Wired
PROPERTIES NoStarvation PromptReturns
