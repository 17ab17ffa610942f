SPECIFICATION KernelFairSpec
CONSTANTS
  MaxPID = 4
  NumPages = 1
  ExitCodes = {0}
  Nil = Nil
PROPERTIES
  StepRunsSomebody
