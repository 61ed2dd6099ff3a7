SPECIFICATION LiveSpec
CONSTANTS
  idle = idle
  boot = boot
  Tasks = {A, idle}
  kBody = 2
  Val = {1}
  Args <- MCExitArgs
  kInterval = 3
  kStep = 1
  TF_SIZE = 288
  StackSize <- MCStackSize
  Installs = TRUE
PROPERTY PeriodicInterrupts
CHECK_DEADLOCK FALSE
