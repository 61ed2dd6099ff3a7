SPECIFICATION Spec
CONSTANTS
  idle = idle
  boot = boot
  Tasks = {A, idle}
  kBody = 2
  Val = {1}
  Args <- MCExitArgs
  kInterval = 2
  TF_SIZE = 288
  StackSize <- MCStackSize
  Installs = FALSE
INVARIANT VectorInstalled
CHECK_DEADLOCK FALSE
