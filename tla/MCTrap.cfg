SPECIFICATION Spec
CONSTANTS
  idle = idle
  boot = boot
  Tasks = {A, B, idle}
  kBody = 2
  Val = {1}
  Args <- MCArgs
  kInterval = 2
  TF_SIZE = 288
  StackSize <- MCStackSize
  Installs = TRUE
INVARIANTS TypeOK SavedRegistersSurvive InterruptsOn FramesFit
PROPERTY TrapsInvisible
SYMMETRY Symmetry
CHECK_DEADLOCK FALSE
