SPECIFICATION NLiveSpec
CONSTANTS
  kMaxTasks = 5
  Entries = {task_A}
  Stacks = {k1, k2, k3}
  idle_task_entry = idle_task_entry
  s_idle_stack = s_idle_stack
  boot_stack = boot_stack
  NULL = NULL
  m_head = head
INVARIANTS
  TypeOK ReadyQueueExact CpuRunsCurrent ResumeIntact IdleStrandsAtMostOne
  NoSecondTurnFirst LinksAreQueue
PROPERTIES HandlesNeverDangle EveryReadyTaskRuns
