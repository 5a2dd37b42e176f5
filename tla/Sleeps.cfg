SPECIFICATION Spec
CONSTANTS
  os = os
  t1 = t1
  i1 = i1
  d1 = d1
  d2 = d2
  d3 = d3
  f1 = f1
  f2 = f2
  Tasks <- TheTasks
  Irqs <- TheIrqs
  PMU_OS = os
  Devices <- Drivers
  Funs <- Functions
  MAX_PSM_DD_HOOK_INFO_SIZE = 2
  TickUs = 3
  Word = 11
  MaxTicks = 2
  MaxSleeps = 2
SYMMETRY Symmetry
INVARIANTS TypeOK AwakeWhileHeld SleepsWhenFree HooksCalled ClockKept
