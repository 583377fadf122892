SPECIFICATION Spec
CONSTANTS
  Jobs = {j1, j2}
  NoJob = NoJob
  MaxSpurious = 2
INVARIANTS
  NoLostWakeup
  IdleAfterSync
  DestroyedQuiet
  QuitsOnlyOnEnd
PROPERTIES
  ImplementsInterface
  CallsReturn
