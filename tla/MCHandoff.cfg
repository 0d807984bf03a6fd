\* Three threads with timeouts on a semaphore build: two may sleep while the
\* third transfers, times out or closes.  Threads may all exit, or park behind
\* one that has exited, so the system may stop.
CONSTANTS
  NoThread = NoThread
  Threads = {t1, t2, t3}
  CountingGate = TRUE
SYMMETRY Symmetry
CHECK_DEADLOCK FALSE
SPECIFICATION Spec
INVARIANTS
  TypeOK
  NoLostWakeup
  LockNeverBlocksGilHolder
  GateBounded
  NeverAllAsleep
PROPERTIES
  ImplementsBaton
