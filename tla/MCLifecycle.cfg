\* Two registries.  The process stops when it has ended.
CONSTANTS
  r1 = r1  r2 = r2
  Nil = Nil
  Registries = {r1, r2}
SPECIFICATION FairSpec
CHECK_DEADLOCK FALSE
INVARIANTS TypeOK GracefulStopIsComplete CauseIsReported
PROPERTIES ShutdownEnds
