\* What is left behind by a graceful stop.
CONSTANTS
  r1 = r1
  Nil = Nil
  Registries = {r1}
SPECIFICATION Spec
CHECK_DEADLOCK FALSE
INVARIANTS NothingLeftBehind
