\* One registry, two certificates; calls may fail until things settle.
CONSTANTS
  r1 = r1
  h1 = h1  h2 = h2
  l1 = l1  l2 = l2
  Zero = Zero  Nil = Nil
  Registries = {r1}
  Certs = {h1, h2}
  Leaves = {l1, l2}
  MaxQueue = 3
  MaxRetries = 2
  PoolLimit = 2
SPECIFICATION SettledSpec
INVARIANTS TypeOK BuiltForTheHead OnlyTheHead
PROPERTIES MuIsReleased HoldIsBounded EveryOperationProcessed
