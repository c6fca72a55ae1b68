\* Once things settle, both registries' operations are processed.
CONSTANTS
  r1 = r1  r2 = r2
  h1 = h1
  l1 = l1
  Zero = Zero  Nil = Nil
  Registries = {r1, r2}
  Certs = {h1}
  Leaves = {l1}
  MaxQueue = 1
  MaxRetries = 2
  PoolLimit = 2
SPECIFICATION SettledSpec
PROPERTIES EveryOperationProcessed
