\* A late issuance transaction carries out a revocation.
CONSTANTS
  r1 = r1
  h1 = h1
  l1 = l1
  Zero = Zero  Nil = Nil
  Registries = {r1}
  Certs = {h1}
  Leaves = {l1}
  MaxQueue = 2
  MaxRetries = 3
  PoolLimit = 2
SPECIFICATION QuietSpec
PROPERTIES ExecutedAsBuilt
