\* One registry through the whole life of three certificates.  It stops
\* when all of them have been revoked.
CONSTANTS
  r1 = r1
  h1 = h1  h2 = h2  h3 = h3
  l1 = l1  l2 = l2  l3 = l3
  Zero = Zero
  Registries = {r1}
  Certs = {h1, h2, h3}
  Leaves = {l1, l2, l3}
  MaxQueue = 6
SPECIFICATION Spec
CHECK_DEADLOCK FALSE
INVARIANTS TypeOK PendingInTurn QueuedIsPending TreeMatchesStates
PROPERTIES KeepsPromise
