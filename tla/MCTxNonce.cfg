\* Two registries share the account: a reset re-issues a nonce in flight.
CONSTANTS
  w1 = w1  w2 = w2
  p1 = p1
  Nil = Nil
  Workers = {w1, w2}
  Payloads = {p1}
  MaxRetries = 3
  PoolLimit = 3
SPECIFICATION Spec
INVARIANTS NoncesAreDistinct
