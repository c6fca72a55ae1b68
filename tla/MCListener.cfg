\* Two contracts, registered and unregistered at any time.
CONSTANTS
  a1 = a1  a2 = a2  e1 = e1  e2 = e2
  Nil = Nil
  Contracts = {a1, a2}
  Topics = {e1, e2}
  Filters = {e1}
  Confirmations = 0
  MaxBlockRange = 2
  StartBlocks = {0, 1}
  Overlaps = FALSE
  MaxBlock = 3
SPECIFICATION Spec
SYMMETRY ListenerSymmetry
INVARIANTS TypeOK ExactlyOnceInOrder
