\* A contract is registered anew while its old record is scanned.
CONSTANTS
  a1 = a1  e1 = e1
  Nil = Nil
  Contracts = {a1}
  Topics = {e1}
  Filters = {}
  Confirmations = 0
  MaxBlockRange = 2
  StartBlocks = {0}
  Overlaps = TRUE
  MaxBlock = 2
SPECIFICATION Spec
INVARIANTS ProgressIsPublished
