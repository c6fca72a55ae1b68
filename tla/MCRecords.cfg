\* One or two registries on the account; the node loses nothing.
CONSTANTS
  w1 = w1  w2 = w2
  p1 = p1  p2 = p2
  Nil = Nil
  Workers = {w1, w2}
  Payloads = {p1, p2}
  MaxRetries = 3
  PoolLimit = 3
SPECIFICATION RecordSpec
SYMMETRY WorkerSymmetry
INVARIANTS RecordTypeOK NoOrphanedGap NextNonceWhenAlone RecordTellsTransactions
PROPERTIES OneRecordEach
