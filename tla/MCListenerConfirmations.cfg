\* One confirmation is required: skipped events are lost.
CONSTANTS
  a1 = a1  e1 = e1
  Nil = Nil
  Contracts = {a1}
  Topics = {e1}
  Filters = {}
  Confirmations = 1
  MaxBlockRange = 2
  StartBlocks = {0}
  Overlaps = FALSE
  MaxBlock = 3
SPECIFICATION FairSpec
PROPERTIES EventsArePublished
