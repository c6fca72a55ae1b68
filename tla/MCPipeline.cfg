\* Two registries: the mutex of either holds up the events of both.
CONSTANTS
  a1 = a1  a2 = a2  e1 = e1
  Nil = Nil
  Contracts = {a1, a2}
  Topics = {e1}
  Filters = {}
  Confirmations = 0
  MaxBlockRange = 2
  StartBlocks = {0}
  Overlaps = FALSE
  MaxBlock = 3
  OperationQueued = e1
  InitBlock = 2
SPECIFICATION PipelineSpec
INVARIANTS PipelineTypeOK ListIsLatestPart HistoryIsPublished
PROPERTIES EventsArePublished ShutdownEndsListener OperationsAreListed DeliversEvents ShutdownIsBounded
