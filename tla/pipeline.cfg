SPECIFICATION FairSpec
CONSTANTS
  ChunkCount = 4
  BatchStarts <- MCBatchStarts
  InputSize <- MCInputSize
  OutputSize <- MCOutputSize
  MaxPendingProcessSize = 2
  MaxPendingOutputSize = 2
INVARIANTS
  TypeOK
  DeliveredInOrder
  NothingCorruptDelivered
  OvershootByOneItem
PROPERTY
  DeliveryPromise
  Termination
  StopsPromptly
