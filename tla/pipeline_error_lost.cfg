SPECIFICATION Spec
CONSTANTS
  ChunkCount = 4
  BatchStarts <- MCBatchStarts
  InputSize <- MCInputSize
  OutputSize <- MCOutputSize
  MaxPendingProcessSize = 2
  MaxPendingOutputSize = 2
INVARIANT
  FailureReported
