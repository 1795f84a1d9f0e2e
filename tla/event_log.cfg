SPECIFICATION Spec
CONSTANTS
  e1 = e1
  e2 = e2
  e3 = e3
  e4 = e4
  e5 = e5
  s1 = s1
  s2 = s2
  w1 = w1
  w2 = w2
  Writers = {w1, w2}
  Batches <- MCBatches
  SeedBatch <- MCSeed
  Garbled = Garbled
  None = None
  Backends = {"s3", "jsonl"}
  MaxLines = 6
\* the stock of batches runs out
CHECK_DEADLOCK FALSE
SYMMETRY MCSymmetry
INVARIANTS
  AcknowledgedBatchesSurvive
  NothingRecordedTwice
PROPERTY
  LogOnlyGrows
