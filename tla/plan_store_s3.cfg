SPECIFICATION S3Spec
CONSTANTS
  w1 = w1
  w2 = w2
  Writers = {w1, w2}
  Ids = {v1, v2}
  Versions <- MCVersions
  None = None
  Torn = Torn
  ConditionalWrites = TRUE
INVARIANTS
  StoreTypeOK
  HeadIsReadable
PROPERTIES
  VersionsAreImmutable
  NoCommitIsDiscarded
  ImplementsOptimisticHead
