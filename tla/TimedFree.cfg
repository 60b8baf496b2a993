SPECIFICATION Spec
CONSTANT TimeoutSecs = 5
INVARIANTS
  TypeOK
  SuccessMeansFreed
  NoLostWakeup
  FrameOutlivesUse
  FailureMeansTimeout
PROPERTY Returns
