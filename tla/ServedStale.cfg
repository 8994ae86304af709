\* One bounded run.
SPECIFICATION Spec
CONSTANTS
  None = None
  Configs <- Bounded
  MaxStart = 1
INVARIANT DoneMeansCompleted
CHECK_DEADLOCK FALSE
