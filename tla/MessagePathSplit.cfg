SPECIFICATION Spec
CONSTANTS
  None = None
  Configurations <- SplitConfigurations
INVARIANT CompletedByNextRead
CHECK_DEADLOCK FALSE
