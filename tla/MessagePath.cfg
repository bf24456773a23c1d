SPECIFICATION Spec
CONSTANTS
  None = None
  Configurations <- AllConfigurations
INVARIANTS HandledAsWritten NothingElseLost ConnectionDelivers PrintedAsWritten
CHECK_DEADLOCK FALSE
