\* Two clients that come and go while applications log.
CONSTANTS
  Client = {c1, c2}
  Capacity = 5
  MaxEvents = 2
  MaxConnects = 3
SPECIFICATION Spec
INVARIANTS StateMatchesClients ConnectedIsTold InOrder NoSilentLoss LossIsTold BoundedRecursion LossIsReported
PROPERTY HandlerReturns
