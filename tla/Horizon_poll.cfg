SPECIFICATION Spec
CONSTANTS
  MaxTx = 4
  PageLimit = 2
  MaxRetries = 3
  Malformed = {3}
INVARIANTS
  DeliveredOnce
  RetriesOnlyTransient
  FailuresAreJustified
PROPERTIES
  ImplementsSource
  PollReturns
