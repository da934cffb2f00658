\* Crashes and config changes, but no file operation fails.
CONSTANTS
  Jobs = {1, 2}
  Registries <- MCRegistries
  MaxStops = 1
  FsFaults = FALSE
  PowerLoss = FALSE
  RetryAgeCap = TRUE
SPECIFICATION FairSpec
INVARIANT NoStrandedJob
INVARIANT DeadLetterExplained
PROPERTY QueueDrains
PROPERTY WorkerReturns
\* A process that has shut down and reached MaxStops stays where it is.
CHECK_DEADLOCK FALSE
