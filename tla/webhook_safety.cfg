\* Every fault: failing file operations, crashes, power losses, config changes.
CONSTANTS
  Jobs = {1, 2}
  Registries <- MCWebhookToggles
  MaxStops = 2
  FsFaults = TRUE
  PowerLoss = TRUE
  RetryAgeCap = TRUE
SPECIFICATION Spec
INVARIANT NoJobLost
PROPERTY Implements
\* A process that has shut down and reached MaxStops stays where it is.
CHECK_DEADLOCK FALSE
