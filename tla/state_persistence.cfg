\* One chat, three names for two places, a channel of three, failing writes, a restart.
CONSTANTS
  Chats = {c1}
  NoChat = NoChat
  Names = {k1, k2, k3}
  MaxNamed = 2
  QueueCap = 3
  Debounce = 3
  MaxMark = 2
  MaxPrompts = 3
  MaxStops = 1
  FsFaults = TRUE
SPECIFICATION Spec
SYMMETRY Symmetric
INVARIANT CleanFlagExact
INVARIANT NoDrift
INVARIANT ForcedIsDurable
INVARIANT CleanStopKeepsSessions
PROPERTY WatermarkNeverRegresses
\* A process that has stopped for good takes no step.
CHECK_DEADLOCK FALSE
