\* A chat on each of two platforms, two gaps, a lagging broadcast, failing sends.
CONSTANTS
  t1 = t1
  s1 = s1
  Chats = {t1, s1}
  Platforms = {"telegram", "slack"}
  PlatformOf <- MCPlatformOf
  NoChat = NoChat
  Cap = 2
  MaxGaps = 2
  MaxEvents = 2
  SendFaults = TRUE
SPECIFICATION FairSpec
INVARIANT NoStaleAck
INVARIANT ToldOrMarked
PROPERTY AdaptersResume
\* When the bounds are reached and everything is delivered nothing is left to do.
CHECK_DEADLOCK FALSE
