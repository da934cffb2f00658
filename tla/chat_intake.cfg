\* A message of before and two new ones, of which one may be foreign, two sleeps, a
\* restart, full channels, and pages, a cap and a window of one, which may overflow.
CONSTANTS
  MaxMsgs = 3
  CmdCap = 1
  StateCap = 1
  MaxGaps = 2
  MaxRestarts = 1
  Foreigns = {{}, {2}}
  Watermarks = {1}
  PageSize = 1
  ReplayCap = 1
  WindowCap = 1
  Skips = {{}, {2}}
  PollLimit = 2
  MaxOffset = 8
  Strays = {0, 9}
  MaxFaults = 1
SPECIFICATION FairSpec
INVARIANT GotOnce
INVARIANT PassedOverLive
INVARIANT NothingForgotten
PROPERTY CatchupEnds
PROPERTY UpdatesArrive
\* When the bounds are reached and everything is handled nothing is left to do.
CHECK_DEADLOCK FALSE
