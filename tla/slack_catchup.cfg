\* Two messages, pages of one, a window of one, two sleeps, one restart, failing requests.
CONSTANTS
  MaxMsgs = 2
  PageSize = 1
  WindowCap = 1
  CmdCap = 1
  StateCap = 1
  MaxGaps = 2
  MaxRestarts = 1
  HttpFaults = TRUE
SPECIFICATION FairSpec
INVARIANT EmittedOnce
INVARIANT GapCovered
PROPERTY CatchupEnds
\* When the bounds are reached and everything is handled nothing is left to do.
CHECK_DEADLOCK FALSE
