\* A sleep, no restart; the window holds every message.
CONSTANTS
  MaxMsgs = 3
  CmdCap = 1
  StateCap = 1
  MaxGaps = 1
  MaxRestarts = 0
  Foreigns = {{}}
  Watermarks = {0}
  PageSize = 2
  ReplayCap = 3
  WindowCap = 3
SPECIFICATION Spec
INVARIANT DroppedIsReplayed
CHECK_DEADLOCK FALSE
