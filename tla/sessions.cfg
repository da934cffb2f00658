\* Two names with a place each, and three lines between them, of which a poll
\* reads two.
CONSTANTS
  a = a
  b = b
  NoName = NoName
  Names = {a, b}
  MaxSessions = 2
  MaxSuffix = 2
  MaxPrinted = 3
SPECIFICATION SessionsFairSpec
INVARIANT ToldOnce
PROPERTY OutputTold
PROPERTY DeadForgotten
