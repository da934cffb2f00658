\* One client that reuses ids and sends attachments; every channel holds one.
CONSTANTS
  c1 = c1
  c2 = c2
  a = a
  b = b
  NoId = NoId
  Conns = {c1}
  Ids = {a, b}
  Kinds = {"shell"}
  MaxPending = 2
  CmdCap = 1
  CancelCap = 1
  MaxRequests = 3
  MaxReplies = 1
SPECIFICATION FairSpec
INVARIANT AnswersWhole
INVARIANT NoAnswerLost
PROPERTY RequestsAnswered
\* After the exit nothing is left to do.
CHECK_DEADLOCK FALSE
