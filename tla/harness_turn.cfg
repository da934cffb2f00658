\* Every back end and every kind of request; three lines, two
\* tool calls, pairing and text buffers of one.
CONSTANTS
  Kinds = {"codex", "gemini", "opencode", "claude"}
  ToolIds = {1, 2}
  ToolOf <- MCToolOf
  Cap = 1
  BufCap = 1
  MaxLines <- MCMaxLines
  Requests <- MCRequests
SPECIFICATION FairSpec
INVARIANT DoneOnce
INVARIANT ChatFaithful
INVARIANT TurnTold
PROPERTY FilesOutlast
PROPERTY TurnEnds
