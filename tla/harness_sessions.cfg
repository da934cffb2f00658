\* Three harnesses, two names, an index of two.
CONSTANTS
  ValidNames = {"a", "b", "t"}
  Registered = {"claude", "codex", "opencode"}
  Messages <- MCMessages
  Blocked = {"rm"}
  Dirs = {"d1", "d2"}
  MaxNamed = 2
  Indexes <- MCIndexes
  OldConvs <- MCOldConvs
  MaxConvs = 3
  Groups <- MCGroups
  Prompts <- MCPrompts
SPECIFICATION RoutingSpec
INVARIANT OwnConversation
INVARIANT PromptWhole
PROPERTY Continues
