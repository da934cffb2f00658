---------------------------- MODULE MCGapRecovery ----------------------------
(***************************************************************************)
(* GapRecovery on small instances.                                         *)
(***************************************************************************)
EXTENDS GapRecovery, TLC

CONSTANTS t1, s1   \* a chat of Telegram and one of Slack

MCPlatformOf == t1 :> "telegram" @@ s1 :> "slack"

(* Slack is enabled too, but has no chat.                                  *)
MCOneChat == t1 :> "telegram"
==============================================================================
