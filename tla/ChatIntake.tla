------------------------------ MODULE ChatIntake ------------------------------
(***************************************************************************)
(* The intake of a terminus whose one chat platform is Discord or Telegram *)
(* (main.rs starts an adapter per configured platform): the adapter of     *)
(* DiscordIntake or TelegramPolling with the main loop of IntakeMain.      *)
(* Slack has a module of its own, SlackCatchup.                            *)
(***************************************************************************)
EXTENDS IntakeMain

CONSTANTS Foreigns, Watermarks, PageSize, ReplayCap, WindowCap,  \* see DiscordIntake
          Skips, PollLimit, MaxOffset, Strays, MaxFaults         \* see TelegramPolling

ASSUME SizesAssumption ==
  /\ {MaxMsgs, PollLimit, MaxOffset} \subseteq Nat
  /\ {PageSize, WindowCap} \subseteq Nat \ {0}
  /\ Watermarks \subseteq 0..MaxMsgs

VARIABLES
  platform,  \* the platform that is configured
  foreign, handler, window, lastSeen,
  catch, start, after, page, full, replayed, begun, lived, got, evicted,
  skipped, confirmed, poll, offset, batch, failures, faults, held, handed, sent

Discord  == INSTANCE DiscordIntake
Telegram == INSTANCE TelegramPolling

discordVars  == <<foreign, handler, window, lastSeen,
                  catch, start, after, page, full, replayed, begun, lived, got,
                  evicted>>
telegramVars == <<skipped, confirmed, poll, offset, batch, failures, faults,
                  held, handed, sent>>
vars == <<platform, posted, mainVars, discordVars, telegramVars>>

(* The variables of the platform that is not there.                        *)
NoDiscord ==
  /\ foreign = {} /\ handler = [m \in Msgs |-> "none"] /\ window = <<>> /\ lastSeen = 0
  /\ catch = "idle" /\ start = 0 /\ after = 0 /\ page = <<>> /\ full = FALSE /\ replayed = 0
  /\ begun = {} /\ lived = {} /\ got = [m \in Msgs |-> 0] /\ evicted = got

NoTelegram ==
  /\ skipped = {} /\ confirmed = 0 /\ poll = "gate" /\ offset = 0 /\ batch = <<>>
  /\ failures = 0 /\ faults = 0 /\ held = 0 /\ handed = {} /\ sent = [m \in Msgs |-> 0]

Init ==
  \/ platform = "discord" /\ Discord!Init /\ NoTelegram
  \/ platform = "telegram" /\ Telegram!Init /\ NoDiscord

DiscordStep  == platform = "discord" /\ Discord!Next /\ UNCHANGED <<platform, telegramVars>>
TelegramStep == platform = "telegram" /\ Telegram!Next /\ UNCHANGED <<platform, discordVars>>

Next == DiscordStep \/ TelegramStep

Spec == Init /\ [][Next]_vars

(* The steps of a task, with the rest of the composition.                  *)
Of(p, others, A) == platform = p /\ A /\ UNCHANGED <<platform, others>>

(* The tasks are scheduled.  Telegram's client has a timeout; its requests *)
(* are answered, or fail MaxFaults times.  Nothing of the kind is assumed  *)
(* of Discord, or of the handlers of commands (Unanswered, MainHangs).     *)
FairSpec ==
  /\ Spec
  /\ WF_vars(Of("discord", telegramVars, Discord!Main))
  /\ WF_vars(Of("discord", telegramVars, Discord!Catchup))
  /\ WF_vars(Of("telegram", discordVars, Telegram!Main))
  /\ WF_vars(Of("telegram", discordVars, Telegram!Answer))
  /\ WF_vars(Of("telegram", discordVars, Telegram!Polling))

------------------------------------------------------------------------------
TypeOK == IF platform = "discord" THEN Discord!TypeOK ELSE Telegram!TypeOK

(* What a process gives main twice.  Discord: what the window had given up *)
(* for other messages in between, and nothing else, although gateway tasks *)
(* and a catchup handle the same messages at the same time; Telegram:      *)
(* nothing, although the answer to a repeated poll has the same updates.   *)
GotOnce == Discord!GotOnce /\ Telegram!HandedOnce

(* Discord: the watermark passes over a message that nobody handled only   *)
(* because a later one came over the gateway.                              *)
PassedOverLive == Discord!PassedOverLive

(* Discord: a catchup ends, unless a request of its is never answered, or  *)
(* a handler never comes back to read the commands it sends.               *)
CatchupEnds == []<>(catch \in {"idle", "stalled"} \/ main = "stuck")

(* Telegram: the server forgets no update that was not handed to main.     *)
NothingForgotten == Telegram!NothingForgotten

(* Telegram: every update of the user is handed to main in the end, unless *)
(* a handler never comes back.                                             *)
UpdatesArrive == []<>(platform = "telegram" => Telegram!AllHanded \/ main = "stuck")
==============================================================================
