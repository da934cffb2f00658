------------------------------ MODULE IntakeMain ------------------------------
(***************************************************************************)
(* What DiscordIntake and TelegramPolling have in common: the messages a   *)
(* user posts, the channels into the main loop, and the main loop itself   *)
(* (main.rs) with handle_gap (wake.rs), which pauses the adapter, tells    *)
(* the chats, starts a catchup and resumes.  The n-th message is n.        *)
(***************************************************************************)
EXTENDS Naturals, Sequences

CONSTANTS MaxMsgs,      \* bound on the messages
          CmdCap,       \* capacity of the command channel
          StateCap,     \* capacity of the state channel
          MaxGaps,      \* bound on the sleeps
          MaxRestarts   \* bound on the restarts

VARIABLES
  posted,   \* the messages posted are 1..posted
  cmds,     \* the command channel
  states,   \* the state channel: watermarks or offsets
  saved,    \* the watermark or offset in the state file
  main,     \* the main loop: "loop", in handle_gap "gap", "resume", or "stuck"
  paused,   \* the pause watch channel
  signals,  \* the power channel: a GapDetected each
  gaps, restarts

Msgs == 1..MaxMsgs

worldVars == <<posted, gaps, restarts>>
mainVars == <<cmds, states, saved, main, paused, signals, gaps, restarts>>
\* What an adapter task that sends to main leaves alone.
idleMain == <<saved, main, paused, signals, gaps, restarts>>

MainInit ==
  /\ cmds = <<>> /\ states = <<>>
  /\ main = "loop" /\ paused = FALSE /\ signals = <<>>
  /\ gaps = 0 /\ restarts = 0

(* The host wakes from a sleep, and the detector finds the gap.            *)
Wakes ==
  /\ gaps < MaxGaps /\ gaps' = gaps + 1
  /\ signals' = Append(signals, gaps')
  /\ UNCHANGED <<cmds, states, saved, main, paused, restarts>>

(* The process dies or is stopped, and is started again.                   *)
MainRestarts ==
  /\ restarts < MaxRestarts /\ restarts' = restarts + 1
  /\ cmds' = <<>> /\ states' = <<>>
  /\ main' = "loop" /\ paused' = FALSE /\ signals' = <<>>
  /\ UNCHANGED <<saved, gaps>>

(* The biased select: signals, then states, then commands.                 *)
StartGap ==
  /\ main = "loop" /\ main' = "gap"
  /\ signals # <<>> /\ signals' = Tail(signals)
  /\ paused' = TRUE
  /\ UNCHANGED <<cmds, states, saved, gaps, restarts>>

TakeState ==
  /\ main = "loop" /\ signals = <<>>
  /\ states # <<>> /\ states' = Tail(states)
  /\ UNCHANGED <<cmds, main, paused, signals, gaps, restarts>>

TakeCommand ==
  /\ main = "loop" /\ signals = <<>> /\ states = <<>>
  /\ cmds # <<>> /\ cmds' = Tail(cmds)
  /\ UNCHANGED <<states, saved, main, paused, signals, gaps, restarts>>

(* The handler of a command may never come back: chat sends have no        *)
(* timeout on Discord, nor has the wait for a harness's stderr.            *)
Hang ==
  /\ main = "loop" /\ main' = "stuck"
  /\ signals = <<>> /\ states = <<>> /\ cmds # <<>> /\ cmds' = Tail(cmds)
  /\ UNCHANGED <<states, saved, paused, signals, gaps, restarts>>

(* The acks of the banners have come or timed out; catchups are spawned.   *)
Spawn ==
  /\ main = "gap" /\ main' = "resume"
  /\ UNCHANGED <<cmds, states, saved, paused, signals, gaps, restarts>>

Resume ==
  /\ main = "resume" /\ main' = "loop"
  /\ paused' = FALSE
  /\ UNCHANGED <<cmds, states, saved, signals, gaps, restarts>>

Send(m) == Len(cmds) < CmdCap /\ cmds' = Append(cmds, m) /\ UNCHANGED <<states, idleMain>>

==============================================================================
