------------------------------ MODULE SlackCatchup ------------------------------
(***************************************************************************)
(* Messages that reach terminus from a Slack channel after a sleep: live,  *)
(* over the Socket Mode WebSocket, and through run_catchup, which reads    *)
(* the channel's history (chat_adapters/slack.rs).  handle_gap (wake.rs)   *)
(* pauses the adapter, spawns the catchup and resumes; the main loop reads *)
(* the commands, but not while it is in handle_gap (main.rs).              *)
(*                                                                         *)
(* There is one channel, and terminus knows it.  A message is its ts: the  *)
(* n-th message posted is n.  A moment in time is the last message posted  *)
(* before it.                                                              *)
(***************************************************************************)
EXTENDS Naturals, Sequences, FiniteSets

CONSTANTS MaxMsgs,      \* bound on the messages
          PageSize,     \* limit of a conversations.history request
          WindowCap,    \* capacity of dedup_window
          CmdCap,       \* capacity of the command channel
          StateCap,     \* capacity of the state channel
          MaxGaps,      \* bound on the sleeps
          MaxRestarts,  \* bound on the restarts
          HttpFaults    \* TRUE: a history request may fail

ASSUME BoundsAssumption ==
  /\ {MaxMsgs, MaxGaps, MaxRestarts} \subseteq Nat
  /\ {PageSize, WindowCap, CmdCap, StateCap} \subseteq Nat \ {0}
  /\ HttpFaults \in BOOLEAN

VARIABLES
  posted,    \* the messages in the channel are 1..posted
  online,    \* the WebSocket is connected
  frames,    \* events Slack has pushed and nobody has read
  live, liveTs, \* the WebSocket loop: what it does next, with which event
  window,    \* dedup_window
  lastSeen,  \* last_seen_ts
  cmds,      \* the command channel
  states,    \* the state channel: SlackWatermark updates
  saved,     \* slack_watermarks in the state file
  main,      \* the main loop: "loop", in handle_gap "gap", "resume", or "stuck"
  from,      \* handle_gap: paused_at
  paused,    \* the pause gate
  tick,      \* last_wall of the gap detector
  signals,   \* the power channel: paused_at of each GapDetected
  gaps, restarts,
  catch,     \* the catchup task: what it does next, "idle", or "stalled"
  oldest,    \* effective_oldest, once the task has begun
  before,    \* the cursor: the next page has messages older than this
  page,      \* the page received, oldest first
  top,       \* new_watermark, or 0
  found,     \* messages_to_emit
  emitted,   \* how often a catchup has sent each message to main
  lived,     \* messages parse_event has put into the window
  failed     \* messages a failed catchup should have fetched

chatVars  == <<posted, online, frames>>
liveVars  == <<live, liveTs, window>>
chanVars  == <<cmds, states, saved>>
mainVars  == <<main, from, paused>>
sleepVars == <<tick, signals, gaps, restarts>>
catchVars == <<catch, oldest, before, page, top, found>>
histVars  == <<emitted, lived, failed>>
vars == <<chatVars, liveVars, lastSeen, chanVars, mainVars, sleepVars, catchVars, histVars>>

Msgs == 1..MaxMsgs
Times == 0..MaxMsgs

Later(a, b) == IF a > b THEN a ELSE b

Interval(a, b) == [i \in 1..(b - a) |-> a + i]

Init ==
  /\ posted = 0 /\ online = TRUE /\ frames = <<>>
  /\ live = "read" /\ liveTs = 0 /\ window = <<>>
  /\ lastSeen = 0
  /\ cmds = <<>> /\ states = <<>> /\ saved = 0
  /\ main = "loop" /\ from = 0 /\ paused = FALSE
  /\ tick = 0 /\ signals = <<>> /\ gaps = 0 /\ restarts = 0
  /\ catch = "idle" /\ oldest = 0 /\ before = 0 /\ page = <<>> /\ top = 0 /\ found = <<>>
  /\ emitted = [m \in Msgs |-> 0] /\ lived = {} /\ failed = {}

------------------------------------------------------------------------------
(* Slack, the network and the host.                                        *)

Post ==
  /\ posted < MaxMsgs /\ posted' = posted + 1
  /\ frames' = IF online THEN Append(frames, posted') ELSE frames
  /\ UNCHANGED <<online, liveVars, lastSeen, chanVars, mainVars, sleepVars, catchVars, histVars>>

(* Slack does not replay what was in flight.                               *)
Disconnect ==
  /\ online /\ online' = FALSE /\ frames' = <<>>
  /\ UNCHANGED <<posted, liveVars, lastSeen, chanVars, mainVars, sleepVars, catchVars, histVars>>

(* The reconnect loop of start_with_state.                                 *)
Reconnect ==
  /\ ~online /\ live = "read" /\ online' = TRUE
  /\ UNCHANGED <<posted, frames, liveVars, lastSeen, chanVars, mainVars, sleepVars, catchVars, histVars>>

(* The detector compares its clocks every second.  After the last sleep of *)
(* this bounded model nobody needs it.                                     *)
Tick ==
  /\ gaps < MaxGaps
  /\ tick # posted /\ tick' = posted
  /\ UNCHANGED <<chatVars, liveVars, lastSeen, chanVars, mainVars, signals, gaps, restarts,
                 catchVars, histVars>>

(* The host sleeps, and the process with it; the connection may survive.   *)
(* The detector's first tick after the sleep finds the gap.                *)
Sleep(n) ==
  /\ gaps < MaxGaps /\ gaps' = gaps + 1
  /\ n >= posted /\ posted' = n
  /\ \/ online /\ online' = TRUE /\ frames' = frames \o Interval(posted, n)
     \/ online' = FALSE /\ frames' = <<>>
  /\ signals' = Append(signals, tick)
  /\ tick' = n
  /\ UNCHANGED <<liveVars, lastSeen, chanVars, mainVars, restarts, catchVars, histVars>>

(* The process dies and starts again: seed_watermarks, no catchup.         *)
Restart ==
  /\ restarts < MaxRestarts /\ restarts' = restarts + 1
  /\ online' = FALSE /\ frames' = <<>>
  /\ live' = "read" /\ liveTs' = 0 /\ window' = <<>>
  /\ lastSeen' = saved
  /\ cmds' = <<>> /\ states' = <<>>
  /\ main' = "loop" /\ from' = 0 /\ paused' = FALSE
  /\ tick' = posted /\ signals' = <<>>
  /\ catch' = "idle" /\ oldest' = 0 /\ before' = 0 /\ page' = <<>> /\ top' = 0 /\ found' = <<>>
  /\ UNCHANGED <<posted, saved, gaps, histVars>>

------------------------------------------------------------------------------
(* run_websocket_loop and parse_event.                                     *)
LiveGoes(a, b) == live = a /\ live' = b

(* The pause gate is before the processing of a frame; a frame past it is  *)
(* acknowledged and goes on while the adapter is paused.                   *)
ReadFrame ==
  /\ LiveGoes("read", "dedup")
  /\ ~paused /\ frames # <<>>
  /\ liveTs' = Head(frames) /\ frames' = Tail(frames)
  /\ UNCHANGED <<posted, online, window, lastSeen, chanVars, mainVars, sleepVars, catchVars, histVars>>

(* The window forgets its oldest entry.  Nobody looks into it here.        *)
PushWindow ==
  /\ LiveGoes("dedup", "seen")
  /\ window' = Append(IF Len(window) < WindowCap THEN window ELSE Tail(window), liveTs)
  /\ lived' = lived \cup {liveTs}
  /\ UNCHANGED <<chatVars, liveTs, lastSeen, chanVars, mainVars, sleepVars, catchVars, emitted, failed>>

AdvanceSeen ==
  /\ LiveGoes("seen", "send")
  /\ lastSeen' = Later(lastSeen, liveTs)
  /\ UNCHANGED <<chatVars, liveTs, window, chanVars, mainVars, sleepVars, catchVars, histVars>>

CmdRoom == Len(cmds) < CmdCap

SendLive ==
  /\ LiveGoes("send", "read")
  /\ CmdRoom /\ cmds' = Append(cmds, liveTs)
  /\ liveTs' = 0
  /\ UNCHANGED <<chatVars, window, lastSeen, states, saved, mainVars, sleepVars, catchVars, histVars>>

------------------------------------------------------------------------------
(* The main loop, a biased select.                                         *)
StartGap ==
  /\ main = "loop" /\ main' = "gap"
  /\ signals # <<>> /\ from' = Head(signals) /\ signals' = Tail(signals)
  /\ paused' = TRUE
  /\ UNCHANGED <<chatVars, liveVars, lastSeen, chanVars, tick, gaps, restarts, catchVars, histVars>>

TakeState ==
  /\ main = "loop" /\ signals = <<>>
  /\ states # <<>> /\ states' = Tail(states)
  /\ saved' = Later(saved, Head(states))
  /\ UNCHANGED <<chatVars, liveVars, lastSeen, cmds, mainVars, sleepVars, catchVars, histVars>>

TakeCommand ==
  /\ main = "loop" /\ signals = <<>> /\ states = <<>>
  /\ cmds # <<>> /\ cmds' = Tail(cmds)
  /\ UNCHANGED <<chatVars, liveVars, lastSeen, states, saved, mainVars, sleepVars, catchVars, histVars>>

(* The handler of a command awaits chat sends, none of which has a         *)
(* timeout: it may never come back.                                        *)
Hang ==
  /\ main = "loop" /\ signals = <<>> /\ states = <<>>
  /\ cmds # <<>> /\ cmds' = Tail(cmds) /\ main' = "stuck"
  /\ UNCHANGED <<chatVars, liveVars, lastSeen, states, saved, from, paused, sleepVars,
                 catchVars, histVars>>

(* After the acks of the banners: compare_exchange, then spawn.            *)
SpawnCatchup ==
  /\ main = "gap" /\ main' = "resume"
  /\ catch' = IF catch = "idle" THEN "begin" ELSE catch
  /\ oldest' = IF catch = "idle" THEN from ELSE oldest
  /\ from' = 0
  /\ UNCHANGED <<chatVars, liveVars, lastSeen, chanVars, paused, sleepVars,
                 before, page, top, found, histVars>>

(* Mutant: handle_gap awaits run_catchup.                                  *)
ResumeAfterCatchup ==
  /\ main = "resume" /\ main' = "loop"
  /\ catch = "idle"
  /\ paused' = FALSE
  /\ UNCHANGED <<chatVars, liveVars, lastSeen, chanVars, from, sleepVars, catchVars, histVars>>

Resume ==
  /\ main = "resume" /\ main' = "loop"
  /\ paused' = FALSE
  /\ UNCHANGED <<chatVars, liveVars, lastSeen, chanVars, from, sleepVars, catchVars, histVars>>

------------------------------------------------------------------------------
(* The catchup task.                                                       *)
CatchGoes(a, b) == catch = a /\ catch' = b

(* The newer of paused_at and the watermark.                               *)
Begin ==
  /\ CatchGoes("begin", "fetch")
  /\ oldest' = Later(oldest, lastSeen)
  /\ before' = MaxMsgs + 1
  /\ UNCHANGED <<chatVars, liveVars, lastSeen, chanVars, mainVars, sleepVars,
                 page, top, found, histVars>>

(* The task is through with the channel.                                   *)
Finish ==
  /\ catch' = "idle"
  /\ oldest' = 0 /\ before' = 0 /\ page' = <<>> /\ top' = 0 /\ found' = <<>>

(* Newest first: the last PageSize of the messages after oldest and before *)
(* the cursor.  A 429 is slept on and retried once.                        *)
Fetch ==
  /\ CatchGoes("fetch", "page")
  /\ LET newest == IF posted < before THEN posted ELSE before - 1
         start  == Later(oldest, IF newest > PageSize THEN newest - PageSize ELSE 0)
     IN  page' = Interval(start, newest)
  /\ UNCHANGED <<chatVars, liveVars, lastSeen, chanVars, mainVars, sleepVars,
                 oldest, before, top, found, histVars>>

(* Any error: the channel is skipped, its watermark left alone.            *)
FetchFails ==
  /\ HttpFaults
  /\ catch = "fetch" /\ Finish
  /\ failed' = failed \cup ((oldest + 1)..posted)
  /\ UNCHANGED <<chatVars, liveVars, lastSeen, chanVars, mainVars, sleepVars, emitted, lived>>

(* The client has no timeout (reqwest::Client::new): a request may stay    *)
(* without an answer.  catchup_in_progress then stays set.                 *)
Stall ==
  /\ CatchGoes("fetch", "stalled")
  /\ UNCHANGED <<chatVars, liveVars, lastSeen, chanVars, mainVars, sleepVars,
                 oldest, before, page, top, found, histVars>>

(* The messages of the page that the window has not, and how they are put  *)
(* in a row: oldest first.                                                 *)
Unseen ==
  {m \in Msgs : /\ \E i \in DOMAIN page : page[i] = m
                /\ ~\E i \in DOMAIN window : window[i] = m}

InOrder(S) ==
  {row \in [1..Cardinality(S) -> S] : \A i, j \in DOMAIN row : i < j => row[i] < row[j]}

(* Mutant: the cursor of the first page is not followed.                   *)
ProcessOnePage ==
  /\ CatchGoes("page", "emit")
  /\ top' = IF page # <<>> THEN page[Len(page)] ELSE top
  /\ found' \in InOrder(Unseen)
  /\ UNCHANGED <<chatVars, liveVars, lastSeen, chanVars, mainVars, sleepVars, oldest,
                 before, page, histVars>>

(* process_history_page: the newest message of the first page is the new   *)
(* watermark; what the window has is skipped; the rest of this page goes   *)
(* behind what earlier, newer pages gave.                                  *)
ProcessPage ==
  /\ top' = IF top = 0 /\ page # <<>> THEN page[Len(page)] ELSE top
  /\ \E row \in InOrder(Unseen) : found' = found \o row
  /\ IF page # <<>> /\ page[1] > oldest + 1
       THEN CatchGoes("page", "fetch") /\ before' = page[1]
       ELSE CatchGoes("page", "emit") /\ UNCHANGED before
  /\ page' = <<>>
  /\ UNCHANGED <<chatVars, liveVars, lastSeen, chanVars, mainVars, sleepVars, oldest, histVars>>

Emit ==
  /\ CatchGoes("emit", "emit")
  /\ found # <<>> /\ found' = Tail(found)
  /\ CmdRoom /\ cmds' = Append(cmds, Head(found))
  /\ emitted' = [emitted EXCEPT ![Head(found)] = @ + 1]
  /\ UNCHANGED <<chatVars, liveVars, lastSeen, states, saved, mainVars, sleepVars,
                 oldest, before, page, top, lived, failed>>

(* Mutant: the watermark is only persisted.                                *)
AdvanceNothing ==
  /\ catch = "emit" /\ found = <<>>
  /\ IF top = 0 THEN Finish ELSE catch' = "save" /\ UNCHANGED <<oldest, before, page, top, found>>
  /\ UNCHANGED <<chatVars, liveVars, lastSeen, chanVars, mainVars, sleepVars, histVars>>

Advance ==
  /\ catch = "emit" /\ found = <<>>
  /\ lastSeen' = Later(lastSeen, top)
  /\ IF top = 0 THEN Finish ELSE catch' = "save" /\ UNCHANGED <<oldest, before, page, top, found>>
  /\ UNCHANGED <<chatVars, liveVars, chanVars, mainVars, sleepVars, histVars>>

Save ==
  /\ catch = "save" /\ Finish
  /\ Len(states) < StateCap /\ states' = Append(states, top)
  /\ UNCHANGED <<chatVars, liveVars, lastSeen, cmds, saved, mainVars, sleepVars, histVars>>

------------------------------------------------------------------------------
World == Post \/ Disconnect \/ Reconnect \/ Tick \/ Restart \/ \E n \in Times : Sleep(n)
Live  == ReadFrame \/ PushWindow \/ AdvanceSeen \/ SendLive
Main  == StartGap \/ TakeState \/ TakeCommand \/ SpawnCatchup \/ Resume
Catchup == Begin \/ Fetch \/ FetchFails \/ ProcessPage \/ Emit \/ Advance \/ Save
Unanswered == Hang \/ Stall

Next == World \/ Unanswered \/ Live \/ Main \/ Catchup

Spec == Init /\ [][Next]_vars

(* The tasks are scheduled, and handle_gap waits for acks for a limited    *)
(* time.  That requests are answered and commands come to an end is not    *)
(* assumed (Unanswered).                                                   *)
FairSpec == Spec /\ WF_vars(Live) /\ WF_vars(Main) /\ WF_vars(Catchup)

------------------------------------------------------------------------------
TypeOK ==
  /\ posted \in Times /\ online \in BOOLEAN /\ frames \in Seq(Msgs)
  /\ live \in {"read", "dedup", "seen", "send"} /\ liveTs \in Times
  /\ window \in Seq(Msgs) /\ Len(window) <= WindowCap
  /\ lastSeen \in Times /\ saved \in Times
  /\ cmds \in Seq(Msgs) /\ Len(cmds) <= CmdCap
  /\ states \in Seq(Msgs) /\ Len(states) <= StateCap
  /\ main \in {"loop", "gap", "resume", "stuck"} /\ from \in Times /\ paused \in BOOLEAN
  /\ tick \in Times /\ signals \in Seq(Times) /\ gaps \in 0..MaxGaps /\ restarts \in 0..MaxRestarts
  /\ catch \in {"idle", "begin", "fetch", "page", "emit", "save", "stalled"}
  /\ oldest \in Times /\ before \in 0..(MaxMsgs + 1) /\ top \in Times
  /\ page \in Seq(Msgs) /\ found \in Seq(Msgs)
  /\ emitted \in [Msgs -> Nat] /\ lived \subseteq Msgs /\ failed \subseteq Msgs

(* However gaps, catchups, live messages and restarts interleave, no       *)
(* message is replayed by two catchups.                                    *)
EmittedOnce == \A m \in Msgs : emitted[m] <= 1

(* When a catchup comes to its end, everything between its oldest and its  *)
(* watermark has been sent to main, by it or live: pages neither overlap   *)
(* nor leave holes while new messages arrive between the requests.         *)
GapCovered ==
  catch = "save" => \A m \in (oldest + 1)..top : emitted[m] > 0 \/ m \in lived

(* A catchup ends, although nobody reads the commands it sends while main  *)
(* is in handle_gap - or one of its requests is never answered, or a       *)
(* handler never comes back to read them.                                  *)
CatchupEnds == (catch # "idle") ~> (catch \in {"idle", "stalled"} \/ main = "stuck")

(* run_catchup on an HTTP error: the next wake retries the full gap.  When *)
(* a later catchup is through, the messages the failed one should have     *)
(* fetched have come, if the WebSocket does not still bring them.          *)
OnItsWay(m) == m = liveTs \/ \E i \in DOMAIN frames : frames[i] = m

FailedGapIsRetried ==
  catch = "save" =>
    \A m \in failed : emitted[m] > 0 \/ m \in lived \/ OnItsWay(m)
==============================================================================
