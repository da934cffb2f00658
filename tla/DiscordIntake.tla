---------------------------- MODULE DiscordIntake ----------------------------
(***************************************************************************)
(* Messages that reach terminus from a Discord channel                     *)
(* (chat_adapters/discord.rs): live, each gateway event in a task of its   *)
(* own, and through run_catchup, which after a sleep reads the channel's   *)
(* messages after the watermark.  Both go through dedup_window and move    *)
(* the watermark.  A message is its snowflake.                             *)
(***************************************************************************)
EXTENDS IntakeMain

CONSTANTS Foreigns,   \* which messages may be foreign
          Watermarks, \* watermarks that the first state file may hold; 0: none
          PageSize,   \* limit of a request for messages
          ReplayCap,  \* messages a catchup replays at most in a channel
          WindowCap   \* capacity of dedup_window

VARIABLES
  foreign,   \* the messages that are not the authorized user's, or a bot's
  handler,   \* where the task of each gateway event is
  window,    \* dedup_window
  lastSeen,  \* last_seen_message_id of the channel; 0: no entry
  catch,     \* the catchup task: what it does next, "idle", or "stalled"
  start,     \* its snapshot of lastSeen
  after,     \* current_after
  page,      \* what is left of the page, oldest first
  full,      \* the page had PageSize messages
  replayed,  \* total_replayed
  begun,     \* messages that were pushed into the window
  lived,     \* messages a gateway task has marked
  got,       \* how often this process sent each message to main
  evicted    \* how often its window gave each message up for another

liveVars  == <<handler>>
catchVars == <<catch, start, after, page, full, replayed>>
histVars  == <<begun, lived, got>>
markVars  == <<window, evicted, lastSeen>>
vars == <<posted, foreign, mainVars, handler, markVars, catchVars, histVars>>

Mine(m) == m \notin foreign
InWindow(m) == \E i \in DOMAIN window : window[i] = m

(* The task's locals are of no more use.                                   *)
CatchDrops ==
  /\ start' = 0 /\ after' = 0
  /\ page' = <<>> /\ full' = FALSE /\ replayed' = 0

CatchIdle == catch' = "idle" /\ CatchDrops

(* What is at or below the first watermark was handled by processes before. *)
Init ==
  /\ MainInit /\ saved \in Watermarks /\ posted = saved
  /\ foreign \in Foreigns
  /\ handler = [m \in Msgs |-> "none"]
  /\ window = <<>> /\ lastSeen = saved
  /\ catch = "idle" /\ start = 0 /\ after = 0 /\ page = <<>> /\ full = FALSE /\ replayed = 0
  /\ begun = 1..saved /\ lived = {} /\ got = [m \in Msgs |-> 0] /\ evicted = got

------------------------------------------------------------------------------
(* Discord, the host.  A message posted while the connection is down is    *)
(* not pushed later.                                                       *)
Post(pushed) ==
  /\ posted < MaxMsgs /\ posted' = posted + 1
  /\ handler' = [handler EXCEPT ![posted'] = IF pushed THEN "event" ELSE "none"]
  /\ UNCHANGED <<foreign, mainVars, markVars, catchVars, histVars>>

Wake == Wakes /\ UNCHANGED <<posted, foreign, handler, markVars, catchVars, histVars>>

(* The watermarks of the state file seed the new adapter.                  *)
Restart ==
  /\ MainRestarts
  /\ handler' = [m \in Msgs |-> "none"]
  /\ window' = <<>> /\ lastSeen' = saved
  /\ CatchIdle
  /\ got' = [m \in Msgs |-> 0] /\ evicted' = got'
  /\ UNCHANGED <<posted, foreign, begun, lived>>

------------------------------------------------------------------------------
(* The steps on a message that both kinds of task take.                    *)

(* A full window gives up its oldest id.                                   *)
Pushes(m) ==
  /\ \/ Len(window) < WindowCap /\ window' = Append(window, m) /\ UNCHANGED evicted
     \/ /\ Len(window) >= WindowCap /\ window' = Append(Tail(window), m)
        /\ evicted' = IF Head(window) = m THEN evicted
                      ELSE [evicted EXCEPT ![Head(window)] = @ + 1]
  /\ begun' = begun \cup {m}

(* An unconditional insert: the watermark may go back.                     *)
Marks(m) == lastSeen' = m /\ UNCHANGED <<window, evicted>>

(* The update is queued, or after 5 s given up with a warning.             *)
Persists(m) ==
  /\ \/ Len(states) < StateCap /\ states' = Append(states, m)
     \/ Len(states) = StateCap /\ UNCHANGED states
  /\ UNCHANGED <<cmds, idleMain, markVars>>

Delivers(m) == Send(m) /\ got' = [got EXCEPT ![m] = @ + 1]

------------------------------------------------------------------------------
(* DiscordHandler::message.                                                *)
LiveGoes(m, a, b) == handler[m] = a /\ handler' = [handler EXCEPT ![m] = b]

(* A paused adapter drops the event before it looks at anything else.      *)
LiveGate(m) ==
  /\ LiveGoes(m, "event", IF ~Mine(m) THEN "none" ELSE IF paused THEN "dropped" ELSE "dedup")
  /\ UNCHANGED <<posted, foreign, mainVars, markVars, catchVars, histVars>>

LiveDedup(m) ==
  /\ IF InWindow(m)
       THEN LiveGoes(m, "dedup", "none") /\ UNCHANGED <<window, evicted, begun>>
       ELSE LiveGoes(m, "dedup", "mark") /\ Pushes(m)
  /\ UNCHANGED <<posted, foreign, mainVars, lastSeen, catchVars, lived, got>>

LiveMark(m) ==
  /\ LiveGoes(m, "mark", "persist") /\ Marks(m)
  /\ lived' = lived \cup {m}
  /\ UNCHANGED <<posted, foreign, mainVars, catchVars, begun, got>>

LivePersist(m) ==
  /\ LiveGoes(m, "persist", "send") /\ Persists(m)
  /\ UNCHANGED <<posted, foreign, catchVars, histVars>>

LiveSend(m) ==
  /\ LiveGoes(m, "send", "none") /\ Delivers(m)
  /\ UNCHANGED <<posted, foreign, markVars, catchVars, begun, lived>>

------------------------------------------------------------------------------
(* run_catchup.  Its guard, catchup_in_progress, is taken before the task  *)
(* is spawned.                                                             *)
CatchGoes(a, b) == catch = a /\ catch' = b

SpawnCatchup ==
  /\ Spawn
  /\ catch' = IF catch = "idle" THEN "begin" ELSE catch
  /\ UNCHANGED <<posted, foreign, handler, markVars, start, after, page, full, replayed, histVars>>

(* A channel without a watermark is not in the snapshot.                   *)
CatchBegin ==
  /\ catch = "begin"
  /\ IF lastSeen = 0 THEN CatchIdle
     ELSE /\ CatchGoes("begin", "fetch")
          /\ start' = lastSeen /\ after' = lastSeen
          /\ UNCHANGED <<page, full, replayed>>
  /\ UNCHANGED <<posted, foreign, mainVars, handler, markVars, histVars>>

PageLength == IF posted - after < PageSize THEN posted - after ELSE PageSize

(* The PageSize messages that follow current_after.                        *)
CatchFetch ==
  /\ CatchGoes("fetch", "item")
  /\ page' = [i \in 1..PageLength |-> after + i]
  /\ full' = (PageLength = PageSize)
  /\ UNCHANGED <<posted, foreign, mainVars, handler, markVars, start, after, replayed, histVars>>

(* Mutant: a failed catchup moves the watermark all the same.              *)
FailsForward ==
  /\ catch = "fetch" /\ CatchIdle
  /\ lastSeen' = posted
  /\ UNCHANGED <<posted, foreign, mainVars, handler, window, evicted, histVars>>

(* 403, 404 or any other error: the channel is given up.                   *)
CatchFails ==
  /\ catch = "fetch" /\ CatchIdle
  /\ UNCHANGED <<posted, foreign, mainVars, handler, markVars, histVars>>

(* The client has no timeout (Http::new): a request for messages, or the   *)
(* warning that the watermark was not persisted, may never return.         *)
CatchStalls ==
  /\ catch = "fetch" \/ (catch = "persist" /\ Len(states) = StateCap)
  /\ catch' = "stalled" /\ CatchDrops
  /\ UNCHANGED <<posted, foreign, mainVars, handler, markVars, histVars>>

CatchSkips == page' = Tail(page) /\ UNCHANGED <<catch, window, evicted, begun>>

(* Mutant: messages of the window are not skipped.                         *)
ItemAnyway ==
  /\ catch = "item" /\ page # <<>>
  /\ LET m == Head(page) IN
       /\ after' = IF m > after THEN m ELSE after
       /\ \/ ~Mine(m) /\ CatchSkips
          \/ Mine(m) /\ Pushes(m) /\ catch' = "mark" /\ UNCHANGED page
  /\ UNCHANGED <<posted, foreign, mainVars, handler, lastSeen, start, full, replayed,
                 lived, got>>

(* Mutant: the cursor follows only what is replayed.                       *)
ItemAfterFilter ==
  /\ catch = "item" /\ page # <<>>
  /\ LET m == Head(page) IN
       \/ (~Mine(m) \/ InWindow(m)) /\ CatchSkips /\ UNCHANGED after
       \/ Mine(m) /\ ~InWindow(m) /\ Pushes(m) /\ catch' = "mark" /\ UNCHANGED page
            /\ after' = m
  /\ UNCHANGED <<posted, foreign, mainVars, handler, lastSeen, start, full, replayed,
                 lived, got>>

CatchItem ==
  /\ catch = "item" /\ page # <<>>
  /\ LET m == Head(page) IN
       /\ after' = IF m > after THEN m ELSE after
       /\ \/ (~Mine(m) \/ InWindow(m)) /\ CatchSkips
          \/ Mine(m) /\ ~InWindow(m) /\ Pushes(m) /\ catch' = "mark" /\ UNCHANGED page
  /\ UNCHANGED <<posted, foreign, mainVars, handler, lastSeen, start, full, replayed,
                 lived, got>>

CatchMark ==
  /\ CatchGoes("mark", "persist") /\ Marks(Head(page))
  /\ UNCHANGED <<posted, foreign, mainVars, handler, start, after, page, full, replayed, histVars>>

CatchPersist ==
  /\ CatchGoes("persist", "send") /\ Persists(Head(page))
  /\ UNCHANGED <<posted, foreign, handler, start, after, page, full, replayed, histVars>>

CatchSend ==
  /\ CatchGoes("send", IF replayed + 1 >= ReplayCap THEN "page" ELSE "item")
  /\ Delivers(Head(page))
  /\ page' = Tail(page) /\ replayed' = replayed + 1
  /\ UNCHANGED <<posted, foreign, handler, markVars, start, after, full, begun, lived>>

(* A page is through, or the cap is reached.                               *)
CatchPage ==
  /\ catch = "page" \/ (catch = "item" /\ page = <<>>)
  /\ IF replayed >= ReplayCap \/ ~full THEN CatchIdle
     ELSE catch' = "fetch" /\ page' = <<>> /\ full' = FALSE
            /\ UNCHANGED <<start, after, replayed>>
  /\ UNCHANGED <<posted, foreign, mainVars, handler, markVars, histVars>>

------------------------------------------------------------------------------
(* A watermark in the state file only goes forward, and is written at once.*)
MainState ==
  /\ TakeState /\ saved' = IF Head(states) > saved THEN Head(states) ELSE saved
  /\ UNCHANGED <<posted, foreign, handler, markVars, catchVars, histVars>>

MainGap ==
  /\ StartGap \/ Resume \/ TakeCommand
  /\ UNCHANGED <<posted, foreign, handler, markVars, catchVars, histVars>>

MainHangs ==
  /\ Hang
  /\ UNCHANGED <<posted, foreign, handler, markVars, catchVars, histVars>>

World == Wake \/ Restart \/ \E pushed \in BOOLEAN : Post(pushed)
Live(m) == LiveGate(m) \/ LiveDedup(m) \/ LiveMark(m) \/ LivePersist(m) \/ LiveSend(m)
Catchup == CatchBegin \/ CatchFetch \/ CatchFails \/ CatchItem \/ CatchMark \/ CatchPersist
             \/ CatchSend \/ CatchPage
Main == MainGap \/ MainState \/ SpawnCatchup
Unanswered == CatchStalls \/ MainHangs

Next == World \/ Unanswered \/ Main \/ Catchup \/ \E m \in Msgs : Live(m)

Spec == Init /\ [][Next]_vars

------------------------------------------------------------------------------
TypeOK ==
  /\ posted \in 0..MaxMsgs /\ saved \in 0..MaxMsgs
  /\ cmds \in Seq(Msgs) /\ Len(cmds) <= CmdCap
  /\ states \in Seq(Msgs) /\ Len(states) <= StateCap
  /\ main \in {"loop", "gap", "resume", "stuck"} /\ paused \in BOOLEAN
  /\ handler \in [Msgs -> {"none", "dropped", "event", "dedup", "mark", "persist", "send"}]
  /\ window \in Seq(Msgs) /\ Len(window) <= WindowCap
  /\ {lastSeen, start, after} \subseteq 0..MaxMsgs
  /\ catch \in {"idle", "begin", "fetch", "item", "mark", "persist", "send", "page", "stalled"}
  /\ page \in Seq(Msgs) /\ full \in BOOLEAN /\ replayed \in 0..ReplayCap
  /\ begun \cup lived \subseteq Msgs /\ {got, evicted} \subseteq [Msgs -> Nat]

(* A process gives main a message again only as often as the window had    *)
(* given it up for others, although gateway tasks and a catchup handle the *)
(* same messages at the same time and the watermark may go back.           *)
GotOnce == \A m \in Msgs : got[m] <= 1 + evicted[m]

(* The watermark passes over a message of the user that nobody handled     *)
(* only because a later one came over the gateway: no error, cap, crash or *)
(* page boundary of a catchup makes it do so.                              *)
PassedOverLive ==
  \A m \in 1..lastSeen : Mine(m) => m \in begun \/ \E n \in lived : n > m

(* docs/discord-parity.md: the watermark is advanced by the handler and by *)
(* run_catchup only forward.                                               *)
WatermarkForward == [][lastSeen' < lastSeen => restarts' # restarts]_vars

(* Messages dropped while paused do not move the watermark, so that the    *)
(* catchup replays them after the resume: until somebody has handled it    *)
(* the watermark, behind which no catchup looks, does not pass over one.   *)
DroppedIsReplayed ==
  \A m \in Msgs : handler[m] = "dropped" /\ m <= lastSeen => m \in begun
==============================================================================
