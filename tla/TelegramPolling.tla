--------------------------- MODULE TelegramPolling ---------------------------
(***************************************************************************)
(* The long poll of Telegram (chat_adapters/telegram.rs, start_with_state) *)
(* against a server that forgets the updates below the offset of a request *)
(* and gives every other one again.  Update n is n, whether a message of   *)
(* the authorized user or not.                                             *)
(***************************************************************************)
EXTENDS IntakeMain

CONSTANTS Skips,      \* which updates may be ones that are skipped
          PollLimit,  \* updates in an answer at most
          MaxOffset,  \* i32::MAX
          Strays,     \* offsets that the first state file may hold
          MaxFaults   \* bound on the requests that fail

VARIABLES
  skipped,   \* updates without message, of another user, or empty
  confirmed, \* the server has forgotten the updates up to this one
  poll,      \* the polling task: what it does next
  offset,    \* its offset
  batch,     \* updates of the answer that are left
  failures,  \* consecutive_failures
  faults,    \* requests that have failed
  held,      \* the offset in the memory of the state store
  handed,    \* updates some process has sent to main
  sent       \* how often this process sent each update to main

pollVars == <<poll, offset, batch, failures>>
serverVars == <<posted, skipped, confirmed, faults>>
vars == <<mainVars, serverVars, pollVars, held, handed, sent>>

(* An offset outside the range is as good as none.                         *)
SeedUnchecked(raw) == raw
Seed(raw) == IF raw \in 0..MaxOffset THEN raw ELSE 0

(* polling_backoff_secs.                                                   *)
BackoffSecs(n) == IF n > 4 THEN 60 ELSE 5 * 2^(n - 1)

Init ==
  /\ MainInit /\ posted = 0 /\ saved \in Strays
  /\ skipped \in Skips /\ confirmed = 0 /\ faults = 0
  /\ poll = "gate" /\ offset = Seed(saved) /\ batch = <<>> /\ failures = 0
  /\ held = saved /\ handed = {} /\ sent = [m \in Msgs |-> 0]

------------------------------------------------------------------------------
(* The user, the host, and the server.                                     *)
Post ==
  /\ posted < MaxMsgs /\ posted' = posted + 1
  /\ UNCHANGED <<mainVars, skipped, confirmed, faults, pollVars, held, handed, sent>>

Wake == Wakes /\ UNCHANGED <<serverVars, pollVars, held, handed, sent>>

(* What the dead process had sent to main but main had not read is gone.   *)
Restart ==
  /\ MainRestarts
  /\ poll' = "gate" /\ offset' = Seed(saved) /\ batch' = <<>> /\ failures' = 0
  /\ held' = saved /\ sent' = [m \in Msgs |-> 0]
  /\ UNCHANGED <<serverVars, handed>>

PollGoes(a, b) == poll = a /\ poll' = b

(* The server answers with what it has from the offset on, or at the       *)
(* timeout with nothing.                                                   *)
Answer ==
  /\ PollGoes("asked", "answered")
  /\ confirmed' = IF offset > confirmed + 1 THEN offset - 1 ELSE confirmed
  /\ LET n == IF posted - confirmed' < PollLimit THEN posted - confirmed' ELSE PollLimit
     IN  batch' = [i \in 1..n |-> confirmed' + i]
  /\ UNCHANGED <<mainVars, posted, skipped, faults, offset, failures, held, handed, sent>>

------------------------------------------------------------------------------
(* The polling task.                                                       *)

(* The pause gate is before the request; nothing looks at it again.        *)
Ask ==
  /\ ~paused
  /\ PollGoes("gate", "asked")
  /\ UNCHANGED <<mainVars, serverVars, offset, batch, failures, held, handed, sent>>

(* Mutant: the polling task returns on an error.                           *)
FailsForGood ==
  /\ poll \in {"asked", "answered"} /\ poll' = "returned"
  /\ faults < MaxFaults /\ faults' = faults + 1
  /\ batch' = <<>> /\ failures' = failures + 1
  /\ UNCHANGED <<mainVars, posted, skipped, confirmed, offset, held, handed, sent>>

(* The request or its answer is lost, as when the host sleeps.             *)
Fails ==
  /\ poll \in {"asked", "answered"} /\ poll' = "backoff"
  /\ faults < MaxFaults /\ faults' = faults + 1
  /\ batch' = <<>> /\ failures' = failures + 1
  /\ UNCHANGED <<mainVars, posted, skipped, confirmed, offset, held, handed, sent>>

BackedOff ==
  /\ PollGoes("backoff", "gate")
  /\ UNCHANGED <<mainVars, serverVars, offset, batch, failures, held, handed, sent>>

Receive ==
  /\ PollGoes("answered", "batch")
  /\ failures' = 0
  /\ UNCHANGED <<mainVars, serverVars, offset, batch, held, handed, sent>>

(* One update: the offset moves before the update is looked at.  A failed  *)
(* download leaves the attachment out.                                     *)
Handle ==
  /\ poll = "batch" /\ batch # <<>> /\ batch' = Tail(batch)
  /\ LET m == Head(batch) IN
       /\ offset' = m + 1
       /\ \/ m \in skipped /\ UNCHANGED <<mainVars, handed, sent>>
          \/ m \notin skipped /\ Send(m)
               /\ handed' = handed \cup {m} /\ sent' = [sent EXCEPT ![m] = @ + 1]
  /\ UNCHANGED <<serverVars, poll, failures, held>>

(* try_send: a full channel drops the offset.                              *)
SaveOffset ==
  /\ batch = <<>>
  /\ PollGoes("batch", "gate")
  /\ states' = IF offset > 0 /\ Len(states) < StateCap THEN Append(states, offset) ELSE states
  /\ UNCHANGED <<cmds, idleMain, serverVars, offset, batch, failures, held, handed, sent>>

------------------------------------------------------------------------------
(* Main.  The persistor writes the offset at its leisure.                  *)
MainState ==
  /\ TakeState /\ held' = Head(states)
  /\ UNCHANGED <<saved, serverVars, pollVars, handed, sent>>

Flush ==
  /\ saved # held /\ saved' = held
  /\ UNCHANGED <<cmds, states, main, paused, signals, gaps, restarts,
                 serverVars, pollVars, held, handed, sent>>

MainGap ==
  /\ StartGap \/ Spawn \/ Resume \/ TakeCommand
  /\ UNCHANGED <<serverVars, pollVars, held, handed, sent>>

MainHangs == Hang /\ UNCHANGED <<serverVars, pollVars, held, handed, sent>>

World == Post \/ Wake \/ Restart \/ MainHangs
Polling == Ask \/ Fails \/ BackedOff \/ Receive \/ Handle \/ SaveOffset
Main == MainState \/ Flush \/ MainGap

Next == World \/ Answer \/ Polling \/ Main

Spec == Init /\ [][Next]_vars

------------------------------------------------------------------------------
(* No offset the first state file may hold is one of a real update.        *)
NoOffsetAtFirst == \A raw \in Strays : Seed(raw) = 0

TypeOK ==
  /\ posted \in 0..MaxMsgs /\ confirmed \in 0..MaxMsgs
  /\ cmds \in Seq(Msgs) /\ Len(cmds) <= CmdCap
  /\ states \in Seq(1..MaxMsgs + 1) /\ Len(states) <= StateCap
  /\ main \in {"loop", "gap", "resume", "stuck"} /\ paused \in BOOLEAN
  /\ poll \in {"gate", "asked", "answered", "batch", "backoff"}
  /\ offset \in 0..MaxMsgs + 1 /\ batch \in Seq(Msgs)
  /\ failures \in 0..MaxFaults /\ BackoffSecs(failures + 1) \in 5..60
  /\ {saved, held} \subseteq (0..MaxMsgs + 1) \cup Strays
  /\ handed \subseteq Msgs /\ sent \in [Msgs -> Nat]

(* The server forgets no update of the user that was not handed to main,   *)
(* whatever crashes, lost answers, pauses and dropped offsets there are:   *)
(* the offset is never ahead of what has been handled.                     *)
NothingForgotten == \A m \in 1..confirmed : m \in handed \/ m \in skipped

(* A process hands an update to main once, although the answer to a        *)
(* request that was repeated or was in flight at a pause has it again.     *)
HandedOnce == \A m \in Msgs : sent[m] <= 1

(* Nothing is left to hand to main.                                        *)
AllHanded == 1..posted \subseteq handed \cup skipped
==============================================================================
