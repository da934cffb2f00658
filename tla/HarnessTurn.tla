----------------------------- MODULE HarnessTurn -----------------------------
(***************************************************************************)
(* Harness turns as the main loop drives them: drive_harness takes the     *)
(* events of the task (HarnessBackends) and says them in the chat, tool    *)
(* calls in batches with repetitions counted, until Done, an Error or the  *)
(* end of the stream.  Then the main loop goes on, and the message with    *)
(* its attachments is dropped; the task may still be at work.              *)
(*                                                                         *)
(* The events are told apart by their place in sent.  A chat message is    *)
(* the place of the event it says; for a tool call also how many more it   *)
(* stands for.                                                             *)
(***************************************************************************)
EXTENDS HarnessBackends

CONSTANT Requests  \* prompts: back end, --schema, attachments

ASSUME RequestsAssumption ==
  Requests \subseteq Kinds \X {"none", "hook", "plain", "bad"} \X {"none", "image", "file"}

VARIABLES
  driver,   \* "idle", "driving"; then how the turn ended: "done", "error", "closed";
            \* "stuck" in a send to the chat
  taken,    \* events received
  batch,    \* tool_lines
  last,     \* last_tool_name, or ""
  more,     \* consecutive_count
  said      \* what the chat was told

driverVars == <<driver, taken, batch, last, more, said>>
vars == <<taskVars, driverVars>>

Says(i, k) == [event |-> i, more |-> k]

Init ==
  /\ kind \in Kinds /\ schema = "none" /\ task = "idle" /\ child = "none" /\ rd = Fresh
  /\ log = <<>> /\ unread = FALSE /\ sent = <<>> /\ temps = {} /\ open = {}
  /\ driver = "idle" /\ taken = 0 /\ batch = <<>> /\ last = "" /\ more = 0 /\ said = <<>>

(* Nothing of the last turn is at work.                                    *)
AtRest == driver = "idle" /\ task \in {"idle", "over"}

StartDriving ==
  /\ driver' = "driving"
  /\ UNCHANGED <<taken, batch, last, more, said>>

(* send_harness_prompt, up to the first event.                             *)
Prompt(k, s, a) ==
  /\ AtRest
  /\ RunPrompt(k, s, a)
  /\ StartDriving

(* handle_harness_subcommand.                                              *)
Passthrough(k) ==
  /\ AtRest
  /\ RunSubcommand(k)
  /\ StartDriving

------------------------------------------------------------------------------
(* drive_harness.                                                          *)
Receives(type) ==
  /\ driver = "driving" /\ taken < Len(sent) /\ sent[taken + 1].type = type
  /\ taken' = taken + 1
  /\ UNCHANGED taskVars

(* The count of the calls not shown goes on the last line of the batch; an *)
(* empty batch has none, and the count is lost.                            *)
WithCount(rows, n) == [rows EXCEPT ![Len(rows)] = Says(@.event, n)]

Counted == IF batch = <<>> THEN <<>> ELSE WithCount(batch, more)

(* A call like the last one is only counted.                               *)
Repeated == last = sent[taken + 1].arg

(* The batch is sent from 5 lines on, or 3 seconds after the last time.    *)
TakeTool ==
  /\ Receives("Tool")
  /\ LET next == IF Repeated THEN batch ELSE Append(Counted, Says(taken + 1, 0))
         n == IF Repeated THEN more + 1 ELSE 0
     IN  /\ last' = sent[taken + 1].arg
         /\ \/ /\ Len(next) < 5
              /\ batch' = next /\ more' = n /\ UNCHANGED said
           \/ /\ next # <<>>
              /\ said' = said \o WithCount(next, n)
              /\ batch' = <<>> /\ more' = 0
  /\ UNCHANGED driver

(* Mutant: the batch goes out behind what ended it.                        *)
SendBatchLate(rest) ==
  /\ said' = said \o rest \o Counted
  /\ batch' = <<>>
  /\ last' = IF batch = <<>> THEN last ELSE ""
  /\ more' = IF batch = <<>> THEN more ELSE 0

(* Before anything else the batch is sent, and the last tool forgotten if  *)
(* there was one.                                                          *)
SendBatch(rest) ==
  /\ said' = said \o Counted \o rest
  /\ batch' = <<>>
  /\ last' = IF batch = <<>> THEN last ELSE ""
  /\ more' = IF batch = <<>> THEN more ELSE 0

TakeText ==
  /\ Receives("Text")
  /\ SendBatch(<<Says(taken + 1, 0)>>)
  /\ UNCHANGED driver

TakeFile ==
  /\ Receives("File")
  /\ SendBatch(<<Says(taken + 1, 0)>>)
  /\ UNCHANGED driver

(* The rendering for the chat; what becomes of the webhook's copy is       *)
(* WebhookDelivery's.                                                      *)
TakeStructured ==
  /\ Receives("Structured")
  /\ SendBatch(<<Says(taken + 1, 0)>>)
  /\ UNCHANGED driver

TakeDone ==
  /\ Receives("Done")
  /\ SendBatch(<<>>)
  /\ driver' = "done"

(* The first error ends the turn.                                          *)
TakeError ==
  /\ Receives("Error")
  /\ SendBatch(<<Says(taken + 1, 0)>>)
  /\ driver' = "error"

(* The task is gone and everything it sent is taken.                       *)
StreamCloses ==
  /\ driver = "driving" /\ task = "over" /\ taken = Len(sent)
  /\ driver' = "closed"
  /\ UNCHANGED <<taskVars, taken, batch, last, more, said>>

(* A send that the chat's server leaves without an answer, for a while or  *)
(* for ever: Slack's and Discord's HTTP clients have no timeout, and the   *)
(* main loop waits with it.                                                *)
SendHangs ==
  /\ driver = "driving" /\ taken < Len(sent)
  /\ driver' = "stuck"
  /\ UNCHANGED <<taskVars, taken, batch, last, more, said>>

SendReturns ==
  /\ driver = "stuck"
  /\ driver' = "driving"
  /\ UNCHANGED <<taskVars, taken, batch, last, more, said>>

(* The turn is announced as finished, and its message dropped: with it go  *)
(* the attachments, whatever the task is doing.  The next turn is looked   *)
(* at when the task is over: what it does until then, nobody hears.        *)
EndTurn ==
  /\ driver \in {"done", "error", "closed"}
  /\ driver' = "idle"
  /\ open' = open \ {"turn"} /\ temps' = temps \ {"attachment"}
  /\ taken' = 0 /\ batch' = <<>> /\ last' = "" /\ more' = 0 /\ said' = <<>>
  /\ UNCHANGED <<kind, schema, task, child, rd, log, unread, sent>>

Take == TakeTool \/ TakeText \/ TakeFile \/ TakeStructured \/ TakeDone \/ TakeError \/ StreamCloses

Next ==
  \/ \E r \in Requests : Prompt(r[1], r[2], r[3])
  \/ \E k \in Kinds : Passthrough(k)
  \/ TaskNext /\ UNCHANGED driverVars
  \/ Take \/ SendHangs \/ SendReturns \/ EndTurn

Spec == Init /\ [][Next]_vars

(* The task goes on: a silent child is killed after 5 minutes, one that has *)
(* exited is noticed.                                                       *)
TaskSteps ==
  /\ \/ Spawn \/ Timeout \/ Flush \/ Reap \/ CollectStderr \/ Conclude \/ Guard \/ Subcommand
     \/ child # "running" /\ EndOfStream
  /\ UNCHANGED driverVars

(* An assumption on the children: one that has said all there was exits,   *)
(* and a claude one exits and leaves nobody its stdout.  Of the processes   *)
(* they start, and of the chat's server, nothing is assumed.               *)
ChildSteps == ChildExits /\ (task = "wait" \/ kind = "claude") /\ UNCHANGED driverVars

FairSpec ==
  Spec /\ WF_vars(TaskSteps) /\ WF_vars(ChildSteps) /\ WF_vars(Take \/ EndTurn)

------------------------------------------------------------------------------
TypeOK ==
  /\ kind \in Kinds /\ schema \in {"none", "hook", "plain", "bad"}
  /\ task \in {"idle", "spawn", "sub", "reading", "flush", "wait", "stderr", "held", "guard",
              "over"}
  /\ child \in {"none", "running", "ok", "failed"}
  /\ unread \in BOOLEAN
  /\ temps \subseteq {"attachment", "schema"} /\ open \subseteq {"task", "turn"}
  /\ driver \in {"idle", "driving", "done", "error", "closed", "stuck"}
  /\ taken \in 0..Len(sent) /\ more \in Nat

(* However the task of a subprocess ends - refused request, failed spawn,  *)
(* read error, timeout, panic, non-zero exit - its stream ends with a Done *)
(* and has no other ("exactly one Done", lifecycle.rs); claude's has one   *)
(* at the end or none.                                                     *)
DoneOnce ==
  task = "over" =>
    LET dones == {i \in DOMAIN sent : sent[i].type = "Done"}
    IN  /\ dones \subseteq {Len(sent)}
        /\ kind # "claude" => dones # {}

ToolEvents == {i \in 1..taken : sent[i].type = "Tool"}
SameRun(i, j) == \A t \in ToolEvents : t \in i..j => sent[t].arg = sent[i].arg
IsSaid(i) == \E m \in ToSet(said) : m.event = i

(* The chat hears of things in the order in which they happened.           *)
SaidInOrder == \A j, k \in DOMAIN said : j < k => said[j].event < said[k].event

(* A call of another tool than the one before is shown, and every other    *)
(* event as well.                                                          *)
NothingSkipped ==
  driver \in {"done", "error", "closed"} =>
    \A i \in 1..taken :
      \/ IsSaid(i)
      \/ sent[i].type = "Done"
      \/ /\ i \in ToolEvents
         /\ \E t \in ToolEvents : t < i /\ SameRun(t, i)

(* "(+N more)" stands for N calls of the tool it is written behind.        *)
CountsTrue ==
  \A m \in ToSet(said) :
    m.more > 0 =>
      \E j \in ToolEvents :
        /\ SameRun(m.event, j)
        /\ Cardinality({t \in ToolEvents : m.event < t /\ t <= j}) = m.more

(* drive_harness batches and counts tool calls across texts, files, errors *)
(* and the clock, and yet the chat is told of everything, in order, and    *)
(* never of more calls than there were.                                    *)
ChatFaithful == SaidInOrder /\ NothingSkipped /\ CountsTrue

IsText(l) == l.type \in {"agent_message", "delta", "message", "text"}
Carried(n) == \E i \in 1..taken : IsSaid(i) /\ n \in ToSet(sent[i].lines)

Starts(id) == {n \in DOMAIN log : log[n].type \in {"item.started", "tool_use"} /\ log[n].id = id}
CallEvents(id) == {i \in ToolEvents : \E n \in ToSet(sent[i].lines) : log[n].id = id}

(* The answer of a turn that ended without an error has been told, however *)
(* it was buffered, flushed or paired on the way: every text that was read *)
(* (of a structured codex turn, if the turn was completed), and every call *)
(* at most once, surely once if it has its id for itself and the calls fit *)
(* the buffer.  What was printed and not read lies behind the line that    *)
(* ended the loop; for opencode that is the first step_finish with no step *)
(* open, and the text of a later step is lost (EveryStepRead).             *)
TextsTold ==
  \A n \in DOMAIN log :
    IsText(log[n]) =>
      \/ Carried(n)
      \/ Structured /\ (\A k \in DOMAIN log : log[k].type # "turn.completed")

EndsLoop(l) == l.type \in {"turn.completed", "result", "step_finish"}

AllRead == unread => log # <<>> /\ EndsLoop(log[Len(log)])

CallsTold ==
  kind \in {"codex", "gemini"} =>
    \A id \in ToolIds :
      /\ Cardinality(CallEvents(id)) <= Cardinality(Starts(id))
      /\ Cardinality(UNION {Starts(i) : i \in ToolIds}) <= Cap /\ Cardinality(Starts(id)) = 1
           => Cardinality(CallEvents(id)) = 1

TurnTold == driver = "done" => TextsTold /\ CallsTold /\ AllRead

(* A file a subprocess was given stays while it runs, unless the turn was  *)
(* given up with an error: then only the schema file does.  claude is      *)
(* exempt: its attachments go with its task, and a child that outlives the *)
(* five seconds of the drain is still there.                               *)
FilesOutlast ==
  [][temps' # temps /\ child = "running" /\ child' = "running" /\ kind # "claude" =>
       driver = "error" /\ temps' = temps \ {"attachment"}]_vars

(* A turn ends, and its task: the main loop waits for the one, and a task  *)
(* that stays holds a child and the files.  Nothing of it is left then: no *)
(* temporary file, no run that was announced and never finished, no child. *)
(* What keeps it for ever is a chat that does not answer a send, or a       *)
(* process that never closes the stderr it has from the child.             *)
Tidy == temps = {} /\ open = {} /\ (kind # "claude" => child # "running")

TurnEnds == driver = "driving" ~> (AtRest /\ Tidy) \/ driver = "stuck" \/ [](task = "held")

(* The steps of a multi-step opencode flow are all read ("the read loop    *)
(* must NOT terminate after the first step_finish", opencode.rs).          *)
EveryStepRead ==
  kind = "opencode" /\ driver = "done" => ~unread
==============================================================================
